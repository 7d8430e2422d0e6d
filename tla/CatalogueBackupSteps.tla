------------------------ MODULE CatalogueBackupSteps ------------------------
(***************************************************************************)
(* Type correctness of CatalogueBackup, and what one call of an execution  *)
(* does to its own state, to the row of its attempt and to its Workflow    *)
(* instance; and the few kinds of step there are for the fences and the    *)
(* rows.  CatalogueBackupProofs and CatalogueBackupRestore rest on these.  *)
(***************************************************************************)
EXTENDS CatalogueBackup, TLAPS

(* Most steps are first-order: Zenon proves them unless they name SMT. *)
USE ZenonT(30)

(* The types of the executions, as one conjunct. *)
RunnersTyped ==
  /\ runner \in [Runners -> Executions]
  /\ \A r \in Runners : runner[r].pc # "idle" => runner[r].a \in Attempts

(* Only the execution r moves, or only the row, the instance of attempt a. *)
OnlyRunner(r) == \A q \in Runners : q # r => runner'[q] = runner[q]
OnlyRow(a) == \A b \in Attempts : b # a => attempt'[b] = attempt[b]
OnlyInstance(a) == \A b \in Attempts : b # a => workflow'[b] = workflow[b]

(* The execution r ends, giving back the try of its Workflow if it holds    *)
(* one; a try is only ever held by a running instance.                      *)
Ended(r) ==
  /\ OnlyRunner(r) /\ runner'[r] = Idle
  /\ OnlyInstance(runner[r].a)
  /\ IF workflow[runner[r].a].runner = r
     THEN /\ workflow'[runner[r].a].runner = None
          /\ workflow'[runner[r].a].status \in {workflow[runner[r].a].status, "complete", "errored"}
     ELSE workflow'[runner[r].a] = workflow[runner[r].a]

(* The execution r goes on with one of the calls pcs and with what it read. *)
Moved(r, pcs) ==
  /\ OnlyRunner(r) /\ workflow' = workflow
  /\ runner'[r].pc \in pcs
  /\ runner'[r].a = runner[r].a /\ runner'[r].mode = runner[r].mode
  /\ runner'[r].read = runner[r].read
  /\ runner'[r].generation = runner[r].generation /\ runner'[r].target = runner[r].target

(* The row of a goes to state s with the same identity and target. *)
RowTo(a, s) ==
  /\ OnlyRow(a)
  /\ attempt'[a].state = s
  /\ attempt'[a].revision = attempt[a].revision /\ attempt'[a].operation = attempt[a].operation
  /\ attempt'[a].generation = attempt[a].generation /\ attempt'[a].target = attempt[a].target

-----------------------------------------------------------------------------
(* Updates of an execution's fields. *)
LEMMA PcUpdate ==
  ASSUME NEW x \in Executions, NEW pc \in Calls, NEW y, y = [x EXCEPT !.pc = pc]
  PROVE  /\ y \in Executions /\ y.pc = pc /\ y.a = x.a /\ y.mode = x.mode /\ y.read = x.read
         /\ y.err = x.err /\ y.generation = x.generation /\ y.target = x.target
         /\ y.dump = x.dump /\ y.snapshot = x.snapshot
  BY DEF Executions

(* A new execution. *)
LEMMA IdleFields ==
  /\ Idle \in Executions /\ Idle.pc = "idle" /\ Idle.generation = 0 /\ Idle.target = 0
  /\ Idle.mode = "backup"
<1>1. 0 \in 0..MaxRevision
  BY BackupAssumption, SMT
<1>2. NoDump \in Dumps
  BY <1>1 DEF NoDump, Dumps
<1> QED
  BY <1>2 DEF Idle, Executions, States

-----------------------------------------------------------------------------
LEMMA NoAttemptFields ==
  /\ NoAttempt \in AttemptRows /\ NoAttempt.state = "absent" /\ NoAttempt.operation = None
  /\ NoAttempt.generation = 0 /\ NoAttempt.target = 0 /\ NoAttempt.linked = None
<1>1. 0 \in 0..MaxRevision
  BY BackupAssumption, SMT
<1> QED
  BY <1>1 DEF NoAttempt, AttemptRows, States

-----------------------------------------------------------------------------
(* The ways an execution moves. *)
LEMMA GotoMoves ==
  ASSUME RunnersTyped, NEW r \in Runners, NEW y \in Executions,
         y.pc # "idle" => y.a \in Attempts, Goto(r, y)
  PROVE  /\ RunnersTyped' /\ OnlyRunner(r) /\ runner'[r] = y /\ workflow' = workflow
  BY DEF Goto, RunnersTyped, OnlyRunner

LEMMA ContinueMoves ==
  ASSUME RunnersTyped, NEW r \in Runners, runner[r].a \in Attempts, NEW pc \in Calls,
         Continue(r, pc)
  PROVE  /\ RunnersTyped' /\ Moved(r, {pc})
         /\ runner'[r].err = runner[r].err /\ runner'[r].dump = runner[r].dump
         /\ runner'[r].snapshot = runner[r].snapshot
<1>1. runner[r] \in Executions
  BY DEF RunnersTyped
<1> DEFINE y == [runner[r] EXCEPT !.pc = pc]
<1>2. /\ y \in Executions /\ y.pc = pc /\ y.a = runner[r].a /\ y.mode = runner[r].mode
      /\ y.read = runner[r].read /\ y.err = runner[r].err
      /\ y.generation = runner[r].generation /\ y.target = runner[r].target
      /\ y.dump = runner[r].dump /\ y.snapshot = runner[r].snapshot
  BY <1>1, PcUpdate, SMT
<1>3. Goto(r, y)
  BY DEF Continue
<1> HIDE DEF y
<1>4. /\ RunnersTyped' /\ OnlyRunner(r) /\ runner'[r] = y /\ workflow' = workflow
  BY <1>2, <1>3, GotoMoves
<1> QED
  BY <1>2, <1>4 DEF Moved

(* Going on with an exception noted, a snapshot, a dump, a target or a      *)
(* generation.                                                              *)
LEMMA ErrMoves ==
  ASSUME RunnersTyped, NEW r \in Runners, runner[r].a \in Attempts, NEW pc \in Calls,
         NEW err \in BOOLEAN,
         Goto(r, [runner[r] EXCEPT !.pc = pc, !.err = err])
  PROVE  /\ RunnersTyped' /\ OnlyRunner(r) /\ workflow' = workflow
         /\ runner'[r].pc = pc /\ runner'[r].a = runner[r].a /\ runner'[r].mode = runner[r].mode
         /\ runner'[r].read = runner[r].read
         /\ runner'[r].generation = runner[r].generation /\ runner'[r].target = runner[r].target
         /\ runner'[r].err = err /\ runner'[r].dump = runner[r].dump
         /\ runner'[r].snapshot = runner[r].snapshot
<1>1. runner[r] \in Executions
  BY DEF RunnersTyped
<1> DEFINE y == [runner[r] EXCEPT !.pc = pc, !.err = err]
<1>2. /\ y \in Executions /\ y.a = runner[r].a
         /\ y.pc = pc /\ y.a = runner[r].a /\ y.mode = runner[r].mode
         /\ y.read = runner[r].read
         /\ y.generation = runner[r].generation /\ y.target = runner[r].target
         /\ y.err = err /\ y.dump = runner[r].dump
         /\ y.snapshot = runner[r].snapshot
  BY <1>1 DEF Executions
<1>3. Goto(r, y)
  OBVIOUS
<1> HIDE DEF y
<1>4. /\ RunnersTyped' /\ OnlyRunner(r) /\ runner'[r] = y /\ workflow' = workflow
  BY <1>2, <1>3, GotoMoves
<1> QED
  BY <1>2, <1>4

LEMMA SnapshotMoves ==
  ASSUME RunnersTyped, NEW r \in Runners, runner[r].a \in Attempts, NEW pc \in Calls,
         NEW n \in Nat,
         Goto(r, [runner[r] EXCEPT !.pc = pc, !.snapshot = n])
  PROVE  /\ RunnersTyped' /\ OnlyRunner(r) /\ workflow' = workflow
         /\ runner'[r].pc = pc /\ runner'[r].a = runner[r].a /\ runner'[r].mode = runner[r].mode
         /\ runner'[r].read = runner[r].read
         /\ runner'[r].generation = runner[r].generation /\ runner'[r].target = runner[r].target
         /\ runner'[r].err = runner[r].err /\ runner'[r].dump = runner[r].dump
         /\ runner'[r].snapshot = n
<1>1. runner[r] \in Executions
  BY DEF RunnersTyped
<1> DEFINE y == [runner[r] EXCEPT !.pc = pc, !.snapshot = n]
<1>2. /\ y \in Executions /\ y.a = runner[r].a
         /\ y.pc = pc /\ y.a = runner[r].a /\ y.mode = runner[r].mode
         /\ y.read = runner[r].read
         /\ y.generation = runner[r].generation /\ y.target = runner[r].target
         /\ y.err = runner[r].err /\ y.dump = runner[r].dump
         /\ y.snapshot = n
  BY <1>1 DEF Executions
<1>3. Goto(r, y)
  OBVIOUS
<1> HIDE DEF y
<1>4. /\ RunnersTyped' /\ OnlyRunner(r) /\ runner'[r] = y /\ workflow' = workflow
  BY <1>2, <1>3, GotoMoves
<1> QED
  BY <1>2, <1>4

LEMMA DumpMoves ==
  ASSUME RunnersTyped, NEW r \in Runners, runner[r].a \in Attempts, NEW pc \in Calls,
         NEW d \in Dumps,
         Goto(r, [runner[r] EXCEPT !.pc = pc, !.dump = d])
  PROVE  /\ RunnersTyped' /\ OnlyRunner(r) /\ workflow' = workflow
         /\ runner'[r].pc = pc /\ runner'[r].a = runner[r].a /\ runner'[r].mode = runner[r].mode
         /\ runner'[r].read = runner[r].read
         /\ runner'[r].generation = runner[r].generation /\ runner'[r].target = runner[r].target
         /\ runner'[r].err = runner[r].err /\ runner'[r].dump = d
         /\ runner'[r].snapshot = runner[r].snapshot
<1>1. runner[r] \in Executions
  BY DEF RunnersTyped
<1> DEFINE y == [runner[r] EXCEPT !.pc = pc, !.dump = d]
<1>2. /\ y \in Executions /\ y.a = runner[r].a
         /\ y.pc = pc /\ y.a = runner[r].a /\ y.mode = runner[r].mode
         /\ y.read = runner[r].read
         /\ y.generation = runner[r].generation /\ y.target = runner[r].target
         /\ y.err = runner[r].err /\ y.dump = d
         /\ y.snapshot = runner[r].snapshot
  BY <1>1 DEF Executions
<1>3. Goto(r, y)
  OBVIOUS
<1> HIDE DEF y
<1>4. /\ RunnersTyped' /\ OnlyRunner(r) /\ runner'[r] = y /\ workflow' = workflow
  BY <1>2, <1>3, GotoMoves
<1> QED
  BY <1>2, <1>4

LEMMA TryFailedFields ==
  ASSUME NEW w \in Instances
  PROVE  /\ TryFailed(w) \in Instances /\ TryFailed(w).runner = None
         /\ TryFailed(w).status \in {w.status, "errored"}
<1>1. CASE w.tries + 1 < StepTries
  <2>1. w.tries + 1 \in 0..StepTries - 1
    BY <1>1, BackupAssumption, SMT DEF Instances
  <2>2. PICK n \in 0..StepTries - 1 : n = w.tries + 1
    BY <2>1
  <2>3. TryFailed(w) = [w EXCEPT !.tries = n, !.runner = None]
    BY <1>1, <2>2 DEF TryFailed
  <2> QED
    BY <2>3 DEF Instances
<1>2. CASE ~(w.tries + 1 < StepTries) /\ w.step = "backup"
  <2>1. 0 \in 0..StepTries - 1
    BY BackupAssumption, SMT
  <2>2. TryFailed(w) = [w EXCEPT !.step = "failure", !.tries = 0, !.runner = None]
    BY <1>2 DEF TryFailed
  <2> QED
    BY <2>1, <2>2 DEF Instances
<1>3. CASE ~(w.tries + 1 < StepTries) /\ w.step # "backup"
  <2>2. TryFailed(w) = [w EXCEPT !.status = "errored", !.runner = None]
    BY <1>3 DEF TryFailed
  <2> QED
    BY <2>2 DEF Instances
<1> QED
  BY <1>1, <1>2, <1>3

LEMMA EndMoves ==
  ASSUME RunnersTyped, workflow \in [Attempts -> Instances], NEW r \in Runners,
         runner[r].a \in Attempts, Throw(r) \/ Return(r)
  PROVE  RunnersTyped' /\ workflow' \in [Attempts -> Instances] /\ Ended(r)
<1> DEFINE a == runner[r].a
<1>1. RunnersTyped' /\ OnlyRunner(r) /\ runner'[r] = Idle
  BY IdleFields DEF Throw, Return, RunnersTyped, OnlyRunner
<1>2. workflow[a] \in Instances
  OBVIOUS
<1>3. CASE workflow[a].runner # r
  BY <1>1, <1>3 DEF Throw, Return, Ended, OnlyInstance
<1>4. CASE workflow[a].runner = r /\ Throw(r)
  <2>1. workflow' = [workflow EXCEPT ![a] = TryFailed(workflow[a])]
    BY <1>4 DEF Throw
  <2> QED
    BY <1>1, <1>2, <1>4, <2>1, TryFailedFields DEF Ended, OnlyInstance
<1>5. CASE workflow[a].runner = r /\ Return(r)
  <2> DEFINE w == [workflow[a] EXCEPT !.status = "complete", !.runner = None]
  <2>1. w \in Instances /\ w.runner = None /\ w.status = "complete"
    BY <1>2 DEF Instances
  <2>2. workflow' = [workflow EXCEPT ![a] = w]
    BY <1>5 DEF Return
  <2> HIDE DEF w
  <2> QED
    BY <1>1, <1>2, <1>5, <2>1, <2>2 DEF Ended, OnlyInstance
<1> QED
  BY <1>3, <1>4, <1>5

(* Leaving the leased section ends a clean-up that failed, and takes any    *)
(* other execution to the clearing of the guard.                            *)
LEMMA LeaveMoves ==
  ASSUME RunnersTyped, workflow \in [Attempts -> Instances], NEW r \in Runners,
         runner[r].a \in Attempts, NEW err \in BOOLEAN, Leave(r, err)
  PROVE  /\ RunnersTyped' /\ workflow' \in [Attempts -> Instances]
         /\ Ended(r) \/ Moved(r, {"clear"})
<1>1. CASE Throw(r)
  BY <1>1, EndMoves
<1>2. CASE Goto(r, [runner[r] EXCEPT !.pc = "clear", !.err = err])
  <2>1. "clear" \in Calls
    BY DEF Calls
  <2> QED
    BY <1>2, <2>1, ErrMoves DEF Moved
<1> QED
  BY <1>1, <1>2 DEF Leave

-----------------------------------------------------------------------------
(* The calls only a try of the backup step makes. *)
BackupCalls == Calls \ {"lease", "drop", "release", "rebuild", "clear", "inspect", "fail"}

(* What the proofs take for granted of every state: the types, that a row   *)
(* not yet inserted is empty, that an execution only takes up a row that    *)
(* was active or pending when it read it, and which executions make which   *)
(* calls.                                                                   *)
WellFormed ==
  /\ TypeOK
  /\ \A a \in Attempts : attempt[a].state = "absent" => attempt[a] = NoAttempt
  /\ \A r \in Runners :
       /\ runner[r].pc \in {"check", "evidence"} => runner[r].read \in Busy \cup {"pending"}
       /\ runner[r].pc \in BackupCalls => runner[r].mode = "backup"
       /\ runner[r].pc = "inspect" => runner[r].mode # "backup"

(* The types of what an execution's call changes. *)
StepTyped ==
  /\ RunnersTyped /\ workflow \in [Attempts -> Instances] /\ attempt \in [Attempts -> AttemptRows]

(* The end of an execution, or one more call of it. *)
LEMMA StepTypes ==
  ASSUME WellFormed, NEW r \in Runners
  PROVE  /\ StepTyped /\ runner[r] \in Executions
         /\ runner[r].pc # "idle" => runner[r].a \in Attempts
  BY DEF WellFormed, TypeOK, StepTyped, RunnersTyped

LEMMA MovedTyped ==
  ASSUME WellFormed, NEW r \in Runners, runner[r].pc # "idle", NEW pc \in Calls,
         Throw(r) \/ Return(r) \/ Continue(r, pc), attempt' = attempt
  PROVE  StepTyped' /\ (Ended(r) \/ Moved(r, {pc}))
  BY StepTypes, EndMoves, ContinueMoves DEF StepTyped, Continue, Goto

(* The insertion: nothing, or a new row that belongs to the acceptance of   *)
(* the attempt it retries or of the catalogue's head.                       *)
Inserted(a) ==
  /\ attempt[a] = NoAttempt /\ OnlyRow(a)
  /\ attempt'[a].state = "pending"
  /\ attempt'[a].revision = request[a].revision /\ attempt'[a].operation = IntendedOperation(a)
  /\ attempt'[a].generation = 0 /\ attempt'[a].target = 0
  /\ RetryEvidenceValid(a, request[a].revision, request[a].linked)
  /\ request[a].revision \in {0, catalogue.revision}

ReadBack(r) ==
  /\ OnlyRunner(r) /\ workflow' = workflow
  /\ runner'[r].pc = "check" /\ runner'[r].a = runner[r].a /\ runner'[r].mode = runner[r].mode
  /\ runner'[r].read = attempt'[runner[r].a].state
  /\ runner'[r].read \in Busy \cup {"pending"}
  /\ runner'[r].generation = attempt'[runner[r].a].generation
  /\ runner'[r].target = attempt'[runner[r].a].target

LEMMA IntendedOperationType ==
  ASSUME WellFormed, NEW a \in Attempts
  PROVE  IntendedOperation(a) \in Attempts \cup {None}
  BY DEF WellFormed, TypeOK, IntendedOperation, AttemptRows, RequestRows

LEMMA InsertEffect ==
  ASSUME WellFormed, NEW r \in Runners, InsertPendingBackup(r)
  PROVE  /\ StepTyped'
         /\ attempt' = attempt \/ Inserted(runner[r].a)
         /\ Ended(r) \/ ReadBack(r)
<1> DEFINE a == runner[r].a
<1>1. StepTyped /\ runner[r] \in Executions /\ a \in Attempts
  BY StepTypes DEF InsertPendingBackup
<1>2. /\ request[a] \in RequestRows /\ attempt[a] \in AttemptRows
      /\ request[a].revision \in 0..MaxRevision /\ request[a].linked \in Attempts \cup {None}
  BY <1>1 DEF WellFormed, TypeOK, RequestRows
<1> DEFINE new == [NoAttempt EXCEPT !.state = "pending", !.revision = request[a].revision,
                                    !.linked = request[a].linked,
                                    !.operation = IntendedOperation(a)]
           row == IF attempt[a] # NoAttempt THEN attempt[a] ELSE new
           valid == /\ RetryEvidenceValid(a, request[a].revision, request[a].linked)
                    /\ attempt[a] = NoAttempt => request[a].revision \in {0, catalogue.revision}
           y == [runner[r] EXCEPT !.pc = "check", !.read = row.state,
                                  !.generation = row.generation, !.target = row.target]
<1>3. /\ new \in AttemptRows /\ new.state = "pending" /\ new.revision = request[a].revision
      /\ new.operation = IntendedOperation(a) /\ new.generation = 0 /\ new.target = 0
  <2>1. IntendedOperation(a) \in Attempts \cup {None}
    BY <1>1, IntendedOperationType
  <2> QED
    BY <1>2, <2>1, NoAttemptFields DEF AttemptRows, States
<1>4. /\ attempt' = IF valid THEN [attempt EXCEPT ![a] = row] ELSE attempt
      /\ \/ Return(r) \/ Throw(r)
         \/ valid /\ row.state \notin Terminal /\ Goto(r, y)
  BY DEF InsertPendingBackup
<1> HIDE DEF new
<1>5. /\ row \in AttemptRows /\ row.state \in States /\ row.generation \in Nat
      /\ row.target \in Nat
  BY <1>2, <1>3 DEF AttemptRows
<1>6. row.state # "absent"
  BY <1>1, <1>2, <1>3, NoAttemptFields DEF WellFormed
<1>7. attempt' = attempt \/ Inserted(a)
  <2>1. CASE attempt[a] # NoAttempt
    BY <1>1, <1>4, <2>1 DEF StepTyped
  <2>2. CASE attempt[a] = NoAttempt /\ valid
    BY <1>1, <1>3, <1>4, <2>2 DEF StepTyped, Inserted, OnlyRow
  <2> QED
    BY <1>4, <2>1, <2>2
<1>8. attempt' \in [Attempts -> AttemptRows]
  BY <1>1, <1>4, <1>5 DEF StepTyped
<1>9. CASE Return(r) \/ Throw(r)
  BY <1>1, <1>7, <1>8, <1>9, EndMoves DEF StepTyped
<1>10. CASE valid /\ row.state \notin Terminal /\ Goto(r, y)
  <2>1. /\ y \in Executions /\ y.pc = "check" /\ y.a = a /\ y.mode = runner[r].mode
        /\ y.read = row.state /\ y.generation = row.generation /\ y.target = row.target
    <3> "check" \in Calls
      BY DEF Calls
    <3> HIDE DEF row
    <3> QED
      BY <1>1, <1>5 DEF Executions
  <2> HIDE DEF y
  <2>2. /\ RunnersTyped' /\ OnlyRunner(r) /\ runner'[r] = y /\ workflow' = workflow
    BY <1>1, <1>10, <2>1, GotoMoves DEF StepTyped
  <2>3. attempt'[a] = row
    BY <1>1, <1>4, <1>10 DEF StepTyped
  <2>4. row.state \in Busy \cup {"pending"}
    BY <1>5, <1>6, <1>10 DEF States, Terminal
  <2> HIDE DEF row
  <2>5. ReadBack(r)
    BY <2>1, <2>2, <2>3, <2>4 DEF ReadBack
  <2> QED
    BY <1>1, <1>7, <1>8, <2>2, <2>5 DEF StepTyped
<1> QED
  BY <1>4, <1>9, <1>10

(* The check fails a stale attempt, or goes on. *)
LEMMA CheckEffect ==
  ASSUME WellFormed, NEW r \in Runners, CheckOperationState(r)
  PROVE  /\ StepTyped'
         /\ \/ Ended(r) /\ attempt' = attempt
            \/ Ended(r) /\ attempt[runner[r].a].state \notin Terminal /\ RowTo(runner[r].a, "failed")
            \/ Moved(r, {"evidence"}) /\ attempt' = attempt
<1> DEFINE a == runner[r].a
<1>1. /\ StepTyped /\ runner[r] \in Executions /\ a \in Attempts /\ attempt[a] \in AttemptRows
  BY StepTypes DEF CheckOperationState, StepTyped
<1>2. "failed" \in States /\ "evidence" \in Calls
  BY DEF States, Terminal, Calls
<1>3. \/ Throw(r) /\ attempt' = attempt
      \/ /\ Throw(r) /\ attempt[a].state \notin Terminal
         /\ attempt' = [attempt EXCEPT ![a].state = "failed"]
      \/ /\ attempt' = attempt
         /\ \E err \in BOOLEAN : Goto(r, [runner[r] EXCEPT !.pc = "evidence", !.err = err])
  BY DEF CheckOperationState
<1>4. CASE Throw(r) /\ attempt' = attempt
  BY <1>1, <1>4, EndMoves DEF StepTyped
<1>5. CASE /\ Throw(r) /\ attempt[a].state \notin Terminal
           /\ attempt' = [attempt EXCEPT ![a].state = "failed"]
  <2>1. attempt' \in [Attempts -> AttemptRows] /\ RowTo(a, "failed")
    BY <1>1, <1>2, <1>5 DEF StepTyped, AttemptRows, RowTo, OnlyRow
  <2> QED
    BY <1>1, <1>5, <2>1, EndMoves DEF StepTyped
<1>6. ASSUME attempt' = attempt, NEW err \in BOOLEAN,
             Goto(r, [runner[r] EXCEPT !.pc = "evidence", !.err = err])
      PROVE  StepTyped' /\ Moved(r, {"evidence"})
  <2>1. /\ RunnersTyped' /\ Moved(r, {"evidence"})
    BY <1>1, <1>2, <1>6, ErrMoves DEF StepTyped, Moved
  <2> QED
    BY <1>1, <1>6, <2>1 DEF StepTyped, Moved
<1> QED
  BY <1>3, <1>4, <1>5, <1>6

(* Where a later try takes up an attempt, by the state it read. *)
LEMMA ResumePoints ==
  /\ ResumeAt["pending"] = "begin" /\ ResumeAt["exporting"] = "object"
  /\ ResumeAt["restoring_verification"] = "prepare" /\ ResumeAt["verifying"] = "verify"
BY DEF ResumeAt

(* The evidence leads to the call at which the state that was read resumes. *)
LEMMA EvidenceEffect ==
  ASSUME WellFormed, NEW r \in Runners, CaptureVerificationEvidence(r)
  PROVE  /\ StepTyped' /\ attempt' = attempt
         /\ Ended(r) \/ Moved(r, {ResumeAt[runner[r].read]})
<1>1. runner[r].read \in Busy \cup {"pending"} /\ runner[r].pc # "idle"
  BY DEF WellFormed, CaptureVerificationEvidence
<1>2. ResumeAt[runner[r].read] \in Calls
  BY <1>1, SMT DEF ResumeAt, Busy, Calls
<1>3. attempt' = attempt /\ (Throw(r) \/ Continue(r, ResumeAt[runner[r].read]))
  BY DEF CaptureVerificationEvidence, rows
<1> QED
  BY <1>1, <1>2, <1>3, MovedTyped

(* The batch that begins a backup applies wholly or not at all. *)
LEMMA BeginEffect ==
  ASSUME WellFormed, NEW r \in Runners, StartBackupExport(r)
  PROVE  /\ StepTyped'
         /\ \/ Ended(r) /\ attempt' = attempt /\ UNCHANGED operationStateVars
            \/ /\ Moved(r, {"object"}) /\ PendingBackupStartable(runner[r].a)
               /\ RowTo(runner[r].a, "exporting")
               /\ IF Native(runner[r].a) THEN UNCHANGED operationStateVars
                                         ELSE ReserveBackupOperation
<1> DEFINE a == runner[r].a
<1>1. /\ StepTyped /\ runner[r] \in Executions /\ a \in Attempts /\ attempt[a] \in AttemptRows
  BY StepTypes DEF StartBackupExport, StepTyped
<1>2. "exporting" \in States /\ "object" \in Calls
  BY DEF States, Busy, Calls
<1>3. CASE Throw(r) /\ attempt' = attempt /\ UNCHANGED operationStateVars
  BY <1>1, <1>3, EndMoves DEF StepTyped
<1>4. CASE /\ PendingBackupStartable(a) /\ Continue(r, "object")
           /\ attempt' = [attempt EXCEPT ![a].state = "exporting"]
           /\ IF Native(a) THEN UNCHANGED operationStateVars ELSE ReserveBackupOperation
  <2>1. attempt' \in [Attempts -> AttemptRows] /\ RowTo(a, "exporting")
    BY <1>1, <1>2, <1>4 DEF StepTyped, AttemptRows, RowTo, OnlyRow
  <2> QED
    BY <1>1, <1>2, <1>4, <2>1, ContinueMoves DEF StepTyped, Continue, Goto
<1> QED
  BY <1>3, <1>4 DEF StartBackupExport

-----------------------------------------------------------------------------
(* The calls of the snapshot, which touch no row. *)
LEMMA FindEffect ==
  ASSUME WellFormed, NEW r \in Runners, FindRetainedObject(r)
  PROVE  /\ StepTyped' /\ attempt' = attempt
         /\ Moved(r, {IF object[runner[r].a].stored THEN "exported" ELSE "block"})
<1> DEFINE pc == IF object[runner[r].a].stored THEN "exported" ELSE "block"
<1>1. pc \in Calls /\ runner[r].pc # "idle"
  BY DEF Calls, FindRetainedObject
<1>2. Continue(r, pc) /\ attempt' = attempt
  BY DEF FindRetainedObject, rows
<1> HIDE DEF pc
<1>3. StepTyped' /\ attempt' = attempt /\ Moved(r, {pc})
  BY <1>1, <1>2, StepTypes, ContinueMoves DEF StepTyped, Moved
<1> QED
  BY <1>3 DEF pc

LEMMA GuardEffect ==
  ASSUME WellFormed, NEW r \in Runners, RaiseRestoreGuard(r)
  PROVE  /\ StepTyped' /\ attempt' = attempt
         /\ Moved(r, {IF Native(runner[r].a) THEN "fence" ELSE "lease"})
<1> DEFINE pc == IF Native(runner[r].a) THEN "fence" ELSE "lease"
<1>1. pc \in Calls /\ runner[r].pc # "idle"
  BY DEF Calls, RaiseRestoreGuard
<1>2. Continue(r, pc) /\ attempt' = attempt
  BY DEF RaiseRestoreGuard, rows
<1> HIDE DEF pc
<1>3. StepTyped' /\ attempt' = attempt /\ Moved(r, {pc})
  BY <1>1, <1>2, StepTypes, ContinueMoves DEF StepTyped, Moved
<1> QED
  BY <1>3 DEF pc

LEMMA FenceEffect ==
  ASSUME WellFormed, NEW r \in Runners, RaiseHealthFence(r)
  PROVE  StepTyped' /\ attempt' = attempt /\ Moved(r, {"capture"})
<1>1. "capture" \in Calls /\ runner[r].pc # "idle"
  BY DEF Calls, RaiseHealthFence
<1>2. Continue(r, "capture") /\ attempt' = attempt
  BY DEF RaiseHealthFence, rows
<1> QED
  BY <1>1, <1>2, StepTypes, ContinueMoves DEF StepTyped, Moved

LEMMA CaptureEffect ==
  ASSUME WellFormed, NEW r \in Runners, CaptureCompositionSnapshot(r)
  PROVE  /\ StepTyped' /\ attempt' = attempt
         /\ \/ Moved(r, {"lease"}) /\ runner'[r].snapshot = catalogue.contents
            \/ Moved(r, {"clear"})
<1>1. "lease" \in Calls /\ "clear" \in Calls /\ runner[r].pc # "idle"
  BY DEF Calls, CaptureCompositionSnapshot
<1>2. attempt' = attempt /\ catalogue.contents \in Nat
  BY DEF CaptureCompositionSnapshot, rows, WellFormed, TypeOK
<1>3. \/ Goto(r, [runner[r] EXCEPT !.pc = "lease", !.snapshot = catalogue.contents])
      \/ Goto(r, [runner[r] EXCEPT !.pc = "clear", !.err = TRUE])
  BY DEF CaptureCompositionSnapshot
<1>4. CASE Goto(r, [runner[r] EXCEPT !.pc = "lease", !.snapshot = catalogue.contents])
  <2>1. PICK n \in Nat : n = catalogue.contents
    BY <1>2
  <2>2. Goto(r, [runner[r] EXCEPT !.pc = "lease", !.snapshot = n])
    BY <1>4, <2>1
  <2>3. RunnersTyped /\ runner[r].a \in Attempts
    BY <1>1, StepTypes DEF StepTyped
  <2>4. /\ RunnersTyped' /\ Moved(r, {"lease"}) /\ workflow' = workflow
        /\ runner'[r].snapshot = n
    BY <1>1, <2>2, <2>3, SnapshotMoves DEF Moved
  <2> QED
    BY <1>2, <2>1, <2>4, StepTypes DEF StepTyped
<1>5. CASE Goto(r, [runner[r] EXCEPT !.pc = "clear", !.err = TRUE])
  BY <1>1, <1>2, <1>5, StepTypes, ErrMoves DEF StepTyped, Moved
<1> QED
  BY <1>3, <1>4, <1>5

LEMMA LeaseEffect ==
  ASSUME WellFormed, NEW r \in Runners, AcquireSearchLease(r)
  PROVE  /\ StepTyped' /\ attempt' = attempt
         /\ \/ /\ Moved(r, {"drop"}) /\ runner'[r].snapshot = runner[r].snapshot
               /\ search' = [search EXCEPT !.state = "reconstructing", !.owner = runner[r].a,
                                           !.expired = FALSE]
            \/ (Ended(r) \/ Moved(r, {"clear"})) /\ search' = search
<1>1. "drop" \in Calls /\ runner[r].pc # "idle" /\ attempt' = attempt
  BY DEF Calls, AcquireSearchLease, rows
<1>2. \/ /\ Continue(r, "drop")
         /\ search' = [search EXCEPT !.state = "reconstructing", !.owner = runner[r].a,
                                     !.expired = FALSE]
      \/ Leave(r, TRUE) /\ search' = search
  BY DEF AcquireSearchLease
<1>3. CASE /\ Continue(r, "drop")
           /\ search' = [search EXCEPT !.state = "reconstructing", !.owner = runner[r].a,
                                       !.expired = FALSE]
  BY <1>1, <1>3, StepTypes, ContinueMoves DEF StepTyped, Moved
<1>4. CASE Leave(r, TRUE) /\ search' = search
  BY <1>1, <1>4, StepTypes, LeaveMoves DEF StepTyped
<1> QED
  BY <1>2, <1>3, <1>4

LEMMA DropEffect ==
  ASSUME WellFormed, NEW r \in Runners, DropSearchIndex(r)
  PROVE  /\ StepTyped' /\ attempt' = attempt
         /\ Moved(r, {IF runner[r].mode = "backup" THEN "dump" ELSE "rebuild"})
         /\ runner'[r].snapshot = runner[r].snapshot
<1> DEFINE pc == IF runner[r].mode = "backup" THEN "dump" ELSE "rebuild"
<1>1. pc \in Calls /\ runner[r].pc # "idle"
  BY DEF Calls, DropSearchIndex
<1>2. Continue(r, pc) /\ attempt' = attempt
  BY DEF DropSearchIndex, rows
<1> HIDE DEF pc
<1>3. /\ StepTyped' /\ attempt' = attempt /\ Moved(r, {pc})
      /\ runner'[r].snapshot = runner[r].snapshot
  BY <1>1, <1>2, StepTypes, ContinueMoves DEF StepTyped, Moved
<1> QED
  BY <1>3 DEF pc

LEMMA ExportEffect ==
  ASSUME WellFormed, NEW r \in Runners, ExportSql(r)
  PROVE  StepTyped' /\ attempt' = attempt /\ Moved(r, {"rebuild"})
<1>1. "rebuild" \in Calls /\ runner[r].pc # "idle" /\ attempt' = attempt
  BY DEF Calls, ExportSql, rows
<1>2. Dump \in Dumps
  <2>1. catalogue.revision \in 0..MaxRevision /\ catalogue.contents \in Nat
    BY DEF WellFormed, TypeOK
  <2>2. (~Writable) \in BOOLEAN
    OBVIOUS
  <2> QED
    BY <2>1, <2>2 DEF Dump, Dumps
<1>3. \/ Goto(r, [runner[r] EXCEPT !.pc = "rebuild", !.err = TRUE])
      \/ Goto(r, [runner[r] EXCEPT !.pc = "rebuild", !.dump = Dump])
  BY DEF ExportSql
<1>4. CASE Goto(r, [runner[r] EXCEPT !.pc = "rebuild", !.err = TRUE])
  BY <1>1, <1>4, StepTypes, ErrMoves DEF StepTyped, Moved
<1>5. CASE Goto(r, [runner[r] EXCEPT !.pc = "rebuild", !.dump = Dump])
  <2> HIDE DEF Dump
  <2> QED
    BY <1>1, <1>2, <1>5, StepTypes, DumpMoves DEF StepTyped, Moved
<1> QED
  BY <1>3, <1>4, <1>5

LEMMA LeavingEffect ==
  ASSUME WellFormed, NEW r \in Runners, ReleaseSearchLease(r) \/ ReconstructSearch(r)
  PROVE  StepTyped' /\ attempt' = attempt /\ (Ended(r) \/ Moved(r, {"clear"}))
<1>1. runner[r].pc # "idle" /\ attempt' = attempt
  BY DEF ReleaseSearchLease, ReconstructSearch, rows
<1>2. runner[r].err \in BOOLEAN
  BY StepTypes DEF Executions
<1>3. \E err \in BOOLEAN : Leave(r, err)
  <2>1. CASE ReleaseSearchLease(r)
    BY <2>1 DEF ReleaseSearchLease
  <2>2. CASE ReconstructSearch(r)
    <3> DEFINE err == \/ runner[r].err
                      \/ ~(/\ search.state = "reconstructing" /\ search.owner = runner[r].a
                           /\ ~search.indexed)
    <3>1. Leave(r, err) /\ err \in BOOLEAN
      BY <2>2 DEF ReconstructSearch
    <3> HIDE DEF err
    <3> QED
      BY <3>1
  <2> QED
    BY <2>1, <2>2
<1> QED
  BY <1>1, <1>3, StepTypes, LeaveMoves DEF StepTyped

LEMMA ClearEffect ==
  ASSUME WellFormed, NEW r \in Runners, ClearRestoreGuard(r)
  PROVE  /\ StepTyped' /\ attempt' = attempt
         /\ Ended(r) \/ Moved(r, {IF runner[r].mode = "backup" THEN "put" ELSE "fail"})
<1> DEFINE pc == IF runner[r].mode = "backup" THEN "put" ELSE "fail"
<1>1. pc \in Calls /\ runner[r].pc # "idle"
  BY DEF Calls, ClearRestoreGuard
<1>2. (Throw(r) \/ Continue(r, pc)) /\ attempt' = attempt
  BY DEF ClearRestoreGuard, rows
<1> HIDE DEF pc
<1>3. StepTyped' /\ attempt' = attempt /\ (Ended(r) \/ Moved(r, {pc}))
  BY <1>1, <1>2, MovedTyped
<1> QED
  BY <1>3 DEF pc

LEMMA InspectEffect ==
  ASSUME WellFormed, NEW r \in Runners, InspectSnapshotFence(r)
  PROVE  /\ StepTyped' /\ attempt' = attempt
         /\ Moved(r, {IF SnapshotLeftFenced(runner[r].a) THEN "lease" ELSE "fail"})
<1> DEFINE pc == IF SnapshotLeftFenced(runner[r].a) THEN "lease" ELSE "fail"
<1>1. pc \in Calls /\ runner[r].pc # "idle"
  BY DEF Calls, InspectSnapshotFence
<1>2. Continue(r, pc) /\ attempt' = attempt
  BY DEF InspectSnapshotFence, rows
<1> HIDE DEF pc
<1>3. StepTyped' /\ attempt' = attempt /\ Moved(r, {pc})
  BY <1>1, <1>2, StepTypes, ContinueMoves DEF StepTyped, Moved
<1> QED
  BY <1>3 DEF pc

-----------------------------------------------------------------------------
(* The calls from the retained object to the completion. *)
LEMMA RetainEffect ==
  ASSUME WellFormed, NEW r \in Runners, RetainObject(r)
  PROVE  /\ StepTyped' /\ attempt' = attempt
         /\ \/ Ended(r) /\ object' = object
            \/ /\ Moved(r, {"exported"}) /\ ~object[runner[r].a].stored
               /\ object' = [object EXCEPT ![runner[r].a] =
                    [stored |-> TRUE, dump |-> runner[r].dump, snapshot |-> runner[r].snapshot]]
<1>1. "exported" \in Calls /\ runner[r].pc # "idle" /\ attempt' = attempt
  BY DEF Calls, RetainObject, rows
<1>2. \/ Throw(r) /\ object' = object
      \/ /\ Continue(r, "exported") /\ ~object[runner[r].a].stored
         /\ object' = [object EXCEPT ![runner[r].a] =
              [stored |-> TRUE, dump |-> runner[r].dump, snapshot |-> runner[r].snapshot]]
  BY DEF RetainObject
<1>3. CASE Throw(r) /\ object' = object
  BY <1>1, <1>3, StepTypes, EndMoves DEF StepTyped
<1>4. CASE Continue(r, "exported")
  <2>1. StepTyped' /\ Moved(r, {"exported"})
    BY <1>1, <1>4, StepTypes, ContinueMoves DEF StepTyped, Moved
  <2>2. Throw(r) /\ object' = object => Ended(r)
    BY <1>1, StepTypes, EndMoves DEF StepTyped
  <2> QED
    BY <1>1, <1>2, <2>1, <2>2
<1> QED
  BY <1>2, <1>3, <1>4

(* An advance of the row from one state to another, or the end. *)
LEMMA AdvanceEffect ==
  ASSUME WellFormed, NEW r \in Runners, runner[r].pc # "idle", NEW where, NEW y \in AttemptRows,
         NEW s, NEW pc \in Calls, Advance(r, where, y, pc),
         y.state = s /\ y.revision = attempt[runner[r].a].revision,
         y.operation = attempt[runner[r].a].operation,
         y.generation = attempt[runner[r].a].generation, y.target = attempt[runner[r].a].target
  PROVE  /\ StepTyped'
         /\ \/ Ended(r) /\ attempt' = attempt
            \/ where /\ Moved(r, {pc}) /\ RowTo(runner[r].a, s)
<1> DEFINE a == runner[r].a
<1>1. StepTyped /\ a \in Attempts
  BY StepTypes
<1>2. CASE Throw(r) /\ attempt' = attempt
  BY <1>1, <1>2, EndMoves DEF StepTyped
<1>3. CASE where /\ Continue(r, pc) /\ attempt' = [attempt EXCEPT ![a] = y]
  <2>1. attempt' \in [Attempts -> AttemptRows] /\ RowTo(a, s)
    BY <1>1, <1>3 DEF StepTyped, RowTo, OnlyRow
  <2> QED
    BY <1>1, <1>3, <2>1, ContinueMoves DEF StepTyped, Moved
<1> QED
  BY <1>2, <1>3 DEF Advance

LEMMA ExportedEffect ==
  ASSUME WellFormed, NEW r \in Runners, TransitionExported(r)
  PROVE  /\ StepTyped'
         /\ \/ Ended(r) /\ attempt' = attempt
            \/ /\ attempt[runner[r].a].state = "exporting" /\ Moved(r, {"prepare"})
               /\ RowTo(runner[r].a, "restoring_verification")
<1> DEFINE row == attempt[runner[r].a]
<1>1. runner[r].pc # "idle" /\ row \in AttemptRows
  BY StepTypes DEF TransitionExported, StepTyped
<1>2. "prepare" \in Calls /\ "restoring_verification" \in States
  BY DEF Calls, States, Busy
<1>3. PICK y : y = [row EXCEPT !.state = "restoring_verification"]
  OBVIOUS
<1>4. /\ y \in AttemptRows /\ y.state = "restoring_verification" /\ y.revision = row.revision
      /\ y.operation = row.operation /\ y.generation = row.generation /\ y.target = row.target
  BY <1>1, <1>2, <1>3 DEF AttemptRows
<1>5. Advance(r, row.state = "exporting", y, "prepare")
  BY <1>3 DEF TransitionExported
<1> QED
  BY <1>1, <1>2, <1>4, <1>5, AdvanceEffect

LEMMA PrepareEffect ==
  ASSUME WellFormed, NEW r \in Runners, PrepareRestoreTarget(r)
  PROVE  /\ StepTyped' /\ attempt' = attempt
         /\ OnlyRunner(r) /\ workflow' = workflow
         /\ runner'[r].pc = "prepared" /\ runner'[r].a = runner[r].a
         /\ runner'[r].mode = runner[r].mode /\ runner'[r].read = runner[r].read
         /\ runner'[r].generation = runner[r].generation
         /\ runner'[r].target = disposable.id + 1
<1>1. runner[r].pc # "idle" /\ attempt' = attempt
  BY DEF PrepareRestoreTarget, rows
<1> "prepared" \in Calls
  BY DEF Calls
<1>2. disposable.id + 1 \in Nat
  BY SMT DEF WellFormed, TypeOK
<1>3. RunnersTyped /\ runner[r].a \in Attempts /\ runner[r] \in Executions
  BY <1>1, StepTypes DEF StepTyped
<1> DEFINE y == [runner[r] EXCEPT !.pc = "prepared", !.target = disposable.id + 1]
<1>4. Goto(r, y)
  BY DEF PrepareRestoreTarget
<1>5. /\ y \in Executions /\ y.pc = "prepared" /\ y.a = runner[r].a /\ y.mode = runner[r].mode
      /\ y.read = runner[r].read /\ y.generation = runner[r].generation
      /\ y.target = disposable.id + 1
  BY <1>2, <1>3 DEF Executions
<1> HIDE DEF y
<1>6. RunnersTyped' /\ OnlyRunner(r) /\ runner'[r] = y /\ workflow' = workflow
  BY <1>3, <1>4, <1>5, GotoMoves
<1> QED
  BY <1>1, <1>5, <1>6, StepTypes DEF StepTyped

LEMMA PersistEffect ==
  ASSUME WellFormed, NEW r \in Runners, PersistPreparedTarget(r)
  PROVE  /\ StepTyped'
         /\ \/ Ended(r) /\ attempt' = attempt
            \/ /\ OnlyRunner(r) /\ workflow' = workflow
               /\ runner'[r].pc = "importing" /\ runner'[r].a = runner[r].a
               /\ runner'[r].mode = runner[r].mode /\ runner'[r].read = runner[r].read
               /\ runner'[r].generation = runner[r].generation + 1
               /\ runner'[r].target = runner[r].target
               /\ attempt[runner[r].a].state = "restoring_verification"
               /\ attempt[runner[r].a].generation = runner[r].generation
               /\ OnlyRow(runner[r].a)
               /\ attempt'[runner[r].a].state = "restoring_verification"
               /\ attempt'[runner[r].a].revision = attempt[runner[r].a].revision
               /\ attempt'[runner[r].a].operation = attempt[runner[r].a].operation
               /\ attempt'[runner[r].a].generation = runner[r].generation + 1
               /\ attempt'[runner[r].a].target = runner[r].target
<1> DEFINE a == runner[r].a
           row == attempt[a]
<1>1. /\ "importing" \in Calls /\ runner[r].pc # "idle"
  BY DEF Calls, PersistPreparedTarget
<1>2. StepTyped /\ a \in Attempts /\ row \in AttemptRows
  BY <1>1, StepTypes DEF StepTyped
<1>3. runner[r].target \in Nat /\ runner[r].generation + 1 \in Nat
  BY StepTypes, SMT DEF Executions
<1>4. PICK g \in Nat : g = runner[r].generation + 1
  BY <1>3
<1>5. PICK y : y = [row EXCEPT !.target = runner[r].target, !.generation = g, !.phase = "prepared"]
  OBVIOUS
<1>6. /\ y \in AttemptRows /\ y.state = row.state /\ y.revision = row.revision
      /\ y.operation = row.operation /\ y.generation = g /\ y.target = runner[r].target
  BY <1>2, <1>3, <1>5 DEF AttemptRows
<1>7. \/ Throw(r) /\ attempt' = attempt
      \/ /\ row.state = "restoring_verification" /\ row.generation = runner[r].generation
         /\ attempt' = [attempt EXCEPT ![a] = y]
         /\ Goto(r, [runner[r] EXCEPT !.pc = "importing", !.generation = g])
  BY <1>4, <1>5 DEF PersistPreparedTarget
<1>8. CASE Throw(r) /\ attempt' = attempt
  BY <1>2, <1>8, EndMoves DEF StepTyped
<1>9. CASE /\ row.state = "restoring_verification" /\ row.generation = runner[r].generation
           /\ attempt' = [attempt EXCEPT ![a] = y]
           /\ Goto(r, [runner[r] EXCEPT !.pc = "importing", !.generation = g])
  <2>1. /\ RunnersTyped' /\ OnlyRunner(r) /\ workflow' = workflow
        /\ runner'[r].pc = "importing" /\ runner'[r].a = a
        /\ runner'[r].mode = runner[r].mode /\ runner'[r].read = runner[r].read
        /\ runner'[r].generation = g /\ runner'[r].target = runner[r].target
    <3>1. runner[r] \in Executions /\ g \in Nat
      BY <1>2 DEF StepTyped, RunnersTyped
    <3> DEFINE z == [runner[r] EXCEPT !.pc = "importing", !.generation = g]
    <3>2. /\ z \in Executions /\ z.pc = "importing" /\ z.a = a
          /\ z.mode = runner[r].mode /\ z.read = runner[r].read
          /\ z.generation = g /\ z.target = runner[r].target
      BY <1>1, <3>1 DEF Executions
    <3>3. Goto(r, z)
      BY <1>9
    <3> HIDE DEF z
    <3>4. RunnersTyped' /\ OnlyRunner(r) /\ runner'[r] = z /\ workflow' = workflow
      BY <1>1, <1>2, <3>2, <3>3, GotoMoves DEF StepTyped
    <3> QED
      BY <3>2, <3>4
  <2>2. attempt' \in [Attempts -> AttemptRows] /\ OnlyRow(a) /\ attempt'[a] = y
    BY <1>2, <1>6, <1>9 DEF StepTyped, OnlyRow
  <2> QED
    BY <1>2, <1>4, <1>6, <1>9, <2>1, <2>2 DEF StepTyped
<1> QED
  BY <1>7, <1>8, <1>9

LEMMA ImportingEffect ==
  ASSUME WellFormed, NEW r \in Runners, TransitionImporting(r)
  PROVE  /\ StepTyped'
         /\ \/ Ended(r) /\ attempt' = attempt
            \/ /\ attempt[runner[r].a].state = "restoring_verification" /\ Moved(r, {"import"})
               /\ RowTo(runner[r].a, "restoring_verification")
<1> DEFINE row == attempt[runner[r].a]
<1>1. runner[r].pc # "idle" /\ row \in AttemptRows
  BY StepTypes DEF TransitionImporting, StepTyped
<1>2. "import" \in Calls
  BY DEF Calls
<1>3. PICK y : y = [row EXCEPT !.phase = "importing"]
  OBVIOUS
<1>4. /\ y \in AttemptRows /\ y.state = row.state /\ y.revision = row.revision
      /\ y.operation = row.operation /\ y.generation = row.generation /\ y.target = row.target
  BY <1>1, <1>2, <1>3 DEF AttemptRows
<1>5. PICK where \in BOOLEAN :
        where = (row.state = "restoring_verification" /\ row.phase = "prepared")
  OBVIOUS
<1>6. Advance(r, where, y, "import")
  BY <1>3, <1>5 DEF TransitionImporting
<1> QED
  BY <1>1, <1>2, <1>4, <1>5, <1>6, AdvanceEffect DEF RowTo

LEMMA RestoreEffect ==
  ASSUME WellFormed, NEW r \in Runners, RestoreSql(r)
  PROVE  /\ StepTyped' /\ attempt' = attempt
         /\ \/ Ended(r) /\ disposable' = disposable
            \/ /\ Moved(r, {"imported"}) /\ disposable.id = runner[r].target
               /\ disposable' = [disposable EXCEPT !.dump = object[runner[r].a].dump,
                                                   !.populated = TRUE]
<1>1. "imported" \in Calls /\ runner[r].pc # "idle" /\ attempt' = attempt
  BY DEF Calls, RestoreSql, rows
<1>2. StepTyped /\ runner[r].a \in Attempts
  BY <1>1, StepTypes
<1>3. CASE Throw(r) /\ disposable' = disposable
  BY <1>1, <1>2, <1>3, EndMoves DEF StepTyped
<1>4. CASE /\ Continue(r, "imported") /\ disposable.id = runner[r].target
           /\ disposable' = [disposable EXCEPT !.dump = object[runner[r].a].dump,
                                               !.populated = TRUE]
  <2>1. StepTyped' /\ Moved(r, {"imported"})
    BY <1>1, <1>2, <1>4, ContinueMoves DEF StepTyped, Moved
  <2> QED
    BY <1>1, <1>4, <2>1
<1> QED
  BY <1>3, <1>4 DEF RestoreSql

LEMMA RestoredEffect ==
  ASSUME WellFormed, NEW r \in Runners, TransitionRestored(r)
  PROVE  /\ StepTyped'
         /\ \/ Ended(r) /\ attempt' = attempt
            \/ /\ attempt[runner[r].a].state = "restoring_verification" /\ Moved(r, {"verify"})
               /\ RowTo(runner[r].a, "verifying")
<1> DEFINE row == attempt[runner[r].a]
<1>1. runner[r].pc # "idle" /\ row \in AttemptRows
  BY StepTypes DEF TransitionRestored, StepTyped
<1>2. "verify" \in Calls /\ "verifying" \in States
  BY DEF Calls, States, Busy
<1>3. PICK y : y = [row EXCEPT !.state = "verifying", !.phase = "imported"]
  OBVIOUS
<1>4. /\ y \in AttemptRows /\ y.state = "verifying" /\ y.revision = row.revision
      /\ y.operation = row.operation /\ y.generation = row.generation /\ y.target = row.target
  BY <1>1, <1>2, <1>3 DEF AttemptRows
<1>5. PICK where \in BOOLEAN :
        where = (row.state = "restoring_verification" /\ row.phase = "importing")
  OBVIOUS
<1>6. Advance(r, where, y, "verify")
  BY <1>3, <1>5 DEF TransitionRestored
<1> QED
  BY <1>1, <1>2, <1>4, <1>5, <1>6, AdvanceEffect DEF RowTo

LEMMA VerifyEffect ==
  ASSUME WellFormed, NEW r \in Runners, ReconstructAndVerify(r)
  PROVE  /\ StepTyped' /\ attempt' = attempt
         /\ \/ Ended(r)
            \/ Moved(r, {"manifest"}) /\ RestoredVerification(runner[r].a, runner[r].target)
<1>1. "manifest" \in Calls /\ runner[r].pc # "idle" /\ attempt' = attempt
  BY DEF Calls, ReconstructAndVerify, rows
<1>2. StepTyped /\ runner[r].a \in Attempts
  BY <1>1, StepTypes
<1>3. CASE Throw(r)
  BY <1>1, <1>2, <1>3, EndMoves DEF StepTyped
<1>4. CASE Continue(r, "manifest") /\ RestoredVerification(runner[r].a, runner[r].target)
  <2>1. StepTyped' /\ Moved(r, {"manifest"})
    BY <1>1, <1>2, <1>4, ContinueMoves DEF StepTyped, Moved
  <2> QED
    BY <1>1, <1>4, <2>1
<1> QED
  BY <1>3, <1>4 DEF ReconstructAndVerify

LEMMA ManifestEffect ==
  ASSUME WellFormed, NEW r \in Runners, RetainManifest(r)
  PROVE  /\ StepTyped' /\ attempt' = attempt
         /\ manifest' = IF manifest[runner[r].a] = 0
                        THEN [manifest EXCEPT ![runner[r].a] = runner[r].target] ELSE manifest
         /\ \/ Ended(r)
            \/ Moved(r, {"complete"}) /\ manifest[runner[r].a] \in {0, runner[r].target}
<1>1. /\ "complete" \in Calls /\ runner[r].pc # "idle" /\ attempt' = attempt
      /\ manifest' = IF manifest[runner[r].a] = 0
                     THEN [manifest EXCEPT ![runner[r].a] = runner[r].target] ELSE manifest
  BY DEF Calls, RetainManifest, rows
<1>2. StepTyped /\ runner[r].a \in Attempts
  BY <1>1, StepTypes
<1>3. CASE Throw(r)
  <2>1. StepTyped' /\ Ended(r)
    BY <1>1, <1>2, <1>3, EndMoves DEF StepTyped
  <2> QED
    BY <1>1, <2>1
<1>4. CASE Continue(r, "complete") /\ manifest[runner[r].a] \in {0, runner[r].target}
  <2>1. StepTyped' /\ Moved(r, {"complete"})
    BY <1>1, <1>2, <1>4, ContinueMoves DEF StepTyped, Moved
  <2> QED
    BY <1>1, <1>4, <2>1
<1> QED
  BY <1>3, <1>4 DEF RetainManifest

(* The last batch applies wholly or not at all. *)
LEMMA CompleteEffect ==
  ASSUME WellFormed, NEW r \in Runners, CompleteBackup(r)
  PROVE  /\ StepTyped' /\ Ended(r)
         /\ \/ /\ attempt' = attempt /\ retention' = retention /\ UNCHANGED operationStateVars
            \/ /\ attempt[runner[r].a].state = "verifying" /\ RowTo(runner[r].a, "verified")
               /\ retention' = RetainNewest(runner[r].a) /\ RestoreHealthyBackupState
<1> DEFINE a == runner[r].a
<1>1. runner[r].pc # "idle"
  BY DEF CompleteBackup
<1>2. StepTyped /\ a \in Attempts /\ attempt[a] \in AttemptRows
  BY <1>1, StepTypes DEF StepTyped
<1>3. /\ Throw(r) \/ Return(r)
      /\ \/ /\ attempt' = attempt /\ retention' = retention /\ UNCHANGED operationStateVars
         \/ /\ attempt[a].state = "verifying"
            /\ attempt' = [attempt EXCEPT ![a].state = "verified", ![a].phase = "verified"]
            /\ retention' = RetainNewest(a) /\ RestoreHealthyBackupState
  BY DEF CompleteBackup
<1>4. CASE attempt' = attempt /\ retention' = retention /\ UNCHANGED operationStateVars
  <2>1. StepTyped' /\ Ended(r)
    BY <1>2, <1>3, <1>4, EndMoves DEF StepTyped
  <2> QED
    BY <1>4, <2>1
<1>5. CASE /\ attempt[a].state = "verifying"
           /\ attempt' = [attempt EXCEPT ![a].state = "verified", ![a].phase = "verified"]
           /\ retention' = RetainNewest(a) /\ RestoreHealthyBackupState
  <2> DEFINE y == [attempt[a] EXCEPT !.state = "verified", !.phase = "verified"]
  <2>0. "verified" \in States
    BY DEF States, Terminal
  <2>1. /\ y \in AttemptRows /\ y.state = "verified" /\ y.revision = attempt[a].revision
        /\ y.operation = attempt[a].operation /\ y.generation = attempt[a].generation
        /\ y.target = attempt[a].target
    BY <1>2, <2>0 DEF AttemptRows
  <2>2. attempt' = [attempt EXCEPT ![a] = y]
    BY <1>5
  <2> HIDE DEF y
  <2>3. attempt' \in [Attempts -> AttemptRows] /\ RowTo(a, "verified")
    BY <1>2, <2>1, <2>2 DEF StepTyped, RowTo, OnlyRow
  <2>4. StepTyped' /\ Ended(r)
    BY <1>2, <1>3, <2>3, EndMoves DEF StepTyped
  <2> QED
    BY <1>5, <2>3, <2>4
<1> QED
  BY <1>3, <1>4, <1>5

(* The failure of an attempt, and of an active one what it blocked. *)
LEMMA FailEffect ==
  ASSUME WellFormed, NEW r \in Runners, FailActiveAttempt(r)
  PROVE  /\ StepTyped' /\ Ended(r)
         /\ \/ attempt' = attempt /\ UNCHANGED operationStateVars
            \/ /\ attempt[runner[r].a].state \notin Terminal \cup {"absent"}
               /\ RowTo(runner[r].a, "failed")
               /\ \/ UNCHANGED operationStateVars
                  \/ attempt[runner[r].a].state \in Busy /\ DegradeActiveBackupState
<1> DEFINE a == runner[r].a
<1>1. runner[r].pc # "idle"
  BY DEF FailActiveAttempt
<1>2. StepTyped /\ a \in Attempts /\ attempt[a] \in AttemptRows
  BY <1>1, StepTypes DEF StepTyped
<1>3. Busy \cap (Terminal \cup {"absent"}) = {}
  BY DEF Busy, Terminal
<1>4. /\ Throw(r) \/ Return(r)
      /\ \/ attempt' = attempt /\ UNCHANGED operationStateVars
         \/ /\ attempt[a].state \notin Terminal \cup {"absent"}
            /\ attempt' = [attempt EXCEPT ![a].state = "failed"]
            /\ \/ UNCHANGED operationStateVars
               \/ attempt[a].state \in Busy /\ DegradeActiveBackupState
  BY <1>3 DEF FailActiveAttempt
<1>5. CASE attempt' = attempt /\ UNCHANGED operationStateVars
  BY <1>2, <1>4, <1>5, EndMoves DEF StepTyped
<1>6. CASE /\ attempt[a].state \notin Terminal \cup {"absent"}
           /\ attempt' = [attempt EXCEPT ![a].state = "failed"]
           /\ \/ UNCHANGED operationStateVars
              \/ attempt[a].state \in Busy /\ DegradeActiveBackupState
  <2>1. "failed" \in States
    BY DEF States, Terminal
  <2>2. attempt' \in [Attempts -> AttemptRows] /\ RowTo(a, "failed")
    BY <1>2, <1>6, <2>1 DEF StepTyped, AttemptRows, RowTo, OnlyRow
  <2>3. StepTyped' /\ Ended(r)
    BY <1>2, <1>4, <2>2, EndMoves DEF StepTyped
  <2> QED
    BY <1>6, <2>2, <2>3
<1> QED
  BY <1>4, <1>5, <1>6

-----------------------------------------------------------------------------
(* What goes wrong, and how executions start. *)
LEMMA FaultEffect ==
  ASSUME WellFormed, NEW r \in Runners, CallFails(r)
  PROVE  /\ StepTyped' /\ attempt' = attempt /\ runner[r].pc # "idle"
         /\ \/ Ended(r)
            \/ /\ Moved(r, {"clear"})
               /\ runner[r].pc \in {"fence", "capture", "lease", "release", "rebuild"}
            \/ Moved(r, {"rebuild"}) /\ runner[r].pc = "dump"
            \/ /\ Moved(r, {"release"}) /\ runner[r].pc = "drop" /\ "drop" \in spent.plan.points
               /\ runner'[r].snapshot = runner[r].snapshot
<1>1. spent.plan \in Plans
  BY DEF WellFormed, TypeOK
<1>2. runner[r].pc \in Calls
  BY <1>1, BackupAssumption DEF CallFails
<1>3. /\ runner[r].pc # "idle" /\ StepTyped /\ runner[r].a \in Attempts
      /\ "rebuild" \in Calls /\ "release" \in Calls
  BY <1>2, StepTypes DEF Calls
<1>4. attempt' = attempt /\ runner[r].pc \in spent.plan.points
  BY DEF CallFails, rows
<1>5. CASE runner[r].pc = "drop"
  <2>1. Continue(r, "release")
    BY <1>5 DEF CallFails
  <2> QED
    BY <1>3, <1>4, <1>5, <2>1, ContinueMoves DEF StepTyped, Moved
<1>6. CASE runner[r].pc = "dump"
  <2>1. Goto(r, [runner[r] EXCEPT !.pc = "rebuild", !.err = TRUE])
    BY <1>6 DEF CallFails
  <2> QED
    BY <1>3, <1>4, <1>6, <2>1, ErrMoves DEF StepTyped, Moved
<1>7. CASE runner[r].pc \in {"fence", "capture", "lease", "release", "rebuild"}
  <2>1. Leave(r, TRUE)
    BY <1>7 DEF CallFails
  <2> QED
    BY <1>3, <1>4, <1>7, <2>1, LeaveMoves DEF StepTyped
<1>8. CASE runner[r].pc \notin {"drop", "dump", "fence", "capture", "lease", "release", "rebuild"}
  <2>1. Throw(r)
    BY <1>8 DEF CallFails
  <2> QED
    BY <1>3, <1>4, <2>1, EndMoves DEF StepTyped
<1> QED
  BY <1>5, <1>6, <1>7, <1>8

LEMMA CrashEffect ==
  ASSUME WellFormed, NEW r \in Runners, Crash(r)
  PROVE  StepTyped' /\ attempt' = attempt /\ Ended(r)
<1>1. runner[r].pc # "idle" /\ attempt' = attempt /\ Throw(r)
  BY DEF Crash, rows
<1> QED
  BY <1>1, StepTypes, EndMoves DEF StepTyped

(* A new execution has read nothing yet. *)
Started(r, a) ==
  /\ OnlyRunner(r) /\ runner[r] = Idle
  /\ runner'[r].a = a /\ runner'[r].pc \in {"insert", "inspect"}
  /\ runner'[r].mode = "backup" <=> runner'[r].pc = "insert"
  /\ runner'[r].generation = 0 /\ runner'[r].target = 0

LEMMA StartEffect ==
  ASSUME WellFormed, NEW r \in Runners, NEW a \in Attempts, StartTry(r, a)
  PROVE  /\ StepTyped' /\ attempt' = attempt /\ Started(r, a)
         /\ OnlyInstance(a) /\ workflow[a].runner = None
         /\ workflow'[a].runner = r /\ workflow'[a].status = "running"
         /\ workflow[a].status = "running"
<1>1. PICK m \in {"backup", "failure", "request"} : m = workflow[a].step
  BY DEF WellFormed, TypeOK, Instances
<1>2. PICK pc \in Calls : pc = IF m = "backup" THEN "insert" ELSE "inspect"
  BY DEF Calls
<1> DEFINE y == [Idle EXCEPT !.a = a, !.mode = m, !.pc = pc]
<1>3. attempt' = attempt /\ runner' = [runner EXCEPT ![r] = y] /\ runner[r] = Idle
  BY <1>1, <1>2 DEF StartTry, rows
<1>4. y \in Executions /\ y.pc = pc /\ y.a = a /\ y.mode = m /\ y.generation = 0 /\ y.target = 0
  BY IdleFields DEF Executions
<1> HIDE DEF y
<1>5. RunnersTyped' /\ Started(r, a)
  BY <1>2, <1>3, <1>4, StepTypes DEF StepTyped, RunnersTyped, Started, OnlyRunner
<1>6. /\ workflow' = [workflow EXCEPT ![a].runner = r]
      /\ workflow[a].status = "running" /\ workflow[a].runner = None
  BY DEF StartTry
<1>7. /\ workflow' \in [Attempts -> Instances] /\ OnlyInstance(a)
      /\ workflow'[a].runner = r /\ workflow'[a].status = "running"
  <2> DEFINE w == [workflow[a] EXCEPT !.runner = r]
  <2>1. workflow \in [Attempts -> Instances] /\ workflow[a] \in Instances
    BY DEF WellFormed, TypeOK
  <2>2. w \in Instances /\ w.runner = r /\ w.status = workflow[a].status
    BY <2>1 DEF Instances
  <2>3. workflow' = [workflow EXCEPT ![a] = w]
    BY <1>6
  <2> HIDE DEF w
  <2> QED
    BY <1>6, <2>1, <2>2, <2>3 DEF OnlyInstance
<1> QED
  BY <1>3, <1>5, <1>6, <1>7, StepTypes DEF StepTyped

LEMMA ObserveEffect ==
  ASSUME WellFormed, NEW r \in Runners, NEW a \in Attempts, ObserveErroredWorkflow(r, a)
  PROVE  /\ StepTyped' /\ attempt' = attempt /\ workflow' = workflow /\ Started(r, a)
         /\ workflow[a].status = "errored"
<1> DEFINE y == [Idle EXCEPT !.a = a, !.mode = "request", !.pc = "inspect"]
<1>1. "inspect" \in Calls
  BY DEF Calls
<1>2. /\ attempt' = attempt /\ workflow' = workflow /\ workflow[a].status = "errored"
      /\ runner' = [runner EXCEPT ![r] = y] /\ runner[r] = Idle
  BY DEF ObserveErroredWorkflow, rows
<1>3. /\ y \in Executions /\ y.pc = "inspect" /\ y.a = a /\ y.mode = "request"
      /\ y.generation = 0 /\ y.target = 0
  BY <1>1, IdleFields DEF Executions
<1> HIDE DEF y
<1>4. RunnersTyped' /\ Started(r, a)
  BY <1>2, <1>3, StepTypes DEF StepTyped, RunnersTyped, Started, OnlyRunner
<1> QED
  BY <1>2, <1>4, StepTypes DEF StepTyped

(* A request, its dispatch and a time-out touch one instance at most. *)
LEMMA RequestEffect ==
  ASSUME WellFormed, NEW a \in Attempts, NEW linked \in Attempts \cup {None},
         StartCatalogueBackup(a, linked)
  PROVE  /\ request' \in [Attempts -> RequestRows]
         /\ spent' = [spent EXCEPT !.requests = @ + 1]
         /\ UNCHANGED <<operationStateVars, catalogue, attempt, retention, workflow, runner, search, store>>
<1>1. /\ catalogue.revision \in 0..MaxRevision /\ spent.requests + 1 \in Nat
      /\ request \in [Attempts -> RequestRows]
  BY SMT DEF WellFormed, TypeOK
<1>2. [state |-> "pending", revision |-> catalogue.revision, linked |-> linked,
       at |-> spent.requests + 1] \in RequestRows
  BY <1>1 DEF RequestRows
<1>3. request' = [request EXCEPT ![a] =
       [state |-> "pending", revision |-> catalogue.revision, linked |-> linked,
        at |-> spent.requests + 1]]
  BY DEF StartCatalogueBackup
<1>4. /\ spent' = [spent EXCEPT !.requests = @ + 1]
      /\ UNCHANGED <<operationStateVars, catalogue, attempt, retention, workflow, runner, search, store>>
  BY DEF StartCatalogueBackup
<1> QED
  BY <1>1, <1>2, <1>3, <1>4

LEMMA DispatchEffect ==
  ASSUME WellFormed, NEW a \in Attempts, DispatchBackup(a)
  PROVE  /\ request' \in [Attempts -> RequestRows] /\ workflow' \in [Attempts -> Instances]
         /\ \/ workflow' = workflow
            \/ /\ OnlyInstance(a) /\ workflow'[a].runner = workflow[a].runner
               /\ workflow[a].status = "none" /\ workflow'[a].status = "running"
         /\ UNCHANGED <<operationStateVars, catalogue, attempt, retention, runner, search, store, spent>>
<1>1. PICK outcome \in {"dispatched", "failed"} :
        /\ request' = [request EXCEPT ![a].state = outcome]
        /\ \/ workflow' = workflow
           \/ /\ workflow[a].status = "none"
              /\ workflow' = [workflow EXCEPT ![a].status = "running"]
  BY DEF DispatchBackup
<1>2. UNCHANGED <<operationStateVars, catalogue, attempt, retention, runner, search, store, spent>>
  BY DEF DispatchBackup
<1>3. request \in [Attempts -> RequestRows] /\ workflow \in [Attempts -> Instances]
  BY DEF WellFormed, TypeOK
<1>4. request' \in [Attempts -> RequestRows]
  <2> DEFINE q == [request[a] EXCEPT !.state = outcome]
  <2>1. q \in RequestRows
    BY <1>3 DEF RequestRows
  <2>2. request' = [request EXCEPT ![a] = q]
    BY <1>1
  <2> HIDE DEF q
  <2> QED
    BY <1>3, <2>1, <2>2
<1>5. CASE /\ workflow[a].status = "none"
           /\ workflow' = [workflow EXCEPT ![a].status = "running"]
  <2> DEFINE w == [workflow[a] EXCEPT !.status = "running"]
  <2>1. w \in Instances /\ w.runner = workflow[a].runner /\ w.status = "running"
    BY <1>3 DEF Instances
  <2>2. workflow' = [workflow EXCEPT ![a] = w]
    BY <1>5
  <2> HIDE DEF w
  <2> QED
    BY <1>2, <1>3, <1>4, <1>5, <2>1, <2>2 DEF OnlyInstance
<1> QED
  BY <1>1, <1>2, <1>3, <1>4, <1>5

LEMMA TimeoutEffect ==
  ASSUME WellFormed, NEW a \in Attempts, StepTimesOut(a)
  PROVE  /\ workflow' \in [Attempts -> Instances] /\ OnlyInstance(a)
         /\ workflow[a].runner # None /\ workflow'[a].runner = None
         /\ workflow'[a].status \in {workflow[a].status, "errored"}
         /\ spent' = [spent EXCEPT !.timeouts = @ + 1]
         /\ UNCHANGED <<operationStateVars, catalogue, rows, runner, search, store>>
<1>1. workflow \in [Attempts -> Instances] /\ workflow[a] \in Instances
  BY DEF WellFormed, TypeOK
<1>2. /\ workflow' = [workflow EXCEPT ![a] = TryFailed(workflow[a])]
      /\ workflow[a].runner # None /\ spent' = [spent EXCEPT !.timeouts = @ + 1]
      /\ UNCHANGED <<operationStateVars, catalogue, rows, runner, search, store>>
  BY DEF StepTimesOut
<1> QED
  BY <1>1, <1>2, TryFailedFields DEF OnlyInstance

(* A publication's acceptance. *)
LEMMA AcceptEffect ==
  ASSUME WellFormed, NEW a \in Attempts, NEW v \in 1..MaxRevision, AcceptPublication(a, v)
  PROVE  /\ attempt' \in [Attempts -> AttemptRows] /\ OnlyRow(a) /\ attempt[a] = NoAttempt
         /\ attempt'[a].state = "pending" /\ attempt'[a].revision = v
         /\ attempt'[a].operation = a
         /\ attempt'[a].generation = 0 /\ attempt'[a].target = 0
         /\ catalogue' \in [revision : 0..MaxRevision, acceptance : Attempts \cup {None},
                             contents : Nat, ingesting : BOOLEAN]
         /\ catalogue'.revision = v /\ catalogue'.acceptance = a
         /\ catalogue'.ingesting = catalogue.ingesting
         /\ v \in {catalogue.revision, catalogue.revision + 1}
         /\ UNCHANGED <<operationStateVars, retention, request, workflow, runner, search, store, spent>>
<1>1. /\ attempt \in [Attempts -> AttemptRows]
      /\ catalogue \in [revision : 0..MaxRevision, acceptance : Attempts \cup {None},
                         contents : Nat, ingesting : BOOLEAN]
      /\ catalogue.contents + 1 \in Nat /\ v \in 0..MaxRevision
  BY BackupAssumption, SMT DEF WellFormed, TypeOK
<1> DEFINE y == [NoAttempt EXCEPT !.state = "pending", !.revision = v, !.operation = a]
           c == [catalogue EXCEPT !.revision = v, !.acceptance = a,
                                  !.contents = catalogue.contents + 1]
<1>2. /\ y \in AttemptRows /\ y.state = "pending" /\ y.revision = v /\ y.operation = a
      /\ y.generation = 0 /\ y.target = 0
  BY <1>1, NoAttemptFields DEF AttemptRows, States
<1>3. /\ c \in [revision : 0..MaxRevision, acceptance : Attempts \cup {None},
                 contents : Nat, ingesting : BOOLEAN]
      /\ c.revision = v /\ c.acceptance = a /\ c.ingesting = catalogue.ingesting
  BY <1>1
<1>4. /\ attempt' = [attempt EXCEPT ![a] = y] /\ catalogue' = c /\ attempt[a] = NoAttempt
      /\ v \in {catalogue.revision, catalogue.revision + 1}
      /\ UNCHANGED <<operationStateVars, retention, request, workflow, runner, search, store, spent>>
  BY DEF AcceptPublication
<1> HIDE DEF y, c
<1> QED
  BY <1>1, <1>2, <1>3, <1>4 DEF OnlyRow

-----------------------------------------------------------------------------
(* The statements on operation_state a step may issue. *)
FenceMove ==
  \/ UNCHANGED operationStateVars
  \/ ReserveBackupOperation \/ BlockBackupRestore \/ FenceCompositionSnapshot
  \/ \E native \in BOOLEAN : ClearBackupRestore(native)
  \/ RestoreHealthyBackupState \/ DegradeActiveBackupState \/ EnforceRecoveryRestoreGuard
  \/ ReserveRecoveryOperation(FALSE) \/ ReleaseAcceptedRecovery

LEMMA FenceMoveTyped == OperationStateTypeOK /\ FenceMove => OperationStateTypeOK'
  BY DEF OperationStateTypeOK, FenceMove, operationStateVars, ReserveBackupOperation,
     BlockBackupRestore, FenceCompositionSnapshot, ClearBackupRestore,
     RestoreHealthyBackupState, DegradeActiveBackupState,
     EnforceRecoveryRestoreGuard, ReserveRecoveryOperation, ReleaseAcceptedRecovery

(* The types of the rest of the state. *)
OtherTyped ==
  /\ catalogue \in [revision : 0..MaxRevision, acceptance : Attempts \cup {None},
                    contents : Nat, ingesting : BOOLEAN]
  /\ retention \in [Attempts -> {"none", "newest", "dated"}]
  /\ request \in [Attempts -> RequestRows]
  /\ search \in [state : {"ready", "reconstructing"}, owner : Attempts \cup {None},
                 expired : BOOLEAN, indexed : BOOLEAN]
  /\ object \in [Attempts -> [stored : BOOLEAN, dump : Dumps, snapshot : Nat]]
  /\ manifest \in [Attempts -> Nat]
  /\ disposable \in [id : Nat, dump : Dumps, populated : BOOLEAN]
  /\ spent \in [crashes : Nat, timeouts : Nat, faults : Nat, requests : Nat, plan : Plans]

LEMMA TypesSplit == TypeOK <=> OperationStateTypeOK /\ StepTyped /\ OtherTyped
  BY DEF TypeOK, StepTyped, RunnersTyped, OtherTyped

(* The calls that write neither the catalogue, nor the objects, nor the     *)
(* bookkeeping, nor the search state, and leave retention alone.            *)
LEMMA QuietStepTyped ==
  ASSUME WellFormed, UNCHANGED <<catalogue, retention, request, search, store, spent>>
  PROVE  OtherTyped'
<1>1. OtherTyped
  BY TypesSplit DEF WellFormed
<1> QED
  BY <1>1 DEF OtherTyped, store

LEMMA SearchStepTyped ==
  ASSUME WellFormed, NEW r \in Runners,
         \/ AcquireSearchLease(r) \/ DropSearchIndex(r) \/ ReleaseSearchLease(r)
         \/ ReconstructSearch(r) \/ SearchLeaseExpires
  PROVE  OtherTyped'
<1>1. OtherTyped /\ (runner[r].pc # "idle" => runner[r].a \in Attempts)
  BY TypesSplit, StepTypes DEF WellFormed
<1>2. /\ UNCHANGED <<catalogue, rows, store, spent>>
      /\ \/ search' = search
         \/ search' = [search EXCEPT !.expired = TRUE]
         \/ search' = [search EXCEPT !.indexed = FALSE]
         \/ search' = [search EXCEPT !.state = "ready", !.owner = None, !.expired = FALSE]
         \/ search' = [state |-> "ready", owner |-> None, expired |-> FALSE, indexed |-> TRUE]
         \/ /\ runner[r].a \in Attempts
            /\ search' = [search EXCEPT !.state = "reconstructing", !.owner = runner[r].a,
                                        !.expired = FALSE]
  <2>1. CASE AcquireSearchLease(r)
    <3>1. runner[r].a \in Attempts
      BY <1>1, <2>1 DEF AcquireSearchLease
    <3> QED
      BY <2>1, <3>1 DEF AcquireSearchLease
  <2>2. CASE DropSearchIndex(r) \/ ReleaseSearchLease(r) \/ ReconstructSearch(r) \/ SearchLeaseExpires
    BY <2>2 DEF DropSearchIndex, ReleaseSearchLease, ReconstructSearch, SearchLeaseExpires
  <2> QED
    BY <2>1, <2>2
<1>3. search' \in [state : {"ready", "reconstructing"}, owner : Attempts \cup {None},
                   expired : BOOLEAN, indexed : BOOLEAN]
  <2> DEFINE S == [state : {"ready", "reconstructing"}, owner : Attempts \cup {None},
                   expired : BOOLEAN, indexed : BOOLEAN]
  <2>1. search \in S
    BY <1>1 DEF OtherTyped
  <2>2. [search EXCEPT !.expired = TRUE] \in S /\ [search EXCEPT !.indexed = FALSE] \in S
    BY <2>1
  <2>3. [search EXCEPT !.state = "ready", !.owner = None, !.expired = FALSE] \in S
    BY <2>1
  <2>4. [state |-> "ready", owner |-> None, expired |-> FALSE, indexed |-> TRUE] \in S
    OBVIOUS
  <2>5. runner[r].a \in Attempts =>
          [search EXCEPT !.state = "reconstructing", !.owner = runner[r].a, !.expired = FALSE] \in S
    BY <2>1
  <2> HIDE DEF S
  <2>6. search' \in S
    BY <1>2, <2>1, <2>2, <2>3, <2>4, <2>5
  <2> QED
    BY <2>6 DEF S
<1> QED
  BY <1>1, <1>2, <1>3 DEF OtherTyped, rows, store

LEMMA StoreStepTyped ==
  ASSUME WellFormed, NEW r \in Runners,
         \/ RetainObject(r) \/ PrepareRestoreTarget(r) \/ RestoreSql(r) \/ RetainManifest(r)
  PROVE  OtherTyped'
<1>1. OtherTyped /\ runner[r] \in Executions /\ runner[r].a \in Attempts
  BY TypesSplit, StepTypes
     DEF WellFormed, RetainObject, PrepareRestoreTarget, RestoreSql, RetainManifest
<1>2. runner[r].dump \in Dumps /\ runner[r].snapshot \in Nat /\ runner[r].target \in Nat
  BY <1>1 DEF Executions
<1>3. CASE RetainObject(r)
  <2>1. [stored |-> TRUE, dump |-> runner[r].dump, snapshot |-> runner[r].snapshot]
          \in [stored : BOOLEAN, dump : Dumps, snapshot : Nat]
    BY <1>2
  <2>2. object' \in [Attempts -> [stored : BOOLEAN, dump : Dumps, snapshot : Nat]]
    BY <1>1, <1>3, <2>1 DEF RetainObject, OtherTyped
  <2> QED
    BY <1>1, <1>3, <2>2 DEF RetainObject, OtherTyped, rows
<1>4. CASE PrepareRestoreTarget(r)
  <2>1. disposable' \in [id : Nat, dump : Dumps, populated : BOOLEAN]
    <3>1. NoDump \in Dumps
      BY BackupAssumption, SMT DEF NoDump, Dumps
    <3>2. disposable' = [id |-> disposable.id + 1, dump |-> NoDump, populated |-> FALSE]
      BY <1>4 DEF PrepareRestoreTarget
    <3> QED
      BY SMT, <1>1, <3>1, <3>2 DEF OtherTyped
  <2> QED
    BY <1>1, <1>4, <2>1 DEF PrepareRestoreTarget, OtherTyped, rows
<1>5. CASE RestoreSql(r)
  <2>1. object[runner[r].a].dump \in Dumps
    BY <1>1 DEF OtherTyped
  <2>2. \/ disposable' = disposable
        \/ disposable' = [disposable EXCEPT !.dump = object[runner[r].a].dump, !.populated = TRUE]
    BY <1>5 DEF RestoreSql
  <2>3. disposable' \in [id : Nat, dump : Dumps, populated : BOOLEAN]
    BY <1>1, <2>1, <2>2 DEF OtherTyped
  <2> QED
    BY <1>1, <1>5, <2>3 DEF RestoreSql, OtherTyped, rows
<1>6. CASE RetainManifest(r)
  <2>1. manifest' \in [Attempts -> Nat]
    BY <1>1, <1>2, <1>6 DEF RetainManifest, OtherTyped
  <2> QED
    BY <1>1, <1>6, <2>1 DEF RetainManifest, OtherTyped, rows
<1> QED
  BY <1>3, <1>4, <1>5, <1>6

LEMMA SpentTyped ==
  ASSUME WellFormed,
         \/ spent' = [spent EXCEPT !.crashes = @ + 1] \/ spent' = [spent EXCEPT !.timeouts = @ + 1]
         \/ spent' = [spent EXCEPT !.faults = @ + 1] \/ spent' = [spent EXCEPT !.requests = @ + 1],
         request' \in [Attempts -> RequestRows], UNCHANGED <<catalogue, retention, search, store>>
  PROVE  /\ OtherTyped' /\ spent'.plan = spent.plan
         /\ spent'.timeouts >= spent.timeouts /\ spent'.faults >= spent.faults
<1>1. OtherTyped
  BY TypesSplit DEF WellFormed
<1>2. /\ spent' \in [crashes : Nat, timeouts : Nat, faults : Nat, requests : Nat, plan : Plans]
      /\ spent'.plan = spent.plan
      /\ spent'.timeouts >= spent.timeouts /\ spent'.faults >= spent.faults
  BY <1>1, SMT DEF OtherTyped
<1> QED
  BY <1>1, <1>2 DEF OtherTyped, store

-----------------------------------------------------------------------------
(* One action is one of these. *)
LEMMA StepCases ==
  ASSUME Next
  PROVE  \/ CatalogueWrite \/ ClaimIngestion \/ FinishIngestion
         \/ \E a \in Attempts, v \in 1..MaxRevision : AcceptPublication(a, v)
         \/ BeginRecovery \/ AcceptRecovery \/ AdministrationRequest
         \/ SearchLeaseExpires
         \/ \E a \in Attempts :
              \/ \E linked \in Attempts \cup {None} : StartCatalogueBackup(a, linked)
              \/ DispatchBackup(a) \/ StepTimesOut(a)
              \/ \E r \in Runners : StartTry(r, a) \/ ObserveErroredWorkflow(r, a)
         \/ \E r \in Runners : BackupStep(r) \/ CallFails(r) \/ Crash(r)
  BY DEF Next, CatalogueStep

(* An execution's calls keep the types of what it shares with the others. *)
LEMMA CallTyped ==
  ASSUME WellFormed, NEW r \in Runners, BackupStep(r) \/ CallFails(r) \/ Crash(r)
  PROVE  OperationStateTypeOK' /\ OtherTyped'
<1>1. OperationStateTypeOK /\ OtherTyped
  BY TypesSplit DEF WellFormed
<1>2. FenceMove
  <2>1. CASE ClearRestoreGuard(r)
    <3>1. (runner[r].mode # "backup" \/ Native(runner[r].a)) \in BOOLEAN
      OBVIOUS
    <3> QED
      BY <2>1, <3>1 DEF ClearRestoreGuard, FenceMove
  <2>2. CASE StartBackupExport(r) \/ RaiseRestoreGuard(r) \/ RaiseHealthFence(r)
             \/ CompleteBackup(r) \/ FailActiveAttempt(r)
    BY <2>2 DEF StartBackupExport, RaiseRestoreGuard, RaiseHealthFence,
       CompleteBackup, FailActiveAttempt, FenceMove
  <2>3. CASE InsertPendingBackup(r) \/ CheckOperationState(r) \/ CaptureVerificationEvidence(r)
             \/ FindRetainedObject(r) \/ CaptureCompositionSnapshot(r) \/ AcquireSearchLease(r)
             \/ DropSearchIndex(r) \/ ReleaseSearchLease(r) \/ ExportSql(r) \/ ReconstructSearch(r)
    BY <2>3 DEF InsertPendingBackup, CheckOperationState, CaptureVerificationEvidence,
       FindRetainedObject, CaptureCompositionSnapshot, AcquireSearchLease, DropSearchIndex,
       ReleaseSearchLease, ExportSql, ReconstructSearch, FenceMove
  <2>4. CASE RetainObject(r) \/ TransitionExported(r) \/ PrepareRestoreTarget(r)
             \/ PersistPreparedTarget(r) \/ TransitionImporting(r) \/ RestoreSql(r)
             \/ TransitionRestored(r) \/ ReconstructAndVerify(r) \/ RetainManifest(r)
             \/ InspectSnapshotFence(r) \/ CallFails(r) \/ Crash(r)
    BY <2>4 DEF RetainObject, TransitionExported, PrepareRestoreTarget, Advance,
       PersistPreparedTarget, TransitionImporting, RestoreSql, TransitionRestored,
       ReconstructAndVerify, RetainManifest, InspectSnapshotFence, CallFails, Crash, FenceMove
  <2> QED
    BY <2>1, <2>2, <2>3, <2>4 DEF BackupStep
<1>3. OtherTyped'
  <2>1. CASE AcquireSearchLease(r) \/ DropSearchIndex(r) \/ ReleaseSearchLease(r) \/ ReconstructSearch(r)
    BY <2>1, SearchStepTyped
  <2>2. CASE RetainObject(r) \/ PrepareRestoreTarget(r) \/ RestoreSql(r) \/ RetainManifest(r)
    BY <2>2, StoreStepTyped
  <2>3. CASE InsertPendingBackup(r) \/ CheckOperationState(r) \/ CaptureVerificationEvidence(r)
             \/ StartBackupExport(r) \/ FindRetainedObject(r) \/ RaiseRestoreGuard(r)
             \/ RaiseHealthFence(r) \/ CaptureCompositionSnapshot(r) \/ ExportSql(r)
             \/ ClearRestoreGuard(r)
    <3>1. UNCHANGED <<catalogue, retention, request, search, store, spent>>
      BY <2>3 DEF InsertPendingBackup, CheckOperationState, CaptureVerificationEvidence,
         StartBackupExport, FindRetainedObject, RaiseRestoreGuard, RaiseHealthFence,
         CaptureCompositionSnapshot, ExportSql, ClearRestoreGuard, rows
    <3> QED
      BY <3>1, QuietStepTyped
  <2>4. CASE TransitionExported(r) \/ PersistPreparedTarget(r) \/ TransitionImporting(r)
             \/ TransitionRestored(r) \/ ReconstructAndVerify(r) \/ InspectSnapshotFence(r)
             \/ FailActiveAttempt(r)
    <3>1. UNCHANGED <<catalogue, retention, request, search, store, spent>>
      BY <2>4 DEF TransitionExported, PersistPreparedTarget, TransitionImporting, Advance,
         TransitionRestored, ReconstructAndVerify, InspectSnapshotFence, FailActiveAttempt, rows
    <3> QED
      BY <3>1, QuietStepTyped
  <2>5. CASE CompleteBackup(r)
    <3>1. retention' \in [Attempts -> {"none", "newest", "dated"}]
      BY ZenonT(90), <1>1, <2>5 DEF CompleteBackup, RetainNewest, OtherTyped
    <3>2. UNCHANGED <<catalogue, request, search, store, spent>>
      BY <2>5 DEF CompleteBackup
    <3> QED
      BY <1>1, <3>1, <3>2 DEF OtherTyped, store
  <2>6. CASE CallFails(r) \/ Crash(r)
    <3>1. /\ spent' = [spent EXCEPT !.faults = @ + 1] \/ spent' = [spent EXCEPT !.crashes = @ + 1]
          /\ UNCHANGED <<catalogue, rows, search, store>>
      BY <2>6 DEF CallFails, Crash
    <3>2. request' \in [Attempts -> RequestRows]
      BY <1>1, <3>1 DEF OtherTyped, rows
    <3> QED
      BY <3>1, <3>2, SpentTyped DEF rows
  <2> QED
    BY <2>1, <2>2, <2>3, <2>4, <2>5, <2>6 DEF BackupStep
<1> QED
  BY <1>1, <1>2, <1>3, FenceMoveTyped

(* Rows and calls of WellFormed, apart. *)
AbsentIsEmpty == \A a \in Attempts : attempt[a].state = "absent" => attempt[a] = NoAttempt
CallsFit(x) ==
  /\ x.pc \in {"check", "evidence"} => x.read \in Busy \cup {"pending"}
  /\ x.pc \in BackupCalls => x.mode = "backup"
  /\ x.pc = "inspect" => x.mode # "backup"

AllCallsFit == \A r \in Runners : CallsFit(runner[r])

LEMMA WellFormedSplit == WellFormed <=> TypeOK /\ AbsentIsEmpty /\ AllCallsFit
  BY DEF WellFormed, AbsentIsEmpty, AllCallsFit, CallsFit

LEMMA RowForm ==
  ASSUME WellFormed, NEW a, attempt' = attempt \/ (OnlyRow(a) /\ attempt'[a].state # "absent")
  PROVE  AbsentIsEmpty'
  BY DEF WellFormed, AbsentIsEmpty, OnlyRow

LEMMA CallForm ==
  ASSUME WellFormed, NEW r \in Runners, OnlyRunner(r), CallsFit(runner'[r])
  PROVE  AllCallsFit'
  BY WellFormedSplit DEF OnlyRunner, AllCallsFit, CallsFit

LEMMA EndedFits ==
  ASSUME NEW r \in Runners, Ended(r)
  PROVE  OnlyRunner(r) /\ CallsFit(runner'[r])
  BY IdleFields DEF Ended, CallsFit, BackupCalls, Calls

(* The execution of a call of the backup step stays in it. *)
LEMMA MovedFits ==
  ASSUME WellFormed, NEW r \in Runners, NEW pcs, Moved(r, pcs),
         pcs \cap {"check", "evidence", "inspect"} = {},
         runner[r].mode = "backup" \/ pcs \cap BackupCalls = {}
  PROVE  OnlyRunner(r) /\ CallsFit(runner'[r])
  BY DEF Moved, CallsFit

LEMMA CallWellFormed ==
  ASSUME WellFormed, NEW r \in Runners, BackupStep(r) \/ CallFails(r) \/ Crash(r)
  PROVE  StepTyped' /\ AbsentIsEmpty' /\ AllCallsFit'
<1> SUFFICES /\ StepTyped' /\ OnlyRunner(r) /\ CallsFit(runner'[r])
             /\ attempt' = attempt \/ (OnlyRow(runner[r].a) /\ attempt'[runner[r].a].state # "absent")
  BY RowForm, CallForm
<1>0. runner[r].pc \in BackupCalls => runner[r].mode = "backup"
  BY DEF WellFormed
<1>1. CASE InsertPendingBackup(r)
  <2>1. ReadBack(r) => CallsFit(runner'[r]) /\ OnlyRunner(r)
    BY <1>0, <1>1 DEF InsertPendingBackup, ReadBack, CallsFit, BackupCalls, Calls
  <2> QED
    BY <1>1, <2>1, InsertEffect, EndedFits DEF Inserted
<1>2. CASE CheckOperationState(r)
  <2>1. Moved(r, {"evidence"}) => CallsFit(runner'[r]) /\ OnlyRunner(r)
    BY <1>0, <1>2 DEF WellFormed, CheckOperationState, Moved, CallsFit, BackupCalls, Calls
  <2> QED
    BY <1>2, <2>1, CheckEffect, EndedFits DEF RowTo
<1>3. CASE CaptureVerificationEvidence(r)
  <2>1. runner[r].mode = "backup" /\ runner[r].read \in Busy \cup {"pending"}
    BY <1>0, <1>3 DEF WellFormed, CaptureVerificationEvidence, BackupCalls, Calls
  <2>2. {ResumeAt[runner[r].read]} \cap {"check", "evidence", "inspect"} = {}
    BY <2>1, SMT DEF ResumeAt, Busy
  <2> QED
    BY <1>3, <2>1, <2>2, EvidenceEffect, EndedFits, MovedFits
<1>4. CASE StartBackupExport(r)
  <2>1. runner[r].mode = "backup"
    BY <1>0, <1>4 DEF StartBackupExport, BackupCalls, Calls
  <2> QED
    BY <1>4, <2>1, BeginEffect, EndedFits, MovedFits DEF RowTo
<1>5. CASE FindRetainedObject(r)
  <2>1. runner[r].mode = "backup"
    BY <1>0, <1>5 DEF FindRetainedObject, BackupCalls, Calls
  <2> QED
    BY <1>5, <2>1, FindEffect, MovedFits
<1>6. CASE RaiseRestoreGuard(r)
  <2>1. runner[r].mode = "backup"
    BY <1>0, <1>6 DEF RaiseRestoreGuard, BackupCalls, Calls
  <2> QED
    BY <1>6, <2>1, GuardEffect, MovedFits
<1>7. CASE RaiseHealthFence(r)
  <2>1. runner[r].mode = "backup"
    BY <1>0, <1>7 DEF RaiseHealthFence, BackupCalls, Calls
  <2> QED
    BY <1>7, <2>1, FenceEffect, MovedFits
<1>8. CASE CaptureCompositionSnapshot(r)
  <2>1. runner[r].mode = "backup"
    BY <1>0, <1>8 DEF CaptureCompositionSnapshot, BackupCalls, Calls
  <2> QED
    BY <1>8, <2>1, CaptureEffect, MovedFits
<1>9. CASE AcquireSearchLease(r)
  <2>1. {"drop"} \cap BackupCalls = {} /\ {"clear"} \cap BackupCalls = {}
    BY DEF BackupCalls
  <2> QED
    BY <1>9, <2>1, LeaseEffect, EndedFits, MovedFits
<1>10. CASE DropSearchIndex(r)
  <2>1. {"rebuild"} \cap BackupCalls = {}
    BY DEF BackupCalls
  <2> QED
    BY <1>10, <2>1, DropEffect, MovedFits
<1>11. CASE ReleaseSearchLease(r) \/ ReconstructSearch(r)
  <2>1. {"clear"} \cap BackupCalls = {}
    BY DEF BackupCalls
  <2> QED
    BY <1>11, <2>1, LeavingEffect, EndedFits, MovedFits
<1>12. CASE ExportSql(r)
  <2>1. {"rebuild"} \cap BackupCalls = {}
    BY DEF BackupCalls
  <2> QED
    BY <1>12, <2>1, ExportEffect, MovedFits
<1>13. CASE ClearRestoreGuard(r)
  <2>1. {"fail"} \cap BackupCalls = {}
    BY DEF BackupCalls
  <2> QED
    BY <1>13, <2>1, ClearEffect, EndedFits, MovedFits
<1>14. CASE RetainObject(r)
  <2>1. runner[r].mode = "backup"
    BY <1>0, <1>14 DEF RetainObject, BackupCalls, Calls
  <2> QED
    BY <1>14, <2>1, RetainEffect, EndedFits, MovedFits
<1>15. CASE TransitionExported(r)
  <2>1. runner[r].mode = "backup"
    BY <1>0, <1>15 DEF TransitionExported, BackupCalls, Calls
  <2> QED
    BY <1>15, <2>1, ExportedEffect, EndedFits, MovedFits DEF RowTo
<1>16. CASE PrepareRestoreTarget(r)
  <2>1. runner[r].mode = "backup"
    BY <1>0, <1>16 DEF PrepareRestoreTarget, BackupCalls, Calls
  <2> QED
    BY <1>16, <2>1, PrepareEffect DEF CallsFit
<1>17. CASE PersistPreparedTarget(r)
  <2>1. runner[r].mode = "backup"
    BY <1>0, <1>17 DEF PersistPreparedTarget, BackupCalls, Calls
  <2> QED
    BY <1>17, <2>1, PersistEffect, EndedFits DEF CallsFit
<1>18. CASE TransitionImporting(r)
  <2>1. runner[r].mode = "backup"
    BY <1>0, <1>18 DEF TransitionImporting, BackupCalls, Calls
  <2> QED
    BY <1>18, <2>1, ImportingEffect, EndedFits, MovedFits DEF RowTo
<1>19. CASE RestoreSql(r)
  <2>1. runner[r].mode = "backup"
    BY <1>0, <1>19 DEF RestoreSql, BackupCalls, Calls
  <2> QED
    BY <1>19, <2>1, RestoreEffect, EndedFits, MovedFits
<1>20. CASE TransitionRestored(r)
  <2>1. runner[r].mode = "backup"
    BY <1>0, <1>20 DEF TransitionRestored, BackupCalls, Calls
  <2> QED
    BY <1>20, <2>1, RestoredEffect, EndedFits, MovedFits DEF RowTo
<1>21. CASE ReconstructAndVerify(r)
  <2>1. runner[r].mode = "backup"
    BY <1>0, <1>21 DEF ReconstructAndVerify, BackupCalls, Calls
  <2> QED
    BY <1>21, <2>1, VerifyEffect, EndedFits, MovedFits
<1>22. CASE RetainManifest(r)
  <2>1. runner[r].mode = "backup"
    BY <1>0, <1>22 DEF RetainManifest, BackupCalls, Calls
  <2> QED
    BY <1>22, <2>1, ManifestEffect, EndedFits, MovedFits
<1>23. CASE CompleteBackup(r)
  BY <1>23, CompleteEffect, EndedFits DEF RowTo
<1>24. CASE InspectSnapshotFence(r)
  <2>1. {"lease"} \cap BackupCalls = {} /\ {"fail"} \cap BackupCalls = {}
    BY DEF BackupCalls
  <2> QED
    BY <1>24, <2>1, InspectEffect, MovedFits
<1>25. CASE FailActiveAttempt(r)
  BY <1>25, FailEffect, EndedFits DEF RowTo
<1>26. CASE CallFails(r)
  <2>1. /\ {"clear"} \cap BackupCalls = {} /\ {"rebuild"} \cap BackupCalls = {}
        /\ {"release"} \cap BackupCalls = {}
    BY DEF BackupCalls
  <2> QED
    BY <1>26, <2>1, FaultEffect, EndedFits, MovedFits
<1>27. CASE Crash(r)
  BY <1>27, CrashEffect, EndedFits
<1> QED
  BY <1>1, <1>2, <1>3, <1>4, <1>5, <1>6, <1>7, <1>8, <1>9, <1>10, <1>11, <1>12, <1>13, <1>14,
     <1>15, <1>16, <1>17, <1>18, <1>19, <1>20, <1>21, <1>22, <1>23, <1>24, <1>25, <1>26, <1>27
     DEF BackupStep

LEMMA InitWellFormed == BackupInit => WellFormed
<1> SUFFICES ASSUME BackupInit PROVE WellFormed
  OBVIOUS
<1>1. OperationStateTypeOK
  BY DEF BackupInit, OperationStateInit, OperationStateTypeOK
<1>2. 0 \in 0..MaxRevision /\ 0 \in 0..StepTries - 1
  BY BackupAssumption, SMT
<1>3. NoDump \in Dumps
  BY <1>2 DEF NoDump, Dumps
<1>4. StepTyped
  <2>1. NoWorkflow \in Instances
    BY <1>2 DEF NoWorkflow, Instances
  <2> QED
    BY <2>1, IdleFields, NoAttemptFields DEF BackupInit, StepTyped, RunnersTyped
<1>5. OtherTyped
  <2>1. NoRequest \in RequestRows
    BY <1>2 DEF NoRequest, RequestRows
  <2>2. NoObject \in [stored : BOOLEAN, dump : Dumps, snapshot : Nat]
    BY <1>3 DEF NoObject
  <2>3. spent \in [crashes : Nat, timeouts : Nat, faults : Nat, requests : Nat, plan : Plans]
    BY SMT DEF BackupInit
  <2> QED
    BY <1>2, <1>3, <2>1, <2>2, <2>3 DEF BackupInit, OtherTyped
<1>6. AbsentIsEmpty
  BY DEF BackupInit, AbsentIsEmpty
<1>7. AllCallsFit
  BY IdleFields DEF BackupInit, AllCallsFit, CallsFit, BackupCalls, Calls
<1> QED
  BY <1>1, <1>4, <1>5, <1>6, <1>7, TypesSplit, WellFormedSplit

LEMMA NextWellFormed ==
  ASSUME WellFormed, [Next]_vars
  PROVE  WellFormed'
<1>0. OperationStateTypeOK /\ StepTyped /\ OtherTyped /\ AbsentIsEmpty /\ AllCallsFit
  BY TypesSplit, WellFormedSplit
<1> SUFFICES OperationStateTypeOK' /\ StepTyped' /\ OtherTyped' /\ AbsentIsEmpty' /\ AllCallsFit'
  <2>1. TypeOK' <=> OperationStateTypeOK' /\ StepTyped' /\ OtherTyped'
    BY TypesSplit, PTL
  <2>2. WellFormed' <=> TypeOK' /\ AbsentIsEmpty' /\ AllCallsFit'
    BY WellFormedSplit, PTL
  <2> QED
    BY <2>1, <2>2
<1>1. CASE UNCHANGED vars
  BY SMT, <1>0, <1>1 DEF vars, operationStateVars, backupVars, rows, store, OperationStateTypeOK,
     StepTyped, RunnersTyped, OtherTyped, AbsentIsEmpty, AllCallsFit, CallsFit
<1>2. ASSUME UNCHANGED <<attempt, workflow, runner>>
      PROVE  StepTyped' /\ AbsentIsEmpty' /\ AllCallsFit'
  BY <1>0, <1>2 DEF StepTyped, RunnersTyped, AbsentIsEmpty, AllCallsFit, CallsFit
<1>3. ASSUME UNCHANGED operationStateVars
      PROVE  OperationStateTypeOK'
  BY <1>0, <1>3, FenceMoveTyped DEF FenceMove
<1>4. CASE CatalogueWrite \/ ClaimIngestion \/ FinishIngestion
  <2>1. /\ UNCHANGED <<operationStateVars, rows, workflow, runner, search, store, spent>>
        /\ \/ catalogue' = [catalogue EXCEPT !.contents = @ + 1]
           \/ catalogue' = [catalogue EXCEPT !.ingesting = TRUE]
           \/ catalogue' = [catalogue EXCEPT !.ingesting = FALSE]
    BY <1>4 DEF CatalogueWrite, ClaimIngestion, FinishIngestion
  <2>2. catalogue' \in [revision : 0..MaxRevision, acceptance : Attempts \cup {None},
                        contents : Nat, ingesting : BOOLEAN]
    <3>1. /\ catalogue \in [revision : 0..MaxRevision, acceptance : Attempts \cup {None},
                            contents : Nat, ingesting : BOOLEAN]
          /\ catalogue.contents + 1 \in Nat
      BY <1>0, SMT DEF OtherTyped
    <3> QED
      BY <2>1, <3>1
  <2> QED
    BY <1>0, <1>2, <1>3, <2>1, <2>2 DEF OtherTyped, rows, store
<1>5. ASSUME NEW a \in Attempts, NEW v \in 1..MaxRevision, AcceptPublication(a, v)
      PROVE  OperationStateTypeOK' /\ StepTyped' /\ OtherTyped' /\ AbsentIsEmpty' /\ AllCallsFit'
  <2>1. /\ UNCHANGED <<operationStateVars, retention, request, workflow, runner, search, store, spent>>
        /\ attempt' \in [Attempts -> AttemptRows] /\ OnlyRow(a) /\ attempt'[a].state = "pending"
        /\ catalogue' \in [revision : 0..MaxRevision, acceptance : Attempts \cup {None},
                            contents : Nat, ingesting : BOOLEAN]
    BY <1>5, AcceptEffect
  <2>2. AbsentIsEmpty'
    BY <2>1, RowForm
  <2> QED
    BY <1>0, <1>3, <2>1, <2>2 DEF StepTyped, RunnersTyped, OtherTyped, AllCallsFit, CallsFit, store
<1>6. CASE BeginRecovery \/ AcceptRecovery \/ AdministrationRequest
  <2>1. FenceMove /\ UNCHANGED backupVars
    BY <1>6 DEF BeginRecovery, AcceptRecovery, AdministrationRequest, FenceMove
  <2>2. UNCHANGED <<catalogue, attempt, retention, request, workflow, runner, search, store, spent>>
    BY <2>1 DEF backupVars, rows
  <2> QED
    BY <1>0, <1>2, <2>1, <2>2, FenceMoveTyped, QuietStepTyped
<1>7. CASE SearchLeaseExpires
  <2>1. UNCHANGED <<operationStateVars, catalogue, rows, workflow, runner, store, spent>>
    BY <1>7 DEF SearchLeaseExpires
  <2>2. OtherTyped'
    <3>1. search' \in [state : {"ready", "reconstructing"}, owner : Attempts \cup {None},
                       expired : BOOLEAN, indexed : BOOLEAN]
      BY <1>0, <1>7 DEF SearchLeaseExpires, OtherTyped
    <3> QED
      BY <1>0, <2>1, <3>1 DEF OtherTyped, rows, store
  <2> QED
    BY <1>2, <1>3, <2>1, <2>2 DEF rows
<1>8. ASSUME NEW a \in Attempts, NEW linked \in Attempts \cup {None}, StartCatalogueBackup(a, linked)
      PROVE  OperationStateTypeOK' /\ StepTyped' /\ OtherTyped' /\ AbsentIsEmpty' /\ AllCallsFit'
  <2>1. /\ request' \in [Attempts -> RequestRows] /\ spent' = [spent EXCEPT !.requests = @ + 1]
        /\ UNCHANGED <<operationStateVars, catalogue, attempt, retention, workflow, runner, search, store>>
    BY <1>8, RequestEffect
  <2> QED
    BY <1>2, <1>3, <2>1, SpentTyped
<1>9. ASSUME NEW a \in Attempts, DispatchBackup(a)
      PROVE  OperationStateTypeOK' /\ StepTyped' /\ OtherTyped' /\ AbsentIsEmpty' /\ AllCallsFit'
  <2>1. /\ request' \in [Attempts -> RequestRows] /\ workflow' \in [Attempts -> Instances]
        /\ UNCHANGED <<operationStateVars, catalogue, attempt, retention, runner, search, store, spent>>
    BY <1>9, DispatchEffect
  <2> QED
    BY <1>0, <1>3, <2>1 DEF StepTyped, RunnersTyped, OtherTyped, AbsentIsEmpty, AllCallsFit, CallsFit, store
<1>10. ASSUME NEW a \in Attempts, StepTimesOut(a)
       PROVE  OperationStateTypeOK' /\ StepTyped' /\ OtherTyped' /\ AbsentIsEmpty' /\ AllCallsFit'
  <2>1. /\ workflow' \in [Attempts -> Instances] /\ spent' = [spent EXCEPT !.timeouts = @ + 1]
        /\ UNCHANGED <<operationStateVars, catalogue, rows, runner, search, store>>
    BY <1>10, TimeoutEffect
  <2>2. OtherTyped'
    <3>1. request' \in [Attempts -> RequestRows]
      BY <1>0, <2>1 DEF OtherTyped, rows
    <3> QED
      BY <2>1, <3>1, SpentTyped DEF rows
  <2> QED
    BY <1>0, <1>3, <2>1, <2>2 DEF StepTyped, RunnersTyped, AbsentIsEmpty, AllCallsFit, CallsFit, rows
<1>11. ASSUME NEW a \in Attempts, NEW r \in Runners, StartTry(r, a) \/ ObserveErroredWorkflow(r, a)
       PROVE  OperationStateTypeOK' /\ StepTyped' /\ OtherTyped' /\ AbsentIsEmpty' /\ AllCallsFit'
  <2>1. StepTyped' /\ attempt' = attempt /\ Started(r, a)
    BY <1>11, StartEffect, ObserveEffect
  <2>2. UNCHANGED <<operationStateVars, catalogue, rows, search, store, spent>>
    BY <1>11 DEF StartTry, ObserveErroredWorkflow
  <2>3. CallsFit(runner'[r])
    BY <2>1 DEF Started, CallsFit, BackupCalls
  <2>4. AllCallsFit'
    BY <2>1, <2>3, CallForm DEF Started
  <2> QED
    BY <1>3, <2>1, <2>2, <2>4, RowForm, QuietStepTyped DEF rows
<1>12. ASSUME NEW r \in Runners, BackupStep(r) \/ CallFails(r) \/ Crash(r)
       PROVE  OperationStateTypeOK' /\ StepTyped' /\ OtherTyped' /\ AbsentIsEmpty' /\ AllCallsFit'
  BY <1>12, CallTyped, CallWellFormed
<1> QED
  BY <1>1, <1>4, <1>5, <1>6, <1>7, <1>8, <1>9, <1>10, <1>11, <1>12, StepCases

(* WellFormed is inductive. *)
LEMMA SpecWellFormed == Spec => []WellFormed
<1>1. BackupInit => WellFormed
  BY InitWellFormed
<1>2. WellFormed /\ [Next]_vars => WellFormed'
  BY NextWellFormed
<1> QED
  BY <1>1, <1>2, PTL DEF Spec

(* Every row, request, instance and execution has its type, whatever        *)
(* crashes, fails or overlaps.                                              *)
THEOREM BackupTypeCorrect == Spec => []TypeOK
<1>1. WellFormed => TypeOK
  BY DEF WellFormed
<1> QED
  BY <1>1, SpecWellFormed, PTL

-----------------------------------------------------------------------------
(* What a step does to the rows and the fences, whoever takes it.  A step   *)
(* that keeps both, and lets ingestion in only at an open health fence: *)
SameCatalogue ==
  /\ catalogue'.revision = catalogue.revision /\ catalogue'.acceptance = catalogue.acceptance
  /\ catalogue'.ingesting = catalogue.ingesting

KeepStep ==
  /\ attempt' = attempt /\ retention' = retention /\ UNCHANGED operationStateVars
  /\ catalogue'.revision = catalogue.revision /\ catalogue'.acceptance = catalogue.acceptance
  /\ catalogue'.ingesting => catalogue.ingesting \/ recovery_health # "blocked"

(* A statement on operation_state alone: *)
GuardStep ==
  /\ attempt' = attempt /\ retention' = retention /\ SameCatalogue
  /\ \/ BlockBackupRestore \/ FenceCompositionSnapshot \/ EnforceRecoveryRestoreGuard
     \/ \E r \in Runners :
          /\ runner[r].pc = "clear"
          /\ ClearBackupRestore(runner[r].mode # "backup" \/ Native(runner[r].a))
     \/ /\ \A a \in Attempts : attempt[a].state \notin Busy
        /\ ReserveRecoveryOperation(FALSE)
     \/ ReleaseAcceptedRecovery

(* A new row, of a publication or of a request: *)
AcceptStep(a) ==
  /\ attempt[a] = NoAttempt /\ OnlyRow(a)
  /\ attempt'[a].state = "pending" /\ attempt'[a].operation = a
  /\ catalogue'.revision > 0 /\ catalogue'.revision >= catalogue.revision
  /\ catalogue'.acceptance = a /\ catalogue'.ingesting = catalogue.ingesting
  /\ RecoveryVerified /\ retention' = retention /\ UNCHANGED operationStateVars

CreateStep(a) ==
  /\ Inserted(a) /\ retention' = retention /\ SameCatalogue /\ UNCHANGED operationStateVars

(* A row that begins, advances while it is active, fails or is verified: *)
BeginStep(a) ==
  /\ PendingBackupStartable(a) /\ RowTo(a, "exporting")
  /\ IF Native(a) THEN UNCHANGED operationStateVars ELSE ReserveBackupOperation
  /\ retention' = retention /\ SameCatalogue

AdvanceStep(a) ==
  /\ OnlyRow(a) /\ attempt[a].state \in Busy /\ attempt'[a].state \in Busy
  /\ attempt'[a].revision = attempt[a].revision /\ attempt'[a].operation = attempt[a].operation
  /\ retention' = retention /\ SameCatalogue /\ UNCHANGED operationStateVars

FailStep(a) ==
  /\ attempt[a].state \notin Terminal /\ RowTo(a, "failed")
  /\ UNCHANGED operationStateVars \/ (attempt[a].state \in Busy /\ DegradeActiveBackupState)
  /\ retention' = retention /\ SameCatalogue

CompleteStep(a) ==
  /\ attempt[a].state = "verifying" /\ RowTo(a, "verified")
  /\ retention' = RetainNewest(a) /\ RestoreHealthyBackupState /\ SameCatalogue

RowStep(a) ==
  \/ AcceptStep(a) \/ CreateStep(a) \/ BeginStep(a) \/ AdvanceStep(a) \/ FailStep(a)
  \/ CompleteStep(a)

LEMMA BusyStates ==
  /\ "exporting" \in Busy /\ "restoring_verification" \in Busy /\ "verifying" \in Busy
  /\ "absent" \notin Busy /\ "pending" \notin Busy /\ "failed" \notin Busy /\ "verified" \notin Busy
  BY DEF Busy

(* The calls of an execution are of these kinds. *)
LEMMA CallKinds ==
  ASSUME WellFormed, NEW r \in Runners, BackupStep(r) \/ CallFails(r) \/ Crash(r)
  PROVE  KeepStep \/ GuardStep \/ \E a \in Attempts : RowStep(a)
<1> DEFINE a == runner[r].a
<1>0. runner[r].pc # "idle" => a \in Attempts
  BY StepTypes
<1>1. ASSUME attempt' = attempt, UNCHANGED <<operationStateVars, catalogue, retention>>
      PROVE  KeepStep
  BY <1>1 DEF KeepStep
<1>2. CASE InsertPendingBackup(r)
  <2>1. /\ UNCHANGED <<operationStateVars, catalogue, retention>> /\ a \in Attempts
    BY <1>0, <1>2 DEF InsertPendingBackup
  <2>2. CASE attempt' = attempt
    BY <1>1, <2>1, <2>2
  <2>3. CASE Inserted(a)
    BY <2>1, <2>3 DEF RowStep, CreateStep, SameCatalogue
  <2> QED
    BY <1>2, <2>2, <2>3, InsertEffect
<1>3. CASE CheckOperationState(r)
  <2>1. /\ UNCHANGED <<operationStateVars, catalogue, retention>> /\ a \in Attempts
    BY <1>0, <1>3 DEF CheckOperationState
  <2>2. CASE attempt' = attempt
    BY <1>1, <2>1, <2>2
  <2>3. CASE attempt[a].state \notin Terminal /\ RowTo(a, "failed")
    BY <2>1, <2>3 DEF RowStep, FailStep, SameCatalogue
  <2> QED
    BY <1>3, <2>2, <2>3, CheckEffect
<1>4. CASE StartBackupExport(r)
  <2>1. /\ UNCHANGED <<catalogue, retention>> /\ a \in Attempts
    BY <1>0, <1>4 DEF StartBackupExport
  <2>2. CASE attempt' = attempt /\ UNCHANGED operationStateVars
    BY <1>1, <2>1, <2>2
  <2>3. CASE /\ PendingBackupStartable(a) /\ RowTo(a, "exporting")
             /\ IF Native(a) THEN UNCHANGED operationStateVars ELSE ReserveBackupOperation
    BY <2>1, <2>3 DEF RowStep, BeginStep, SameCatalogue
  <2> QED
    BY <1>4, <2>2, <2>3, BeginEffect
<1>5. CASE RaiseRestoreGuard(r) \/ RaiseHealthFence(r) \/ ClearRestoreGuard(r)
  <2>1. attempt' = attempt /\ retention' = retention /\ catalogue' = catalogue
    BY <1>5 DEF RaiseRestoreGuard, RaiseHealthFence, ClearRestoreGuard, rows
  <2>2. CASE UNCHANGED operationStateVars
    BY <1>1, <2>1, <2>2
  <2>3. CASE \/ BlockBackupRestore \/ FenceCompositionSnapshot
             \/ /\ runner[r].pc = "clear"
                /\ ClearBackupRestore(runner[r].mode # "backup" \/ Native(runner[r].a))
    BY <2>1, <2>3 DEF GuardStep, SameCatalogue
  <2> QED
    BY <1>5, <2>2, <2>3 DEF RaiseRestoreGuard, RaiseHealthFence, ClearRestoreGuard
<1>6. CASE TransitionExported(r) \/ PersistPreparedTarget(r) \/ TransitionImporting(r) \/ TransitionRestored(r)
  <2>1. /\ UNCHANGED <<operationStateVars, catalogue, retention>> /\ runner[r].pc # "idle"
    BY <1>6 DEF TransitionExported, PersistPreparedTarget, TransitionImporting,
       TransitionRestored, Advance
  <2>2. CASE attempt' = attempt
    BY <1>1, <2>1, <2>2
  <2>3. CASE /\ OnlyRow(a) /\ attempt[a].state \in Busy /\ attempt'[a].state \in Busy
             /\ attempt'[a].revision = attempt[a].revision
             /\ attempt'[a].operation = attempt[a].operation
    BY <1>0, <2>1, <2>3 DEF RowStep, AdvanceStep, SameCatalogue
  <2> QED
    BY <1>6, <2>2, <2>3, ExportedEffect, PersistEffect, ImportingEffect, RestoredEffect, BusyStates
       DEF RowTo
<1>7. CASE CompleteBackup(r)
  <2>1. catalogue' = catalogue /\ runner[r].pc # "idle"
    BY <1>7 DEF CompleteBackup
  <2>2. CASE attempt' = attempt /\ retention' = retention /\ UNCHANGED operationStateVars
    BY <1>1, <2>1, <2>2
  <2>3. CASE /\ attempt[a].state = "verifying" /\ RowTo(a, "verified")
             /\ retention' = RetainNewest(a) /\ RestoreHealthyBackupState
    BY <1>0, <2>1, <2>3 DEF RowStep, CompleteStep, SameCatalogue
  <2> QED
    BY <1>7, <2>2, <2>3, CompleteEffect
<1>8. CASE FailActiveAttempt(r)
  <2>1. catalogue' = catalogue /\ retention' = retention /\ runner[r].pc # "idle"
    BY <1>8 DEF FailActiveAttempt
  <2>2. CASE attempt' = attempt /\ UNCHANGED operationStateVars
    BY <1>1, <2>1, <2>2
  <2>3. CASE /\ attempt[a].state \notin Terminal \cup {"absent"} /\ RowTo(a, "failed")
             /\ \/ UNCHANGED operationStateVars
                \/ attempt[a].state \in Busy /\ DegradeActiveBackupState
    BY <1>0, <2>1, <2>3 DEF RowStep, FailStep, SameCatalogue
  <2> QED
    BY <1>8, <2>2, <2>3, FailEffect
<1>9. CASE CaptureVerificationEvidence(r) \/ FindRetainedObject(r) \/ CaptureCompositionSnapshot(r)
           \/ AcquireSearchLease(r) \/ DropSearchIndex(r) \/ ReleaseSearchLease(r) \/ ExportSql(r)
           \/ ReconstructSearch(r)
  <2>1. UNCHANGED <<operationStateVars, catalogue, rows>>
    BY <1>9 DEF CaptureVerificationEvidence, FindRetainedObject,
       CaptureCompositionSnapshot, AcquireSearchLease, DropSearchIndex, ReleaseSearchLease,
       ExportSql, ReconstructSearch
  <2> QED
    BY <1>1, <2>1 DEF rows
<1>10. CASE RetainObject(r) \/ PrepareRestoreTarget(r) \/ RestoreSql(r) \/ ReconstructAndVerify(r)
            \/ RetainManifest(r) \/ InspectSnapshotFence(r) \/ CallFails(r) \/ Crash(r)
  <2>1. UNCHANGED <<operationStateVars, catalogue, rows>>
    BY <1>10 DEF RetainObject, PrepareRestoreTarget, RestoreSql, ReconstructAndVerify,
       RetainManifest, InspectSnapshotFence, CallFails, Crash
  <2> QED
    BY <1>1, <2>1 DEF rows
<1> QED
  BY <1>2, <1>3, <1>4, <1>5, <1>6, <1>7, <1>8, <1>9, <1>10 DEF BackupStep

(* So is every step. *)
LEMMA StepKinds ==
  ASSUME WellFormed, [Next]_vars
  PROVE  KeepStep \/ GuardStep \/ \E a \in Attempts : RowStep(a)
<1>1. CASE UNCHANGED vars
  BY <1>1 DEF vars, backupVars, rows, KeepStep
<1>2. CASE CatalogueWrite \/ ClaimIngestion \/ FinishIngestion
  <2>1. catalogue \in [revision : 0..MaxRevision, acceptance : Attempts \cup {None},
                       contents : Nat, ingesting : BOOLEAN]
    BY DEF WellFormed, TypeOK
  <2>2. UNCHANGED <<operationStateVars, rows>>
    BY <1>2 DEF CatalogueWrite, ClaimIngestion, FinishIngestion
  <2>3. \/ catalogue' = [catalogue EXCEPT !.contents = @ + 1]
        \/ catalogue' = [catalogue EXCEPT !.ingesting = TRUE] /\ recovery_health # "blocked"
        \/ catalogue' = [catalogue EXCEPT !.ingesting = FALSE]
    BY <1>2 DEF CatalogueWrite, ClaimIngestion, FinishIngestion
  <2>4. /\ catalogue'.revision = catalogue.revision /\ catalogue'.acceptance = catalogue.acceptance
        /\ catalogue'.ingesting => catalogue.ingesting \/ recovery_health # "blocked"
    BY <2>1, <2>3
  <2> QED
    BY <2>2, <2>4 DEF KeepStep, rows
<1>3. ASSUME NEW a \in Attempts, NEW v \in 1..MaxRevision, AcceptPublication(a, v)
      PROVE  AcceptStep(a)
  <2>1. RecoveryVerified
    BY <1>3 DEF AcceptPublication
  <2>2. catalogue.revision \in 0..MaxRevision
    BY DEF WellFormed, TypeOK
  <2> QED
    BY <1>3, <2>1, <2>2, BackupAssumption, AcceptEffect, SMT DEF AcceptStep
<1>4. CASE BeginRecovery \/ AcceptRecovery \/ AdministrationRequest
  <2>1. attempt' = attempt /\ retention' = retention /\ catalogue' = catalogue
    BY <1>4 DEF BeginRecovery, AcceptRecovery, AdministrationRequest, backupVars, rows
  <2>2. \/ EnforceRecoveryRestoreGuard \/ ReleaseAcceptedRecovery
        \/ /\ \A a \in Attempts : attempt[a].state \notin Busy
           /\ ReserveRecoveryOperation(FALSE)
    BY <1>4 DEF BeginRecovery, AcceptRecovery, AdministrationRequest
  <2> QED
    BY <2>1, <2>2 DEF GuardStep, SameCatalogue
<1>5. CASE \/ SearchLeaseExpires
           \/ \E a \in Attempts :
                \/ \E linked \in Attempts \cup {None} : StartCatalogueBackup(a, linked)
                \/ DispatchBackup(a) \/ StepTimesOut(a)
                \/ \E r \in Runners : StartTry(r, a) \/ ObserveErroredWorkflow(r, a)
  <2>1. attempt' = attempt /\ UNCHANGED <<operationStateVars, catalogue, retention>>
    BY <1>5 DEF SearchLeaseExpires, StartCatalogueBackup, DispatchBackup, StepTimesOut,
       StartTry, ObserveErroredWorkflow, rows
  <2> QED
    BY <2>1 DEF KeepStep
<1> QED
  BY <1>1, <1>2, <1>3, <1>4, <1>5, CallKinds, StepCases DEF RowStep

(* An attempt never changes the publication it belongs to. *)
LEMMA OperationKept ==
  ASSUME WellFormed, [Next]_vars, NEW a \in Attempts, attempt[a].state # "absent"
  PROVE  attempt'[a].operation = attempt[a].operation /\ attempt'[a].revision = attempt[a].revision
<1>1. attempt[a] # NoAttempt
  BY NoAttemptFields
<1> QED
  BY <1>1, StepKinds DEF KeepStep, GuardStep, RowStep, AcceptStep, CreateStep, BeginStep, AdvanceStep,
     FailStep, CompleteStep, Inserted, RowTo, OnlyRow

(* A call changes no other execution, no row but its own attempt's, and     *)
(* never the catalogue.                                                     *)
LEMMA CallFrame ==
  ASSUME WellFormed, NEW r \in Runners, BackupStep(r) \/ CallFails(r) \/ Crash(r)
  PROVE  /\ runner[r].pc # "idle" /\ runner[r].a \in Attempts
         /\ OnlyRunner(r) /\ OnlyRow(runner[r].a) /\ catalogue' = catalogue
         /\ \/ Ended(r)
            \/ workflow' = workflow /\ runner'[r].a = runner[r].a /\ runner'[r].mode = runner[r].mode
<1> DEFINE Went == /\ OnlyRunner(r) /\ workflow' = workflow
                   /\ runner'[r].a = runner[r].a /\ runner'[r].mode = runner[r].mode
<1> DEFINE Frame == (attempt' = attempt \/ OnlyRow(runner[r].a)) /\ (Ended(r) \/ Went)
<1>1. runner[r].pc # "idle"
  <2>1. CASE CallFails(r) \/ Crash(r)
    BY <2>1, FaultEffect DEF Crash
  <2>2. CASE BackupStep(r)
    BY <2>2 DEF BackupStep, InsertPendingBackup, CheckOperationState,
       CaptureVerificationEvidence, StartBackupExport, FindRetainedObject, RaiseRestoreGuard,
       RaiseHealthFence, CaptureCompositionSnapshot, AcquireSearchLease, DropSearchIndex,
       ReleaseSearchLease, ExportSql, ReconstructSearch, ClearRestoreGuard, RetainObject,
       TransitionExported, PrepareRestoreTarget, PersistPreparedTarget, TransitionImporting,
       RestoreSql, TransitionRestored, ReconstructAndVerify, RetainManifest, CompleteBackup,
       InspectSnapshotFence, FailActiveAttempt
  <2> QED
    BY <2>1, <2>2
<1>2. runner[r].a \in Attempts
  BY <1>1, StepTypes
<1>3. catalogue' = catalogue
  <2>1. CASE BackupStep(r)
    BY <2>1 DEF BackupStep, InsertPendingBackup, CheckOperationState,
       CaptureVerificationEvidence, StartBackupExport, FindRetainedObject, RaiseRestoreGuard,
       RaiseHealthFence, CaptureCompositionSnapshot, AcquireSearchLease, DropSearchIndex,
       ReleaseSearchLease, ExportSql, ReconstructSearch, ClearRestoreGuard, RetainObject,
       TransitionExported, PrepareRestoreTarget, PersistPreparedTarget, TransitionImporting,
       RestoreSql, TransitionRestored, ReconstructAndVerify, RetainManifest, CompleteBackup,
       InspectSnapshotFence, FailActiveAttempt, Advance
  <2>2. CASE CallFails(r) \/ Crash(r)
    BY <2>2 DEF CallFails, Crash
  <2> QED
    BY <2>1, <2>2
<1>4. (\A pcs : Moved(r, pcs) => Went) /\ (ReadBack(r) => Went)
  BY DEF Moved, ReadBack
<1>10. Frame => /\ OnlyRunner(r) /\ OnlyRow(runner[r].a)
                /\ \/ Ended(r)
                   \/ /\ workflow' = workflow /\ runner'[r].a = runner[r].a
                      /\ runner'[r].mode = runner[r].mode
  BY DEF Ended, OnlyRow
<1> SUFFICES Frame
  BY <1>1, <1>2, <1>3, <1>10
<1> HIDE DEF Went
<1>5. CASE InsertPendingBackup(r)
  BY <1>4, <1>5, InsertEffect DEF Inserted
<1>6. CASE CheckOperationState(r) \/ CaptureVerificationEvidence(r) \/ StartBackupExport(r)
           \/ FindRetainedObject(r) \/ RaiseRestoreGuard(r) \/ RaiseHealthFence(r)
  BY <1>4, <1>6, CheckEffect, EvidenceEffect, BeginEffect, FindEffect, GuardEffect, FenceEffect
       DEF RowTo
<1>7. CASE CaptureCompositionSnapshot(r) \/ AcquireSearchLease(r) \/ DropSearchIndex(r)
           \/ ReleaseSearchLease(r) \/ ReconstructSearch(r) \/ ExportSql(r) \/ ClearRestoreGuard(r)
           \/ RetainObject(r) \/ TransitionExported(r) \/ InspectSnapshotFence(r)
  BY <1>4, <1>7, CaptureEffect, LeaseEffect, DropEffect, LeavingEffect, ExportEffect, ClearEffect,
       RetainEffect, ExportedEffect, InspectEffect DEF RowTo
<1>8. CASE PrepareRestoreTarget(r) \/ PersistPreparedTarget(r)
  BY <1>8, PrepareEffect, PersistEffect DEF Went
<1>9. CASE TransitionImporting(r) \/ RestoreSql(r) \/ TransitionRestored(r)
           \/ ReconstructAndVerify(r) \/ RetainManifest(r) \/ CompleteBackup(r)
           \/ FailActiveAttempt(r) \/ CallFails(r) \/ Crash(r)
  BY <1>4, <1>9, ImportingEffect, RestoreEffect, RestoredEffect, VerifyEffect, ManifestEffect,
       CompleteEffect, FailEffect, FaultEffect, CrashEffect DEF RowTo
<1> QED
  BY <1>5, <1>6, <1>7, <1>8, <1>9 DEF BackupStep
=============================================================================
