-------------------------- MODULE EvidenceCleanup --------------------------
(***************************************************************************)
(* A cleanup intent and the executions that advance it.  An intent         *)
(* reclaims the physical objects of one owner: a terminal Ingestion Run    *)
(* (CaptureReclamation) or an abandoned preparation (StagingReclamation).  *)
(*                                                                         *)
(*   cleanups   evidence_cleanup_operations with evidence_cleanup_results; *)
(*              object keys are numbered in key order, 0 is the empty      *)
(*              cursor                                                     *)
(*   jobs       executions: <<c, g>> is the Workflow chain of intent c at  *)
(*              generation g (continuation shards included), <<c, -1>>     *)
(*              the owner's advance route                                  *)
(*   fenced     operation_state.recovery_restore_guard = 'blocked': every  *)
(*              write of a fenced table raises, and the step is retried    *)
(*   backup     one backup attempt: whether it may be restored, the keys   *)
(*              whose claim is dated before its start, and the objects it  *)
(*              found in use and counts on                                 *)
(*   plan       which of the scenarios in Plans this behaviour is; it only *)
(*              bounds who acts and what goes wrong                        *)
(*                                                                         *)
(* The executions of one intent overlap freely: an owner may call the      *)
(* route at any time, and a retry starts the next generation's chain while *)
(* the last one still runs.                                                *)
(***************************************************************************)
EXTENDS Integers, FiniteSets

CONSTANTS Cleanups,       \* intents, named after the owner they reclaim
          Keys,           \* object keys
          MaxGeneration,  \* retries of an intent
          MaxUnits,       \* objects an advance looks at (4 in the code)
          Plans           \* [scope, owners, ends, keys, happens]

Plan ==
  [scope : {"staging", "capture"}, owners : SUBSET Cleanups, ends : SUBSET Cleanups, keys : SUBSET Keys,
   happens : SUBSET {"route", "resume", "exhaust", "undispatched", "lose_put", "lose_delete",
                     "lose_step", "records", "backup", "snapshot", "share", "pin", "retain",
                     "derive", "depend", "sweep", "discard"}]

ASSUME CleanupAssumption ==
  /\ Keys \subseteq Nat \ {0} /\ MaxGeneration \in Nat /\ MaxUnits \in Nat \ {0}
  /\ Plans \subseteq Plan

VARIABLES cleanups, jobs, fenced, backup, plan

cleanupVars == <<cleanups, jobs, fenced, backup, plan>>

Route == -1
Executions == Cleanups \X (Route .. MaxGeneration)

NewCleanup == [state |-> "none", cursor |-> 0, retry_cursor |-> 0, generation |-> 0,
               results |-> [k \in Keys |-> "none"]]

(* The points of an execution: of every cleanup, of a staging object's and   *)
(* of an evidence object's.                                                  *)
CommonPoints == {"idle", "unit", "pick", "record", "close", "returned", "done"}
StagingPoints == {"read", "reserve", "inspect", "tickets", "promote", "delete", "deleting", "final"}
CapturePoints == {"read", "claim", "reread", "writer", "settle", "abort", "complete", "others",
                  "authorize", "guard", "send", "deleted"}

(* early: the clock that dates the step's claims was read before the backup. *)
JobType ==
  [pc : CommonPoints \cup StagingPoints \cup CapturePoints, unit : Nat, key : Keys \cup {0},
   retry : BOOLEAN, early : BOOLEAN,
   seen : {"none", "unknown", "available", "reserved", "deleting", "deleted"},
   outcome : {"none", "waiting", "protected", "deleted", "paused", "completed"}, ticket : Nat]

BackupType ==
  [state : {"none", "running", "retained", "released"}, older : SUBSET Keys, found : SUBSET Keys]

CleanupTypeOK ==
  /\ cleanups \in [Cleanups -> [state : {"none", "pending", "running", "paused", "completed"},
                                cursor : Keys \cup {0}, retry_cursor : Keys \cup {0},
                                generation : 0 .. MaxGeneration,
                                results : [Keys -> {"none", "waiting", "protected", "deleted"}]]]
  /\ jobs \in [Executions -> JobType]
  /\ fenced \in BOOLEAN
  /\ backup \in BackupType
  /\ plan \in Plan

Job(pc) == [pc |-> pc, unit |-> 1, key |-> 0, retry |-> FALSE, early |-> FALSE, seen |-> "none",
            outcome |-> "none", ticket |-> 0]

CleanupInit ==
  /\ cleanups = [c \in Cleanups |-> NewCleanup]
  /\ jobs = [d \in Executions |-> Job("idle")]
  /\ fenced = FALSE
  /\ backup = [state |-> "none", older |-> {}, found |-> {}]
  /\ plan \in Plans

-----------------------------------------------------------------------------
Happens(what) == what \in plan.happens

(* Bound: an owner calls the route, a step is lost, an object has a full     *)
(* page of records, and a snapshot raises its fence, once in a behaviour.    *)
Once(what) == Happens(what) /\ plan' = [plan EXCEPT !.happens = @ \ {what}]

Goto(d, pc) == jobs' = [jobs EXCEPT ![d] = [@ EXCEPT !.pc = pc]]

Conclude(d, outcome) == jobs' = [jobs EXCEPT ![d] = [@ EXCEPT !.pc = "record", !.outcome = outcome]]

(* An advance begins: its caller reads the clock once, for all its objects. *)
BeginAdvance == [Job("pick") EXCEPT !.early = (backup.state = "none")]

(* The loop of an advance goes on to its next object, or returns. *)
NextUnit(d) ==
  jobs' = [jobs EXCEPT ![d] = IF @.unit < MaxUnits
                              THEN [Job("pick") EXCEPT !.unit = jobs[d].unit + 1, !.early = jobs[d].early]
                              ELSE Job("returned")]

(* A step that throws is retried from its start; a route reports the error. *)
StartOver(d) == jobs' = [jobs EXCEPT ![d] = Job(IF d[2] = Route THEN "idle" ELSE "unit")]

Pause(c) == [cleanups EXCEPT ![c].state = IF @ = "completed" THEN @ ELSE "paused",
                             ![c].retry_cursor = IF cleanups[c].state = "completed" THEN @ ELSE 0]

Waiting(c) == {k \in Keys : cleanups[c].results[k] = "waiting"}

(* The retained intent; a replayed start finds it and only dispatches.  A    *)
(* crash before the dispatch leaves the intent pending.                      *)
BeginCleanup(c) ==
  /\ cleanups[c].state = "none" /\ ~fenced
  /\ cleanups' = [cleanups EXCEPT ![c].state = "pending"]
  /\ UNCHANGED <<jobs, fenced, backup, plan>>

(* ensure creates an instance for a generation once, and never again. *)
DispatchCleanup(c) ==
  LET d == <<c, cleanups[c].generation>> IN
  /\ cleanups[c].state \notin {"none", "completed"}
  /\ \/ jobs[d].pc = "idle" /\ Goto(d, "unit") /\ UNCHANGED cleanups
     \/ /\ jobs[d].pc = "idle" /\ ~fenced /\ Happens("undispatched")
        /\ cleanups' = Pause(c)
        /\ UNCHANGED jobs
  /\ UNCHANGED <<fenced, backup, plan>>

ResumeCleanup(c) ==
  /\ cleanups[c].state \notin {"none", "completed"} /\ ~fenced
  /\ cleanups[c].generation < MaxGeneration /\ Happens("resume")
  /\ cleanups' = [cleanups EXCEPT ![c].generation = @ + 1, ![c].state = "pending",
                                  ![c].retry_cursor = 0]
  /\ UNCHANGED <<jobs, fenced, backup, plan>>

(* Between units a chain stops when its generation is stale or its intent is *)
(* completed or paused; the route returns after at most four units.          *)
Unit(d) ==
  /\ jobs[d].pc = "unit"
  /\ LET c == cleanups[d[1]] IN
     IF d[2] # Route /\ (c.generation # d[2] \/ c.state = "completed") THEN Goto(d, "done")
     ELSE jobs' = [jobs EXCEPT ![d] = BeginAdvance]
  /\ UNCHANGED <<cleanups, fenced, backup, plan>>

Returned(d) ==
  /\ jobs[d].pc = "returned"
  /\ LET c == cleanups[d[1]]
         over == c.generation # d[2] \/ c.state \in {"completed", "paused"} IN
     Goto(d, IF d[2] = Route THEN "idle" ELSE IF over THEN "done" ELSE "unit")
  /\ UNCHANGED <<cleanups, fenced, backup, plan>>

CallRoute(c) ==
  /\ cleanups[c].state # "none"
  /\ jobs[<<c, Route>>].pc = "idle" /\ Once("route")
  /\ jobs' = [jobs EXCEPT ![<<c, Route>>] = BeginAdvance]
  /\ UNCHANGED <<cleanups, fenced, backup>>

(* A unit that keeps throwing exhausts its retries: the chain pauses the     *)
(* intent if the generation is still its own, and ends.  A route reports it. *)
GiveUp(d) ==
  /\ ~fenced
  /\ Goto(d, IF d[2] = Route THEN "idle" ELSE "done")
  /\ LET c == d[1] IN
     cleanups' = IF cleanups[c].generation = d[2] THEN Pause(c) ELSE cleanups

Exhaust(d) ==
  /\ d[2] # Route /\ jobs[d].pc \in {"unit", "pick"} /\ Happens("exhaust")
  /\ GiveUp(d)
  /\ UNCHANGED <<fenced, backup, plan>>

(* Key order: the first of some keys. *)
FirstOf(keys) == {k \in keys : \A j \in keys : k <= j}

(* Mutant: a retry takes the first waiting key, wherever the cursor is. *)
PickFirstWaiting(d, inventory) ==
  /\ jobs[d].pc = "pick"
  /\ LET c == cleanups[d[1]]
         fresh == {k \in inventory : k > c.cursor}
         Pick(j) == jobs' = [jobs EXCEPT ![d] = j] IN
     \/ c.state = "completed" /\ Pick(Job("returned"))
     \/ /\ c.state # "completed"
        /\ \E k \in FirstOf(fresh) : Pick([jobs[d] EXCEPT !.pc = "read", !.key = k])
     \/ /\ c.state # "completed" /\ fresh = {}
        /\ \E k \in FirstOf(Waiting(d[1])) : Pick([jobs[d] EXCEPT !.pc = "read", !.key = k, !.retry = TRUE])
     \/ /\ c.state # "completed" /\ fresh = {} /\ Waiting(d[1]) = {}
        /\ Pick([Job("close") EXCEPT !.outcome = "completed"])
  /\ UNCHANGED <<cleanups, fenced, backup, plan>>

(* The next key of the inventory, then the next waiting key, then the end. *)
PickKey(d, inventory) ==
  /\ jobs[d].pc = "pick"
  /\ LET c == cleanups[d[1]]
         fresh == {k \in inventory : k > c.cursor}
         again == {k \in Waiting(d[1]) : k > c.retry_cursor}
         Pick(j) == jobs' = [jobs EXCEPT ![d] = j] IN
     \/ c.state = "completed" /\ Pick(Job("returned"))
     \/ /\ c.state # "completed"
        /\ \E k \in FirstOf(fresh) : Pick([jobs[d] EXCEPT !.pc = "read", !.key = k])
     \/ /\ c.state # "completed" /\ fresh = {}
        /\ \E k \in FirstOf(again) : Pick([jobs[d] EXCEPT !.pc = "read", !.key = k, !.retry = TRUE])
     \/ /\ c.state # "completed" /\ fresh = {} /\ again = {}
        /\ Pick([Job("close") EXCEPT !.outcome = IF Waiting(d[1]) # {} THEN "paused" ELSE "completed"])
  /\ UNCHANGED <<cleanups, fenced, backup, plan>>

CloseCleanup(d) ==
  /\ jobs[d].pc = "close" /\ ~fenced
  /\ Goto(d, "returned")
  /\ LET c == d[1] IN
     cleanups' = IF jobs[d].outcome = "completed"
                 THEN [cleanups EXCEPT ![c].state = "completed"] ELSE Pause(c)
  /\ UNCHANGED <<fenced, backup, plan>>

(* The operation's cursors move forward while it is open; a result is kept   *)
(* unless it was waiting.  Then the next unit, or the return after the last. *)
RecordResult(d) ==
  /\ jobs[d].pc = "record" /\ ~fenced
  /\ LET j == jobs[d]
         c == d[1]
         open == cleanups[c].state # "completed"
         advanced(cursor) == IF open /\ cursor < j.key THEN j.key ELSE cursor IN
     /\ cleanups' = [cleanups EXCEPT
          ![c].results[j.key] = IF @ \in {"none", "waiting"} THEN j.outcome ELSE @,
          ![c].cursor = IF ~j.retry THEN advanced(@) ELSE @,
          ![c].retry_cursor = IF j.retry THEN advanced(@) ELSE @,
          ![c].state = IF open THEN "running" ELSE @]
     /\ NextUnit(d)
  /\ UNCHANGED <<fenced, backup, plan>>

(* A call of the step is lost with its Worker; the retried step starts over. *)
LoseExecution(d, points) ==
  /\ jobs[d].pc \in points /\ Once("lose_step")
  /\ StartOver(d)
  /\ UNCHANGED <<cleanups, fenced, backup>>

-----------------------------------------------------------------------------
(* Backups, as far as cleanups meet them: an attempt does not begin, and a   *)
(* snapshot does not raise its fence, while an object is being deleted.      *)
StartBackup(deleting, reserved, inUse) ==
  /\ backup.state = "none" /\ ~fenced /\ Happens("backup")
  /\ deleting = {}
  /\ backup' = [state |-> "running", older |-> reserved, found |-> inUse]
  /\ UNCHANGED <<cleanups, jobs, fenced, plan>>

FenceSnapshot(deleting) ==
  /\ backup.state = "running" /\ ~fenced
  /\ deleting = {}
  /\ Once("snapshot")
  /\ fenced' = TRUE
  /\ UNCHANGED <<cleanups, jobs, backup>>

Unfence ==
  /\ fenced
  /\ fenced' = FALSE
  /\ UNCHANGED <<cleanups, jobs, backup, plan>>

(* Verified and retained, failed, or replaced by newer ones and expired. *)
FinishBackup ==
  /\ ~fenced
  /\ \/ backup.state = "running" /\ \E state \in {"retained", "released"} :
                                      backup' = [backup EXCEPT !.state = state]
     \/ backup.state = "retained" /\ backup' = [backup EXCEPT !.state = "released"]
  /\ UNCHANGED <<cleanups, jobs, fenced, plan>>

(* A claim is dated by the clock of the step that makes it: one that was     *)
(* read before the backup began dates the claim before the backup, which     *)
(* then does not count on the object.                                        *)
DateClaim(d, k) ==
  backup' = IF backup.state = "none" THEN backup
            ELSE IF jobs[d].early
            THEN [backup EXCEPT !.older = @ \cup {k}, !.found = @ \ {k}]
            ELSE [backup EXCEPT !.older = @ \ {k}]

(* Mutant: a running attempt protects nothing until it is verified. *)
BackupProtectsLate(k) == backup.state = "retained" /\ k \notin backup.older

(* A backup that may still be restored protects a key whose claim is dated   *)
(* at its start or later.  (The owners in an instance all began before it.)  *)
BackupProtects(k) == backup.state \in {"running", "retained"} /\ k \notin backup.older

(* An execution advances by itself, an owner's request does not. *)
Advance(d, inventory) ==
  \/ Unit(d) \/ Returned(d) \/ PickKey(d, inventory) \/ CloseCleanup(d) \/ RecordResult(d)

Request(c) == DispatchCleanup(c) \/ ResumeCleanup(c) \/ CallRoute(c)

-----------------------------------------------------------------------------
(* Every chain comes to its end: retrying what waits goes once through the   *)
(* waiting keys and then pauses.  (runEvidenceCleanupWorkflow, retry_cursor) *)
ChainEnds == <>[](\A d \in Executions : d[2] # Route => jobs[d].pc \in {"idle", "done"})
=============================================================================
