--------------------------- MODULE SourceCapture ---------------------------
(***************************************************************************)
(* Collecting Source Requests of one Ingestion Run: the capture operations *)
(* of a hostname shard, run by overlapping invocations of its durable      *)
(* step, and the control path that replaces a shard's Workflow Attempt,    *)
(* pauses, resumes and ends the run.                                       *)
(*                                                                         *)
(*   run        ingestion_run_current.state, the reason of the latest      *)
(*              pause and plan.parent_workflow_id (an attempt number)      *)
(*   children   ingestion_workflow_attempts of the shard, each with the    *)
(*              parent it was started under and its platform status        *)
(*   requests   source_requests: state, retry_generation, the attempt      *)
(*              whose snapshot it took                                     *)
(*   ops        source_capture_operations of a request by attempt number;  *)
(*              outcome is the source_fetch_attempts row                   *)
(*   stored     objects of the evidence bucket: capture -> writer token    *)
(*   puts       object writes the bucket has been sent and not finished    *)
(*   job        one record per invocation, and one for the control path    *)
(*                                                                         *)
(* Every step of an invocation is one database batch or one storage call;  *)
(* between two steps any other actor may run, and the invocation may be    *)
(* lost.  A durable step that timed out is retried while its first         *)
(* callback still runs, so two invocations may hold the same request.      *)
(***************************************************************************)
EXTENDS AcquisitionBudget, FiniteSets, FiniteSetsExt

CONSTANTS Invocations,        \* overlapping callbacks of the shard's step
          Requests,
          Required,           \* requests whose exhaustion pauses the run
          AttemptsPerGeneration,  \* captureAttemptsPerRetryGeneration (4 in the code)
          MaximumBytes, BodyBytes,
          maximumHostWorkflowIdentities,  \* attempts a shard may use (4 in the code)
          MaxParents,         \* bound on the parent's Workflow Attempts
          MaxPolicies,        \* bound on budget generations
          Plans               \* bounds: which faults and actors one behaviour has

ASSUME CaptureAssumption ==
  /\ Required \subseteq Requests
  /\ Plans \subseteq [invocations : SUBSET Invocations, requests : SUBSET Requests,
                     responses : SUBSET {"rejected", "broken", "unmatched", "unchanged",
                                         "busy", "gone", "body"},
                     losses : Nat, parents : 1 .. MaxParents,
                     happens : SUBSET {"pause", "halt", "recover", "terminate", "extend", "expire"},
                     policies : SUBSET InitialPolicies]
  /\ AttemptsPerGeneration \in Nat \ {0}
  /\ maximumHostWorkflowIdentities \in Nat \ {0}
  /\ BodyBytes <= MaximumBytes /\ MaximumBytes \in DispatchSizes

VARIABLES run, children, requests, ops, stored, puts, job, plan

captureVars == <<run, children, requests, ops, stored, puts, job, plan>>
vars == <<budgetVars, captureVars>>

Control == "control"
Actors == Invocations \cup {Control}

Idle == [pc |-> "idle", child |-> 0, capture |-> <<>>, dispatch |-> 0, outcome |-> "none"]

NewOperation == [state |-> "planned", outcome |-> "none", reused |-> FALSE]

Init ==
  /\ BudgetInit
  /\ plan \in Plans /\ policy \in plan.policies
  /\ run = [state |-> "collecting", pause |-> "none", parent |-> 1]
  /\ children = <<>>
  /\ requests = [r \in plan.requests |-> [state |-> "pending", retry_generation |-> 1, snapshot |-> 0]]
  /\ ops = [r \in plan.requests |-> <<>>]
  /\ stored = {}
  /\ puts = {}
  /\ job = [a \in Actors |-> Idle]

-----------------------------------------------------------------------------
Op(capture) == ops[capture[1]][capture[2]]

CaptureIds == UNION {{<<r, n>> : n \in DOMAIN ops[r]} : r \in plan.requests}

StoredToken(capture) == {s[2] : s \in {t \in stored : t[1] = capture}}

retryBudget(r) == requests[r].retry_generation * AttemptsPerGeneration

Recoverable == {"network_failure", "http_failure", "storage_failure"}

(* isCurrentCollectionWorkflowAttempt: the latest attempt of its shard,      *)
(* started by the parent the plan is bound to.                               *)
IsCurrent(c) == c = Len(children) /\ children[c].parent = run.parent

(* sourceParseAuthorityGuard, inside the batch. *)
Authority(c) == run.state = "collecting" /\ IsCurrent(c)

Paused(reason) ==
  IF run.state = "collecting" THEN [run EXCEPT !.state = "paused", !.pause = reason] ELSE run

At(a, pc) == job[a].pc = pc

Goto(a, pc) == job' = [job EXCEPT ![a].pc = pc]

Return(a) == job' = [job EXCEPT ![a] = Idle]

-----------------------------------------------------------------------------
(* What recordFailedTransportAttempt and recordRejectedAttempt commit in one *)
(* batch: the attempt row, the failed operation, and at exhaustion either a  *)
(* Retry Pause or the failure of the request.                                *)
RecordAttempt(capture, outcome) ==
  LET r == capture[1]
      exhausted == capture[2] >= retryBudget(r)
      pauses == exhausted /\ outcome \in Recoverable
                  /\ (r \in Required \/ outcome = "storage_failure")
      fails == \/ outcome = "content_rejected"
               \/ exhausted /\ ~pauses
  IN /\ ops' = [ops EXCEPT ![r][capture[2]] =
                  IF @.state = "finalized" THEN @
                  ELSE [@ EXCEPT !.state = "failed",
                                 !.outcome = IF @ = "none" THEN outcome ELSE @]]
     /\ requests' = [requests EXCEPT ![r].state =
                  IF fails /\ @ \in {"pending", "captured"} THEN "failed" ELSE @]
     /\ run' = IF pauses THEN Paused("retry") ELSE run

-----------------------------------------------------------------------------
(* collectSourceRequestBatch admits a request: run, ownership and policy are *)
(* read, and then the request row.                                           *)
Begin(i, r) ==
  /\ At(i, "idle") /\ i \in plan.invocations
  /\ \E c \in DOMAIN children :
       /\ children[c].status = "running" /\ Authority(c)
       /\ IF policy.generation = 0
          THEN run' = Paused("acquisition") /\ UNCHANGED job
          ELSE /\ requests[r].state \in {"pending", "captured"}
               /\ job' = [job EXCEPT ![i] = [Idle EXCEPT
                    !.pc = IF requests[r].state = "pending" THEN "prepare" ELSE "parse",
                    !.child = c,
                    !.capture = <<r, requests[r].snapshot>>]]
               /\ UNCHANGED run
  /\ UNCHANGED <<budgetVars, children, requests, ops, stored, puts, plan>>

(* The rest of prepareCaptureAttempt: continue the open operation, or open   *)
(* the next attempt, or settle an exhausted generation again.                *)
PrepareCaptureAttempt(i) ==
  LET r == job[i].capture[1]
      open == {n \in DOMAIN ops[r] :
                 ops[r][n].state \in {"planned", "response_received", "uploaded"}}
      latest == Max({0} \cup {n \in DOMAIN ops[r] : ops[r][n].state \in {"finalized", "failed"}})
      Take(n) == job' = [job EXCEPT ![i].pc = "owns", ![i].capture = <<r, n>>]
  IN /\ At(i, "prepare")
     /\ \/ /\ open # {}
           /\ Take(Max(open))
           /\ UNCHANGED <<run, requests, ops>>
        \/ /\ open = {} /\ latest < retryBudget(r)
           /\ ops' = [ops EXCEPT ![r] = Append(@, NewOperation)]
           /\ Take(latest + 1)
           /\ UNCHANGED <<run, requests>>
        \/ /\ open = {} /\ latest >= retryBudget(r)
           /\ RecordAttempt(<<r, latest>>, ops[r][latest].outcome)
           /\ Return(i)
     /\ UNCHANGED <<budgetVars, children, stored, puts, plan>>

(* After the pacing wait the ownership and the run are read again. *)
RecheckOwnership(i) ==
  /\ At(i, "owns")
  /\ IF Authority(job[i].child) THEN Goto(i, "capture") ELSE Return(i)
  /\ UNCHANGED <<budgetVars, run, children, requests, ops, stored, puts, plan>>

(* Mutant: a receipt is taken for the whole upload, settled or not. *)
ReadReceiptAlone(i) ==
  LET capture == job[i].capture
  IN /\ At(i, "capture")
     /\ CASE Op(capture).state = "uploaded" -> Goto(i, "complete")
          [] Op(capture).state = "finalized" -> Goto(i, "parse")
          [] Op(capture).state = "failed" -> Return(i)
          [] Op(capture).state = "response_received" -> Goto(i, "recover")
          [] OTHER -> Goto(i, "reserve")
     /\ UNCHANGED <<budgetVars, run, children, requests, ops, stored, puts, plan>>

(* capturePreparedAttempt resumes the operation from the state it reads.     *)
(* An operation whose bytes were received is only ever finished from the     *)
(* stored object; it is never fetched again.                                 *)
ReadOperation(i) ==
  LET capture == job[i].capture
      latest == {d \in DOMAIN dispatches : dispatches[d].capture = capture}
      unsettled == latest # {} /\ Max(latest) \in Unsettled
  IN /\ At(i, "capture")
     /\ CASE Op(capture).state = "uploaded" -> Goto(i, IF unsettled THEN "recover" ELSE "complete")
          [] Op(capture).state = "finalized" -> Goto(i, "parse")
          [] Op(capture).state = "failed" -> Return(i)
          [] Op(capture).state = "response_received" -> Goto(i, "recover")
          [] OTHER -> Goto(i, "reserve")
     /\ UNCHANGED <<budgetVars, run, children, requests, ops, stored, puts, plan>>

(* reserveAcquisitionDispatch: only this invocation's own insert is a permit. *)
Reserve(i) ==
  LET capture == job[i].capture
  IN /\ At(i, "reserve")
     /\ IF ~Authority(job[i].child)
        THEN Return(i) /\ UNCHANGED budgetVars
        ELSE IF Op(capture).state = "planned" /\ Admits(capture, MaximumBytes)
        THEN /\ ReserveSourceDispatch(capture, job[i].child, MaximumBytes)
             /\ job' = [job EXCEPT ![i].pc = "fetch", ![i].dispatch = Len(dispatches) + 1]
        ELSE Goto(i, "refused") /\ UNCHANGED budgetVars
     /\ UNCHANGED <<run, children, requests, ops, stored, puts, plan>>

(* A refused reservation reads why, and pauses the run when there is still   *)
(* a reason.                                                                 *)
Refused(i) ==
  LET capture == job[i].capture
  IN /\ At(i, "refused")
     /\ run' = IF Authority(job[i].child)
                 /\ (OwnershipPending(capture) \/ limitingDimension(MaximumBytes) # "none")
               THEN Paused("acquisition") ELSE run
     /\ Return(i)
     /\ UNCHANGED <<budgetVars, children, requests, ops, stored, puts, plan>>

(* The physical request.  A rejected fetch retires its writer; a 304 with no *)
(* matching snapshot is recorded as it is; any other answer without a body   *)
(* settles at zero bytes.                                                    *)
Fetch(i) ==
  /\ At(i, "fetch")
  /\ \E response \in plan.responses :
       LET d == job[i].dispatch
           Continue(pc, outcome) == job' = [job EXCEPT ![i].pc = pc, ![i].outcome = outcome]
       IN CASE response \in {"rejected", "broken"} ->
                 /\ CompleteEvidenceObjectWrite(d)
                 /\ Continue("record", IF response = "broken" THEN "body_failure" ELSE "network_failure")
            [] response = "unmatched" ->
                 UNCHANGED budgetVars /\ Continue("record", "content_rejected")
            [] response \in {"busy", "gone", "unchanged"} ->
                 /\ IF Settleable(d, 0) THEN SettleSourceDispatch(d, 0) ELSE UNCHANGED budgetVars
                 /\ CASE response = "busy" -> Continue("record", "http_failure")
                      [] response = "gone" -> Continue("record", "content_rejected")
                      [] OTHER -> Continue("revalidate", "none")
            [] OTHER -> UNCHANGED budgetVars /\ Continue("received", "none")
  /\ UNCHANGED <<run, children, requests, ops, stored, puts, plan>>

Record(i) ==
  /\ At(i, "record")
  /\ RecordAttempt(job[i].capture, job[i].outcome)
  /\ Return(i)
  /\ UNCHANGED <<budgetVars, children, stored, puts, plan>>

(* revalidatedCaptureStatement: the retained snapshot stands for the body. *)
Revalidate(i) ==
  LET c == job[i].capture
  IN /\ At(i, "revalidate")
     /\ ops' = [ops EXCEPT ![c[1]][c[2]] =
                  IF @.state \in {"planned", "response_received"}
                  THEN [@ EXCEPT !.state = "uploaded", !.reused = TRUE] ELSE @]
     /\ Goto(i, "complete")
     /\ UNCHANGED <<budgetVars, run, children, requests, stored, puts, plan>>

(* receivedCaptureResponseStatement *)
ReceiveResponse(i) ==
  LET c == job[i].capture
  IN /\ At(i, "received")
     /\ ops' = [ops EXCEPT ![c[1]][c[2]].state = IF @ = "planned" THEN "response_received" ELSE @]
     /\ Goto(i, "put")
     /\ UNCHANGED <<budgetVars, run, children, requests, stored, puts, plan>>

(* The destination must be absent before the body is streamed to it. *)
StartPut(i) ==
  /\ At(i, "put")
  /\ IF StoredToken(job[i].capture) # {}
     THEN Goto(i, "recover") /\ UNCHANGED puts
     ELSE puts' = puts \cup {job[i].dispatch} /\ Goto(i, "storing")
  /\ UNCHANGED <<budgetVars, run, children, requests, ops, stored, plan>>

(* The bucket finishes a write it was sent, whether or not anyone still      *)
(* waits for it; the immutable precondition drops it if the key exists.      *)
LandPut(d) ==
  /\ d \in puts
  /\ puts' = puts \ {d}
  /\ stored' = IF StoredToken(dispatches[d].capture) = {}
               THEN stored \cup {<<dispatches[d].capture, d>>} ELSE stored
  /\ UNCHANGED <<budgetVars, run, children, requests, ops, job, plan>>

(* streamSnapshotToR2 returns: the object is stored, or another writer had   *)
(* the key (the writer is acknowledged); or storage failed with the outcome  *)
(* unknown; or the body failed and the short write was dropped, its writer   *)
(* left open; or the failed multipart upload was aborted, which settles it.  *)
FinishPut(i) ==
  LET d == job[i].dispatch
      Failed(outcome) == job' = [job EXCEPT ![i].pc = "recover", ![i].outcome = outcome]
      broken == "broken" \in plan.responses
  IN /\ At(i, "storing")
     /\ \/ /\ d \notin puts
           /\ IF StoredToken(job[i].capture) = {d}
              THEN Goto(i, "ack") /\ UNCHANGED budgetVars
              ELSE Goto(i, "recover") /\ CompleteEvidenceObjectWrite(d)
           /\ UNCHANGED puts
        \/ Failed("none") /\ UNCHANGED <<budgetVars, puts>>
        \/ /\ d \in puts /\ puts' = puts \ {d}
           /\ \/ broken /\ Failed("body_failure") /\ UNCHANGED budgetVars
              \/ broken /\ Failed("body_failure") /\ CompleteEvidenceObjectWrite(d)
              \/ Failed("none") /\ CompleteEvidenceObjectWrite(d)
     /\ UNCHANGED <<run, children, requests, ops, stored, plan>>

(* Mutant: an upload declared complete without its object. *)
RecoverWithoutObject(i) ==
  /\ At(i, "recover")
  /\ job' = [job EXCEPT ![i].pc = "ack", ![i].outcome = "none"]
  /\ UNCHANGED <<budgetVars, run, children, requests, ops, stored, puts, plan>>

(* recoverCompletedUpload: the object's writer token must name a reservation *)
(* of this very capture.  Without it the run is paused, except that a body   *)
(* failure is an ordinary failed attempt.                                    *)
RecoverCompletedUpload(i) ==
  /\ At(i, "recover")
  /\ \/ \E d \in StoredToken(job[i].capture) :
          job' = [job EXCEPT ![i].pc = "ack", ![i].dispatch = d]
     \/ Goto(i, IF job[i].outcome = "body_failure" THEN "record" ELSE "pause")
  /\ UNCHANGED <<budgetVars, run, children, requests, ops, stored, puts, plan>>

(* Mutant: an unresolved capture that leaves the run collecting. *)
PauseOwnershipSilently(i) ==
  /\ At(i, "pause")
  /\ Return(i)
  /\ UNCHANGED <<budgetVars, run, children, requests, ops, stored, puts, plan>>

(* pauseAcquisitionOwnership: the dispatch stays charged and unsettled. *)
PauseOwnership(i) ==
  /\ At(i, "pause")
  /\ run' = IF Authority(job[i].child) THEN Paused("acquisition") ELSE run
  /\ Return(i)
  /\ UNCHANGED <<budgetVars, children, requests, ops, stored, puts, plan>>

(* The three writes after a stored object: the writer is acknowledged, the   *)
(* operation uploaded, the dispatch settled at the object's size.            *)
Acknowledge(a) ==
  /\ At(a, "ack")
  /\ CompleteEvidenceObjectWrite(job[a].dispatch)
  /\ Goto(a, "uploaded")
  /\ UNCHANGED <<run, children, requests, ops, stored, puts, plan>>

MarkUploaded(a) ==
  LET c == job[a].capture
  IN /\ At(a, "uploaded")
     /\ ops' = [ops EXCEPT ![c[1]][c[2]].state = IF @ = "response_received" THEN "uploaded" ELSE @]
     /\ Goto(a, "settle")
     /\ UNCHANGED <<budgetVars, run, children, requests, stored, puts, plan>>

SettleUpload(a) ==
  /\ At(a, "settle")
  /\ IF Settleable(job[a].dispatch, BodyBytes)
     THEN SettleSourceDispatch(job[a].dispatch, BodyBytes) ELSE UNCHANGED budgetVars
  /\ Goto(a, IF a = Control THEN "resume" ELSE "complete")
  /\ UNCHANGED <<run, children, requests, ops, stored, puts, plan>>

(* completeUploadedCapture: ownership, run and operation are read first ...  *)
ReadUploaded(i) ==
  /\ At(i, "complete")
  /\ IF Authority(job[i].child)
     THEN CASE Op(job[i].capture).state = "uploaded" -> Goto(i, "commit")
            [] Op(job[i].capture).state = "finalized" -> Goto(i, "parse")
            [] OTHER -> Return(i)
     ELSE Return(i)
  /\ UNCHANGED <<budgetVars, run, children, requests, ops, stored, puts, plan>>

(* ... and then the attempt, the snapshot, the request and the operation are *)
(* committed together.                                                       *)
CommitCapture(i) ==
  LET r == job[i].capture[1]
      n == job[i].capture[2]
  IN /\ At(i, "commit")
     /\ requests' = [requests EXCEPT ![r] =
          IF @.state = "pending" THEN [@ EXCEPT !.state = "captured", !.snapshot = n] ELSE @]
     /\ ops' = [ops EXCEPT ![r][n] = IF @.state = "uploaded"
          THEN [@ EXCEPT !.state = "finalized", !.outcome = IF @ = "none" THEN "success" ELSE @]
          ELSE @]
     /\ Goto(i, "parse")
     /\ UNCHANGED <<budgetVars, run, children, stored, puts, plan>>

(* parseCapturedRequest: admitted by the same two reads ... *)
ReadCaptured(i) ==
  /\ At(i, "parse")
  /\ IF Authority(job[i].child) THEN Goto(i, "observe") ELSE Return(i)
  /\ UNCHANGED <<budgetVars, run, children, requests, ops, stored, puts, plan>>

(* ... it observes the request, or fails it when its facts do not parse. *)
ObserveRequest(i) ==
  LET r == job[i].capture[1]
  IN /\ At(i, "observe")
     /\ \/ requests' = [requests EXCEPT ![r].state =
             IF @ = "captured" /\ requests[r].snapshot = job[i].capture[2] THEN "observed" ELSE @]
        \/ requests' = [requests EXCEPT ![r].state =
             IF @ \in {"pending", "captured"} THEN "failed" ELSE @]
     /\ Return(i)
     /\ UNCHANGED <<budgetVars, run, children, ops, stored, puts, plan>>

(* An invocation or the control path dies between two steps; a database      *)
(* error after the body was stored is caught and leads to recovery.          *)
Lose(a) ==
  /\ plan.losses > 0 /\ ~At(a, "idle")
  /\ \/ Return(a)
     \/ a # Control /\ job[a].pc \in {"ack", "uploaded", "settle"} /\ Goto(a, "recover")
  /\ plan' = [plan EXCEPT !.losses = @ - 1]
  /\ UNCHANGED <<budgetVars, run, children, requests, ops, stored, puts>>

InvocationStep(i) ==
  \/ \E r \in plan.requests : Begin(i, r)
  \/ PrepareCaptureAttempt(i) \/ RecheckOwnership(i) \/ ReadOperation(i)
  \/ Reserve(i) \/ Refused(i) \/ Fetch(i) \/ Record(i) \/ Revalidate(i)
  \/ ReceiveResponse(i) \/ StartPut(i) \/ FinishPut(i)
  \/ RecoverCompletedUpload(i) \/ PauseOwnership(i)
  \/ ReadUploaded(i) \/ CommitCapture(i) \/ ReadCaptured(i) \/ ObserveRequest(i)

-----------------------------------------------------------------------------
(* A Workflow instance ends: completed, errored, or terminated.  It executes *)
(* nothing afterwards, but writes it already sent may still land.            *)
FinishChildren(C) ==
  /\ children' = [c \in DOMAIN children |->
                    IF c \in C THEN [children[c] EXCEPT !.status = "finished"] ELSE children[c]]
  /\ job' = [a \in Actors |-> IF a # Control /\ job[a].child \in C THEN Idle ELSE job[a]]

EndChild(c) ==
  /\ children[c].status = "running"
  /\ FinishChildren({c})
  /\ plan.losses > 0 /\ plan' = [plan EXCEPT !.losses = @ - 1]
  /\ UNCHANGED <<budgetVars, run, requests, ops, stored, puts>>

Owned == {"planned", "response_received"}

(* settleTerminalOwnerDispatches: a dispatch whose owner is finished (of the *)
(* parent's recovery: whose owner is the attempt it replaces), whose         *)
(* operation has no receipt and whose destination is absent.                 *)
Abandoned(d) ==
  /\ d \in Unsettled
  /\ children[dispatches[d].owner].status = "finished"
  /\ job[Control].child # 0 => dispatches[d].owner = Len(children)
  /\ Op(dispatches[d].capture).state \in Owned
  /\ StoredToken(dispatches[d].capture) = {}

(* The control path looks at the next abandoned dispatch, settles it at zero *)
(* bytes, and records its attempt as failed.  `child` remembers the parent   *)
(* whose recovery this is; zero is an owner's resume.                        *)
SweepDispatch ==
  /\ At(Control, "sweep")
  /\ \/ \E d \in Unsettled :
          /\ Abandoned(d)
          /\ job' = [job EXCEPT ![Control].pc = "sweep_settle", ![Control].dispatch = d,
               ![Control].capture = dispatches[d].capture,
               ![Control].outcome = IF Op(dispatches[d].capture).state = "planned"
                                    THEN "network_failure" ELSE "storage_failure"]
     \/ /\ \A d \in Unsettled : ~Abandoned(d)
        /\ Goto(Control, IF job[Control].child = 0 THEN "admit" ELSE "publish")
  /\ UNCHANGED <<budgetVars, run, children, requests, ops, stored, puts, plan>>

SweepSettle ==
  /\ At(Control, "sweep_settle")
  /\ IF Settleable(job[Control].dispatch, 0)
     THEN SettleSourceDispatch(job[Control].dispatch, 0) ELSE UNCHANGED budgetVars
  /\ Goto(Control, "sweep_record")
  /\ UNCHANGED <<run, children, requests, ops, stored, puts, plan>>

SweepRecord ==
  /\ At(Control, "sweep_record")
  /\ RecordAttempt(job[Control].capture, job[Control].outcome)
  /\ Goto(Control, "sweep")
  /\ UNCHANGED <<budgetVars, children, stored, puts, plan>>

(* The parent's recover step: the shard has no live attempt. *)
ReplaceChild ==
  /\ At(Control, "idle") /\ run.state = "collecting"
  /\ \A c \in DOMAIN children : children[c].status = "finished"
  /\ job' = [job EXCEPT ![Control].pc = "sweep", ![Control].child = run.parent]
  /\ UNCHANGED <<budgetVars, run, children, requests, ops, stored, puts, plan>>

(* The attempt identity is published, if the parent is still bound, before   *)
(* the instance is created.  A shard that has used up its identities fails   *)
(* its active requests instead.                                              *)
PublishChild ==
  /\ At(Control, "publish")
  /\ IF Len(children) >= maximumHostWorkflowIdentities
     THEN /\ requests' = [r \in plan.requests |->
               IF requests[r].state \in {"pending", "captured"}
               THEN [requests[r] EXCEPT !.state = "failed"] ELSE requests[r]]
          /\ UNCHANGED children
     ELSE /\ children' = IF job[Control].child = run.parent
                         THEN Append(children, [parent |-> run.parent, status |-> "running"])
                         ELSE children
          /\ UNCHANGED requests
  /\ Return(Control)
  /\ UNCHANGED <<budgetVars, run, ops, stored, puts, plan>>

(* The collection barrier: the parent has polled too often, or saw its       *)
(* active requests stand still too long, and hands the run to the owner.     *)
HaltCollection ==
  /\ "halt" \in plan.happens
  /\ At(Control, "idle") /\ run.state = "collecting"
  /\ run' = Paused("workflow")
  /\ UNCHANGED <<budgetVars, children, requests, ops, stored, puts, job, plan>>

(* Mutant: a barrier that counts the requests still to be fetched only. *)
FinalizeUnobserved ==
  /\ run.state = "collecting"
  /\ \A r \in plan.requests : requests[r].state # "pending"
  /\ run' = [run EXCEPT !.state =
       IF \E r \in Required \cap plan.requests : requests[r].state = "failed" THEN "failed" ELSE "parsing"]
  /\ UNCHANGED <<budgetVars, children, requests, ops, stored, puts, job, plan>>

(* finalizeEvidenceRun: no request is active any more. *)
FinalizeEvidenceRun ==
  /\ run.state = "collecting"
  /\ \A r \in plan.requests : requests[r].state \in {"observed", "failed"}
  /\ run' = [run EXCEPT !.state =
       IF \E r \in Required \cap plan.requests : requests[r].state = "failed" THEN "failed" ELSE "parsing"]
  /\ UNCHANGED <<budgetVars, children, requests, ops, stored, puts, job, plan>>

-----------------------------------------------------------------------------
OwnerPause ==
  /\ "pause" \in plan.happens
  /\ run.state = "collecting"
  /\ run' = Paused("owner")
  /\ UNCHANGED <<budgetVars, children, requests, ops, stored, puts, job, plan>>

Terminate ==
  /\ "terminate" \in plan.happens
  /\ run.state = "paused"
  /\ run' = [run EXCEPT !.state = "failed"]
  /\ UNCHANGED <<budgetVars, children, requests, ops, stored, puts, job, plan>>

ExtendBudget ==
  /\ "extend" \in plan.happens /\ policy.generation < MaxPolicies
  /\ run.state = "paused"
  /\ \E limits \in Budgets :
       \/ \E later \in BOOLEAN : ExtendAcquisitionBudget(limits, later)
       \/ /\ \A c \in CaptureIds : Op(c).state \notin Owned
          /\ \E b \in Baselines : InitializeLegacyBudget(limits, b)
  /\ UNCHANGED captureVars

(* resumeEvidenceRun: completed uploads are recovered, ... *)
BeginResume ==
  /\ At(Control, "idle") /\ run.state = "paused" /\ run.parent < plan.parents
  /\ Goto(Control, "resume")
  /\ UNCHANGED <<budgetVars, run, children, requests, ops, stored, puts, plan>>

RecoverAcquisitionUploads ==
  /\ At(Control, "resume")
  /\ \/ \E d \in Unsettled :
          /\ Op(dispatches[d].capture).state \in {"response_received", "uploaded"}
          /\ d \in StoredToken(dispatches[d].capture)
          /\ job' = [job EXCEPT ![Control].pc = "ack", ![Control].dispatch = d,
                                ![Control].capture = dispatches[d].capture]
     \/ Goto(Control, "terminate")
  /\ UNCHANGED <<budgetVars, run, children, requests, ops, stored, puts, plan>>

(* ... every attempt of the shard is confirmed finished, ... *)
VerifyCollectionSupersession ==
  /\ At(Control, "terminate")
  /\ LET next == [job[Control] EXCEPT
                   !.pc = IF job[Control].outcome = "recover" THEN "reopen" ELSE "sweep"]
     IN IF run.state = "paused"
        THEN /\ children' = [c \in DOMAIN children |-> [children[c] EXCEPT !.status = "finished"]]
             /\ job' = [a \in Actors |-> IF a = Control THEN next ELSE Idle]
        ELSE job' = [job EXCEPT ![Control] = next] /\ UNCHANGED children
  /\ UNCHANGED <<budgetVars, run, requests, ops, stored, puts, plan>>

(* Mutant: a resume that trusts the ledger alone. *)
ResumableByLedger ==
  /\ Unsettled = {} /\ writers = {}
  /\ limitingDimension(1) = "none"

(* assertAcquisitionResumable *)
AcquisitionResumable ==
  /\ Unsettled = {} /\ writers = {}
  /\ \A c \in CaptureIds : Op(c).state # "response_received"
  /\ limitingDimension(1) = "none"

(* ... nothing physical is outstanding, ... *)
AdmitResume ==
  /\ At(Control, "admit")
  /\ IF AcquisitionResumable THEN Goto(Control, "reopen") ELSE Return(Control)
  /\ UNCHANGED <<budgetVars, run, children, requests, ops, stored, puts, plan>>

(* ... and one batch opens exhausted retry generations, binds the next       *)
(* parent attempt and reopens the run.                                       *)
ResumePausedEvidenceRun ==
  LET attempts(r) == Max({0} \cup {n \in DOMAIN ops[r] : ops[r][n].state \in {"finalized", "failed"}})
  IN /\ At(Control, "reopen")
     /\ IF run.state = "paused"
        THEN /\ requests' = [r \in plan.requests |->
                  IF requests[r].state \in {"pending", "captured"} /\ attempts(r) >= retryBudget(r)
                  THEN [requests[r] EXCEPT !.retry_generation = @ + 1] ELSE requests[r]]
             /\ run' = [state |-> "collecting", pause |-> "none", parent |-> run.parent + 1]
        ELSE UNCHANGED <<requests, run>>
     /\ Return(Control)
     /\ UNCHANGED <<budgetVars, children, ops, stored, puts, plan>>

(* A run that is still collecting under a dead parent is admitted first, ... *)
BeginRecovery ==
  /\ "recover" \in plan.happens
  /\ At(Control, "idle") /\ run.state = "collecting" /\ run.parent < plan.parents
  /\ AcquisitionResumable
  /\ job' = [job EXCEPT ![Control].pc = "pause_dead", ![Control].outcome = "recover"]
  /\ UNCHANGED <<budgetVars, run, children, requests, ops, stored, puts, plan>>

(* ... and only then paused; its attempts are terminated and it is reopened. *)
PauseForRecovery ==
  /\ At(Control, "pause_dead")
  /\ run' = Paused("workflow")
  /\ Goto(Control, "terminate")
  /\ UNCHANGED <<budgetVars, children, requests, ops, stored, puts, plan>>

Expire == "expire" \in plan.happens /\ PassDeadline /\ UNCHANGED captureVars

ControlStep ==
  \/ SweepDispatch \/ SweepSettle \/ SweepRecord
  \/ ReplaceChild \/ PublishChild
  \/ RecoverAcquisitionUploads \/ VerifyCollectionSupersession
  \/ AdmitResume \/ ResumePausedEvidenceRun \/ PauseForRecovery

UploadStep(a) == Acknowledge(a) \/ MarkUploaded(a) \/ SettleUpload(a)

Owner == OwnerPause \/ Terminate \/ ExtendBudget \/ BeginResume \/ BeginRecovery

Next ==
  \/ \E i \in Invocations : InvocationStep(i)
  \/ \E a \in Actors : UploadStep(a) \/ Lose(a)
  \/ \E d \in puts : LandPut(d)
  \/ \E c \in DOMAIN children : EndChild(c)
  \/ ControlStep \/ HaltCollection \/ FinalizeEvidenceRun \/ Owner \/ Expire

Spec == Init /\ [][Next]_vars

(* The platform runs a live instance's step, retries a lost one, and drives  *)
(* the parent; nobody has to pause, extend or terminate anything.            *)
FairSpec ==
  /\ Spec
  /\ \A i \in Invocations : WF_vars(InvocationStep(i))
  /\ \A a \in Actors : WF_vars(UploadStep(a))
  /\ WF_vars(\E d \in puts : LandPut(d))
  /\ WF_vars(ControlStep) /\ WF_vars(FinalizeEvidenceRun)

-----------------------------------------------------------------------------
TypeOK ==
  /\ BudgetTypeOK
  /\ run \in [state : {"collecting", "paused", "parsing", "failed"},
              pause : {"none", "acquisition", "retry", "owner", "workflow"}, parent : 1 .. MaxParents]
  /\ \A c \in DOMAIN children :
       children[c] \in [parent : 1 .. MaxParents, status : {"running", "finished"}]
  /\ requests \in [plan.requests -> [state : {"pending", "captured", "observed", "failed"},
                                retry_generation : 1 .. MaxParents, snapshot : Nat]]
  /\ \A c \in CaptureIds :
       Op(c).state \in {"planned", "response_received", "uploaded", "finalized", "failed"}
  /\ stored \subseteq CaptureIds \X DOMAIN dispatches
  /\ puts \subseteq DOMAIN dispatches
  /\ plan.losses \in Nat

(* Two invocations never have a physical request or its upload of the same   *)
(* capture in progress at once, and no write the bucket still holds finds    *)
(* its key taken.  (reserveAcquisitionDispatch, streamSnapshotToR2)          *)
OneFetchPerCapture ==
  /\ \A d \in puts : StoredToken(dispatches[d].capture) = {}
  /\ \A i, j \in Invocations :
       /\ i # j
       /\ job[i].pc \in {"fetch", "received", "put", "storing"}
       /\ job[j].pc \in {"fetch", "received", "put", "storing"}
       => job[i].capture # job[j].capture

(* A snapshot that a request took is the object one of that capture's own    *)
(* dispatches wrote, or a retained snapshot a 304 confirmed.                 *)
(* (recoverCompletedUpload, completeUploadedCapture)                         *)
SnapshotIsBacked ==
  \A r \in plan.requests :
    requests[r].state \in {"captured", "observed"} =>
      LET c == <<r, requests[r].snapshot>>
      IN /\ c \in CaptureIds
         /\ Op(c).reused \/ \E d \in StoredToken(c) : dispatches[d].capture = c

(* The snapshot a request took leaves no debt when it was fetched once: its  *)
(* dispatch is settled and its writer acknowledged, however callbacks died   *)
(* between the receipt and the settlement.  No recovery looks at a finalized *)
(* operation again, so a debt left there would block every resume.  (A 304   *)
(* is settled before its operation moves, so an overlapping callback may     *)
(* dispatch such a capture again.)                                           *)
(* (capturePreparedAttempt, unsettledAcquisitionUploads)                     *)
NoDebtBehindSnapshot ==
  \A r \in plan.requests :
    LET c == <<r, requests[r].snapshot>>
    IN /\ requests[r].state \in {"captured", "observed"}
       /\ Cardinality({d \in DOMAIN dispatches : dispatches[d].capture = c}) = 1
       => ~OwnershipPending(c)

(* A write that is still in flight when a paused run is reopened cannot be   *)
(* taken for the work of the new attempts: its reservation is unsettled and  *)
(* keeps its key from being fetched again, or its attempt is recorded as     *)
(* failed and the retry has a key of its own.  (resumeEvidenceRun,           *)
(* recoverParentWorkflow, settleTerminalOwnerDispatches)                     *)
ReopenDisownsLateWrites ==
  [][ run.state = "paused" /\ run'.state = "collecting" =>
        \A d \in puts : d \in Unsettled \/ Op(dispatches[d].capture).state = "failed" ]_vars

(* Once collection is over nothing more is sent to a source, and what the    *)
(* barrier counted stays as it counted it: a callback that read run and      *)
(* request before its pacing wait, or before another callback of its request *)
(* finished, changes no request of a run that is being parsed.               *)
(* (finalizeEvidenceRun, sourceParseAuthorityGuard)                          *)
CollectedIsFrozen ==
  [][ /\ run.state \in {"parsing", "failed"} => Len(dispatches') = Len(dispatches)
      /\ run.state = "parsing" => requests' = requests ]_vars

(* A collecting run does not hang: it is paused, fails, or moves to parsing. *)
CollectionSettles == run.state = "collecting" ~> run.state # "collecting"

(* Retry exhaustion is recoverable: when an owner resumes a Retry Pause, the *)
(* budget has room, and no object was stored or is still being written, the  *)
(* resume is admitted.  (assertAcquisitionResumable)                         *)
RetryPauseIsResumable ==
  /\ At(Control, "admit") /\ run.state = "paused" /\ run.pause = "retry"
  /\ stored = {} /\ puts = {} /\ limitingDimension(1) = "none"
  => AcquisitionResumable
=============================================================================
