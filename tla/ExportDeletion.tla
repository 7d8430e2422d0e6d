--------------------------- MODULE ExportDeletion ---------------------------
(***************************************************************************)
(* The deletion of one Catalogue Export: its object set is removed from    *)
(* the bucket under a lease that other calls of the same request may take  *)
(* over, and every call of a request is to give the same answer.           *)
(*                                                                         *)
(*   current     catalogue_state.current_revision_id, counted from the     *)
(*               export's own revision                                     *)
(*   idle        no ingestion and no release is active, recovery healthy   *)
(*   guarded     recovery_restore_guard = 'blocked': a write of any table  *)
(*               of the deletion raises                                    *)
(*   export      its row: maintenance_state and deletion_operation_id      *)
(*   objects     what the bucket holds of it; the manifest is the last one *)
(*   plans       catalogue_export_deletion_plans, by the confirmation that *)
(*               names the plan                                            *)
(*   deletions   catalogue_export_deletions, by confirmation: an identity, *)
(*               a plan and an idempotency key always come together        *)
(*   retries     catalogue_export_deletion_retries, by idempotency key     *)
(*   calls       requests being served; a call is its own execution token  *)
(*   scenario    which of Scenarios this behaviour is: who asks, what      *)
(*               changes around the deletion, and how many bucket calls    *)
(*               may still fail or calls die; it only bounds               *)
(*                                                                         *)
(* A refused request changes nothing and is not a step; a call refused     *)
(* after it began ends without an answer.                                  *)
(***************************************************************************)
EXTENDS Integers, FiniteSets

CONSTANTS Confirmations, RetryKeys, Calls,
          ObjectCount,    \* objects of the package: its components, then its manifest
          MaxRevision,    \* publications after the export's own
          Scenarios       \* [confirmations, retries, happens, troubles]

Scenario ==
  [confirmations : SUBSET Confirmations, retries : SUBSET RetryKeys,
   happens : SUBSET {"expire", "publish", "maintenance", "fence"}, troubles : 0 .. 2]

Nobody == "none"

ASSUME ExportAssumption ==
  /\ ObjectCount \in Nat \ {0} /\ MaxRevision \in Nat \ {0} /\ Scenarios \subseteq Scenario
  /\ Nobody \notin RetryKeys

VARIABLES current, idle, guarded, export, objects, plans, deletions, retries, calls, scenario

rows == <<export, plans, deletions, retries>>
surroundings == <<current, idle, guarded>>
exportVars == <<rows, surroundings, objects, calls, scenario>>

Package == 1 .. ObjectCount
Manifest == ObjectCount
States == {"none", "deleting", "deleted", "failed"}

DeletionRow == [state : States, retry : RetryKeys \cup {Nobody}, owner : Calls \cup {Nobody},
                lapsed : BOOLEAN, response : States]
Call == [pc : {"new", "insert", "claim", "row", "assert", "retry", "check", "remove",
               "send", "verify", "terminal", "commit", "failing", "fail", "wait", "ended"},
         deletion : Confirmations \cup {Nobody}, retry : RetryKeys \cup {Nobody},
         replay : BOOLEAN, seen : Calls \cup {Nobody}, at : Package, answer : States]

ExportTypeOK ==
  /\ current \in 0 .. MaxRevision /\ idle \in BOOLEAN /\ guarded \in {"never", "blocked", "clear"}
  /\ export \in [state : {"available", "deleting", "deleted"}, operation : Confirmations \cup {Nobody}]
  /\ objects \subseteq Package
  /\ plans \in [Confirmations -> [state : {"none", "prepared", "expired"}, expected : 0 .. MaxRevision]]
  /\ deletions \in [Confirmations -> DeletionRow]
  /\ retries \in [RetryKeys -> [deletion : Confirmations \cup {Nobody}, response : States]]
  /\ calls \in [Calls -> Call]
  /\ scenario \in Scenario

ExportInit ==
  /\ current \in 0 .. 1 /\ idle = TRUE /\ guarded = "never"
  /\ export = [state |-> "available", operation |-> Nobody]
  /\ objects = Package
  /\ plans = [d \in Confirmations |-> [state |-> "none", expected |-> 0]]
  /\ deletions = [d \in Confirmations |->
       [state |-> "none", retry |-> Nobody, owner |-> Nobody, lapsed |-> FALSE, response |-> "none"]]
  /\ retries = [y \in RetryKeys |-> [deletion |-> Nobody, response |-> "none"]]
  /\ calls = [c \in Calls |-> [pc |-> "new", deletion |-> Nobody, retry |-> Nobody, replay |-> FALSE,
                               seen |-> Nobody, at |-> 1, answer |-> "none"]]
  /\ scenario \in Scenarios

-----------------------------------------------------------------------------
Happens(what) == what \in scenario.happens
Trouble == scenario.troubles > 0 /\ scenario' = [scenario EXCEPT !.troubles = @ - 1]

Fenced == guarded = "blocked"
Goto(c, pc) == calls' = [calls EXCEPT ![c] = [@ EXCEPT !.pc = pc]]
Answer(c, answer) == calls' = [calls EXCEPT ![c] = [@ EXCEPT !.pc = "ended", !.answer = answer]]
Throw(c) == Goto(c, "ended")

(* The receipt of a request: of the confirmation, or of one of its retries.  *)
Response(d, y) == IF y = Nobody THEN deletions[d].response ELSE retries[y].response

(* Mutant: the last response is the one that is kept. *)
OverwriteRetained(old, new) == new

(* COALESCE: a retained response is never replaced. *)
Retained(old, new) == IF old = "none" THEN new ELSE old

(* assertMaintenanceIdle *)
MaintenanceIdle(d) == current = plans[d].expected /\ idle

(* The lease a call finds lapsed at the time it was made: the only one it    *)
(* may claim, since every later one expires after that time.                 *)
LapsedLease(d) == IF deletions[d].lapsed THEN deletions[d].owner ELSE Nobody

(* The execution of call c still holds its unexpired lease; renewing it      *)
(* moves the time at which it lapses.                                        *)
Renewed(c) ==
  LET row == deletions[calls[c].deletion]
  IN  ~Fenced /\ row.state = "deleting" /\ row.retry = calls[c].retry /\ row.owner = c /\ ~row.lapsed

-----------------------------------------------------------------------------
PrepareCatalogueExportDeletion(d) ==
  /\ d \in scenario.confirmations /\ plans[d].state = "none" /\ ~Fenced
  /\ export.state = "available" /\ objects = Package
  /\ plans' = [plans EXCEPT ![d] = [state |-> "prepared", expected |-> current]]
  /\ UNCHANGED <<export, deletions, retries, surroundings, objects, calls, scenario>>

ExpirePlan(d) ==
  /\ Happens("expire") /\ plans[d].state = "prepared" /\ deletions[d].state = "none"
  /\ plans' = [plans EXCEPT ![d].state = "expired"]
  /\ UNCHANGED <<export, deletions, retries, surroundings, objects, calls, scenario>>

Begin(c, d, y, pc, answer) ==
  calls' = [calls EXCEPT ![c] =
    [@ EXCEPT !.pc = pc, !.deletion = d, !.retry = y, !.answer = answer,
              !.replay = y # Nobody /\ retries[y].deletion = d, !.seen = LapsedLease(d)]]

(* A confirmation is a replay when its row exists; else it names a plan that *)
(* has not expired and passes every check the insertion repeats.             *)
ConfirmCatalogueExportDeletion(c, d) ==
  /\ calls[c].pc = "new"
  /\ \/ /\ deletions[d].response # "none"
        /\ Begin(c, d, Nobody, "ended", deletions[d].response)
     \/ /\ deletions[d].state = "deleting" /\ deletions[d].response = "none"
        /\ Begin(c, d, Nobody, "claim", "none")
     \/ /\ deletions[d].state = "none" /\ plans[d].state = "prepared"
        /\ plans[d].expected # 0 /\ MaintenanceIdle(d)
        /\ export.state = "available" /\ objects = Package
        /\ Begin(c, d, Nobody, "insert", "none")
  /\ UNCHANGED <<rows, surroundings, objects, scenario>>

(* guardNewCatalogueExportDeletion with the uniqueness of identity and plan. *)
(* The expiry it compares with is the time the call was made.                *)
Insertable(d) ==
  /\ ~Fenced /\ deletions[d].state = "none" /\ export.state = "available"
  /\ current # 0 /\ MaintenanceIdle(d)

InsertDeletion(c) ==
  LET d == calls[c].deletion
  IN  /\ calls[c].pc = "insert"
      /\ IF Insertable(d)
         THEN /\ deletions' = [deletions EXCEPT ![d] = [@ EXCEPT !.state = "deleting", !.owner = c]]
              /\ export' = [state |-> "deleting", operation |-> d]
              /\ Goto(c, "check")
         ELSE /\ IF deletions[d].state # "none" THEN Goto(c, "wait") ELSE Throw(c)
              /\ UNCHANGED <<deletions, export>>
      /\ UNCHANGED <<plans, retries, surroundings, objects, scenario>>

(* A retry first reads its own row, then the row of the deletion. *)
RetryCatalogueExportDeletion(c, d, y) ==
  /\ y \in scenario.retries
  /\ calls[c].pc = "new" /\ deletions[d].state # "none" /\ retries[y].deletion \in {d, Nobody}
  /\ IF retries[y].response # "none" THEN Begin(c, d, y, "ended", retries[y].response)
     ELSE Begin(c, d, y, "row", "none")
  /\ UNCHANGED <<rows, surroundings, objects, scenario>>

ReadDeletion(c) ==
  LET call == calls[c]
      row == deletions[call.deletion]
      unwritable == Fenced /\ retries[call.retry].response = "none"
  IN  /\ call.pc = "row"
      /\ IF call.replay /\ row.state # "deleting" /\ ~unwritable
         THEN /\ retries' = [retries EXCEPT ![call.retry] =
                   [@ EXCEPT !.response = Retained(retries[call.retry].response, row.state)]]
              /\ Answer(c, row.state)
         ELSE /\ Goto(c, IF call.replay /\ row.state = "deleting" /\ row.retry = call.retry THEN "claim"
                         ELSE IF ~call.replay /\ row.state = "failed" THEN "assert"
                         ELSE "ended")
              /\ UNCHANGED retries
      /\ UNCHANGED <<export, plans, deletions, surroundings, objects, scenario>>

ClaimDeletionExecutionLease(c) ==
  LET call == calls[c]
      row == deletions[call.deletion]
  IN  /\ call.pc = "claim"
      /\ IF /\ ~Fenced /\ row.state = "deleting" /\ row.retry = call.retry
            /\ row.lapsed /\ row.owner = call.seen
         THEN /\ deletions' = [deletions EXCEPT ![call.deletion] = [@ EXCEPT !.owner = c, !.lapsed = FALSE]]
              /\ Goto(c, IF call.retry = Nobody THEN "check" ELSE "assert")
         ELSE Goto(c, "wait") /\ UNCHANGED deletions
      /\ UNCHANGED <<export, plans, retries, surroundings, objects, scenario>>

AssertMaintenanceIdle(c) ==
  /\ calls[c].pc = "assert"
  /\ IF ~MaintenanceIdle(calls[c].deletion) THEN Throw(c)
     ELSE Goto(c, IF calls[c].replay THEN "check" ELSE "retry")
  /\ UNCHANGED <<rows, surroundings, objects, scenario>>

ClaimRetry(c) ==
  LET d == calls[c].deletion
      y == calls[c].retry
  IN  /\ calls[c].pc = "retry"
      /\ IF /\ ~Fenced /\ retries[y].deletion = Nobody /\ deletions[d].state = "failed"
            /\ current # 0 /\ MaintenanceIdle(d)
         THEN /\ retries' = [retries EXCEPT ![y] = [@ EXCEPT !.deletion = d]]
              /\ deletions' = [deletions EXCEPT ![d] =
                   [@ EXCEPT !.state = "deleting", !.retry = y, !.owner = c, !.lapsed = FALSE]]
              /\ Goto(c, "check")
         ELSE /\ IF retries[y].deletion = d THEN Goto(c, "wait") ELSE Throw(c)
              /\ UNCHANGED <<deletions, retries>>
      /\ UNCHANGED <<export, plans, surroundings, objects, scenario>>

-----------------------------------------------------------------------------
(* Mutant: the manifest is removed first. *)
orderedManifestFirst == [i \in Package |-> ObjectCount + 1 - i]

(* executeDeletion: the objects in order, the manifest last. *)
ordered == [i \in Package |-> i]

(* Mutant: the loops leave out the last object. *)
LastButOne(i) == i + 1 >= ObjectCount

Last(i) == i = ObjectCount

(* Both loops go through the object set and then to the next part. *)
Advance(c, loop, then) ==
  calls' = [calls EXCEPT ![c] = IF Last(@.at) THEN [@ EXCEPT !.pc = then, !.at = 1]
                                ELSE [@ EXCEPT !.pc = loop, !.at = calls[c].at + 1]]

Key(c) == ordered[calls[c].at]

CheckObject(c) ==
  /\ calls[c].pc = "check"
  /\ IF ~Renewed(c) THEN Goto(c, "wait")
     ELSE IF Key(c) \in objects THEN Goto(c, "remove")
     ELSE Advance(c, "check", "verify")
  /\ UNCHANGED <<rows, surroundings, objects, scenario>>

RenewBeforeDelete(c) ==
  /\ calls[c].pc = "remove"
  /\ Goto(c, IF Renewed(c) THEN "send" ELSE "wait")
  /\ UNCHANGED <<rows, surroundings, objects, scenario>>

(* The delete is sent whatever became of the lease since it was renewed. *)
DeleteObject(c) ==
  /\ calls[c].pc = "send"
  /\ objects' = objects \ {Key(c)}
  /\ Advance(c, "check", "verify")
  /\ UNCHANGED <<rows, surroundings, scenario>>

(* A head, list or delete throws; the object of a delete may be gone. *)
BucketFails(c) ==
  /\ Trouble
  /\ \/ calls[c].pc \in {"check", "verify"} /\ Renewed(c) /\ UNCHANGED objects
     \/ calls[c].pc = "send" /\ objects' \in {objects, objects \ {Key(c)}}
  /\ Goto(c, "failing")
  /\ UNCHANGED <<rows, surroundings>>

VerifyAbsence(c) ==
  /\ calls[c].pc = "verify"
  /\ IF ~Renewed(c) THEN Goto(c, "wait")
     ELSE IF calls[c].at \in objects THEN Goto(c, "failing")
     ELSE Advance(c, "verify", "terminal")
  /\ UNCHANGED <<rows, surroundings, objects, scenario>>

RenewTerminalLease(c) ==
  /\ calls[c].pc \in {"terminal", "failing"}
  /\ Goto(c, IF ~Renewed(c) THEN "wait" ELSE IF calls[c].pc = "terminal" THEN "commit" ELSE "fail")
  /\ UNCHANGED <<rows, surroundings, objects, scenario>>

(* guardCatalogueExportDeletionExecution compares the lease with the time of *)
(* that renewal, so only its owner matters here.                             *)
Owns(c) ==
  LET row == deletions[calls[c].deletion]
  IN  ~Fenced /\ row.state = "deleting" /\ row.retry = calls[c].retry /\ row.owner = c

(* Mutant: a settled retry is left without its receipt. *)
SettleUnreceipted(c, state) ==
  /\ deletions' = [deletions EXCEPT ![calls[c].deletion] =
                      [@ EXCEPT !.state = state, !.response = Retained(@, state)]]
  /\ UNCHANGED retries
  /\ Answer(c, state)

(* The rows of a settled deletion, and the answer read back from them. *)
Settle(c, state) ==
  LET d == calls[c].deletion
      y == calls[c].retry
  IN  /\ deletions' = [deletions EXCEPT ![d] =
           [@ EXCEPT !.state = state, !.response = Retained(deletions[d].response, state)]]
      /\ retries' = IF y = Nobody THEN retries
                    ELSE [retries EXCEPT ![y] = [@ EXCEPT !.response = Retained(retries[y].response, state)]]
      /\ Answer(c, Retained(Response(d, y), state))

CompleteDeletion(c) ==
  /\ calls[c].pc = "commit"
  /\ IF Owns(c)
     THEN Settle(c, "deleted") /\ export' = [export EXCEPT !.state = "deleted"]
     ELSE Goto(c, "failing") /\ UNCHANGED <<export, deletions, retries>>
  /\ UNCHANGED <<plans, surroundings, objects, scenario>>

(* Mutant: a failed deletion gives the export back. *)
FailAndReopen(c) ==
  /\ calls[c].pc = "fail" /\ Owns(c) /\ Settle(c, "failed")
  /\ export' = [state |-> "available", operation |-> Nobody]
  /\ UNCHANGED <<plans, surroundings, objects, scenario>>

FailDeletion(c) ==
  LET response == Response(calls[c].deletion, calls[c].retry)
  IN  /\ calls[c].pc = "fail"
      /\ IF Owns(c) THEN Settle(c, "failed")
         ELSE /\ IF response # "none" THEN Answer(c, response) ELSE Throw(c)
              /\ UNCHANGED <<deletions, retries>>
      /\ UNCHANGED <<export, plans, surroundings, objects, scenario>>

(* The polls of a call that does not execute: it answers the response it     *)
(* finds, or at the end retains the pending state as the response.           *)
WaitForDeletionResponse(c) ==
  LET d == calls[c].deletion
      y == calls[c].retry
  IN  /\ calls[c].pc = "wait"
      /\ IF Response(d, y) # "none" THEN Answer(c, Response(d, y)) /\ UNCHANGED <<deletions, retries>>
         ELSE IF Fenced THEN Throw(c) /\ UNCHANGED <<deletions, retries>>
         ELSE /\ IF y = Nobody
                 THEN deletions' = [deletions EXCEPT ![d] = [@ EXCEPT !.response = deletions[d].state]] /\ UNCHANGED retries
                 ELSE retries' = [retries EXCEPT ![y] = [@ EXCEPT !.response = deletions[d].state]] /\ UNCHANGED deletions
              /\ Answer(c, deletions[d].state)
      /\ UNCHANGED <<export, plans, surroundings, objects, scenario>>

-----------------------------------------------------------------------------
(* The isolate that serves a call dies. *)
Die(c) ==
  /\ calls[c].pc \notin {"new", "ended"} /\ Trouble /\ Throw(c)
  /\ UNCHANGED <<rows, surroundings, objects>>

(* Five minutes pass without a renewal. *)
LapseLease(d) ==
  /\ deletions[d].state = "deleting" /\ ~deletions[d].lapsed
  /\ deletions' = [deletions EXCEPT ![d] = [@ EXCEPT !.lapsed = TRUE]]
  /\ UNCHANGED <<export, plans, retries, surroundings, objects, calls, scenario>>

Publish ==
  /\ Happens("publish") /\ current < MaxRevision /\ ~Fenced /\ current' = current + 1
  /\ UNCHANGED <<rows, idle, guarded, objects, calls, scenario>>

ChangeMaintenance ==
  /\ Happens("maintenance") /\ idle' = ~idle
  /\ UNCHANGED <<rows, current, guarded, objects, calls, scenario>>

(* A backup fences its snapshot (bound: once). *)
FenceRows ==
  /\ Happens("fence")
  /\ \/ guarded = "never" /\ guarded' = "blocked"
     \/ guarded = "blocked" /\ guarded' = "clear"
  /\ UNCHANGED <<rows, current, idle, objects, calls, scenario>>

Execute(c) ==
  \/ CheckObject(c) \/ RenewBeforeDelete(c) \/ DeleteObject(c) \/ BucketFails(c)
  \/ VerifyAbsence(c) \/ RenewTerminalLease(c) \/ CompleteDeletion(c)
  \/ FailDeletion(c) \/ WaitForDeletionResponse(c)

ExportNext ==
  \/ \E d \in Confirmations : PrepareCatalogueExportDeletion(d) \/ ExpirePlan(d) \/ LapseLease(d)
  \/ \E c \in Calls : 
       \/ \E d \in Confirmations :
            \/ ConfirmCatalogueExportDeletion(c, d)
            \/ \E y \in RetryKeys : RetryCatalogueExportDeletion(c, d, y)
       \/ InsertDeletion(c) \/ ReadDeletion(c) \/ ClaimDeletionExecutionLease(c)
       \/ AssertMaintenanceIdle(c) \/ ClaimRetry(c)
       \/ Execute(c) \/ Die(c)
  \/ Publish \/ ChangeMaintenance \/ FenceRows

ExportSpec == ExportInit /\ [][ExportNext]_exportVars
-----------------------------------------------------------------------------
(* Whatever the calls, takeovers and failures, a deletion reported deleted   *)
(* left no object of the package.  (executeDeletion)                         *)
DeletedIsGone ==
  \A d \in Confirmations : deletions[d].state = "deleted" => objects = {} /\ export.state = "deleted"

(* A package that lost an object is never served again, not even after its   *)
(* deletion failed.  (failCatalogueExportDeletion, markCatalogueExport-      *)
(* Deleting)                                                                 *)
PartialPackageIsHidden == objects # Package => export.state # "available"

(* The manifest is there as long as any component is, although executions    *)
(* that lost their lease still send deletes.  (executeDeletion)              *)
ManifestGoesLast == objects # {} => Manifest \in objects

(* An execution, its lease lost or not, leaves behind it no object of the    *)
(* package it has passed.  (executeDeletion)                                 *)
SweptInOrder ==
  \A c \in Calls :
    /\ calls[c].pc \in {"check", "remove", "send"} => \A k \in objects : k >= calls[c].at
    /\ calls[c].pc \in {"verify", "terminal", "commit"} => objects = {}

(* Every answered call of a confirmation gave the same answer, although the  *)
(* deletion moved on between them.  (confirmCatalogueExportDeletion,         *)
(* waitForDeletionResponse, completeCatalogueExportDeletion)                 *)
ConfirmationIsReplayed ==
  \A b, c \in Calls :
    /\ calls[b].deletion = calls[c].deletion /\ calls[b].retry = Nobody /\ calls[c].retry = Nobody
    /\ calls[b].answer # "none" /\ calls[c].answer # "none"
    => calls[b].answer = calls[c].answer

(* A retry without a receipt is the one the running deletion belongs to, so  *)
(* its replay meets its own deletion and not a settled one.  (It is refused  *)
(* all the same once the current revision has changed.)                      *)
(* (retryCatalogueExportDeletion)                                            *)
UnansweredRetryOwnsDeletion ==
  \A y \in RetryKeys : retries[y].deletion # Nobody /\ retries[y].response = "none" =>
    deletions[retries[y].deletion].state = "deleting" /\ deletions[retries[y].deletion].retry = y

(* A deletion whose execution is over without settling it can be taken over  *)
(* by a replay of the request it belongs to: that request has no receipt     *)
(* yet.  (lifecycle.spec.ts: "an exact confirmation replay resumes an        *)
(* interrupted deleting operation")                                          *)
InterruptedDeletionIsResumable ==
  \A d \in Confirmations :
    deletions[d].state = "deleting" /\ calls[deletions[d].owner].pc = "ended"
      => Response(d, deletions[d].retry) = "none"
=============================================================================
