--------------------------- MODULE CatalogueBackup ---------------------------
(***************************************************************************)
(* Backups of the Catalogue: the requests, the Workflow that runs one      *)
(* attempt in retried steps, the SQL snapshot taken behind the fences of   *)
(* OperationState with the search index dropped, the proof restore into a  *)
(* disposable database, and the clean-up after a failure.                  *)
(*                                                                         *)
(* An execution (`runner`) is one try of a Workflow step or one            *)
(* administration request, and moves by one database, object store or      *)
(* provider call at a time.  It may crash between any two calls, a call    *)
(* may fail, and the engine may time a try out and start the next one      *)
(* while the first is still running.                                       *)
(***************************************************************************)
EXTENDS OperationState, Naturals, FiniteSets

CONSTANTS
  Attempts,       \* idempotency keys; a publication's acceptance is named by
                  \* the attempt it reserves
  Runners,        \* executions that can be in flight at once
  None,
  StepTries,      \* tries of a Workflow step, 1 + retries.limit
  MaxRevision,    \* bound: revisions published
  Plans           \* bounds, one of which holds for a whole behaviour: who asks
                  \* for what, how many attempts and other writes there are, and
                  \* how often what goes wrong, at which calls

(* The calls of an execution, one of which comes next. *)
Calls ==
  {"insert", "check", "evidence", "begin", "object", "block", "fence", "capture", "lease", "drop",
   "release", "dump", "rebuild", "clear", "put", "exported", "prepare", "prepared",
   "importing", "import", "imported", "verify", "manifest", "complete", "inspect", "fail"}

ASSUME BackupAssumption ==
  /\ None \notin Attempts \cup Runners
  /\ StepTries \in Nat \ {0}
  /\ MaxRevision \in Nat
  /\ \A p \in Plans :
       /\ p.requesters \subseteq {"ingestion", "publication", "maintenance", "retry", "recovery"}
       /\ p.points \subseteq Calls
       /\ {p.attempts, p.writes, p.crashes, p.timeouts, p.faults} \subseteq Nat

VARIABLES
  catalogue,   \* current_revision_id, acceptance head, contents, active_ingestion_run_id
  attempt,     \* catalogue_backup_attempts
  retention,   \* catalogue_backup_retention
  request,     \* catalogue_backup_workflow_requests and _dispatch
  workflow,    \* CatalogueBackupWorkflow instances
  runner,      \* executions
  search,      \* card_search_fts_state, and whether the index exists
  object,      \* the retained SQL and its snapshot evidence, in R2
  manifest,    \* the retained manifests, in R2
  disposable,  \* the disposable database
  spent        \* bookkeeping of the bounds

rows == <<attempt, retention, request>>
store == <<object, manifest, disposable>>
backupVars == <<catalogue, rows, workflow, runner, search, store, spent>>
vars == <<operationStateVars, backupVars>>

Busy == {"exporting", "restoring_verification", "verifying"}
Terminal == {"verified", "failed"}
Native(a) == attempt[a].operation # None

(* What a dump of the database holds: the current revision, the catalogue's *)
(* contents, and the restore guard.                                         *)
Dump == [revision |-> catalogue.revision, contents |-> catalogue.contents,
         fenced |-> ~Writable]
NoDump == [revision |-> 0, contents |-> 0, fenced |-> FALSE]

NoAttempt == [state |-> "absent", revision |-> 0, operation |-> None, linked |-> None,
              generation |-> 0, phase |-> "none", target |-> 0]
NoRequest == [state |-> "absent", revision |-> 0, linked |-> None, at |-> 0]
NoWorkflow == [status |-> "none", step |-> "backup", tries |-> 0, runner |-> None]
NoObject == [stored |-> FALSE, dump |-> NoDump, snapshot |-> 0]
Idle == [pc |-> "idle", a |-> None, mode |-> "backup", read |-> "absent", err |-> FALSE,
         generation |-> 0, target |-> 0, dump |-> NoDump, snapshot |-> 0]

BackupInit ==
  /\ OperationStateInit
  /\ catalogue = [revision |-> 0, acceptance |-> None, contents |-> 0, ingesting |-> FALSE]
  /\ attempt = [a \in Attempts |-> NoAttempt]
  /\ retention = [a \in Attempts |-> "none"]
  /\ request = [a \in Attempts |-> NoRequest]
  /\ workflow = [a \in Attempts |-> NoWorkflow]
  /\ runner = [r \in Runners |-> Idle]
  /\ search = [state |-> "ready", owner |-> None, expired |-> FALSE, indexed |-> TRUE]
  /\ object = [a \in Attempts |-> NoObject]
  /\ manifest = [a \in Attempts |-> 0]
  /\ disposable = [id |-> 0, dump |-> NoDump, populated |-> FALSE]
  /\ \E p \in Plans :
       spent = [crashes |-> 0, timeouts |-> 0, faults |-> 0, requests |-> 0, plan |-> p]

(* Bound: another attempt may be asked for. *)
AnotherAttempt ==
  Cardinality({a \in Attempts : attempt[a] # NoAttempt \/ request[a] # NoRequest})
    < spent.plan.attempts

-----------------------------------------------------------------------------
(* The catalogue the backup is taken of. *)

(* Collection, preparation and the rest of the system write catalogue       *)
(* tables; the recovery_fence triggers stop them.                           *)
CatalogueWrite ==
  /\ Writable
  /\ catalogue.contents < spent.plan.writes
  /\ catalogue' = [catalogue EXCEPT !.contents = @ + 1]
  /\ UNCHANGED <<operationStateVars, rows, workflow, runner, search, store, spent>>

(* An ingestion run claims the catalogue, and leaves it. *)
ClaimIngestion ==
  /\ "ingestion" \in spent.plan.requesters
  /\ recovery_health # "blocked"
  /\ ~catalogue.ingesting
  /\ catalogue' = [catalogue EXCEPT !.ingesting = TRUE]
  /\ UNCHANGED <<operationStateVars, rows, workflow, runner, search, store, spent>>

FinishIngestion ==
  /\ catalogue.ingesting
  /\ catalogue' = [catalogue EXCEPT !.ingesting = FALSE]
  /\ UNCHANGED <<operationStateVars, rows, workflow, runner, search, store, spent>>

(* latestAcceptanceCheckpointSql: the acceptance head has a verified backup. *)
AcceptanceCheckpoint ==
  \/ catalogue.revision = 0
  \/ \E b \in Attempts : /\ attempt[b].state = "verified"
                         /\ attempt[b].revision = catalogue.revision
                         /\ attempt[b].operation = catalogue.acceptance

(* A publication accepts a new revision, or the current one again, and      *)
(* reserves its backup in the same batch.                                   *)
AcceptPublication(a, revision) ==
  /\ "publication" \in spent.plan.requesters
  /\ attempt[a] = NoAttempt /\ request[a] = NoRequest /\ AnotherAttempt
  /\ RecoveryVerified /\ ~active_release
  /\ AcceptanceCheckpoint
  /\ revision \in {catalogue.revision, catalogue.revision + 1} \cap 1..MaxRevision
  /\ catalogue' = [catalogue EXCEPT !.revision = revision, !.acceptance = a,
                                    !.contents = @ + 1]
  /\ attempt' = [attempt EXCEPT ![a] =
       [NoAttempt EXCEPT !.state = "pending", !.revision = revision, !.operation = a]]
  /\ UNCHANGED <<operationStateVars, retention, request, workflow, runner, search, store, spent>>

(* A recovery starts only when no backup is under way.  It also refuses     *)
(* while a writer of an evidence or staging object is unsettled; those rows *)
(* are CaptureReclamation's and StagingReclamation's, and here a recovery   *)
(* may start whatever they say ...                                          *)
BeginRecovery ==
  /\ "recovery" \in spent.plan.requesters
  /\ ~catalogue.ingesting
  /\ \A a \in Attempts : attempt[a].state \notin Busy \cup {"pending"}
  /\ ReserveRecoveryOperation(FALSE)
  /\ UNCHANGED backupVars

(* ... and is accepted by the owner. *)
AcceptRecovery ==
  /\ ReleaseAcceptedRecovery
  /\ UNCHANGED backupVars

(* Every administration request propagates a raised guard. *)
AdministrationRequest ==
  /\ EnforceRecoveryRestoreGuard
  /\ UNCHANGED backupVars

-----------------------------------------------------------------------------
(* Requests and their Workflow. *)

(* unrecoveredBackupFailureStatement: the current revision has a failure no *)
(* later verified backup made good.  A completion is dated by its request.  *)
UnrecoveredBackupFailure(a, revision) ==
  /\ ~Native(a)
  /\ \E b \in Attempts \ {a} :
       /\ attempt[b].state = "failed" /\ attempt[b].revision = revision
       /\ \A c \in Attempts :
            attempt[c].state = "verified" /\ attempt[c].revision = revision
              => request[c].at < request[b].at

(* validateCatalogueBackupRetryEvidence. *)
RetryEvidenceValid(a, revision, linked) ==
  IF linked = None THEN ~UnrecoveredBackupFailure(a, revision)
  ELSE /\ attempt[linked].state = "failed"
       /\ attempt[linked].revision = revision /\ revision = catalogue.revision
       /\ \A b \in Attempts \ {a} : linked \notin {attempt[b].linked, request[b].linked}

(* startOrObserveCatalogueBackupWorkflow for a key that has no request.     *)
(* The publication's own Workflow asks for the backup it reserved; the      *)
(* owner asks for any other, through a request that enforces the guard.     *)
StartCatalogueBackup(a, linked) ==
  /\ request[a] = NoRequest
  /\ \/ linked = None /\ Native(a)
     \/ /\ attempt[a] = NoAttempt /\ AnotherAttempt /\ Writable
        /\ (IF linked = None THEN "maintenance" ELSE "retry") \in spent.plan.requesters
  /\ attempt[a].state = "absent" \/ attempt[a].revision = catalogue.revision
  /\ ~catalogue.ingesting \/ Native(a)
  /\ recovery_health # "blocked"
  /\ RetryEvidenceValid(a, catalogue.revision, linked)
  /\ request' = [request EXCEPT ![a] =
       [state |-> "pending", revision |-> catalogue.revision, linked |-> linked,
        at |-> spent.requests + 1]]
  /\ spent' = [spent EXCEPT !.requests = @ + 1]
  /\ UNCHANGED <<operationStateVars, catalogue, attempt, retention, workflow, runner, search, store>>

(* publicWorkflowDocument: the instance is created under its own identity;  *)
(* a lost response leaves the dispatch recorded as failed, and a later      *)
(* request observes the instance.                                           *)
DispatchBackup(a) ==
  /\ request[a].state \in {"pending", "failed"}
  /\ \E outcome \in {"dispatched", "failed"}, created \in BOOLEAN :
       /\ outcome = "dispatched" => created
       /\ request' = [request EXCEPT ![a].state = outcome]
       /\ workflow' = IF created /\ workflow[a].status = "none"
                      THEN [workflow EXCEPT ![a].status = "running"] ELSE workflow
  /\ UNCHANGED <<operationStateVars, catalogue, attempt, retention, runner, search, store, spent>>

(* The engine starts the next try of the instance's step. *)
StartTry(r, a) ==
  /\ workflow[a].status = "running" /\ workflow[a].runner = None
  /\ runner[r] = Idle
  /\ runner' = [runner EXCEPT ![r] =
       [Idle EXCEPT !.a = a, !.mode = workflow[a].step,
                    !.pc = IF workflow[a].step = "backup" THEN "insert" ELSE "inspect"]]
  /\ workflow' = [workflow EXCEPT ![a].runner = r]
  /\ UNCHANGED <<operationStateVars, catalogue, rows, search, store, spent>>

(* An administration request that finds the instance errored cleans up      *)
(* itself.                                                                  *)
ObserveErroredWorkflow(r, a) ==
  /\ workflow[a].status = "errored"
  /\ runner[r] = Idle
  /\ runner' = [runner EXCEPT ![r] = [Idle EXCEPT !.a = a, !.mode = "request", !.pc = "inspect"]]
  /\ UNCHANGED <<operationStateVars, catalogue, rows, workflow, search, store, spent>>

(* A try that failed is retried; an exhausted backup step is followed by    *)
(* the failure step, an exhausted failure step by nothing.                  *)
TryFailed(w) ==
  IF w.tries + 1 < StepTries THEN [w EXCEPT !.tries = @ + 1, !.runner = None]
  ELSE IF w.step = "backup" THEN [w EXCEPT !.step = "failure", !.tries = 0, !.runner = None]
  ELSE [w EXCEPT !.status = "errored", !.runner = None]

(* The execution ends with an exception, or returns. *)
Throw(r) ==
  LET a == runner[r].a IN
  /\ runner' = [runner EXCEPT ![r] = Idle]
  /\ workflow' = IF workflow[a].runner = r
                 THEN [workflow EXCEPT ![a] = TryFailed(@)] ELSE workflow

Return(r) ==
  LET a == runner[r].a IN
  /\ runner' = [runner EXCEPT ![r] = Idle]
  /\ workflow' = IF workflow[a].runner = r
                 THEN [workflow EXCEPT ![a].status = "complete", ![a].runner = None]
                 ELSE workflow

Goto(r, fields) ==
  /\ runner' = [runner EXCEPT ![r] = fields]
  /\ UNCHANGED workflow

Continue(r, pc) == Goto(r, [runner[r] EXCEPT !.pc = pc])

-----------------------------------------------------------------------------
(* createVerifiedCatalogueBackup, one call at a time. *)

(* The acceptance a new attempt belongs to: the one of the attempt it       *)
(* retries, none for a revision no publication made, or the head's.         *)
IntendedOperation(a) ==
  IF request[a].linked # None THEN attempt[request[a].linked].operation
  ELSE IF request[a].revision = 0 THEN None ELSE catalogue.acceptance

(* The evidence is validated again, the row is inserted unless it is there, *)
(* and read back.                                                           *)
InsertPendingBackup(r) ==
  LET a == runner[r].a
      row == IF attempt[a] # NoAttempt THEN attempt[a]
             ELSE [NoAttempt EXCEPT !.state = "pending", !.revision = request[a].revision,
                                    !.linked = request[a].linked,
                                    !.operation = IntendedOperation(a)]
      valid == /\ RetryEvidenceValid(a, request[a].revision, request[a].linked)
               /\ attempt[a] = NoAttempt => request[a].revision \in {0, catalogue.revision}
  IN
  /\ runner[r].pc = "insert"
  /\ attempt' = IF valid THEN [attempt EXCEPT ![a] = row] ELSE attempt
  /\ \/ valid /\ row.state = "verified" /\ Return(r)
     \/ (~valid \/ row.state = "failed") /\ Throw(r)
     \/ /\ valid /\ row.state \notin Terminal
        /\ Goto(r, [runner[r] EXCEPT !.pc = "check", !.read = row.state,
                      !.generation = row.generation, !.target = row.target])
  /\ UNCHANGED <<operationStateVars, catalogue, retention, request, search, store, spent>>

(* Where an attempt in a given state is taken up. *)
ResumeAt == [pending |-> "begin", exporting |-> "object",
             restoring_verification |-> "prepare", verifying |-> "verify"]

(* The state of the system is read: a stale revision or a running ingestion *)
(* fails the attempt, and one that was under way must still own its block.  *)
CheckOperationState(r) ==
  LET a == runner[r].a
      stale == \/ catalogue.revision # attempt[a].revision
               \/ catalogue.ingesting /\ ~Native(a)
      ownsBlock == \/ recovery_health = (IF Native(a) THEN "healthy" ELSE "blocked")
                   \/ Native(a) /\ runner[r].read = "exporting" /\ ~active_recovery /\ ~Writable
  IN
  /\ runner[r].pc = "check"
  /\ attempt' = IF stale /\ attempt[a].state \notin Terminal
                THEN [attempt EXCEPT ![a].state = "failed"] ELSE attempt
  /\ IF stale THEN Throw(r)
     ELSE Goto(r, [runner[r] EXCEPT !.pc = "evidence",
                     !.err = runner[r].read # "pending" /\ ~ownsBlock])
  /\ UNCHANGED <<operationStateVars, catalogue, retention, request, search, store, spent>>

(* captureCatalogueVerificationEvidence counts rows of the search index: it *)
(* throws when the index is gone, before the lost block is reported.        *)
CaptureVerificationEvidence(r) ==
  LET x == runner[r] IN
  /\ x.pc = "evidence"
  /\ IF ~x.err /\ search.indexed /\ catalogue.revision = attempt[x.a].revision
     THEN Continue(r, ResumeAt[x.read]) ELSE Throw(r)
  /\ UNCHANGED <<operationStateVars, catalogue, rows, search, store, spent>>

(* Mutant: the batch does not look for an ingestion run again. *)
StartableDuringIngestion(a) ==
  /\ attempt[a].state = "pending"
  /\ recovery_health # "blocked"
  /\ \A b \in Attempts \ {a} : attempt[b].state \notin Busy

(* The batch that makes the attempt the active one. *)
PendingBackupStartable(a) ==
  /\ attempt[a].state = "pending"
  /\ Native(a) \/ ~catalogue.ingesting
  /\ recovery_health # "blocked"
  /\ \A b \in Attempts \ {a} : attempt[b].state \notin Busy

StartBackupExport(r) ==
  LET a == runner[r].a IN
  /\ runner[r].pc = "begin"
  /\ IF PendingBackupStartable(a)
     THEN /\ attempt' = [attempt EXCEPT ![a].state = "exporting"]
          /\ IF Native(a) THEN UNCHANGED operationStateVars ELSE ReserveBackupOperation
          /\ Continue(r, "object")
     ELSE Throw(r) /\ UNCHANGED <<operationStateVars, attempt>>
  /\ UNCHANGED <<catalogue, retention, request, search, store, spent>>

(* An object retained by an earlier try is used as it is. *)
FindRetainedObject(r) ==
  /\ runner[r].pc = "object"
  /\ Continue(r, IF object[runner[r].a].stored THEN "exported" ELSE "block")
  /\ UNCHANGED <<operationStateVars, catalogue, rows, search, store, spent>>

(* Mutant: the guard is left to the health fence. *)
SkipRestoreGuard(r) ==
  /\ runner[r].pc = "block"
  /\ Continue(r, IF Native(runner[r].a) THEN "fence" ELSE "lease")
  /\ UNCHANGED <<operationStateVars, catalogue, rows, search, store, spent>>

(* The guard goes up ... *)
RaiseRestoreGuard(r) ==
  /\ runner[r].pc = "block"
  /\ IF Writable THEN BlockBackupRestore ELSE UNCHANGED operationStateVars
  /\ Continue(r, IF Native(runner[r].a) THEN "fence" ELSE "lease")
  /\ UNCHANGED <<catalogue, rows, search, store, spent>>

(* ... with the health fence, for a publication's backup ... *)
RaiseHealthFence(r) ==
  /\ runner[r].pc = "fence"
  /\ IF ~Writable /\ ~active_recovery THEN FenceCompositionSnapshot
                                      ELSE UNCHANGED operationStateVars
  /\ Continue(r, "capture")
  /\ UNCHANGED <<catalogue, rows, search, store, spent>>

(* ... whose composition is captured as evidence: only of the current       *)
(* revision, and only with the search index in place.                       *)
CaptureCompositionSnapshot(r) ==
  LET a == runner[r].a IN
  /\ runner[r].pc = "capture"
  /\ IF search.state = "ready" /\ search.indexed /\ catalogue.revision = attempt[a].revision
     THEN Goto(r, [runner[r] EXCEPT !.pc = "lease", !.snapshot = catalogue.contents])
     ELSE Goto(r, [runner[r] EXCEPT !.pc = "clear", !.err = TRUE])
  /\ UNCHANGED <<operationStateVars, catalogue, rows, search, store, spent>>

(* Leaving the leased section: the backup clears the guard in its finally   *)
(* whatever happened, the clean-up only when nothing was thrown.            *)
Leave(r, err) ==
  IF err /\ runner[r].mode # "backup" THEN Throw(r)
  ELSE Goto(r, [runner[r] EXCEPT !.pc = "clear", !.err = err])

(* acquireCardSearchExportLeaseStatement. *)
AcquireSearchLease(r) ==
  LET a == runner[r].a IN
  /\ runner[r].pc = "lease"
  /\ IF search.state = "ready" \/ search.owner = a \/ search.expired
     THEN /\ search' = [search EXCEPT !.state = "reconstructing", !.owner = a, !.expired = FALSE]
          /\ Continue(r, "drop")
     ELSE Leave(r, TRUE) /\ UNCHANGED search
  /\ UNCHANGED <<operationStateVars, catalogue, rows, store, spent>>

(* The lease is for an hour. *)
SearchLeaseExpires ==
  /\ search.state = "reconstructing" /\ ~search.expired
  /\ search' = [search EXCEPT !.expired = TRUE]
  /\ UNCHANGED <<operationStateVars, catalogue, rows, workflow, runner, store, spent>>

(* The derived search structures are dropped in one batch. *)
DropSearchIndex(r) ==
  /\ runner[r].pc = "drop"
  /\ search' = [search EXCEPT !.indexed = FALSE]
  /\ Continue(r, IF runner[r].mode = "backup" THEN "dump" ELSE "rebuild")
  /\ UNCHANGED <<operationStateVars, catalogue, rows, store, spent>>

(* releaseLease, after the batch failed. *)
ReleaseSearchLease(r) ==
  /\ runner[r].pc = "release"
  /\ search' = IF search.owner = runner[r].a
               THEN [search EXCEPT !.state = "ready", !.owner = None, !.expired = FALSE]
               ELSE search
  /\ Leave(r, TRUE)
  /\ UNCHANGED <<operationStateVars, catalogue, rows, store, spent>>

(* The provider's export, at one bookmark; it cannot export virtual tables. *)
ExportSql(r) ==
  /\ runner[r].pc = "dump"
  /\ Goto(r, IF search.indexed THEN [runner[r] EXCEPT !.pc = "rebuild", !.err = TRUE]
             ELSE [runner[r] EXCEPT !.pc = "rebuild", !.dump = Dump])
  /\ UNCHANGED <<operationStateVars, catalogue, rows, search, store, spent>>

(* Mutant: the lease is given up without creating the index again. *)
ReconstructNothing(r) ==
  LET owns == /\ search.state = "reconstructing" /\ search.owner = runner[r].a
              /\ ~search.indexed
  IN
  /\ runner[r].pc = "rebuild"
  /\ search' = IF owns THEN [search EXCEPT !.state = "ready", !.owner = None, !.expired = FALSE]
               ELSE search
  /\ Leave(r, runner[r].err \/ ~owns)
  /\ UNCHANGED <<operationStateVars, catalogue, rows, store, spent>>

(* reconstructCardSearchAfterD1Restore, in a finally: only by the owner of  *)
(* the lease, and creating an index that exists aborts the batch.           *)
ReconstructSearch(r) ==
  LET owns == /\ search.state = "reconstructing" /\ search.owner = runner[r].a
              /\ ~search.indexed
  IN
  /\ runner[r].pc = "rebuild"
  /\ search' = IF owns THEN [state |-> "ready", owner |-> None, expired |-> FALSE, indexed |-> TRUE]
               ELSE search
  /\ Leave(r, runner[r].err \/ ~owns)
  /\ UNCHANGED <<operationStateVars, catalogue, rows, store, spent>>

(* Mutant: the finally does not ask whose guard it clears. *)
ClearAnyGuard(r) ==
  /\ runner[r].pc = "clear"
  /\ recovery_restore_guard' = "clear"
  /\ UNCHANGED <<recovery_health, active_recovery, active_release>>
  /\ IF runner[r].mode # "backup" THEN Continue(r, "fail")
     ELSE IF runner[r].err THEN Throw(r) ELSE Continue(r, "put")
  /\ UNCHANGED <<catalogue, rows, search, store, spent>>

(* clearBackupRestoreStatement, in the finally of the snapshot, or after    *)
(* the clean-up of a publication's backup.                                  *)
ClearRestoreGuard(r) ==
  /\ runner[r].pc = "clear"
  /\ IF ~Writable /\ ~active_recovery
     THEN ClearBackupRestore(runner[r].mode # "backup" \/ Native(runner[r].a))
     ELSE UNCHANGED operationStateVars
  /\ IF runner[r].mode # "backup" THEN Continue(r, "fail")
     ELSE IF runner[r].err THEN Throw(r) ELSE Continue(r, "put")
  /\ UNCHANGED <<catalogue, rows, search, store, spent>>

(* The object is written once, never over another. *)
RetainObject(r) ==
  LET a == runner[r].a IN
  /\ runner[r].pc = "put"
  /\ IF object[a].stored THEN Throw(r) /\ UNCHANGED object
     ELSE /\ object' = [object EXCEPT ![a] = [stored |-> TRUE, dump |-> runner[r].dump,
                                              snapshot |-> runner[r].snapshot]]
          /\ Continue(r, "exported")
  /\ UNCHANGED <<operationStateVars, catalogue, rows, search, manifest, disposable, spent>>

(* The updates by which an attempt advances: compare-and-set on its state,  *)
(* generation and restore phase.                                            *)
Advance(r, where, row, pc) ==
  LET a == runner[r].a IN
  /\ IF where THEN attempt' = [attempt EXCEPT ![a] = row] /\ Continue(r, pc)
              ELSE Throw(r) /\ UNCHANGED attempt
  /\ UNCHANGED <<operationStateVars, catalogue, retention, request, search, store, spent>>

TransitionExported(r) ==
  LET row == attempt[runner[r].a] IN
  /\ runner[r].pc = "exported"
  /\ Advance(r, row.state = "exporting",
             [row EXCEPT !.state = "restoring_verification"], "prepare")

(* The provider deletes every database of the disposable name and creates a *)
(* new one.                                                                 *)
PrepareRestoreTarget(r) ==
  /\ runner[r].pc = "prepare"
  /\ disposable' = [id |-> disposable.id + 1, dump |-> NoDump, populated |-> FALSE]
  /\ Goto(r, [runner[r] EXCEPT !.pc = "prepared", !.target = disposable.id + 1])
  /\ UNCHANGED <<operationStateVars, catalogue, rows, search, object, manifest, spent>>

(* Mutant: the target is persisted without comparing the generation. *)
PersistOverAnyGeneration(r) ==
  LET row == attempt[runner[r].a]
      next == runner[r].generation + 1
  IN
  /\ runner[r].pc = "prepared"
  /\ IF row.state = "restoring_verification"
     THEN /\ attempt' = [attempt EXCEPT ![runner[r].a] =
               [row EXCEPT !.target = runner[r].target, !.generation = next, !.phase = "prepared"]]
          /\ Goto(r, [runner[r] EXCEPT !.pc = "importing", !.generation = next])
     ELSE Throw(r) /\ UNCHANGED attempt
  /\ UNCHANGED <<operationStateVars, catalogue, retention, request, search, store, spent>>

(* The row names the target, unless another try has named one since. *)
PersistPreparedTarget(r) ==
  LET row == attempt[runner[r].a]
      next == runner[r].generation + 1
      where == row.state = "restoring_verification" /\ row.generation = runner[r].generation
  IN
  /\ runner[r].pc = "prepared"
  /\ IF where
     THEN /\ attempt' = [attempt EXCEPT ![runner[r].a] =
               [row EXCEPT !.target = runner[r].target, !.generation = next, !.phase = "prepared"]]
          /\ Goto(r, [runner[r] EXCEPT !.pc = "importing", !.generation = next])
     ELSE Throw(r) /\ UNCHANGED attempt
  /\ UNCHANGED <<operationStateVars, catalogue, retention, request, search, store, spent>>

TransitionImporting(r) ==
  LET row == attempt[runner[r].a] IN
  /\ runner[r].pc = "importing"
  /\ Advance(r, row.state = "restoring_verification" /\ row.phase = "prepared",
             [row EXCEPT !.phase = "importing"], "import")

(* The retained object is imported into the target, if it still exists. *)
RestoreSql(r) ==
  /\ runner[r].pc = "import"
  /\ IF disposable.id = runner[r].target
     THEN /\ disposable' = [disposable EXCEPT !.dump = object[runner[r].a].dump, !.populated = TRUE]
          /\ Continue(r, "imported")
     ELSE Throw(r) /\ UNCHANGED disposable
  /\ UNCHANGED <<operationStateVars, catalogue, rows, search, object, manifest, spent>>

TransitionRestored(r) ==
  LET row == attempt[runner[r].a] IN
  /\ runner[r].pc = "imported"
  /\ Advance(r, row.state = "restoring_verification" /\ row.phase = "importing",
             [row EXCEPT !.state = "verifying", !.phase = "imported"], "verify")

(* What the restored database must show: the expected revision, taken       *)
(* behind the guard, and the composition captured as evidence.              *)
RestoredVerification(a, target) ==
  /\ disposable.id = target /\ disposable.populated
  /\ disposable.dump.fenced
  /\ disposable.dump.revision = attempt[a].revision
  /\ Native(a) => disposable.dump.contents = object[a].snapshot

ReconstructAndVerify(r) ==
  /\ runner[r].pc = "verify"
  /\ IF RestoredVerification(runner[r].a, runner[r].target)
     THEN Continue(r, "manifest") ELSE Throw(r)
  /\ UNCHANGED <<operationStateVars, catalogue, rows, search, store, spent>>

(* The manifest names target and generation; an equal one may be there. *)
RetainManifest(r) ==
  LET a == runner[r].a IN
  /\ runner[r].pc = "manifest"
  /\ manifest' = IF manifest[a] = 0 THEN [manifest EXCEPT ![a] = runner[r].target] ELSE manifest
  /\ IF manifest[a] \in {0, runner[r].target} THEN Continue(r, "complete") ELSE Throw(r)
  /\ UNCHANGED <<operationStateVars, catalogue, rows, search, object, disposable, spent>>

(* Mutant: the earlier newest backup is not dated. *)
RetainAlso(a) == [retention EXCEPT ![a] = "newest"]

(* The completed backup is the newest; the one before it is dated. *)
RetainNewest(a) ==
  [b \in Attempts |-> IF b = a THEN "newest"
                      ELSE IF retention[b] = "newest" THEN "dated" ELSE retention[b]]

(* The last batch: verified, newest, and healthy, or nothing. *)
CompleteBackup(r) ==
  LET a == runner[r].a
      applies == /\ attempt[a].state = "verifying"
                 /\ ~(recovery_health = "blocked" /\ active_recovery)
  IN
  /\ runner[r].pc = "complete"
  /\ IF applies
     THEN /\ attempt' = [attempt EXCEPT ![a].state = "verified", ![a].phase = "verified"]
          /\ retention' = RetainNewest(a)
          /\ RestoreHealthyBackupState
          /\ Return(r)
     ELSE Throw(r) /\ UNCHANGED <<operationStateVars, attempt, retention>>
  /\ UNCHANGED <<catalogue, request, search, store, spent>>

-----------------------------------------------------------------------------
(* Mutant: only a snapshot that had taken the search lease is cleaned up. *)
SnapshotLeftLeased(a) ==
  /\ Native(a) /\ attempt[a].state = "exporting"
  /\ \A b \in Attempts \ {a} : attempt[b].state \notin Busy
  /\ ~active_recovery /\ ~Writable
  /\ search.owner = a

(* failActiveCatalogueBackupAttempt: a publication's snapshot that was left *)
(* with the guard up is cleaned up, if its search lease can be taken ...    *)
SnapshotLeftFenced(a) ==
  /\ Native(a) /\ attempt[a].state = "exporting"
  /\ \A b \in Attempts \ {a} : attempt[b].state \notin Busy
  /\ ~active_recovery /\ ~Writable
  /\ search.owner = a \/ search.state = "ready"

InspectSnapshotFence(r) ==
  /\ runner[r].pc = "inspect"
  /\ Continue(r, IF SnapshotLeftFenced(runner[r].a) THEN "lease" ELSE "fail")
  /\ UNCHANGED <<operationStateVars, catalogue, rows, search, store, spent>>

(* Mutant: an attempt that never became active is not failed. *)
FailBusyAttempt(r) ==
  LET a == runner[r].a
      degrades == recovery_health = "blocked" /\ attempt[a].state \in Busy
  IN
  /\ runner[r].pc = "fail"
  /\ IF degrades /\ active_recovery
     THEN Throw(r) /\ UNCHANGED <<operationStateVars, attempt>>
     ELSE /\ IF degrades THEN DegradeActiveBackupState ELSE UNCHANGED operationStateVars
          /\ attempt' = IF attempt[a].state \notin Busy THEN attempt
                        ELSE [attempt EXCEPT ![a].state = "failed"]
          /\ Return(r)
  /\ UNCHANGED <<catalogue, retention, request, search, store, spent>>

(* ... and the attempt fails, degrading a catalogue it had blocked. *)
FailActiveAttempt(r) ==
  LET a == runner[r].a
      degrades == recovery_health = "blocked" /\ attempt[a].state \in Busy
  IN
  /\ runner[r].pc = "fail"
  /\ IF degrades /\ active_recovery
     THEN Throw(r) /\ UNCHANGED <<operationStateVars, attempt>>
     ELSE /\ IF degrades THEN DegradeActiveBackupState ELSE UNCHANGED operationStateVars
          /\ attempt' = IF attempt[a].state \in Terminal \cup {"absent"} THEN attempt
                        ELSE [attempt EXCEPT ![a].state = "failed"]
          /\ Return(r)
  /\ UNCHANGED <<catalogue, retention, request, search, store, spent>>

-----------------------------------------------------------------------------
(* What goes wrong. *)

(* The call fails without effect, and the exception is handled where it     *)
(* passes: a finally reconstructs the index, another clears the guard.      *)
CallFails(r) ==
  LET pc == runner[r].pc IN
  /\ pc \in spent.plan.points /\ spent.faults < spent.plan.faults
  /\ spent' = [spent EXCEPT !.faults = @ + 1]
  /\ CASE pc = "drop" -> Continue(r, "release")
       [] pc = "dump" -> Goto(r, [runner[r] EXCEPT !.pc = "rebuild", !.err = TRUE])
       [] pc \in {"fence", "capture", "lease", "release", "rebuild"} -> Leave(r, TRUE)
       [] OTHER -> Throw(r)
  /\ UNCHANGED <<operationStateVars, catalogue, rows, search, store>>

(* The execution disappears.  A call whose effect happened and whose answer *)
(* was lost looks the same.                                                 *)
Crash(r) ==
  /\ runner[r].pc # "idle" /\ spent.crashes < spent.plan.crashes
  /\ spent' = [spent EXCEPT !.crashes = @ + 1]
  /\ Throw(r)
  /\ UNCHANGED <<operationStateVars, catalogue, rows, search, store>>

(* The engine gives a try up that goes on running. *)
StepTimesOut(a) ==
  /\ workflow[a].runner # None /\ spent.timeouts < spent.plan.timeouts
  /\ spent' = [spent EXCEPT !.timeouts = @ + 1]
  /\ workflow' = [workflow EXCEPT ![a] = TryFailed(@)]
  /\ UNCHANGED <<operationStateVars, catalogue, rows, runner, search, store>>

-----------------------------------------------------------------------------
BackupStep(r) ==
  \/ InsertPendingBackup(r) \/ CheckOperationState(r)
  \/ CaptureVerificationEvidence(r) \/ StartBackupExport(r)
  \/ FindRetainedObject(r) \/ RaiseRestoreGuard(r) \/ RaiseHealthFence(r)
  \/ CaptureCompositionSnapshot(r) \/ AcquireSearchLease(r) \/ DropSearchIndex(r)
  \/ ReleaseSearchLease(r) \/ ExportSql(r) \/ ReconstructSearch(r)
  \/ ClearRestoreGuard(r) \/ RetainObject(r) \/ TransitionExported(r)
  \/ PrepareRestoreTarget(r) \/ PersistPreparedTarget(r) \/ TransitionImporting(r)
  \/ RestoreSql(r) \/ TransitionRestored(r) \/ ReconstructAndVerify(r)
  \/ RetainManifest(r) \/ CompleteBackup(r)
  \/ InspectSnapshotFence(r) \/ FailActiveAttempt(r)

CatalogueStep ==
  \/ CatalogueWrite \/ ClaimIngestion \/ FinishIngestion
  \/ \E a \in Attempts, revision \in 1..MaxRevision : AcceptPublication(a, revision)
  \/ BeginRecovery \/ AcceptRecovery \/ AdministrationRequest

Next ==
  \/ CatalogueStep
  \/ SearchLeaseExpires
  \/ \E a \in Attempts :
       \/ \E linked \in Attempts \cup {None} : StartCatalogueBackup(a, linked)
       \/ DispatchBackup(a) \/ StepTimesOut(a)
       \/ \E r \in Runners : StartTry(r, a) \/ ObserveErroredWorkflow(r, a)
  \/ \E r \in Runners : BackupStep(r) \/ CallFails(r) \/ Crash(r)

Spec == BackupInit /\ [][Next]_vars

(* The engine starts the tries of every instance, whatever else occupies    *)
(* the executions of this instance of the model, and an execution that does *)
(* not crash makes its next call.  Nothing is assumed of requests: the      *)
(* publication's Workflow asks for its backup in one step, a dispatch that  *)
(* failed is an answer like any other, and whether an undispatched request  *)
(* or an errored instance is looked at again is up to the owner.            *)
FairSpec ==
  /\ Spec
  /\ \A r \in Runners : WF_vars(BackupStep(r))
  /\ \A a \in Attempts : SF_vars(\E r \in Runners : StartTry(r, a))

-----------------------------------------------------------------------------
(* Types.  An execution that is not idle works for an attempt. *)
Dumps == [revision : 0..MaxRevision, contents : Nat, fenced : BOOLEAN]
States == Busy \cup Terminal \cup {"absent", "pending"}
AttemptRows ==
  [state : States, revision : 0..MaxRevision, operation : Attempts \cup {None},
   linked : Attempts \cup {None}, generation : Nat,
   phase : {"none", "prepared", "importing", "imported", "verified"}, target : Nat]
RequestRows ==
  [state : {"absent", "pending", "failed", "dispatched"}, revision : 0..MaxRevision,
   linked : Attempts \cup {None}, at : Nat]
Instances ==
  [status : {"none", "running", "complete", "errored"}, step : {"backup", "failure"},
   tries : 0..StepTries - 1, runner : Runners \cup {None}]
Executions ==
  [pc : Calls \cup {"idle"}, a : Attempts \cup {None}, mode : {"backup", "failure", "request"},
   read : States, err : BOOLEAN, generation : Nat, target : Nat, dump : Dumps, snapshot : Nat]

TypeOK ==
  /\ OperationStateTypeOK
  /\ catalogue \in [revision : 0..MaxRevision, acceptance : Attempts \cup {None},
                    contents : Nat, ingesting : BOOLEAN]
  /\ attempt \in [Attempts -> AttemptRows]
  /\ retention \in [Attempts -> {"none", "newest", "dated"}]
  /\ request \in [Attempts -> RequestRows]
  /\ workflow \in [Attempts -> Instances]
  /\ runner \in [Runners -> Executions]
  /\ \A r \in Runners : runner[r].pc # "idle" => runner[r].a \in Attempts
  /\ search \in [state : {"ready", "reconstructing"}, owner : Attempts \cup {None},
                 expired : BOOLEAN, indexed : BOOLEAN]
  /\ object \in [Attempts -> [stored : BOOLEAN, dump : Dumps, snapshot : Nat]]
  /\ manifest \in [Attempts -> Nat]
  /\ disposable \in [id : Nat, dump : Dumps, populated : BOOLEAN]
  /\ spent \in [crashes : Nat, timeouts : Nat, faults : Nat, requests : Nat, plan : Plans]

(* A verified backup can be trusted whatever overlapped it: the retained    *)
(* SQL is of the attempt's revision, was dumped behind the guard, agrees    *)
(* with the composition captured as evidence, and the manifest names the    *)
(* very target the row says was verified.                                   *)
VerifiedBackupIsRestorable ==
  \A a \in Attempts : attempt[a].state = "verified" =>
    /\ object[a].stored /\ object[a].dump.fenced
    /\ object[a].dump.revision = attempt[a].revision
    /\ Native(a) => object[a].dump.contents = object[a].snapshot
    /\ manifest[a] = attempt[a].target

(* Exactly one verified backup is retained as the newest and every other is *)
(* dated; nothing unverified is retained.                                   *)
NewestBackupIsRetained ==
  /\ \A a \in Attempts : attempt[a].state = "verified" <=> retention[a] # "none"
  /\ (\E a \in Attempts : attempt[a].state = "verified")
       => \E n \in Attempts : {a \in Attempts : retention[a] = "newest"} = {n}

(* No two executions have worked for one attempt: no try went on after it   *)
(* was given up, and no instance errored, for any number of administration  *)
(* requests may clean up after that one.                                    *)
NoOverlap ==
  /\ spent.timeouts = 0
  /\ \A a \in Attempts : workflow[a].status # "errored"

(* One backup is under way at a time, and never during a recovery; one that *)
(* is not a publication's keeps the catalogue blocked and ingestion out     *)
(* until it ends, unless it began after a publication had overtaken it and  *)
(* a late execution for that publication lowers the fence.                  *)
BackupIsExclusive ==
  \A a \in Attempts : attempt[a].state \in Busy =>
    /\ \A b \in Attempts : attempt[b].state \in Busy => b = a
    /\ ~active_recovery
    /\ ~Native(a) /\ (NoOverlap \/ attempt[a].revision = catalogue.revision)
         => recovery_health = "blocked" /\ ~catalogue.ingesting

(* From the capture of the evidence to the dump the guard stays up and the  *)
(* catalogue does not change, unless executions for one attempt overlap.    *)
SnapshotIsQuiescent ==
  NoOverlap => \A r \in Runners :
    /\ runner[r].mode = "backup"
    /\ runner[r].pc \in {"capture", "lease", "drop", "release", "dump"}
    => /\ ~Writable
       /\ runner[r].pc # "capture" /\ Native(runner[r].a)
            => runner[r].snapshot = catalogue.contents

(* Card reads are open only when the search index exists, unless executions *)
(* for one attempt overlap and share their lease, or the removal of the     *)
(* index fails when it is already gone: the lease is then given up.         *)
SearchReadyMeansIndexed ==
  NoOverlap /\ (spent.faults = 0 \/ "drop" \notin spent.plan.points)
    => (search.state = "ready" => search.indexed)

(* While a recovery is active, no execution of a backup, however late,      *)
(* lowers a fence; only its acceptance does.                                *)
RecoveryHoldsFences ==
  [][active_recovery /\ active_recovery'
       => recovery_health' = "blocked" /\ recovery_restore_guard' = "blocked"]_vars

(* A Workflow with nothing left to do on its own: both its steps have used  *)
(* up their tries, and only a request of the owner cleans up after it.      *)
LeftToOwner(a) == workflow[a].status = "errored"

(* A dispatched backup ends: its attempt is verified or failed, or never    *)
(* came to be, or the Workflow exhausts its failure step as well and leaves *)
(* it to the owner.  (runCatalogueBackupWorkflow)                           *)
BackupSettles ==
  \A a \in Attempts :
    workflow[a].status = "running"
      ~> \/ attempt[a].state \in Terminal
         \/ workflow[a].status = "complete" /\ attempt[a].state = "absent"
         \/ LeftToOwner(a)

(* The snapshot's fence is temporary: the guard a backup has raised goes    *)
(* down without anybody asking, unless the Workflow that raised it is left  *)
(* to the owner.  (createVerifiedCatalogueBackup, the failure step)         *)
FenceIsTemporary ==
  (~Writable /\ ~active_recovery)
    ~> (Writable \/ active_recovery \/ \E a \in Attempts : LeftToOwner(a))

==============================================================================
