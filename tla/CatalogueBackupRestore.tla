------------------------ MODULE CatalogueBackupRestore ------------------------
(***************************************************************************)
(* Proofs about the proof restore of CatalogueBackup: whatever crashes,    *)
(* fails or overlaps, a backup is verified only by a restore of the dump   *)
(* it retained.                                                            *)
(***************************************************************************)
EXTENDS CatalogueBackupSteps

(* Most steps are first-order: Zenon proves them unless they name SMT. *)
USE ZenonT(30)

Restoring == {"importing", "import", "imported", "verify", "manifest", "complete"}
Retained == {"exported", "prepare", "prepared"} \cup Restoring
Imported == {"verifying"} \cup Terminal

(* The dump retained for an attempt is the one its verification asks for. *)
DumpIsGood(a) ==
  /\ object[a].dump.fenced
  /\ object[a].dump.revision = attempt[a].revision
  /\ Native(a) => object[a].dump.contents = object[a].snapshot

(* The row of an attempt and the provider's targets: a target that was      *)
(* overtaken in the row is older than the row's.                            *)
RowHeld(a) ==
  /\ attempt[a].target <= disposable.id
  /\ attempt[a].state \in {"restoring_verification", "verifying", "verified"} => object[a].stored
  /\ attempt[a].state = "verified" => DumpIsGood(a) /\ manifest[a] = attempt[a].target

TargetHeld(q) ==
  LET x == runner[q] IN
  LET row == attempt[x.a] IN
  /\ x.generation <= row.generation /\ x.target <= disposable.id
  /\ x.pc = "prepared" /\ x.generation = row.generation => x.target > row.target
  /\ x.pc \in Restoring =>
       /\ x.generation = row.generation => x.target = row.target
       /\ x.generation < row.generation => x.target < row.target
  /\ x.pc \in {"prepared", "importing", "import"} => x.target > 0

EvidenceHeld(q) ==
  LET x == runner[q] IN
  LET row == attempt[x.a] IN
  /\ x.pc \in Retained => object[x.a].stored
  /\ x.pc \in {"verify", "manifest", "complete"} => row.state \in Imported
  /\ x.pc \in {"check", "evidence"} /\ x.read \in {"restoring_verification", "verifying"} => object[x.a].stored
  /\ x.pc \in {"check", "evidence"} /\ x.read = "verifying" =>
       row.state \in Imported /\ x.generation = row.generation /\ x.target = row.target
  /\ x.pc \in {"manifest", "complete"} => DumpIsGood(x.a) /\ x.target = row.target
  /\ x.pc = "complete" => manifest[x.a] = row.target

(* A target belongs to one attempt, and a database that was populated holds *)
(* that attempt's dump.                                                     *)
Holds(a, t) ==
  \/ attempt[a].target = t
  \/ \E q \in Runners : runner[q].pc # "idle" /\ runner[q].a = a /\ runner[q].target = t

TargetsHeld ==
  /\ \A a, b \in Attempts, t \in Nat : t > 0 /\ Holds(a, t) /\ Holds(b, t) => a = b
  /\ disposable.populated =>
       /\ disposable.id > 0
       /\ \A a \in Attempts : Holds(a, disposable.id) =>
            object[a].stored /\ disposable.dump = object[a].dump

RestoreInvariant ==
  /\ \A a \in Attempts : RowHeld(a)
  /\ \A q \in Runners : runner[q].pc # "idle" => TargetHeld(q) /\ EvidenceHeld(q)
  /\ TargetsHeld

(* How a row moves: its target and generation only by a call that persists  *)
(* a target, into the restore only from "exported", and to verified only    *)
(* from "complete".                                                         *)
RowKept(b) ==
  /\ attempt'[b].generation = attempt[b].generation /\ attempt'[b].target = attempt[b].target
  /\ attempt[b].state \in Imported => attempt'[b].state \in Imported
  /\ attempt'[b].state \in {"restoring_verification", "verifying", "verified"} =>
       \/ attempt[b].state \in {"restoring_verification", "verifying", "verified"}
       \/ \E r \in Runners : runner[r].pc = "exported" /\ runner[r].a = b
  /\ attempt'[b].state = "verified" =>
       \/ attempt[b].state = "verified"
       \/ \E r \in Runners : runner[r].pc = "complete" /\ runner[r].a = b

LEMMA RowsKept ==
  ASSUME WellFormed, [Next]_vars, NEW b \in Attempts
  PROVE  \/ RowKept(b)
         \/ \E r \in Runners : PersistPreparedTarget(r) /\ runner[r].a = b
<1> USE DEF Imported, Terminal
<1>1. attempt'[b] = attempt[b] => RowKept(b)
  BY DEF RowKept
<1>2. ASSUME attempt[b] = NoAttempt, attempt'[b].state = "pending",
             attempt'[b].generation = 0, attempt'[b].target = 0
      PROVE  RowKept(b)
  BY <1>2, NoAttemptFields DEF RowKept
<1>3. ASSUME NEW a \in Attempts, NEW v \in 1..MaxRevision, AcceptPublication(a, v)
      PROVE  RowKept(b)
  BY <1>1, <1>2, <1>3, AcceptEffect DEF OnlyRow
<1>4. CASE \/ CatalogueWrite \/ ClaimIngestion \/ FinishIngestion \/ SearchLeaseExpires
           \/ BeginRecovery \/ AcceptRecovery \/ AdministrationRequest
           \/ \E a \in Attempts :
                \/ \E linked \in Attempts \cup {None} : StartCatalogueBackup(a, linked)
                \/ DispatchBackup(a) \/ StepTimesOut(a)
                \/ \E r \in Runners : StartTry(r, a) \/ ObserveErroredWorkflow(r, a)
           \/ UNCHANGED vars
  <2>1. attempt' = attempt
    BY <1>4 DEF CatalogueWrite, ClaimIngestion, FinishIngestion, BeginRecovery,
       AcceptRecovery, AdministrationRequest, SearchLeaseExpires, backupVars, rows, vars,
       StartCatalogueBackup, DispatchBackup, StepTimesOut, StartTry, ObserveErroredWorkflow
  <2> QED
    BY <1>1, <2>1
<1>5. ASSUME NEW r \in Runners, BackupStep(r) \/ CallFails(r) \/ Crash(r),
             ~PersistPreparedTarget(r)
      PROVE  runner[r].a # b \/ RowKept(b)
  <2> SUFFICES ASSUME runner[r].a = b
               PROVE  RowKept(b)
    OBVIOUS
  <2>1. CASE attempt' = attempt
    BY <1>1, <2>1
  <2>2. CASE InsertPendingBackup(r)
    BY <1>1, <1>2, <2>2, InsertEffect DEF Inserted
  <2>3. CASE CheckOperationState(r) \/ FailActiveAttempt(r)
    <3>1. attempt' = attempt \/ (attempt[b].state \notin Terminal /\ RowTo(b, "failed"))
      BY <2>3, CheckEffect, FailEffect
    <3> QED
      BY <2>1, <3>1 DEF RowTo, RowKept
  <2>4. CASE StartBackupExport(r)
    <3>1. attempt' = attempt \/ (attempt[b].state = "pending" /\ RowTo(b, "exporting"))
      BY <2>4, BeginEffect DEF PendingBackupStartable
    <3> QED
      BY <2>1, <3>1 DEF RowTo, RowKept
  <2>5. CASE TransitionExported(r)
    <3>1. /\ runner[r].pc = "exported"
          /\ \/ attempt' = attempt
             \/ attempt[b].state = "exporting" /\ RowTo(b, "restoring_verification")
      BY <2>5, ExportedEffect DEF TransitionExported
    <3> QED
      BY <2>1, <3>1 DEF RowTo, RowKept
  <2>6. CASE TransitionImporting(r) \/ TransitionRestored(r)
    <3>1. \/ attempt' = attempt
          \/ /\ attempt[b].state = "restoring_verification"
             /\ RowTo(b, "restoring_verification") \/ RowTo(b, "verifying")
      BY <2>6, ImportingEffect, RestoredEffect
    <3> QED
      BY <2>1, <3>1 DEF RowTo, RowKept
  <2>7. CASE CompleteBackup(r)
    <3>1. /\ runner[r].pc = "complete"
          /\ attempt' = attempt \/ (attempt[b].state = "verifying" /\ RowTo(b, "verified"))
      BY <2>7, CompleteEffect DEF CompleteBackup
    <3> QED
      BY <2>1, <3>1 DEF RowTo, RowKept
  <2>8. CASE CallFails(r) \/ Crash(r)
    BY <2>1, <2>8, FaultEffect, CrashEffect
  <2>9. CASE CaptureVerificationEvidence(r) \/ FindRetainedObject(r) \/ RaiseRestoreGuard(r)
             \/ RaiseHealthFence(r) \/ CaptureCompositionSnapshot(r) \/ AcquireSearchLease(r)
             \/ DropSearchIndex(r) \/ ReleaseSearchLease(r) \/ ReconstructSearch(r)
             \/ ExportSql(r) \/ ClearRestoreGuard(r) \/ RetainObject(r)
             \/ PrepareRestoreTarget(r) \/ RestoreSql(r) \/ ReconstructAndVerify(r)
             \/ RetainManifest(r) \/ InspectSnapshotFence(r)
    BY <2>1, <2>9, EvidenceEffect, FindEffect, GuardEffect, FenceEffect, CaptureEffect, LeaseEffect,
       DropEffect, LeavingEffect, ExportEffect, ClearEffect, RetainEffect, PrepareEffect,
       RestoreEffect, VerifyEffect, ManifestEffect, InspectEffect
  <2> QED
    BY <1>5, <2>2, <2>3, <2>4, <2>5, <2>6, <2>7, <2>8, <2>9 DEF BackupStep
<1>6. ASSUME NEW r \in Runners, BackupStep(r) \/ CallFails(r) \/ Crash(r)
      PROVE  RowKept(b) \/ (PersistPreparedTarget(r) /\ runner[r].a = b)
  <2>1. CASE runner[r].a # b
    BY <1>1, <1>6, <2>1, CallFrame DEF OnlyRow
  <2> QED
    BY <1>5, <1>6, <2>1
<1> QED
  BY <1>3, <1>4, <1>6, StepCases

(* What is retained stays as it is. *)
StoreKept ==
  /\ disposable'.id >= disposable.id
  /\ \A b \in Attempts :
       /\ object[b].stored => object'[b] = object[b]
       /\ \/ manifest'[b] = manifest[b]
          \/ \E r \in Runners : /\ runner[r].pc = "manifest" /\ runner[r].a = b
                                /\ manifest'[b] = runner[r].target

LEMMA StoreStep ==
  ASSUME WellFormed, [Next]_vars
  PROVE  StoreKept
<1>0. /\ disposable \in [id : Nat, dump : Dumps, populated : BOOLEAN]
      /\ manifest \in [Attempts -> Nat]
      /\ object \in [Attempts -> [stored : BOOLEAN, dump : Dumps, snapshot : Nat]]
  BY DEF WellFormed, TypeOK
<1>1. CASE UNCHANGED store
  BY <1>0, <1>1, SMT DEF store, StoreKept
<1>2. ASSUME NEW r \in Runners, RetainObject(r)
      PROVE  StoreKept
  <2>1. manifest' = manifest /\ disposable' = disposable
    BY <1>2 DEF RetainObject
  <2>2. \A b \in Attempts : object[b].stored => object'[b] = object[b]
    BY <1>0, <1>2, RetainEffect
  <2> QED
    BY <1>0, <2>1, <2>2, SMT DEF StoreKept
<1>3. ASSUME NEW r \in Runners, PrepareRestoreTarget(r)
      PROVE  StoreKept
  BY <1>0, <1>3, SMT DEF PrepareRestoreTarget, StoreKept
<1>4. ASSUME NEW r \in Runners, RestoreSql(r)
      PROVE  StoreKept
  <2>1. object' = object /\ manifest' = manifest
    BY <1>4 DEF RestoreSql
  <2>2. disposable' = disposable \/ disposable' = [disposable EXCEPT !.dump = object[runner[r].a].dump,
                                                                     !.populated = TRUE]
    BY <1>4, RestoreEffect
  <2>3. disposable'.id = disposable.id
    BY <1>0, <2>2
  <2> QED
    BY <1>0, <2>1, <2>3, SMT DEF StoreKept
<1>5. ASSUME NEW r \in Runners, RetainManifest(r)
      PROVE  StoreKept
  <2>1. object' = object /\ disposable' = disposable /\ runner[r].pc = "manifest"
    BY <1>5 DEF RetainManifest
  <2>2. \A b \in Attempts : manifest'[b] = manifest[b] \/ (runner[r].a = b /\ manifest'[b] = runner[r].target)
    BY <1>0, <1>5, ManifestEffect
  <2> QED
    BY <1>0, <2>1, <2>2, SMT DEF StoreKept
<1>6. CASE \/ CatalogueWrite \/ ClaimIngestion \/ FinishIngestion \/ SearchLeaseExpires
           \/ BeginRecovery \/ AcceptRecovery \/ AdministrationRequest
           \/ \E a \in Attempts, v \in 1..MaxRevision : AcceptPublication(a, v)
           \/ \E a \in Attempts :
                \/ \E linked \in Attempts \cup {None} : StartCatalogueBackup(a, linked)
                \/ DispatchBackup(a) \/ StepTimesOut(a)
                \/ \E r \in Runners : StartTry(r, a) \/ ObserveErroredWorkflow(r, a)
           \/ UNCHANGED vars
           \/ \E r \in Runners : CallFails(r) \/ Crash(r)
  <2>1. UNCHANGED store
    BY <1>6 DEF CatalogueWrite, ClaimIngestion, FinishIngestion, BeginRecovery,
       AcceptRecovery, AdministrationRequest, AcceptPublication, SearchLeaseExpires, backupVars,
       vars, StartCatalogueBackup, DispatchBackup, StepTimesOut, StartTry, ObserveErroredWorkflow,
       CallFails, Crash
  <2> QED
    BY <1>1, <2>1
<1>7. ASSUME NEW r \in Runners, BackupStep(r)
      PROVE  \/ UNCHANGED store \/ RetainObject(r) \/ PrepareRestoreTarget(r)
             \/ RestoreSql(r) \/ RetainManifest(r)
  BY <1>7 DEF BackupStep, InsertPendingBackup, CheckOperationState,
     CaptureVerificationEvidence, StartBackupExport, FindRetainedObject, RaiseRestoreGuard,
     RaiseHealthFence, CaptureCompositionSnapshot, AcquireSearchLease, DropSearchIndex,
     ReleaseSearchLease, ExportSql, ReconstructSearch, ClearRestoreGuard, TransitionExported,
     PersistPreparedTarget, TransitionImporting, TransitionRestored, ReconstructAndVerify,
     CompleteBackup, InspectSnapshotFence, FailActiveAttempt, Advance
<1> QED
  BY <1>1, <1>2, <1>3, <1>4, <1>5, <1>6, <1>7, StepCases

LEMMA RestoreTypes ==
  ASSUME WellFormed, NEW a \in Attempts, NEW q \in Runners
  PROVE  /\ attempt[a].generation \in Nat /\ attempt[a].target \in Nat /\ disposable.id \in Nat
         /\ runner[q].generation \in Nat /\ runner[q].target \in Nat
         /\ manifest[a] \in Nat
BY DEF WellFormed, TypeOK, AttemptRows, Executions

LEMMA DumpStaysGood ==
  ASSUME WellFormed, [Next]_vars, NEW a \in Attempts, attempt[a].state # "absent",
         object[a].stored, DumpIsGood(a)
  PROVE  DumpIsGood(a)'
BY OperationKept, StoreStep DEF StoreKept, DumpIsGood, Native

(* A target that is persisted is newer than any the attempt had. *)
LEMMA PersistedTarget ==
  ASSUME WellFormed, RestoreInvariant, NEW r \in Runners, PersistPreparedTarget(r)
  PROVE  LET a == runner[r].a IN
         /\ a \in Attempts
         /\ \/ attempt' = attempt
            \/ /\ OnlyRow(a) /\ attempt[a].state = "restoring_verification"
               /\ attempt'[a].state = "restoring_verification"
               /\ attempt'[a].generation = attempt[a].generation + 1
               /\ attempt'[a].target = runner[r].target
               /\ runner[r].target > attempt[a].target /\ runner[r].target <= disposable.id
               /\ runner'[r].pc = "importing" /\ OnlyRunner(r)
               /\ runner'[r].a = a /\ object[a].stored
               /\ runner'[r].generation = attempt'[a].generation
               /\ runner'[r].target = attempt'[a].target
<1>1. runner[r].pc = "prepared" /\ runner[r].a \in Attempts
  BY StepTypes DEF PersistPreparedTarget
<1>2. TargetHeld(r) /\ EvidenceHeld(r)
  BY <1>1 DEF RestoreInvariant
<1>3. attempt[runner[r].a].generation \in Nat
  BY <1>1, RestoreTypes
<1> QED
  BY <1>1, <1>2, <1>3, PersistEffect, SMT DEF TargetHeld, EvidenceHeld, Retained

LEMMA ManifestKept ==
  ASSUME RestoreInvariant, StoreKept, NEW b \in Attempts
  PROVE  manifest'[b] = manifest[b] \/ manifest'[b] = attempt[b].target
BY SMT DEF StoreKept, RestoreInvariant, EvidenceHeld

LEMMA RowHeldStep ==
  ASSUME WellFormed, RestoreInvariant, [Next]_vars, NEW b \in Attempts
  PROVE  RowHeld(b)'
<1> USE DEF Imported, Terminal
<1>0. RowHeld(b) /\ StoreKept /\ WellFormed'
  BY StoreStep, NextWellFormed DEF RestoreInvariant
<1>1. /\ attempt[b].target \in Nat /\ disposable.id \in Nat /\ disposable'.id \in Nat
      /\ attempt'[b].target \in Nat
  BY <1>0 DEF WellFormed, TypeOK, AttemptRows
<1>2. CASE RowKept(b)
  <2>1. attempt'[b].target <= disposable'.id
    BY <1>0, <1>1, <1>2, SMT DEF RowKept, RowHeld, StoreKept
  <2>2. ASSUME attempt'[b].state \in {"restoring_verification", "verifying", "verified"}
        PROVE  object[b].stored /\ object'[b] = object[b]
    <3>1. object[b].stored
      BY <1>0, <1>2, <2>2 DEF RowKept, RowHeld, RestoreInvariant, EvidenceHeld, Retained
    <3> QED
      BY <1>0, <3>1 DEF StoreKept
  <2>3. ASSUME attempt'[b].state = "verified"
        PROVE  DumpIsGood(b)' /\ manifest'[b] = attempt'[b].target
    <3>1. /\ attempt[b].state \in Imported /\ DumpIsGood(b) /\ manifest[b] = attempt[b].target
      BY <1>0, <1>2, <2>3 DEF RowKept, RowHeld, RestoreInvariant, EvidenceHeld
    <3>2. DumpIsGood(b)'
      BY <2>2, <2>3, <3>1, DumpStaysGood
    <3>3. manifest'[b] = manifest[b] \/ manifest'[b] = attempt[b].target
      BY <1>0, ManifestKept
    <3> QED
      BY <1>2, <3>1, <3>2, <3>3 DEF RowKept
  <2> QED
    BY <2>1, <2>2, <2>3 DEF RowHeld
<1>3. ASSUME NEW r \in Runners, PersistPreparedTarget(r), runner[r].a = b
      PROVE  RowHeld(b)' \/ RowKept(b)
  <2>1. CASE attempt' = attempt
    BY <2>1 DEF RowKept
  <2>2. CASE attempt' # attempt
    <3>1. /\ attempt'[b].state = "restoring_verification" /\ attempt'[b].target <= disposable.id
          /\ object[b].stored
      BY <1>3, <2>2, PersistedTarget
    <3> QED
      BY SMT, <1>0, <1>1, <3>1 DEF RowHeld, StoreKept
  <2> QED
    BY <2>1, <2>2
<1> QED
  BY <1>2, <1>3, RowsKept

(* An execution that does not move keeps what it relies on. *)
LEMMA StandingHeld ==
  ASSUME WellFormed, RestoreInvariant, [Next]_vars, NEW q \in Runners, runner[q].pc # "idle",
         runner'[q] = runner[q]
  PROVE  TargetHeld(q)' /\ EvidenceHeld(q)'
<1> DEFINE a == runner[q].a
<1> USE DEF Imported, Terminal
<1>0. a \in Attempts /\ TargetHeld(q) /\ EvidenceHeld(q) /\ StoreKept /\ WellFormed'
  BY StoreStep, NextWellFormed DEF RestoreInvariant, WellFormed, TypeOK
<1>1. /\ attempt[a].target \in Nat /\ disposable.id \in Nat /\ disposable'.id \in Nat
      /\ attempt'[a].target \in Nat /\ attempt[a].generation \in Nat
      /\ runner[q].target \in Nat /\ runner[q].generation \in Nat
  BY <1>0, RestoreTypes DEF WellFormed, TypeOK, AttemptRows
<1>2. ASSUME attempt'[a].target = attempt[a].target,
             attempt'[a].generation = attempt[a].generation,
             attempt[a].state \in Imported => attempt'[a].state \in Imported
      PROVE  TargetHeld(q)' /\ EvidenceHeld(q)'
  <2>1. TargetHeld(q)'
    BY SMT, <1>0, <1>1, <1>2 DEF TargetHeld, StoreKept
  <2>2. object[a].stored => object'[a].stored
    BY <1>0 DEF StoreKept
  <2>3. runner[q].pc \in {"manifest", "complete"} => DumpIsGood(a)'
    BY <1>0, DumpStaysGood DEF EvidenceHeld, Retained, Restoring
  <2>4. runner[q].pc = "complete" => manifest'[a] = attempt'[a].target
    <3>1. manifest'[a] = manifest[a] \/ manifest'[a] = attempt[a].target
      BY <1>0, ManifestKept
    <3> QED
      BY <1>0, <1>2, <3>1 DEF EvidenceHeld
  <2>5. EvidenceHeld(q)'
    BY <1>0, <1>2, <2>2, <2>3, <2>4 DEF EvidenceHeld
  <2> QED
    BY <2>1, <2>5
<1>3. CASE RowKept(a)
  BY <1>2, <1>3 DEF RowKept
<1>4. ASSUME NEW r \in Runners, PersistPreparedTarget(r), runner[r].a = a
      PROVE  TargetHeld(q)' /\ EvidenceHeld(q)'
  <2>1. CASE attempt' = attempt
    BY <1>2, <2>1
  <2>2. CASE attempt' # attempt
    <3>1. /\ attempt[a].state = "restoring_verification"
          /\ attempt'[a].generation = attempt[a].generation + 1
          /\ attempt'[a].target > attempt[a].target
      BY <1>4, <2>2, PersistedTarget
    <3>2. TargetHeld(q)'
      BY SMT, <1>0, <1>1, <3>1 DEF TargetHeld, StoreKept
    <3>3. EvidenceHeld(q)'
      BY <1>0, <3>1 DEF EvidenceHeld, StoreKept
    <3> QED
      BY <3>2, <3>3
  <2> QED
    BY <2>1, <2>2
<1> QED
  BY <1>0, <1>3, <1>4, RowsKept

(* What the database it verified says of the object: the target still       *)
(* exists, so it is the row's, and was populated from the object.           *)
LEMMA VerifiedDump ==
  ASSUME WellFormed, RestoreInvariant, NEW r \in Runners, runner[r].pc = "verify",
         RestoredVerification(runner[r].a, runner[r].target)
  PROVE  DumpIsGood(runner[r].a) /\ runner[r].target = attempt[runner[r].a].target
<1> DEFINE a == runner[r].a
<1>1. a \in Attempts /\ TargetHeld(r) /\ RowHeld(a)
  BY StepTypes DEF RestoreInvariant
<1>2. /\ attempt[a].target \in Nat /\ disposable.id \in Nat /\ attempt[a].generation \in Nat
      /\ runner[r].target \in Nat /\ runner[r].generation \in Nat
  BY <1>1, RestoreTypes
<1>3. runner[r].target = attempt[a].target
  BY <1>1, <1>2, SMT DEF RestoredVerification, TargetHeld, RowHeld, Restoring
<1>4. Holds(a, disposable.id)
  BY <1>3 DEF Holds, RestoredVerification
<1>5. disposable.dump = object[a].dump
  BY <1>1, <1>4 DEF RestoreInvariant, TargetsHeld, RestoredVerification
<1> QED
  BY <1>3, <1>5 DEF RestoredVerification, DumpIsGood

(* The calls outside the restore rely on nothing but the bounds. *)
LEMMA OutsideRestore ==
  ASSUME NEW r \in Runners,
         runner'[r].pc \notin Retained \cup {"check", "evidence"},
         runner'[r].generation <= attempt'[runner'[r].a].generation,
         runner'[r].target <= disposable'.id
  PROVE  TargetHeld(r)' /\ EvidenceHeld(r)'
BY DEF TargetHeld, EvidenceHeld, Retained, Restoring

(* An execution that knows the row's generation and target is within both. *)
LEMMA OnTarget ==
  ASSUME NEW r \in Runners, NEW a \in Attempts, runner'[r].a = a,
         runner'[r].pc \notin {"prepared", "importing", "import"},
         runner'[r].generation = attempt'[a].generation, attempt'[a].generation \in Nat,
         runner'[r].target = attempt'[a].target, attempt'[a].target <= disposable'.id
  PROVE  TargetHeld(r)'
BY SMT DEF TargetHeld

LEMMA MovingHeld ==
  ASSUME WellFormed, RestoreInvariant, NEW r \in Runners,
         BackupStep(r) \/ CallFails(r) \/ Crash(r)
  PROVE  runner'[r].pc # "idle" => TargetHeld(r)' /\ EvidenceHeld(r)'
<1> DEFINE a == runner[r].a
<1> DEFINE Goal == TargetHeld(r)' /\ EvidenceHeld(r)'
<1> USE DEF Restoring, Retained, Imported, Terminal
<1>0. /\ runner[r].pc # "idle" /\ a \in Attempts
      /\ Ended(r) \/ (runner'[r].a = a /\ runner'[r].mode = runner[r].mode)
  BY CallFrame
<1>1. Ended(r) => runner'[r].pc = "idle"
  BY IdleFields DEF Ended
<1>2. SUFFICES ASSUME ~Ended(r)
               PROVE  Goal
  BY <1>1
<1>3. runner'[r].a = a /\ TargetHeld(r) /\ EvidenceHeld(r) /\ RowHeld(a)
  BY <1>0, <1>2 DEF RestoreInvariant
<1>4. /\ attempt[a].target \in Nat /\ disposable.id \in Nat /\ attempt[a].generation \in Nat
      /\ runner[r].target \in Nat /\ runner[r].generation \in Nat
  BY <1>0, RestoreTypes
<1>5. [Next]_vars
  BY DEF Next
<1>6. StoreKept /\ disposable'.id >= disposable.id
      /\ (object[a].stored => object'[a].stored)
  BY <1>0, <1>5, StoreStep DEF StoreKept
<1>7. disposable'.id \in Nat
  BY <1>5, NextWellFormed DEF WellFormed, TypeOK
<1>8. /\ runner[r].generation <= attempt[a].generation /\ runner[r].target <= disposable'.id
      /\ attempt[a].target <= disposable'.id
  BY SMT, <1>3, <1>4, <1>6, <1>7 DEF TargetHeld, RowHeld
<1>9. CASE InsertPendingBackup(r)
  <2>1. ReadBack(r) /\ (attempt' = attempt \/ Inserted(a))
    BY <1>2, <1>9, InsertEffect
  <2>2. /\ runner'[r].pc = "check" /\ runner'[r].read = attempt'[a].state
        /\ runner'[r].generation = attempt'[a].generation
        /\ runner'[r].target = attempt'[a].target
    BY <2>1 DEF ReadBack
  <2>3. /\ attempt'[a].generation \in Nat /\ attempt'[a].target <= disposable'.id
        /\ attempt'[a].state \in {"restoring_verification", "verifying"} => object'[a].stored
    <3>1. CASE attempt' = attempt
      BY <1>3, <1>4, <1>6, <1>8, <3>1 DEF RowHeld
    <3>2. CASE Inserted(a)
      BY SMT, <1>7, <3>2 DEF Inserted
    <3> QED
      BY <2>1, <3>1, <3>2
  <2>4. TargetHeld(r)'
    BY <1>0, <1>3, <2>2, <2>3, OnTarget
  <2>5. EvidenceHeld(r)'
    BY <1>3, <2>2, <2>3 DEF EvidenceHeld
  <2> QED
    BY <2>4, <2>5
<1>10. CASE CheckOperationState(r)
  <2>1. /\ Moved(r, {"evidence"}) /\ attempt' = attempt /\ runner[r].pc = "check"
    BY <1>2, <1>10, CheckEffect DEF CheckOperationState
  <2> QED
    BY <1>3, <1>6, <1>8, <2>1 DEF Moved, TargetHeld, EvidenceHeld
<1>11. CASE CaptureVerificationEvidence(r)
  <2>1. /\ Moved(r, {ResumeAt[runner[r].read]}) /\ attempt' = attempt /\ runner[r].pc = "evidence"
    BY <1>2, <1>11, EvidenceEffect DEF CaptureVerificationEvidence
  <2>2. runner[r].read \in {"pending", "exporting", "restoring_verification", "verifying"}
    BY <2>1 DEF WellFormed, Busy
  <2>3. CASE runner[r].read \in {"pending", "exporting"}
    <3>1. runner'[r].pc \in {"begin", "object"}
      BY <2>1, <2>3, ResumePoints DEF Moved
    <3> QED
      BY <1>3, <1>8, <2>1, <3>1, OutsideRestore DEF Moved
  <2>4. CASE runner[r].read = "restoring_verification"
    <3>1. runner'[r].pc = "prepare" /\ object[a].stored
      BY <1>3, <2>1, <2>4, ResumePoints DEF Moved, EvidenceHeld
    <3> QED
      BY <1>3, <1>6, <1>8, <2>1, <3>1 DEF Moved, TargetHeld, EvidenceHeld
  <2>5. CASE runner[r].read = "verifying"
    <3>1. /\ runner'[r].pc = "verify" /\ object[a].stored /\ attempt[a].state \in Imported
          /\ runner[r].generation = attempt[a].generation /\ runner[r].target = attempt[a].target
      <4>1. runner'[r].pc = "verify"
        BY <2>1, <2>5, ResumePoints DEF Moved
      <4> QED
        BY <1>3, <2>1, <2>5, <4>1 DEF EvidenceHeld
    <3>2. runner'[r].generation = runner[r].generation /\ runner'[r].target = runner[r].target
      BY <2>1 DEF Moved
    <3>3. TargetHeld(r)'
      BY <1>0, <1>3, <1>4, <1>8, <2>1, <3>1, <3>2, OnTarget
    <3>4. EvidenceHeld(r)'
      BY <1>3, <1>6, <2>1, <3>1, <3>2 DEF EvidenceHeld
    <3> QED
      BY <3>3, <3>4
  <2> QED
    BY <2>2, <2>3, <2>4, <2>5
<1>12. CASE StartBackupExport(r)
  BY <1>2, <1>3, <1>8, <1>12, BeginEffect, OutsideRestore DEF Moved, RowTo
<1>13. CASE FindRetainedObject(r)
  <2>1. /\ attempt' = attempt /\ runner'[r].pc \in {"exported", "block"}
        /\ runner'[r].pc = "exported" => object[a].stored
        /\ runner'[r].generation = runner[r].generation /\ runner'[r].target = runner[r].target
    BY <1>13, FindEffect DEF Moved
  <2> QED
    BY <1>3, <1>6, <1>8, <2>1 DEF TargetHeld, EvidenceHeld
<1>14. CASE RaiseRestoreGuard(r) \/ RaiseHealthFence(r) \/ CaptureCompositionSnapshot(r)
            \/ AcquireSearchLease(r) \/ DropSearchIndex(r)
  <2>1. /\ attempt' = attempt
        /\ runner'[r].pc \in {"fence", "lease", "capture", "clear", "drop", "dump", "rebuild"}
        /\ runner'[r].generation = runner[r].generation /\ runner'[r].target = runner[r].target
    BY <1>2, <1>14, GuardEffect, FenceEffect, CaptureEffect, LeaseEffect, DropEffect DEF Moved
  <2> QED
    BY <1>3, <1>8, <2>1, OutsideRestore
<1>25. CASE ReleaseSearchLease(r) \/ ReconstructSearch(r) \/ ExportSql(r) \/ ClearRestoreGuard(r)
            \/ InspectSnapshotFence(r)
  <2>1. /\ attempt' = attempt
        /\ runner'[r].pc \in {"clear", "rebuild", "put", "fail", "lease"}
        /\ runner'[r].generation = runner[r].generation /\ runner'[r].target = runner[r].target
    BY <1>2, <1>25, LeavingEffect, ExportEffect, ClearEffect, InspectEffect DEF Moved
  <2> QED
    BY <1>3, <1>8, <2>1, OutsideRestore
<1>26. CASE CallFails(r)
  <2>1. /\ attempt' = attempt /\ runner'[r].pc \in {"clear", "rebuild", "release"}
        /\ runner'[r].generation = runner[r].generation /\ runner'[r].target = runner[r].target
    BY <1>2, <1>26, FaultEffect DEF Moved
  <2> QED
    BY <1>3, <1>8, <2>1, OutsideRestore
<1>15. CASE RetainObject(r)
  <2>1. /\ Moved(r, {"exported"}) /\ attempt' = attempt
        /\ object' = [object EXCEPT ![a] = [stored |-> TRUE, dump |-> runner[r].dump,
                                            snapshot |-> runner[r].snapshot]]
    BY <1>2, <1>15, RetainEffect
  <2>2. object'[a].stored
    BY <1>0, <2>1 DEF WellFormed, TypeOK
  <2> QED
    BY <1>3, <1>8, <2>1, <2>2 DEF Moved, TargetHeld, EvidenceHeld
<1>16. CASE TransitionExported(r)
  <2>1. /\ Moved(r, {"prepare"}) /\ RowTo(a, "restoring_verification") /\ object[a].stored
    BY <1>2, <1>3, <1>16, ExportedEffect DEF TransitionExported, EvidenceHeld
  <2> QED
    BY <1>3, <1>6, <1>8, <2>1 DEF Moved, RowTo, TargetHeld, EvidenceHeld
<1>17. CASE PrepareRestoreTarget(r)
  <2>1. /\ attempt' = attempt /\ runner'[r].pc = "prepared" /\ object[a].stored
        /\ runner'[r].generation = runner[r].generation /\ runner'[r].target = disposable.id + 1
        /\ disposable'.id = disposable.id + 1 /\ attempt[a].target <= disposable.id
    BY <1>3, <1>17, PrepareEffect DEF PrepareRestoreTarget, EvidenceHeld, RowHeld
  <2>4. runner'[r].target > attempt[a].target /\ runner'[r].target > 0 /\ runner'[r].target <= disposable'.id
    BY SMT, <1>4, <2>1
  <2>2. TargetHeld(r)'
    BY <1>3, <1>8, <2>1, <2>4 DEF TargetHeld
  <2>3. EvidenceHeld(r)'
    BY <1>3, <1>6, <2>1 DEF EvidenceHeld
  <2> QED
    BY <2>2, <2>3
<1>18. CASE PersistPreparedTarget(r)
  <2>1. /\ runner'[r].pc = "importing" /\ object[a].stored
        /\ runner'[r].generation = attempt'[a].generation
        /\ runner'[r].target = attempt'[a].target
        /\ attempt'[a].target = runner[r].target
        /\ attempt'[a].generation = attempt[a].generation + 1
        /\ runner[r].target > attempt[a].target
    <3>1. attempt' # attempt
      <4>0. /\ attempt'[a].generation = runner[r].generation + 1
            /\ attempt[a].generation = runner[r].generation
        BY <1>2, <1>18, PersistEffect
      <4>1. attempt'[a].generation = attempt[a].generation + 1
        BY <4>0
      <4> QED
        BY SMT, <1>4, <4>1
    <3> QED
      BY <1>18, <3>1, PersistedTarget
  <2>4. runner[r].target > 0 /\ attempt'[a].generation \in Nat /\ attempt'[a].generation <= attempt'[a].generation
        /\ ~(attempt'[a].generation < attempt'[a].generation)
    BY SMT, <1>4, <2>1
  <2>2. TargetHeld(r)'
    BY <1>3, <1>8, <2>1, <2>4 DEF TargetHeld
  <2>3. EvidenceHeld(r)'
    BY <1>3, <1>6, <2>1 DEF EvidenceHeld
  <2> QED
    BY <2>2, <2>3
<1>19. CASE TransitionImporting(r)
  <2>1. /\ Moved(r, {"import"}) /\ RowTo(a, "restoring_verification") /\ runner[r].pc = "importing"
    BY <1>2, <1>19, ImportingEffect DEF TransitionImporting
  <2> QED
    BY <1>3, <1>4, <1>6, <1>8, <2>1 DEF Moved, RowTo, TargetHeld, EvidenceHeld
<1>20. CASE RestoreSql(r)
  <2>1. Moved(r, {"imported"}) /\ attempt' = attempt /\ runner[r].pc = "import"
    BY <1>2, <1>20, RestoreEffect DEF RestoreSql
  <2> QED
    BY <1>3, <1>4, <1>6, <1>8, <2>1 DEF Moved, TargetHeld, EvidenceHeld
<1>21. CASE TransitionRestored(r)
  <2>1. Moved(r, {"verify"}) /\ RowTo(a, "verifying") /\ runner[r].pc = "imported"
    BY <1>2, <1>21, RestoredEffect DEF TransitionRestored
  <2> QED
    BY <1>3, <1>4, <1>6, <1>8, <2>1 DEF Moved, RowTo, TargetHeld, EvidenceHeld
<1>22. CASE ReconstructAndVerify(r)
  <2>1. /\ Moved(r, {"manifest"}) /\ attempt' = attempt /\ runner[r].pc = "verify"
        /\ RestoredVerification(a, runner[r].target) /\ object' = object
    BY <1>2, <1>22, VerifyEffect DEF ReconstructAndVerify, store
  <2>2. DumpIsGood(a)' /\ runner[r].target = attempt[a].target
    <3>1. DumpIsGood(a) /\ runner[r].target = attempt[a].target
      BY <2>1, VerifiedDump
    <3> QED
      BY <1>3, <2>1, <3>1 DEF DumpIsGood, Native
  <2> QED
    BY <1>3, <1>4, <1>6, <1>8, <2>1, <2>2 DEF Moved, TargetHeld, EvidenceHeld
<1>23. CASE RetainManifest(r)
  <2>1. /\ Moved(r, {"complete"}) /\ attempt' = attempt /\ runner[r].pc = "manifest"
        /\ object' = object /\ manifest[a] \in {0, runner[r].target}
        /\ manifest' = IF manifest[a] = 0 THEN [manifest EXCEPT ![a] = runner[r].target] ELSE manifest
    BY <1>2, <1>23, ManifestEffect DEF RetainManifest
  <2>2. manifest'[a] = runner[r].target
    BY <1>0, <2>1 DEF WellFormed, TypeOK
  <2>3. DumpIsGood(a)' /\ runner[r].target = attempt[a].target
    BY <1>3, <2>1 DEF DumpIsGood, Native, EvidenceHeld
  <2> QED
    BY <1>3, <1>4, <1>6, <1>8, <2>1, <2>2, <2>3 DEF Moved, TargetHeld, EvidenceHeld
<1>24. CASE CompleteBackup(r) \/ FailActiveAttempt(r) \/ Crash(r)
  BY <1>2, <1>24, CompleteEffect, FailEffect, CrashEffect
<1> HIDE DEF Goal
<1> QED
  BY <1>9, <1>10, <1>11, <1>12, <1>13, <1>14, <1>15, <1>16, <1>17, <1>18, <1>19, <1>20, <1>21,
     <1>22, <1>23, <1>24, <1>25, <1>26 DEF BackupStep

(* A target is held by an attempt that held it, or is a new one. *)
LEMMA HoldsStep ==
  ASSUME WellFormed, RestoreInvariant, [Next]_vars, NEW a \in Attempts, NEW t \in Nat \ {0}, Holds(a, t)'
  PROVE  \/ Holds(a, t)
         \/ \E r \in Runners : PrepareRestoreTarget(r) /\ runner[r].a = a /\ t = disposable.id + 1
<1>1. CASE attempt'[a].target = t
  <2>1. CASE RowKept(a)
    BY <1>1, <2>1 DEF RowKept, Holds
  <2>2. ASSUME NEW r \in Runners, PersistPreparedTarget(r), runner[r].a = a
        PROVE  Holds(a, t)
    <3>1. attempt'[a].target = attempt[a].target \/ attempt'[a].target = runner[r].target
      BY <2>2, PersistedTarget
    <3> QED
      BY <1>1, <2>2, <3>1 DEF Holds, PersistPreparedTarget
  <2> QED
    BY <2>1, <2>2, RowsKept
<1>2. CASE attempt'[a].target # t
  <2>1. PICK q \in Runners : runner'[q].pc # "idle" /\ runner'[q].a = a /\ runner'[q].target = t
    BY <1>2 DEF Holds
  <2>2. CASE runner'[q] = runner[q]
    BY <2>1, <2>2 DEF Holds
  <2>3. ASSUME NEW r \in Runners, NEW b \in Attempts, Started(r, b)
        PROVE  runner'[q] = runner[q]
    BY <2>1, <2>3 DEF Started, OnlyRunner
  <2>4. ASSUME BackupStep(q) \/ CallFails(q) \/ Crash(q), ~PrepareRestoreTarget(q)
        PROVE  Holds(a, t)
    <3>1. ~Ended(q) /\ runner[q].pc # "idle" /\ runner[q].a = a
      BY <2>1, <2>4, CallFrame, IdleFields DEF Ended
    <3>2. CASE runner'[q].target = runner[q].target
      BY <2>1, <3>1, <3>2 DEF Holds
    <3>3. CASE InsertPendingBackup(q)
      <4>1. runner'[q].target = attempt'[a].target
        BY <3>1, <3>3, InsertEffect DEF ReadBack
      <4> QED
        BY <1>2, <2>1, <4>1
    <3>4. CASE PersistPreparedTarget(q)
      BY <3>1, <3>2, <3>4, PersistEffect
    <3>5. CASE CheckOperationState(q) \/ CaptureVerificationEvidence(q) \/ StartBackupExport(q)
               \/ FindRetainedObject(q) \/ RaiseRestoreGuard(q) \/ RaiseHealthFence(q)
               \/ CaptureCompositionSnapshot(q) \/ AcquireSearchLease(q) \/ DropSearchIndex(q)
      BY <3>1, <3>2, <3>5, CheckEffect, EvidenceEffect, BeginEffect, FindEffect, GuardEffect,
         FenceEffect, CaptureEffect, LeaseEffect, DropEffect DEF Moved
    <3>6. CASE ReleaseSearchLease(q) \/ ReconstructSearch(q) \/ ExportSql(q) \/ ClearRestoreGuard(q)
               \/ RetainObject(q) \/ TransitionExported(q) \/ TransitionImporting(q)
               \/ InspectSnapshotFence(q)
      BY <3>1, <3>2, <3>6, LeavingEffect, ExportEffect, ClearEffect, RetainEffect, ExportedEffect,
         ImportingEffect, InspectEffect DEF Moved
    <3>7. CASE RestoreSql(q) \/ TransitionRestored(q) \/ ReconstructAndVerify(q)
               \/ RetainManifest(q) \/ CompleteBackup(q) \/ FailActiveAttempt(q)
               \/ CallFails(q) \/ Crash(q)
      BY <3>1, <3>2, <3>7, RestoreEffect, RestoredEffect, VerifyEffect, ManifestEffect,
         CompleteEffect, FailEffect, FaultEffect, CrashEffect DEF Moved
    <3> QED
      BY <2>4, <3>3, <3>4, <3>5, <3>6, <3>7 DEF BackupStep
  <2>5. CASE PrepareRestoreTarget(q)
    BY <2>1, <2>5, PrepareEffect
  <2>6. ASSUME NEW r \in Runners, r # q, BackupStep(r) \/ CallFails(r) \/ Crash(r)
        PROVE  runner'[q] = runner[q]
    BY <2>6, CallFrame DEF OnlyRunner
  <2>7. ASSUME \/ CatalogueWrite \/ ClaimIngestion \/ FinishIngestion \/ SearchLeaseExpires
               \/ BeginRecovery \/ AcceptRecovery \/ AdministrationRequest
               \/ \E b \in Attempts, v \in 1..MaxRevision : AcceptPublication(b, v)
               \/ \E b \in Attempts :
                    \/ \E linked \in Attempts \cup {None} : StartCatalogueBackup(b, linked)
                    \/ DispatchBackup(b) \/ StepTimesOut(b)
               \/ UNCHANGED vars
        PROVE  runner' = runner
    BY <2>7 DEF CatalogueWrite, ClaimIngestion, FinishIngestion, BeginRecovery,
       AcceptRecovery, AdministrationRequest, SearchLeaseExpires, AcceptPublication, backupVars,
       StartCatalogueBackup, DispatchBackup, StepTimesOut, vars
  <2>8. CASE \E r \in Runners : BackupStep(r) \/ CallFails(r) \/ Crash(r)
    BY <2>2, <2>4, <2>5, <2>6, <2>8
  <2>9. CASE \E b \in Attempts, r \in Runners : StartTry(r, b) \/ ObserveErroredWorkflow(r, b)
    BY <2>2, <2>3, <2>9, StartEffect, ObserveEffect
  <2> QED
    BY <2>2, <2>7, <2>8, <2>9, StepCases
<1> QED
  BY <1>1, <1>2

LEMMA DisposableStep ==
  ASSUME [Next]_vars
  PROVE  \/ disposable' = disposable
         \/ \E r \in Runners : PrepareRestoreTarget(r) \/ RestoreSql(r)
<1>1. CASE \/ CatalogueWrite \/ ClaimIngestion \/ FinishIngestion \/ SearchLeaseExpires
           \/ BeginRecovery \/ AcceptRecovery \/ AdministrationRequest
           \/ \E a \in Attempts, v \in 1..MaxRevision : AcceptPublication(a, v)
           \/ \E a \in Attempts :
                \/ \E linked \in Attempts \cup {None} : StartCatalogueBackup(a, linked)
                \/ DispatchBackup(a) \/ StepTimesOut(a)
                \/ \E r \in Runners : StartTry(r, a) \/ ObserveErroredWorkflow(r, a)
           \/ UNCHANGED vars
           \/ \E r \in Runners : CallFails(r) \/ Crash(r)
  BY <1>1 DEF CatalogueWrite, ClaimIngestion, FinishIngestion, BeginRecovery,
     AcceptRecovery, AdministrationRequest, AcceptPublication, SearchLeaseExpires, backupVars,
     vars, StartCatalogueBackup, DispatchBackup, StepTimesOut, StartTry, ObserveErroredWorkflow,
     CallFails, Crash, store
<1>2. ASSUME NEW r \in Runners, BackupStep(r)
      PROVE  disposable' = disposable \/ PrepareRestoreTarget(r) \/ RestoreSql(r)
  BY <1>2 DEF BackupStep, InsertPendingBackup, CheckOperationState,
     CaptureVerificationEvidence, StartBackupExport, FindRetainedObject, RaiseRestoreGuard,
     RaiseHealthFence, CaptureCompositionSnapshot, AcquireSearchLease, DropSearchIndex,
     ReleaseSearchLease, ExportSql, ReconstructSearch, ClearRestoreGuard, RetainObject,
     TransitionExported, PersistPreparedTarget, TransitionImporting, TransitionRestored,
     ReconstructAndVerify, RetainManifest, CompleteBackup, InspectSnapshotFence, FailActiveAttempt,
     Advance, store
<1> QED
  BY <1>1, <1>2, StepCases

LEMMA TargetsStep ==
  ASSUME WellFormed, RestoreInvariant, [Next]_vars
  PROVE  TargetsHeld'
<1>0. disposable \in [id : Nat, dump : Dumps, populated : BOOLEAN] /\ TargetsHeld /\ StoreKept
  BY StoreStep DEF WellFormed, TypeOK, RestoreInvariant
<1>1. ASSUME NEW a \in Attempts, Holds(a, disposable.id + 1)
      PROVE  FALSE
  <2>1. attempt[a].target <= disposable.id /\ attempt[a].target \in Nat
    BY DEF RestoreInvariant, RowHeld, WellFormed, TypeOK, AttemptRows
  <2>2. \A q \in Runners : runner[q].target \in Nat /\ (runner[q].pc # "idle" => runner[q].target <= disposable.id)
    BY DEF RestoreInvariant, TargetHeld, WellFormed, TypeOK, Executions
  <2> QED
    BY SMT, <1>0, <1>1, <2>1, <2>2 DEF Holds
<1>2. ASSUME NEW r \in Runners, PrepareRestoreTarget(r), NEW q \in Runners, PrepareRestoreTarget(q)
      PROVE  q = r
  BY <1>2, PrepareEffect DEF OnlyRunner, PrepareRestoreTarget
<1>3. ASSUME NEW a \in Attempts, NEW b \in Attempts, NEW t \in Nat, t > 0, Holds(a, t)', Holds(b, t)'
      PROVE  a = b
  <2>1. t \in Nat \ {0}
    BY <1>3, SMT
  <2>2. CASE Holds(a, t) /\ Holds(b, t)
    BY <1>0, <1>3, <2>2 DEF TargetsHeld
  <2>3. CASE t = disposable.id + 1
    <3>1. ~Holds(a, t) /\ ~Holds(b, t)
      BY <1>1, <2>3
    <3>2. PICK r \in Runners : PrepareRestoreTarget(r) /\ runner[r].a = a
      BY <1>3, <2>1, <3>1, HoldsStep
    <3>3. PICK q \in Runners : PrepareRestoreTarget(q) /\ runner[q].a = b
      BY <1>3, <2>1, <3>1, HoldsStep
    <3> QED
      BY <1>2, <3>2, <3>3
  <2> QED
    BY <1>3, <2>1, <2>2, <2>3, HoldsStep
<1>4. ASSUME disposable'.populated
      PROVE  /\ disposable'.id > 0
             /\ \A a \in Attempts : Holds(a, disposable.id)' =>
                  object'[a].stored /\ disposable'.dump = object'[a].dump
  <2>1. ASSUME NEW r \in Runners, PrepareRestoreTarget(r)
        PROVE  FALSE
    BY <1>4, <2>1 DEF PrepareRestoreTarget
  <2>2. ASSUME NEW a \in Attempts, NEW t \in Nat \ {0}, Holds(a, t)'
        PROVE  Holds(a, t)
    BY <2>1, <2>2, HoldsStep
  <2>3. ASSUME disposable'.id = disposable.id, disposable.id > 0, NEW a \in Attempts,
               Holds(a, disposable.id)'
        PROVE  Holds(a, disposable.id)
    <3>1. PICK t \in Nat \ {0} : t = disposable.id /\ disposable'.id = t
      BY <1>0, <2>3, SMT
    <3>2. Holds(a, t)'
      BY <2>3, <3>1 DEF Holds
    <3> QED
      BY <2>2, <3>1, <3>2
  <2>4. CASE disposable' = disposable
    <3>1. disposable.id > 0
      BY <1>0, <1>4, <2>4 DEF TargetsHeld
    <3>2. ASSUME NEW a \in Attempts, Holds(a, disposable.id)'
          PROVE  object'[a].stored /\ disposable'.dump = object'[a].dump
      <4>1. Holds(a, disposable.id)
        BY <2>3, <2>4, <3>1, <3>2
      <4> QED
        BY <1>0, <1>4, <2>4, <4>1 DEF TargetsHeld, StoreKept
    <3> QED
      BY <2>4, <3>1, <3>2
  <2>5. ASSUME NEW r \in Runners, RestoreSql(r), disposable' # disposable
        PROVE  /\ disposable'.id > 0
               /\ \A a \in Attempts : Holds(a, disposable.id)' =>
                    object'[a].stored /\ disposable'.dump = object'[a].dump
    <3>1. /\ disposable'.id = disposable.id /\ disposable.id = runner[r].target
          /\ disposable'.dump = object[runner[r].a].dump /\ object' = object
          /\ runner[r].pc = "import" /\ runner[r].a \in Attempts
      BY <1>0, <2>5, StepTypes DEF RestoreSql
    <3>2. object[runner[r].a].stored /\ disposable.id > 0
      BY <3>1 DEF RestoreInvariant, TargetHeld, EvidenceHeld, Retained, Restoring
    <3>3. Holds(runner[r].a, disposable.id)
      BY <3>1 DEF Holds
    <3>4. ASSUME NEW a \in Attempts, Holds(a, disposable.id)'
          PROVE  object'[a].stored /\ disposable'.dump = object'[a].dump
      <4>1. Holds(a, disposable.id)
        BY <2>3, <3>1, <3>2, <3>4
      <4>2. a = runner[r].a
        BY <1>0, <3>1, <3>2, <3>3, <4>1 DEF TargetsHeld
      <4> QED
        BY <3>1, <3>2, <4>2
    <3> QED
      BY <3>1, <3>2, <3>4
  <2> QED
    BY <2>1, <2>4, <2>5, DisposableStep
<1> QED
  BY <1>3, <1>4 DEF TargetsHeld

LEMMA RestoreInit == BackupInit => RestoreInvariant
<1> SUFFICES ASSUME BackupInit
             PROVE  RestoreInvariant
  OBVIOUS
<1>1. \A a \in Attempts : attempt[a].state = "absent" /\ attempt[a].target = 0
  BY NoAttemptFields DEF BackupInit
<1>2. \A r \in Runners : runner[r].pc = "idle"
  BY IdleFields DEF BackupInit
<1>3. disposable.id = 0 /\ disposable.populated = FALSE
  BY DEF BackupInit
<1>4. \A a \in Attempts : RowHeld(a)
  BY SMT, <1>1, <1>3 DEF RowHeld
<1>5. TargetsHeld
  BY SMT, <1>1, <1>2, <1>3 DEF TargetsHeld, Holds
<1> QED
  BY <1>2, <1>4, <1>5 DEF RestoreInvariant

LEMMA RestoreStep ==
  ASSUME WellFormed, RestoreInvariant, [Next]_vars
  PROVE  RestoreInvariant'
<1>1. ASSUME NEW q \in Runners, runner'[q].pc # "idle"
      PROVE  TargetHeld(q)' /\ EvidenceHeld(q)'
  <2>1. CASE runner'[q] = runner[q]
    BY <1>1, <2>1, StandingHeld
  <2>2. CASE BackupStep(q) \/ CallFails(q) \/ Crash(q)
    BY <1>1, <2>2, MovingHeld
  <2>3. ASSUME NEW b \in Attempts, Started(q, b)
        PROVE  TargetHeld(q)' /\ EvidenceHeld(q)'
    <3>1. /\ runner'[q].pc \notin Retained \cup {"check", "evidence"}
          /\ runner'[q].generation = 0 /\ runner'[q].target = 0 /\ runner'[q].a = b
      BY <2>3 DEF Started, Retained, Restoring
    <3>2. attempt'[b].generation \in Nat /\ disposable'.id \in Nat
      BY NextWellFormed, RestoreTypes DEF WellFormed, TypeOK, AttemptRows
    <3> QED
      BY <3>1, <3>2, OutsideRestore, SMT
  <2>4. ASSUME NEW r \in Runners, r # q,
               \/ BackupStep(r) \/ CallFails(r) \/ Crash(r)
               \/ \E b \in Attempts : Started(r, b)
        PROVE  runner'[q] = runner[q]
    BY <2>4, CallFrame DEF OnlyRunner, Started
  <2>5. CASE \/ CatalogueWrite \/ ClaimIngestion \/ FinishIngestion \/ SearchLeaseExpires
             \/ BeginRecovery \/ AcceptRecovery \/ AdministrationRequest
             \/ \E b \in Attempts, v \in 1..MaxRevision : AcceptPublication(b, v)
             \/ \E b \in Attempts :
                  \/ \E linked \in Attempts \cup {None} : StartCatalogueBackup(b, linked)
                  \/ DispatchBackup(b) \/ StepTimesOut(b)
             \/ UNCHANGED vars
    <3>1. runner' = runner
      BY <2>5 DEF CatalogueWrite, ClaimIngestion, FinishIngestion, BeginRecovery,
         AcceptRecovery, AdministrationRequest, SearchLeaseExpires, AcceptPublication, backupVars,
         StartCatalogueBackup, DispatchBackup, StepTimesOut, vars
    <3> QED
      BY <2>1, <3>1
  <2>6. CASE \E r \in Runners : BackupStep(r) \/ CallFails(r) \/ Crash(r)
    BY <2>1, <2>2, <2>4, <2>6
  <2>7. CASE \E b \in Attempts, r \in Runners : StartTry(r, b) \/ ObserveErroredWorkflow(r, b)
    <3>1. PICK b \in Attempts, r \in Runners : Started(r, b)
      BY <2>7, StartEffect, ObserveEffect
    <3> QED
      BY <2>1, <2>3, <2>4, <3>1
  <2> QED
    BY <2>5, <2>6, <2>7, StepCases
<1> QED
  BY <1>1, RowHeldStep, TargetsStep DEF RestoreInvariant

(* However executions overlap, fail and repeat, a backup that completed as  *)
(* verified kept the dump its restore proved, and the manifest names the    *)
(* target of that restore.                                                  *)
THEOREM VerifiedIsRestorable == Spec => []VerifiedBackupIsRestorable
<1>1. RestoreInvariant => VerifiedBackupIsRestorable
  BY DEF RestoreInvariant, RowHeld, DumpIsGood, VerifiedBackupIsRestorable
<1>2. BackupInit => RestoreInvariant
  BY RestoreInit
<1>3. WellFormed /\ RestoreInvariant /\ [Next]_vars => RestoreInvariant'
  BY RestoreStep
<1> QED
  BY <1>1, <1>2, <1>3, SpecWellFormed, PTL DEF Spec
=============================================================================
