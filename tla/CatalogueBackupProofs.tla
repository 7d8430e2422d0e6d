------------------------ MODULE CatalogueBackupProofs ------------------------
(***************************************************************************)
(* Proofs about CatalogueBackup, for any attempts, executions, tries and   *)
(* plans, whatever crashes, fails or overlaps.                             *)
(***************************************************************************)
EXTENDS CatalogueBackupSteps

(* Most steps are first-order: Zenon proves them unless they name SMT. *)
USE ZenonT(30)

(* The fences.  A clean-up that has found a fenced snapshot is a            *)
(* publication's: *)
Cleaning == {"lease", "drop", "release", "rebuild", "clear"}
CleanupIsNative ==
  \A r \in Runners :
    runner[r].pc \in Cleaning /\ runner[r].mode # "backup" => Native(runner[r].a)

(* Only a publication makes a revision, so a backup of revision 0 belongs   *)
(* to none, and one of a later revision to one.                             *)
NativeFromPublication ==
  /\ catalogue.revision > 0 => catalogue.acceptance # None
  /\ \A a \in Attempts :
       /\ Native(a) => catalogue.revision > 0
       /\ attempt[a].state # "absent" /\ ~Native(a) => attempt[a].revision = 0

(* What keeps the fences.  At revision 0 no publication's clean-up can open *)
(* the health fence under a backup that closed it.                          *)
FencesHeld ==
  /\ active_recovery => recovery_health = "blocked" /\ recovery_restore_guard = "blocked"
  /\ \A a \in Attempts : attempt[a].state \in Busy =>
       /\ \A b \in Attempts : attempt[b].state \in Busy => b = a
       /\ ~active_recovery
       /\ ~Native(a) /\ attempt[a].revision = catalogue.revision
            => recovery_health = "blocked" /\ ~catalogue.ingesting

FenceInvariant == CleanupIsNative /\ NativeFromPublication /\ FencesHeld

LEMMA NativeKept ==
  ASSUME WellFormed, [Next]_vars, NEW a \in Attempts, Native(a)
  PROVE  Native(a)'
BY OperationKept, NoAttemptFields DEF Native, WellFormed

(* An execution cleans up after it has found a fenced snapshot. *)
LEMMA CleanupCalls ==
  ASSUME WellFormed, [Next]_vars, NEW r \in Runners,
         runner'[r].pc \in Cleaning, runner'[r].mode # "backup"
  PROVE  /\ runner'[r].a = runner[r].a
         /\ \/ runner[r].pc \in Cleaning /\ runner[r].mode # "backup"
            \/ Native(runner[r].a)
<1> DEFINE Goal == /\ runner'[r].a = runner[r].a
                   /\ \/ runner[r].pc \in Cleaning /\ runner[r].mode # "backup"
                      \/ Native(runner[r].a)
<1>1. CASE runner' = runner
  BY <1>1
<1>2. ASSUME NEW q \in Runners, Ended(q)
      PROVE  Goal
  BY <1>2, IdleFields DEF Ended, OnlyRunner, Cleaning
<1>3. ASSUME NEW q \in Runners, NEW a \in Attempts, Started(q, a)
      PROVE  Goal
  BY <1>3 DEF Started, OnlyRunner, Cleaning
<1>4. ASSUME NEW q \in Runners, NEW pcs, Moved(q, pcs),
             \/ pcs \cap Cleaning = {} \/ runner[q].pc \in Cleaning \/ runner[q].mode = "backup"
      PROVE  Goal
  BY <1>4 DEF Moved, OnlyRunner, Cleaning
<1>5. ASSUME NEW q \in Runners, ReadBack(q)
      PROVE  Goal
  BY <1>5 DEF ReadBack, OnlyRunner, Cleaning
<1>6. CASE CatalogueWrite \/ ClaimIngestion \/ FinishIngestion \/ SearchLeaseExpires
           \/ BeginRecovery \/ AcceptRecovery \/ AdministrationRequest
           \/ \E a \in Attempts, v \in 1..MaxRevision : AcceptPublication(a, v)
  BY <1>1, <1>6 DEF CatalogueWrite, ClaimIngestion, FinishIngestion, BeginRecovery,
     AcceptRecovery, AdministrationRequest, SearchLeaseExpires, AcceptPublication, backupVars
<1>7. CASE \E a \in Attempts :
             \/ \E linked \in Attempts \cup {None} : StartCatalogueBackup(a, linked)
             \/ DispatchBackup(a) \/ StepTimesOut(a)
  BY <1>1, <1>7 DEF StartCatalogueBackup, DispatchBackup, StepTimesOut
<1>8. CASE \E a \in Attempts, q \in Runners : StartTry(q, a) \/ ObserveErroredWorkflow(q, a)
  BY <1>3, <1>8, StartEffect, ObserveEffect
<1>9. ASSUME NEW q \in Runners, BackupStep(q) \/ CallFails(q) \/ Crash(q)
      PROVE  Goal
  <2>1. CASE InsertPendingBackup(q)
    BY <1>2, <1>5, <2>1, InsertEffect
  <2>2. CASE CheckOperationState(q)
    BY <1>2, <1>4, <2>2, CheckEffect DEF Cleaning
  <2>3. CASE CaptureVerificationEvidence(q)
    <3>1. runner[q].mode = "backup"
      BY <2>3 DEF WellFormed, CaptureVerificationEvidence, BackupCalls, Calls
    <3> QED
      BY <1>2, <1>4, <2>3, <3>1, EvidenceEffect
  <2>4. CASE StartBackupExport(q) \/ FindRetainedObject(q) \/ RetainObject(q) \/ TransitionExported(q)
    BY <1>2, <1>4, <2>4, BeginEffect, FindEffect, RetainEffect, ExportedEffect DEF Cleaning
  <2>5. CASE RaiseRestoreGuard(q) \/ RaiseHealthFence(q) \/ CaptureCompositionSnapshot(q)
             \/ ExportSql(q)
    <3>1. runner[q].mode = "backup"
      BY <2>5 DEF WellFormed, RaiseRestoreGuard, RaiseHealthFence, CaptureCompositionSnapshot,
         ExportSql, BackupCalls, Calls
    <3> QED
      BY <1>4, <2>5, <3>1, GuardEffect, FenceEffect, CaptureEffect, ExportEffect
  <2>6. CASE AcquireSearchLease(q) \/ DropSearchIndex(q) \/ ReleaseSearchLease(q)
             \/ ReconstructSearch(q) \/ ClearRestoreGuard(q)
    <3>1. runner[q].pc \in Cleaning
      BY <2>6 DEF AcquireSearchLease, DropSearchIndex, ReleaseSearchLease, ReconstructSearch,
         ClearRestoreGuard, Cleaning
    <3> QED
      BY <1>2, <1>4, <2>6, <3>1, LeaseEffect, DropEffect, LeavingEffect, ClearEffect
  <2>7. CASE PersistPreparedTarget(q) \/ PrepareRestoreTarget(q)
    BY <1>2, <2>7, PersistEffect, PrepareEffect DEF OnlyRunner, Cleaning
  <2>8. CASE TransitionImporting(q) \/ RestoreSql(q) \/ TransitionRestored(q)
             \/ ReconstructAndVerify(q) \/ RetainManifest(q)
    BY <1>2, <1>4, <2>8, ImportingEffect, RestoreEffect, RestoredEffect, VerifyEffect,
       ManifestEffect DEF Cleaning
  <2>9. CASE CompleteBackup(q) \/ FailActiveAttempt(q) \/ Crash(q)
    BY <1>2, <2>9, CompleteEffect, FailEffect, CrashEffect
  <2>10. CASE InspectSnapshotFence(q)
    <3>1. CASE ~SnapshotLeftFenced(runner[q].a)
      BY <1>4, <2>10, <3>1, InspectEffect DEF Cleaning
    <3>2. CASE SnapshotLeftFenced(runner[q].a)
      BY <2>10, <3>2, InspectEffect DEF Moved, OnlyRunner, SnapshotLeftFenced
    <3> QED
      BY <3>1, <3>2
  <2>11. CASE CallFails(q)
    <3>3. runner[q].pc \in {"fence", "capture", "dump"} => runner[q].mode = "backup"
      BY DEF WellFormed, BackupCalls, Calls
    <3>1. \/ Ended(q)
          \/ Moved(q, {"clear"}) /\ (runner[q].pc \in Cleaning \/ runner[q].mode = "backup")
          \/ Moved(q, {"rebuild"}) /\ runner[q].mode = "backup"
          \/ Moved(q, {"release"}) /\ runner[q].pc \in Cleaning
      BY <2>11, <3>3, FaultEffect DEF Cleaning
    <3>2. \A pcs \in {{"clear"}, {"rebuild"}, {"release"}} :
            Moved(q, pcs) /\ (runner[q].pc \in Cleaning \/ runner[q].mode = "backup") => Goal
      BY <1>4
    <3> HIDE DEF Goal
    <3> QED
      BY <1>2, <3>1, <3>2
  <2> QED
    BY <1>9, <2>1, <2>2, <2>3, <2>4, <2>5, <2>6, <2>7, <2>8, <2>9, <2>10, <2>11 DEF BackupStep
<1> QED
  BY <1>1, <1>6, <1>7, <1>8, <1>9, StepCases DEF vars, backupVars

LEMMA CleanupStep ==
  ASSUME WellFormed, CleanupIsNative, [Next]_vars
  PROVE  CleanupIsNative'
<1> SUFFICES ASSUME NEW r \in Runners, runner'[r].pc \in Cleaning, runner'[r].mode # "backup"
             PROVE  attempt'[runner'[r].a].operation # None
  BY DEF CleanupIsNative, Native
<1>1. runner'[r].a = runner[r].a /\ Native(runner[r].a)
  BY CleanupCalls DEF CleanupIsNative
<1>2. runner[r].a \in Attempts
  <2>1. WellFormed'
    BY NextWellFormed
  <2> QED
    BY <1>1, <2>1 DEF WellFormed, TypeOK, Cleaning
<1> QED
  BY <1>1, <1>2, NativeKept DEF Native

LEMMA NativeStep ==
  ASSUME WellFormed, NativeFromPublication, [Next]_vars
  PROVE  NativeFromPublication'
<1>1. catalogue.revision \in Nat
  BY BackupAssumption, SMT DEF WellFormed, TypeOK
<1>2. catalogue'.revision >= catalogue.revision /\ catalogue'.revision \in Nat
  <2>1. catalogue'.revision \in Nat
    BY NextWellFormed, BackupAssumption, SMT DEF WellFormed, TypeOK
  <2>2. catalogue'.revision = catalogue.revision \/ catalogue'.revision >= catalogue.revision
    BY StepKinds DEF KeepStep, GuardStep, RowStep, AcceptStep, CreateStep, BeginStep,
       AdvanceStep, FailStep, CompleteStep, SameCatalogue
  <2> QED
    BY SMT, <1>1, <2>1, <2>2
<1>3. (catalogue.revision > 0 => catalogue.acceptance # None)'
  BY StepKinds, BackupAssumption DEF NativeFromPublication, KeepStep, GuardStep, RowStep, AcceptStep,
     CreateStep, BeginStep, AdvanceStep, FailStep, CompleteStep, SameCatalogue
<1>4. ASSUME NEW a \in Attempts
      PROVE  /\ attempt'[a].operation # None => catalogue'.revision > 0
             /\ attempt'[a].state # "absent" /\ attempt'[a].operation = None
                  => attempt'[a].revision = 0
  <2>1. CASE attempt[a].state # "absent"
    BY <1>1, <1>2, <2>1, OperationKept, SMT DEF NativeFromPublication, Native
  <2>2. CASE attempt[a].state = "absent" /\ attempt'[a] = attempt[a]
    BY <2>2, NoAttemptFields DEF WellFormed
  <2>3. CASE AcceptStep(a)
    BY <2>3, BackupAssumption DEF AcceptStep
  <2>4. CASE CreateStep(a)
    <3>1. request[a].linked \in Attempts \cup {None} /\ request[a].revision \in Nat
      BY BackupAssumption, SMT DEF WellFormed, TypeOK, RequestRows
    <3>2. CASE request[a].linked = None
      BY SMT, <1>1, <2>4, <3>1, <3>2 DEF CreateStep, Inserted, IntendedOperation, SameCatalogue,
         NativeFromPublication
    <3>3. CASE request[a].linked # None
      <4> DEFINE l == request[a].linked
      <4>1. /\ l \in Attempts /\ attempt[l].state = "failed"
            /\ attempt[l].revision = request[a].revision
        BY <2>4, <3>1, <3>3 DEF CreateStep, Inserted, RetryEvidenceValid
      <4>2. attempt'[a].operation = attempt[l].operation /\ attempt'[a].revision = attempt[l].revision
        BY <2>4, <3>3, <4>1 DEF CreateStep, Inserted, IntendedOperation
      <4> QED
        BY <1>1, <1>2, <4>1, <4>2, SMT DEF NativeFromPublication, Native
    <3> QED
      BY <3>2, <3>3
  <2>5. ASSUME NEW b \in Attempts, RowStep(b), attempt[a].state = "absent"
        PROVE  attempt'[a] = attempt[a] \/ AcceptStep(a) \/ CreateStep(a)
               \/ (attempt'[a].operation = attempt[a].operation
                   /\ attempt'[a].revision = attempt[a].revision)
    BY <2>5 DEF RowStep, AcceptStep, CreateStep, BeginStep, AdvanceStep, FailStep, CompleteStep,
       Inserted, RowTo, OnlyRow
  <2>6. attempt[a].state = "absent" => attempt[a].revision = 0 /\ attempt[a].operation = None
    BY NoAttemptFields, SMT DEF WellFormed, NoAttempt
  <2> QED
    BY <2>1, <2>2, <2>3, <2>4, <2>5, <2>6, StepKinds DEF KeepStep, GuardStep
<1> QED
  BY <1>3, <1>4 DEF NativeFromPublication, Native

LEMMA FencesStep ==
  ASSUME WellFormed, FenceInvariant, [Next]_vars
  PROVE  FencesHeld'
<1> USE BusyStates DEF FenceInvariant
<1>1. (active_recovery => recovery_health = "blocked" /\ recovery_restore_guard = "blocked")'
  BY StepKinds DEF FencesHeld, KeepStep, GuardStep, RowStep, AcceptStep, CreateStep, BeginStep,
     AdvanceStep, FailStep, CompleteStep, operationStateVars, BlockBackupRestore,
     FenceCompositionSnapshot, EnforceRecoveryRestoreGuard, ClearBackupRestore,
     ReserveRecoveryOperation, ReleaseAcceptedRecovery, ReserveBackupOperation,
     DegradeActiveBackupState, RestoreHealthyBackupState
<1>2. ASSUME NEW a \in Attempts, attempt'[a].state \in Busy
      PROVE  /\ attempt[a].state \in Busy \/ BeginStep(a)
             /\ attempt'[a].operation = attempt[a].operation
             /\ attempt'[a].revision = attempt[a].revision
  BY <1>2, StepKinds DEF KeepStep, GuardStep, RowStep, AcceptStep, CreateStep, BeginStep,
     AdvanceStep, FailStep, CompleteStep, RowTo, OnlyRow, Inserted, PendingBackupStartable
<1>3. ASSUME NEW a \in Attempts, attempt'[a].state \in Busy,
             NEW b \in Attempts, attempt'[b].state \in Busy
      PROVE  b = a
  BY <1>2, <1>3 DEF FencesHeld, BeginStep, PendingBackupStartable, RowTo, OnlyRow
<1>4. ASSUME NEW a \in Attempts, attempt'[a].state \in Busy
      PROVE  active_recovery' = FALSE
  <2>1. CASE BeginStep(a)
    BY <2>1 DEF BeginStep, PendingBackupStartable, operationStateVars, ReserveBackupOperation,
       FencesHeld, WellFormed, TypeOK, OperationStateTypeOK
  <2>2. CASE attempt[a].state \in Busy
    <3>1. active_recovery = FALSE
      BY <2>2 DEF FencesHeld, WellFormed, TypeOK, OperationStateTypeOK
    <3>2. active_recovery' = active_recovery \/ ~\E b \in Attempts : attempt[b].state \in Busy
      BY <3>1, StepKinds DEF KeepStep, GuardStep, RowStep, AcceptStep, CreateStep,
         BeginStep, AdvanceStep, FailStep, CompleteStep, operationStateVars, BlockBackupRestore,
         FenceCompositionSnapshot, EnforceRecoveryRestoreGuard, ClearBackupRestore,
         ReserveRecoveryOperation, ReleaseAcceptedRecovery, ReserveBackupOperation,
         DegradeActiveBackupState, RestoreHealthyBackupState
    <3> QED
      BY <2>2, <3>1, <3>2
  <2> QED
    BY <1>2, <1>4, <2>1, <2>2
<1>5. ASSUME NEW a \in Attempts, attempt'[a].state \in Busy, attempt'[a].operation = None,
             attempt'[a].revision = catalogue'.revision
      PROVE  recovery_health' = "blocked" /\ ~catalogue'.ingesting
  <2>1. ~Native(a) /\ attempt[a].revision = 0 /\ catalogue'.revision = 0
    <3>1. attempt[a].state # "absent" /\ ~Native(a)
      BY <1>2, <1>5 DEF Native, BeginStep, PendingBackupStartable
    <3> QED
      BY <1>2, <1>5, <3>1 DEF NativeFromPublication
  <2>2. catalogue'.revision = catalogue.revision
    <3>1. catalogue'.revision = catalogue.revision \/ catalogue'.revision > 0
      BY StepKinds DEF KeepStep, GuardStep, RowStep, AcceptStep, CreateStep, BeginStep,
         AdvanceStep, FailStep, CompleteStep, SameCatalogue
    <3> QED
      BY <2>1, <3>1, SMT
  <2>3. CASE BeginStep(a)
    BY <2>1, <2>3 DEF BeginStep, PendingBackupStartable, ReserveBackupOperation, SameCatalogue
  <2>4. CASE attempt[a].state \in Busy
    <3>1. recovery_health = "blocked" /\ ~catalogue.ingesting /\ ~active_recovery
      BY <2>1, <2>2, <2>4 DEF FencesHeld
    <3>2. \A b \in Attempts : ~Native(b)
      BY <2>1, <2>2, SMT DEF NativeFromPublication
    <3>3. CASE KeepStep
      BY <3>1, <3>3 DEF KeepStep, operationStateVars
    <3>4. CASE GuardStep
      <4>1. ASSUME NEW r \in Runners, runner[r].pc = "clear"
            PROVE  ~(runner[r].mode # "backup" \/ Native(runner[r].a))
        BY <3>2, <4>1 DEF CleanupIsNative, Cleaning, WellFormed, TypeOK
      <4>2. ASSUME NEW r \in Runners, runner[r].pc = "clear",
                   ClearBackupRestore(runner[r].mode # "backup" \/ Native(runner[r].a))
            PROVE  recovery_health' = recovery_health
        BY <4>1, <4>2 DEF ClearBackupRestore
      <4> QED
        BY <2>4, <3>1, <3>4, <4>2 DEF GuardStep, SameCatalogue, BlockBackupRestore,
           FenceCompositionSnapshot, EnforceRecoveryRestoreGuard, ReleaseAcceptedRecovery
    <3>5. ASSUME NEW b \in Attempts, RowStep(b)
          PROVE  recovery_health' = "blocked" /\ ~catalogue'.ingesting
      <4>1. CASE b = a
        BY <1>5, <2>4, <3>1, <3>5, <4>1 DEF RowStep, AcceptStep, CreateStep, BeginStep, AdvanceStep,
           FailStep, CompleteStep, SameCatalogue, operationStateVars, Inserted,
           PendingBackupStartable, RowTo, RecoveryVerified, Healthy
      <4>2. CASE b # a
        <5>1. attempt[b].state \notin Busy
          BY <2>4, <4>2 DEF FencesHeld
        <5> QED
          BY <3>1, <3>5, <5>1, <2>4 DEF RowStep, AcceptStep, CreateStep, BeginStep, AdvanceStep,
             FailStep, CompleteStep, SameCatalogue, operationStateVars, Inserted,
             PendingBackupStartable, RowTo, RecoveryVerified, Healthy
      <4> QED
        BY <4>1, <4>2
    <3> QED
      BY <3>3, <3>4, <3>5, StepKinds
  <2> QED
    BY <1>2, <1>5, <2>3, <2>4
<1> QED
  BY <1>1, <1>3, <1>4, <1>5 DEF FencesHeld, Native

LEMMA FenceInit == BackupInit => FenceInvariant
<1> SUFFICES ASSUME BackupInit
             PROVE  FenceInvariant
  OBVIOUS
<1>1. \A a \in Attempts : attempt[a] = NoAttempt
  BY DEF BackupInit
<1>2. \A r \in Runners : runner[r] = Idle
  BY DEF BackupInit
<1>3. catalogue.revision = 0
  BY DEF BackupInit
<1> QED
  BY SMT, <1>1, <1>2, <1>3, NoAttemptFields, IdleFields, BusyStates DEF FenceInvariant, CleanupIsNative,
     NativeFromPublication, FencesHeld, Native, Cleaning, BackupInit, OperationStateInit

LEMMA FenceStepHolds ==
  ASSUME WellFormed, FenceInvariant, [Next]_vars
  PROVE  FenceInvariant'
BY CleanupStep, NativeStep, FencesStep DEF FenceInvariant

(* The types and the fences hold in every behaviour. *)
LEMMA SpecFences == Spec => [](WellFormed /\ FenceInvariant)
<1>1. BackupInit => WellFormed /\ FenceInvariant
  BY InitWellFormed, FenceInit
<1>2. WellFormed /\ FenceInvariant /\ [Next]_vars => (WellFormed /\ FenceInvariant)'
  BY NextWellFormed, FenceStepHolds
<1> QED
  BY <1>1, <1>2, PTL DEF Spec

(* No execution of a backup, however late, lowers a fence a recovery holds. *)
THEOREM RecoveryKeepsFences == Spec => RecoveryHoldsFences
<1>1. (WellFormed /\ FenceInvariant) /\ (WellFormed /\ FenceInvariant)'
        => [active_recovery /\ active_recovery'
             => recovery_health' = "blocked" /\ recovery_restore_guard' = "blocked"]_vars
  BY DEF FenceInvariant, FencesHeld
<1> QED
  BY <1>1, SpecFences, PTL DEF RecoveryHoldsFences

-----------------------------------------------------------------------------
(* Retention.  Whatever is verified is retained, and once anything is, one  *)
(* backup is the newest.                                                    *)
RetentionHeld ==
  /\ \A a \in Attempts : attempt[a].state = "verified" <=> retention[a] # "none"
  /\ \A a, b \in Attempts : retention[a] = "newest" /\ retention[b] = "newest" => a = b
  /\ (\E a \in Attempts : retention[a] # "none") => \E a \in Attempts : retention[a] = "newest"

LEMMA RetentionInit == BackupInit => RetentionHeld
BY NoAttemptFields DEF BackupInit, RetentionHeld

LEMMA RetentionStep ==
  ASSUME WellFormed, RetentionHeld, [Next]_vars
  PROVE  RetentionHeld'
<1>1. CASE retention' = retention /\ ~\E a \in Attempts : CompleteStep(a)
  <2>1. ASSUME NEW a \in Attempts
        PROVE  attempt'[a].state = "verified" <=> attempt[a].state = "verified"
    BY <1>1, StepKinds, NoAttemptFields, BusyStates DEF KeepStep, GuardStep, RowStep, AcceptStep,
       CreateStep, BeginStep, AdvanceStep, FailStep, Inserted, RowTo, OnlyRow, Terminal,
       PendingBackupStartable
  <2> QED
    BY <1>1, <2>1 DEF RetentionHeld
<1>2. ASSUME NEW a \in Attempts, CompleteStep(a)
      PROVE  RetentionHeld'
  <2>1. /\ attempt'[a].state = "verified" /\ retention'[a] = "newest"
        /\ \A b \in Attempts : b # a =>
             /\ attempt'[b] = attempt[b]
             /\ retention'[b] = IF retention[b] = "newest" THEN "dated" ELSE retention[b]
    BY <1>2 DEF CompleteStep, RowTo, OnlyRow, RetainNewest
  <2> QED
    BY <2>1 DEF RetentionHeld
<1> QED
  BY <1>1, <1>2, StepKinds DEF KeepStep, GuardStep, RowStep, AcceptStep, CreateStep, BeginStep,
     AdvanceStep, FailStep

(* The newest backup is one; every other verified one is dated. *)
THEOREM OneNewestBackup == Spec => []NewestBackupIsRetained
<1>1. RetentionHeld => NewestBackupIsRetained
  <2> SUFFICES ASSUME RetentionHeld, NEW c \in Attempts, attempt[c].state = "verified"
               PROVE  \E n \in Attempts : {a \in Attempts : retention[a] = "newest"} = {n}
    BY DEF NewestBackupIsRetained, RetentionHeld
  <2>1. PICK n \in Attempts : retention[n] = "newest"
    BY DEF RetentionHeld
  <2>2. {a \in Attempts : retention[a] = "newest"} = {n}
    BY <2>1 DEF RetentionHeld
  <2> QED
    BY <2>2
<1>2. BackupInit => RetentionHeld
  BY RetentionInit
<1>3. WellFormed /\ RetentionHeld /\ [Next]_vars => RetentionHeld'
  BY RetentionStep
<1> QED
  BY <1>1, <1>2, <1>3, SpecFences, PTL DEF Spec

-----------------------------------------------------------------------------
(* Executions that do not overlap. *)
ExportCalls ==
  {"object", "block", "fence", "capture", "lease", "drop", "release", "dump", "rebuild", "clear",
   "put", "exported"}
FencedCalls == {"fence", "capture", "lease", "drop", "release", "dump", "rebuild", "clear"}
SnapshotCalls == {"lease", "drop", "release", "dump"}

(* What an execution that alone works for its attempt may rely on. *)
Undisturbed(q) ==
  LET x == runner[q] IN
  /\ workflow[x.a].runner = q
  /\ x.pc \in {"check", "evidence"} => attempt[x.a].state = x.read
  /\ x.pc \in ExportCalls => attempt[x.a].state = "exporting"
  /\ x.pc \in FencedCalls => ~Writable
  /\ x.pc \in SnapshotCalls /\ x.mode = "backup" /\ Native(x.a) => x.snapshot = catalogue.contents
  /\ x.pc = "drop" => search.state = "reconstructing"

DropNeverFailed == spent.faults = 0 \/ "drop" \notin spent.plan.points

(* An instance has an execution only while it runs, so an errored one stays *)
(* errored.  Without overlap every execution is the only one of its attempt *)
(* and is undisturbed, a backup that is not a publication's holds the       *)
(* health fence, and the index is missing only behind the search fence.     *)
TryOfRunning == \A a \in Attempts : workflow[a].runner # None => workflow[a].status = "running"
OverlapInvariant ==
  /\ TryOfRunning
  /\ NoOverlap =>
       /\ \A q \in Runners : runner[q].pc # "idle" => Undisturbed(q)
       /\ \A a \in Attempts :
            attempt[a].state \in Busy /\ ~Native(a) => recovery_health = "blocked" /\ ~catalogue.ingesting
       /\ DropNeverFailed =>
            /\ \A q \in Runners : runner[q].pc # "release"
            /\ search.state = "ready" => search.indexed

(* Only a clearing call lowers the guard; only a release or a rebuilt index *)
(* opens the search fence.                                                  *)
LEMMA FenceFrame ==
  ASSUME WellFormed, NEW r \in Runners, BackupStep(r) \/ CallFails(r) \/ Crash(r)
  PROVE  /\ recovery_restore_guard = "blocked"
              => recovery_restore_guard' = "blocked" \/ ClearRestoreGuard(r)
         /\ search.state = "reconstructing"
              => search'.state = "reconstructing" \/ runner[r].pc \in {"release", "rebuild"}
<1>0. search \in [state : {"ready", "reconstructing"}, owner : Attempts \cup {None},
                  expired : BOOLEAN, indexed : BOOLEAN]
  BY DEF WellFormed, TypeOK
<1>1. CASE InsertPendingBackup(r) \/ CheckOperationState(r) \/ CaptureVerificationEvidence(r)
           \/ FindRetainedObject(r) \/ CaptureCompositionSnapshot(r) \/ ExportSql(r)
           \/ RetainObject(r) \/ TransitionExported(r) \/ InspectSnapshotFence(r)
  BY <1>1 DEF InsertPendingBackup, CheckOperationState, CaptureVerificationEvidence,
     FindRetainedObject, CaptureCompositionSnapshot, ExportSql, RetainObject, TransitionExported,
     InspectSnapshotFence, Advance, operationStateVars
<1>2. CASE PrepareRestoreTarget(r) \/ PersistPreparedTarget(r) \/ TransitionImporting(r)
           \/ RestoreSql(r) \/ TransitionRestored(r) \/ ReconstructAndVerify(r)
           \/ RetainManifest(r) \/ CallFails(r) \/ Crash(r)
  BY <1>2 DEF PrepareRestoreTarget, PersistPreparedTarget, TransitionImporting,
     RestoreSql, TransitionRestored, ReconstructAndVerify, RetainManifest, CallFails, Crash, Advance,
     operationStateVars
<1>3. CASE StartBackupExport(r) \/ RaiseRestoreGuard(r) \/ RaiseHealthFence(r)
           \/ CompleteBackup(r) \/ FailActiveAttempt(r)
  BY <1>3 DEF StartBackupExport, RaiseRestoreGuard, RaiseHealthFence, CompleteBackup,
     FailActiveAttempt, operationStateVars, ReserveBackupOperation, BlockBackupRestore,
     FenceCompositionSnapshot, RestoreHealthyBackupState, DegradeActiveBackupState
<1>4. CASE AcquireSearchLease(r) \/ DropSearchIndex(r)
  <2>1. \/ search' = search \/ search' = [search EXCEPT !.indexed = FALSE]
        \/ search' = [search EXCEPT !.state = "reconstructing", !.owner = runner[r].a,
                                    !.expired = FALSE]
    BY <1>4 DEF AcquireSearchLease, DropSearchIndex
  <2>2. search.state = "reconstructing" => search'.state = "reconstructing"
    BY <1>0, <2>1
  <2> QED
    BY <1>4, <2>2 DEF AcquireSearchLease, DropSearchIndex, operationStateVars
<1>5. CASE ReleaseSearchLease(r) \/ ReconstructSearch(r)
  BY <1>5 DEF ReleaseSearchLease, ReconstructSearch, operationStateVars
<1>6. CASE ClearRestoreGuard(r)
  BY <1>6 DEF ClearRestoreGuard
<1> QED
  BY <1>1, <1>2, <1>3, <1>4, <1>5, <1>6 DEF BackupStep

(* The books only grow, under one plan. *)
LEMMA SpentGrows ==
  ASSUME WellFormed, [Next]_vars
  PROVE  /\ spent'.plan = spent.plan /\ spent.timeouts \in Nat /\ spent.faults \in Nat
         /\ spent'.timeouts >= spent.timeouts /\ spent'.faults >= spent.faults
<1>1. spent \in [crashes : Nat, timeouts : Nat, faults : Nat, requests : Nat, plan : Plans]
  BY DEF WellFormed, TypeOK
<1>2. \/ spent' = spent
      \/ spent' = [spent EXCEPT !.crashes = @ + 1] \/ spent' = [spent EXCEPT !.timeouts = @ + 1]
      \/ spent' = [spent EXCEPT !.faults = @ + 1] \/ spent' = [spent EXCEPT !.requests = @ + 1]
  <2>1. CASE UNCHANGED vars
    BY <2>1 DEF vars, backupVars
  <2>2. CASE CatalogueWrite \/ ClaimIngestion \/ FinishIngestion \/ SearchLeaseExpires
             \/ BeginRecovery \/ AcceptRecovery \/ AdministrationRequest
             \/ \E a \in Attempts, v \in 1..MaxRevision : AcceptPublication(a, v)
    BY <2>2 DEF CatalogueWrite, ClaimIngestion, FinishIngestion, BeginRecovery,
       AcceptRecovery, AdministrationRequest, SearchLeaseExpires, AcceptPublication, backupVars
  <2>3. CASE \E a \in Attempts :
               \/ \E linked \in Attempts \cup {None} : StartCatalogueBackup(a, linked)
               \/ DispatchBackup(a) \/ StepTimesOut(a)
               \/ \E r \in Runners : StartTry(r, a) \/ ObserveErroredWorkflow(r, a)
    BY <2>3 DEF StartCatalogueBackup, DispatchBackup, StepTimesOut, StartTry,
       ObserveErroredWorkflow
  <2>4. CASE \E r \in Runners : CallFails(r) \/ Crash(r)
    BY <2>4 DEF CallFails, Crash
  <2>5. CASE \E r \in Runners : BackupStep(r)
    BY ZenonT(90), <2>5 DEF BackupStep, InsertPendingBackup, CheckOperationState,
       CaptureVerificationEvidence, StartBackupExport, FindRetainedObject, RaiseRestoreGuard,
       RaiseHealthFence, CaptureCompositionSnapshot, AcquireSearchLease, DropSearchIndex,
       ReleaseSearchLease, ExportSql, ReconstructSearch, ClearRestoreGuard, RetainObject,
       TransitionExported, PrepareRestoreTarget, PersistPreparedTarget, TransitionImporting,
       RestoreSql, TransitionRestored, ReconstructAndVerify, RetainManifest, CompleteBackup,
       InspectSnapshotFence, FailActiveAttempt, Advance
  <2> QED
    BY <2>1, <2>2, <2>3, <2>4, <2>5, StepCases
<1> QED
  BY <1>1, <1>2, SMT

(* An instance's try is of a running instance, and an errored one ends so. *)
LEMMA InstanceStep ==
  ASSUME WellFormed, TryOfRunning, [Next]_vars, NEW a \in Attempts
  PROVE  /\ workflow'[a].runner # None => workflow'[a].status = "running"
         /\ workflow[a].status = "errored" => workflow'[a].status = "errored"
<1> USE DEF TryOfRunning
<1> DEFINE Goal == /\ workflow'[a].runner # None => workflow'[a].status = "running"
                   /\ workflow[a].status = "errored" => workflow'[a].status = "errored"
<1> SUFFICES Goal
  OBVIOUS
<1>1. CASE workflow' = workflow
  BY <1>1
<1>2. ASSUME NEW r \in Runners, Ended(r), runner[r].a \in Attempts
      PROVE  Goal
  BY <1>2, BackupAssumption DEF Ended, OnlyInstance
<1>3. CASE \/ CatalogueWrite \/ ClaimIngestion \/ FinishIngestion \/ SearchLeaseExpires
           \/ BeginRecovery \/ AcceptRecovery \/ AdministrationRequest
           \/ \E b \in Attempts, v \in 1..MaxRevision : AcceptPublication(b, v)
           \/ \E b \in Attempts :
                \E linked \in Attempts \cup {None} : StartCatalogueBackup(b, linked)
           \/ UNCHANGED vars
  BY <1>1, <1>3 DEF CatalogueWrite, ClaimIngestion, FinishIngestion, BeginRecovery,
     AcceptRecovery, AdministrationRequest, SearchLeaseExpires, AcceptPublication, backupVars, vars,
     StartCatalogueBackup
<1>4. ASSUME NEW b \in Attempts, DispatchBackup(b)
      PROVE  Goal
  BY <1>4, DispatchEffect DEF OnlyInstance
<1>5. ASSUME NEW b \in Attempts, StepTimesOut(b)
      PROVE  Goal
  BY <1>5, TimeoutEffect DEF OnlyInstance
<1>6. ASSUME NEW b \in Attempts, NEW r \in Runners, StartTry(r, b) \/ ObserveErroredWorkflow(r, b)
      PROVE  Goal
  BY <1>6, StartEffect, ObserveEffect DEF OnlyInstance
<1>7. ASSUME NEW r \in Runners, BackupStep(r) \/ CallFails(r) \/ Crash(r)
      PROVE  Goal
  BY <1>1, <1>2, <1>7, CallFrame
<1> HIDE DEF Goal
<1>8. CASE Next
  BY <1>3, <1>4, <1>5, <1>6, <1>7, <1>8, StepCases
<1> QED
  BY <1>3, <1>8

(* What overlapped stays overlapped. *)
LEMMA OverlapGrows ==
  ASSUME WellFormed, TryOfRunning, [Next]_vars
  PROVE  /\ TryOfRunning'
         /\ NoOverlap' => NoOverlap
         /\ DropNeverFailed' => DropNeverFailed
<1>1. TryOfRunning'
  BY InstanceStep DEF TryOfRunning
<1>2. ASSUME NoOverlap'
      PROVE  NoOverlap
  <2>1. spent'.timeouts = 0
    BY <1>2 DEF NoOverlap
  <2>2. spent.timeouts = 0
    BY <2>1, SpentGrows, SMT
  <2> QED
    BY <1>2, <2>2, InstanceStep DEF NoOverlap
<1>3. ASSUME DropNeverFailed'
      PROVE  DropNeverFailed
  BY SMT, <1>3, SpentGrows DEF DropNeverFailed
<1> QED
  BY <1>1, <1>2, <1>3

(* A call leaves the executions for other attempts undisturbed: two that    *)
(* export at once would be two active backups.                              *)
LEMMA OthersUndisturbed ==
  ASSUME WellFormed, FenceInvariant, OverlapInvariant, NoOverlap,
         NEW r \in Runners, BackupStep(r) \/ CallFails(r) \/ Crash(r),
         NEW q \in Runners, q # r, runner'[q].pc # "idle"
  PROVE  Undisturbed(q)'
<1>1. /\ runner'[q] = runner[q] /\ Undisturbed(q) /\ Undisturbed(r)
      /\ runner[q].a \in Attempts /\ runner[r].a \in Attempts
  BY CallFrame DEF OnlyRunner, OverlapInvariant, WellFormed, TypeOK
<1>2. runner[q].a # runner[r].a
  BY <1>1 DEF Undisturbed
<1>3. workflow'[runner[q].a] = workflow[runner[q].a]
  BY <1>1, <1>2, CallFrame DEF Ended, OnlyInstance
<1>4. attempt'[runner[q].a] = attempt[runner[q].a] /\ catalogue' = catalogue
  BY <1>1, <1>2, CallFrame DEF OnlyRow
<1>5. runner[q].pc \in ExportCalls => runner[r].pc \notin ExportCalls
  BY <1>1, <1>2, BusyStates DEF Undisturbed, FenceInvariant, FencesHeld
<1>6. runner[q].pc \in FencedCalls => ~Writable'
  <2>1. ASSUME runner[q].pc \in FencedCalls
        PROVE  recovery_restore_guard = "blocked" /\ ~ClearRestoreGuard(r)
    BY <1>1, <1>5, <2>1 DEF Undisturbed, FencedCalls, ExportCalls, ClearRestoreGuard, Writable,
       WellFormed, TypeOK, OperationStateTypeOK
  <2> QED
    BY <2>1, FenceFrame DEF Writable
<1>7. runner[q].pc = "drop" => search'.state = "reconstructing"
  <2>1. ASSUME runner[q].pc = "drop"
        PROVE  search.state = "reconstructing" /\ runner[r].pc \notin {"release", "rebuild"}
    BY <1>1, <1>5, <2>1 DEF Undisturbed, ExportCalls
  <2> QED
    BY <2>1, FenceFrame
<1> QED
  BY <1>1, <1>3, <1>4, <1>6, <1>7 DEF Undisturbed, Native

(* An execution that goes on keeps its instance, so what is left to show of *)
(* it is what its next call relies on.                                      *)
LEMMA StillUndisturbed ==
  ASSUME WellFormed, NEW r \in Runners, Undisturbed(r), workflow' = workflow,
         runner'[r].a = runner[r].a,
         runner'[r].pc \in {"check", "evidence"} => attempt'[runner[r].a].state = runner'[r].read,
         runner'[r].pc \in ExportCalls => attempt'[runner[r].a].state = "exporting",
         runner'[r].pc \in FencedCalls => ~Writable',
         /\ runner'[r].pc \in SnapshotCalls /\ runner'[r].mode = "backup"
         /\ attempt'[runner[r].a].operation # None
         => runner'[r].snapshot = catalogue'.contents,
         runner'[r].pc = "drop" => search'.state = "reconstructing"
  PROVE  Undisturbed(r)'
BY DEF Undisturbed, Native

(* So does a call of the execution itself. *)
LEMMA ItselfUndisturbed ==
  ASSUME WellFormed, NEW r \in Runners, Undisturbed(r), BackupStep(r) \/ CallFails(r) \/ Crash(r)
  PROVE  runner'[r].pc # "idle" => Undisturbed(r)'
<1> DEFINE a == runner[r].a
<1> USE DEF ExportCalls, FencedCalls, SnapshotCalls
<1>0. /\ runner[r].pc # "idle" /\ a \in Attempts /\ catalogue' = catalogue
      /\ Ended(r) \/ (workflow' = workflow /\ runner'[r].a = a /\ runner'[r].mode = runner[r].mode)
  BY CallFrame
<1>1. Ended(r) => runner'[r].pc = "idle"
  BY IdleFields DEF Ended
<1>2. SUFFICES ASSUME ~Ended(r)
               PROVE  Undisturbed(r)'
  BY <1>1
<1>3. workflow' = workflow /\ runner'[r].a = a /\ runner'[r].mode = runner[r].mode
  BY <1>0, <1>2
<1>4. ASSUME runner'[r].pc \notin ExportCalls \cup {"check", "evidence"}
      PROVE  Undisturbed(r)'
  BY <1>3, <1>4, StillUndisturbed
<1>5. CASE InsertPendingBackup(r)
  BY <1>2, <1>3, <1>5, InsertEffect, StillUndisturbed DEF ReadBack
<1>6. CASE CheckOperationState(r)
  <2>1. runner'[r].pc = "evidence" /\ attempt' = attempt /\ runner'[r].read = runner[r].read
    BY <1>2, <1>6, CheckEffect DEF Moved
  <2>2. attempt[a].state = runner[r].read
    BY <1>6 DEF CheckOperationState, Undisturbed
  <2> QED
    BY <1>3, <2>1, <2>2, StillUndisturbed
<1>7. CASE CaptureVerificationEvidence(r)
  <2>1. /\ attempt' = attempt /\ runner'[r].pc = ResumeAt[runner[r].read]
        /\ attempt[a].state = runner[r].read
    BY <1>2, <1>7, EvidenceEffect DEF Moved, CaptureVerificationEvidence, Undisturbed
  <2>2. runner[r].read \in {"pending", "exporting", "restoring_verification", "verifying"}
    BY <1>7 DEF CaptureVerificationEvidence, WellFormed, Busy
  <2>3. CASE runner[r].read = "exporting"
    BY <1>3, <2>1, <2>3, StillUndisturbed, ResumePoints
  <2>4. CASE runner[r].read # "exporting"
    BY <1>4, <2>1, <2>2, <2>4, ResumePoints DEF ExportCalls
  <2> QED
    BY <2>3, <2>4
<1>8. CASE StartBackupExport(r)
  BY <1>2, <1>3, <1>8, BeginEffect, StillUndisturbed DEF Moved, RowTo
<1>9. CASE FindRetainedObject(r)
  <2>1. attempt' = attempt /\ runner'[r].pc \in {"exported", "block"} /\ attempt[a].state = "exporting"
    BY <1>9, FindEffect DEF Moved, FindRetainedObject, Undisturbed
  <2> QED
    BY <1>3, <2>1, StillUndisturbed
<1>10. CASE RaiseRestoreGuard(r)
  <2>1. /\ attempt' = attempt /\ attempt[a].state = "exporting"
        /\ runner'[r].pc = IF Native(a) THEN "fence" ELSE "lease"
    BY <1>10, GuardEffect DEF Moved, RaiseRestoreGuard, Undisturbed
  <2>2. ~Writable'
    BY <1>10 DEF RaiseRestoreGuard, BlockBackupRestore, Writable, operationStateVars
  <2> QED
    BY <1>3, <2>1, <2>2, StillUndisturbed DEF Native
<1>11. CASE RaiseHealthFence(r)
  <2>1. /\ attempt' = attempt /\ attempt[a].state = "exporting" /\ ~Writable
        /\ runner'[r].pc = "capture"
    BY <1>11, FenceEffect DEF Moved, RaiseHealthFence, Undisturbed
  <2>2. ~Writable'
    BY <1>11, <2>1 DEF RaiseHealthFence, FenceCompositionSnapshot, Writable, operationStateVars
  <2> QED
    BY <1>3, <2>1, <2>2, StillUndisturbed
<1>12. CASE CaptureCompositionSnapshot(r)
  <2>1. /\ attempt' = attempt /\ attempt[a].state = "exporting" /\ ~Writable
        /\ runner'[r].pc \in {"lease", "clear"}
        /\ runner'[r].pc = "lease" => runner'[r].snapshot = catalogue.contents
    BY <1>12, CaptureEffect DEF Moved, CaptureCompositionSnapshot, Undisturbed
  <2>2. ~Writable'
    BY <1>12, <2>1 DEF CaptureCompositionSnapshot, Writable, operationStateVars
  <2> QED
    BY <1>0, <1>3, <2>1, <2>2, StillUndisturbed
<1>13. CASE AcquireSearchLease(r)
  <2>1. /\ attempt' = attempt /\ attempt[a].state = "exporting" /\ ~Writable
        /\ runner'[r].pc \in {"drop", "clear"}
        /\ runner'[r].pc = "drop" => runner'[r].snapshot = runner[r].snapshot
    BY <1>2, <1>13, LeaseEffect DEF Moved, AcquireSearchLease, Undisturbed
  <2>2. ~Writable'
    BY <1>13, <2>1 DEF AcquireSearchLease, Writable, operationStateVars
  <2>3. search \in [state : {"ready", "reconstructing"}, owner : Attempts \cup {None},
                    expired : BOOLEAN, indexed : BOOLEAN]
    BY DEF WellFormed, TypeOK
  <2>4. runner'[r].pc = "drop" =>
          search' = [search EXCEPT !.state = "reconstructing", !.owner = runner[r].a, !.expired = FALSE]
    BY <1>2, <1>13, LeaseEffect DEF Moved
  <2>5. runner'[r].pc = "drop" => search'.state = "reconstructing"
    BY <2>3, <2>4
  <2>6. runner[r].pc = "lease"
    BY <1>13 DEF AcquireSearchLease
  <2>7. runner[r].mode = "backup" /\ attempt[a].operation # None
          => runner[r].snapshot = catalogue.contents
    BY <2>6 DEF Undisturbed, Native
  <2> QED
    BY <1>0, <1>3, <2>1, <2>2, <2>5, <2>7, StillUndisturbed
<1>14. CASE DropSearchIndex(r)
  <2>1. /\ attempt' = attempt /\ attempt[a].state = "exporting" /\ ~Writable
        /\ runner'[r].pc \in {"dump", "rebuild"} /\ runner'[r].snapshot = runner[r].snapshot
    BY <1>14, DropEffect DEF Moved, DropSearchIndex, Undisturbed
  <2>2. ~Writable'
    BY <1>14, <2>1 DEF DropSearchIndex, Writable, operationStateVars
  <2>3. runner[r].mode = "backup" /\ attempt[a].operation # None
          => runner[r].snapshot = catalogue.contents
    BY <1>14 DEF DropSearchIndex, Undisturbed, Native
  <2> QED
    BY <1>0, <1>3, <2>1, <2>2, <2>3, StillUndisturbed
<1>15. CASE ReleaseSearchLease(r) \/ ReconstructSearch(r) \/ ExportSql(r)
  <2>1. /\ attempt' = attempt /\ attempt[a].state = "exporting" /\ ~Writable
        /\ runner'[r].pc \in {"clear", "rebuild"}
    BY <1>2, <1>15, LeavingEffect, ExportEffect
       DEF Moved, ReleaseSearchLease, ReconstructSearch, ExportSql, Undisturbed
  <2>2. ~Writable'
    BY <1>15, <2>1 DEF ReleaseSearchLease, ReconstructSearch, ExportSql, Writable, operationStateVars
  <2> QED
    BY <1>3, <2>1, <2>2, StillUndisturbed
<1>16. CASE ClearRestoreGuard(r) \/ RetainObject(r)
  <2>1. /\ attempt' = attempt /\ attempt[a].state = "exporting"
        /\ runner'[r].pc \in {"put", "fail", "exported"}
    BY <1>2, <1>16, ClearEffect, RetainEffect DEF Moved, ClearRestoreGuard, RetainObject, Undisturbed
  <2> QED
    BY <1>3, <2>1, StillUndisturbed
<1>17. CASE TransitionExported(r) \/ PrepareRestoreTarget(r) \/ PersistPreparedTarget(r)
            \/ TransitionImporting(r) \/ RestoreSql(r) \/ TransitionRestored(r)
            \/ ReconstructAndVerify(r) \/ RetainManifest(r)
  <2>1. runner'[r].pc \in {"prepare", "prepared", "importing", "import", "imported", "verify",
                           "manifest", "complete"}
    BY <1>2, <1>17, ExportedEffect, PrepareEffect, PersistEffect, ImportingEffect, RestoreEffect,
       RestoredEffect, VerifyEffect, ManifestEffect DEF Moved
  <2> QED
    BY <1>4, <2>1
<1>18. CASE InspectSnapshotFence(r)
  <2>1. attempt' = attempt /\ runner[r].mode # "backup" /\ UNCHANGED operationStateVars
    BY <1>18, InspectEffect DEF InspectSnapshotFence, WellFormed
  <2>2. CASE SnapshotLeftFenced(a)
    <3>1. /\ runner'[r].pc = "lease" /\ attempt[a].state = "exporting" /\ ~Writable
      BY <1>18, <2>2, InspectEffect DEF Moved, SnapshotLeftFenced
    <3>2. ~Writable'
      BY <2>1, <3>1 DEF Writable, operationStateVars
    <3> QED
      BY <1>3, <2>1, <3>1, <3>2, StillUndisturbed
  <2>3. CASE ~SnapshotLeftFenced(a)
    <3>1. runner'[r].pc = "fail"
      BY <1>18, <2>3, InspectEffect DEF Moved
    <3> QED
      BY <1>4, <3>1
  <2> QED
    BY <2>2, <2>3
<1>19. CASE CallFails(r)
  <2>1. /\ attempt' = attempt
        /\ runner[r].pc \in {"fence", "capture", "lease", "release", "rebuild", "dump", "drop"}
        /\ \/ runner'[r].pc \in {"clear", "rebuild"}
           \/ /\ runner'[r].pc = "release" /\ runner[r].pc = "drop"
              /\ runner'[r].snapshot = runner[r].snapshot
    BY <1>2, <1>19, FaultEffect DEF Moved
  <2>2. attempt[a].state = "exporting" /\ ~Writable
    BY <2>1 DEF Undisturbed
  <2>3. ~Writable'
    BY <1>19, <2>2 DEF CallFails, Writable, operationStateVars
  <2>4. runner[r].pc = "drop" /\ runner[r].mode = "backup" /\ attempt[a].operation # None
          => runner[r].snapshot = catalogue.contents
    BY DEF Undisturbed, Native
  <2> QED
    BY <1>0, <1>3, <2>1, <2>2, <2>3, <2>4, StillUndisturbed
<1>20. CASE CompleteBackup(r) \/ FailActiveAttempt(r) \/ Crash(r)
  BY <1>2, <1>20, CompleteEffect, FailEffect, CrashEffect
<1> QED
  BY <1>5, <1>6, <1>7, <1>8, <1>9, <1>10, <1>11, <1>12, <1>13, <1>14, <1>15, <1>16, <1>17, <1>18,
     <1>19, <1>20 DEF BackupStep

(* Steps of no execution. *)
LEMMA ElsewhereUndisturbed ==
  ASSUME WellFormed, FenceInvariant, OverlapInvariant, NoOverlap, NEW q \in Runners, runner[q].pc # "idle",
         \/ CatalogueWrite \/ ClaimIngestion \/ FinishIngestion
         \/ \E a \in Attempts, v \in 1..MaxRevision : AcceptPublication(a, v)
         \/ BeginRecovery \/ AcceptRecovery \/ AdministrationRequest
         \/ SearchLeaseExpires
         \/ \E a \in Attempts :
              \/ \E linked \in Attempts \cup {None} : StartCatalogueBackup(a, linked)
              \/ DispatchBackup(a)
  PROVE  runner' = runner /\ Undisturbed(q)'
<1> DEFINE a == runner[q].a
<1>0. Undisturbed(q) /\ a \in Attempts
  BY DEF OverlapInvariant, WellFormed, TypeOK
<1>1. ASSUME runner' = runner, workflow'[a].runner = workflow[a].runner,
             attempt'[a] = attempt[a], ~Writable => ~Writable',
             Writable \/ catalogue'.contents = catalogue.contents,
             search'.state = search.state
      PROVE  Undisturbed(q)'
  BY <1>0, <1>1 DEF Undisturbed, Native, SnapshotCalls, FencedCalls
<1>2. CASE CatalogueWrite \/ ClaimIngestion \/ FinishIngestion
  <2>1. /\ runner' = runner /\ workflow' = workflow /\ attempt' = attempt /\ search' = search
        /\ UNCHANGED operationStateVars
    BY <1>2 DEF CatalogueWrite, ClaimIngestion, FinishIngestion, rows
  <2>2. catalogue \in [revision : 0..MaxRevision, acceptance : Attempts \cup {None},
                       contents : Nat, ingesting : BOOLEAN]
    BY DEF WellFormed, TypeOK
  <2>3. \/ Writable \/ catalogue' = [catalogue EXCEPT !.ingesting = TRUE]
        \/ catalogue' = [catalogue EXCEPT !.ingesting = FALSE]
    BY <1>2 DEF CatalogueWrite, ClaimIngestion, FinishIngestion
  <2>4. Writable \/ catalogue'.contents = catalogue.contents
    BY <2>2, <2>3
  <2>5. ~Writable => ~Writable'
    BY <2>1 DEF Writable, operationStateVars
  <2> QED
    BY <1>1, <2>1, <2>4, <2>5
<1>3. ASSUME NEW b \in Attempts, NEW v \in 1..MaxRevision, AcceptPublication(b, v)
      PROVE  runner' = runner /\ Undisturbed(q)'
  <2>1. /\ attempt[b] = NoAttempt /\ OnlyRow(b) /\ Writable
        /\ UNCHANGED <<workflow, runner, search>>
    BY <1>3, AcceptEffect DEF AcceptPublication, RecoveryVerified
  <2>2. CASE b # a
    BY <1>0, <1>1, <2>1, <2>2 DEF OnlyRow
  <2>3. CASE b = a
    <3>1. /\ attempt[a].state = "absent" /\ runner[q].pc \notin ExportCalls
          /\ runner[q].pc \notin {"check", "evidence"}
      BY <1>0, <2>1, <2>3, NoAttemptFields, BusyStates DEF Undisturbed, WellFormed
    <3> QED
      BY <1>0, <2>1, <3>1 DEF Undisturbed, ExportCalls, FencedCalls, SnapshotCalls
  <2> QED
    BY <2>2, <2>3
<1>4. CASE BeginRecovery \/ AdministrationRequest
  BY <1>1, <1>4 DEF BeginRecovery, AdministrationRequest, backupVars, rows, Writable,
     ReserveRecoveryOperation, EnforceRecoveryRestoreGuard
<1>5. CASE AcceptRecovery
  <2>1. /\ active_recovery /\ UNCHANGED <<runner, workflow, attempt, search, catalogue>>
    BY <1>5 DEF AcceptRecovery, ReleaseAcceptedRecovery, backupVars, rows
  <2>2. runner[q].pc \notin ExportCalls
    BY <1>0, <2>1, BusyStates DEF Undisturbed, FenceInvariant, FencesHeld
  <2> QED
    BY <1>0, <2>1, <2>2 DEF Undisturbed, ExportCalls, FencedCalls, SnapshotCalls
<1>6. CASE SearchLeaseExpires
  <2>1. search \in [state : {"ready", "reconstructing"}, owner : Attempts \cup {None},
                    expired : BOOLEAN, indexed : BOOLEAN]
    BY DEF WellFormed, TypeOK
  <2>2. search'.state = search.state
    BY <1>6, <2>1 DEF SearchLeaseExpires
  <2> QED
    BY <1>1, <1>6, <2>2 DEF SearchLeaseExpires, rows, Writable, operationStateVars
<1>7. ASSUME NEW b \in Attempts,
             \/ \E linked \in Attempts \cup {None} : StartCatalogueBackup(b, linked)
             \/ DispatchBackup(b)
      PROVE  runner' = runner /\ Undisturbed(q)'
  <2>1. /\ UNCHANGED <<operationStateVars, catalogue, attempt, runner, search>>
        /\ workflow'[a].runner = workflow[a].runner
    BY <1>0, <1>7, RequestEffect, DispatchEffect DEF OnlyInstance
  <2> QED
    BY <1>1, <2>1 DEF Writable, operationStateVars
<1> QED
  BY <1>2, <1>3, <1>4, <1>5, <1>6, <1>7

LEMMA ExecutionsUndisturbed ==
  ASSUME WellFormed, FenceInvariant, OverlapInvariant, [Next]_vars, NoOverlap',
         NEW q \in Runners, runner'[q].pc # "idle"
  PROVE  Undisturbed(q)'
<1>0. NoOverlap
  BY OverlapGrows DEF OverlapInvariant
<1>1. CASE UNCHANGED vars
  BY <1>0, <1>1 DEF vars, backupVars, rows, OverlapInvariant, Undisturbed, Writable,
     operationStateVars, Native
<1>2. ASSUME NEW r \in Runners, BackupStep(r) \/ CallFails(r) \/ Crash(r)
      PROVE  Undisturbed(q)'
  <2>1. Undisturbed(r)
    BY <1>0, <1>2, CallFrame DEF OverlapInvariant
  <2> QED
    BY <1>0, <1>2, <2>1, OthersUndisturbed, ItselfUndisturbed
<1>3. ASSUME NEW a \in Attempts, NEW r \in Runners, StartTry(r, a)
      PROVE  Undisturbed(q)'
  <2>1. UNCHANGED <<operationStateVars, catalogue, attempt, search>>
    BY <1>3 DEF StartTry, rows
  <2>2. CASE q = r
    BY <1>3, <2>2, StartEffect DEF Started, Undisturbed, ExportCalls, FencedCalls, SnapshotCalls
  <2>3. CASE q # r
    <3>0. runner'[q] = runner[q]
      <4>1. OnlyRunner(r)
        BY <1>3, StartEffect DEF Started
      <4> QED
        BY <2>3, <4>1 DEF OnlyRunner
    <3>1. runner'[q] = runner[q] /\ Undisturbed(q) /\ runner[q].a \in Attempts
      BY <1>0, <3>0, StepTypes DEF OverlapInvariant
    <3>2. runner[q].a # a
      BY SMT, <1>3, <3>1, StartEffect, BackupAssumption DEF Undisturbed
    <3>3. workflow'[runner[q].a] = workflow[runner[q].a]
      BY <1>3, <3>1, <3>2, StartEffect DEF OnlyInstance
    <3> QED
      BY <2>1, <3>1, <3>3 DEF Undisturbed, Writable, operationStateVars, Native
  <2> QED
    BY <2>2, <2>3
<1>4. ASSUME NEW a \in Attempts, NEW r \in Runners, ObserveErroredWorkflow(r, a)
      PROVE  FALSE
  BY <1>0, <1>4, ObserveEffect DEF NoOverlap
<1>5. ASSUME NEW a \in Attempts, StepTimesOut(a)
      PROVE  FALSE
  <2>1. spent'.timeouts = spent.timeouts + 1 /\ spent.timeouts \in Nat
    BY <1>5, TimeoutEffect DEF WellFormed, TypeOK
  <2> QED
    BY <2>1, SMT DEF NoOverlap
<1>6. ASSUME \/ CatalogueWrite \/ ClaimIngestion \/ FinishIngestion
             \/ \E a \in Attempts, v \in 1..MaxRevision : AcceptPublication(a, v)
             \/ BeginRecovery \/ AcceptRecovery \/ AdministrationRequest
             \/ SearchLeaseExpires
             \/ \E a \in Attempts :
                  \/ \E linked \in Attempts \cup {None} : StartCatalogueBackup(a, linked)
                  \/ DispatchBackup(a)
      PROVE  Undisturbed(q)'
  <2>1. runner' = runner
    BY <1>6 DEF CatalogueWrite, ClaimIngestion, FinishIngestion, BeginRecovery,
       AcceptRecovery, AdministrationRequest, SearchLeaseExpires, AcceptPublication, backupVars,
       StartCatalogueBackup, DispatchBackup
  <2> QED
    BY <1>0, <1>6, <2>1, ElsewhereUndisturbed
<1> QED
  BY <1>1, <1>2, <1>3, <1>4, <1>5, <1>6, StepCases

(* Without overlap, only its own end opens the health fence under a backup  *)
(* that is not a publication's.                                             *)
LEMMA MaintenanceBlocks ==
  ASSUME WellFormed, FenceInvariant, OverlapInvariant, NoOverlap, [Next]_vars,
         NEW a \in Attempts, attempt'[a].state \in Busy, attempt'[a].operation = None
  PROVE  recovery_health' = "blocked" /\ ~catalogue'.ingesting
<1> USE BusyStates
<1>1. /\ attempt[a].state \in Busy \/ BeginStep(a)
      /\ attempt'[a].operation = attempt[a].operation
  BY StepKinds DEF KeepStep, GuardStep, RowStep, AcceptStep, CreateStep, BeginStep, AdvanceStep,
     FailStep, CompleteStep, RowTo, OnlyRow, Inserted, PendingBackupStartable
<1>2. CASE BeginStep(a)
  BY <1>1, <1>2 DEF BeginStep, PendingBackupStartable, ReserveBackupOperation, SameCatalogue, Native
<1>3. CASE attempt[a].state \in Busy
  <2>1. recovery_health = "blocked" /\ ~catalogue.ingesting /\ ~active_recovery /\ ~Native(a)
    BY <1>1, <1>3 DEF OverlapInvariant, FenceInvariant, FencesHeld, Native
  <2>2. CASE KeepStep
    BY <2>1, <2>2 DEF KeepStep, operationStateVars
  <2>3. CASE GuardStep
    <3>1. ASSUME NEW r \in Runners, runner[r].pc = "clear"
          PROVE  ~(runner[r].mode # "backup" \/ Native(runner[r].a))
      <4>1. attempt[runner[r].a].state = "exporting" /\ runner[r].a \in Attempts
        BY <3>1 DEF OverlapInvariant, Undisturbed, ExportCalls, WellFormed, TypeOK
      <4>2. runner[r].a = a
        BY <1>3, <4>1 DEF FenceInvariant, FencesHeld
      <4> QED
        BY <2>1, <3>1, <4>2 DEF FenceInvariant, CleanupIsNative, Cleaning
    <3>2. ASSUME NEW r \in Runners, runner[r].pc = "clear",
                 ClearBackupRestore(runner[r].mode # "backup" \/ Native(runner[r].a))
          PROVE  recovery_health' = recovery_health
      BY <3>1, <3>2 DEF ClearBackupRestore
    <3> QED
      BY <1>3, <2>1, <2>3, <3>2 DEF GuardStep, SameCatalogue, BlockBackupRestore,
         FenceCompositionSnapshot, EnforceRecoveryRestoreGuard, ReleaseAcceptedRecovery
  <2>4. ASSUME NEW b \in Attempts, RowStep(b)
        PROVE  recovery_health' = "blocked" /\ ~catalogue'.ingesting
    <3>1. CASE b = a
      BY <1>3, <2>1, <2>4, <3>1 DEF RowStep, AcceptStep, CreateStep, BeginStep, AdvanceStep,
         FailStep, CompleteStep, SameCatalogue, operationStateVars, Inserted,
         PendingBackupStartable, RowTo, RecoveryVerified, Healthy
    <3>2. CASE b # a
      <4>1. attempt[b].state \notin Busy
        BY <1>3, <3>2 DEF FenceInvariant, FencesHeld
      <4> QED
        BY <1>3, <2>1, <2>4, <4>1 DEF RowStep, AcceptStep, CreateStep, BeginStep, AdvanceStep,
           FailStep, CompleteStep, SameCatalogue, operationStateVars, Inserted,
           PendingBackupStartable, RowTo, RecoveryVerified, Healthy
    <3> QED
      BY <3>1, <3>2
  <2> QED
    BY <2>2, <2>3, <2>4, StepKinds
<1> QED
  BY <1>1, <1>2, <1>3

(* Only a removal of the index that failed gives the lease up. *)
LEMMA ReleaseAfterFault ==
  ASSUME WellFormed, [Next]_vars, NEW q \in Runners, runner'[q].pc = "release"
  PROVE  runner[q].pc = "release" \/ ~DropNeverFailed'
<1> DEFINE Goal == runner[q].pc = "release" \/ ~DropNeverFailed'
<1> SUFFICES Goal
  OBVIOUS
<1>1. CASE runner' = runner
  BY <1>1
<1>2. ASSUME NEW r \in Runners, OnlyRunner(r), runner'[r].pc # "release"
      PROVE  Goal
  BY <1>2 DEF OnlyRunner
<1>3. ASSUME NEW r \in Runners, NEW pcs, Moved(r, pcs), "release" \notin pcs
      PROVE  Goal
  BY <1>2, <1>3 DEF Moved
<1>4. ASSUME NEW r \in Runners, Ended(r) \/ ReadBack(r) \/ \E a \in Attempts : Started(r, a)
      PROVE  Goal
  BY <1>2, <1>4, IdleFields DEF Ended, ReadBack, Started
<1>5. ASSUME NEW r \in Runners, CallFails(r)
      PROVE  Goal
  <2>1. /\ Ended(r) \/ Moved(r, {"clear"}) \/ Moved(r, {"rebuild"})
           \/ (OnlyRunner(r) /\ "drop" \in spent.plan.points)
    BY <1>5, FaultEffect DEF Moved
  <2>2. spent' = [spent EXCEPT !.faults = @ + 1]
    BY <1>5 DEF CallFails
  <2>3. spent \in [crashes : Nat, timeouts : Nat, faults : Nat, requests : Nat, plan : Plans]
    BY DEF WellFormed, TypeOK
  <2>4. spent'.faults # 0 /\ spent'.plan = spent.plan
    BY SMT, <2>2, <2>3
  <2>5. "drop" \in spent.plan.points => ~DropNeverFailed'
    BY <2>4 DEF DropNeverFailed
  <2>6. Moved(r, {"clear"}) \/ Moved(r, {"rebuild"}) => Goal
    BY <1>3
  <2> QED
    BY <1>4, <2>1, <2>5, <2>6
<1>6. ASSUME NEW r \in Runners, BackupStep(r)
      PROVE  Goal
  <2>1. CASE InsertPendingBackup(r) \/ CheckOperationState(r) \/ StartBackupExport(r)
             \/ FindRetainedObject(r) \/ RaiseRestoreGuard(r) \/ RaiseHealthFence(r)
             \/ CaptureCompositionSnapshot(r) \/ AcquireSearchLease(r)
    BY <1>3, <1>4, <2>1, InsertEffect, CheckEffect, BeginEffect, FindEffect, GuardEffect,
       FenceEffect, CaptureEffect, LeaseEffect
  <2>2. CASE DropSearchIndex(r) \/ ReleaseSearchLease(r) \/ ReconstructSearch(r) \/ ExportSql(r)
             \/ ClearRestoreGuard(r) \/ RetainObject(r) \/ TransitionExported(r)
             \/ InspectSnapshotFence(r)
    BY <1>3, <1>4, <2>2, DropEffect, LeavingEffect, ExportEffect, ClearEffect, RetainEffect,
       ExportedEffect, InspectEffect
  <2>3. CASE PrepareRestoreTarget(r) \/ PersistPreparedTarget(r)
    BY <1>2, <1>4, <2>3, PrepareEffect, PersistEffect
  <2>4. CASE TransitionImporting(r) \/ RestoreSql(r) \/ TransitionRestored(r)
             \/ ReconstructAndVerify(r) \/ RetainManifest(r) \/ CompleteBackup(r)
             \/ FailActiveAttempt(r)
    BY <1>3, <1>4, <2>4, ImportingEffect, RestoreEffect, RestoredEffect, VerifyEffect,
       ManifestEffect, CompleteEffect, FailEffect
  <2>5. CASE CaptureVerificationEvidence(r)
    <3>1. ResumeAt[runner[r].read] # "release"
      BY <2>5, ResumePoints DEF CaptureVerificationEvidence, WellFormed, Busy
    <3> QED
      BY <1>3, <1>4, <2>5, <3>1, EvidenceEffect
  <2> QED
    BY <1>6, <2>1, <2>2, <2>3, <2>4, <2>5 DEF BackupStep
<1>7. CASE \/ CatalogueWrite \/ ClaimIngestion \/ FinishIngestion \/ SearchLeaseExpires
           \/ BeginRecovery \/ AcceptRecovery \/ AdministrationRequest
           \/ \E a \in Attempts, v \in 1..MaxRevision : AcceptPublication(a, v)
           \/ \E a \in Attempts :
                \/ \E linked \in Attempts \cup {None} : StartCatalogueBackup(a, linked)
                \/ DispatchBackup(a) \/ StepTimesOut(a)
           \/ UNCHANGED vars
  <2>1. runner' = runner
    BY <1>7 DEF CatalogueWrite, ClaimIngestion, FinishIngestion, BeginRecovery,
       AcceptRecovery, AdministrationRequest, SearchLeaseExpires, AcceptPublication, backupVars,
       StartCatalogueBackup, DispatchBackup, StepTimesOut, vars
  <2> QED
    BY <1>1, <2>1
<1>8. CASE \E a \in Attempts, r \in Runners : StartTry(r, a) \/ ObserveErroredWorkflow(r, a)
  BY <1>4, <1>8, StartEffect, ObserveEffect
<1>9. CASE \E r \in Runners : Crash(r)
  BY <1>4, <1>9, CrashEffect
<1> HIDE DEF Goal
<1> QED
  BY <1>5, <1>6, <1>7, <1>8, <1>9, StepCases

(* The index is removed behind the search fence, and restored before it is  *)
(* opened.                                                                  *)
LEMMA IndexStep ==
  ASSUME WellFormed, OverlapInvariant, NoOverlap, DropNeverFailed, [Next]_vars,
         search'.state = "ready"
  PROVE  search'.indexed
<1>0. search \in [state : {"ready", "reconstructing"}, owner : Attempts \cup {None},
                  expired : BOOLEAN, indexed : BOOLEAN]
  BY DEF WellFormed, TypeOK
<1>1. search.state = "ready" => search.indexed
  BY DEF OverlapInvariant
<1>2. CASE search' = search
  BY <1>1, <1>2
<1>3. ASSUME NEW r \in Runners, AcquireSearchLease(r)
      PROVE  search'.indexed
  <2>1. search' = search \/ search' = [search EXCEPT !.state = "reconstructing",
                                         !.owner = runner[r].a, !.expired = FALSE]
    BY <1>3, LeaseEffect
  <2>2. search' = search \/ search'.state = "reconstructing"
    BY <1>0, <2>1
  <2> QED
    BY <1>2, <2>2
<1>4. ASSUME NEW r \in Runners, DropSearchIndex(r)
      PROVE  FALSE
  <2>1. search.state = "reconstructing"
    BY <1>4 DEF OverlapInvariant, Undisturbed, DropSearchIndex
  <2> QED
    BY <1>0, <1>4, <2>1 DEF DropSearchIndex
<1>5. ASSUME NEW r \in Runners, ReleaseSearchLease(r)
      PROVE  FALSE
  BY <1>5 DEF OverlapInvariant, ReleaseSearchLease
<1>6. ASSUME NEW r \in Runners, ReconstructSearch(r)
      PROVE  search'.indexed
  BY <1>1, <1>6 DEF ReconstructSearch
<1>7. CASE SearchLeaseExpires
  BY <1>0, <1>1, <1>7 DEF SearchLeaseExpires
<1>8. CASE \/ CatalogueWrite \/ ClaimIngestion \/ FinishIngestion
           \/ BeginRecovery \/ AcceptRecovery \/ AdministrationRequest
           \/ \E a \in Attempts, v \in 1..MaxRevision : AcceptPublication(a, v)
           \/ \E a \in Attempts :
                \/ \E linked \in Attempts \cup {None} : StartCatalogueBackup(a, linked)
                \/ DispatchBackup(a) \/ StepTimesOut(a)
                \/ \E r \in Runners : StartTry(r, a) \/ ObserveErroredWorkflow(r, a)
           \/ UNCHANGED vars
           \/ \E r \in Runners : CallFails(r) \/ Crash(r)
  BY <1>2, <1>8 DEF CatalogueWrite, ClaimIngestion, FinishIngestion, BeginRecovery,
     AcceptRecovery, AdministrationRequest, AcceptPublication, backupVars, vars,
     StartCatalogueBackup, DispatchBackup, StepTimesOut, StartTry, ObserveErroredWorkflow,
     CallFails, Crash
<1>9. ASSUME NEW r \in Runners, BackupStep(r)
      PROVE  \/ search' = search \/ AcquireSearchLease(r) \/ DropSearchIndex(r)
             \/ ReleaseSearchLease(r) \/ ReconstructSearch(r)
  BY <1>9 DEF BackupStep, InsertPendingBackup, CheckOperationState,
     CaptureVerificationEvidence, StartBackupExport, FindRetainedObject, RaiseRestoreGuard,
     RaiseHealthFence, CaptureCompositionSnapshot, ExportSql, ClearRestoreGuard, RetainObject,
     TransitionExported, PrepareRestoreTarget, PersistPreparedTarget, TransitionImporting,
     RestoreSql, TransitionRestored, ReconstructAndVerify, RetainManifest, CompleteBackup,
     InspectSnapshotFence, FailActiveAttempt, Advance
<1> QED
  BY <1>2, <1>3, <1>4, <1>5, <1>6, <1>7, <1>8, <1>9, StepCases

LEMMA OverlapStep ==
  ASSUME WellFormed, FenceInvariant, OverlapInvariant, [Next]_vars
  PROVE  OverlapInvariant'
<1>1. TryOfRunning' /\ (NoOverlap' => NoOverlap) /\ (DropNeverFailed' => DropNeverFailed)
  BY OverlapGrows DEF OverlapInvariant
<1>2. NoOverlap' => \A q \in Runners : runner'[q].pc # "idle" => Undisturbed(q)'
  BY ExecutionsUndisturbed
<1>3. NoOverlap' => \A a \in Attempts :
        attempt'[a].state \in Busy /\ attempt'[a].operation = None
          => recovery_health' = "blocked" /\ ~catalogue'.ingesting
  BY <1>1, MaintenanceBlocks
<1>4. NoOverlap' /\ DropNeverFailed' =>
        /\ \A q \in Runners : runner'[q].pc # "release"
        /\ search'.state = "ready" => search'.indexed
  <2>1. ASSUME NoOverlap', DropNeverFailed', NEW q \in Runners, runner'[q].pc = "release"
        PROVE  FALSE
    BY <1>1, <2>1, ReleaseAfterFault DEF OverlapInvariant
  <2>2. ASSUME NoOverlap', DropNeverFailed', search'.state = "ready"
        PROVE  search'.indexed
    BY <1>1, <2>2, IndexStep
  <2> QED
    BY <2>1, <2>2
<1> QED
  BY <1>1, <1>2, <1>3, <1>4 DEF OverlapInvariant, Native

LEMMA OverlapInit == BackupInit => OverlapInvariant
<1> SUFFICES ASSUME BackupInit
             PROVE  OverlapInvariant
  OBVIOUS
<1>1. \A a \in Attempts : attempt[a].state = "absent" /\ workflow[a].runner = None
  BY NoAttemptFields DEF BackupInit, NoWorkflow
<1>2. \A r \in Runners : runner[r].pc = "idle"
  BY IdleFields DEF BackupInit
<1>3. search.indexed
  BY DEF BackupInit
<1> QED
  BY <1>1, <1>2, <1>3, BusyStates DEF OverlapInvariant, TryOfRunning

LEMMA SpecOverlap == Spec => []OverlapInvariant
<1>1. BackupInit => OverlapInvariant
  BY OverlapInit
<1>2. WellFormed /\ FenceInvariant /\ OverlapInvariant /\ [Next]_vars => OverlapInvariant'
  BY OverlapStep
<1> QED
  BY <1>1, <1>2, SpecFences, PTL DEF Spec

(* One backup is under way at a time, never during a recovery, and one that *)
(* is not a publication's keeps the catalogue blocked.                      *)
THEOREM OneBackupAtATime == Spec => []BackupIsExclusive
<1>1. FenceInvariant /\ OverlapInvariant => BackupIsExclusive
  BY DEF FenceInvariant, FencesHeld, OverlapInvariant, BackupIsExclusive
<1> QED
  BY <1>1, SpecFences, SpecOverlap, PTL

(* Without overlap, the guard is up and the catalogue still from the        *)
(* capture of the evidence to the dump.                                     *)
THEOREM SnapshotsAreQuiescent == Spec => []SnapshotIsQuiescent
<1>1. OverlapInvariant => SnapshotIsQuiescent
  <2> SUFFICES ASSUME OverlapInvariant, NoOverlap, NEW r \in Runners, runner[r].mode = "backup",
                      runner[r].pc \in {"capture", "lease", "drop", "release", "dump"}
               PROVE  /\ ~Writable
                      /\ runner[r].pc # "capture" /\ Native(runner[r].a)
                           => runner[r].snapshot = catalogue.contents
    BY DEF SnapshotIsQuiescent
  <2>1. Undisturbed(r)
    BY DEF OverlapInvariant
  <2> QED
    BY <2>1 DEF Undisturbed, FencedCalls, SnapshotCalls
<1> QED
  BY <1>1, SpecOverlap, PTL

(* Without overlap and failed removals, card reads are open only over an    *)
(* index.                                                                   *)
THEOREM OpenSearchIsIndexed == Spec => []SearchReadyMeansIndexed
<1>1. OverlapInvariant => SearchReadyMeansIndexed
  BY DEF OverlapInvariant, SearchReadyMeansIndexed, DropNeverFailed
<1> QED
  BY <1>1, SpecOverlap, PTL

=============================================================================
