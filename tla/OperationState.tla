--------------------------- MODULE OperationState ---------------------------
(***************************************************************************)
(* The singleton row `operation_state` of the Catalogue database: the      *)
(* fences every other component reads before it writes.                    *)
(*                                                                         *)
(*   recovery_health          healthy | degraded | blocked                 *)
(*   recovery_restore_guard   clear | blocked                              *)
(*   active_recovery          active_recovery_id IS NOT NULL               *)
(*   active_release           active_production_release_id IS NOT NULL     *)
(*                                                                         *)
(* Each operator is one UPDATE of that row, with the WHERE clause of the   *)
(* statement as its guard.  Backup, recovery and release code issue them;  *)
(* modules that only need to live under the fences take FenceStep, in      *)
(* which any of the statements may run at any moment its WHERE allows.     *)
(***************************************************************************)
CONSTANT FenceUsers   \* bound: who moves the fences in this instance

ASSUME FenceUsersAssumption ==
  FenceUsers \subseteq {"maintenance", "snapshot", "recovery", "release"}

VARIABLES recovery_health, recovery_restore_guard, active_recovery, active_release

operationStateVars ==
  <<recovery_health, recovery_restore_guard, active_recovery, active_release>>

OperationStateTypeOK ==
  /\ recovery_health \in {"healthy", "degraded", "blocked"}
  /\ recovery_restore_guard \in {"clear", "blocked"}
  /\ active_recovery \in BOOLEAN
  /\ active_release \in BOOLEAN

OperationStateInit ==
  /\ recovery_health = "healthy"
  /\ recovery_restore_guard = "clear"
  /\ active_recovery = FALSE
  /\ active_release = FALSE

(* Mutant: a catalogue without the recovery_fence triggers. *)
WritableWithoutTriggers == recovery_restore_guard \in {"clear", "blocked"}

(* BEFORE INSERT/UPDATE/DELETE triggers on the catalogue tables abort every *)
(* statement while the restore guard is blocked.                            *)
Writable == recovery_restore_guard = "clear"

Healthy == recovery_health = "healthy"

(* The fences publication asks for: nothing may be recovering, snapshotting *)
(* or releasing.                                                            *)
RecoveryVerified == Healthy /\ ~active_recovery /\ Writable

-----------------------------------------------------------------------------
(* A backup without a publication closes the catalogue while it runs. *)
ReserveBackupOperation ==
  /\ recovery_health # "blocked"
  /\ recovery_health' = "blocked"
  /\ UNCHANGED <<recovery_restore_guard, active_recovery, active_release>>

(* The guard goes up before the SQL snapshot is taken. *)
BlockBackupRestore ==
  /\ recovery_restore_guard = "clear"
  /\ recovery_restore_guard' = "blocked"
  /\ UNCHANGED <<recovery_health, active_recovery, active_release>>

(* A publication's backup also closes the health fence during the snapshot. *)
FenceCompositionSnapshot ==
  /\ ~active_recovery
  /\ recovery_restore_guard = "blocked"
  /\ recovery_health' = "blocked"
  /\ UNCHANGED <<recovery_restore_guard, active_recovery, active_release>>

(* The `finally` of the snapshot; it never lifts a recovery's guard. *)
ClearBackupRestore(native) ==
  /\ recovery_restore_guard = "blocked"
  /\ ~active_recovery
  /\ recovery_restore_guard' = "clear"
  /\ recovery_health' = IF native THEN "healthy" ELSE recovery_health
  /\ UNCHANGED <<active_recovery, active_release>>

(* The last statement of a verified backup.  A recovery in progress aborts  *)
(* the batch it belongs to.                                                 *)
RestoreHealthyBackupState ==
  /\ ~(recovery_health = "blocked" /\ active_recovery)
  /\ recovery_health' = "healthy"
  /\ UNCHANGED <<recovery_restore_guard, active_recovery, active_release>>

(* A failed active backup leaves the catalogue degraded. *)
DegradeActiveBackupState ==
  /\ ~(recovery_health = "blocked" /\ active_recovery)
  /\ recovery_health' = IF recovery_health = "blocked" THEN "degraded" ELSE recovery_health
  /\ UNCHANGED <<recovery_restore_guard, active_recovery, active_release>>

(* Every administration request first propagates a raised guard to health. *)
EnforceRecoveryRestoreGuard ==
  /\ recovery_restore_guard = "blocked"
  /\ recovery_health' = "blocked"
  /\ UNCHANGED <<recovery_restore_guard, active_recovery, active_release>>

(* A recovery closes every fence at once.  `linked` is the retry of a       *)
(* recovery that failed and still holds the fences.                         *)
ReserveRecoveryOperation(linked) ==
  /\ ~active_release
  /\ IF linked THEN recovery_health = "blocked" /\ active_recovery
               ELSE recovery_health # "blocked" /\ ~active_recovery
  /\ recovery_health' = "blocked"
  /\ recovery_restore_guard' = "blocked"
  /\ active_recovery' = TRUE
  /\ UNCHANGED active_release

(* Only the owner's acceptance of the recovery opens them again. *)
ReleaseAcceptedRecovery ==
  /\ recovery_health = "blocked"
  /\ active_recovery
  /\ recovery_health' = "healthy"
  /\ recovery_restore_guard' = "clear"
  /\ active_recovery' = FALSE
  /\ UNCHANGED active_release

(* A production release leases a healthy catalogue, or the verified         *)
(* replacement database of a recovery it hands over ...                     *)
ClaimProductionRelease ==
  /\ ~active_release
  /\ RecoveryVerified \/ (recovery_health = "blocked" /\ active_recovery)
  /\ active_release' = TRUE
  /\ UNCHANGED <<recovery_health, recovery_restore_guard, active_recovery>>

(* ... and its cleanup, or the lease's expiry, lets it go. *)
ReleaseProductionRelease ==
  /\ active_release
  /\ active_release' = FALSE
  /\ UNCHANGED <<recovery_health, recovery_restore_guard, active_recovery>>

(* Everything that moves the fences except a recovery's acceptance, which   *)
(* also classifies work and belongs to the module that owns the work.       *)
FenceStep ==
  \/ /\ "maintenance" \in FenceUsers
     /\ \/ ReserveBackupOperation
        \/ RestoreHealthyBackupState
        \/ DegradeActiveBackupState
  \/ /\ "snapshot" \in FenceUsers
     /\ \/ BlockBackupRestore
        \/ FenceCompositionSnapshot
        \/ EnforceRecoveryRestoreGuard
        \/ \E native \in BOOLEAN : ClearBackupRestore(native)
  \/ "recovery" \in FenceUsers /\ ReserveRecoveryOperation(FALSE)
  \/ "release" \in FenceUsers /\ (ClaimProductionRelease \/ ReleaseProductionRelease)

=============================================================================
