------------------------ MODULE EvidenceReclamation ------------------------
(***************************************************************************)
(* The reclamation of physical objects: one machinery of intents,          *)
(* executions and backups (EvidenceCleanup) over the two kinds of objects  *)
(* it deletes.  The plan of a behaviour says which kind it is about; the   *)
(* two share no key and no object, so the other kind rests.                *)
(***************************************************************************)
EXTENDS StagingReclamation, CaptureReclamation

vars == <<cleanupVars, stagingVars, captureVars>>

Init == CleanupInit /\ StagingInit /\ CaptureInit

OfStaging == plan.scope = "staging" /\ UNCHANGED captureVars
OfCapture == plan.scope = "capture" /\ UNCHANGED stagingVars

Next ==
  \/ OfStaging /\ StagingNext
  \/ OfCapture /\ CaptureNext
  \/ Unfence /\ UNCHANGED <<stagingVars, captureVars>>

Spec == Init /\ [][Next]_vars

(* Some execution advances while one of them can, the answer it awaits from  *)
(* the bucket arrives, and a snapshot lowers its fence.  Nothing is assumed  *)
(* of a put, of a call whose answer was lost, or of owners and preparations. *)
Advances(d) ==
  \/ OfStaging /\ AdvanceStagingCleanup(d)
  \/ OfStaging /\ jobs[d].pc = "deleting" /\ LandDelete(jobs[d].ticket)
  \/ OfCapture /\ AdvanceEvidenceCleanup(d)

FairSpec ==
  /\ Spec
  /\ WF_vars(\E d \in Executions : Advances(d))
  /\ WF_vars(Unfence /\ UNCHANGED <<stagingVars, captureVars>>)

(* While a backup may be restored, every object stays that it found stored   *)
(* and unclaimed, but for one that a step already under way claims with its  *)
(* earlier clock, or that its uploader discards.                             *)
(* (evidence_cleanup_physical_delete_guard, staging_physical_guard,          *)
(* cleanup_backup_start, staging_backup_start)                               *)
BackupKeepsObjects ==
  backup.state \in {"running", "retained"} =>
    \A k \in backup.found : IF plan.scope = "staging" THEN stored[k] # 0
                           ELSE evidence[k] # 0 \/ Discarded(k)

TypeOK == StagingTypeOK /\ CaptureTypeOK

=============================================================================
