------------------------- MODULE CaptureReclamation ------------------------
(***************************************************************************)
(* Source evidence and the cleanups of terminal Ingestion Runs.  A key is  *)
(* claimed once, by a tombstone that is never taken back: it fences every  *)
(* new writer and every new reference, and is followed by the delete.      *)
(* Evidence is retained snapshot by snapshot: whoever retains a snapshot   *)
(* retains its own objects and those of the snapshots it was parsed with.  *)
(*                                                                         *)
(*   runs         Ingestion Runs: active, terminal (failed, rejected or    *)
(*                expired), or aged (terminal past their retention)        *)
(*   owners       evidence_cleanup_inventory: the runs with a row that     *)
(*                names the key                                            *)
(*   snapshots    source_snapshots, with the keys of their own, the        *)
(*                archive blocks no observation has adopted yet, the       *)
(*                parents of their sealed parse contexts, the runs whose   *)
(*                capture reuses them, and whether another row of          *)
(*                evidence_cleanup_retained_snapshots names them           *)
(*   tombstones   evidence_cleanup_objects                                 *)
(*   uploads      evidence_object_writers by token; io is the bucket's     *)
(*                side of the upload, swept a writer that was completed    *)
(*                because its object was absent                            *)
(*   evidence     the bucket: the writer token of each key's object, or 0  *)
(*   pinned       evidence_object_references                               *)
(*   strays       keys of deletes whose answer was lost, which may take    *)
(*                effect at any later time                                 *)
(***************************************************************************)
EXTENDS EvidenceCleanup, Sequences

CONSTANTS Derived,       \* keys of parsed documents and archive blocks; the others are raw bodies
          MaxUploads,    \* writers in a behaviour
          MaxSnapshots   \* snapshots in a behaviour

VARIABLES runs, owners, snapshots, tombstones, uploads, evidence, pinned, strays

captureVars == <<runs, owners, snapshots, tombstones, uploads, evidence, pinned, strays>>

Runs == Cleanups

Upload == [run : Runs, key : Keys, multipart : BOOLEAN, open : BOOLEAN, swept : BOOLEAN,
           io : {"sent", "stored", "refused", "aborted", "discarding", "discarded"}]

Snapshot == [run : Runs, keys : SUBSET Keys, blocks : SUBSET Keys, parents : SUBSET Nat,
             reusers : SUBSET Runs, retained : BOOLEAN]

CaptureTypeOK ==
  /\ CleanupTypeOK
  /\ runs \in [Runs -> {"active", "terminal", "aged"}]
  /\ owners \in [Keys -> SUBSET Runs]
  /\ snapshots \in Seq(Snapshot)
  /\ tombstones \in [Keys -> {"none", "reserved", "deleting", "deleted"}]
  /\ uploads \in Seq(Upload)
  /\ evidence \in [Keys -> Nat]
  /\ pinned \subseteq Keys /\ strays \subseteq Keys

CaptureInit ==
  /\ runs = [r \in Runs |-> "active"]
  /\ owners = [k \in Keys |-> {}]
  /\ snapshots = <<>>
  /\ tombstones = [k \in Keys |-> "none"]
  /\ uploads = <<>>
  /\ evidence = [k \in Keys |-> 0]
  /\ pinned = {} /\ strays = {}

OpenUploads(k) == {t \in DOMAIN uploads : uploads[t].key = k /\ uploads[t].open}

Claimed == {k \in Keys : tombstones[k] # "none"}

CaptureInventory(c) == {k \in Keys : c \in owners[k]}

(* evidence_cleanup_direct_snapshot_keys and ..._snapshot_keys: a snapshot's *)
(* own objects, and those of its parents.                                    *)
DirectKeys(s) == snapshots[s].keys
SnapshotKeys(s) == DirectKeys(s) \cup UNION {DirectKeys(p) : p \in snapshots[s].parents}

(* evidence_cleanup_retained_snapshots: reused by a run that has not failed, *)
(* or named by a decision, a mapping or an operation.                        *)
RetainedSnapshot(s) == snapshots[s].retained \/ \E r \in snapshots[s].reusers : runs[r] = "active"

(* evidence_cleanup_retained_keys: a pin also retains what belongs to the    *)
(* pinned object's snapshots.                                                *)
Retained(k) ==
  \/ k \in pinned
  \/ \E s \in DOMAIN snapshots : /\ k \in SnapshotKeys(s)
                                 /\ RetainedSnapshot(s) \/ DirectKeys(s) \cap pinned # {}

-----------------------------------------------------------------------------
(* Writers.  A raw body is declared with its first writer, by an active run  *)
(* and under a key of its own; it has one writer at a time.  A document or a *)
(* block has one for each try of its step, and an owner may have the         *)
(* snapshot of a run that has ended parsed again.                            *)

(* evidence_cleanup_writer_guard: no tombstone on the key, and no cleanup of *)
(* the run.                                                                  *)
BeginEvidenceObjectWrite(r, k, multipart) ==
  /\ r \in plan.owners /\ k \in plan.keys /\ Len(uploads) < MaxUploads /\ ~fenced
  /\ tombstones[k] = "none" /\ cleanups[r].state = "none" /\ evidence[k] = 0
  /\ IF k \in Derived THEN r \in owners[k] /\ ~multipart
     ELSE /\ runs[r] = "active" /\ owners[k] \subseteq {r} /\ OpenUploads(k) = {}
          /\ \A s \in DOMAIN snapshots : k \notin DirectKeys(s)
  /\ uploads' = Append(uploads, [run |-> r, key |-> k, multipart |-> multipart,
                                 open |-> TRUE, swept |-> FALSE, io |-> "sent"])
  /\ owners' = [owners EXCEPT ![k] = @ \cup {r}]
  /\ UNCHANGED <<cleanupVars, runs, snapshots, tombstones, evidence, pinned, strays>>

(* The bucket stores a sent upload.  A put does not replace an object, the   *)
(* completion of a multipart upload does.                                    *)
LandUpload(t) ==
  LET k == uploads[t].key
      stores == evidence[k] = 0 \/ uploads[t].multipart IN
  /\ uploads[t].io = "sent"
  /\ uploads' = [uploads EXCEPT ![t].io = IF stores THEN "stored" ELSE "refused"]
  /\ evidence' = [evidence EXCEPT ![k] = IF stores THEN t ELSE @]
  /\ UNCHANGED <<cleanupVars, runs, owners, snapshots, tombstones, pinned, strays>>

(* The uploader fails and aborts its multipart upload. *)
AbortUpload(t) ==
  /\ uploads[t].multipart /\ uploads[t].io = "sent" /\ uploads[t].open /\ Happens("discard")
  /\ uploads' = [uploads EXCEPT ![t].io = "aborted"]
  /\ UNCHANGED <<cleanupVars, runs, owners, snapshots, tombstones, evidence, pinned, strays>>

(* The uploader learns that its call settled, or a later step finds the      *)
(* writer's token on the object.  A lost answer leaves the writer open.      *)
CompleteEvidenceWrite(t) ==
  /\ uploads[t].open /\ ~fenced
  /\ uploads[t].io \in {"stored", "refused", "aborted"} \/ evidence[uploads[t].key] = t
  /\ uploads' = [uploads EXCEPT ![t].open = FALSE]
  /\ UNCHANGED <<cleanupVars, runs, owners, snapshots, tombstones, evidence, pinned, strays>>

(* The run's next Workflow Attempt completes the writer of a finished one    *)
(* when the object is absent; the model lets the put land all the same.      *)
SettleTerminalOwnerDispatch(t) ==
  LET k == uploads[t].key IN
  /\ uploads[t].open /\ k \notin Derived /\ runs[uploads[t].run] = "active" /\ ~fenced
  /\ evidence[k] = 0 /\ Happens("sweep")
  /\ uploads' = [uploads EXCEPT ![t].open = FALSE, ![t].swept = TRUE]
  /\ UNCHANGED <<cleanupVars, runs, owners, snapshots, tombstones, evidence, pinned, strays>>

(* A body that failed after its put was stored: the uploader reads its token *)
(* on the object and deletes the object, later and with no guard between.    *)
DiscardBody(t) ==
  /\ uploads[t].io = "stored" /\ uploads[t].open /\ evidence[uploads[t].key] = t
  /\ uploads[t].key \notin Derived /\ ~uploads[t].multipart /\ Happens("discard")
  /\ uploads' = [uploads EXCEPT ![t].io = "discarding"]
  /\ UNCHANGED <<cleanupVars, runs, owners, snapshots, tombstones, evidence, pinned, strays>>

DeleteOwnBody(t) ==
  /\ uploads[t].io = "discarding"
  /\ uploads' = [uploads EXCEPT ![t].io = "discarded"]
  /\ evidence' = [evidence EXCEPT ![uploads[t].key] = 0]
  /\ UNCHANGED <<cleanupVars, runs, owners, snapshots, tombstones, pinned, strays>>

-----------------------------------------------------------------------------
(* Snapshots and who retains them; the triggers named cleanup_reference_*.   *)

(* A captured body becomes a snapshot of its run, or of one that reuses it. *)
FinalizeSnapshot(r, k) ==
  /\ r \in owners[k] /\ k \notin Derived /\ Len(snapshots) < MaxSnapshots /\ ~fenced
  /\ runs[r] = "active" /\ cleanups[r].state = "none" /\ tombstones[k] = "none"
  /\ \E t \in DOMAIN uploads :
       /\ uploads[t].key = k /\ ~uploads[t].open
       /\ uploads[t].io = "stored" \/ (uploads[t].io \in {"discarding", "discarded"} /\ ~uploads[t].swept)
  /\ \A s \in DOMAIN snapshots : snapshots[s].run = r => k \notin DirectKeys(s)
  /\ snapshots' = Append(snapshots, [run |-> r, keys |-> {k}, blocks |-> {}, parents |-> {},
                                     reusers |-> {}, retained |-> FALSE])
  /\ UNCHANGED <<cleanupVars, runs, owners, tombstones, uploads, evidence, pinned, strays>>

(* A parse operation's document is the snapshot's at once; a block, refused  *)
(* while the run is being cleaned up, once an observation adopts it.         *)
DeclareDerived(s, k) ==
  LET r == snapshots[s].run IN
  /\ Happens("derive") /\ k \in plan.keys \cap Derived /\ owners[k] = {} /\ ~fenced
  /\ SnapshotKeys(s) \cap Claimed = {}
  /\ owners' = [owners EXCEPT ![k] = {r}]
  /\ \/ snapshots' = [snapshots EXCEPT ![s].keys = @ \cup {k}]
     \/ /\ cleanups[r].state \in {"none", "completed"}
        /\ snapshots' = [snapshots EXCEPT ![s].blocks = @ \cup {k}]
  /\ UNCHANGED <<cleanupVars, runs, tombstones, uploads, evidence, pinned, strays>>

AdoptBlocks(s) ==
  /\ snapshots[s].blocks # {} /\ ~fenced
  /\ \A k \in snapshots[s].blocks : \E t \in DOMAIN uploads : uploads[t].key = k /\ ~uploads[t].open
  /\ (SnapshotKeys(s) \cup snapshots[s].blocks) \cap Claimed = {}
  /\ snapshots' = [snapshots EXCEPT ![s].keys = @ \cup snapshots[s].blocks, ![s].blocks = {}]
  /\ UNCHANGED <<cleanupVars, runs, owners, tombstones, uploads, evidence, pinned, strays>>

(* The snapshot is parsed with another of its run as context. *)
SealParseContext(s, p) ==
  /\ Happens("depend") /\ s # p /\ snapshots[s].run = snapshots[p].run /\ ~fenced
  /\ snapshots[s].parents = {}
  /\ (DirectKeys(s) \cup DirectKeys(p)) \cap Claimed = {}
  /\ snapshots' = [snapshots EXCEPT ![s].parents = {p}]
  /\ UNCHANGED <<cleanupVars, runs, owners, tombstones, uploads, evidence, pinned, strays>>

(* A 304 of another run reuses the snapshot: cleanup_revalidation. *)
ReuseSnapshot(r, s) ==
  /\ Happens("share") /\ r \in plan.owners /\ r # snapshots[s].run /\ ~fenced
  /\ runs[r] = "active" /\ cleanups[r].state = "none" /\ r \notin snapshots[s].reusers
  /\ SnapshotKeys(s) \cap Claimed = {}
  /\ snapshots' = [snapshots EXCEPT ![s].reusers = @ \cup {r}]
  /\ owners' = [k \in Keys |-> owners[k] \cup (IF k \in DirectKeys(s) \ Derived THEN {r} ELSE {})]
  /\ UNCHANGED <<cleanupVars, runs, tombstones, uploads, evidence, pinned, strays>>

(* A decision or a preparation retains the snapshot, and the preparation may *)
(* fail or be abandoned.                                                     *)
RetainSnapshot(s) ==
  /\ ~snapshots[s].retained /\ Once("retain") /\ ~fenced
  /\ SnapshotKeys(s) \cap Claimed = {}
  /\ snapshots' = [snapshots EXCEPT ![s].retained = TRUE]
  /\ UNCHANGED <<cleanups, jobs, fenced, backup, runs, owners, tombstones, uploads, evidence, pinned, strays>>

ReleaseSnapshot(s) ==
  /\ snapshots[s].retained /\ ~fenced
  /\ snapshots' = [snapshots EXCEPT ![s].retained = FALSE]
  /\ UNCHANGED <<cleanupVars, runs, owners, tombstones, uploads, evidence, pinned, strays>>

(* Mutant: the pin looks at its own key only, not at what it retains with it. *)
PinKeyAlone(k) ==
  /\ Happens("pin") /\ k \notin pinned /\ ~fenced
  /\ k \notin Claimed /\ \E s \in DOMAIN snapshots : k \in DirectKeys(s)
  /\ pinned' = pinned \cup {k}
  /\ UNCHANGED <<cleanupVars, runs, owners, snapshots, tombstones, uploads, evidence, strays>>

(* evidence_cleanup_reference_guard: neither the key nor anything that is    *)
(* retained with it is claimed.                                              *)
PinEvidence(k) ==
  /\ Happens("pin") /\ k \notin pinned /\ ~fenced
  /\ k \notin Claimed /\ \E s \in DOMAIN snapshots : k \in DirectKeys(s)
  /\ \A s \in DOMAIN snapshots : k \in DirectKeys(s) => SnapshotKeys(s) \cap Claimed = {}
  /\ pinned' = pinned \cup {k}
  /\ UNCHANGED <<cleanupVars, runs, owners, snapshots, tombstones, uploads, evidence, strays>>

EndRun(r) ==
  /\ runs[r] = "active" /\ r \in plan.ends /\ ~fenced
  /\ runs' = [runs EXCEPT ![r] = "terminal"]
  /\ UNCHANGED <<cleanupVars, owners, snapshots, tombstones, uploads, evidence, pinned, strays>>

PassRunRetention(r) ==
  /\ runs[r] = "terminal"
  /\ runs' = [runs EXCEPT ![r] = "aged"]
  /\ UNCHANGED <<cleanupVars, owners, snapshots, tombstones, uploads, evidence, pinned, strays>>

BeginEvidenceCleanup(c) ==
  /\ runs[c] = "aged"
  /\ BeginCleanup(c)
  /\ UNCHANGED captureVars

-----------------------------------------------------------------------------
(* One unit of advanceEvidenceCleanup, one action per database or bucket call. *)

(* evidence_cleanup_claim_guard: the key is the cleanup's, nothing retains   *)
(* it, and every run that owns it is past the retention.                     *)
Claimable(c, k) == c \in owners[k] /\ ~Retained(k) /\ \A r \in owners[k] : runs[r] = "aged"

ReadTombstone(d) ==
  /\ jobs[d].pc = "read"
  /\ LET state == tombstones[jobs[d].key] IN
     jobs' = [jobs EXCEPT ![d] = [@ EXCEPT !.pc = IF state = "none" THEN "claim" ELSE "writer", !.seen = state]]
  /\ UNCHANGED <<cleanups, fenced, backup, plan, captureVars>>

ClaimCleanupObject(d) ==
  LET k == jobs[d].key IN
  /\ jobs[d].pc = "claim" /\ ~fenced
  /\ IF tombstones[k] = "none" /\ ~Claimable(d[1], k)
     THEN Conclude(d, "protected") /\ UNCHANGED <<tombstones, backup>>
     ELSE /\ tombstones' = [tombstones EXCEPT ![k] = IF @ = "none" THEN "reserved" ELSE @]
          /\ IF tombstones[k] = "none" THEN DateClaim(d, k) ELSE UNCHANGED backup
          /\ Goto(d, "reread")
  /\ UNCHANGED <<cleanups, fenced, plan, runs, owners, snapshots, uploads, evidence, pinned, strays>>

RereadTombstone(d) ==
  /\ jobs[d].pc = "reread"
  /\ jobs' = [jobs EXCEPT ![d] = [@ EXCEPT !.pc = "writer", !.seen = tombstones[jobs[d].key]]]
  /\ UNCHANGED <<cleanups, fenced, backup, plan, captureVars>>

ReadWriter(d) ==
  LET open == OpenUploads(jobs[d].key) IN
  /\ jobs[d].pc = "writer"
  /\ \/ open = {} /\ Goto(d, "authorize")
     \/ \E t \in open : jobs' = [jobs EXCEPT ![d] = [@ EXCEPT !.pc = "settle", !.ticket = t]]
  /\ UNCHANGED <<cleanups, fenced, backup, plan, captureVars>>

(* Mutant: an absent object settles its writer. *)
SettleByAbsence(d) ==
  /\ jobs[d].pc = "settle"
  /\ Goto(d, "complete")
  /\ UNCHANGED <<cleanups, fenced, backup, plan, captureVars>>

(* The object carries the writer's token, or a multipart upload can be       *)
(* aborted; nothing else lets a cleanup complete a writer.                   *)
SettleWriter(d) ==
  LET t == jobs[d].ticket IN
  /\ jobs[d].pc = "settle"
  /\ IF evidence[jobs[d].key] = t THEN Goto(d, "complete")
     ELSE IF uploads[t].multipart THEN Goto(d, "abort")
     ELSE Conclude(d, "waiting")
  /\ UNCHANGED <<cleanups, fenced, backup, plan, captureVars>>

(* An upload that has been completed or aborted meanwhile may be refused, at *)
(* every retry of the step.                                                  *)
AbortWriter(d) ==
  LET t == jobs[d].ticket IN
  /\ jobs[d].pc = "abort"
  /\ \/ /\ uploads[t].io = "sent" /\ Goto(d, "complete")
        /\ uploads' = [uploads EXCEPT ![t].io = "aborted"]
        /\ UNCHANGED cleanups
     \/ uploads[t].io # "sent" /\ Goto(d, "complete") /\ UNCHANGED <<uploads, cleanups>>
     \/ uploads[t].io # "sent" /\ GiveUp(d) /\ UNCHANGED uploads
  /\ UNCHANGED <<fenced, backup, plan, runs, owners, snapshots, tombstones, evidence, pinned, strays>>

CompleteWriter(d) ==
  /\ jobs[d].pc = "complete" /\ ~fenced
  /\ uploads' = [uploads EXCEPT ![jobs[d].ticket].open = FALSE]
  /\ Goto(d, "others")
  /\ UNCHANGED <<cleanups, fenced, backup, plan, runs, owners, snapshots, tombstones, evidence, pinned, strays>>

CheckOtherWriters(d) ==
  /\ jobs[d].pc = "others"
  /\ IF OpenUploads(jobs[d].key) # {} THEN Conclude(d, "waiting") ELSE Goto(d, "authorize")
  /\ UNCHANGED <<cleanups, fenced, backup, plan, captureVars>>

(* evidence_cleanup_physical_delete_guard.  A tombstone that was read as     *)
(* deleting goes straight to the delete, one read as deleted to its result.  *)
AuthorizeCleanupDelete(d) ==
  LET k == jobs[d].key
      guarded == Retained(k) \/ OpenUploads(k) # {} \/ BackupProtects(k) IN
  /\ jobs[d].pc = "authorize"
  /\ jobs[d].seen = "reserved" => ~fenced
  /\ IF jobs[d].seen = "deleted" THEN Conclude(d, "deleted") /\ UNCHANGED tombstones
     ELSE IF jobs[d].seen = "reserved" /\ tombstones[k] = "reserved" /\ guarded
     THEN Conclude(d, "waiting") /\ UNCHANGED tombstones
     ELSE /\ Goto(d, "guard")
          /\ tombstones' = IF jobs[d].seen = "reserved" /\ tombstones[k] = "reserved"
                           THEN [tombstones EXCEPT ![k] = "deleting"] ELSE tombstones
  /\ UNCHANGED <<cleanups, fenced, backup, plan, runs, owners, snapshots, uploads, evidence, pinned, strays>>

(* cleanupDeleteGuard throws when it fails, and the step starts over; the    *)
(* delete is sent after it, not with it.                                     *)
GuardDelete(d) ==
  LET k == jobs[d].key
      clear == ~Retained(k) /\ OpenUploads(k) = {} /\ ~fenced IN
  /\ jobs[d].pc = "guard"
  /\ IF clear THEN Goto(d, "send")
     ELSE StartOver(d)
  /\ UNCHANGED <<cleanups, fenced, backup, plan, captureVars>>

SendDelete(d) ==
  /\ jobs[d].pc = "send"
  /\ evidence' = [evidence EXCEPT ![jobs[d].key] = 0]
  /\ Goto(d, "deleted")
  /\ UNCHANGED <<cleanups, fenced, backup, plan, runs, owners, snapshots, tombstones, uploads, pinned, strays>>

(* The answer of the delete never comes: the intent pauses and the tombstone *)
(* stays as it is, while the delete may or may not be applied.               *)
LoseDelete(d) ==
  /\ jobs[d].pc = "send" /\ ~fenced /\ Happens("lose_delete")
  /\ strays' = strays \cup {jobs[d].key}
  /\ cleanups' = Pause(d[1])
  /\ Goto(d, "returned")
  /\ UNCHANGED <<fenced, backup, plan, runs, owners, snapshots, tombstones, uploads, evidence, pinned>>

StrayDelete(k) ==
  /\ k \in strays
  /\ evidence' = [evidence EXCEPT ![k] = 0]
  /\ UNCHANGED <<cleanupVars, runs, owners, snapshots, tombstones, uploads, pinned, strays>>

(* The records extracted from the object go a page per unit, then the        *)
(* tombstone is deleted.  A failure of either pauses the intent.             *)
FinishDelete(d) ==
  LET k == jobs[d].key IN
  /\ jobs[d].pc = "deleted" /\ ~fenced
  /\ \/ /\ tombstones' = [tombstones EXCEPT ![k] = IF @ = "deleting" THEN "deleted" ELSE @]
        /\ Conclude(d, "deleted")
        /\ UNCHANGED <<cleanups, plan>>
     \/ /\ Once("records")
        /\ NextUnit(d)
        /\ UNCHANGED <<cleanups, tombstones>>
     \/ /\ Happens("lose_delete")
        /\ cleanups' = Pause(d[1])
        /\ Goto(d, "returned")
        /\ UNCHANGED <<tombstones, plan>>
  /\ UNCHANGED <<fenced, backup, runs, owners, snapshots, uploads, evidence, pinned, strays>>

-----------------------------------------------------------------------------
AdvanceEvidenceCleanup(d) ==
  \/ Advance(d, CaptureInventory(d[1])) /\ UNCHANGED captureVars
  \/ ReadTombstone(d) \/ ClaimCleanupObject(d) \/ RereadTombstone(d) \/ ReadWriter(d)
  \/ SettleWriter(d) \/ AbortWriter(d) \/ CompleteWriter(d) \/ CheckOtherWriters(d) \/ AuthorizeCleanupDelete(d)
  \/ GuardDelete(d) \/ SendDelete(d) \/ LoseDelete(d) \/ FinishDelete(d)

BeingDeleted == {k \in Keys : tombstones[k] = "deleting"}

CaptureBackup ==
  \/ StartBackup(BeingDeleted, {k \in Keys : tombstones[k] # "none"},
                 {k \in Keys : tombstones[k] = "none" /\ evidence[k] # 0})
  \/ FenceSnapshot(BeingDeleted) \/ FinishBackup

CaptureNext ==
  \/ \E r \in Runs, k \in Keys, multipart \in BOOLEAN : BeginEvidenceObjectWrite(r, k, multipart)
  \/ \E r \in Runs, k \in Keys : FinalizeSnapshot(r, k)
  \/ \E t \in DOMAIN uploads :
       \/ LandUpload(t) \/ AbortUpload(t) \/ CompleteEvidenceWrite(t)
       \/ SettleTerminalOwnerDispatch(t) \/ DiscardBody(t) \/ DeleteOwnBody(t)
  \/ \E s \in DOMAIN snapshots :
       \/ \E k \in Keys : DeclareDerived(s, k)
       \/ \E p \in DOMAIN snapshots : SealParseContext(s, p)
       \/ \E r \in Runs : ReuseSnapshot(r, s)
       \/ AdoptBlocks(s) \/ RetainSnapshot(s) \/ ReleaseSnapshot(s)
  \/ \E k \in Keys : PinEvidence(k) \/ StrayDelete(k)
  \/ \E r \in Runs : EndRun(r) \/ PassRunRetention(r) \/ BeginEvidenceCleanup(r)
  \/ \E d \in Executions : AdvanceEvidenceCleanup(d)
  \/ \E d \in Executions : LoseExecution(d, {"abort", "complete", "deleted"}) /\ UNCHANGED captureVars
  \/ \E c \in Cleanups : Request(c) /\ UNCHANGED captureVars
  \/ \E d \in Executions : Exhaust(d) /\ UNCHANGED captureVars
  \/ CaptureBackup /\ UNCHANGED captureVars

-----------------------------------------------------------------------------
(* An uploader that found its body failed has deleted, or will delete, what  *)
(* is stored under its key.                                                  *)
Discarded(k) == \E t \in DOMAIN uploads : uploads[t].key = k /\ uploads[t].io \in {"discarding", "discarded"}

(* Reclaimed evidence stays gone: no upload that was registered before the   *)
(* claim, and no multipart upload that was aborted, stores bytes under a     *)
(* deleted tombstone.  The one exception is a put whose writer was completed *)
(* because its object was absent.  (openEvidenceWriter,                      *)
(* evidence_cleanup_writer_guard, settleTerminalOwnerDispatches)             *)
ReclaimedStaysGone ==
  \A k \in Keys : tombstones[k] = "deleted" => evidence[k] = 0 \/ uploads[evidence[k]].swept

(* Evidence that is retained, itself or with a snapshot, or that a live run  *)
(* owns, is never deleted by a cleanup: not between the guard and the        *)
(* delete, and not by a delete that arrives late.  (cleanupDeleteGuard,      *)
(* evidence_cleanup_reference_guard, evidence_cleanup_retained_keys)         *)
DeleteSparesEvidence ==
  [][\A k \in Keys : (Retained(k) \/ \E r \in owners[k] : runs[r] = "active") =>
       evidence[k] = 0 \/ evidence'[k] # 0 \/ Discarded(k)]_<<evidence, pinned, owners, snapshots, runs>>
=============================================================================
