--------------------- MODULE EvidenceReclamationProofs ---------------------
(***************************************************************************)
(* What the reclamation of objects keeps, for every number of owners, keys,*)
(* tickets and executions: a reclaimed key stays empty, bytes that are     *)
(* retained are never deleted, and a backup keeps what it found.           *)
(*                                                                         *)
(* The plan of a behaviour chooses the kind of objects; the invariant is   *)
(* the one of that kind, with the other kind at rest.                      *)
(***************************************************************************)
EXTENDS EvidenceReclamation, StagingReclamationProofs

(* Most steps are first-order: Zenon proves them unless they name SMT. *)
USE ZenonT(30)

-----------------------------------------------------------------------------
(* Evidence.  A closed upload is settled in the bucket, unless its writer    *)
(* was swept, and a key that is being deleted has no open one.               *)
Doomed(k) == tombstones[k] \in {"deleting", "deleted"}

UploadOK(t) ==
  LET u == uploads[t] IN
  /\ u.io = "sent" => u.open \/ u.swept
  /\ u.open => ~Doomed(u.key)

(* A key holds nothing but what a swept writer may have left. *)
Clean(k) == evidence[k] = 0 \/ uploads[evidence[k]].swept

BytesOK(k) ==
  /\ evidence[k] # 0 => /\ evidence[k] \in DOMAIN uploads /\ uploads[evidence[k]].key = k
                        /\ uploads[evidence[k]].io \in {"stored", "discarding"}
  /\ tombstones[k] = "deleted" => Clean(k)
  /\ k \in strays => Doomed(k)

(* A tombstone is only on keys that nothing retains and whose owners are all *)
(* past their retention, and stays so.  A key without an owner is new.       *)
FreeOK(k) ==
  /\ tombstones[k] # "none" => ~Retained(k) /\ \A r \in owners[k] : runs[r] = "aged"
  /\ tombstones[k] # "none" \/ k \in pinned => owners[k] # {}

SnapshotOK(s) ==
  /\ snapshots[s].parents \subseteq DOMAIN snapshots
  /\ \A k \in snapshots[s].keys \cup snapshots[s].blocks : owners[k] # {}

PreservedOK(k) ==
  Protecting /\ k \in backup.found =>
    k \notin backup.older /\ tombstones[k] \in {"none", "reserved"} /\ (evidence[k] # 0 \/ Discarded(k))

(* A tombstone is never taken back, so what an execution has read of it is a *)
(* lower bound; from the guard on, its key is being deleted.                 *)
CaptureJobOK(d) ==
  LET j == jobs[d] IN
  /\ j.pc \in CapturePoints => j.key \in Keys
  /\ j.pc = "reread" => tombstones[j.key] # "none"
  /\ j.pc \in {"writer", "settle", "abort", "complete", "others", "authorize"} =>
       /\ j.seen \in {"reserved", "deleting", "deleted"} /\ tombstones[j.key] # "none"
       /\ j.seen \in {"deleting", "deleted"} => Doomed(j.key)
  /\ j.pc \in {"settle", "abort", "complete"} => j.ticket \in DOMAIN uploads
  /\ j.pc = "complete" => uploads[j.ticket].io # "sent"
  /\ j.pc \in {"guard", "send", "deleted"} => Doomed(j.key)
  /\ j.pc = "deleted" => Clean(j.key)

CaptureTyped ==
  /\ runs \in [Runs -> {"active", "terminal", "aged"}]
  /\ owners \in [Keys -> SUBSET Runs]
  /\ snapshots \in Seq(Snapshot)
  /\ tombstones \in [Keys -> {"none", "reserved", "deleting", "deleted"}]
  /\ uploads \in Seq(Upload)
  /\ evidence \in [Keys -> Nat]
  /\ pinned \subseteq Keys /\ strays \subseteq Keys

ReferencesOK ==
  /\ \A k \in Keys : FreeOK(k)
  /\ \A s \in DOMAIN snapshots : SnapshotOK(s)

ObjectsOK ==
  /\ \A t \in DOMAIN uploads : UploadOK(t)
  /\ \A k \in Keys : BytesOK(k) /\ PreservedOK(k)

CaptureInvariant ==
  /\ CaptureTyped /\ ObjectsOK /\ ReferencesOK
  /\ \A d \in Executions : CaptureJobOK(d)

ReclamationInvariant ==
  /\ ExecutionsTyped
  /\ plan.scope = "staging" => StagingInvariant /\ CaptureInit
  /\ plan.scope = "capture" => CaptureInvariant /\ StagingInit

-----------------------------------------------------------------------------
(* Steps of evidence.  A tombstone is never taken back, an upload settles    *)
(* once, and a doomed key that is clean stays clean: what an execution has   *)
(* learnt stays true.                                                        *)
Forward ==
  /\ \A k \in Keys : tombstones[k] # "none" => tombstones'[k] # "none"
  /\ \A k \in Keys : Doomed(k) => Doomed(k)'
  /\ \A k \in Keys : Doomed(k) /\ Clean(k) => Clean(k)'
  /\ DOMAIN uploads \subseteq DOMAIN uploads'
  /\ \A t \in DOMAIN uploads : uploads'[t].io = "sent" => uploads[t].io = "sent"

LEMMA JobStays ==
  ASSUME CaptureInvariant, Forward, NEW e \in Executions, jobs'[e] = jobs[e]
  PROVE  CaptureJobOK(e)'
<1>1. CaptureJobOK(e)
  BY DEF CaptureInvariant
<1>2. jobs[e].pc \in {"reread", "writer", "settle", "abort", "complete", "others", "authorize", "guard", "send",
                      "deleted"} => jobs[e].key \in Keys
  BY <1>1 DEF CaptureJobOK, CapturePoints
<1> QED
  BY <1>1, <1>2 DEF Forward, CaptureJobOK

LEMMA CaptureJobStep ==
  ASSUME CaptureInvariant, Forward, NEW d \in Executions, OnlyJob(d), CaptureJobOK(d)'
  PROVE  \A e \in Executions : CaptureJobOK(e)'
<1>1. ASSUME NEW e \in Executions, e # d PROVE CaptureJobOK(e)'
  BY <1>1, JobStays DEF OnlyJob
<1> QED
  BY <1>1

LEMMA CaptureJobsRest ==
  ASSUME CaptureInvariant, Forward, Rests
  PROVE  \A e \in Executions : CaptureJobOK(e)'
<1>1. CommonPoints \cap CapturePoints = {}
  BY DEF CommonPoints, CapturePoints
<1>2. ASSUME NEW e \in Executions PROVE CaptureJobOK(e)'
  <2>1. CASE jobs'[e] = jobs[e]
    BY <2>1, JobStays
  <2>2. CASE jobs'[e].pc \in CommonPoints
    <3>1. jobs'[e].pc \notin CapturePoints
      BY <1>1, <2>2
    <3> QED
      BY <3>1 DEF CaptureJobOK, CapturePoints
  <2>3. CASE jobs'[e].pc = "read" /\ jobs'[e].key \in Keys
    BY <2>3 DEF CaptureJobOK
  <2> QED
    BY <2>1, <2>2, <2>3 DEF Rests
<1> QED
  BY <1>2

(* At a record point an execution holds nothing. *)
LEMMA RecordHolds ==
  ASSUME NEW d \in Executions, jobs'[d].pc = "record"
  PROVE  CaptureJobOK(d)'
  BY DEF CaptureJobOK, CapturePoints

(* References, when neither they nor the runs nor the tombstones change. *)
LEMMA ReferencesStay ==
  ASSUME ReferencesOK, UNCHANGED <<runs, owners, snapshots, tombstones, pinned>>
  PROVE  ReferencesOK'
<1>1. \A k \in Keys : Retained(k)' <=> Retained(k)
  BY DEF Retained, SnapshotKeys, DirectKeys, RetainedSnapshot
<1>2. ASSUME NEW k \in Keys PROVE FreeOK(k)'
  BY <1>1 DEF ReferencesOK, FreeOK
<1>3. ASSUME NEW s \in DOMAIN snapshots PROVE SnapshotOK(s)'
  BY DEF ReferencesOK, SnapshotOK
<1> QED
  BY <1>2, <1>3 DEF ReferencesOK

LEMMA SnapshotTyped ==
  ASSUME CaptureTyped, NEW s \in DOMAIN snapshots
  PROVE  /\ snapshots[s] \in Snapshot /\ s \in Nat /\ snapshots[s].run \in Runs
         /\ snapshots[s].keys \subseteq Keys /\ snapshots[s].blocks \subseteq Keys
         /\ snapshots[s].reusers \subseteq Runs /\ snapshots[s].parents \subseteq Nat
<1>1. snapshots \in Seq(Snapshot)
  BY DEF CaptureTyped
<1>2. snapshots[s] \in Snapshot /\ s \in Nat
  BY <1>1, SMT
<1> QED
  BY <1>2 DEF Snapshot

(* References, when what has a tombstone gains no owner and no retention. *)
LEMMA ReferencesMove ==
  ASSUME ReferencesOK, tombstones' = tombstones,
         \A k \in Keys : owners[k] \subseteq owners'[k],
         \A k \in Keys : tombstones[k] # "none" => owners'[k] = owners[k] /\ (Retained(k)' => Retained(k)),
         \A k \in Keys : \A r \in owners[k] : runs[r] = "aged" => runs'[r] = "aged",
         \A k \in pinned' \ pinned : owners[k] # {},
         \A s \in DOMAIN snapshots' : SnapshotOK(s)'
  PROVE  ReferencesOK'
<1>1. ASSUME NEW k \in Keys PROVE FreeOK(k)'
  <2>1. FreeOK(k)
    BY DEF ReferencesOK
  <2>2. tombstones'[k] # "none" => ~Retained(k)' /\ \A r \in owners'[k] : runs'[r] = "aged"
    BY <2>1 DEF FreeOK
  <2>3. tombstones'[k] # "none" \/ k \in pinned' => owners'[k] # {}
    BY <2>1 DEF FreeOK
  <2> QED
    BY <2>2, <2>3 DEF FreeOK
<1> QED
  BY <1>1 DEF ReferencesOK

LEMMA SnapshotsOwned ==
  ASSUME CaptureTyped, ReferencesOK, snapshots' = snapshots, \A k \in Keys : owners[k] \subseteq owners'[k]
  PROVE  \A s \in DOMAIN snapshots' : SnapshotOK(s)'
<1>1. ASSUME NEW s \in DOMAIN snapshots PROVE SnapshotOK(s)'
  <2>1. SnapshotOK(s) /\ snapshots[s].keys \subseteq Keys /\ snapshots[s].blocks \subseteq Keys
    BY SnapshotTyped DEF ReferencesOK
  <2> QED
    BY <2>1 DEF SnapshotOK
<1> QED
  BY <1>1

(* A snapshot gains keys, parents or holders: what may become retained by it *)
(* has no tombstone.                                                         *)
SnapshotMoves(s, x, fresh) ==
  /\ fresh \cap Claimed = {}
  /\ x.keys \subseteq DirectKeys(s) \cup fresh
  /\ x.parents \subseteq DOMAIN snapshots
  /\ \A p \in x.parents : DirectKeys(p) \subseteq SnapshotKeys(s) \cup fresh
  /\ \/ SnapshotKeys(s) \subseteq fresh
     \/ /\ x.keys \cap pinned \subseteq DirectKeys(s)
        /\ x.retained => snapshots[s].retained
        /\ x.reusers = snapshots[s].reusers
  /\ owners' \in [Keys -> SUBSET Runs]
  /\ \A k \in Keys : owners[k] \subseteq owners'[k] /\ (tombstones[k] # "none" => owners'[k] = owners[k])
  /\ \A k \in x.keys \cup x.blocks : owners'[k] # {}

LEMMA SnapshotChanges ==
  ASSUME CaptureTyped, ReferencesOK, NEW s \in DOMAIN snapshots, NEW x \in Snapshot, NEW fresh,
         snapshots' = [snapshots EXCEPT ![s] = x], UNCHANGED <<runs, tombstones, pinned>>,
         SnapshotMoves(s, x, fresh)
  PROVE  snapshots' \in Seq(Snapshot) /\ ReferencesOK'
<1>1. /\ snapshots' \in Seq(Snapshot) /\ DOMAIN snapshots' = DOMAIN snapshots /\ snapshots'[s] = x
      /\ \A u \in DOMAIN snapshots : u # s => snapshots'[u] = snapshots[u]
  BY TicketChanged DEF CaptureTyped
<1>2. \A u \in DOMAIN snapshots : SnapshotOK(u)
  BY DEF ReferencesOK
<1>3. ASSUME NEW u \in DOMAIN snapshots PROVE DirectKeys(u)' \subseteq DirectKeys(u) \cup fresh
  BY <1>1 DEF DirectKeys, SnapshotMoves
<1>4. ASSUME NEW u \in DOMAIN snapshots PROVE SnapshotKeys(u)' \subseteq SnapshotKeys(u) \cup fresh
  <2>1. snapshots'[u].parents \subseteq DOMAIN snapshots
    BY <1>1, <1>2 DEF SnapshotOK, SnapshotMoves
  <2>2. ASSUME NEW p \in snapshots'[u].parents PROVE DirectKeys(p)' \subseteq SnapshotKeys(u) \cup fresh
    <3>1. DirectKeys(p)' \subseteq DirectKeys(p) \cup fresh
      BY <1>3, <2>1
    <3>2. DirectKeys(p) \subseteq SnapshotKeys(u) \cup fresh
      BY <1>1 DEF SnapshotKeys, SnapshotMoves
    <3> QED
      BY <3>1, <3>2
  <2>3. DirectKeys(u)' \subseteq SnapshotKeys(u) \cup fresh
    BY <1>3 DEF SnapshotKeys
  <2> QED
    BY <2>2, <2>3 DEF SnapshotKeys
<1>5. ASSUME NEW k \in Keys, tombstones[k] # "none", Retained(k)' PROVE Retained(k)
  <2>0. k \notin fresh
    BY <1>5 DEF Claimed, SnapshotMoves
  <2>1. CASE k \in pinned
    BY <2>1 DEF Retained
  <2>2. CASE k \notin pinned
    <3>1. PICK u \in DOMAIN snapshots : /\ k \in SnapshotKeys(u)'
                                        /\ RetainedSnapshot(u)' \/ (DirectKeys(u)' \cap pinned # {})
      BY <1>1, <1>5, <2>2 DEF Retained
    <3>2. k \in SnapshotKeys(u)
      BY <1>4, <2>0, <3>1
    <3>3. RetainedSnapshot(u) \/ DirectKeys(u) \cap pinned # {}
      <4>1. CASE u # s
        BY <1>1, <3>1, <4>1 DEF RetainedSnapshot, DirectKeys
      <4>2. CASE u = s
        <5>1. /\ x.keys \cap pinned \subseteq DirectKeys(s) /\ (x.retained => snapshots[s].retained)
              /\ x.reusers = snapshots[s].reusers
          BY <2>0, <3>2, <4>2 DEF SnapshotMoves
        <5>2. CASE RetainedSnapshot(u)'
          BY <1>1, <4>2, <5>1, <5>2 DEF RetainedSnapshot
        <5>3. CASE DirectKeys(u)' \cap pinned # {}
          BY <1>1, <4>2, <5>1, <5>3 DEF DirectKeys
        <5> QED
          BY <3>1, <5>2, <5>3
      <4> QED
        BY <4>1, <4>2
    <3> QED
      BY <3>2, <3>3 DEF Retained
  <2> QED
    BY <2>1, <2>2
<1>6. ASSUME NEW u \in DOMAIN snapshots' PROVE SnapshotOK(u)'
  <2>1. CASE u = s
    BY <1>1, <2>1 DEF SnapshotOK, SnapshotMoves
  <2>2. CASE u # s
    <3>1. SnapshotOK(u) /\ snapshots[u].keys \subseteq Keys /\ snapshots[u].blocks \subseteq Keys
      BY <1>1, <1>2, SnapshotTyped
    <3> QED
      BY <1>1, <2>2, <3>1 DEF SnapshotOK, SnapshotMoves
  <2> QED
    BY <2>1, <2>2
<1>7. /\ \A k \in Keys : owners[k] \subseteq owners'[k]
      /\ \A k \in Keys : tombstones[k] # "none" => owners'[k] = owners[k]
  BY DEF SnapshotMoves
<1> QED
  BY <1>1, <1>5, <1>6, <1>7, ReferencesMove

(* What a step leaves alone of the objects. *)
LEMMA CaptureStill ==
  ASSUME CaptureInvariant, UNCHANGED captureVars
  PROVE  /\ CaptureTyped' /\ Forward /\ ReferencesOK'
         /\ \A t \in DOMAIN uploads' : UploadOK(t)'
         /\ \A k \in Keys : BytesOK(k)'
         /\ backup' = backup => ObjectsOK'
<1>1. /\ runs' = runs /\ owners' = owners /\ tombstones' = tombstones /\ uploads' = uploads
      /\ evidence' = evidence /\ pinned' = pinned /\ strays' = strays /\ snapshots' = snapshots
  BY DEF captureVars
<1>2. CaptureTyped' /\ Forward
  BY <1>1 DEF CaptureInvariant, CaptureTyped, Forward, Doomed, Clean
<1>3. \A t \in DOMAIN uploads' : UploadOK(t)'
  BY <1>1 DEF CaptureInvariant, ObjectsOK, UploadOK, Doomed
<1>4. \A k \in Keys : BytesOK(k)'
  BY <1>1 DEF CaptureInvariant, ObjectsOK, BytesOK, Doomed, Clean
<1>5. backup' = backup => \A k \in Keys : PreservedOK(k)'
  BY <1>1 DEF CaptureInvariant, ObjectsOK, PreservedOK, Protecting, Discarded
<1>6. ReferencesOK'
  BY <1>1, ReferencesStay DEF CaptureInvariant
<1> QED
  BY <1>2, <1>3, <1>4, <1>5, <1>6 DEF ObjectsOK

LEMMA CaptureRests ==
  ASSUME CaptureInvariant, UNCHANGED captureVars, Rests, backup' = backup
  PROVE  CaptureInvariant'
  BY CaptureStill, CaptureJobsRest DEF CaptureInvariant

(* The types and the tickets a step may use. *)
LEMMA UploadTyped ==
  ASSUME CaptureInvariant, NEW t \in DOMAIN uploads
  PROVE  uploads[t] \in Upload /\ uploads[t].key \in Keys /\ t \in Nat \ {0} /\ UploadOK(t)
<1>1. uploads \in Seq(Upload) /\ UploadOK(t)
  BY DEF CaptureInvariant, CaptureTyped, ObjectsOK
<1>2. uploads[t] \in Upload /\ t \in Nat \ {0}
  BY <1>1, SMT
<1> QED
  BY <1>1, <1>2 DEF Upload

(* One upload moves forward, and its object stays. *)
LEMMA UploadMoves ==
  ASSUME CaptureInvariant, NEW t \in DOMAIN uploads, NEW x \in Upload, x.key = uploads[t].key,
         uploads' = [uploads EXCEPT ![t] = x], tombstones' = tombstones,
         x.io = "sent" => uploads[t].io = "sent" /\ (x.open \/ x.swept),
         x.open => uploads[t].open,
         uploads[t].swept => x.swept,
         uploads[t].io \in {"discarding", "discarded"} => x.io \in {"discarding", "discarded"}
  PROVE  /\ uploads' \in Seq(Upload) /\ DOMAIN uploads' = DOMAIN uploads /\ uploads'[t] = x
         /\ \A u \in DOMAIN uploads : u # t => uploads'[u] = uploads[u]
         /\ \A u \in DOMAIN uploads' : UploadOK(u)'
         /\ \A u \in DOMAIN uploads : /\ uploads'[u].io = "sent" => uploads[u].io = "sent"
                                      /\ uploads[u].swept => uploads'[u].swept
                                      /\ uploads'[u].key = uploads[u].key
         /\ \A k \in Keys : Discarded(k) => Discarded(k)'
<1>1. uploads \in Seq(Upload) /\ \A u \in DOMAIN uploads : UploadOK(u)
  BY DEF CaptureInvariant, CaptureTyped, ObjectsOK
<1>2. /\ uploads' \in Seq(Upload) /\ DOMAIN uploads' = DOMAIN uploads /\ uploads'[t] = x
      /\ \A u \in DOMAIN uploads : u # t => uploads'[u] = uploads[u]
  BY <1>1, TicketChanged
<1>3. ASSUME NEW u \in DOMAIN uploads PROVE UploadOK(u)'
  BY <1>1, <1>2 DEF UploadOK, Doomed
<1>4. ASSUME NEW k \in Keys, NEW u \in DOMAIN uploads, uploads[u].key = k,
             uploads[u].io \in {"discarding", "discarded"}
      PROVE  uploads'[u].key = k /\ uploads'[u].io \in {"discarding", "discarded"}
  BY <1>2, <1>4
<1>5. \A k \in Keys : Discarded(k) => Discarded(k)'
  BY <1>2, <1>4 DEF Discarded
<1>6. ASSUME NEW u \in DOMAIN uploads
      PROVE  /\ uploads'[u].io = "sent" => uploads[u].io = "sent"
             /\ uploads[u].swept => uploads'[u].swept
             /\ uploads'[u].key = uploads[u].key
  BY <1>2
<1> QED
  BY <1>2, <1>3, <1>5, <1>6

(* A step of the writers that only moves one upload forward. *)
LEMMA UploadSettles ==
  ASSUME CaptureInvariant, NEW t \in DOMAIN uploads, NEW x \in Upload, x.key = uploads[t].key,
         uploads' = [uploads EXCEPT ![t] = x],
         UNCHANGED <<runs, owners, snapshots, tombstones, evidence, pinned, strays, backup>>,
         x.io = "sent" => uploads[t].io = "sent" /\ (x.open \/ x.swept),
         x.open => uploads[t].open,
         uploads[t].swept => x.swept,
         uploads[t].io \in {"discarding", "discarded"} => x.io \in {"discarding", "discarded"},
         uploads[t].io \in {"stored", "discarding"} => x.io \in {"stored", "discarding"}
  PROVE  CaptureTyped' /\ ObjectsOK' /\ ReferencesOK' /\ Forward /\ uploads'[t] = x /\ DOMAIN uploads' = DOMAIN uploads
<1>1. /\ uploads' \in Seq(Upload) /\ DOMAIN uploads' = DOMAIN uploads /\ uploads'[t] = x
      /\ \A u \in DOMAIN uploads : u # t => uploads'[u] = uploads[u]
      /\ \A u \in DOMAIN uploads' : UploadOK(u)'
      /\ \A u \in DOMAIN uploads : /\ uploads'[u].io = "sent" => uploads[u].io = "sent"
                                   /\ uploads[u].swept => uploads'[u].swept
                                   /\ uploads'[u].key = uploads[u].key
      /\ \A k \in Keys : Discarded(k) => Discarded(k)'
  BY UploadMoves
<1>2. CaptureTyped /\ ReferencesOK /\ \A k \in Keys : BytesOK(k) /\ PreservedOK(k)
  BY DEF CaptureInvariant, ObjectsOK
<1>3. CaptureTyped' /\ ReferencesOK'
  BY <1>1, <1>2, ReferencesStay DEF CaptureTyped
<1>4. ASSUME NEW k \in Keys PROVE Clean(k) => Clean(k)'
  BY <1>1, <1>2 DEF BytesOK, Clean
<1>5. ASSUME NEW k \in Keys PROVE BytesOK(k)'
  <2>1. \A u \in DOMAIN uploads : uploads[u].io \in {"stored", "discarding"} => uploads'[u].io \in {"stored", "discarding"}
    BY <1>1
  <2>2. BytesOK(k) /\ evidence'[k] = evidence[k] /\ tombstones'[k] = tombstones[k] /\ (k \in strays' <=> k \in strays)
    BY <1>2
  <2>3. evidence'[k] # 0 => /\ evidence'[k] \in DOMAIN uploads' /\ uploads'[evidence'[k]].key = k
                           /\ uploads'[evidence'[k]].io \in {"stored", "discarding"}
    <3>1. CASE evidence[k] # 0
      <4>1. evidence[k] \in DOMAIN uploads /\ uploads[evidence[k]].key = k /\ uploads[evidence[k]].io \in {"stored", "discarding"}
        BY <2>2, <3>1 DEF BytesOK
      <4>2. uploads'[evidence[k]].key = k /\ uploads'[evidence[k]].io \in {"stored", "discarding"}
        BY <1>1, <2>1, <4>1
      <4> QED
        BY <1>1, <2>2, <4>1, <4>2
    <3> QED
      BY <2>2, <3>1
  <2>4. tombstones'[k] = "deleted" => Clean(k)'
    BY <1>4, <2>2 DEF BytesOK
  <2>5. k \in strays' => Doomed(k)'
    BY <2>2 DEF BytesOK, Doomed
  <2> QED
    BY <2>3, <2>4, <2>5 DEF BytesOK
<1>6. ASSUME NEW k \in Keys PROVE PreservedOK(k)'
  BY <1>1, <1>2 DEF PreservedOK, Protecting
<1>7. Forward
  BY <1>1, <1>4 DEF Forward, Doomed
<1> QED
  BY <1>1, <1>3, <1>5, <1>6, <1>7 DEF ObjectsOK

(* A new writer registers only for a key without a tombstone. *)
LEMMA EvidenceWriteBegins ==
  ASSUME ExecutionsTyped, CaptureInvariant, NEW r \in Runs, NEW k \in Keys, NEW multipart \in BOOLEAN,
         BeginEvidenceObjectWrite(r, k, multipart)
  PROVE  CaptureInvariant' /\ jobs' = jobs /\ backup' = backup /\ plan' = plan
<1> DEFINE x == [run |-> r, key |-> k, multipart |-> multipart, open |-> TRUE, swept |-> FALSE, io |-> "sent"]
<1>1. /\ jobs' = jobs /\ backup' = backup /\ plan' = plan /\ runs' = runs /\ tombstones' = tombstones
      /\ evidence' = evidence /\ pinned' = pinned /\ strays' = strays /\ snapshots' = snapshots
      /\ tombstones[k] = "none"
      /\ uploads' = Append(uploads, x) /\ owners' = [owners EXCEPT ![k] = @ \cup {r}]
  BY DEF BeginEvidenceObjectWrite, cleanupVars
<1>2. x \in Upload /\ x.key = k /\ x.io = "sent" /\ x.open
  BY DEF Upload
<1> HIDE DEF x
<1>3. CaptureTyped /\ uploads \in Seq(Upload)
  BY DEF CaptureInvariant, CaptureTyped
<1>4. /\ uploads' \in Seq(Upload) /\ DOMAIN uploads' = DOMAIN uploads \cup {Len(uploads) + 1}
      /\ uploads'[Len(uploads) + 1] = x
      /\ \A t \in DOMAIN uploads : uploads'[t] = uploads[t]
  <2>1. x \in Upload /\ uploads \in Seq(Upload)
    BY <1>2, <1>3
  <2>2. /\ Append(uploads, x) \in Seq(Upload)
        /\ DOMAIN Append(uploads, x) = DOMAIN uploads \cup {Len(uploads) + 1}
        /\ Append(uploads, x)[Len(uploads) + 1] = x
        /\ \A t \in DOMAIN uploads : Append(uploads, x)[t] = uploads[t] /\ t # Len(uploads) + 1
    BY <2>1, TicketAdded, SMT
  <2> QED
    BY <1>1, <2>2
<1>5. /\ owners' \in [Keys -> SUBSET Runs]
      /\ \A j \in Keys : owners[j] \subseteq owners'[j] /\ (j # k => owners'[j] = owners[j])
  BY <1>1, <1>3 DEF CaptureTyped
<1>6. CaptureTyped'
  BY <1>1, <1>3, <1>4, <1>5 DEF CaptureTyped
<1>7. ASSUME NEW t \in DOMAIN uploads' PROVE UploadOK(t)'
  <2>1. CASE t \in DOMAIN uploads
    <3>1. UploadOK(t) /\ uploads'[t] = uploads[t]
      BY <1>4, <2>1 DEF CaptureInvariant, ObjectsOK
    <3> QED
      BY <1>1, <3>1 DEF UploadOK, Doomed
  <2>2. CASE t = Len(uploads) + 1
    BY <1>1, <1>2, <1>4, <2>2 DEF UploadOK, Doomed
  <2> QED
    BY <1>4, <2>1, <2>2
<1>8. ASSUME NEW j \in Keys PROVE BytesOK(j)' /\ PreservedOK(j)' /\ (Clean(j) => Clean(j)')
  <2>1. BytesOK(j) /\ PreservedOK(j)
    BY DEF CaptureInvariant, ObjectsOK
  <2>2. Clean(j) => Clean(j)'
    BY <1>1, <1>4, <2>1 DEF Clean, BytesOK
  <2>3. BytesOK(j)'
    BY <1>1, <1>4, <2>1, <2>2 DEF BytesOK, Doomed
  <2>4. Discarded(j) => Discarded(j)'
    BY <1>4 DEF Discarded
  <2>5. PreservedOK(j)'
    BY <1>1, <2>1, <2>4 DEF PreservedOK, Protecting
  <2> QED
    BY <2>2, <2>3, <2>5
<1>9. ReferencesOK'
  <2>1. ReferencesOK /\ \A s \in DOMAIN snapshots' : SnapshotOK(s)'
    BY <1>1, <1>3, <1>5, SnapshotsOwned DEF CaptureInvariant
  <2>2. \A j \in Keys : Retained(j)' => Retained(j)
    BY <1>1 DEF Retained, SnapshotKeys, DirectKeys, RetainedSnapshot
  <2> QED
    BY <1>1, <1>5, <2>1, <2>2, ReferencesMove
<1>10. Forward
  BY <1>1, <1>4, <1>8 DEF Forward, Doomed
<1>11. \A e \in Executions : CaptureJobOK(e)'
  BY <1>1, <1>10, JobStays
<1> QED
  BY <1>1, <1>6, <1>7, <1>8, <1>9, <1>11 DEF CaptureInvariant, ObjectsOK

(* The bucket answers an upload: its key is not doomed, or its writer was    *)
(* swept.                                                                    *)
LEMMA UploadLands ==
  ASSUME ExecutionsTyped, CaptureInvariant, NEW t \in DOMAIN uploads, LandUpload(t)
  PROVE  CaptureInvariant' /\ jobs' = jobs /\ backup' = backup /\ plan' = plan
<1> DEFINE k == uploads[t].key
           stores == evidence[k] = 0 \/ uploads[t].multipart
           io == IF stores THEN "stored" ELSE "refused"
           x == [uploads[t] EXCEPT !.io = io]
<1>1. /\ jobs' = jobs /\ backup' = backup /\ plan' = plan /\ runs' = runs /\ tombstones' = tombstones
      /\ owners' = owners /\ pinned' = pinned /\ strays' = strays /\ snapshots' = snapshots
      /\ uploads[t].io = "sent" /\ uploads' = [uploads EXCEPT ![t] = x]
      /\ evidence' = [evidence EXCEPT ![k] = IF stores THEN t ELSE @]
  BY DEF LandUpload, cleanupVars
<1>2. uploads[t] \in Upload /\ k \in Keys /\ t \in Nat \ {0} /\ UploadOK(t) /\ CaptureTyped
  BY UploadTyped DEF CaptureInvariant
<1>3. /\ x \in Upload /\ x.key = k /\ x.io = io /\ x.io # "sent" /\ x.open = uploads[t].open
      /\ x.swept = uploads[t].swept
  BY <1>2 DEF Upload
<1>4. io = "stored" <=> stores
  OBVIOUS
<1> HIDE DEF x, io
<1>5. /\ uploads' \in Seq(Upload) /\ DOMAIN uploads' = DOMAIN uploads /\ uploads'[t] = x
      /\ \A u \in DOMAIN uploads : u # t => uploads'[u] = uploads[u]
      /\ \A u \in DOMAIN uploads' : UploadOK(u)'
      /\ \A u \in DOMAIN uploads : /\ uploads'[u].io = "sent" => uploads[u].io = "sent"
                                   /\ uploads[u].swept => uploads'[u].swept
                                   /\ uploads'[u].key = uploads[u].key
      /\ \A j \in Keys : Discarded(j) => Discarded(j)'
  BY <1>1, <1>3, UploadMoves
<1>6. Doomed(k) => uploads[t].swept
  BY <1>1, <1>2 DEF UploadOK
<1>7. /\ evidence' \in [Keys -> Nat]
      /\ \A j \in Keys : j # k \/ ~stores => evidence'[j] = evidence[j]
      /\ stores => evidence'[k] = t
  BY <1>1, <1>2 DEF CaptureTyped
<1> HIDE DEF stores
<1>8. CaptureTyped' /\ ReferencesOK'
  BY <1>1, <1>2, <1>5, <1>7, ReferencesStay DEF CaptureTyped, CaptureInvariant
<1>9. ASSUME NEW j \in Keys PROVE BytesOK(j)' /\ PreservedOK(j)' /\ (Doomed(j) /\ Clean(j) => Clean(j)')
  <2>1. BytesOK(j) /\ PreservedOK(j)
    BY DEF CaptureInvariant, ObjectsOK
  <2>2. CASE j = k /\ stores
    <3>1. Doomed(j) => Clean(j)'
      BY <1>3, <1>5, <1>6, <1>7, <2>2 DEF Clean
    <3>2. tombstones[j] = "deleted" => Doomed(j)
      BY DEF Doomed
    <3>3. BytesOK(j)'
      BY <1>1, <1>2, <1>3, <1>4, <1>5, <1>7, <2>1, <2>2, <3>1, <3>2 DEF BytesOK, Doomed
    <3>4. PreservedOK(j)'
      BY <1>1, <1>2, <1>7, <2>1, <2>2 DEF PreservedOK, Protecting
    <3> QED
      BY <3>1, <3>3, <3>4
  <2>3. CASE evidence'[j] = evidence[j] /\ ~(j = k /\ stores)
    <3>0. evidence[j] # 0 => evidence[j] # t /\ uploads'[evidence[j]] = uploads[evidence[j]]
      BY <1>1, <1>5, <2>1 DEF BytesOK
    <3>1. Clean(j) => Clean(j)'
      BY <2>3, <3>0 DEF Clean
    <3>2. BytesOK(j)'
      BY <1>1, <1>5, <2>1, <2>3, <3>0, <3>1 DEF BytesOK, Doomed
    <3>3. PreservedOK(j)'
      BY <1>1, <1>5, <2>1, <2>3 DEF PreservedOK, Protecting
    <3> QED
      BY <3>1, <3>2, <3>3
  <2> QED
    BY <1>7, <2>2, <2>3
<1>10. Forward
  BY <1>1, <1>5, <1>9 DEF Forward, Doomed
<1>11. \A e \in Executions : CaptureJobOK(e)'
  BY <1>1, <1>10, JobStays
<1> QED
  BY <1>1, <1>5, <1>8, <1>9, <1>11 DEF CaptureInvariant, ObjectsOK

(* An upload that is not sent, or whose token is on its object. *)
LEMMA StoredIsSettled ==
  ASSUME CaptureInvariant, NEW t \in DOMAIN uploads, NEW k \in Keys, evidence[k] = t
  PROVE  uploads[t].io # "sent"
<1>1. t # 0
  BY UploadTyped
<1> QED
  BY <1>1 DEF CaptureInvariant, ObjectsOK, BytesOK

LEMMA WritersPreserve ==
  ASSUME ExecutionsTyped, CaptureInvariant, NEW t \in DOMAIN uploads,
         CompleteEvidenceWrite(t) \/ AbortUpload(t) \/ SettleTerminalOwnerDispatch(t) \/ DiscardBody(t)
  PROVE  CaptureInvariant' /\ jobs' = jobs /\ backup' = backup /\ plan' = plan
<1>1. /\ jobs' = jobs /\ backup' = backup /\ plan' = plan
      /\ UNCHANGED <<runs, owners, snapshots, tombstones, evidence, pinned, strays, backup>>
  BY DEF CompleteEvidenceWrite, AbortUpload, SettleTerminalOwnerDispatch, DiscardBody, cleanupVars
<1>2. uploads[t] \in Upload /\ uploads[t].key \in Keys /\ UploadOK(t)
  BY UploadTyped
<1>3. PICK x \in Upload :
        /\ uploads' = [uploads EXCEPT ![t] = x] /\ x.key = uploads[t].key
        /\ x.io = "sent" => uploads[t].io = "sent" /\ (x.open \/ x.swept)
        /\ x.open => uploads[t].open
        /\ uploads[t].swept => x.swept
        /\ uploads[t].io \in {"discarding", "discarded"} => x.io \in {"discarding", "discarded"}
        /\ uploads[t].io \in {"stored", "discarding"} => x.io \in {"stored", "discarding"}
  <2>1. CASE CompleteEvidenceWrite(t)
    <3> DEFINE x == [uploads[t] EXCEPT !.open = FALSE]
    <3>1. uploads' = [uploads EXCEPT ![t] = x] /\ uploads[t].io # "sent"
      BY <1>2, <2>1, StoredIsSettled DEF CompleteEvidenceWrite
    <3>2. x \in Upload /\ x.key = uploads[t].key /\ x.io = uploads[t].io /\ ~x.open /\ x.swept = uploads[t].swept
      BY <1>2 DEF Upload
    <3> HIDE DEF x
    <3> QED
      BY <3>1, <3>2
  <2>2. CASE AbortUpload(t)
    <3> DEFINE x == [uploads[t] EXCEPT !.io = "aborted"]
    <3>1. uploads' = [uploads EXCEPT ![t] = x] /\ uploads[t].io = "sent"
      BY <2>2 DEF AbortUpload
    <3>2. /\ x \in Upload /\ x.key = uploads[t].key /\ x.io = "aborted" /\ x.open = uploads[t].open
          /\ x.swept = uploads[t].swept
      BY <1>2 DEF Upload
    <3> HIDE DEF x
    <3> QED
      BY <3>1, <3>2
  <2>3. CASE SettleTerminalOwnerDispatch(t)
    <3> DEFINE x == [uploads[t] EXCEPT !.open = FALSE, !.swept = TRUE]
    <3>1. uploads' = [uploads EXCEPT ![t] = x]
      BY <2>3 DEF SettleTerminalOwnerDispatch
    <3>2. x \in Upload /\ x.key = uploads[t].key /\ x.io = uploads[t].io /\ ~x.open /\ x.swept
      BY <1>2 DEF Upload
    <3> HIDE DEF x
    <3> QED
      BY <3>1, <3>2
  <2>4. CASE DiscardBody(t)
    <3> DEFINE x == [uploads[t] EXCEPT !.io = "discarding"]
    <3>1. uploads' = [uploads EXCEPT ![t] = x] /\ uploads[t].io = "stored"
      BY <2>4 DEF DiscardBody
    <3>2. /\ x \in Upload /\ x.key = uploads[t].key /\ x.io = "discarding" /\ x.open = uploads[t].open
          /\ x.swept = uploads[t].swept
      BY <1>2 DEF Upload
    <3> HIDE DEF x
    <3> QED
      BY <3>1, <3>2
  <2> QED
    BY <2>1, <2>2, <2>3, <2>4
<1>4. CaptureTyped' /\ ObjectsOK' /\ ReferencesOK' /\ Forward
  BY <1>1, <1>3, UploadSettles
<1>5. \A e \in Executions : CaptureJobOK(e)'
  BY <1>1, <1>4, JobStays
<1> QED
  BY <1>1, <1>4, <1>5 DEF CaptureInvariant

(* The uploader's own delete: no backup counts on an object that its         *)
(* uploader has discarded.                                                   *)
LEMMA OwnBodyDeleted ==
  ASSUME ExecutionsTyped, CaptureInvariant, NEW t \in DOMAIN uploads, DeleteOwnBody(t)
  PROVE  CaptureInvariant' /\ jobs' = jobs /\ backup' = backup /\ plan' = plan
<1> DEFINE k == uploads[t].key
           x == [uploads[t] EXCEPT !.io = "discarded"]
<1>1. /\ jobs' = jobs /\ backup' = backup /\ plan' = plan /\ runs' = runs /\ tombstones' = tombstones
      /\ owners' = owners /\ pinned' = pinned /\ strays' = strays /\ snapshots' = snapshots
      /\ uploads[t].io = "discarding" /\ uploads' = [uploads EXCEPT ![t] = x]
      /\ evidence' = [evidence EXCEPT ![k] = 0]
  BY DEF DeleteOwnBody, cleanupVars
<1>2. uploads[t] \in Upload /\ k \in Keys /\ t \in Nat \ {0} /\ UploadOK(t) /\ CaptureTyped
  BY UploadTyped DEF CaptureInvariant
<1>3. /\ x \in Upload /\ x.key = k /\ x.io = "discarded" /\ x.open = uploads[t].open
      /\ x.swept = uploads[t].swept
  BY <1>2 DEF Upload
<1> HIDE DEF x
<1>4. /\ uploads' \in Seq(Upload) /\ DOMAIN uploads' = DOMAIN uploads /\ uploads'[t] = x
      /\ \A u \in DOMAIN uploads : u # t => uploads'[u] = uploads[u]
      /\ \A u \in DOMAIN uploads' : UploadOK(u)'
      /\ \A u \in DOMAIN uploads : /\ uploads'[u].io = "sent" => uploads[u].io = "sent"
                                   /\ uploads[u].swept => uploads'[u].swept
                                   /\ uploads'[u].key = uploads[u].key
      /\ \A j \in Keys : Discarded(j) => Discarded(j)'
  BY <1>1, <1>3, UploadMoves
<1>5. /\ evidence' \in [Keys -> Nat] /\ evidence'[k] = 0
      /\ \A j \in Keys : j # k => evidence'[j] = evidence[j]
  BY <1>1, <1>2 DEF CaptureTyped
<1>6. CaptureTyped' /\ ReferencesOK'
  BY <1>1, <1>2, <1>4, <1>5, ReferencesStay DEF CaptureTyped, CaptureInvariant
<1>7. Discarded(k)
  BY <1>1 DEF Discarded
<1>8. ASSUME NEW j \in Keys PROVE BytesOK(j)' /\ PreservedOK(j)' /\ (Doomed(j) /\ Clean(j) => Clean(j)')
  <2>1. BytesOK(j) /\ PreservedOK(j)
    BY DEF CaptureInvariant, ObjectsOK
  <2>2. CASE j = k
    <3>1. Clean(j)'
      BY <1>5, <2>2 DEF Clean
    <3>2. BytesOK(j)'
      BY <1>1, <1>5, <2>1, <2>2, <3>1 DEF BytesOK, Doomed
    <3>3. PreservedOK(j)'
      BY <1>1, <1>4, <1>7, <2>1, <2>2 DEF PreservedOK, Protecting
    <3> QED
      BY <3>1, <3>2, <3>3
  <2>3. CASE j # k
    <3>0. /\ evidence'[j] = evidence[j]
          /\ evidence[j] # 0 => evidence[j] # t /\ uploads'[evidence[j]] = uploads[evidence[j]]
      BY <1>4, <1>5, <2>1, <2>3 DEF BytesOK
    <3>1. Clean(j) => Clean(j)'
      BY <3>0 DEF Clean
    <3>2. BytesOK(j)'
      BY <1>1, <1>4, <2>1, <3>0, <3>1 DEF BytesOK, Doomed
    <3>3. PreservedOK(j)'
      BY <1>1, <1>4, <2>1, <3>0 DEF PreservedOK, Protecting
    <3> QED
      BY <3>1, <3>2, <3>3
  <2> QED
    BY <2>2, <2>3
<1>9. Forward
  BY <1>1, <1>4, <1>8 DEF Forward, Doomed
<1>10. \A e \in Executions : CaptureJobOK(e)'
  BY <1>1, <1>9, JobStays
<1> QED
  BY <1>1, <1>4, <1>6, <1>8, <1>10 DEF CaptureInvariant, ObjectsOK

-----------------------------------------------------------------------------
(* References come and go while the objects and the executions stay. *)
LEMMA ReferencesOnly ==
  ASSUME CaptureInvariant, UNCHANGED <<jobs, backup, tombstones, uploads, evidence, strays>>,
         CaptureTyped', ReferencesOK'
  PROVE  CaptureInvariant'
<1>1. ASSUME NEW j \in Keys PROVE BytesOK(j)' /\ PreservedOK(j)'
  <2>1. BytesOK(j) /\ PreservedOK(j)
    BY DEF CaptureInvariant, ObjectsOK
  <2>2. BytesOK(j)'
    BY <2>1 DEF BytesOK, Doomed, Clean
  <2>3. PreservedOK(j)'
    BY <2>1 DEF PreservedOK, Protecting, Discarded
  <2> QED
    BY <2>2, <2>3
<1>2. \A t \in DOMAIN uploads' : UploadOK(t)'
  BY DEF CaptureInvariant, ObjectsOK, UploadOK, Doomed
<1>3. Forward
  BY DEF Forward, Doomed, Clean
<1>4. \A e \in Executions : CaptureJobOK(e)'
  BY <1>3, JobStays
<1> QED
  BY <1>1, <1>2, <1>4 DEF CaptureInvariant, ObjectsOK

(* The triggers refuse to retain what has a tombstone. *)
LEMMA SnapshotsPreserve ==
  ASSUME ExecutionsTyped, CaptureInvariant, NEW s \in DOMAIN snapshots, NEW p, NEW r, NEW k,
         \/ k \in Keys /\ DeclareDerived(s, k)
         \/ p \in DOMAIN snapshots /\ SealParseContext(s, p)
         \/ r \in Runs /\ ReuseSnapshot(r, s)
         \/ AdoptBlocks(s) \/ RetainSnapshot(s) \/ ReleaseSnapshot(s)
  PROVE  CaptureInvariant' /\ jobs' = jobs /\ backup' = backup /\ plan' \in Plan /\ plan'.scope = plan.scope
<1>1. /\ jobs' = jobs /\ backup' = backup /\ tombstones' = tombstones /\ uploads' = uploads
      /\ evidence' = evidence /\ strays' = strays /\ runs' = runs /\ pinned' = pinned
  BY DEF DeclareDerived, SealParseContext, ReuseSnapshot, AdoptBlocks, RetainSnapshot, ReleaseSnapshot, cleanupVars
<1>2. plan' \in Plan /\ plan'.scope = plan.scope
  <2>1. plan' = plan \/ Once("retain")
    BY DEF DeclareDerived, SealParseContext, ReuseSnapshot, AdoptBlocks, RetainSnapshot, ReleaseSnapshot, cleanupVars
  <2> QED
    BY <2>1, PlanKept
<1>3. CaptureTyped /\ ReferencesOK /\ SnapshotOK(s)
  BY DEF CaptureInvariant, ReferencesOK
<1>4. /\ snapshots[s] \in Snapshot /\ s \in Nat /\ snapshots[s].run \in Runs
      /\ snapshots[s].keys \subseteq Keys /\ snapshots[s].blocks \subseteq Keys
      /\ snapshots[s].reusers \subseteq Runs /\ snapshots[s].parents \subseteq Nat
  BY <1>3, SnapshotTyped
<1>5. \A q \in snapshots[s].parents : DirectKeys(q) \subseteq SnapshotKeys(s)
  BY DEF SnapshotKeys
<1>6. DirectKeys(s) \subseteq SnapshotKeys(s)
  BY DEF SnapshotKeys
<1>7. PICK x \in Snapshot : snapshots' = [snapshots EXCEPT ![s] = x] /\ \E fresh : SnapshotMoves(s, x, fresh)
  <2> SUFFICES \E x \in Snapshot : snapshots' = [snapshots EXCEPT ![s] = x] /\ \E fresh : SnapshotMoves(s, x, fresh)
    OBVIOUS
  <2>0. /\ owners \in [Keys -> SUBSET Runs] /\ \A j \in Keys : FreeOK(j)
        /\ snapshots[s].parents \subseteq DOMAIN snapshots
        /\ \A j \in snapshots[s].keys \cup snapshots[s].blocks : owners[j] # {}
    BY <1>3 DEF CaptureTyped, ReferencesOK, SnapshotOK
  <2>1. CASE k \in Keys /\ DeclareDerived(s, k)
    <3> DEFINE r0 == snapshots[s].run
               x == [snapshots[s] EXCEPT !.keys = @ \cup {k}]
               y == [snapshots[s] EXCEPT !.blocks = @ \cup {k}]
    <3>1. /\ owners[k] = {} /\ owners' = [owners EXCEPT ![k] = {r0}]
          /\ snapshots' = [snapshots EXCEPT ![s] = x] \/ snapshots' = [snapshots EXCEPT ![s] = y]
      BY <2>1 DEF DeclareDerived
    <3>2. k \notin pinned /\ k \notin Claimed
      BY <2>0, <2>1, <3>1 DEF FreeOK, Claimed
    <3>3. /\ owners' \in [Keys -> SUBSET Runs] /\ owners'[k] # {}
          /\ \A j \in Keys : owners[j] \subseteq owners'[j] /\ (j # k => owners'[j] = owners[j])
      BY <1>4, <2>0, <2>1, <3>1
    <3>4. \A j \in snapshots[s].keys \cup snapshots[s].blocks \cup {k} : owners'[j] # {}
      BY <1>4, <2>0, <3>3
    <3>5. /\ x \in Snapshot /\ x.keys = snapshots[s].keys \cup {k} /\ x.parents = snapshots[s].parents
          /\ x.retained = snapshots[s].retained /\ x.reusers = snapshots[s].reusers /\ x.blocks = snapshots[s].blocks
      BY <1>4, <2>1 DEF Snapshot
    <3>6. /\ y \in Snapshot /\ y.keys = snapshots[s].keys /\ y.parents = snapshots[s].parents
          /\ y.retained = snapshots[s].retained /\ y.reusers = snapshots[s].reusers
          /\ y.blocks = snapshots[s].blocks \cup {k}
      BY <1>4, <2>1 DEF Snapshot
    <3>7. \A j \in Keys : tombstones[j] # "none" => owners'[j] = owners[j]
      BY <3>2, <3>3 DEF Claimed
    <3> HIDE DEF x, y
    <3>8. SnapshotMoves(s, x, {k})
      BY <1>5, <2>0, <3>2, <3>3, <3>4, <3>5, <3>7 DEF SnapshotMoves, DirectKeys
    <3>9. SnapshotMoves(s, y, {})
      BY <1>5, <2>0, <3>3, <3>4, <3>6, <3>7 DEF SnapshotMoves, DirectKeys
    <3> QED
      BY <3>1, <3>5, <3>6, <3>8, <3>9
  <2>2. CASE p \in DOMAIN snapshots /\ SealParseContext(s, p)
    <3> DEFINE x == [snapshots[s] EXCEPT !.parents = {p}]
    <3>1. /\ (DirectKeys(s) \cup DirectKeys(p)) \cap Claimed = {} /\ owners' = owners
          /\ snapshots' = [snapshots EXCEPT ![s] = x]
      BY <2>2 DEF SealParseContext
    <3>2. p \in Nat
      BY <1>3, <2>2, SnapshotTyped
    <3>3. /\ x \in Snapshot /\ x.keys = snapshots[s].keys /\ x.parents = {p}
          /\ x.retained = snapshots[s].retained /\ x.reusers = snapshots[s].reusers /\ x.blocks = snapshots[s].blocks
      BY <1>4, <3>2 DEF Snapshot
    <3> HIDE DEF x
    <3>4. SnapshotMoves(s, x, DirectKeys(p))
      BY <2>0, <2>2, <3>1, <3>3 DEF SnapshotMoves, DirectKeys
    <3> QED
      BY <3>1, <3>3, <3>4
  <2>3. CASE r \in Runs /\ ReuseSnapshot(r, s)
    <3> DEFINE x == [snapshots[s] EXCEPT !.reusers = @ \cup {r}]
    <3>1. /\ SnapshotKeys(s) \cap Claimed = {}
          /\ owners' = [j \in Keys |-> owners[j] \cup (IF j \in DirectKeys(s) \ Derived THEN {r} ELSE {})]
          /\ snapshots' = [snapshots EXCEPT ![s] = x]
      BY <2>3 DEF ReuseSnapshot
    <3>2. /\ owners' \in [Keys -> SUBSET Runs]
          /\ \A j \in Keys : owners[j] \subseteq owners'[j] /\ (j \notin DirectKeys(s) => owners'[j] = owners[j])
      BY <2>0, <2>3, <3>1
    <3>3. /\ x \in Snapshot /\ x.keys = snapshots[s].keys /\ x.parents = snapshots[s].parents
          /\ x.blocks = snapshots[s].blocks
      BY <1>4, <2>3 DEF Snapshot
    <3>4. \A j \in Keys : tombstones[j] # "none" => owners'[j] = owners[j]
      BY <1>6, <3>1, <3>2 DEF Claimed
    <3>5. \A j \in snapshots[s].keys \cup snapshots[s].blocks : owners'[j] # {}
      BY <1>4, <2>0, <3>2
    <3> HIDE DEF x
    <3>6. SnapshotMoves(s, x, SnapshotKeys(s))
      BY <1>5, <2>0, <3>1, <3>2, <3>3, <3>4, <3>5 DEF SnapshotMoves, DirectKeys
    <3> QED
      BY <3>1, <3>3, <3>6
  <2>4. CASE AdoptBlocks(s)
    <3> DEFINE own == snapshots[s].keys \cup snapshots[s].blocks
               x == [snapshots[s] EXCEPT !.keys = own, !.blocks = {}]
               fresh == SnapshotKeys(s) \cup snapshots[s].blocks
    <3>1. /\ fresh \cap Claimed = {} /\ owners' = owners /\ snapshots' = [snapshots EXCEPT ![s] = x]
      BY <2>4 DEF AdoptBlocks
    <3>2. own \subseteq Keys
      BY <1>4
    <3> HIDE DEF own
    <3>3. x \in Snapshot /\ x.keys = own /\ x.parents = snapshots[s].parents /\ x.blocks = {}
      BY <1>4, <3>2 DEF Snapshot
    <3> HIDE DEF x
    <3>4. SnapshotMoves(s, x, fresh)
      BY <1>5, <2>0, <3>1, <3>3 DEF SnapshotMoves, DirectKeys, own
    <3> QED
      BY <3>1, <3>3, <3>4
  <2>5. CASE RetainSnapshot(s)
    <3> DEFINE x == [snapshots[s] EXCEPT !.retained = TRUE]
    <3>1. /\ SnapshotKeys(s) \cap Claimed = {} /\ owners' = owners /\ snapshots' = [snapshots EXCEPT ![s] = x]
      BY <2>5 DEF RetainSnapshot
    <3>2. /\ x \in Snapshot /\ x.keys = snapshots[s].keys /\ x.parents = snapshots[s].parents
          /\ x.blocks = snapshots[s].blocks
      BY <1>4 DEF Snapshot
    <3> HIDE DEF x
    <3>3. SnapshotMoves(s, x, SnapshotKeys(s))
      BY <1>5, <2>0, <3>1, <3>2 DEF SnapshotMoves, DirectKeys
    <3> QED
      BY <3>1, <3>2, <3>3
  <2>6. CASE ReleaseSnapshot(s)
    <3> DEFINE x == [snapshots[s] EXCEPT !.retained = FALSE]
    <3>1. owners' = owners /\ snapshots' = [snapshots EXCEPT ![s] = x]
      BY <2>6 DEF ReleaseSnapshot
    <3>2. /\ x \in Snapshot /\ x.keys = snapshots[s].keys /\ x.parents = snapshots[s].parents
          /\ x.blocks = snapshots[s].blocks /\ ~x.retained /\ x.reusers = snapshots[s].reusers
      BY <1>4 DEF Snapshot
    <3> HIDE DEF x
    <3>3. SnapshotMoves(s, x, {})
      BY <1>5, <2>0, <3>1, <3>2 DEF SnapshotMoves, DirectKeys
    <3> QED
      BY <3>1, <3>2, <3>3
  <2> QED
    BY <2>1, <2>2, <2>3, <2>4, <2>5, <2>6
<1>8. snapshots' \in Seq(Snapshot) /\ ReferencesOK'
  BY <1>1, <1>3, <1>7, SnapshotChanges
<1>9. CaptureTyped'
  BY <1>1, <1>3, <1>7, <1>8 DEF CaptureTyped, SnapshotMoves
<1> QED
  BY <1>1, <1>2, <1>8, <1>9, ReferencesOnly

(* A new snapshot is of a key without a tombstone, and a pin retains none. *)
LEMMA FinalizePreserves ==
  ASSUME ExecutionsTyped, CaptureInvariant, NEW r \in Runs, NEW k \in Keys, FinalizeSnapshot(r, k)
  PROVE  CaptureInvariant' /\ jobs' = jobs /\ backup' = backup /\ plan' = plan
<1> DEFINE x == [run |-> r, keys |-> {k}, blocks |-> {}, parents |-> {}, reusers |-> {}, retained |-> FALSE]
           n == Len(snapshots) + 1
<1>1. /\ jobs' = jobs /\ backup' = backup /\ plan' = plan /\ tombstones' = tombstones /\ uploads' = uploads
      /\ evidence' = evidence /\ strays' = strays /\ runs' = runs /\ pinned' = pinned /\ owners' = owners
      /\ owners[k] # {} /\ tombstones[k] = "none" /\ snapshots' = Append(snapshots, x)
  BY DEF FinalizeSnapshot, cleanupVars
<1>2. x \in Snapshot /\ x.keys = {k} /\ x.blocks = {} /\ x.parents = {}
  BY DEF Snapshot
<1> HIDE DEF x
<1>3. CaptureTyped /\ ReferencesOK /\ \A s \in DOMAIN snapshots : SnapshotOK(s)
  BY DEF CaptureInvariant, ReferencesOK
<1>4. /\ snapshots' \in Seq(Snapshot) /\ DOMAIN snapshots' = DOMAIN snapshots \cup {n} /\ snapshots'[n] = x
      /\ \A s \in DOMAIN snapshots : snapshots'[s] = snapshots[s]
  <2>1. x \in Snapshot /\ snapshots \in Seq(Snapshot)
    BY <1>2, <1>3 DEF CaptureTyped
  <2>2. /\ Append(snapshots, x) \in Seq(Snapshot)
        /\ DOMAIN Append(snapshots, x) = DOMAIN snapshots \cup {Len(snapshots) + 1}
        /\ Append(snapshots, x)[Len(snapshots) + 1] = x
        /\ \A s \in DOMAIN snapshots : Append(snapshots, x)[s] = snapshots[s] /\ s # Len(snapshots) + 1
    BY <2>1, TicketAdded, SMT
  <2> QED
    BY <1>1, <2>2
<1> HIDE DEF n
<1>5. ASSUME NEW s \in DOMAIN snapshots
      PROVE  SnapshotKeys(s)' = SnapshotKeys(s) /\ DirectKeys(s)' = DirectKeys(s) /\ RetainedSnapshot(s)' = RetainedSnapshot(s)
  <2>1. snapshots[s].parents \subseteq DOMAIN snapshots
    BY <1>3 DEF SnapshotOK
  <2>2. snapshots'[s] = snapshots[s]
    BY <1>4
  <2>3. DirectKeys(s)' = DirectKeys(s)
    BY <2>2 DEF DirectKeys
  <2>4. RetainedSnapshot(s)' = RetainedSnapshot(s)
    BY <1>1, <2>2 DEF RetainedSnapshot
  <2>5. \A p \in snapshots[s].parents : snapshots'[p] = snapshots[p]
    BY <1>4, <2>1
  <2>6. SnapshotKeys(s)' = SnapshotKeys(s)
    <3>1. \A j : j \in SnapshotKeys(s)' <=> j \in SnapshotKeys(s)
      BY <2>2, <2>5 DEF SnapshotKeys, DirectKeys
    <3> QED
      BY <3>1, SMT DEF SnapshotKeys
  <2> QED
    BY <2>3, <2>4, <2>6
<1>6. ASSUME NEW s \in DOMAIN snapshots', s \notin DOMAIN snapshots, NEW j, j \in SnapshotKeys(s)'
      PROVE  j = k
  <2>1. snapshots'[s].keys = {k} /\ snapshots'[s].parents = {}
    BY <1>2, <1>4, <1>6
  <2> QED
    BY <1>6, <2>1 DEF SnapshotKeys, DirectKeys
<1>7. ASSUME NEW j \in Keys, tombstones[j] # "none", Retained(j)' PROVE Retained(j)
  <2>1. j # k
    BY <1>1, <1>7
  <2>2. CASE j \in pinned
    BY <2>2 DEF Retained
  <2>3. CASE j \notin pinned
    <3>1. PICK s \in DOMAIN snapshots' : /\ j \in SnapshotKeys(s)'
                                         /\ RetainedSnapshot(s)' \/ DirectKeys(s)' \cap pinned # {}
      BY <1>1, <1>7, <2>3 DEF Retained
    <3>2. s \in DOMAIN snapshots
      BY <1>6, <2>1, <3>1
    <3> QED
      BY <1>5, <3>1, <3>2 DEF Retained
  <2> QED
    BY <2>2, <2>3
<1>8. ASSUME NEW s \in DOMAIN snapshots' PROVE SnapshotOK(s)'
  BY <1>1, <1>2, <1>3, <1>4 DEF SnapshotOK
<1>9. ReferencesOK'
  BY <1>1, <1>3, <1>7, <1>8, ReferencesMove
<1>10. CaptureTyped'
  BY <1>1, <1>3, <1>4 DEF CaptureTyped
<1> QED
  BY <1>1, <1>9, <1>10, ReferencesOnly

LEMMA RunsPreserve ==
  ASSUME ExecutionsTyped, CaptureInvariant, NEW r, NEW k,
         (k \in Keys /\ PinEvidence(k)) \/ (r \in Runs /\ (EndRun(r) \/ PassRunRetention(r)))
  PROVE  CaptureInvariant' /\ jobs' = jobs /\ backup' = backup /\ plan' = plan
<1>1. /\ jobs' = jobs /\ backup' = backup /\ plan' = plan /\ tombstones' = tombstones /\ uploads' = uploads
      /\ evidence' = evidence /\ strays' = strays /\ owners' = owners /\ snapshots' = snapshots
  BY DEF PinEvidence, EndRun, PassRunRetention, cleanupVars
<1>2. CaptureTyped /\ ReferencesOK
  BY DEF CaptureInvariant
<1>3. ASSUME NEW s \in DOMAIN snapshots PROVE SnapshotKeys(s)' = SnapshotKeys(s) /\ DirectKeys(s)' = DirectKeys(s)
  BY <1>1 DEF SnapshotKeys, DirectKeys
<1>4. \A s \in DOMAIN snapshots' : SnapshotOK(s)'
  BY <1>1, <1>2, SnapshotsOwned
<1>5. CASE k \in Keys /\ PinEvidence(k)
  <2>1. /\ k \notin Claimed /\ runs' = runs /\ pinned' = pinned \cup {k}
        /\ \A s \in DOMAIN snapshots : k \in DirectKeys(s) => SnapshotKeys(s) \cap Claimed = {}
    BY <1>5 DEF PinEvidence
  <2>2. owners[k] # {}
    BY <1>2, <1>5 DEF PinEvidence, ReferencesOK, SnapshotOK, DirectKeys
  <2>3. ASSUME NEW j \in Keys, tombstones[j] # "none", Retained(j)' PROVE Retained(j)
    <3>1. j \in Claimed /\ j # k
      BY <2>1, <2>3 DEF Claimed
    <3>2. \A s \in DOMAIN snapshots : RetainedSnapshot(s)' = RetainedSnapshot(s)
      BY <1>1, <2>1 DEF RetainedSnapshot
    <3>3. ASSUME NEW s \in DOMAIN snapshots, j \in SnapshotKeys(s), DirectKeys(s) \cap pinned' # {}
          PROVE  DirectKeys(s) \cap pinned # {}
      BY <2>1, <3>1, <3>3
    <3> QED
      BY <1>1, <1>3, <2>1, <2>3, <3>1, <3>2, <3>3 DEF Retained
  <2>4. ReferencesOK'
    BY <1>1, <1>2, <1>4, <2>1, <2>2, <2>3, ReferencesMove
  <2>5. CaptureTyped'
    BY <1>1, <1>2, <1>5, <2>1 DEF CaptureTyped
  <2> QED
    BY <1>1, <2>4, <2>5, ReferencesOnly
<1>6. CASE r \in Runs /\ (EndRun(r) \/ PassRunRetention(r))
  <2>1. PICK state \in {"terminal", "aged"} :
          runs' = [runs EXCEPT ![r] = state] /\ runs[r] # "aged" /\ pinned' = pinned
    BY <1>6 DEF EndRun, PassRunRetention
  <2>2. /\ runs' \in [Runs -> {"active", "terminal", "aged"}]
        /\ \A q \in Runs : (runs[q] = "aged" => runs'[q] = "aged") /\ (runs'[q] = "active" => runs[q] = "active")
    BY <1>2, <1>6, <2>1 DEF CaptureTyped
  <2>3. ASSUME NEW s \in DOMAIN snapshots, RetainedSnapshot(s)' PROVE RetainedSnapshot(s)
    BY <1>1, <1>2, <2>2, <2>3, SnapshotTyped DEF RetainedSnapshot
  <2>4. ASSUME NEW j \in Keys, Retained(j)' PROVE Retained(j)
    BY <1>1, <1>3, <2>1, <2>3, <2>4 DEF Retained
  <2>5. \A j \in Keys : \A q \in owners[j] : runs[q] = "aged" => runs'[q] = "aged"
    BY <1>2, <2>2 DEF CaptureTyped
  <2>6. ReferencesOK'
    BY <1>1, <1>2, <1>4, <2>1, <2>4, <2>5, ReferencesMove
  <2>7. CaptureTyped'
    BY <1>1, <1>2, <2>1, <2>2 DEF CaptureTyped
  <2> QED
    BY <1>1, <2>6, <2>7, ReferencesOnly
<1> QED
  BY <1>5, <1>6

-----------------------------------------------------------------------------
(* The steps of an execution that read, or that look for the next point. *)
LEMMA EvidenceLook ==
  ASSUME ExecutionsTyped, CaptureInvariant, NEW d \in Executions,
         \/ ReadTombstone(d) \/ RereadTombstone(d) \/ ReadWriter(d)
         \/ CheckOtherWriters(d) \/ GuardDelete(d)
  PROVE  CaptureInvariant' /\ jobs' \in [Executions -> JobType] /\ backup' = backup /\ plan' = plan
<1>1. backup' = backup /\ plan' = plan /\ UNCHANGED captureVars
  BY DEF ReadTombstone, RereadTombstone, ReadWriter, CheckOtherWriters, GuardDelete
<1>2. CaptureTyped' /\ Forward /\ ObjectsOK' /\ ReferencesOK'
  BY <1>1, CaptureStill
<1>3. tombstones' = tombstones /\ uploads' = uploads /\ evidence' = evidence
  BY <1>1 DEF captureVars
<1>4. jobs[d] \in JobType /\ CaptureJobOK(d)
  BY DEF ExecutionsTyped, CaptureInvariant
<1>5. {"claim", "writer", "settle", "authorize", "send"} \subseteq CommonPoints \cup StagingPoints \cup CapturePoints
  BY DEF CapturePoints
<1>6. jobs[d].pc \in CapturePoints => jobs[d].key \in Keys /\ tombstones[jobs[d].key] \in {"none", "reserved", "deleting", "deleted"}
  BY <1>4 DEF CaptureJobOK, CaptureInvariant, CaptureTyped
<1>7. /\ jobs' \in [Executions -> JobType]
      /\ Rests \/ (OnlyJob(d) /\ CaptureJobOK(d)')
  <2>1. CASE ReadTombstone(d) \/ RereadTombstone(d)
    <3> DEFINE k == jobs[d].key
               j(pc) == [jobs[d] EXCEPT !.pc = pc, !.seen = tombstones[k]]
    <3>1. PICK pc \in {"claim", "writer"} :
            jobs' = [jobs EXCEPT ![d] = j(pc)] /\ (pc = "writer" => tombstones[k] # "none")
      BY <1>4, <2>1 DEF ReadTombstone, RereadTombstone, CaptureJobOK
    <3>2. k \in Keys /\ tombstones[k] \in {"none", "reserved", "deleting", "deleted"}
      BY <1>6, <2>1 DEF ReadTombstone, RereadTombstone, CapturePoints
    <3>3. /\ j(pc) \in JobType /\ j(pc).pc = pc /\ j(pc).key = k /\ j(pc).seen = tombstones[k]
      BY <1>4, <1>5, <3>2 DEF JobType
    <3> HIDE DEF j
    <3>4. jobs' \in [Executions -> JobType] /\ jobs'[d] = j(pc) /\ OnlyJob(d)
      BY <3>1, <3>3, JobMoves
    <3>5. CaptureJobOK(d)'
      BY <1>3, <3>1, <3>2, <3>3, <3>4 DEF CaptureJobOK, Doomed
    <3> QED
      BY <3>4, <3>5
  <2>2. CASE ReadWriter(d) /\ ~Goto(d, "authorize")
    <3> DEFINE k == jobs[d].key
               j(t) == [jobs[d] EXCEPT !.pc = "settle", !.ticket = t]
    <3>1. PICK t \in OpenUploads(k) : jobs' = [jobs EXCEPT ![d] = j(t)]
      BY <2>2 DEF ReadWriter
    <3>2. t \in DOMAIN uploads /\ t \in Nat /\ jobs[d].pc = "writer" /\ k \in Keys
      BY <1>6, <2>2, UploadTyped DEF OpenUploads, ReadWriter, CapturePoints
    <3>3. /\ j(t) \in JobType /\ j(t).pc = "settle" /\ j(t).key = k /\ j(t).seen = jobs[d].seen
          /\ j(t).ticket = t
      BY <1>4, <1>5, <3>2 DEF JobType
    <3> HIDE DEF j
    <3>4. jobs' \in [Executions -> JobType] /\ jobs'[d] = j(t) /\ OnlyJob(d)
      BY <3>1, <3>3, JobMoves
    <3>5. CaptureJobOK(d)'
      BY <1>3, <1>4, <3>2, <3>3, <3>4 DEF CaptureJobOK, Doomed
    <3> QED
      BY <3>4, <3>5
  <2>3. CASE (ReadWriter(d) \/ CheckOtherWriters(d)) /\ Goto(d, "authorize")
    <3>1. /\ jobs' \in [Executions -> JobType] /\ OnlyJob(d) /\ jobs'[d].pc = "authorize"
          /\ jobs'[d].key = jobs[d].key /\ jobs'[d].seen = jobs[d].seen
      BY <1>5, <2>3, GotoMoves
    <3>2. jobs[d].pc \in {"writer", "others"} /\ jobs[d].key \in Keys
      BY <1>6, <2>3 DEF ReadWriter, CheckOtherWriters, CapturePoints
    <3>3. CaptureJobOK(d)'
      BY <1>3, <1>4, <3>1, <3>2 DEF CaptureJobOK, Doomed
    <3> QED
      BY <3>1, <3>3
  <2>4. CASE CheckOtherWriters(d) /\ ~Goto(d, "authorize")
    <3>1. Conclude(d, "waiting")
      BY <2>4 DEF CheckOtherWriters
    <3> QED
      BY <3>1, ConcludeMoves, RecordHolds
  <2>5. CASE GuardDelete(d)
    <3>1. CASE Goto(d, "send")
      <4>1. /\ jobs' \in [Executions -> JobType] /\ OnlyJob(d) /\ jobs'[d].pc = "send"
            /\ jobs'[d].key = jobs[d].key /\ jobs[d].pc = "guard"
        BY <1>5, <2>5, <3>1, GotoMoves DEF GuardDelete
      <4>2. jobs[d].key \in Keys
        BY <1>6, <4>1 DEF CapturePoints
      <4>3. CaptureJobOK(d)'
        BY <1>3, <1>4, <4>1, <4>2 DEF CaptureJobOK, Doomed
      <4> QED
        BY <4>1, <4>3
    <3>2. CASE StartOver(d)
      BY <3>2, StartOverRests DEF Rests
    <3> QED
      BY <2>5, <3>1, <3>2 DEF GuardDelete
  <2> QED
    BY <2>1, <2>2, <2>3, <2>4, <2>5
<1>8. \A e \in Executions : CaptureJobOK(e)'
  BY <1>2, <1>7, CaptureJobsRest, CaptureJobStep
<1> QED
  BY <1>1, <1>2, <1>7, <1>8 DEF CaptureInvariant

(* A tombstone moves forward: a claim on what nothing retains, an authorized *)
(* delete of what no backup and no writer needs, the end of a delete.        *)
LEMMA TombstoneMoves ==
  ASSUME ExecutionsTyped, CaptureInvariant, NEW d \in Executions, NEW k \in Keys,
         NEW state \in {"reserved", "deleting", "deleted"},
         tombstones' = [tombstones EXCEPT ![k] = state],
         UNCHANGED <<runs, owners, snapshots, uploads, evidence, pinned, strays>>,
         state = "reserved" => tombstones[k] = "none" /\ Claimable(d[1], k) /\ DateClaim(d, k),
         state = "deleting" => tombstones[k] = "reserved" /\ OpenUploads(k) = {} /\ ~BackupProtects(k),
         state = "deleted" => tombstones[k] = "deleting" /\ Clean(k),
         state # "reserved" => backup' = backup
  PROVE  /\ CaptureTyped' /\ Forward /\ ObjectsOK' /\ ReferencesOK' /\ backup' \in BackupType
         /\ tombstones'[k] = state
<1>1. /\ CaptureTyped /\ \A j \in Keys : j # k => tombstones'[j] = tombstones[j]
      /\ tombstones'[k] = state /\ tombstones' \in [Keys -> {"none", "reserved", "deleting", "deleted"}]
  BY DEF CaptureInvariant, CaptureTyped
<1>2. \A j \in Keys : (Clean(j)' <=> Clean(j)) /\ (Discarded(j)' <=> Discarded(j)) /\ (Retained(j)' <=> Retained(j))
  <2> SUFFICES ASSUME NEW j \in Keys
               PROVE  (Clean(j)' <=> Clean(j)) /\ (Discarded(j)' <=> Discarded(j)) /\ (Retained(j)' <=> Retained(j))
    OBVIOUS
  <2>1. Clean(j)' <=> Clean(j)
    BY DEF Clean
  <2>2. Discarded(j)' <=> Discarded(j)
    BY DEF Discarded
  <2>3. Retained(j)' <=> Retained(j)
    BY DEF Retained, SnapshotKeys, DirectKeys, RetainedSnapshot
  <2> QED
    BY <2>1, <2>2, <2>3
<1>3. CaptureTyped' /\ Forward
  BY <1>1, <1>2 DEF CaptureTyped, Forward, Doomed
<1>4. ASSUME NEW t \in DOMAIN uploads' PROVE UploadOK(t)'
  <2>1. UploadOK(t) /\ uploads[t].key \in Keys /\ t \in DOMAIN uploads
    BY UploadTyped
  <2>2. uploads[t].key = k /\ state = "deleting" => ~uploads[t].open
    BY <2>1 DEF OpenUploads
  <2> QED
    BY <1>1, <2>1, <2>2 DEF UploadOK, Doomed
<1>5. ASSUME NEW j \in Keys PROVE BytesOK(j)'
  <2>1. BytesOK(j)
    BY DEF CaptureInvariant, ObjectsOK
  <2>2. CASE j # k
    BY <1>1, <1>2, <2>1, <2>2 DEF BytesOK, Doomed
  <2>3. CASE j = k
    BY <1>1, <1>2, <2>1, <2>3 DEF BytesOK, Doomed
  <2> QED
    BY <2>2, <2>3
<1>6. ASSUME NEW j \in Keys PROVE FreeOK(j)'
  <2>1. FreeOK(j)
    BY DEF CaptureInvariant, ReferencesOK
  <2>2. CASE j # k
    BY <1>1, <1>2, <2>1, <2>2 DEF FreeOK
  <2>3. CASE j = k
    <3>1. ~Retained(k) /\ owners[k] # {} /\ \A r \in owners[k] : runs[r] = "aged"
      BY <2>1, <2>3 DEF FreeOK, Claimable
    <3> QED
      BY <1>1, <1>2, <2>3, <3>1 DEF FreeOK
  <2> QED
    BY <2>2, <2>3
<1>7. ReferencesOK'
  BY <1>6 DEF CaptureInvariant, ReferencesOK, SnapshotOK
<1>8. /\ backup' \in BackupType /\ Protecting' = Protecting
      /\ \A j \in backup'.found : j \in backup.found
      /\ \A j \in backup'.older : j \in backup.older \/ (j = k /\ k \notin backup'.found)
  <2>1. CASE state = "reserved"
    BY <2>1, ClaimIsDated
  <2>2. CASE backup' = backup
    BY <2>2 DEF ExecutionsTyped, Protecting
  <2> QED
    BY <2>1, <2>2
<1>9. ASSUME NEW j \in Keys PROVE PreservedOK(j)'
  <2>1. PreservedOK(j)
    BY DEF CaptureInvariant, ObjectsOK
  <2>2. CASE j # k \/ state = "reserved"
    BY <1>1, <1>2, <1>8, <2>1, <2>2 DEF PreservedOK
  <2>3. CASE j = k /\ state # "reserved"
    BY <1>1, <1>2, <2>1, <2>3 DEF PreservedOK, Protecting, BackupProtects
  <2> QED
    BY <2>2, <2>3
<1> QED
  BY <1>1, <1>3, <1>4, <1>5, <1>7, <1>8, <1>9 DEF ObjectsOK

LEMMA ClaimMoves ==
  ASSUME ExecutionsTyped, CaptureInvariant, NEW d \in Executions,
         ClaimCleanupObject(d) \/ AuthorizeCleanupDelete(d)
  PROVE  CaptureInvariant' /\ jobs' \in [Executions -> JobType] /\ backup' \in BackupType /\ plan' = plan
<1> DEFINE k == jobs[d].key
<1>1. plan' = plan /\ UNCHANGED <<runs, owners, snapshots, uploads, evidence, pinned, strays>>
  BY DEF ClaimCleanupObject, AuthorizeCleanupDelete
<1>2. CaptureJobOK(d) /\ CaptureTyped /\ backup \in BackupType
  BY DEF CaptureInvariant, ExecutionsTyped
<1>3. k \in Keys /\ tombstones[k] \in {"none", "reserved", "deleting", "deleted"}
  BY <1>2 DEF ClaimCleanupObject, AuthorizeCleanupDelete, CaptureJobOK, CapturePoints, CaptureTyped
<1>4. {"reread", "guard"} \subseteq CommonPoints \cup StagingPoints \cup CapturePoints
  BY DEF CapturePoints
<1>5. [tombstones EXCEPT ![k] = tombstones[k]] = tombstones
  BY <1>2 DEF CaptureTyped
<1>6. \/ tombstones' = tombstones /\ backup' = backup
      \/ \E state \in {"reserved", "deleting"} :
           /\ tombstones' = [tombstones EXCEPT ![k] = state]
           /\ state = "reserved" => tombstones[k] = "none" /\ Claimable(d[1], k) /\ DateClaim(d, k)
           /\ state = "deleting" => tombstones[k] = "reserved" /\ OpenUploads(k) = {} /\ ~BackupProtects(k)
           /\ state # "reserved" => backup' = backup
  <2>1. CASE ClaimCleanupObject(d)
    BY <1>5, <2>1 DEF ClaimCleanupObject
  <2>2. CASE AuthorizeCleanupDelete(d)
    BY <2>2 DEF AuthorizeCleanupDelete
  <2> QED
    BY <2>1, <2>2
<1>7. CaptureTyped' /\ Forward /\ ObjectsOK' /\ ReferencesOK' /\ backup' \in BackupType
  <2>1. CASE tombstones' = tombstones /\ backup' = backup
    <3>1. UNCHANGED captureVars
      BY <1>1, <2>1 DEF captureVars
    <3> QED
      BY <1>2, <2>1, <3>1, CaptureStill
  <2>2. CASE ~(tombstones' = tombstones /\ backup' = backup)
    <3>1. PICK state \in {"reserved", "deleting"} :
           /\ tombstones' = [tombstones EXCEPT ![k] = state]
           /\ state = "reserved" => tombstones[k] = "none" /\ Claimable(d[1], k) /\ DateClaim(d, k)
           /\ state = "deleting" => tombstones[k] = "reserved" /\ OpenUploads(k) = {} /\ ~BackupProtects(k)
           /\ state # "reserved" => backup' = backup
      BY <1>6, <2>2
    <3> QED
      BY <1>1, <1>3, <3>1, TombstoneMoves
  <2> QED
    BY <2>1, <2>2
<1>8. jobs' \in [Executions -> JobType] /\ OnlyJob(d) /\ CaptureJobOK(d)'
  <2>1. CASE Conclude(d, "protected") \/ Conclude(d, "waiting") \/ Conclude(d, "deleted")
    BY <2>1, ConcludeMoves, RecordHolds
  <2>2. CASE Goto(d, "reread") /\ ClaimCleanupObject(d) /\ ~Conclude(d, "protected")
    <3>1. /\ jobs' \in [Executions -> JobType] /\ OnlyJob(d) /\ jobs'[d].pc = "reread" /\ jobs'[d].key = k
      BY <1>4, <2>2, GotoMoves
    <3>2. tombstones'[k] # "none"
      BY <1>2, <1>3, <2>2 DEF ClaimCleanupObject, CaptureTyped
    <3> QED
      BY <1>3, <3>1, <3>2 DEF CaptureJobOK
  <2>3. CASE Goto(d, "guard") /\ AuthorizeCleanupDelete(d)
             /\ ~Conclude(d, "deleted") /\ ~Conclude(d, "waiting")
    <3>1. /\ jobs' \in [Executions -> JobType] /\ OnlyJob(d) /\ jobs'[d].pc = "guard" /\ jobs'[d].key = k
      BY <1>4, <2>3, GotoMoves
    <3>2. /\ jobs[d].pc = "authorize" /\ jobs[d].seen # "deleted"
          /\ jobs[d].seen = "reserved" /\ tombstones[k] = "reserved" => tombstones' = [tombstones EXCEPT ![k] = "deleting"]
      BY <2>3 DEF AuthorizeCleanupDelete
    <3>3. tombstones'[k] \in {"deleting", "deleted"}
      <4>1. CASE jobs[d].seen = "reserved" /\ tombstones[k] = "reserved"
        BY <1>2, <1>3, <3>2, <4>1 DEF CaptureTyped
      <4>2. CASE Doomed(k)
        BY <1>3, <1>7, <4>2 DEF Forward, Doomed
      <4> QED
        BY <1>2, <1>3, <3>2, <4>1, <4>2 DEF CaptureJobOK, Doomed
    <3> QED
      BY <1>3, <3>1, <3>3 DEF CaptureJobOK, Doomed
  <2>4. CASE ClaimCleanupObject(d)
    BY <2>1, <2>2, <2>4 DEF ClaimCleanupObject
  <2>5. CASE AuthorizeCleanupDelete(d)
    BY <2>1, <2>3, <2>5 DEF AuthorizeCleanupDelete
  <2> QED
    BY <2>4, <2>5
<1>9. \A e \in Executions : CaptureJobOK(e)'
  BY <1>7, <1>8, CaptureJobStep
<1> QED
  BY <1>1, <1>7, <1>8, <1>9 DEF CaptureInvariant

(* A writer is settled by its own object or by the abort of its upload, and  *)
(* only a settled one is completed.                                          *)
LEMMA SettleMoves ==
  ASSUME ExecutionsTyped, CaptureInvariant, NEW d \in Executions,
         SettleWriter(d) \/ AbortWriter(d) \/ CompleteWriter(d)
  PROVE  CaptureInvariant' /\ jobs' \in [Executions -> JobType] /\ backup' = backup /\ plan' = plan
<1> DEFINE t == jobs[d].ticket
           k == jobs[d].key
<1>1. /\ backup' = backup /\ plan' = plan
      /\ UNCHANGED <<runs, owners, snapshots, tombstones, evidence, pinned, strays, backup>>
  BY DEF SettleWriter, AbortWriter, CompleteWriter, captureVars
<1>2. CaptureJobOK(d) /\ jobs[d].pc \in {"settle", "abort", "complete"}
  BY DEF CaptureInvariant, SettleWriter, AbortWriter, CompleteWriter
<1>3. k \in Keys /\ t \in DOMAIN uploads
  BY <1>2 DEF CaptureJobOK, CapturePoints
<1>4. uploads[t] \in Upload /\ t \in Nat \ {0} /\ UploadOK(t)
  BY <1>3, UploadTyped
<1>5. {"abort", "complete", "others"} \subseteq CommonPoints \cup StagingPoints \cup CapturePoints
  BY DEF CapturePoints
<1>6. PICK x \in Upload :
        /\ uploads' = [uploads EXCEPT ![t] = x] /\ x.key = uploads[t].key
        /\ x.io = "sent" => uploads[t].io = "sent" /\ (x.open \/ x.swept)
        /\ x.open => uploads[t].open
        /\ uploads[t].swept => x.swept
        /\ uploads[t].io \in {"discarding", "discarded"} => x.io \in {"discarding", "discarded"}
        /\ uploads[t].io \in {"stored", "discarding"} => x.io \in {"stored", "discarding"}
        /\ AbortWriter(d) => x.io # "sent"
  <2>1. CASE uploads' = uploads /\ (AbortWriter(d) => uploads[t].io # "sent")
    <3>1. uploads' = [uploads EXCEPT ![t] = uploads[t]]
      BY <2>1, SMT DEF CaptureInvariant, CaptureTyped
    <3> QED
      BY <1>4, <2>1, <3>1 DEF UploadOK
  <2>2. CASE uploads[t].io = "sent" /\ uploads' = [uploads EXCEPT ![t].io = "aborted"]
    <3> DEFINE x == [uploads[t] EXCEPT !.io = "aborted"]
    <3>1. uploads' = [uploads EXCEPT ![t] = x]
      BY <2>2
    <3>2. /\ x \in Upload /\ x.key = uploads[t].key /\ x.io = "aborted" /\ x.open = uploads[t].open
          /\ x.swept = uploads[t].swept
      BY <1>4 DEF Upload
    <3> HIDE DEF x
    <3> QED
      BY <2>2, <3>1, <3>2
  <2>3. CASE CompleteWriter(d)
    <3> DEFINE x == [uploads[t] EXCEPT !.open = FALSE]
    <3>1. uploads' = [uploads EXCEPT ![t] = x]
      BY <2>3 DEF CompleteWriter
    <3>2. x \in Upload /\ x.key = uploads[t].key /\ x.io = uploads[t].io /\ ~x.open /\ x.swept = uploads[t].swept
      BY <1>4 DEF Upload
    <3>3. uploads[t].io # "sent"
      BY <1>2, <2>3 DEF CompleteWriter, CaptureJobOK
    <3> HIDE DEF x
    <3> QED
      BY <3>1, <3>2, <3>3
  <2>4. CASE SettleWriter(d)
    <3>1. uploads' = uploads /\ ~AbortWriter(d)
      BY <2>4 DEF SettleWriter, AbortWriter, captureVars
    <3> QED
      BY <2>1, <3>1
  <2>5. CASE AbortWriter(d)
    BY <2>1, <2>2, <2>5 DEF AbortWriter
  <2> QED
    BY <2>3, <2>4, <2>5
<1>7. /\ CaptureTyped' /\ ObjectsOK' /\ ReferencesOK' /\ Forward
      /\ uploads'[t] = x /\ DOMAIN uploads' = DOMAIN uploads
  BY <1>1, <1>3, <1>6, UploadSettles
<1>8. /\ jobs' \in [Executions -> JobType]
      /\ Rests \/ (OnlyJob(d) /\ CaptureJobOK(d)')
  <2>1. CASE Conclude(d, "waiting")
    BY <2>1, ConcludeMoves, RecordHolds
  <2>2. CASE SettleWriter(d) /\ ~Conclude(d, "waiting")
    <3>1. PICK pc \in {"abort", "complete"} :
            Goto(d, pc) /\ jobs[d].pc = "settle" /\ uploads' = uploads /\ (pc = "complete" => evidence[k] = t)
      BY <2>2 DEF SettleWriter, captureVars
    <3>2. /\ jobs' \in [Executions -> JobType] /\ OnlyJob(d) /\ jobs'[d].pc = pc
          /\ jobs'[d].key = k /\ jobs'[d].ticket = t /\ jobs'[d].seen = jobs[d].seen
      BY <1>5, <3>1, GotoMoves
    <3>3. pc = "complete" => uploads'[t].io # "sent"
      BY <1>3, <3>1, StoredIsSettled
    <3>4. CaptureJobOK(d)'
      BY <1>1, <1>2, <1>3, <1>7, <3>1, <3>2, <3>3 DEF CaptureJobOK, Doomed
    <3> QED
      BY <3>2, <3>4
  <2>3. CASE AbortWriter(d) /\ Goto(d, "complete")
    <3>1. /\ jobs' \in [Executions -> JobType] /\ OnlyJob(d) /\ jobs'[d].pc = "complete"
          /\ jobs'[d].key = k /\ jobs'[d].ticket = t /\ jobs'[d].seen = jobs[d].seen /\ jobs[d].pc = "abort"
      BY <1>5, <2>3, GotoMoves DEF AbortWriter
    <3>2. uploads'[t].io # "sent"
      BY <1>6, <1>7, <2>3
    <3>3. CaptureJobOK(d)'
      BY <1>1, <1>2, <1>3, <1>7, <3>1, <3>2 DEF CaptureJobOK, Doomed
    <3> QED
      BY <3>1, <3>3
  <2>4. CASE GiveUp(d)
    <3>1. PICK pc \in {"idle", "done"} : Goto(d, pc)
      BY <2>4 DEF GiveUp
    <3>2. Rests
      BY <3>1, GotoRests DEF CommonPoints
    <3> QED
      BY <3>2 DEF Rests
  <2>5. CASE CompleteWriter(d)
    <3>1. /\ jobs' \in [Executions -> JobType] /\ OnlyJob(d) /\ jobs'[d].pc = "others"
          /\ jobs'[d].key = k /\ jobs'[d].seen = jobs[d].seen /\ jobs[d].pc = "complete"
      BY <1>5, <2>5, GotoMoves DEF CompleteWriter
    <3>2. CaptureJobOK(d)'
      BY <1>1, <1>2, <1>3, <3>1 DEF CaptureJobOK, Doomed
    <3> QED
      BY <3>1, <3>2
  <2>6. AbortWriter(d) => Goto(d, "complete") \/ GiveUp(d)
    BY DEF AbortWriter
  <2> QED
    BY <2>1, <2>2, <2>3, <2>4, <2>5, <2>6
<1>9. \A e \in Executions : CaptureJobOK(e)'
  BY <1>7, <1>8, CaptureJobsRest, CaptureJobStep
<1> QED
  BY <1>1, <1>7, <1>8, <1>9 DEF CaptureInvariant

(* A delete reaches the bucket, in time or late: its key is doomed, which    *)
(* nothing retains and no backup found.                                      *)
LEMMA EvidenceEmptied ==
  ASSUME ExecutionsTyped, CaptureInvariant, NEW k \in Keys, Doomed(k),
         evidence' = [evidence EXCEPT ![k] = 0],
         UNCHANGED <<backup, runs, owners, snapshots, tombstones, uploads, pinned, strays>>
  PROVE  CaptureTyped' /\ Forward /\ ObjectsOK' /\ ReferencesOK' /\ evidence'[k] = 0
<1>1. /\ CaptureTyped /\ evidence'[k] = 0 /\ evidence' \in [Keys -> Nat]
      /\ \A j \in Keys : j # k => evidence'[j] = evidence[j]
  BY DEF CaptureInvariant, CaptureTyped
<1>2. \A j \in Keys : Clean(j) => Clean(j)'
  BY <1>1 DEF Clean
<1>3. CaptureTyped' /\ Forward
  BY <1>1, <1>2 DEF CaptureTyped, Forward, Doomed
<1>4. \A t \in DOMAIN uploads' : UploadOK(t)'
  BY DEF CaptureInvariant, ObjectsOK, UploadOK, Doomed
<1>5. ASSUME NEW j \in Keys PROVE BytesOK(j)' /\ PreservedOK(j)'
  <2>1. BytesOK(j) /\ PreservedOK(j)
    BY DEF CaptureInvariant, ObjectsOK
  <2>2. evidence'[j] = evidence[j] \/ (j = k /\ evidence'[j] = 0)
    BY <1>1
  <2>3. BytesOK(j)'
    BY <1>2, <2>1, <2>2 DEF BytesOK, Doomed
  <2>4. PreservedOK(j)'
    BY <2>1, <2>2 DEF PreservedOK, Protecting, Doomed, Discarded
  <2> QED
    BY <2>3, <2>4
<1>6. ReferencesOK'
  BY ReferencesStay DEF CaptureInvariant
<1> QED
  BY <1>1, <1>3, <1>4, <1>5, <1>6 DEF ObjectsOK

LEMMA SendMoves ==
  ASSUME ExecutionsTyped, CaptureInvariant, NEW d \in Executions, SendDelete(d)
  PROVE  CaptureInvariant' /\ jobs' \in [Executions -> JobType] /\ backup' = backup /\ plan' = plan
<1> DEFINE k == jobs[d].key
<1>1. /\ backup' = backup /\ plan' = plan /\ jobs[d].pc = "send" /\ Goto(d, "deleted")
      /\ evidence' = [evidence EXCEPT ![k] = 0]
      /\ UNCHANGED <<backup, runs, owners, snapshots, tombstones, uploads, pinned, strays>>
  BY DEF SendDelete
<1>2. k \in Keys /\ Doomed(k)
  BY <1>1 DEF CaptureInvariant, CaptureJobOK, CapturePoints
<1>3. CaptureTyped' /\ Forward /\ ObjectsOK' /\ ReferencesOK' /\ evidence'[k] = 0
  BY <1>1, <1>2, EvidenceEmptied
<1>4. "deleted" \in CommonPoints \cup StagingPoints \cup CapturePoints
  BY DEF CapturePoints
<1>5. /\ jobs' \in [Executions -> JobType] /\ OnlyJob(d) /\ jobs'[d].pc = "deleted" /\ jobs'[d].key = k
  BY <1>1, <1>4, GotoMoves
<1>6. CaptureJobOK(d)'
  BY <1>1, <1>2, <1>3, <1>5 DEF CaptureJobOK, Doomed, Clean
<1>7. \A e \in Executions : CaptureJobOK(e)'
  BY <1>3, <1>5, <1>6, CaptureJobStep
<1> QED
  BY <1>1, <1>3, <1>5, <1>7 DEF CaptureInvariant

LEMMA StrayMoves ==
  ASSUME ExecutionsTyped, CaptureInvariant, NEW k \in Keys, StrayDelete(k)
  PROVE  CaptureInvariant' /\ jobs' = jobs /\ backup' = backup /\ plan' = plan
<1>1. /\ jobs' = jobs /\ backup' = backup /\ plan' = plan /\ evidence' = [evidence EXCEPT ![k] = 0]
      /\ UNCHANGED <<backup, runs, owners, snapshots, tombstones, uploads, pinned, strays>>
  BY DEF StrayDelete, cleanupVars
<1>2. Doomed(k)
  BY DEF StrayDelete, CaptureInvariant, ObjectsOK, BytesOK
<1>3. CaptureTyped' /\ Forward /\ ObjectsOK' /\ ReferencesOK'
  BY <1>1, <1>2, EvidenceEmptied
<1>4. \A e \in Executions : CaptureJobOK(e)'
  BY <1>1, <1>3, JobStays
<1> QED
  BY <1>1, <1>3, <1>4 DEF CaptureInvariant

LEMMA LoseDeleteMoves ==
  ASSUME ExecutionsTyped, CaptureInvariant, NEW d \in Executions, LoseDelete(d)
  PROVE  CaptureInvariant' /\ jobs' \in [Executions -> JobType] /\ backup' = backup /\ plan' = plan
<1> DEFINE k == jobs[d].key
<1>1. /\ backup' = backup /\ plan' = plan /\ jobs[d].pc = "send" /\ Goto(d, "returned")
      /\ strays' = strays \cup {k}
      /\ UNCHANGED <<runs, owners, snapshots, tombstones, uploads, evidence, pinned>>
  BY DEF LoseDelete
<1>2. k \in Keys /\ Doomed(k)
  BY <1>1 DEF CaptureInvariant, CaptureJobOK, CapturePoints
<1>3. CaptureTyped' /\ Forward /\ ReferencesOK'
  BY <1>1, <1>2, ReferencesStay DEF CaptureInvariant, CaptureTyped, Forward, Doomed, Clean
<1>4. \A t \in DOMAIN uploads' : UploadOK(t)'
  BY <1>1 DEF CaptureInvariant, ObjectsOK, UploadOK, Doomed
<1>5. ASSUME NEW j \in Keys PROVE BytesOK(j)' /\ PreservedOK(j)'
  <2>1. BytesOK(j) /\ PreservedOK(j)
    BY DEF CaptureInvariant, ObjectsOK
  <2>2. BytesOK(j)'
    BY <1>1, <1>2, <2>1 DEF BytesOK, Doomed, Clean
  <2>3. PreservedOK(j)'
    BY <1>1, <2>1 DEF PreservedOK, Protecting, Discarded
  <2> QED
    BY <2>2, <2>3
<1>6. Rests
  <2>1. "returned" \in CommonPoints
    BY DEF CommonPoints
  <2> QED
    BY <1>1, <2>1, GotoRests
<1>7. \A e \in Executions : CaptureJobOK(e)'
  BY <1>3, <1>6, CaptureJobsRest
<1> QED
  BY <1>1, <1>3, <1>4, <1>5, <1>6, <1>7 DEF CaptureInvariant, ObjectsOK, Rests

LEMMA FinishMoves ==
  ASSUME ExecutionsTyped, CaptureInvariant, NEW d \in Executions, FinishDelete(d)
  PROVE  /\ CaptureInvariant' /\ jobs' \in [Executions -> JobType] /\ backup' = backup
         /\ plan' \in Plan /\ plan'.scope = plan.scope
<1> DEFINE k == jobs[d].key
<1>1. /\ backup' = backup /\ jobs[d].pc = "deleted"
      /\ UNCHANGED <<backup, runs, owners, snapshots, uploads, evidence, pinned, strays>>
  BY DEF FinishDelete
<1>2. plan' \in Plan /\ plan'.scope = plan.scope
  BY PlanKept DEF FinishDelete
<1>3. k \in Keys /\ Clean(k) /\ CaptureTyped
  BY <1>1 DEF CaptureInvariant, CaptureJobOK, CapturePoints
<1>4. tombstones' = tombstones \/ (tombstones' = [tombstones EXCEPT ![k] = "deleted"] /\ tombstones[k] = "deleting")
  <2>1. [tombstones EXCEPT ![k] = tombstones[k]] = tombstones
    BY <1>3 DEF CaptureTyped
  <2> QED
    BY <2>1 DEF FinishDelete
<1>5. CaptureTyped' /\ Forward /\ ObjectsOK' /\ ReferencesOK'
  <2>1. CASE tombstones' = tombstones
    <3>1. UNCHANGED captureVars
      BY <1>1, <2>1 DEF captureVars
    <3> QED
      BY <1>1, <3>1, CaptureStill
  <2>2. CASE tombstones' # tombstones
    BY <1>1, <1>3, <1>4, <2>2, TombstoneMoves
  <2> QED
    BY <2>1, <2>2
<1>6. jobs' \in [Executions -> JobType] /\ \A e \in Executions : CaptureJobOK(e)'
  <2>1. CASE Conclude(d, "deleted")
    BY <1>5, <2>1, ConcludeMoves, RecordHolds, CaptureJobStep
  <2>2. CASE NextUnit(d)
    BY <1>5, <2>2, NextUnitRests, CaptureJobsRest DEF Rests
  <2>3. CASE Goto(d, "returned")
    BY <1>5, <2>3, GotoRests, CaptureJobsRest DEF Rests, CommonPoints
  <2> QED
    BY <2>1, <2>2, <2>3 DEF FinishDelete
<1> QED
  BY <1>1, <1>2, <1>5, <1>6 DEF CaptureInvariant

(* A backup begins while no key is being deleted and notes the tombstones    *)
(* and the evidence in use.                                                  *)
LEMMA CaptureBackupPreserves ==
  ASSUME ExecutionsTyped, CaptureInvariant, CaptureBackup, UNCHANGED captureVars
  PROVE  CaptureInvariant' /\ ExecutionsTyped' /\ plan'.scope = plan.scope
<1>1. CASE FenceSnapshot(BeingDeleted)
  <2>1. jobs' = jobs /\ backup' = backup /\ plan' \in Plan /\ plan'.scope = plan.scope
    BY <1>1, FenceKeeps
  <2> QED
    BY <2>1, RestsStill, CaptureRests DEF ExecutionsTyped
<1>2. CASE ~FenceSnapshot(BeingDeleted)
  <2> DEFINE older == {k \in Keys : tombstones[k] # "none"}
             found == {k \in Keys : tombstones[k] = "none" /\ evidence[k] # 0}
  <2>1. tombstones' = tombstones /\ evidence' = evidence /\ uploads' = uploads
    BY DEF captureVars
  <2>2. /\ jobs' = jobs /\ plan' = plan /\ backup' \in BackupType
        /\ \A k \in Keys : PreservedOK(k)'
    <3>1. CASE StartBackup(BeingDeleted, older, found)
      <4> DEFINE b == [state |-> "running", older |-> older, found |-> found]
      <4>1. b \in BackupType /\ b.older = older /\ b.found = found
        BY DEF BackupType
      <4>2. backup' = b /\ jobs' = jobs /\ plan' = plan
        BY <3>1 DEF StartBackup
      <4> HIDE DEF b
      <4> QED
        BY <2>1, <4>1, <4>2 DEF PreservedOK
    <3>2. CASE FinishBackup
      BY <2>1, <3>2, FinishKeeps DEF CaptureInvariant, ObjectsOK, PreservedOK, Discarded
    <3> QED
      BY <1>2, <3>1, <3>2 DEF CaptureBackup
  <2>3. /\ CaptureTyped' /\ Forward /\ ReferencesOK' /\ \A t \in DOMAIN uploads' : UploadOK(t)'
        /\ \A k \in Keys : BytesOK(k)'
    BY CaptureStill
  <2>4. \A d \in Executions : CaptureJobOK(d)'
    BY <2>2, <2>3, JobStays
  <2> QED
    BY <2>2, <2>3, <2>4 DEF CaptureInvariant, ObjectsOK, ExecutionsTyped
<1> QED
  BY <1>1, <1>2

(* Every step of evidence, one action at a time. *)
LEMMA CaptureStepPreserves ==
  ASSUME ExecutionsTyped, CaptureInvariant, CaptureNext
  PROVE  CaptureInvariant' /\ ExecutionsTyped' /\ plan'.scope = plan.scope
<1>1. ASSUME CaptureInvariant', jobs' \in [Executions -> JobType], backup' \in BackupType,
             plan' \in Plan, plan'.scope = plan.scope
      PROVE  CaptureInvariant' /\ ExecutionsTyped' /\ plan'.scope = plan.scope
  BY <1>1 DEF ExecutionsTyped
<1>2. ASSUME CaptureInvariant', jobs' = jobs, backup' = backup, plan' = plan
      PROVE  CaptureInvariant' /\ ExecutionsTyped' /\ plan'.scope = plan.scope
  BY <1>2 DEF ExecutionsTyped
<1>3. ASSUME UNCHANGED captureVars, Rests, backup' = backup, plan' \in Plan, plan'.scope = plan.scope
      PROVE  CaptureInvariant' /\ ExecutionsTyped' /\ plan'.scope = plan.scope
  BY <1>3, CaptureRests DEF ExecutionsTyped, Rests
<1>4. ASSUME NEW r \in Runs, NEW k \in Keys, NEW multipart \in BOOLEAN, BeginEvidenceObjectWrite(r, k, multipart)
      PROVE  CaptureInvariant' /\ ExecutionsTyped' /\ plan'.scope = plan.scope
  BY <1>2, <1>4, EvidenceWriteBegins
<1>5. ASSUME NEW r \in Runs, NEW k \in Keys, FinalizeSnapshot(r, k)
      PROVE  CaptureInvariant' /\ ExecutionsTyped' /\ plan'.scope = plan.scope
  BY <1>2, <1>5, FinalizePreserves
<1>a. ASSUME NEW s \in DOMAIN snapshots,
             \/ \E k \in Keys : DeclareDerived(s, k)
             \/ \E p \in DOMAIN snapshots : SealParseContext(s, p)
             \/ \E r \in Runs : ReuseSnapshot(r, s)
             \/ AdoptBlocks(s) \/ RetainSnapshot(s) \/ ReleaseSnapshot(s)
      PROVE  CaptureInvariant' /\ ExecutionsTyped' /\ plan'.scope = plan.scope
  <2>1. CaptureInvariant' /\ jobs' = jobs /\ backup' = backup /\ plan' \in Plan /\ plan'.scope = plan.scope
    BY <1>a, SnapshotsPreserve
  <2> QED
    BY <2>1 DEF ExecutionsTyped
<1>6. ASSUME NEW t \in DOMAIN uploads,
             \/ LandUpload(t) \/ AbortUpload(t) \/ CompleteEvidenceWrite(t)
             \/ SettleTerminalOwnerDispatch(t) \/ DiscardBody(t) \/ DeleteOwnBody(t)
      PROVE  CaptureInvariant' /\ ExecutionsTyped' /\ plan'.scope = plan.scope
  <2>1. CaptureInvariant' /\ jobs' = jobs /\ backup' = backup /\ plan' = plan
    BY <1>6, UploadLands, WritersPreserve, OwnBodyDeleted
  <2> QED
    BY <1>2, <2>1
<1>7. ASSUME NEW k \in Keys, PinEvidence(k) \/ StrayDelete(k)
      PROVE  CaptureInvariant' /\ ExecutionsTyped' /\ plan'.scope = plan.scope
  <2>1. CASE PinEvidence(k)
    BY <1>2, <2>1, RunsPreserve
  <2>2. CASE StrayDelete(k)
    BY <1>2, <2>2, StrayMoves
  <2> QED
    BY <1>7, <2>1, <2>2
<1>8. ASSUME NEW r \in Runs, EndRun(r) \/ PassRunRetention(r) \/ BeginEvidenceCleanup(r)
      PROVE  CaptureInvariant' /\ ExecutionsTyped' /\ plan'.scope = plan.scope
  <2>1. CASE EndRun(r) \/ PassRunRetention(r)
    BY <1>2, <2>1, RunsPreserve
  <2>2. CASE BeginEvidenceCleanup(r)
    BY <1>3, <2>2, RequestRests DEF BeginEvidenceCleanup, Runs
  <2> QED
    BY <1>8, <2>1, <2>2
<1>9. ASSUME NEW d \in Executions, AdvanceEvidenceCleanup(d)
      PROVE  CaptureInvariant' /\ ExecutionsTyped' /\ plan'.scope = plan.scope
  <2>0. plan \in Plan /\ backup \in BackupType
    BY DEF ExecutionsTyped
  <2>1. CASE Advance(d, CaptureInventory(d[1])) /\ UNCHANGED captureVars
    <3>1. CaptureInventory(d[1]) \in SUBSET Keys
      BY DEF CaptureInventory
    <3>2. Rests /\ backup' = backup /\ plan' \in Plan /\ plan'.scope = plan.scope
      BY <2>1, <3>1, AdvanceRests
    <3> QED
      BY <1>3, <2>1, <3>2
  <2>2. CASE ReadTombstone(d) \/ RereadTombstone(d) \/ ReadWriter(d) \/ CheckOtherWriters(d) \/ GuardDelete(d)
    BY <1>1, <2>0, <2>2, EvidenceLook
  <2>3. CASE ClaimCleanupObject(d) \/ AuthorizeCleanupDelete(d)
    BY <1>1, <2>0, <2>3, ClaimMoves
  <2>4. CASE SettleWriter(d) \/ AbortWriter(d) \/ CompleteWriter(d)
    BY <1>1, <2>0, <2>4, SettleMoves
  <2>5. CASE SendDelete(d) \/ LoseDelete(d)
    BY <1>1, <2>0, <2>5, SendMoves, LoseDeleteMoves
  <2>6. CASE FinishDelete(d)
    BY <1>1, <2>0, <2>6, FinishMoves
  <2> QED
    BY <1>9, <2>1, <2>2, <2>3, <2>4, <2>5, <2>6 DEF AdvanceEvidenceCleanup
<1>10. ASSUME NEW d \in Executions, UNCHANGED captureVars, Exhaust(d) \/ LoseExecution(d, {"abort", "complete", "deleted"})
       PROVE  CaptureInvariant' /\ ExecutionsTyped' /\ plan'.scope = plan.scope
  <2>1. Rests /\ backup' = backup /\ plan' \in Plan /\ plan'.scope = plan.scope
    BY <1>10, AdvanceRests
  <2> QED
    BY <1>3, <1>10, <2>1
<1>11. ASSUME NEW c \in Cleanups, Request(c), UNCHANGED captureVars
       PROVE  CaptureInvariant' /\ ExecutionsTyped' /\ plan'.scope = plan.scope
  BY <1>3, <1>11, RequestRests
<1>12. CASE CaptureBackup /\ UNCHANGED captureVars
  BY <1>12, CaptureBackupPreserves
<1> QED
  BY <1>4, <1>5, <1>a, <1>6, <1>7, <1>8, <1>9, <1>10, <1>11, <1>12 DEF CaptureNext

-----------------------------------------------------------------------------
(* Reclamation. *)
LEMMA ReclamationBegins ==
  ASSUME Init
  PROVE  ReclamationInvariant
<1>1. ExecutionsTyped
  <2>1. plan \in Plan
    BY CleanupAssumption DEF Init, CleanupInit
  <2>2. jobs \in [Executions -> JobType] /\ \A d \in Executions : jobs[d].pc = "idle"
    <3>1. "idle" \in CommonPoints
      BY DEF CommonPoints
    <3>2. Job("idle") \in JobType /\ Job("idle").pc = "idle"
      BY <3>1, JobTyped
    <3> QED
      BY <3>2 DEF Init, CleanupInit
  <2>3. backup \in BackupType
    BY DEF Init, CleanupInit, BackupType
  <2> QED
    BY <2>1, <2>2, <2>3 DEF ExecutionsTyped
<1>2. /\ \A d \in Executions : jobs[d].pc = "idle"
      /\ ~Protecting
  <2>1. "idle" \in CommonPoints
    BY DEF CommonPoints
  <2> QED
    BY <2>1, JobTyped DEF Init, CleanupInit, Protecting
<1>3. StagingInvariant
  <2>1. StagingTyped
    BY SMT DEF Init, StagingInit, StagingTyped, StagingObject, Writer
  <2>2. DOMAIN writes = {} /\ DOMAIN deletes = {}
    BY SMT DEF Init, StagingInit
  <2>3. \A k \in Keys : ObjectOK(k) /\ FoundOK(k)
    BY <1>2 DEF Init, StagingInit, ObjectOK, FoundOK
  <2>4. \A d \in Executions : StagingJobOK(d)
    BY <1>2 DEF StagingJobOK, StagingPoints
  <2>5. \A p \in Preparations : WriterOK(p)
    BY DEF Init, StagingInit, WriterOK
  <2> QED
    BY <2>1, <2>2, <2>3, <2>4, <2>5 DEF StagingInvariant
<1>4. CaptureInvariant
  <2>1. CaptureTyped /\ DOMAIN uploads = {} /\ DOMAIN snapshots = {}
    BY SMT DEF Init, CaptureInit, CaptureTyped
  <2>2. \A k \in Keys : BytesOK(k) /\ PreservedOK(k) /\ FreeOK(k)
    BY <1>2 DEF Init, CaptureInit, BytesOK, PreservedOK, FreeOK
  <2>3. \A d \in Executions : CaptureJobOK(d)
    BY <1>2 DEF CaptureJobOK, CapturePoints
  <2> QED
    BY <2>1, <2>2, <2>3 DEF CaptureInvariant, ObjectsOK, ReferencesOK
<1> QED
  BY <1>1, <1>3, <1>4 DEF ReclamationInvariant, Init

(* The kind of objects a plan is not about stays as it began. *)
LEMMA RestingKind ==
  /\ CaptureInit /\ UNCHANGED captureVars => CaptureInit'
  /\ StagingInit /\ UNCHANGED stagingVars => StagingInit'
  BY DEF CaptureInit, captureVars, StagingInit, stagingVars

LEMMA ReclamationStep ==
  ASSUME ReclamationInvariant, [Next]_vars
  PROVE  ReclamationInvariant'
<1>1. ExecutionsTyped /\ (plan.scope = "staging" \/ plan.scope = "capture")
  BY DEF ReclamationInvariant, ExecutionsTyped, Plan
<1>2. CASE OfStaging /\ StagingNext
  <2>1. plan.scope = "staging" /\ StagingInvariant /\ CaptureInit /\ UNCHANGED captureVars
    BY <1>2 DEF ReclamationInvariant, OfStaging
  <2>2. StagingInvariant' /\ ExecutionsTyped' /\ plan'.scope = plan.scope
    BY <1>1, <1>2, <2>1, StagingStepPreserves
  <2> QED
    BY <2>1, <2>2, RestingKind DEF ReclamationInvariant
<1>3. CASE OfCapture /\ CaptureNext
  <2>1. plan.scope = "capture" /\ CaptureInvariant /\ StagingInit /\ UNCHANGED stagingVars
    BY <1>3 DEF ReclamationInvariant, OfCapture
  <2>2. CaptureInvariant' /\ ExecutionsTyped' /\ plan'.scope = plan.scope
    BY <1>1, <1>3, <2>1, CaptureStepPreserves
  <2> QED
    BY <2>1, <2>2, RestingKind DEF ReclamationInvariant
<1>4. CASE (Unfence /\ UNCHANGED <<stagingVars, captureVars>>) \/ UNCHANGED vars
  <2>1. /\ jobs' = jobs /\ backup' = backup /\ plan' = plan
        /\ UNCHANGED stagingVars /\ UNCHANGED captureVars
    BY <1>4 DEF Unfence, vars, cleanupVars
  <2>2. Rests /\ ExecutionsTyped'
    BY <1>1, <2>1, RestsStill DEF ExecutionsTyped
  <2>3. plan.scope = "staging" => StagingInvariant' /\ CaptureInit'
    BY <2>1, <2>2, StagingRests, RestingKind DEF ReclamationInvariant
  <2>4. plan.scope = "capture" => CaptureInvariant' /\ StagingInit'
    BY <2>1, <2>2, CaptureRests, RestingKind DEF ReclamationInvariant
  <2> QED
    BY <2>1, <2>2, <2>3, <2>4 DEF ReclamationInvariant
<1> QED
  BY <1>2, <1>3, <1>4 DEF Next

(* The invariant of the reclamation: for staging objects, every bucket call  *)
(* still under way has an open ticket, and an open ticket fixes the state of *)
(* its key (trackedStagingBucket, the staging_ triggers); for evidence, a    *)
(* tombstone is never taken back and is only on keys nothing retains         *)
(* (evidence_cleanup_claim_guard and the triggers that respect it).          *)
THEOREM ReclamationIsInvariant == Spec => []ReclamationInvariant
<1>1. Init => ReclamationInvariant
  BY ReclamationBegins
<1>2. ReclamationInvariant /\ [Next]_vars => ReclamationInvariant'
  BY ReclamationStep
<1> QED
  BY <1>1, <1>2, PTL DEF Spec

LEMMA StagingFacts ==
  ASSUME ReclamationInvariant
  PROVE  DeletedStaysDeleted /\ DeleteStaysInItsIncarnation /\ ActiveWriterKeepsObject
<1>1. CASE plan.scope = "staging"
  <2>1. StagingInvariant
    BY <1>1 DEF ReclamationInvariant
  <2>2. DeletedStaysDeleted
    BY <2>1 DEF StagingInvariant, ObjectOK, DeletedStaysDeleted
  <2>3. DeleteStaysInItsIncarnation
    BY <2>1 DEF StagingInvariant, DeleteOK, DeleteStaysInItsIncarnation
  <2>4. ActiveWriterKeepsObject
    BY <2>1 DEF StagingInvariant, WriteOK, ActiveWriterKeepsObject
  <2> QED
    BY <2>2, <2>3, <2>4
<1>2. CASE plan.scope = "capture"
  <2>1. StagingInit
    BY <1>2 DEF ReclamationInvariant
  <2>2. DOMAIN writes = {} /\ DOMAIN deletes = {} /\ \A k \in Keys : stored[k] = 0
    BY <2>1, SMT DEF StagingInit
  <2> QED
    BY <2>2 DEF DeletedStaysDeleted, DeleteStaysInItsIncarnation, ActiveWriterKeepsObject
<1> QED
  BY <1>1, <1>2 DEF ReclamationInvariant, ExecutionsTyped, Plan

(* A staging key whose cleanup reported it deleted holds nothing, whatever   *)
(* put was still on its way.  (staging_physical_guard waits for open writes) *)
THEOREM DeletedHoldsNothing == Spec => []DeletedStaysDeleted
<1>1. ReclamationInvariant => DeletedStaysDeleted
  BY StagingFacts
<1> QED
  BY <1>1, ReclamationIsInvariant, PTL

(* No delete of an earlier incarnation can reach a key that was written      *)
(* again.  (beginStagingDelete, staging_incarnation_guard)                   *)
THEOREM DeletesKeepTheirIncarnation == Spec => []DeleteStaysInItsIncarnation
<1>1. ReclamationInvariant => DeleteStaysInItsIncarnation
  BY StagingFacts
<1> QED
  BY <1>1, ReclamationIsInvariant, PTL

(* What an active preparation has written stays available to it.             *)
(* (staging_reservation_guard)                                               *)
THEOREM ActiveWritersKeepObjects == Spec => []ActiveWriterKeepsObject
<1>1. ReclamationInvariant => ActiveWriterKeepsObject
  BY StagingFacts
<1> QED
  BY <1>1, ReclamationIsInvariant, PTL

(* Evidence under a deleted tombstone is gone and no upload brings it back,  *)
(* but for a put whose writer was completed because its object was absent.   *)
(* (openEvidenceWriter, evidence_cleanup_writer_guard,                       *)
(* settleTerminalOwnerDispatches)                                            *)
THEOREM ReclaimedIsGone == Spec => []ReclaimedStaysGone
<1>1. ASSUME ReclamationInvariant PROVE ReclaimedStaysGone
  <2>1. CASE plan.scope = "capture"
    BY <1>1, <2>1 DEF ReclamationInvariant, CaptureInvariant, ObjectsOK, BytesOK, Clean, ReclaimedStaysGone
  <2>2. CASE plan.scope = "staging"
    BY <1>1, <2>2 DEF ReclamationInvariant, CaptureInit, ReclaimedStaysGone
  <2> QED
    BY <1>1, <2>1, <2>2 DEF ReclamationInvariant, ExecutionsTyped, Plan
<1> QED
  BY <1>1, ReclamationIsInvariant, PTL

(* While a backup may be restored, no cleanup of either kind deletes an      *)
(* object the backup found stored and unclaimed.  (cleanup_backup_start,     *)
(* staging_backup_start and the two physical guards)                         *)
THEOREM BackupsKeepObjects == Spec => []BackupKeepsObjects
<1>1. ASSUME ReclamationInvariant PROVE BackupKeepsObjects
  <2>1. backup.found \subseteq Keys
    BY <1>1 DEF ReclamationInvariant, ExecutionsTyped, BackupType
  <2>2. CASE plan.scope = "staging"
    BY <1>1, <2>1, <2>2 DEF ReclamationInvariant, StagingInvariant, FoundOK, Protecting, BackupKeepsObjects
  <2>3. CASE plan.scope = "capture"
    BY <1>1, <2>1, <2>3 DEF ReclamationInvariant, CaptureInvariant, ObjectsOK, PreservedOK, Protecting, BackupKeepsObjects
  <2> QED
    BY <1>1, <2>2, <2>3 DEF ReclamationInvariant, ExecutionsTyped, Plan
<1> QED
  BY <1>1, ReclamationIsInvariant, PTL

-----------------------------------------------------------------------------
(* What the steps delete. *)
LEMMA StagingStores ==
  ASSUME StagingNext
  PROVE  stored' = stored \/ Bucket
<1>1. ASSUME UNCHANGED stagingVars PROVE stored' = stored
  BY <1>1 DEF stagingVars
<1>2. ASSUME NEW p \in Preparations, StageObject(p) PROVE stored' = stored
  BY <1>2 DEF StageObject, HeadObject, BeginStagingWrite, FinishPut, VerifyObject, RetainReference, LoseWriter
<1>3. ASSUME NEW p \in Preparations, EndPreparation(p) \/ PassRetention(p) \/ BeginStagingCleanup(p)
      PROVE  stored' = stored
  BY <1>1, <1>3 DEF EndPreparation, PassRetention, BeginStagingCleanup
<1>4. ASSUME NEW d \in Executions, AdvanceStagingCleanup(d) PROVE stored' = stored
  <2>1. CASE \/ Advance(d, Inventory(d[1])) /\ UNCHANGED stagingVars
             \/ ReadStagingObject(d) \/ InspectStagingObject(d) \/ CheckTickets(d) \/ ReadFinal(d)
    BY <1>1, <2>1 DEF ReadStagingObject, InspectStagingObject, CheckTickets, ReadFinal
  <2>2. CASE ReserveStagingObject(d) \/ PromoteStagingDelete(d) \/ BeginStagingDelete(d) \/ FinishStagingDelete(d)
    BY <2>2 DEF ReserveStagingObject, PromoteStagingDelete, BeginStagingDelete, FinishStagingDelete
  <2> QED
    BY <1>4, <2>1, <2>2 DEF AdvanceStagingCleanup
<1> QED
  BY <1>1, <1>2, <1>3, <1>4 DEF StagingNext

(* Bytes that something retains are never deleted: a delete under way is of  *)
(* a key being deleted, and a retained key is available.  (the staging_      *)
(* reference triggers, staging_physical_guard)                               *)
THEOREM DeletesSpareReferences == Spec => DeleteSparesReferences
<1> DEFINE Spares == \A k \in references : stored'[k] = stored[k] \/ stored[k] = 0
<1>1. ASSUME ReclamationInvariant, [Next]_vars PROVE Spares
  <2>1. CASE stored' = stored
    BY <2>1
  <2>2. CASE stored' # stored
    <3>1. OfStaging /\ StagingNext /\ Bucket
      BY <1>1, <2>2, StagingStores DEF Next, OfCapture, stagingVars, vars
    <3>2. StagingInvariant /\ StagingTyped
      BY <1>1, <3>1 DEF ReclamationInvariant, OfStaging, StagingInvariant
    <3>3. ASSUME NEW t \in DOMAIN writes, LandPut(t) PROVE Spares
      BY <3>2, <3>3, WriteTyped DEF LandPut, StagingTyped
    <3>4. ASSUME NEW t \in DOMAIN deletes, LandDelete(t) PROVE Spares
      <4>1. deletes[t].key \in Keys /\ deletes[t].key \notin references
        BY <3>2, <3>4, DeleteTyped, ObjectTyped DEF LandDelete, DeleteOK, ObjectOK
      <4> QED
        BY <3>2, <3>4, <4>1 DEF LandDelete, StagingTyped
    <3> QED
      BY <3>1, <3>3, <3>4 DEF Bucket
  <2> QED
    BY <2>1, <2>2
<1>2. ReclamationInvariant /\ [Next]_vars => [Spares]_<<stored, references>>
  BY <1>1
<1> QED
  BY <1>2, ReclamationIsInvariant, PTL DEF Spec, DeleteSparesReferences

LEMMA CaptureStores ==
  ASSUME CaptureNext
  PROVE  \/ evidence' = evidence
         \/ \E t \in DOMAIN uploads : LandUpload(t) \/ DeleteOwnBody(t)
         \/ \E k \in Keys : StrayDelete(k)
         \/ \E d \in Executions : SendDelete(d)
<1>1. ASSUME UNCHANGED captureVars PROVE evidence' = evidence
  BY <1>1 DEF captureVars
<1>2. ASSUME NEW r \in Runs, NEW k \in Keys, FinalizeSnapshot(r, k) \/ \E m \in BOOLEAN : BeginEvidenceObjectWrite(r, k, m)
      PROVE  evidence' = evidence
  BY <1>2 DEF FinalizeSnapshot, BeginEvidenceObjectWrite
<1>3. ASSUME NEW r \in Runs, EndRun(r) \/ PassRunRetention(r) \/ BeginEvidenceCleanup(r)
      PROVE  evidence' = evidence
  BY <1>1, <1>3 DEF EndRun, PassRunRetention, BeginEvidenceCleanup
<1>4. ASSUME NEW d \in Executions, AdvanceEvidenceCleanup(d), ~SendDelete(d) PROVE evidence' = evidence
  <2>1. CASE \/ Advance(d, CaptureInventory(d[1])) /\ UNCHANGED captureVars
             \/ ReadTombstone(d) \/ RereadTombstone(d) \/ ReadWriter(d) \/ SettleWriter(d)
             \/ CheckOtherWriters(d) \/ GuardDelete(d)
    BY <1>1, <2>1 DEF ReadTombstone, RereadTombstone, ReadWriter, SettleWriter, CheckOtherWriters, GuardDelete
  <2>2. CASE \/ ClaimCleanupObject(d) \/ AbortWriter(d) \/ CompleteWriter(d) \/ AuthorizeCleanupDelete(d)
             \/ LoseDelete(d) \/ FinishDelete(d)
    BY <2>2 DEF ClaimCleanupObject, AbortWriter, CompleteWriter, AuthorizeCleanupDelete, LoseDelete, FinishDelete
  <2> QED
    BY <1>4, <2>1, <2>2 DEF AdvanceEvidenceCleanup
<1>5. ASSUME NEW t \in DOMAIN uploads,
             CompleteEvidenceWrite(t) \/ AbortUpload(t) \/ SettleTerminalOwnerDispatch(t) \/ DiscardBody(t)
      PROVE  evidence' = evidence
  BY <1>5 DEF CompleteEvidenceWrite, AbortUpload, SettleTerminalOwnerDispatch, DiscardBody
<1>6. \A k \in Keys : PinEvidence(k) => evidence' = evidence
  BY DEF PinEvidence
<1>7. ASSUME NEW s \in DOMAIN snapshots,
             \/ \E k \in Keys : DeclareDerived(s, k)
             \/ \E p \in DOMAIN snapshots : SealParseContext(s, p)
             \/ \E r \in Runs : ReuseSnapshot(r, s)
             \/ AdoptBlocks(s) \/ RetainSnapshot(s) \/ ReleaseSnapshot(s)
      PROVE  evidence' = evidence
  BY <1>7 DEF DeclareDerived, SealParseContext, ReuseSnapshot, AdoptBlocks, RetainSnapshot, ReleaseSnapshot
<1> QED
  BY <1>1, <1>2, <1>3, <1>4, <1>5, <1>6, <1>7 DEF CaptureNext

(* Evidence that is retained, itself or with a snapshot, or that a live run  *)
(* owns, is never deleted by a cleanup: a delete, in time or late, is of a   *)
(* key with a tombstone, which nothing retains and only runs past their      *)
(* retention own.  (cleanupDeleteGuard, evidence_cleanup_reference_guard)    *)
THEOREM DeletesSpareEvidence == Spec => DeleteSparesEvidence
<1> DEFINE Live(k) == Retained(k) \/ \E r \in owners[k] : runs[r] = "active"
           Spares == \A k \in Keys : Live(k) => evidence[k] = 0 \/ evidence'[k] # 0 \/ Discarded(k)
<1>1. ASSUME ReclamationInvariant, [Next]_vars PROVE Spares
  <2>1. CASE evidence' = evidence
    BY <2>1
  <2>2. CASE evidence' # evidence
    <3>1. OfCapture /\ CaptureNext
      BY <1>1, <2>2 DEF Next, OfStaging, captureVars, vars
    <3>2. CaptureInvariant /\ CaptureTyped
      BY <1>1, <3>1 DEF ReclamationInvariant, OfCapture, CaptureInvariant
    <3>3. ASSUME NEW t \in DOMAIN uploads, LandUpload(t) PROVE Spares
      <4>1. uploads[t].key \in Keys /\ t # 0
        BY <3>2, UploadTyped
      <4>2. \A j \in Keys : evidence'[j] = evidence[j] \/ evidence'[j] = t
        BY <3>2, <3>3, <4>1 DEF LandUpload, CaptureTyped
      <4> QED
        BY <4>1, <4>2
    <3>4. ASSUME NEW k \in Keys, evidence' = [evidence EXCEPT ![k] = 0], Live(k) => Discarded(k) PROVE Spares
      <4>1. \A j \in Keys : j # k => evidence'[j] = evidence[j]
        BY <3>2, <3>4 DEF CaptureTyped
      <4> QED
        BY <3>4, <4>1
    <3>5. ASSUME NEW k \in Keys, Doomed(k) PROVE ~Live(k)
      <4>1. ~Retained(k) /\ \A r \in owners[k] : runs[r] = "aged"
        BY <3>2, <3>5 DEF CaptureInvariant, ReferencesOK, FreeOK, Doomed
      <4> QED
        BY <4>1
    <3>6. ASSUME NEW t \in DOMAIN uploads, DeleteOwnBody(t) PROVE Spares
      <4>1. /\ uploads[t].key \in Keys /\ evidence' = [evidence EXCEPT ![uploads[t].key] = 0]
            /\ Discarded(uploads[t].key)
        BY <3>2, <3>6, UploadTyped DEF DeleteOwnBody, Discarded
      <4> QED
        BY <3>4, <4>1
    <3>7. ASSUME NEW k \in Keys, StrayDelete(k) PROVE Spares
      <4>1. Doomed(k) /\ evidence' = [evidence EXCEPT ![k] = 0]
        BY <3>2, <3>7 DEF StrayDelete, CaptureInvariant, ObjectsOK, BytesOK
      <4> QED
        BY <3>4, <3>5, <4>1
    <3>8. ASSUME NEW d \in Executions, SendDelete(d) PROVE Spares
      <4>1. /\ jobs[d].key \in Keys /\ Doomed(jobs[d].key)
            /\ evidence' = [evidence EXCEPT ![jobs[d].key] = 0]
        BY <3>2, <3>8 DEF SendDelete, CaptureInvariant, CaptureJobOK, CapturePoints
      <4> QED
        BY <3>4, <3>5, <4>1
    <3> QED
      BY <2>2, <3>1, <3>3, <3>6, <3>7, <3>8, CaptureStores
  <2> QED
    BY <2>1, <2>2
<1>2. ReclamationInvariant /\ [Next]_vars => [Spares]_<<evidence, pinned, owners, snapshots, runs>>
  BY <1>1
<1> QED
  BY <1>2, ReclamationIsInvariant, PTL DEF Spec, DeleteSparesEvidence
=============================================================================
