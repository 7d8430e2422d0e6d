------------------------ MODULE StagingReclamation -------------------------
(***************************************************************************)
(* Content-addressed staging objects: the preparations that write and      *)
(* reference them, and the cleanups of abandoned preparations that delete  *)
(* them.  The same key may be deleted and written again, so every write    *)
(* and every delete holds a ticket for one incarnation of its key.         *)
(*                                                                         *)
(*   preparations  reconciliation_operations: active, terminal (failed or  *)
(*                 abandoned), or aged (terminal past its retention)       *)
(*   objects       staging_objects; "unknown" is a key with no row, and a  *)
(*                 cleanup of a preparation has the preparation's name     *)
(*   writes        staging_object_writes by token, with the fate of the    *)
(*                 bucket call: sent, or settled in the bucket             *)
(*   deletes       staging_object_deletes by token, likewise               *)
(*   stored        the bucket: the writer token of each key's object, or 0 *)
(*   references    keys that staging_retained_objects selects              *)
(*   writers       each preparation's writing step                         *)
(*                                                                         *)
(* A bucket call whose answer is lost stays sent, and may take effect at   *)
(* any later time, or never.                                               *)
(***************************************************************************)
EXTENDS EvidenceCleanup, Sequences

CONSTANTS MaxWrites,   \* write tickets in a behaviour
          MaxDeletes   \* delete tickets in a behaviour

VARIABLES preparations, objects, writes, deletes, stored, references, writers

stagingVars == <<preparations, objects, writes, deletes, stored, references, writers>>

Preparations == Cleanups
NoCleanup == "none"

StagingObject == [state : {"unknown", "available", "reserved", "deleting", "deleted"},
                  incarnation : Nat, cleanup : Cleanups \cup {NoCleanup}]
StagingWrite == [preparation : Preparations, key : Keys, incarnation : Nat,
                 open : BOOLEAN, io : {"sent", "settled"}]
StagingDelete == [key : Keys, incarnation : Nat, open : BOOLEAN, io : {"sent", "settled"}]
Writer == [pc : {"idle", "write", "put", "verify", "reference"}, key : Keys \cup {0}, token : Nat]

StagingTypeOK ==
  /\ CleanupTypeOK
  /\ preparations \in [Preparations -> {"active", "terminal", "aged"}]
  /\ objects \in [Keys -> StagingObject]
  /\ writes \in Seq(StagingWrite)
  /\ deletes \in Seq(StagingDelete)
  /\ stored \in [Keys -> Nat]
  /\ references \subseteq Keys
  /\ writers \in [Preparations -> Writer]

StagingInit ==
  /\ preparations = [p \in Preparations |-> "active"]
  /\ objects = [k \in Keys |-> [state |-> "unknown", incarnation |-> 0, cleanup |-> NoCleanup]]
  /\ writes = <<>> /\ deletes = <<>>
  /\ stored = [k \in Keys |-> 0]
  /\ references = {}
  /\ writers = [p \in Preparations |-> [pc |-> "idle", key |-> 0, token |-> 0]]

OpenWrites(k) == {t \in DOMAIN writes : writes[t].key = k /\ writes[t].open}
OpenDeletes(k) == {t \in DOMAIN deletes : deletes[t].key = k /\ deletes[t].open}

Inventory(c) == {k \in Keys : \E t \in DOMAIN writes : writes[t].preparation = c /\ writes[t].key = k}

-----------------------------------------------------------------------------
(* A preparation stages one object: it looks, writes what is absent,         *)
(* verifies the bytes and retains a reference.                               *)

(* A writer token seen on the stored object settles that ticket, unless the  *)
(* key has been deleted and written again since.                             *)
Acknowledge(k, tickets) ==
  LET t == stored[k] IN
  IF t # 0 /\ writes[t].incarnation = objects[k].incarnation
  THEN [tickets EXCEPT ![t].open = FALSE] ELSE tickets

HeadObject(p, k) ==
  /\ writers[p].pc = "idle" /\ preparations[p] = "active" /\ ~fenced
  /\ p \in plan.owners /\ k \in plan.keys
  /\ writes' = Acknowledge(k, writes)
  /\ writers' = [writers EXCEPT ![p] = [pc |-> IF stored[k] = 0 THEN "write" ELSE "verify",
                                        key |-> k, token |-> 0]]
  /\ UNCHANGED <<cleanupVars, preparations, objects, deletes, stored, references>>

(* The upsert revives only a deleted key, as a new incarnation, and the      *)
(* ticket is admitted only for an available one.                             *)
BeginStagingWrite(p) ==
  LET k == writers[p].key
      o == objects[k]
      admitted == /\ o.state \in {"unknown", "available", "deleted"}
                  /\ o.state = "deleted" => OpenDeletes(k) = {}
                  /\ preparations[p] = "active" /\ cleanups[p].state = "none"
      incarnation == IF o.state = "deleted" THEN o.incarnation + 1 ELSE o.incarnation IN
  /\ writers[p].pc = "write" /\ Len(writes) < MaxWrites /\ ~fenced
  /\ \/ /\ admitted
        /\ objects' = [objects EXCEPT ![k] = [state |-> "available", incarnation |-> incarnation,
                                              cleanup |-> NoCleanup]]
        /\ writes' = Append(writes, [preparation |-> p, key |-> k, incarnation |-> incarnation,
                                     open |-> TRUE, io |-> "sent"])
        /\ writers' = [writers EXCEPT ![p] = [@ EXCEPT !.pc = "put", !.token = Len(writes) + 1]]
     \/ /\ ~admitted
        /\ writers' = [writers EXCEPT ![p].pc = "idle"]
        /\ UNCHANGED <<objects, writes>>
  /\ UNCHANGED <<cleanupVars, preparations, deletes, stored, references>>

(* The bucket applies a conditional put: it never replaces an object. *)
LandPut(t) ==
  /\ writes[t].io = "sent"
  /\ writes' = [writes EXCEPT ![t].io = "settled"]
  /\ stored' = [stored EXCEPT ![writes[t].key] = IF @ = 0 THEN t ELSE @]
  /\ UNCHANGED <<cleanupVars, preparations, objects, deletes, references, writers>>

(* Mutant: a lost answer settles the ticket as well. *)
FinishAnyPut(p) ==
  /\ writers[p].pc = "put" /\ ~fenced
  /\ writes' = [writes EXCEPT ![writers[p].token].open = FALSE]
  /\ writers' = [writers EXCEPT ![p].pc = "idle"]
  /\ UNCHANGED <<cleanupVars, preparations, objects, deletes, stored, references>>

(* A fulfilled put settles its own ticket and, when it found an object,      *)
(* that object's; a rejected or abandoned one settles nothing (LoseWriter).  *)
FinishPut(p) ==
  LET t == writers[p].token
      k == writers[p].key
      settled == [writes EXCEPT ![t].open = FALSE] IN
  /\ writers[p].pc = "put" /\ writes[t].io = "settled" /\ ~fenced
  /\ writes' = IF stored[k] # t THEN Acknowledge(k, settled) ELSE settled
  /\ writers' = [writers EXCEPT ![p].pc = "verify"]
  /\ UNCHANGED <<cleanupVars, preparations, objects, deletes, stored, references>>

VerifyObject(p) ==
  /\ writers[p].pc = "verify"
  /\ writers' = [writers EXCEPT ![p].pc = IF stored[writers[p].key] = 0 THEN "idle" ELSE "reference"]
  /\ UNCHANGED <<cleanupVars, preparations, objects, writes, deletes, stored, references>>

(* Mutant: a reference without the staging_reference triggers. *)
ReferenceUnfenced(p) ==
  /\ writers[p].pc = "reference" /\ ~fenced
  /\ references' = references \cup {writers[p].key}
  /\ writers' = [writers EXCEPT ![p].pc = "idle"]
  /\ UNCHANGED <<cleanupVars, preparations, objects, writes, deletes, stored>>

(* Every table that retains an object refuses a key that is not available. *)
RetainReference(p) ==
  /\ writers[p].pc = "reference" /\ ~fenced
  /\ references' = IF objects[writers[p].key].state = "available"
                   THEN references \cup {writers[p].key} ELSE references
  /\ writers' = [writers EXCEPT ![p].pc = "idle"]
  /\ UNCHANGED <<cleanupVars, preparations, objects, writes, deletes, stored>>

(* A step dies with its Worker or with its preparation's failure. *)
LoseWriter(p) ==
  /\ writers[p].pc \in {"write", "put", "verify", "reference"}
  /\ preparations[p] # "active" \/ Happens("lose_put")
  /\ writers' = [writers EXCEPT ![p].pc = "idle"]
  /\ UNCHANGED <<cleanupVars, preparations, objects, writes, deletes, stored, references>>

(* A preparation fails or is abandoned whatever its step is doing; its       *)
(* retention, a day at least, outlasts the step but not a sent bucket call.  *)
EndPreparation(p) ==
  /\ preparations[p] = "active" /\ p \in plan.ends /\ ~fenced
  /\ preparations' = [preparations EXCEPT ![p] = "terminal"]
  /\ UNCHANGED <<cleanupVars, objects, writes, deletes, stored, references, writers>>

PassRetention(p) ==
  /\ preparations[p] = "terminal" /\ writers[p].pc = "idle"
  /\ preparations' = [preparations EXCEPT ![p] = "aged"]
  /\ UNCHANGED <<cleanupVars, objects, writes, deletes, stored, references, writers>>

BeginStagingCleanup(c) ==
  /\ preparations[c] = "aged"
  /\ BeginCleanup(c)
  /\ UNCHANGED stagingVars

-----------------------------------------------------------------------------
(* One unit of advanceStagingCleanup, one action per database or bucket call. *)

(* Mutant: the reservation looks at references only. *)
ReservableUnreferenced(k) == k \notin references

(* staging_reservation_guard: nothing retains the object, and every          *)
(* preparation that wrote this incarnation is past its retention.            *)
Reservable(k) ==
  /\ k \notin references
  /\ \A t \in DOMAIN writes :
       writes[t].key = k /\ writes[t].incarnation = objects[k].incarnation =>
         preparations[writes[t].preparation] = "aged"

ReadStagingObject(d) ==
  /\ jobs[d].pc = "read"
  /\ LET o == objects[jobs[d].key] IN
     jobs' = [jobs EXCEPT ![d] = [@ EXCEPT !.pc = IF o.state = "available" THEN "reserve" ELSE "inspect",
                                          !.seen = o.state, !.ticket = o.incarnation]]
  /\ UNCHANGED <<cleanups, fenced, backup, plan, stagingVars>>

ReserveStagingObject(d) ==
  LET k == jobs[d].key
      matches == objects[k].state = "available" /\ objects[k].incarnation = jobs[d].ticket IN
  /\ jobs[d].pc = "reserve" /\ ~fenced
  /\ \/ matches /\ ~Reservable(k) /\ Conclude(d, "protected") /\ UNCHANGED <<objects, backup>>
     \/ /\ matches /\ Reservable(k) /\ Goto(d, "inspect") /\ DateClaim(d, k)
        /\ objects' = [objects EXCEPT ![k] = [@ EXCEPT !.state = "reserved", !.cleanup = d[1]]]
     \/ ~matches /\ Goto(d, "inspect") /\ UNCHANGED <<objects, backup>>
  /\ UNCHANGED <<cleanups, fenced, plan, preparations, writes, deletes, stored, references, writers>>

(* The row read again after a reservation, or the first read. *)
InspectStagingObject(d) ==
  LET k == jobs[d].key
      o == objects[k] IN
  /\ jobs[d].pc = "inspect"
  /\ IF o.cleanup # d[1] THEN Conclude(d, "protected")
     ELSE IF o.state = "deleted" THEN Conclude(d, "deleted")
     ELSE jobs' = [jobs EXCEPT ![d] = [@ EXCEPT !.pc = "tickets", !.seen = o.state, !.ticket = o.incarnation]]
  /\ UNCHANGED <<cleanups, fenced, backup, plan, stagingVars>>

CheckTickets(d) ==
  LET k == jobs[d].key
      unsettled == \/ \E t \in OpenWrites(k) : writes[t].incarnation = jobs[d].ticket
                   \/ \E t \in OpenDeletes(k) : deletes[t].incarnation = jobs[d].ticket IN
  /\ jobs[d].pc = "tickets"
  /\ IF unsettled THEN Conclude(d, "waiting")
     ELSE Goto(d, IF jobs[d].seen = "reserved" THEN "promote" ELSE "delete")
  /\ UNCHANGED <<cleanups, fenced, backup, plan, stagingVars>>

(* staging_physical_guard. *)
Deletable(k) == k \notin references /\ OpenWrites(k) = {} /\ ~BackupProtects(k)

PromoteStagingDelete(d) ==
  LET k == jobs[d].key
      o == objects[k]
      matches == o.state = "reserved" /\ o.incarnation = jobs[d].ticket /\ o.cleanup = d[1] IN
  /\ jobs[d].pc = "promote" /\ ~fenced
  /\ IF matches /\ ~Deletable(k)
     THEN Conclude(d, "waiting") /\ UNCHANGED objects
     ELSE /\ Goto(d, "delete")
          /\ objects' = IF matches THEN [objects EXCEPT ![k].state = "deleting"] ELSE objects
  /\ UNCHANGED <<cleanups, fenced, backup, plan, preparations, writes, deletes, stored, references, writers>>

BeginStagingDelete(d) ==
  LET k == jobs[d].key
      o == objects[k] IN
  /\ jobs[d].pc = "delete" /\ ~fenced
  /\ IF o.state = "deleting" /\ o.incarnation = jobs[d].ticket /\ o.cleanup = d[1]
     THEN /\ Len(deletes) < MaxDeletes
          /\ deletes' = Append(deletes, [key |-> k, incarnation |-> o.incarnation,
                                         open |-> TRUE, io |-> "sent"])
          /\ jobs' = [jobs EXCEPT ![d] = [@ EXCEPT !.pc = "deleting", !.ticket = Len(deletes) + 1]]
     ELSE Conclude(d, "waiting") /\ UNCHANGED deletes
  /\ UNCHANGED <<cleanups, fenced, backup, plan, preparations, objects, writes, stored, references, writers>>

LandDelete(t) ==
  /\ deletes[t].io = "sent"
  /\ deletes' = [deletes EXCEPT ![t].io = "settled"]
  /\ stored' = [stored EXCEPT ![deletes[t].key] = 0]
  /\ UNCHANGED <<cleanupVars, preparations, objects, writes, references, writers>>

(* Mutant: the state follows the caller's own ticket, whatever else is open. *)
FinishDeleteAlone(d) ==
  LET t == jobs[d].ticket
      k == jobs[d].key IN
  /\ jobs[d].pc = "deleting"
  /\ \/ /\ deletes[t].io = "settled" /\ ~fenced
        /\ deletes' = [deletes EXCEPT ![t].open = FALSE]
        /\ objects' = [objects EXCEPT ![k].state = "deleted"]
        /\ Goto(d, "final")
     \/ /\ Happens("lose_delete")
        /\ Conclude(d, "waiting")
        /\ UNCHANGED <<deletes, objects>>
  /\ UNCHANGED <<cleanups, fenced, backup, plan, preparations, writes, stored, references, writers>>

(* The caller's ticket closes with its answer; the key is deleted once no    *)
(* delete of this incarnation is open.  A rejected call leaves its ticket.   *)
FinishStagingDelete(d) ==
  LET t == jobs[d].ticket
      k == jobs[d].key
      last == /\ objects[k].state = "deleting" /\ objects[k].incarnation = deletes[t].incarnation
              /\ \A u \in OpenDeletes(k) \ {t} : deletes[u].incarnation # deletes[t].incarnation IN
  /\ jobs[d].pc = "deleting"
  /\ \/ /\ deletes[t].io = "settled" /\ ~fenced
        /\ deletes' = [deletes EXCEPT ![t].open = FALSE]
        /\ objects' = IF last THEN [objects EXCEPT ![k].state = "deleted"] ELSE objects
        /\ Goto(d, "final")
     \/ /\ Happens("lose_delete")
        /\ Conclude(d, "waiting")
        /\ UNCHANGED <<deletes, objects>>
  /\ UNCHANGED <<cleanups, fenced, backup, plan, preparations, writes, stored, references, writers>>

ReadFinal(d) ==
  /\ jobs[d].pc = "final"
  /\ Conclude(d, IF objects[jobs[d].key].state = "deleted" THEN "deleted" ELSE "waiting")
  /\ UNCHANGED <<cleanups, fenced, backup, plan, stagingVars>>

-----------------------------------------------------------------------------
AdvanceStagingCleanup(d) ==
  \/ Advance(d, Inventory(d[1])) /\ UNCHANGED stagingVars
  \/ ReadStagingObject(d) \/ ReserveStagingObject(d) \/ InspectStagingObject(d)
  \/ CheckTickets(d) \/ PromoteStagingDelete(d) \/ BeginStagingDelete(d)
  \/ FinishStagingDelete(d) \/ ReadFinal(d)

StageObject(p) ==
  \/ \E k \in Keys : HeadObject(p, k)
  \/ BeginStagingWrite(p) \/ FinishPut(p) \/ VerifyObject(p) \/ RetainReference(p)
  \/ LoseWriter(p)

Bucket ==
  \/ \E t \in DOMAIN writes : LandPut(t)
  \/ \E t \in DOMAIN deletes : LandDelete(t)

Deleting == {k \in Keys : objects[k].state = "deleting"}

StagingBackup ==
  \/ StartBackup(Deleting, {k \in Keys : objects[k].state = "reserved"},
                 {k \in Keys : objects[k].state = "available" /\ stored[k] # 0})
  \/ FenceSnapshot(Deleting) \/ FinishBackup

StagingNext ==
  \/ \E p \in Preparations : StageObject(p)
  \/ \E p \in Preparations : EndPreparation(p) \/ PassRetention(p) \/ BeginStagingCleanup(p)
  \/ \E d \in Executions : AdvanceStagingCleanup(d)
  \/ \E d \in Executions : LoseExecution(d, {"deleting", "final", "record"}) /\ UNCHANGED stagingVars
  \/ \E c \in Cleanups : Request(c) /\ UNCHANGED stagingVars
  \/ \E d \in Executions : Exhaust(d) /\ UNCHANGED stagingVars
  \/ Bucket
  \/ StagingBackup /\ UNCHANGED stagingVars

-----------------------------------------------------------------------------
(* A key that is deleted holds nothing: a late put, even one whose answer    *)
(* was lost, never brings back an object the cleanup reported deleted.       *)
(* (trackedStagingBucket, staging_physical_guard)                            *)
DeletedStaysDeleted == \A k \in Keys : objects[k].state = "deleted" => stored[k] = 0

(* No delete of an earlier incarnation is still on its way once a key may be *)
(* written again.  (beginStagingDelete, staging_incarnation_guard)           *)
DeleteStaysInItsIncarnation ==
  \A t \in DOMAIN deletes : deletes[t].io = "sent" =>
    /\ objects[deletes[t].key].state = "deleting"
    /\ objects[deletes[t].key].incarnation = deletes[t].incarnation

(* Bytes that something retains are never deleted: not by a reference that   *)
(* arrives while a cleanup advances, not by a delete that arrives late.      *)
DeleteSparesReferences == [][\A k \in references : stored'[k] = stored[k] \/ stored[k] = 0]_<<stored, references>>

(* Bytes an active preparation has written are not reclaimed under it.       *)
(* (staging_reservation_guard)                                               *)
ActiveWriterKeepsObject ==
  \A t \in DOMAIN writes :
    /\ writes[t].incarnation = objects[writes[t].key].incarnation
    /\ preparations[writes[t].preparation] = "active"
    => objects[writes[t].key].state = "available"

(* A verified reference names stored bytes. *)
ReferencedIsStored == \A k \in references : stored[k] # 0
=============================================================================
