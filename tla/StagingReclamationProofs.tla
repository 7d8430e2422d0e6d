---------------------- MODULE StagingReclamationProofs ----------------------
(***************************************************************************)
(* The steps of a cleanup that touch no object, of either kind, and the    *)
(* invariant of staging objects with the proof that every step keeps it.   *)
(***************************************************************************)
EXTENDS StagingReclamation, TLAPS

(* Most steps are first-order: Zenon proves them unless they name SMT. *)
USE ZenonT(30)

-----------------------------------------------------------------------------
ExecutionsTyped == jobs \in [Executions -> JobType] /\ backup \in BackupType /\ plan \in Plan

(* Staging objects.  A put that is still under way has an open ticket, and   *)
(* an open ticket keeps its key from being deleted.  An active preparation   *)
(* that wrote the current incarnation keeps it available.                    *)
WriteOK(t) ==
  LET w == writes[t]
      o == objects[w.key] IN
  /\ w.io = "sent" => w.open
  /\ w.open => o.state \in {"available", "reserved"}
  /\ w.incarnation = o.incarnation /\ preparations[w.preparation] = "active" => o.state = "available"

(* A delete under way is of the current incarnation of a key being deleted;  *)
(* a settled one of the current incarnation left nothing stored.             *)
DeleteOK(t) ==
  LET w == deletes[t]
      o == objects[w.key] IN
  /\ w.incarnation <= o.incarnation
  /\ w.io = "sent" => w.open /\ o.state = "deleting" /\ o.incarnation = w.incarnation
  /\ w.incarnation = o.incarnation => o.state \in {"deleting", "deleted"}
  /\ w.incarnation = o.incarnation /\ w.io = "settled" => stored[w.key] = 0

(* What is stored was put by a settled write of the key; what is retained is *)
(* available; what a backup found is neither deleted nor older than it.      *)
Protecting == backup.state \in {"running", "retained"}

ObjectOK(k) ==
  LET o == objects[k] IN
  /\ stored[k] # 0 => /\ stored[k] \in DOMAIN writes
                      /\ writes[stored[k]].io = "settled" /\ writes[stored[k]].key = k
  /\ o.state = "deleted" => stored[k] = 0
  /\ k \in references => o.state = "available"

FoundOK(k) ==
  Protecting /\ k \in backup.found =>
    k \notin backup.older /\ objects[k].state \in {"available", "reserved"} /\ stored[k] # 0

(* The executions and the writing steps hold keys and tickets that exist. *)
StagingJobOK(d) ==
  LET j == jobs[d] IN
  /\ j.pc \in StagingPoints => j.key \in Keys
  /\ j.pc = "deleting" => j.ticket \in DOMAIN deletes /\ deletes[j.ticket].key = j.key

WriterOK(p) ==
  LET w == writers[p] IN
  /\ w.pc # "idle" => w.key \in Keys
  /\ w.pc = "put" => w.token \in DOMAIN writes

StagingTyped ==
  /\ preparations \in [Preparations -> {"active", "terminal", "aged"}]
  /\ objects \in [Keys -> StagingObject]
  /\ writes \in Seq(StagingWrite)
  /\ deletes \in Seq(StagingDelete)
  /\ stored \in [Keys -> Nat]
  /\ references \subseteq Keys
  /\ writers \in [Preparations -> Writer]

StagingInvariant ==
  /\ StagingTyped
  /\ \A t \in DOMAIN writes : WriteOK(t)
  /\ \A t \in DOMAIN deletes : DeleteOK(t)
  /\ \A k \in Keys : ObjectOK(k)
  /\ \A k \in Keys : FoundOK(k)
  /\ \A d \in Executions : StagingJobOK(d)
  /\ \A p \in Preparations : WriterOK(p)

-----------------------------------------------------------------------------
(* Tickets: a sequence that is extended or changed at one place. *)
LEMMA TicketAdded ==
  ASSUME NEW S, NEW s \in Seq(S), NEW x \in S
  PROVE  /\ Append(s, x) \in Seq(S)
         /\ DOMAIN Append(s, x) = DOMAIN s \cup {Len(s) + 1}
         /\ Append(s, x)[Len(s) + 1] = x
         /\ \A t \in DOMAIN s : Append(s, x)[t] = s[t] /\ t # Len(s) + 1
         /\ Len(s) + 1 \in Nat
  BY SMT

LEMMA TicketChanged ==
  ASSUME NEW S, NEW s \in Seq(S), NEW t \in DOMAIN s, NEW x \in S
  PROVE  /\ [s EXCEPT ![t] = x] \in Seq(S)
         /\ DOMAIN [s EXCEPT ![t] = x] = DOMAIN s
         /\ [s EXCEPT ![t] = x][t] = x
         /\ \A u \in DOMAIN s : u # t => [s EXCEPT ![t] = x][u] = s[u]
  BY SMT

(* Jobs. *)
OnlyJob(d) == \A e \in Executions : e # d => jobs'[e] = jobs[e]

LEMMA JobMoves ==
  ASSUME ExecutionsTyped, NEW d \in Executions, NEW j \in JobType, jobs' = [jobs EXCEPT ![d] = j]
  PROVE  jobs' \in [Executions -> JobType] /\ jobs'[d] = j /\ OnlyJob(d)
  BY DEF ExecutionsTyped, OnlyJob

LEMMA GotoMoves ==
  ASSUME ExecutionsTyped, NEW d \in Executions,
         NEW pc \in CommonPoints \cup StagingPoints \cup CapturePoints, Goto(d, pc)
  PROVE  /\ jobs' \in [Executions -> JobType] /\ OnlyJob(d) /\ jobs'[d].pc = pc
         /\ jobs'[d].key = jobs[d].key /\ jobs'[d].ticket = jobs[d].ticket
         /\ jobs'[d].seen = jobs[d].seen
<1> DEFINE j == [jobs[d] EXCEPT !.pc = pc]
<1>1. jobs[d] \in JobType /\ jobs' = [jobs EXCEPT ![d] = j]
  BY DEF ExecutionsTyped, Goto
<1>2. /\ j \in JobType /\ j.pc = pc /\ j.key = jobs[d].key /\ j.ticket = jobs[d].ticket
      /\ j.seen = jobs[d].seen
  BY <1>1 DEF JobType
<1> HIDE DEF j
<1> QED
  BY <1>1, <1>2, JobMoves

LEMMA ConcludeMoves ==
  ASSUME ExecutionsTyped, NEW d \in Executions, NEW o \in {"waiting", "protected", "deleted"}, Conclude(d, o)
  PROVE  jobs' \in [Executions -> JobType] /\ OnlyJob(d) /\ jobs'[d].pc = "record"
<1> DEFINE j == [jobs[d] EXCEPT !.pc = "record", !.outcome = o]
<1>1. jobs[d] \in JobType /\ jobs' = [jobs EXCEPT ![d] = j]
  BY DEF ExecutionsTyped, Conclude
<1>2. j \in JobType /\ j.pc = "record"
  BY <1>1 DEF JobType, CommonPoints
<1> HIDE DEF j
<1> QED
  BY <1>1, <1>2, JobMoves

(* A fresh job, at one of the points all cleanups have. *)
LEMMA JobTyped ==
  ASSUME NEW pc \in CommonPoints
  PROVE  Job(pc) \in JobType /\ Job(pc).pc = pc
  BY DEF JobType, Job

LEMMA BeginAdvanceTyped ==
  BeginAdvance \in JobType /\ BeginAdvance.pc = "pick" /\ "pick" \in CommonPoints
<1>1. "pick" \in CommonPoints
  BY DEF CommonPoints
<1>2. Job("pick") \in JobType /\ Job("pick").pc = "pick" /\ (backup.state = "none") \in BOOLEAN
  BY <1>1, JobTyped
<1> QED
  BY <1>1, <1>2 DEF BeginAdvance, JobType

(* Where the steps that do not touch an object leave the executions: at a    *)
(* common point, or at the read of a key.                                    *)
Rests ==
  /\ jobs' \in [Executions -> JobType]
  /\ \A e \in Executions :
       \/ jobs'[e] = jobs[e]
       \/ jobs'[e].pc \in CommonPoints
       \/ jobs'[e].pc = "read" /\ jobs'[e].key \in Keys

LEMMA RestsAt ==
  ASSUME ExecutionsTyped, NEW d, NEW j, jobs' = [jobs EXCEPT ![d] = j],
         d \in Executions => /\ j \in JobType
                             /\ j.pc \in CommonPoints \/ (j.pc = "read" /\ j.key \in Keys)
  PROVE  Rests
<1>1. jobs \in [Executions -> JobType]
  BY DEF ExecutionsTyped
<1>2. jobs' \in [Executions -> JobType]
  BY <1>1
<1>3. ASSUME NEW e \in Executions
      PROVE  \/ jobs'[e] = jobs[e]
             \/ jobs'[e].pc \in CommonPoints
             \/ jobs'[e].pc = "read" /\ jobs'[e].key \in Keys
  <2>1. jobs'[e] = jobs[e] \/ (e = d /\ jobs'[e] = j)
    BY <1>1
  <2> QED
    BY <2>1
<1> QED
  BY <1>2, <1>3 DEF Rests

LEMMA RestsStill ==
  ASSUME ExecutionsTyped, jobs' = jobs
  PROVE  Rests
<1>1. jobs' \in [Executions -> JobType]
  BY DEF ExecutionsTyped
<1>2. \A e \in Executions : jobs'[e] = jobs[e]
  OBVIOUS
<1> QED
  BY <1>1, <1>2 DEF Rests

LEMMA GotoRests ==
  ASSUME ExecutionsTyped, NEW d, NEW pc \in CommonPoints, Goto(d, pc)
  PROVE  Rests
<1> DEFINE j == [jobs[d] EXCEPT !.pc = pc]
<1>1. jobs' = [jobs EXCEPT ![d] = j]
  BY DEF Goto
<1>2. d \in Executions => j \in JobType /\ j.pc = pc
  BY DEF ExecutionsTyped, JobType
<1> HIDE DEF j
<1> QED
  BY <1>1, <1>2, RestsAt

(* A bound that is used up leaves the rest of the plan. *)
LEMMA PlanKept ==
  ASSUME ExecutionsTyped, NEW what, plan' = plan \/ Once(what)
  PROVE  plan' \in Plan /\ plan'.scope = plan.scope
  BY DEF ExecutionsTyped, Once, Plan

(* The steps of a cleanup that touch no object. *)
LEMMA RequestRests ==
  ASSUME ExecutionsTyped, NEW c \in Cleanups, Request(c) \/ BeginCleanup(c)
  PROVE  Rests /\ backup' = backup /\ plan' \in Plan /\ plan'.scope = plan.scope
<1>1. backup' = backup /\ plan' \in Plan /\ plan'.scope = plan.scope
  BY PlanKept DEF Request, BeginCleanup, DispatchCleanup, ResumeCleanup, CallRoute
<1>a. SUFFICES Rests
  BY <1>1
<1>2. jobs' = jobs => Rests
  BY RestsStill
<1>3. CASE BeginCleanup(c) \/ ResumeCleanup(c)
  BY <1>2, <1>3 DEF BeginCleanup, ResumeCleanup
<1>4. CASE DispatchCleanup(c)
  <2>1. "unit" \in CommonPoints
    BY DEF CommonPoints
  <2> QED
    BY <1>2, <1>4, <2>1, GotoRests DEF DispatchCleanup
<1>5. CASE CallRoute(c)
  BY <1>5, RestsAt, BeginAdvanceTyped DEF CallRoute
<1> QED
  BY <1>3, <1>4, <1>5 DEF Request

LEMMA NextUnitRests ==
  ASSUME ExecutionsTyped, NEW d \in Executions, NextUnit(d)
  PROVE  Rests
<1> DEFINE j == [Job("pick") EXCEPT !.unit = jobs[d].unit + 1, !.early = jobs[d].early]
<1>0. jobs[d].unit + 1 \in Nat /\ jobs[d].early \in BOOLEAN
  BY SMT DEF ExecutionsTyped, JobType
<1>2. "pick" \in CommonPoints /\ "returned" \in CommonPoints
  BY DEF CommonPoints
<1>1. j \in JobType /\ j.pc = "pick"
  <2>1. Job("pick") \in JobType /\ Job("pick").pc = "pick"
    BY <1>2, JobTyped
  <2> QED
    BY <1>0, <2>1 DEF JobType
<1>3. jobs' = [jobs EXCEPT ![d] = j] \/ jobs' = [jobs EXCEPT ![d] = Job("returned")]
  BY DEF NextUnit
<1> HIDE DEF j
<1> QED
  BY <1>1, <1>2, <1>3, JobTyped, RestsAt

LEMMA StartOverRests ==
  ASSUME ExecutionsTyped, NEW d \in Executions, StartOver(d)
  PROVE  Rests
<1>1. "idle" \in CommonPoints /\ "unit" \in CommonPoints
  BY DEF CommonPoints
<1>2. jobs' = [jobs EXCEPT ![d] = Job("idle")] \/ jobs' = [jobs EXCEPT ![d] = Job("unit")]
  BY DEF StartOver
<1> QED
  BY <1>1, <1>2, JobTyped, RestsAt

LEMMA PickRests ==
  ASSUME ExecutionsTyped, NEW d \in Executions, NEW inventory \in SUBSET Keys, PickKey(d, inventory)
  PROVE  Rests
<1>1. jobs[d] \in JobType /\ "returned" \in CommonPoints /\ "close" \in CommonPoints
  BY DEF ExecutionsTyped, CommonPoints
<1>2. PICK j : /\ jobs' = [jobs EXCEPT ![d] = j]
               /\ \/ j = Job("returned")
                  \/ \E o \in {"paused", "completed"} : j = [Job("close") EXCEPT !.outcome = o]
                  \/ \E k \in Keys : j = [jobs[d] EXCEPT !.pc = "read", !.key = k]
                  \/ \E k \in Keys : j = [jobs[d] EXCEPT !.pc = "read", !.key = k, !.retry = TRUE]
  BY DEF PickKey, FirstOf, Waiting
<1>3. \A o \in {"paused", "completed"} :
        [Job("close") EXCEPT !.outcome = o] \in JobType /\ [Job("close") EXCEPT !.outcome = o].pc = "close"
  BY DEF JobType, Job, CommonPoints
<1>4. \A k \in Keys :
        /\ [jobs[d] EXCEPT !.pc = "read", !.key = k] \in JobType
        /\ [jobs[d] EXCEPT !.pc = "read", !.key = k].pc = "read"
        /\ [jobs[d] EXCEPT !.pc = "read", !.key = k].key = k
  BY <1>1 DEF JobType, StagingPoints
<1>5. \A k \in Keys :
        /\ [jobs[d] EXCEPT !.pc = "read", !.key = k, !.retry = TRUE] \in JobType
        /\ [jobs[d] EXCEPT !.pc = "read", !.key = k, !.retry = TRUE].pc = "read"
        /\ [jobs[d] EXCEPT !.pc = "read", !.key = k, !.retry = TRUE].key = k
  BY <1>1 DEF JobType, StagingPoints
<1>6. j \in JobType /\ (j.pc \in CommonPoints \/ (j.pc = "read" /\ j.key \in Keys))
  <2>1. CASE j = Job("returned")
    BY <1>1, <2>1, JobTyped
  <2>2. CASE \E o \in {"paused", "completed"} : j = [Job("close") EXCEPT !.outcome = o]
    BY <1>1, <1>3, <2>2
  <2>3. ASSUME NEW k \in Keys, j = [jobs[d] EXCEPT !.pc = "read", !.key = k]
        PROVE  j \in JobType /\ j.pc = "read" /\ j.key \in Keys
    BY <1>4, <2>3
  <2>4. ASSUME NEW k \in Keys, j = [jobs[d] EXCEPT !.pc = "read", !.key = k, !.retry = TRUE]
        PROVE  j \in JobType /\ j.pc = "read" /\ j.key \in Keys
    BY <1>5, <2>4
  <2> QED
    BY <1>2, <2>1, <2>2, <2>3, <2>4
<1> QED
  BY <1>2, <1>6, RestsAt

LEMMA AdvanceRests ==
  ASSUME ExecutionsTyped, NEW d \in Executions, NEW inventory \in SUBSET Keys,
         NEW points, Advance(d, inventory) \/ Exhaust(d) \/ LoseExecution(d, points)
  PROVE  Rests /\ backup' = backup /\ plan' \in Plan /\ plan'.scope = plan.scope
<1>1. backup' = backup /\ plan' \in Plan /\ plan'.scope = plan.scope
  BY PlanKept DEF Advance, Exhaust, LoseExecution, Unit, Returned, PickKey, CloseCleanup, RecordResult
<1>a. SUFFICES Rests
  BY <1>1
<1>2. {"idle", "unit", "pick", "returned", "done"} \subseteq CommonPoints
  BY DEF CommonPoints
<1>3. CASE Unit(d) \/ Returned(d) \/ CloseCleanup(d) \/ Exhaust(d)
  <2>1. \/ \E pc \in {"idle", "unit", "pick", "returned", "done"} : Goto(d, pc)
        \/ jobs' = [jobs EXCEPT ![d] = BeginAdvance]
    BY <1>3 DEF Unit, Returned, CloseCleanup, Exhaust, GiveUp
  <2> QED
    BY <1>2, <2>1, GotoRests, RestsAt, BeginAdvanceTyped
<1>4. CASE PickKey(d, inventory)
  BY <1>4, PickRests
<1>5. CASE RecordResult(d)
  BY <1>5, NextUnitRests DEF RecordResult
<1>6. CASE LoseExecution(d, points)
  BY <1>6, StartOverRests DEF LoseExecution
<1> QED
  BY <1>3, <1>4, <1>5, <1>6 DEF Advance

(* Backups. *)
LEMMA FenceKeeps ==
  ASSUME ExecutionsTyped, NEW deleting, FenceSnapshot(deleting) \/ Unfence
  PROVE  jobs' = jobs /\ backup' = backup /\ plan' \in Plan /\ plan'.scope = plan.scope
<1>1. plan' = plan \/ Once("snapshot")
  BY DEF FenceSnapshot, Unfence
<1> QED
  BY <1>1, PlanKept DEF FenceSnapshot, Unfence

LEMMA FinishKeeps ==
  ASSUME ExecutionsTyped, FinishBackup
  PROVE  /\ jobs' = jobs /\ plan' = plan /\ backup' \in BackupType
         /\ backup'.found = backup.found /\ backup'.older = backup.older
         /\ Protecting' => Protecting
  BY DEF ExecutionsTyped, FinishBackup, BackupType, Protecting

(* A claim that is dated before the backup takes its key from what the       *)
(* backup counts on, and another leaves the key protected.                   *)
LEMMA ClaimIsDated ==
  ASSUME ExecutionsTyped, NEW d, NEW k \in Keys, DateClaim(d, k)
  PROVE  /\ backup' \in BackupType /\ Protecting' = Protecting
         /\ \A j \in backup'.found : j \in backup.found
         /\ \A j \in backup'.older : j \in backup.older \/ (j = k /\ k \notin backup'.found)
<1>1. backup \in BackupType
  BY DEF ExecutionsTyped
<1>2. CASE backup' = backup
  BY <1>1, <1>2 DEF Protecting
<1>3. CASE backup' = [backup EXCEPT !.older = @ \cup {k}, !.found = @ \ {k}]
  <2>1. /\ backup' \in BackupType /\ backup'.state = backup.state
        /\ backup'.older = backup.older \cup {k} /\ backup'.found = backup.found \ {k}
    <3> DEFINE o == backup.older \cup {k}
               f == backup.found \ {k}
    <3>1. o \in SUBSET Keys /\ f \in SUBSET Keys /\ backup' = [backup EXCEPT !.older = o, !.found = f]
      BY <1>1, <1>3 DEF BackupType
    <3> HIDE DEF o, f
    <3>2. /\ backup' \in BackupType /\ backup'.state = backup.state
          /\ backup'.older = o /\ backup'.found = f
      BY <1>1, <3>1 DEF BackupType
    <3> QED
      BY <3>2 DEF o, f
  <2> QED
    BY <2>1 DEF Protecting
<1>4. CASE backup' = [backup EXCEPT !.older = @ \ {k}]
  <2>1. /\ backup' \in BackupType /\ backup'.state = backup.state
        /\ backup'.older = backup.older \ {k} /\ backup'.found = backup.found
    BY <1>1, <1>4, SMT DEF BackupType
  <2> QED
    BY <2>1 DEF Protecting
<1> QED
  BY <1>2, <1>3, <1>4 DEF DateClaim

-----------------------------------------------------------------------------
(* Steps of staging objects.  The parts of the invariant that a step leaves  *)
(* alone, by what it leaves unchanged.                                       *)
OtherWriters(p) == \A q \in Preparations : q # p => writers'[q] = writers[q]

LEMMA WriterMoves ==
  ASSUME StagingInvariant, NEW p \in Preparations, NEW w \in Writer, writers' = [writers EXCEPT ![p] = w]
  PROVE  writers' \in [Preparations -> Writer] /\ writers'[p] = w /\ OtherWriters(p)
  BY DEF StagingInvariant, StagingTyped, OtherWriters

LEMMA WriterGoes ==
  ASSUME StagingInvariant, NEW p \in Preparations,
         NEW pc \in {"idle", "write", "put", "verify", "reference"},
         writers' = [writers EXCEPT ![p].pc = pc]
  PROVE  /\ writers' \in [Preparations -> Writer] /\ OtherWriters(p) /\ writers'[p].pc = pc
         /\ writers'[p].key = writers[p].key /\ writers'[p].token = writers[p].token
<1> DEFINE w == [writers[p] EXCEPT !.pc = pc]
<1>1. writers[p] \in Writer /\ writers' = [writers EXCEPT ![p] = w]
  BY DEF StagingInvariant, StagingTyped
<1>2. w \in Writer /\ w.pc = pc /\ w.key = writers[p].key /\ w.token = writers[p].token
  BY <1>1 DEF Writer
<1> HIDE DEF w
<1> QED
  BY <1>1, <1>2, WriterMoves

LEMMA WritersStep ==
  ASSUME StagingInvariant, NEW p \in Preparations, OtherWriters(p), DOMAIN writes \subseteq DOMAIN writes',
         WriterOK(p)'
  PROVE  \A q \in Preparations : WriterOK(q)'
<1>1. ASSUME NEW q \in Preparations, q # p PROVE WriterOK(q)'
  BY <1>1 DEF StagingInvariant, OtherWriters, WriterOK
<1> QED
  BY <1>1

LEMMA JobsStep ==
  ASSUME StagingInvariant, NEW d \in Executions, OnlyJob(d), DOMAIN deletes \subseteq DOMAIN deletes',
         \A t \in DOMAIN deletes : deletes'[t].key = deletes[t].key, StagingJobOK(d)'
  PROVE  \A e \in Executions : StagingJobOK(e)'
<1>1. ASSUME NEW e \in Executions, e # d PROVE StagingJobOK(e)'
  <2>1. jobs'[e] = jobs[e] /\ StagingJobOK(e)
    BY <1>1 DEF OnlyJob, StagingInvariant
  <2> QED
    BY <2>1 DEF StagingJobOK
<1> QED
  BY <1>1

LEMMA JobsRest ==
  ASSUME StagingInvariant, Rests, deletes' = deletes
  PROVE  \A e \in Executions : StagingJobOK(e)'
<1>1. CommonPoints \cap StagingPoints = {} /\ "deleting" \notin CommonPoints /\ "read" # "deleting"
  BY DEF CommonPoints, StagingPoints
<1>2. ASSUME NEW e \in Executions PROVE StagingJobOK(e)'
  <2>1. CASE jobs'[e] = jobs[e]
    BY <2>1 DEF StagingInvariant, StagingJobOK
  <2>2. CASE jobs'[e].pc \in CommonPoints
    BY <1>1, <2>2 DEF StagingJobOK
  <2>3. CASE jobs'[e].pc = "read" /\ jobs'[e].key \in Keys
    BY <1>1, <2>3 DEF StagingJobOK
  <2> QED
    BY <2>1, <2>2, <2>3 DEF Rests
<1> QED
  BY <1>2

(* The tickets a step may use. *)
LEMMA WriteTyped ==
  ASSUME StagingInvariant, NEW t \in DOMAIN writes
  PROVE  /\ writes \in Seq(StagingWrite) /\ writes[t] \in StagingWrite /\ writes[t].key \in Keys
         /\ writes[t].preparation \in Preparations /\ t \in Nat \ {0} /\ WriteOK(t)
<1>1. writes \in Seq(StagingWrite) /\ WriteOK(t)
  BY DEF StagingInvariant, StagingTyped
<1>2. writes[t] \in StagingWrite /\ t \in Nat \ {0}
  BY <1>1, SMT
<1> QED
  BY <1>1, <1>2 DEF StagingWrite

LEMMA DeleteTyped ==
  ASSUME StagingInvariant, NEW t \in DOMAIN deletes
  PROVE  /\ deletes \in Seq(StagingDelete) /\ deletes[t] \in StagingDelete /\ deletes[t].key \in Keys
         /\ deletes[t].incarnation \in Nat /\ DeleteOK(t)
<1>1. deletes \in Seq(StagingDelete) /\ DeleteOK(t)
  BY DEF StagingInvariant, StagingTyped
<1>2. deletes[t] \in StagingDelete
  BY <1>1, SMT
<1> QED
  BY <1>1, <1>2 DEF StagingDelete

LEMMA ObjectTyped ==
  ASSUME StagingInvariant, NEW k \in Keys
  PROVE  /\ objects \in [Keys -> StagingObject] /\ objects[k] \in StagingObject
         /\ objects[k].incarnation \in Nat /\ stored \in [Keys -> Nat]
         /\ ObjectOK(k) /\ FoundOK(k)
  BY DEF StagingInvariant, StagingTyped, StagingObject

(* Closing tickets of settled writes. *)
Closed(W) ==
  /\ W \in Seq(StagingWrite) /\ DOMAIN W = DOMAIN writes
  /\ \A t \in DOMAIN writes :
       /\ W[t].preparation = writes[t].preparation /\ W[t].key = writes[t].key
       /\ W[t].incarnation = writes[t].incarnation /\ W[t].io = writes[t].io
       /\ W[t].open => writes[t].open
       /\ writes[t].io = "sent" => W[t].open = writes[t].open

LEMMA NoneClosed ==
  ASSUME StagingInvariant
  PROVE  Closed(writes)
  BY DEF StagingInvariant, StagingTyped, Closed

LEMMA CloseOne ==
  ASSUME StagingInvariant, NEW W, Closed(W), NEW t \in DOMAIN writes, writes[t].io = "settled"
  PROVE  Closed([W EXCEPT ![t].open = FALSE])
<1> DEFINE w == [W[t] EXCEPT !.open = FALSE]
           V == [W EXCEPT ![t] = w]
<1>1. W \in Seq(StagingWrite) /\ DOMAIN W = DOMAIN writes /\ W[t] \in StagingWrite
  BY SMT DEF Closed
<1>2. /\ w \in StagingWrite /\ w.preparation = W[t].preparation /\ w.key = W[t].key
      /\ w.incarnation = W[t].incarnation /\ w.io = W[t].io /\ w.open = FALSE
  BY <1>1 DEF StagingWrite
<1>3. [W EXCEPT ![t].open = FALSE] = V
  OBVIOUS
<1> HIDE DEF w
<1>4. /\ V \in Seq(StagingWrite) /\ DOMAIN V = DOMAIN W /\ V[t] = w
      /\ \A u \in DOMAIN W : u # t => V[u] = W[u]
  BY <1>1, <1>2, TicketChanged
<1> HIDE DEF V
<1>5. Closed(V)
  BY ZenonT(90), <1>1, <1>2, <1>4 DEF Closed
<1> QED
  BY <1>3, <1>5

LEMMA AcknowledgeCloses ==
  ASSUME StagingInvariant, NEW k \in Keys, NEW W, Closed(W)
  PROVE  Closed(Acknowledge(k, W))
<1>1. stored[k] # 0 => stored[k] \in DOMAIN writes /\ writes[stored[k]].io = "settled"
  BY DEF StagingInvariant, ObjectOK
<1> QED
  BY <1>1, CloseOne DEF Acknowledge

LEMMA ClosedKeeps ==
  ASSUME StagingInvariant, Closed(writes'), UNCHANGED <<preparations, objects, deletes, stored, references, backup>>
  PROVE  /\ \A t \in DOMAIN writes' : WriteOK(t)'
         /\ \A t \in DOMAIN deletes' : DeleteOK(t)'
         /\ \A k \in Keys : ObjectOK(k)' /\ FoundOK(k)'
<1>1. ASSUME NEW t \in DOMAIN writes' PROVE WriteOK(t)'
  <2>1. t \in DOMAIN writes /\ WriteOK(t)
    BY DEF Closed, StagingInvariant
  <2>2. /\ writes'[t].preparation = writes[t].preparation /\ writes'[t].key = writes[t].key
        /\ writes'[t].incarnation = writes[t].incarnation /\ writes'[t].io = writes[t].io
        /\ writes'[t].open => writes[t].open
        /\ writes[t].io = "sent" => writes'[t].open = writes[t].open
    BY <2>1 DEF Closed
  <2> QED
    BY <2>1, <2>2 DEF WriteOK
<1>2. \A t \in DOMAIN deletes' : DeleteOK(t)'
  BY DEF StagingInvariant, DeleteOK
<1>3. ASSUME NEW k \in Keys PROVE ObjectOK(k)' /\ FoundOK(k)'
  <2>1. ObjectOK(k) /\ FoundOK(k)
    BY DEF StagingInvariant
  <2>2. ObjectOK(k)'
    BY <2>1 DEF ObjectOK, Closed
  <2>3. FoundOK(k)'
    BY <2>1 DEF FoundOK, Protecting
  <2> QED
    BY <2>2, <2>3
<1> QED
  BY <1>1, <1>2, <1>3

(* The steps that touch no object. *)
LEMMA StagingRests ==
  ASSUME StagingInvariant, UNCHANGED stagingVars, Rests, backup' = backup
  PROVE  StagingInvariant'
<1>1. /\ preparations' = preparations /\ objects' = objects /\ writes' = writes /\ deletes' = deletes
      /\ stored' = stored /\ references' = references /\ writers' = writers
  BY DEF stagingVars
<1>2. Closed(writes')
  BY <1>1, NoneClosed
<1>3. /\ \A t \in DOMAIN writes' : WriteOK(t)'
      /\ \A t \in DOMAIN deletes' : DeleteOK(t)'
      /\ \A k \in Keys : ObjectOK(k)' /\ FoundOK(k)'
  BY <1>1, <1>2, ClosedKeeps
<1>4. \A e \in Executions : StagingJobOK(e)'
  BY <1>1, JobsRest
<1>5. StagingTyped' /\ \A p \in Preparations : WriterOK(p)'
  BY <1>1 DEF StagingInvariant, StagingTyped, WriterOK
<1> QED
  BY <1>3, <1>4, <1>5 DEF StagingInvariant

(* A writing step that only closes tickets or retains a reference. *)
LEMMA WritingPreserves ==
  ASSUME ExecutionsTyped, StagingInvariant, NEW p \in Preparations, NEW k \in Keys,
         \/ HeadObject(p, k) \/ FinishPut(p) \/ VerifyObject(p) \/ LoseWriter(p)
  PROVE  StagingInvariant' /\ jobs' = jobs /\ backup' = backup /\ plan' = plan
<1>1. /\ jobs' = jobs /\ backup' = backup /\ plan' = plan
      /\ UNCHANGED <<preparations, objects, deletes, stored, references>>
  BY DEF HeadObject, FinishPut, VerifyObject, LoseWriter, cleanupVars
<1>2. Closed(writes) /\ writers \in [Preparations -> Writer] /\ WriterOK(p)
  BY NoneClosed DEF StagingInvariant, StagingTyped
<1>3. Closed(writes')
  <2>1. CASE HeadObject(p, k)
    BY <1>2, <2>1, AcknowledgeCloses DEF HeadObject
  <2>2. CASE FinishPut(p)
    <3> DEFINE t == writers[p].token
               settled == [writes EXCEPT ![t].open = FALSE]
    <3>1. t \in DOMAIN writes /\ writers[p].key \in Keys /\ writes[t].io = "settled"
      BY <1>2, <2>2 DEF FinishPut, WriterOK
    <3>2. Closed(settled)
      BY <1>2, <3>1, CloseOne
    <3>3. writes' = settled \/ writes' = Acknowledge(writers[p].key, settled)
      BY <2>2 DEF FinishPut
    <3> HIDE DEF settled
    <3> QED
      BY <3>1, <3>2, <3>3, AcknowledgeCloses
  <2>3. CASE VerifyObject(p) \/ LoseWriter(p)
    BY <1>2, <2>3 DEF VerifyObject, LoseWriter
  <2> QED
    BY <2>1, <2>2, <2>3
<1>4. /\ \A t \in DOMAIN writes' : WriteOK(t)'
      /\ \A t \in DOMAIN deletes' : DeleteOK(t)'
      /\ \A j \in Keys : ObjectOK(j)' /\ FoundOK(j)'
  BY <1>1, <1>3, ClosedKeeps
<1>5. DOMAIN writes' = DOMAIN writes /\ writes' \in Seq(StagingWrite)
  BY <1>3 DEF Closed
<1>6. writers' \in [Preparations -> Writer] /\ OtherWriters(p) /\ WriterOK(p)'
  <2>1. CASE HeadObject(p, k)
    <3> DEFINE w == [pc |-> IF stored[k] = 0 THEN "write" ELSE "verify", key |-> k, token |-> 0]
    <3>1. w \in Writer /\ w.pc # "put" /\ w.key = k
      BY DEF Writer
    <3>2. writers' = [writers EXCEPT ![p] = w]
      BY <2>1 DEF HeadObject
    <3> HIDE DEF w
    <3>3. writers' \in [Preparations -> Writer] /\ OtherWriters(p) /\ writers'[p] = w
      BY <3>1, <3>2, WriterMoves
    <3> QED
      BY <3>1, <3>3 DEF WriterOK
  <2>2. CASE FinishPut(p) \/ VerifyObject(p) \/ LoseWriter(p)
    <3>1. /\ writers[p].pc # "idle"
          /\ \E pc \in {"idle", "verify", "reference"} : writers' = [writers EXCEPT ![p].pc = pc]
      BY <2>2 DEF FinishPut, VerifyObject, LoseWriter
    <3>2. /\ writers' \in [Preparations -> Writer] /\ OtherWriters(p) /\ writers'[p].pc # "put"
          /\ writers'[p].key = writers[p].key
      BY <3>1, WriterGoes
    <3> QED
      BY <1>2, <3>1, <3>2 DEF WriterOK
  <2> QED
    BY <2>1, <2>2
<1>7. \A q \in Preparations : WriterOK(q)'
  BY <1>5, <1>6, WritersStep
<1>8. \A d \in Executions : StagingJobOK(d)'
  BY <1>1 DEF StagingInvariant, StagingJobOK
<1>9. StagingTyped'
  BY <1>1, <1>5, <1>6 DEF StagingInvariant, StagingTyped
<1> QED
  BY <1>1, <1>4, <1>7, <1>8, <1>9 DEF StagingInvariant

LEMMA ReferencePreserves ==
  ASSUME ExecutionsTyped, StagingInvariant, NEW p \in Preparations, RetainReference(p)
  PROVE  StagingInvariant' /\ jobs' = jobs /\ backup' = backup /\ plan' = plan
<1>1. /\ jobs' = jobs /\ backup' = backup /\ plan' = plan
      /\ UNCHANGED <<preparations, objects, writes, deletes, stored>>
  BY DEF RetainReference, cleanupVars
<1>2. writers[p].key \in Keys
  BY DEF StagingInvariant, WriterOK, RetainReference
<1>3. writers' \in [Preparations -> Writer] /\ OtherWriters(p) /\ writers'[p].pc = "idle"
  BY WriterGoes DEF RetainReference
<1>4. \A q \in Preparations : WriterOK(q)'
  <2>1. WriterOK(p)'
    BY <1>3 DEF WriterOK
  <2> QED
    BY <1>1, <1>3, <2>1, WritersStep
<1>5. /\ \A t \in DOMAIN writes' : WriteOK(t)'
      /\ \A t \in DOMAIN deletes' : DeleteOK(t)'
      /\ \A d \in Executions : StagingJobOK(d)'
  BY <1>1 DEF StagingInvariant, WriteOK, DeleteOK, StagingJobOK
<1>6. ASSUME NEW k \in Keys PROVE ObjectOK(k)' /\ FoundOK(k)'
  <2>1. ObjectOK(k) /\ FoundOK(k)
    BY DEF StagingInvariant
  <2>2. k \in references' => k \in references \/ objects[k].state = "available"
    BY DEF RetainReference
  <2> QED
    BY <1>1, <2>1, <2>2 DEF ObjectOK, FoundOK, Protecting
<1>7. StagingTyped'
  BY <1>1, <1>2, <1>3 DEF StagingInvariant, StagingTyped, RetainReference
<1> QED
  BY <1>1, <1>4, <1>5, <1>6, <1>7 DEF StagingInvariant

(* A preparation that ends, or passes its retention, is no longer active. *)
LEMMA RetirementPreserves ==
  ASSUME ExecutionsTyped, StagingInvariant, NEW p \in Preparations, EndPreparation(p) \/ PassRetention(p)
  PROVE  StagingInvariant' /\ jobs' = jobs /\ backup' = backup /\ plan' = plan
<1>1. /\ jobs' = jobs /\ backup' = backup /\ plan' = plan
      /\ UNCHANGED <<objects, writes, deletes, stored, references, writers>>
  BY DEF EndPreparation, PassRetention, cleanupVars
<1>2. /\ preparations' \in [Preparations -> {"active", "terminal", "aged"}]
      /\ \A q \in Preparations : preparations'[q] = "active" => preparations[q] = "active"
  BY DEF StagingInvariant, StagingTyped, EndPreparation, PassRetention
<1>3. ASSUME NEW t \in DOMAIN writes' PROVE WriteOK(t)'
  <2>1. WriteOK(t) /\ writes[t].preparation \in Preparations
    BY <1>1, WriteTyped
  <2> QED
    BY <1>1, <1>2, <2>1 DEF WriteOK
<1>4. /\ \A t \in DOMAIN deletes' : DeleteOK(t)'
      /\ \A d \in Executions : StagingJobOK(d)'
      /\ \A k \in Keys : ObjectOK(k)'
      /\ \A q \in Preparations : WriterOK(q)'
  BY <1>1 DEF StagingInvariant, DeleteOK, StagingJobOK, ObjectOK, WriterOK
<1>5. \A k \in Keys : FoundOK(k)'
  BY <1>1 DEF StagingInvariant, FoundOK, Protecting
<1>6. StagingTyped'
  BY <1>1, <1>2 DEF StagingInvariant, StagingTyped
<1> QED
  BY <1>1, <1>3, <1>4, <1>5, <1>6 DEF StagingInvariant

(* The bucket applies a put: its open ticket keeps the key from being        *)
(* deleted, and an object that is there is not replaced.                     *)
LEMMA PutPreserves ==
  ASSUME ExecutionsTyped, StagingInvariant, NEW t \in DOMAIN writes, LandPut(t)
  PROVE  StagingInvariant' /\ jobs' = jobs /\ backup' = backup /\ plan' = plan
<1> DEFINE k == writes[t].key
           w == [writes[t] EXCEPT !.io = "settled"]
<1>1. /\ jobs' = jobs /\ backup' = backup /\ plan' = plan
      /\ UNCHANGED <<preparations, objects, deletes, references, writers>>
  BY DEF LandPut, cleanupVars
<1>2. /\ writes \in Seq(StagingWrite) /\ writes[t] \in StagingWrite /\ k \in Keys /\ stored \in [Keys -> Nat]
      /\ objects \in [Keys -> StagingObject] /\ t \in Nat \ {0} /\ WriteOK(t)
  BY WriteTyped DEF StagingInvariant, StagingTyped
<1>3. /\ w \in StagingWrite /\ w.preparation = writes[t].preparation /\ w.key = k
      /\ w.incarnation = writes[t].incarnation /\ w.io = "settled" /\ w.open = writes[t].open
  BY <1>2 DEF StagingWrite
<1>4. writes' = [writes EXCEPT ![t] = w]
  BY DEF LandPut
<1> HIDE DEF w
<1>5. /\ writes' \in Seq(StagingWrite) /\ DOMAIN writes' = DOMAIN writes /\ writes'[t] = w
      /\ \A u \in DOMAIN writes : u # t => writes'[u] = writes[u]
  BY <1>2, <1>3, <1>4, TicketChanged
<1>6. /\ stored' \in [Keys -> Nat]
      /\ \A j \in Keys : \/ stored'[j] = stored[j]
                         \/ j = k /\ stored[j] = 0 /\ stored'[j] = t
  BY <1>2 DEF LandPut
<1>7. objects[k].state \in {"available", "reserved"}
  BY <1>2 DEF WriteOK, LandPut
<1>8. ASSUME NEW u \in DOMAIN writes' PROVE WriteOK(u)'
  <2>1. WriteOK(u)
    BY <1>5 DEF StagingInvariant
  <2> QED
    BY <1>1, <1>3, <1>5, <2>1 DEF WriteOK
<1>9. ASSUME NEW u \in DOMAIN deletes' PROVE DeleteOK(u)'
  <2>1. DeleteOK(u) /\ deletes[u].key \in Keys
    BY <1>1, DeleteTyped
  <2> QED
    BY <1>1, <1>6, <1>7, <2>1 DEF DeleteOK
<1>10. ASSUME NEW j \in Keys PROVE ObjectOK(j)' /\ FoundOK(j)'
  <2>1. ObjectOK(j) /\ FoundOK(j)
    BY DEF StagingInvariant
  <2>2. CASE stored'[j] = stored[j]
    BY <1>1, <1>3, <1>5, <2>1, <2>2 DEF ObjectOK, FoundOK, Protecting
  <2>3. CASE j = k /\ stored[j] = 0 /\ stored'[j] = t
    BY <1>1, <1>2, <1>3, <1>5, <1>7, <2>1, <2>3 DEF ObjectOK, FoundOK, Protecting
  <2> QED
    BY <1>6, <2>2, <2>3
<1>11. /\ \A d \in Executions : StagingJobOK(d)'
       /\ \A q \in Preparations : WriterOK(q)'
  BY <1>1, <1>5 DEF StagingInvariant, StagingJobOK, WriterOK
<1>12. StagingTyped'
  BY <1>1, <1>5, <1>6 DEF StagingInvariant, StagingTyped
<1> QED
  BY <1>1, <1>8, <1>9, <1>10, <1>11, <1>12 DEF StagingInvariant

(* One key changes. *)
OtherObjects(k) == \A j \in Keys : j # k => objects'[j] = objects[j]

LEMMA ObjectMoves ==
  ASSUME StagingInvariant, NEW k \in Keys, NEW o \in StagingObject, objects' = [objects EXCEPT ![k] = o]
  PROVE  objects' \in [Keys -> StagingObject] /\ objects'[k] = o /\ OtherObjects(k)
  BY DEF StagingInvariant, StagingTyped, OtherObjects

(* A write is admitted for an available incarnation: the one that is there,  *)
(* or a new one of a key whose deletes are all closed.                       *)
LEMMA BeginWritePreserves ==
  ASSUME ExecutionsTyped, StagingInvariant, NEW p \in Preparations, BeginStagingWrite(p)
  PROVE  StagingInvariant' /\ jobs' = jobs /\ backup' = backup /\ plan' = plan
<1> DEFINE k == writers[p].key
           n == Len(writes) + 1
<1>1. /\ jobs' = jobs /\ backup' = backup /\ plan' = plan
      /\ UNCHANGED <<preparations, deletes, stored, references>>
  BY DEF BeginStagingWrite, cleanupVars
<1>2. k \in Keys /\ writers[p] \in Writer /\ writes \in Seq(StagingWrite)
  BY DEF StagingInvariant, StagingTyped, WriterOK, BeginStagingWrite
<1>3. /\ objects[k] \in StagingObject /\ objects[k].incarnation \in Nat
      /\ ObjectOK(k) /\ FoundOK(k) /\ objects \in [Keys -> StagingObject]
  BY <1>2, ObjectTyped
<1>4. CASE writers' = [writers EXCEPT ![p].pc = "idle"] /\ UNCHANGED <<objects, writes>>
  <2>1. writers' \in [Preparations -> Writer] /\ OtherWriters(p) /\ writers'[p].pc = "idle"
    BY <1>4, WriterGoes
  <2>2. \A q \in Preparations : WriterOK(q)'
    <3>1. WriterOK(p)'
      BY <2>1 DEF WriterOK
    <3> QED
      BY <1>4, <2>1, <3>1, WritersStep
  <2>3. Closed(writes')
    BY <1>4, NoneClosed
  <2>4. /\ \A t \in DOMAIN writes' : WriteOK(t)'
        /\ \A t \in DOMAIN deletes' : DeleteOK(t)'
        /\ \A j \in Keys : ObjectOK(j)' /\ FoundOK(j)'
    BY <1>1, <1>4, <2>3, ClosedKeeps
  <2>5. \A d \in Executions : StagingJobOK(d)'
    BY <1>1 DEF StagingInvariant, StagingJobOK
  <2>6. StagingTyped'
    BY <1>1, <1>4, <2>1 DEF StagingInvariant, StagingTyped
  <2> QED
    BY <1>1, <2>2, <2>4, <2>5, <2>6 DEF StagingInvariant
<1>5. ASSUME NEW i \in Nat, i >= objects[k].incarnation,
             objects[k].state \in {"unknown", "available", "deleted"},
             i = objects[k].incarnation => objects[k].state # "deleted",
             objects' = [objects EXCEPT ![k] = [state |-> "available", incarnation |-> i,
                                                cleanup |-> NoCleanup]],
             writes' = Append(writes, [preparation |-> p, key |-> k, incarnation |-> i,
                                       open |-> TRUE, io |-> "sent"]),
             writers' = [writers EXCEPT ![p] = [@ EXCEPT !.pc = "put", !.token = n]]
      PROVE  StagingInvariant' /\ jobs' = jobs /\ backup' = backup /\ plan' = plan
  <2> DEFINE o == [state |-> "available", incarnation |-> i, cleanup |-> NoCleanup]
             w == [preparation |-> p, key |-> k, incarnation |-> i, open |-> TRUE, io |-> "sent"]
             v == [writers[p] EXCEPT !.pc = "put", !.token = n]
  <2>1. o \in StagingObject /\ o.state = "available" /\ o.incarnation = i
    BY <1>5 DEF StagingObject
  <2>2. /\ w \in StagingWrite /\ w.preparation = p /\ w.key = k /\ w.incarnation = i /\ w.open
        /\ w.io = "sent"
    BY <1>2, <1>5 DEF StagingWrite
  <2>3. n \in Nat
    BY <1>2, SMT
  <2>4. v \in Writer /\ v.pc = "put" /\ v.key = k /\ v.token = n
    BY <1>2, <2>3 DEF Writer
  <2>5. /\ objects' = [objects EXCEPT ![k] = o] /\ writes' = Append(writes, w)
        /\ writers' = [writers EXCEPT ![p] = v]
    BY <1>5
  <2> HIDE DEF o, w, v
  <2>6. objects' \in [Keys -> StagingObject] /\ objects'[k] = o /\ OtherObjects(k)
    BY <1>2, <2>1, <2>5, ObjectMoves
  <2>7. /\ writes' \in Seq(StagingWrite) /\ DOMAIN writes' = DOMAIN writes \cup {n} /\ writes'[n] = w
        /\ \A t \in DOMAIN writes : writes'[t] = writes[t]
    BY <1>2, <2>2, <2>5, TicketAdded, SMT
  <2>8. writers' \in [Preparations -> Writer] /\ writers'[p] = v /\ OtherWriters(p)
    BY <2>4, <2>5, WriterMoves
  <2>9. \A q \in Preparations : WriterOK(q)'
    <3>1. WriterOK(p)'
      BY <1>2, <2>4, <2>7, <2>8 DEF WriterOK
    <3> QED
      BY <2>7, <2>8, <3>1, WritersStep
  <2>10. ASSUME NEW t \in DOMAIN writes' PROVE WriteOK(t)'
    <3>1. CASE t = n
      BY <2>1, <2>2, <2>6, <2>7, <3>1 DEF WriteOK
    <3>2. CASE t # n
      <4>1. t \in DOMAIN writes /\ writes'[t] = writes[t]
        BY <2>7, <3>2
      <4>2. WriteOK(t) /\ writes[t].key \in Keys
        BY <4>1, WriteTyped
      <4> QED
        BY <1>1, <2>1, <2>6, <4>1, <4>2 DEF WriteOK, OtherObjects
    <3> QED
      BY <3>1, <3>2
  <2>11. ASSUME NEW t \in DOMAIN deletes' PROVE DeleteOK(t)'
    <3>1. DeleteOK(t) /\ deletes[t].key \in Keys /\ deletes[t].incarnation \in Nat
      BY <1>1, DeleteTyped
    <3>2. CASE deletes[t].key # k
      BY <1>1, <2>6, <3>1, <3>2 DEF DeleteOK, OtherObjects
    <3>3. CASE deletes[t].key = k
      <4>1. deletes[t].incarnation < i /\ deletes[t].io # "sent"
        BY <1>3, <1>5, <3>1, <3>3, SMT DEF DeleteOK
      <4> QED
        BY <1>1, <2>1, <2>6, <3>1, <3>3, <4>1, SMT DEF DeleteOK
    <3> QED
      BY <3>2, <3>3
  <2>12. ASSUME NEW j \in Keys PROVE ObjectOK(j)' /\ FoundOK(j)'
    <3>1. ObjectOK(j) /\ FoundOK(j)
      BY ObjectTyped
    <3>2. objects'[j] = objects[j] \/ objects'[j].state = "available"
      BY <2>1, <2>6 DEF OtherObjects
    <3>3. ObjectOK(j)'
      BY <1>1, <2>7, <3>1, <3>2 DEF ObjectOK
    <3>4. FoundOK(j)'
      BY <1>1, <3>1, <3>2 DEF FoundOK, Protecting
    <3> QED
      BY <3>3, <3>4
  <2>13. \A d \in Executions : StagingJobOK(d)'
    BY <1>1 DEF StagingInvariant, StagingJobOK
  <2>14. StagingTyped'
    BY <1>1, <2>6, <2>7, <2>8 DEF StagingInvariant, StagingTyped
  <2> QED
    BY <1>1, <2>9, <2>10, <2>11, <2>12, <2>13, <2>14 DEF StagingInvariant
<1>6. objects[k].incarnation + 1 \in Nat /\ objects[k].incarnation + 1 > objects[k].incarnation
  BY <1>3, SMT
<1>7. CASE ~(writers' = [writers EXCEPT ![p].pc = "idle"] /\ UNCHANGED <<objects, writes>>)
  <2> DEFINE i == IF objects[k].state = "deleted" THEN objects[k].incarnation + 1 ELSE objects[k].incarnation
  <2>1. i \in Nat /\ i >= objects[k].incarnation /\ (i = objects[k].incarnation => objects[k].state # "deleted")
    BY <1>3, <1>6, SMT
  <2>2. /\ objects[k].state \in {"unknown", "available", "deleted"}
        /\ objects' = [objects EXCEPT ![k] = [state |-> "available", incarnation |-> i,
                                              cleanup |-> NoCleanup]]
        /\ writes' = Append(writes, [preparation |-> p, key |-> k, incarnation |-> i,
                                     open |-> TRUE, io |-> "sent"])
        /\ writers' = [writers EXCEPT ![p] = [@ EXCEPT !.pc = "put", !.token = n]]
    BY <1>7 DEF BeginStagingWrite
  <2> HIDE DEF i
  <2> QED
    BY <1>5, <2>1, <2>2
<1> QED
  BY <1>4, <1>7

(* Steps of an execution.  One that reads, and goes on with what it read. *)
LEMMA LookMoves ==
  ASSUME ExecutionsTyped, NEW d \in Executions, NEW pc \in StagingPoints, NEW k \in Keys, StagingInvariant,
         jobs' = [jobs EXCEPT ![d] = [@ EXCEPT !.pc = pc, !.seen = objects[k].state,
                                               !.ticket = objects[k].incarnation]]
  PROVE  /\ jobs' \in [Executions -> JobType] /\ OnlyJob(d) /\ jobs'[d].pc = pc
         /\ jobs'[d].key = jobs[d].key
<1> DEFINE s == objects[k].state
           i == objects[k].incarnation
           j == [jobs[d] EXCEPT !.pc = pc, !.seen = s, !.ticket = i]
<1>1. jobs[d] \in JobType
  BY DEF ExecutionsTyped
<1>2. jobs' = [jobs EXCEPT ![d] = j]
  OBVIOUS
<1>3. s \in {"unknown", "available", "reserved", "deleting", "deleted"} /\ i \in Nat
  BY ObjectTyped DEF StagingObject
<1> HIDE DEF s, i
<1>4. j \in JobType /\ j.pc = pc /\ j.key = jobs[d].key
  BY <1>1, <1>3 DEF JobType
<1> HIDE DEF j
<1> QED
  BY <1>2, <1>4, JobMoves

LEMMA StagingJobStep ==
  ASSUME StagingInvariant, UNCHANGED stagingVars, NEW d \in Executions, OnlyJob(d), StagingJobOK(d)',
         backup' = backup
  PROVE  StagingInvariant'
<1>1. /\ preparations' = preparations /\ objects' = objects /\ writes' = writes /\ deletes' = deletes
      /\ stored' = stored /\ references' = references /\ writers' = writers
  BY DEF stagingVars
<1>2. Closed(writes')
  BY <1>1, NoneClosed
<1>3. /\ \A t \in DOMAIN writes' : WriteOK(t)'
      /\ \A t \in DOMAIN deletes' : DeleteOK(t)'
      /\ \A k \in Keys : ObjectOK(k)' /\ FoundOK(k)'
  BY <1>1, <1>2, ClosedKeeps
<1>4. \A e \in Executions : StagingJobOK(e)'
  BY <1>1, JobsStep
<1>5. StagingTyped' /\ \A p \in Preparations : WriterOK(p)'
  BY <1>1 DEF StagingInvariant, StagingTyped, WriterOK
<1> QED
  BY <1>3, <1>4, <1>5 DEF StagingInvariant

LEMMA LookPreserves ==
  ASSUME ExecutionsTyped, StagingInvariant, NEW d \in Executions,
         ReadStagingObject(d) \/ InspectStagingObject(d) \/ CheckTickets(d) \/ ReadFinal(d)
  PROVE  StagingInvariant' /\ jobs' \in [Executions -> JobType] /\ backup' = backup /\ plan' = plan
<1> DEFINE k == jobs[d].key
<1>1. /\ backup' = backup /\ plan' = plan /\ UNCHANGED stagingVars
      /\ jobs[d].pc \in {"read", "inspect", "tickets", "final"}
  BY DEF ReadStagingObject, InspectStagingObject, CheckTickets, ReadFinal
<1>2. k \in Keys /\ {"read", "inspect", "tickets", "final"} \subseteq StagingPoints
  BY <1>1 DEF StagingInvariant, StagingJobOK, StagingPoints
<1>3. {"reserve", "inspect", "tickets", "promote", "delete"} \subseteq StagingPoints
  BY DEF StagingPoints
<1>4. \/ \E o \in {"waiting", "protected", "deleted"} : Conclude(d, o)
      \/ \E pc \in {"promote", "delete"} : Goto(d, pc)
      \/ \E pc \in {"reserve", "inspect", "tickets"} :
           jobs' = [jobs EXCEPT ![d] = [@ EXCEPT !.pc = pc, !.seen = objects[k].state,
                                                 !.ticket = objects[k].incarnation]]
  BY DEF ReadStagingObject, InspectStagingObject, CheckTickets, ReadFinal
<1>5. /\ jobs' \in [Executions -> JobType] /\ OnlyJob(d)
      /\ jobs'[d].pc = "record" \/ (jobs'[d].pc # "deleting" /\ jobs'[d].key = k)
  <2>1. CASE \E o \in {"waiting", "protected", "deleted"} : Conclude(d, o)
    BY <2>1, ConcludeMoves
  <2>2. CASE \E pc \in {"promote", "delete"} : Goto(d, pc)
    BY <1>3, <2>2, GotoMoves
  <2>3. CASE \E pc \in {"reserve", "inspect", "tickets"} :
               jobs' = [jobs EXCEPT ![d] = [@ EXCEPT !.pc = pc, !.seen = objects[k].state,
                                                     !.ticket = objects[k].incarnation]]
    <3>1. PICK pc \in {"reserve", "inspect", "tickets"} :
            jobs' = [jobs EXCEPT ![d] = [@ EXCEPT !.pc = pc, !.seen = objects[k].state,
                                                  !.ticket = objects[k].incarnation]]
      BY <2>3
    <3>2. pc \in StagingPoints
      BY <1>3
    <3>3. /\ jobs' \in [Executions -> JobType] /\ OnlyJob(d) /\ jobs'[d].pc = pc
          /\ jobs'[d].key = jobs[d].key
      BY <1>2, <3>1, <3>2, LookMoves
    <3> QED
      BY <3>3
  <2> QED
    BY <1>4, <2>1, <2>2, <2>3
<1>6. StagingJobOK(d)'
  BY <1>2, <1>5 DEF StagingJobOK, StagingPoints
<1> QED
  BY <1>1, <1>5, <1>6, StagingJobStep

(* A reservation: nothing retains the key and no active preparation wrote    *)
(* it.  A promotion: no ticket is open and no backup protects it.            *)
LEMMA ClaimPreserves ==
  ASSUME ExecutionsTyped, StagingInvariant, NEW d \in Executions,
         ReserveStagingObject(d) \/ PromoteStagingDelete(d)
  PROVE  StagingInvariant' /\ jobs' \in [Executions -> JobType] /\ backup' \in BackupType /\ plan' = plan
<1> DEFINE k == jobs[d].key
<1>0. \/ backup' = backup
      \/ DateClaim(d, k) /\ objects[k].state = "available"
  BY DEF ReserveStagingObject, PromoteStagingDelete
<1>1. /\ plan' = plan
      /\ UNCHANGED <<preparations, writes, deletes, stored, references, writers>>
      /\ jobs[d].pc \in {"reserve", "promote"}
  BY DEF ReserveStagingObject, PromoteStagingDelete
<1>2. k \in Keys /\ {"inspect", "delete"} \subseteq StagingPoints
  BY <1>1 DEF StagingInvariant, StagingJobOK, StagingPoints
<1>3. /\ jobs' \in [Executions -> JobType] /\ OnlyJob(d)
      /\ jobs'[d].pc = "record" \/ (jobs'[d].pc # "deleting" /\ jobs'[d].key = k)
  <2>1. \/ \E o \in {"waiting", "protected"} : Conclude(d, o)
        \/ \E pc \in {"inspect", "delete"} : Goto(d, pc)
    BY DEF ReserveStagingObject, PromoteStagingDelete
  <2>2. CASE \E o \in {"waiting", "protected"} : Conclude(d, o)
    BY <2>2, ConcludeMoves
  <2>3. CASE \E pc \in {"inspect", "delete"} : Goto(d, pc)
    BY <1>2, <2>3, GotoMoves
  <2> QED
    BY <2>1, <2>2, <2>3
<1>4. StagingJobOK(d)'
  BY <1>2, <1>3 DEF StagingJobOK, StagingPoints
<1>5. CASE objects' = objects /\ backup' = backup
  BY <1>0, <1>1, <1>3, <1>4, <1>5, StagingJobStep DEF stagingVars, ExecutionsTyped
<1>6. CASE ~(objects' = objects /\ backup' = backup)
  <2>0. /\ backup' \in BackupType /\ Protecting' = Protecting
        /\ \A j \in backup'.found : j \in backup.found
        /\ \A j \in backup'.older : j \in backup.older \/ (j = k /\ k \notin backup'.found)
        /\ backup' = backup \/ objects[k].state = "available"
    <3>1. CASE backup' = backup
      BY <3>1 DEF Protecting, ExecutionsTyped
    <3>2. CASE DateClaim(d, k) /\ objects[k].state = "available"
      BY <1>2, <3>2, ClaimIsDated
    <3> QED
      BY <1>0, <1>6, <3>1, <3>2
  <2>1. objects[k] \in StagingObject /\ d[1] \in Cleanups
    BY <1>2, ObjectTyped DEF Executions
  <2>2. /\ OtherObjects(k) /\ objects' \in [Keys -> StagingObject]
        /\ objects'[k].incarnation = objects[k].incarnation
        /\ \/ /\ objects[k].state = "available" /\ objects'[k].state = "reserved" /\ Reservable(k)
           \/ /\ objects[k].state = "reserved" /\ objects'[k].state = "deleting" /\ Deletable(k)
    <3>1. CASE ReserveStagingObject(d)
      <4> DEFINE o == [objects[k] EXCEPT !.state = "reserved", !.cleanup = d[1]]
      <4>1. o \in StagingObject /\ o.state = "reserved" /\ o.incarnation = objects[k].incarnation
        BY <2>1 DEF StagingObject
      <4>2. objects' = [objects EXCEPT ![k] = o] /\ objects[k].state = "available" /\ Reservable(k)
        BY <1>6, <3>1 DEF ReserveStagingObject
      <4> HIDE DEF o
      <4> QED
        BY <1>2, <4>1, <4>2, ObjectMoves
    <3>2. CASE PromoteStagingDelete(d)
      <4> DEFINE o == [objects[k] EXCEPT !.state = "deleting"]
      <4>1. o \in StagingObject /\ o.state = "deleting" /\ o.incarnation = objects[k].incarnation
        BY <2>1 DEF StagingObject
      <4>2. objects' = [objects EXCEPT ![k] = o] /\ objects[k].state = "reserved" /\ Deletable(k)
        BY <1>6, <3>2 DEF PromoteStagingDelete
      <4> HIDE DEF o
      <4> QED
        BY <1>2, <4>1, <4>2, ObjectMoves
    <3> QED
      BY <3>1, <3>2
  <2>3. ASSUME NEW t \in DOMAIN writes' PROVE WriteOK(t)'
    <3>1. WriteOK(t) /\ writes[t].key \in Keys /\ t \in DOMAIN writes
      BY <1>1, WriteTyped
    <3>2. CASE writes[t].key # k
      BY <1>1, <2>2, <3>1, <3>2 DEF WriteOK, OtherObjects
    <3>3. CASE writes[t].key = k /\ objects[k].state = "available"
      <4>1. writes[t].incarnation = objects[k].incarnation => preparations[writes[t].preparation] = "aged"
        BY <2>2, <3>1, <3>3 DEF Reservable
      <4> QED
        BY <1>1, <2>2, <3>1, <3>3, <4>1 DEF WriteOK
    <3>4. CASE writes[t].key = k /\ objects[k].state = "reserved"
      <4>1. ~writes[t].open
        BY <2>2, <3>1, <3>4 DEF Deletable, OpenWrites
      <4> QED
        BY <1>1, <2>2, <3>1, <3>4, <4>1 DEF WriteOK
    <3> QED
      BY <2>2, <3>2, <3>3, <3>4
  <2>4. ASSUME NEW t \in DOMAIN deletes' PROVE DeleteOK(t)'
    <3>1. DeleteOK(t) /\ deletes[t].key \in Keys
      BY <1>1, DeleteTyped
    <3> QED
      BY <1>1, <2>2, <3>1 DEF DeleteOK, OtherObjects
  <2>5. ASSUME NEW j \in Keys PROVE ObjectOK(j)' /\ FoundOK(j)'
    <3>1. ObjectOK(j) /\ FoundOK(j)
      BY ObjectTyped
    <3>2. CASE j # k
      <4>1. ObjectOK(j)'
        BY <1>1, <2>2, <3>1, <3>2 DEF ObjectOK, OtherObjects
      <4>2. FoundOK(j)'
        BY <1>1, <2>0, <2>2, <3>1, <3>2 DEF FoundOK, OtherObjects
      <4> QED
        BY <4>1, <4>2
    <3>3. CASE j = k
      <4>1. k \notin references
        BY <2>2 DEF Reservable, Deletable
      <4>2. ObjectOK(j)'
        BY <1>1, <2>2, <3>1, <3>3, <4>1 DEF ObjectOK
      <4>3. objects[k].state = "reserved" => ~Protecting \/ k \in backup.older
        BY <2>2 DEF Deletable, BackupProtects, Protecting
      <4>4. FoundOK(j)'
        BY <1>1, <2>0, <2>2, <3>1, <3>3, <4>3 DEF FoundOK
      <4> QED
        BY <4>2, <4>4
    <3> QED
      BY <3>2, <3>3
  <2>6. \A e \in Executions : StagingJobOK(e)'
    BY <1>1, <1>3, <1>4, JobsStep
  <2>7. \A q \in Preparations : WriterOK(q)'
    BY <1>1 DEF StagingInvariant, WriterOK
  <2>8. StagingTyped'
    BY <1>1, <2>2 DEF StagingInvariant, StagingTyped
  <2> QED
    BY <1>1, <1>3, <2>0, <2>3, <2>4, <2>5, <2>6, <2>7, <2>8 DEF StagingInvariant
<1> QED
  BY <1>5, <1>6

(* A delete is sent for the incarnation that is being deleted. *)
LEMMA BeginDeletePreserves ==
  ASSUME ExecutionsTyped, StagingInvariant, NEW d \in Executions, BeginStagingDelete(d)
  PROVE  StagingInvariant' /\ jobs' \in [Executions -> JobType] /\ backup' = backup /\ plan' = plan
<1> DEFINE k == jobs[d].key
           n == Len(deletes) + 1
           x == [key |-> k, incarnation |-> objects[k].incarnation, open |-> TRUE, io |-> "sent"]
           j == [jobs[d] EXCEPT !.pc = "deleting", !.ticket = n]
<1>1. /\ backup' = backup /\ plan' = plan /\ jobs[d].pc = "delete"
      /\ UNCHANGED <<preparations, objects, writes, stored, references, writers>>
  BY DEF BeginStagingDelete
<1>2. k \in Keys
  BY <1>1 DEF StagingInvariant, StagingJobOK, StagingPoints
<1>3. CASE Conclude(d, "waiting") /\ UNCHANGED deletes
  <2>1. jobs' \in [Executions -> JobType] /\ OnlyJob(d) /\ jobs'[d].pc = "record"
    BY <1>3, ConcludeMoves
  <2>2. StagingJobOK(d)'
    BY <2>1 DEF StagingJobOK, StagingPoints
  <2> QED
    BY <1>1, <1>3, <2>1, <2>2, StagingJobStep DEF stagingVars
<1>4. CASE ~(Conclude(d, "waiting") /\ UNCHANGED deletes)
  <2>1. /\ objects[k].state = "deleting" /\ deletes' = Append(deletes, x)
        /\ jobs' = [jobs EXCEPT ![d] = j]
    BY <1>4 DEF BeginStagingDelete
  <2>2. deletes \in Seq(StagingDelete) /\ objects[k].incarnation \in Nat /\ jobs[d] \in JobType
    BY <1>2, ObjectTyped DEF StagingInvariant, StagingTyped, ExecutionsTyped
  <2>3. n \in Nat
    BY <2>2, SMT
  <2>4. j \in JobType /\ j.pc = "deleting" /\ j.ticket = n /\ j.key = k
    BY <2>2, <2>3 DEF JobType, StagingPoints
  <2>5. /\ x \in StagingDelete /\ x.key = k /\ x.incarnation = objects[k].incarnation /\ x.open
        /\ x.io = "sent"
    BY <1>2, <2>2 DEF StagingDelete
  <2> HIDE DEF x, j
  <2>6. /\ deletes' \in Seq(StagingDelete) /\ DOMAIN deletes' = DOMAIN deletes \cup {n} /\ deletes'[n] = x
        /\ \A t \in DOMAIN deletes : deletes'[t] = deletes[t]
    BY <2>1, <2>2, <2>5, TicketAdded, SMT
  <2>7. jobs' \in [Executions -> JobType] /\ OnlyJob(d) /\ jobs'[d] = j
    BY <2>1, <2>4, JobMoves
  <2>8. StagingJobOK(d)'
    BY <1>2, <2>4, <2>5, <2>6, <2>7 DEF StagingJobOK
  <2>9. \A e \in Executions : StagingJobOK(e)'
    BY <2>6, <2>7, <2>8, JobsStep
  <2>10. ASSUME NEW t \in DOMAIN deletes' PROVE DeleteOK(t)'
    <3>1. CASE t = n
      BY <1>1, <2>1, <2>2, <2>5, <2>6, <3>1, SMT DEF DeleteOK
    <3>2. CASE t # n
      <4>1. t \in DOMAIN deletes /\ deletes'[t] = deletes[t]
        BY <2>6, <3>2
      <4>2. DeleteOK(t)
        BY <4>1, DeleteTyped
      <4> QED
        BY <1>1, <4>1, <4>2 DEF DeleteOK
    <3> QED
      BY <3>1, <3>2
  <2>11. /\ \A t \in DOMAIN writes' : WriteOK(t)'
         /\ \A i \in Keys : ObjectOK(i)'
         /\ \A q \in Preparations : WriterOK(q)'
    BY <1>1 DEF StagingInvariant, WriteOK, ObjectOK, WriterOK
  <2>12. \A i \in Keys : FoundOK(i)'
    BY <1>1 DEF StagingInvariant, FoundOK, Protecting
  <2>13. StagingTyped'
    BY <1>1, <2>6 DEF StagingInvariant, StagingTyped
  <2> QED
    BY <1>1, <2>7, <2>9, <2>10, <2>11, <2>12, <2>13 DEF StagingInvariant
<1> QED
  BY <1>3, <1>4

(* The bucket applies a delete: its key is being deleted, so nothing retains *)
(* it and no backup found it.                                                *)
LEMMA DeletePreserves ==
  ASSUME ExecutionsTyped, StagingInvariant, NEW t \in DOMAIN deletes, LandDelete(t)
  PROVE  StagingInvariant' /\ jobs' = jobs /\ backup' = backup /\ plan' = plan
<1> DEFINE k == deletes[t].key
           x == [deletes[t] EXCEPT !.io = "settled"]
<1>1. /\ jobs' = jobs /\ backup' = backup /\ plan' = plan
      /\ UNCHANGED <<preparations, objects, writes, references, writers>>
  BY DEF LandDelete, cleanupVars
<1>2. /\ deletes \in Seq(StagingDelete) /\ deletes[t] \in StagingDelete /\ k \in Keys /\ DeleteOK(t)
      /\ stored \in [Keys -> Nat]
  BY DeleteTyped DEF StagingInvariant, StagingTyped
<1>3. /\ x \in StagingDelete /\ x.key = k /\ x.incarnation = deletes[t].incarnation
      /\ x.open = deletes[t].open /\ x.io = "settled"
  BY <1>2 DEF StagingDelete
<1>4. deletes' = [deletes EXCEPT ![t] = x]
  BY DEF LandDelete
<1> HIDE DEF x
<1>5. /\ deletes' \in Seq(StagingDelete) /\ DOMAIN deletes' = DOMAIN deletes /\ deletes'[t] = x
      /\ \A u \in DOMAIN deletes : u # t => deletes'[u] = deletes[u]
  BY <1>2, <1>3, <1>4, TicketChanged
<1>6. /\ stored' \in [Keys -> Nat] /\ stored'[k] = 0
      /\ \A j \in Keys : j # k => stored'[j] = stored[j]
  BY <1>2 DEF LandDelete
<1>7. objects[k].state = "deleting"
  BY <1>2 DEF DeleteOK, LandDelete
<1>8. ASSUME NEW u \in DOMAIN deletes' PROVE DeleteOK(u)'
  <2>1. DeleteOK(u) /\ deletes[u].key \in Keys
    BY <1>5, DeleteTyped
  <2>2. CASE u = t
    BY <1>1, <1>2, <1>3, <1>5, <1>6, <1>7, <2>2 DEF DeleteOK
  <2>3. CASE u # t
    BY <1>1, <1>5, <1>6, <2>1, <2>3 DEF DeleteOK
  <2> QED
    BY <2>2, <2>3
<1>9. ASSUME NEW j \in Keys PROVE ObjectOK(j)' /\ FoundOK(j)'
  <2>1. ObjectOK(j) /\ FoundOK(j)
    BY ObjectTyped
  <2> QED
    BY <1>1, <1>6, <1>7, <2>1 DEF ObjectOK, FoundOK, Protecting
<1>10. /\ \A u \in DOMAIN writes' : WriteOK(u)'
       /\ \A q \in Preparations : WriterOK(q)'
  BY <1>1 DEF StagingInvariant, WriteOK, WriterOK
<1>11. ASSUME NEW e \in Executions PROVE StagingJobOK(e)'
  <2>1. StagingJobOK(e)
    BY DEF StagingInvariant
  <2>2. \A u \in DOMAIN deletes : deletes'[u].key = deletes[u].key
    BY <1>3, <1>5
  <2> QED
    BY <1>1, <1>5, <2>1, <2>2 DEF StagingJobOK
<1>12. StagingTyped'
  BY <1>1, <1>5, <1>6 DEF StagingInvariant, StagingTyped
<1> QED
  BY <1>1, <1>8, <1>9, <1>10, <1>11, <1>12 DEF StagingInvariant

(* A delete's answer closes its ticket; the key is deleted when no ticket of *)
(* the incarnation is open, so no delete of it is under way.                 *)
LEMMA FinishDeletePreserves ==
  ASSUME ExecutionsTyped, StagingInvariant, NEW d \in Executions, FinishStagingDelete(d)
  PROVE  StagingInvariant' /\ jobs' \in [Executions -> JobType] /\ backup' = backup /\ plan' = plan
<1> DEFINE t == jobs[d].ticket
           k == jobs[d].key
           x == [deletes[t] EXCEPT !.open = FALSE]
           o == [objects[k] EXCEPT !.state = "deleted"]
           last == /\ objects[k].state = "deleting" /\ objects[k].incarnation = deletes[t].incarnation
                   /\ \A u \in OpenDeletes(k) \ {t} : deletes[u].incarnation # deletes[t].incarnation
<1>1. /\ backup' = backup /\ plan' = plan /\ jobs[d].pc = "deleting"
      /\ UNCHANGED <<preparations, writes, stored, references, writers>>
  BY DEF FinishStagingDelete
<1>2. k \in Keys /\ t \in DOMAIN deletes /\ deletes[t].key = k
  BY <1>1 DEF StagingInvariant, StagingJobOK, StagingPoints
<1>3. CASE Conclude(d, "waiting") /\ UNCHANGED <<deletes, objects>>
  <2>1. jobs' \in [Executions -> JobType] /\ OnlyJob(d) /\ jobs'[d].pc = "record"
    BY <1>3, ConcludeMoves
  <2>2. StagingJobOK(d)'
    BY <2>1 DEF StagingJobOK, StagingPoints
  <2> QED
    BY <1>1, <1>3, <2>1, <2>2, StagingJobStep DEF stagingVars
<1>4. CASE /\ deletes[t].io = "settled" /\ deletes' = [deletes EXCEPT ![t] = x]
           /\ (last /\ objects' = [objects EXCEPT ![k] = o]) \/ objects' = objects
           /\ Goto(d, "final")
  <2>1. /\ deletes \in Seq(StagingDelete) /\ deletes[t] \in StagingDelete /\ DeleteOK(t)
        /\ objects[k] \in StagingObject /\ objects \in [Keys -> StagingObject]
    BY <1>2, DeleteTyped, ObjectTyped
  <2>2. /\ x \in StagingDelete /\ x.key = k /\ x.incarnation = deletes[t].incarnation
        /\ x.open = FALSE /\ x.io = "settled"
    BY <1>2, <1>4, <2>1 DEF StagingDelete
  <2>3. o \in StagingObject /\ o.state = "deleted" /\ o.incarnation = objects[k].incarnation
    BY <2>1 DEF StagingObject
  <2> HIDE DEF x, o
  <2>4. /\ deletes' \in Seq(StagingDelete) /\ DOMAIN deletes' = DOMAIN deletes /\ deletes'[t] = x
        /\ \A u \in DOMAIN deletes : u # t => deletes'[u] = deletes[u]
    BY <1>2, <1>4, <2>1, <2>2, TicketChanged
  <2>5. /\ objects' \in [Keys -> StagingObject] /\ OtherObjects(k)
        /\ \/ objects'[k] = objects[k]
           \/ last /\ objects'[k].state = "deleted" /\ objects'[k].incarnation = objects[k].incarnation
    <3>1. CASE objects' = objects
      BY <2>1, <3>1 DEF OtherObjects
    <3>2. CASE last /\ objects' = [objects EXCEPT ![k] = o]
      BY <1>2, <2>3, <3>2, ObjectMoves
    <3> QED
      BY <1>4, <3>1, <3>2
  <2>6. last => stored[k] = 0 /\ objects[k].state = "deleting"
    BY <1>2, <1>4, <2>1 DEF DeleteOK
  <2>7. ASSUME NEW u \in DOMAIN writes' PROVE WriteOK(u)'
    <3>1. WriteOK(u) /\ writes[u].key \in Keys
      BY <1>1, WriteTyped
    <3> QED
      BY <1>1, <2>5, <2>6, <3>1 DEF WriteOK, OtherObjects
  <2>8. ASSUME NEW u \in DOMAIN deletes' PROVE DeleteOK(u)'
    <3>1. DeleteOK(u) /\ deletes[u].key \in Keys /\ u \in DOMAIN deletes
      BY <2>4, DeleteTyped
    <3>2. /\ deletes'[u].key = deletes[u].key /\ deletes'[u].incarnation = deletes[u].incarnation
          /\ deletes'[u].io = deletes[u].io /\ (u # t => deletes'[u] = deletes[u])
      BY <1>2, <1>4, <2>2, <2>4, <3>1
    <3>3. CASE deletes[u].key # k \/ objects'[k] = objects[k]
      <4>1. objects'[deletes[u].key] = objects[deletes[u].key]
        BY <2>5, <3>1, <3>3 DEF OtherObjects
      <4>2. /\ deletes'[u].open = deletes[u].open \/ deletes[u].io # "sent"
            /\ stored'[deletes[u].key] = stored[deletes[u].key]
        BY <1>1, <1>4, <3>2
      <4> HIDE DEF last, t, k
      <4> QED
        BY <3>1, <3>2, <4>1, <4>2 DEF DeleteOK
    <3>4. CASE deletes[u].key = k /\ objects'[k] # objects[k]
      <4>1. /\ objects'[k].state = "deleted" /\ objects'[k].incarnation = objects[k].incarnation
            /\ stored[k] = 0 /\ last
        BY <2>5, <2>6, <3>4
      <4>2. deletes[u].io = "sent" => deletes[u].open /\ deletes[u].incarnation = objects[k].incarnation
        BY <3>1, <3>4 DEF DeleteOK
      <4>3. deletes[u].io # "sent"
        BY <1>4, <3>1, <3>4, <4>1, <4>2 DEF OpenDeletes
      <4>4. stored' = stored /\ deletes[u].incarnation <= objects[k].incarnation
        BY <1>1, <3>1, <3>4 DEF DeleteOK
      <4> HIDE DEF last, t, k
      <4> QED
        BY <3>2, <3>4, <4>1, <4>3, <4>4 DEF DeleteOK
    <3> QED
      BY <3>3, <3>4
  <2>9. ASSUME NEW j \in Keys PROVE ObjectOK(j)' /\ FoundOK(j)'
    <3>1. ObjectOK(j) /\ FoundOK(j)
      BY ObjectTyped
    <3>2. CASE objects'[j] = objects[j]
      BY <1>1, <3>1, <3>2 DEF ObjectOK, FoundOK, Protecting
    <3>3. CASE j = k /\ last /\ objects'[k].state = "deleted"
      BY <1>1, <2>6, <3>1, <3>3 DEF ObjectOK, FoundOK, Protecting
    <3> QED
      BY <2>5, <3>2, <3>3 DEF OtherObjects
  <2>10. jobs' \in [Executions -> JobType] /\ OnlyJob(d) /\ jobs'[d].pc = "final" /\ jobs'[d].key = k
    <3>1. "final" \in CommonPoints \cup StagingPoints \cup CapturePoints
      BY DEF StagingPoints
    <3> QED
      BY <1>4, <3>1, GotoMoves
  <2>11. \A e \in Executions : StagingJobOK(e)'
    <3>1. StagingJobOK(d)'
      BY <1>2, <2>10 DEF StagingJobOK
    <3>2. \A u \in DOMAIN deletes : deletes'[u].key = deletes[u].key
      BY <1>2, <2>2, <2>4
    <3> QED
      BY <2>4, <2>10, <3>1, <3>2, JobsStep
  <2>12. \A q \in Preparations : WriterOK(q)'
    BY <1>1 DEF StagingInvariant, WriterOK
  <2>13. StagingTyped'
    BY <1>1, <2>4, <2>5 DEF StagingInvariant, StagingTyped
  <2> QED
    BY <1>1, <2>7, <2>8, <2>9, <2>10, <2>11, <2>12, <2>13 DEF StagingInvariant
<1> QED
  BY <1>3, <1>4 DEF FinishStagingDelete

(* A backup begins while no key is being deleted and notes what is reserved  *)
(* and what is in use.                                                       *)
LEMMA StagingBackupPreserves ==
  ASSUME ExecutionsTyped, StagingInvariant, StagingBackup, UNCHANGED stagingVars
  PROVE  StagingInvariant' /\ ExecutionsTyped' /\ plan'.scope = plan.scope
<1>1. CASE FenceSnapshot(Deleting)
  <2>1. jobs' = jobs /\ backup' = backup /\ plan' \in Plan /\ plan'.scope = plan.scope
    BY <1>1, FenceKeeps
  <2> QED
    BY <2>1, RestsStill, StagingRests DEF ExecutionsTyped
<1>2. CASE ~FenceSnapshot(Deleting)
  <2> DEFINE older == {k \in Keys : objects[k].state = "reserved"}
             found == {k \in Keys : objects[k].state = "available" /\ stored[k] # 0}
  <2>1. /\ preparations' = preparations /\ objects' = objects /\ writes' = writes /\ deletes' = deletes
        /\ stored' = stored /\ references' = references /\ writers' = writers
    BY DEF stagingVars
  <2>2. /\ jobs' = jobs /\ plan' = plan /\ backup' \in BackupType
        /\ \A k \in Keys : FoundOK(k)'
    <3>1. CASE StartBackup(Deleting, older, found)
      <4> DEFINE b == [state |-> "running", older |-> older, found |-> found]
      <4>1. b \in BackupType /\ b.older = older /\ b.found = found
        BY DEF BackupType
      <4>2. backup' = b /\ jobs' = jobs /\ plan' = plan
        BY <3>1 DEF StartBackup
      <4> HIDE DEF b
      <4> QED
        BY <2>1, <4>1, <4>2 DEF FoundOK
    <3>2. CASE FinishBackup
      BY <2>1, <3>2, FinishKeeps DEF StagingInvariant, FoundOK
    <3> QED
      BY <1>2, <3>1, <3>2 DEF StagingBackup
  <2>3. /\ \A t \in DOMAIN writes' : WriteOK(t)'
        /\ \A t \in DOMAIN deletes' : DeleteOK(t)'
        /\ \A k \in Keys : ObjectOK(k)'
    BY <2>1 DEF StagingInvariant, WriteOK, DeleteOK, ObjectOK
  <2>4. /\ \A d \in Executions : StagingJobOK(d)'
        /\ \A q \in Preparations : WriterOK(q)'
    BY <2>1, <2>2 DEF StagingInvariant, StagingJobOK, WriterOK
  <2>5. StagingTyped' /\ ExecutionsTyped'
    BY <2>1, <2>2 DEF StagingInvariant, StagingTyped, ExecutionsTyped
  <2> QED
    BY <2>2, <2>3, <2>4, <2>5 DEF StagingInvariant
<1> QED
  BY <1>1, <1>2

(* Every step of staging objects, one action at a time. *)
LEMMA StagingStepPreserves ==
  ASSUME ExecutionsTyped, StagingInvariant, StagingNext
  PROVE  StagingInvariant' /\ ExecutionsTyped' /\ plan'.scope = plan.scope
<1>1. ASSUME StagingInvariant', jobs' \in [Executions -> JobType], backup' \in BackupType, plan' = plan
      PROVE  StagingInvariant' /\ ExecutionsTyped' /\ plan'.scope = plan.scope
  BY <1>1 DEF ExecutionsTyped
<1>0. backup \in BackupType
  BY DEF ExecutionsTyped
<1>2. ASSUME StagingInvariant', jobs' = jobs, backup' = backup, plan' = plan
      PROVE  StagingInvariant' /\ ExecutionsTyped' /\ plan'.scope = plan.scope
  BY <1>2 DEF ExecutionsTyped
<1>3. ASSUME UNCHANGED stagingVars, Rests, backup' = backup, plan' \in Plan, plan'.scope = plan.scope
      PROVE  StagingInvariant' /\ ExecutionsTyped' /\ plan'.scope = plan.scope
  BY <1>3, StagingRests DEF ExecutionsTyped, Rests
<1>4. ASSUME NEW p \in Preparations, StageObject(p)
      PROVE  StagingInvariant' /\ ExecutionsTyped' /\ plan'.scope = plan.scope
  <2>1. ASSUME NEW k \in Keys, HeadObject(p, k)
        PROVE  StagingInvariant' /\ ExecutionsTyped' /\ plan'.scope = plan.scope
    BY <1>2, <2>1, WritingPreserves
  <2>2. CASE BeginStagingWrite(p)
    BY <1>2, <2>2, BeginWritePreserves
  <2>3. CASE RetainReference(p)
    BY <1>2, <2>3, ReferencePreserves
  <2>4. CASE FinishPut(p) \/ VerifyObject(p) \/ LoseWriter(p)
    <3>1. writers[p].key \in Keys
      BY <2>4 DEF StagingInvariant, WriterOK, FinishPut, VerifyObject, LoseWriter
    <3> QED
      BY <1>2, <2>4, <3>1, WritingPreserves
  <2> QED
    BY <1>4, <2>1, <2>2, <2>3, <2>4 DEF StageObject
<1>5. ASSUME NEW p \in Preparations, EndPreparation(p) \/ PassRetention(p)
      PROVE  StagingInvariant' /\ ExecutionsTyped' /\ plan'.scope = plan.scope
  BY <1>2, <1>5, RetirementPreserves
<1>6. ASSUME NEW c \in Cleanups, BeginStagingCleanup(c) \/ (Request(c) /\ UNCHANGED stagingVars)
      PROVE  StagingInvariant' /\ ExecutionsTyped' /\ plan'.scope = plan.scope
  BY <1>3, <1>6, RequestRests DEF BeginStagingCleanup
<1>7. ASSUME NEW d \in Executions, AdvanceStagingCleanup(d)
      PROVE  StagingInvariant' /\ ExecutionsTyped' /\ plan'.scope = plan.scope
  <2>1. CASE Advance(d, Inventory(d[1])) /\ UNCHANGED stagingVars
    <3>1. Inventory(d[1]) \in SUBSET Keys
      BY DEF Inventory
    <3>2. Rests /\ backup' = backup /\ plan' \in Plan /\ plan'.scope = plan.scope
      BY <2>1, <3>1, AdvanceRests
    <3> QED
      BY <1>3, <2>1, <3>2
  <2>2. CASE ReadStagingObject(d) \/ InspectStagingObject(d) \/ CheckTickets(d) \/ ReadFinal(d)
    BY <1>0, <1>1, <2>2, LookPreserves
  <2>3. CASE ReserveStagingObject(d) \/ PromoteStagingDelete(d)
    BY <1>1, <2>3, ClaimPreserves
  <2>4. CASE BeginStagingDelete(d)
    BY <1>0, <1>1, <2>4, BeginDeletePreserves
  <2>5. CASE FinishStagingDelete(d)
    BY <1>0, <1>1, <2>5, FinishDeletePreserves
  <2> QED
    BY <1>7, <2>1, <2>2, <2>3, <2>4, <2>5 DEF AdvanceStagingCleanup
<1>8. ASSUME NEW d \in Executions, UNCHANGED stagingVars,
             Exhaust(d) \/ LoseExecution(d, {"deleting", "final", "record"})
      PROVE  StagingInvariant' /\ ExecutionsTyped' /\ plan'.scope = plan.scope
  <2>1. Rests /\ backup' = backup /\ plan' \in Plan /\ plan'.scope = plan.scope
    BY <1>8, AdvanceRests
  <2> QED
    BY <1>3, <1>8, <2>1
<1>9. CASE Bucket
  BY <1>2, <1>9, PutPreserves, DeletePreserves DEF Bucket
<1>10. CASE StagingBackup /\ UNCHANGED stagingVars
  BY <1>10, StagingBackupPreserves
<1> QED
  BY <1>4, <1>5, <1>6, <1>7, <1>8, <1>9, <1>10 DEF StagingNext, Preparations
=============================================================================
