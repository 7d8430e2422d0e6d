------------------------ MODULE ExportDeletionProofs ------------------------
(***************************************************************************)
(* Proofs about ExportDeletion: for any number of calls, confirmations,    *)
(* retries and objects, a package is removed front to back with its        *)
(* manifest last, a partial one is never served, and a deletion reported   *)
(* deleted left nothing of it.                                             *)
(***************************************************************************)
EXTENDS ExportDeletion, TLAPS

(* Most steps are first-order: Zenon proves them unless they name SMT. *)
USE ZenonT(30)

(* The inductive invariant.  A call that is not new has named a deletion, a  *)
(* call that has not begun to execute stands before the first object, and    *)
(* the export of every claimed deletion and every call under way is hidden.  *)
Named == \A c \in Calls : calls[c].pc # "new" => calls[c].deletion \in Confirmations

AtFirst ==
  \A c \in Calls :
    calls[c].pc \in {"new", "insert", "claim", "row", "assert", "retry"} => calls[c].at = 1

ClaimedIsHidden ==
  /\ \A d \in Confirmations : deletions[d].state # "none" => export.state # "available"
  /\ \A c \in Calls : calls[c].pc \notin {"new", "insert", "ended"} => export.state # "available"

ExportInvariant ==
  /\ ExportTypeOK /\ Named /\ AtFirst
  /\ SweptInOrder /\ ManifestGoesLast
  /\ DeletedIsGone /\ ClaimedIsHidden /\ PartialPackageIsHidden

(* What a step of call c makes of the calls: it moves c, and only c. *)
Moved(c, pc) ==
  /\ calls' \in [Calls -> Call]
  /\ \A e \in Calls : e # c => calls'[e] = calls[e]
  /\ calls'[c].pc = pc
  /\ calls'[c].deletion = calls[c].deletion
  /\ calls'[c].at = calls[c].at

(* Going elsewhere keeps everything else of the call. *)
LEMMA GotoMoves ==
  ASSUME calls \in [Calls -> Call], NEW c \in Calls, NEW pc, Goto(c, pc),
         [calls[c] EXCEPT !.pc = pc] \in Call
  PROVE  Moved(c, pc)
<1> DEFINE r == [calls[c] EXCEPT !.pc = pc]
<1>1. calls' = [calls EXCEPT ![c] = r]
  BY DEF Goto
<1>2. r.pc = pc /\ r.deletion = calls[c].deletion /\ r.at = calls[c].at
  BY DEF Call
<1> HIDE DEF r
<1> QED
  BY <1>1, <1>2 DEF Moved, r

(* An answered call has ended. *)
LEMMA AnswerMoves ==
  ASSUME calls \in [Calls -> Call], NEW c \in Calls, NEW a \in States, Answer(c, a)
  PROVE  Moved(c, "ended")
<1> DEFINE r == [calls[c] EXCEPT !.pc = "ended", !.answer = a]
<1>1. calls' = [calls EXCEPT ![c] = r]
  BY DEF Answer
<1>2. r.pc = "ended" /\ r.deletion = calls[c].deletion /\ r.at = calls[c].at
  BY DEF Call
<1>3. r \in Call
  BY DEF Call
<1> HIDE DEF r
<1> QED
  BY <1>1, <1>2, <1>3 DEF Moved

(* A call that begins names its deletion and notes the lease it finds lapsed. *)
LEMMA BeginMoves ==
  ASSUME ExportTypeOK, NEW c \in Calls, NEW d \in Confirmations, NEW y \in RetryKeys \cup {Nobody},
         NEW pc \in {"ended", "claim", "insert", "row"}, NEW a \in States, Begin(c, d, y, pc, a)
  PROVE  /\ calls' \in [Calls -> Call]
         /\ \A e \in Calls : e # c => calls'[e] = calls[e]
         /\ calls'[c].pc = pc /\ calls'[c].deletion = d /\ calls'[c].at = calls[c].at
         /\ calls'[c].retry = y /\ calls'[c].answer = a
<1> DEFINE b == y # Nobody /\ retries[y].deletion = d
           s == LapsedLease(d)
           r == [calls[c] EXCEPT !.pc = pc, !.deletion = d, !.retry = y, !.answer = a,
                                 !.replay = b, !.seen = s]
<1>1. calls' = [calls EXCEPT ![c] = r]
  BY DEF Begin
<1>2. b \in BOOLEAN
  OBVIOUS
<1>3. s \in Calls \cup {Nobody}
  BY DEF ExportTypeOK, LapsedLease, DeletionRow
<1>4. calls[c] \in Call /\ calls \in [Calls -> Call]
  BY DEF ExportTypeOK
<1> HIDE DEF b, s
<1>5. r \in Call
  BY <1>2, <1>3, <1>4 DEF Call
<1>6. r.pc = pc /\ r.deletion = d /\ r.at = calls[c].at /\ r.retry = y /\ r.answer = a
  BY <1>4 DEF Call
<1> HIDE DEF r
<1> QED
  BY <1>1, <1>4, <1>5, <1>6

(* A loop ends exactly at the last object. *)
LEMMA AdvanceMoves ==
  ASSUME ExportTypeOK, NEW c \in Calls, NEW loop \in {"check", "verify"},
         NEW then \in {"verify", "terminal"}, Advance(c, loop, then)
  PROVE  /\ calls' \in [Calls -> Call]
         /\ \A e \in Calls : e # c => calls'[e] = calls[e]
         /\ calls'[c].deletion = calls[c].deletion
         /\ \/ calls[c].at = ObjectCount /\ calls'[c].pc = then
            \/ /\ calls[c].at < ObjectCount /\ calls'[c].pc = loop
               /\ calls'[c].at = calls[c].at + 1
<1> DEFINE r == IF Last(calls[c].at) THEN [calls[c] EXCEPT !.pc = then, !.at = 1]
                ELSE [calls[c] EXCEPT !.pc = loop, !.at = calls[c].at + 1]
<1>1. calls' = [calls EXCEPT ![c] = r]
  BY DEF Advance
<1>2. calls \in [Calls -> Call] /\ calls[c] \in Call /\ calls[c].at \in 1 .. ObjectCount
  BY DEF ExportTypeOK, Call, Package
<1>3. CASE calls[c].at = ObjectCount
  <2>1. r = [calls[c] EXCEPT !.pc = then, !.at = 1]
    BY <1>3 DEF Last
  <2>2. 1 \in Package
    BY ExportAssumption, SMT DEF Package
  <2>3. r \in Call /\ r.pc = then /\ r.deletion = calls[c].deletion
    BY <1>2, <2>1, <2>2 DEF Call
  <2> HIDE DEF r
  <2> QED
    BY <1>1, <1>2, <1>3, <2>3
<1>4. CASE calls[c].at # ObjectCount
  <2>1. r = [calls[c] EXCEPT !.pc = loop, !.at = calls[c].at + 1]
    BY <1>4 DEF Last
  <2>2. calls[c].at + 1 \in Package /\ calls[c].at < ObjectCount
    BY <1>2, <1>4, ExportAssumption, SMT DEF Package
  <2>3. r \in Call /\ r.pc = loop /\ r.at = calls[c].at + 1 /\ r.deletion = calls[c].deletion
    BY <1>2, <2>1, <2>2 DEF Call
  <2> HIDE DEF r
  <2> QED
    BY <1>1, <1>2, <2>2, <2>3
<1> QED
  BY <1>3, <1>4

-----------------------------------------------------------------------------
(* Rows change their content but no deletion becomes claimed or deleted. *)
RowsTyped ==
  /\ current \in 0 .. MaxRevision /\ idle \in BOOLEAN /\ guarded \in {"never", "blocked", "clear"}
  /\ export \in [state : {"available", "deleting", "deleted"}, operation : Confirmations \cup {Nobody}]
  /\ plans \in [Confirmations -> [state : {"none", "prepared", "expired"}, expected : 0 .. MaxRevision]]
  /\ deletions \in [Confirmations -> DeletionRow]
  /\ retries \in [RetryKeys -> [deletion : Confirmations \cup {Nobody}, response : States]]
  /\ scenario \in Scenario

RowsQuiet ==
  /\ RowsTyped' /\ export' = export
  /\ \A d \in Confirmations :
       /\ deletions'[d].state = "deleted" => deletions[d].state = "deleted"
       /\ deletions'[d].state # "none" => deletions[d].state # "none"

(* The type invariant, by rows, objects and calls. *)
LEMMA TypeSplits == ExportTypeOK <=> RowsTyped /\ objects \subseteq Package /\ calls \in [Calls -> Call]
  BY DEF ExportTypeOK, RowsTyped

(* A step that touches no call and no object. *)
LEMMA RowsStep ==
  ASSUME ExportInvariant, RowsQuiet, objects' = objects, calls' = calls
  PROVE  ExportInvariant'
<1>1. ExportTypeOK'
  BY TypeSplits DEF ExportInvariant, RowsQuiet, ExportTypeOK, RowsTyped
<1> QED
  BY <1>1 DEF ExportInvariant, RowsQuiet, Named, AtFirst, SweptInOrder, ManifestGoesLast, Manifest,
       DeletedIsGone, ClaimedIsHidden, PartialPackageIsHidden, Package

(* Where a call may go without touching an object or claiming a deletion. *)
Follows(pc, next) ==
  /\ pc \notin {"new", "ended"} /\ next \notin {"new", "insert"}
  /\ pc = "insert" => next = "ended" \/ (next = "wait" /\ export.state # "available")
  /\ next \in {"claim", "row", "assert", "retry"} => pc \in {"row", "claim", "assert"}
  /\ next \in {"check", "remove", "send"} => pc \in {"claim", "assert", "retry", "check", "remove", "send"}
  /\ next \in {"verify", "terminal", "commit"} => pc \in {"verify", "terminal", "commit"}

(* A step that moves one call and leaves the objects alone. *)
LEMMA QuietStep ==
  ASSUME ExportInvariant, NEW c \in Calls, NEW pc, Moved(c, pc), Follows(calls[c].pc, pc),
         RowsQuiet, objects' = objects
  PROVE  ExportInvariant'
<1> USE DEF ExportInvariant
<1>1. ExportTypeOK'
  BY TypeSplits DEF RowsQuiet, ExportTypeOK, RowsTyped, Moved
<1>2. Named'
  BY DEF Named, Moved, Follows
<1>3. AtFirst'
  BY DEF AtFirst, Moved, Follows
<1>4. SweptInOrder'
  <2>1. \A k \in objects : k >= 1
    BY SMT DEF ExportTypeOK, Package
  <2> QED
    BY <2>1 DEF SweptInOrder, AtFirst, Moved, Follows
<1>5. ClaimedIsHidden'
  BY DEF ClaimedIsHidden, RowsQuiet, Moved, Follows
<1>6. ManifestGoesLast' /\ DeletedIsGone' /\ PartialPackageIsHidden'
  BY DEF ManifestGoesLast, DeletedIsGone, PartialPackageIsHidden, RowsQuiet, Manifest, Package
<1> QED
  BY <1>1, <1>2, <1>3, <1>4, <1>5, <1>6

(* A step that removes the object a call stands at, or finds it removed. *)
LEMMA SweepStep ==
  ASSUME ExportInvariant, NEW c \in Calls, calls[c].pc \in {"check", "send"},
         Advance(c, "check", "verify"), UNCHANGED <<rows, surroundings, scenario>>,
         objects' = objects \ {calls[c].at}
  PROVE  ExportInvariant'
<1> USE DEF ExportInvariant
<1>1. RowsTyped'
  BY TypeSplits DEF RowsTyped, rows, surroundings
<1>2. /\ calls' \in [Calls -> Call]
      /\ \A e \in Calls : e # c => calls'[e] = calls[e]
      /\ calls'[c].deletion = calls[c].deletion
      /\ \/ calls[c].at = ObjectCount /\ calls'[c].pc = "verify"
         \/ /\ calls[c].at < ObjectCount /\ calls'[c].pc = "check"
            /\ calls'[c].at = calls[c].at + 1
  BY AdvanceMoves
<1>3. ExportTypeOK'
  BY <1>1, <1>2 DEF ExportTypeOK, RowsTyped
<1>4. Named' /\ AtFirst'
  BY <1>2 DEF Named, AtFirst
<1>5. /\ calls[c].at \in 1 .. ObjectCount /\ objects \subseteq 1 .. ObjectCount
      /\ \A k \in objects : k >= calls[c].at
  BY DEF ExportTypeOK, Call, Package, SweptInOrder
<1>6. calls[c].at = ObjectCount => objects' = {}
  BY <1>5, ExportAssumption, SMT
<1>7. \A k \in objects' : k >= calls[c].at + 1
  BY <1>5, ExportAssumption, SMT
<1>8. SweptInOrder'
  BY <1>2, <1>6, <1>7 DEF SweptInOrder
<1>9. ManifestGoesLast'
  BY <1>5, <1>6, ExportAssumption DEF ManifestGoesLast, Manifest
<1>10. export' = export /\ deletions' = deletions /\ export.state # "available"
  BY DEF rows, ClaimedIsHidden
<1>11. DeletedIsGone' /\ ClaimedIsHidden' /\ PartialPackageIsHidden'
  BY <1>2, <1>10 DEF DeletedIsGone, ClaimedIsHidden, PartialPackageIsHidden
<1> QED
  BY <1>3, <1>4, <1>8, <1>9, <1>11

-----------------------------------------------------------------------------
(* A deletion row is replaced. *)
LEMMA DeletionUpdate ==
  ASSUME deletions \in [Confirmations -> DeletionRow], NEW d \in Confirmations, NEW r \in DeletionRow,
         deletions' = [deletions EXCEPT ![d] = r]
  PROVE  /\ deletions' \in [Confirmations -> DeletionRow] /\ deletions'[d] = r
         /\ \A e \in Confirmations : e # d => deletions'[e] = deletions[e]
  OBVIOUS

(* A retry row takes a receipt. *)
LEMMA ReceiptUpdate ==
  ASSUME RowsTyped, NEW y \in RetryKeys, NEW a \in States,
         retries' = [retries EXCEPT ![y] = [@ EXCEPT !.response = a]]
  PROVE  retries' \in [RetryKeys -> [deletion : Confirmations \cup {Nobody}, response : States]]
<1> DEFINE Row == [deletion : Confirmations \cup {Nobody}, response : States]
           r == [retries[y] EXCEPT !.response = a]
<1>1. retries \in [RetryKeys -> Row]
  BY DEF RowsTyped
<1>2. r \in Row
  BY <1>1
<1>3. retries' = [retries EXCEPT ![y] = r]
  OBVIOUS
<1> HIDE DEF r, Row
<1>4. retries' \in [RetryKeys -> Row]
  BY <1>1, <1>2, <1>3
<1> QED
  BY <1>4 DEF Row

(* COALESCE answers one of its arguments. *)
LEMMA RetainedTyped ==
  ASSUME NEW a \in States, NEW b \in States PROVE Retained(a, b) \in States
  BY DEF Retained

(* A receipt is a state. *)
LEMMA ResponseTyped ==
  ASSUME RowsTyped, NEW d \in Confirmations, NEW y \in RetryKeys \cup {Nobody}
  PROVE  Response(d, y) \in States /\ deletions[d].response \in States /\ deletions[d].state \in States
         /\ deletions[d] \in DeletionRow
  BY DEF RowsTyped, Response, DeletionRow

(* Settling ends the call and changes the rows of its own deletion alone. *)
LEMMA SettleMoves ==
  ASSUME ExportInvariant, NEW c \in Calls, calls[c].pc \in {"commit", "fail"},
         NEW state \in {"deleted", "failed"}, Settle(c, state), Owns(c)
  PROVE  /\ Moved(c, "ended") /\ calls[c].deletion \in Confirmations
         /\ deletions' \in [Confirmations -> DeletionRow]
         /\ retries' \in [RetryKeys -> [deletion : Confirmations \cup {Nobody}, response : States]]
         /\ deletions[calls[c].deletion].state = "deleting"
         /\ deletions'[calls[c].deletion].state = state
         /\ \A e \in Confirmations : e # calls[c].deletion => deletions'[e] = deletions[e]
<1> DEFINE d == calls[c].deletion
           y == calls[c].retry
<1>1. RowsTyped /\ calls \in [Calls -> Call] /\ d \in Confirmations /\ y \in RetryKeys \cup {Nobody}
  BY TypeSplits DEF ExportInvariant, ExportTypeOK, Named, Call
<1>2. state \in States
  BY DEF States
<1>3. Moved(c, "ended")
  <2>1. Retained(Response(d, y), state) \in States
    BY <1>1, <1>2, ResponseTyped, RetainedTyped
  <2> QED
    BY <1>1, <2>1, AnswerMoves DEF Settle
<1>4. deletions[d].state = "deleting"
  BY DEF Owns
<1>5. /\ deletions' \in [Confirmations -> DeletionRow] /\ deletions'[d].state = state
      /\ \A e \in Confirmations : e # d => deletions'[e] = deletions[e]
  <2> DEFINE a == Retained(deletions[d].response, state)
             r == [deletions[d] EXCEPT !.state = state, !.response = a]
  <2>1. a \in States /\ deletions[d] \in DeletionRow
    BY <1>1, <1>2, ResponseTyped, RetainedTyped
  <2>2. deletions' = [deletions EXCEPT ![d] = r]
    BY DEF Settle
  <2> HIDE DEF a
  <2>3. r \in DeletionRow /\ r.state = state
    BY <1>2, <2>1 DEF DeletionRow
  <2> HIDE DEF r
  <2> QED
    BY <1>1, <2>2, <2>3, DeletionUpdate DEF RowsTyped
<1>6. retries' \in [RetryKeys -> [deletion : Confirmations \cup {Nobody}, response : States]]
  <2>1. CASE y = Nobody
    BY <1>1, <2>1 DEF Settle, RowsTyped
  <2>2. CASE y # Nobody
    <3>1. y \in RetryKeys /\ retries[y].response \in States
      BY <1>1, <2>2 DEF RowsTyped
    <3>2. retries' = [retries EXCEPT ![y] = [@ EXCEPT !.response = Retained(retries[y].response, state)]]
      BY <2>2 DEF Settle
    <3> QED
      BY <1>1, <1>2, <3>1, <3>2, RetainedTyped, ReceiptUpdate
  <2> QED
    BY <2>1, <2>2
<1> QED
  BY <1>1, <1>3, <1>4, <1>5, <1>6

-----------------------------------------------------------------------------
(* Nothing is deleted and nobody has asked. *)
LEMMA InitEstablishes == ExportInit => ExportInvariant
<1> SUFFICES ASSUME ExportInit PROVE ExportInvariant
  OBVIOUS
<1>1. /\ \A c \in Calls : calls[c].pc = "new" /\ calls[c].at = 1
      /\ \A d \in Confirmations : deletions[d].state = "none"
      /\ objects = Package /\ export.state = "available"
  BY DEF ExportInit
<1>2. RowsTyped
  <2>1. idle \in BOOLEAN
    BY DEF ExportInit
  <2>2. /\ [state |-> "none", retry |-> Nobody, owner |-> Nobody, lapsed |-> FALSE, response |-> "none"]
             \in DeletionRow
        /\ [deletion |-> Nobody, response |-> "none"] \in [deletion : Confirmations \cup {Nobody}, response : States]
    BY DEF DeletionRow, States
  <2>3. 0 .. 1 \subseteq 0 .. MaxRevision /\ 0 \in 0 .. MaxRevision
    BY ExportAssumption, SMT
  <2>4. /\ deletions \in [Confirmations -> DeletionRow]
        /\ retries \in [RetryKeys -> [deletion : Confirmations \cup {Nobody}, response : States]]
    BY <2>2 DEF ExportInit
  <2> QED
    BY <2>1, <2>3, <2>4, ExportAssumption DEF ExportInit, RowsTyped
<1>3. calls \in [Calls -> Call]
  <2>1. [pc |-> "new", deletion |-> Nobody, retry |-> Nobody, replay |-> FALSE,
         seen |-> Nobody, at |-> 1, answer |-> "none"] \in Call
    BY ExportAssumption, SMT DEF Call, States, Package
  <2> QED
    BY <2>1 DEF ExportInit
<1>4. ExportTypeOK
  BY <1>1, <1>2, <1>3, TypeSplits
<1>5. ManifestGoesLast
  BY <1>1, ExportAssumption, SMT DEF ManifestGoesLast, Manifest, Package
<1> QED
  BY <1>1, <1>4, <1>5 DEF ExportInvariant, Named, AtFirst, SweptInOrder, DeletedIsGone,
       ClaimedIsHidden, PartialPackageIsHidden

(* Steps of no call: plans, time and the surroundings. *)
LEMMA SurroundingsPreserve ==
  ASSUME ExportInvariant,
         \/ \E d \in Confirmations : PrepareCatalogueExportDeletion(d) \/ ExpirePlan(d) \/ LapseLease(d)
         \/ Publish \/ ChangeMaintenance \/ FenceRows
  PROVE  ExportInvariant'
<1> RowsTyped
  BY TypeSplits DEF ExportInvariant
<1>1. ASSUME NEW d \in Confirmations, PrepareCatalogueExportDeletion(d) PROVE ExportInvariant'
  BY <1>1, RowsStep DEF PrepareCatalogueExportDeletion, RowsQuiet, RowsTyped, surroundings
<1>2. ASSUME NEW d \in Confirmations, ExpirePlan(d) PROVE ExportInvariant'
  <2>1. plans' \in [Confirmations -> [state : {"none", "prepared", "expired"}, expected : 0 .. MaxRevision]]
    BY <1>2 DEF ExpirePlan, RowsTyped
  <2> QED
    BY <1>2, <2>1, RowsStep DEF ExpirePlan, RowsQuiet, RowsTyped, surroundings
<1>3. ASSUME NEW d \in Confirmations, LapseLease(d) PROVE ExportInvariant'
  <2> DEFINE r == [deletions[d] EXCEPT !.lapsed = TRUE]
  <2>1. r \in DeletionRow /\ r.state = deletions[d].state
    BY DEF RowsTyped, DeletionRow
  <2>2. deletions' = [deletions EXCEPT ![d] = r]
    BY <1>3 DEF LapseLease
  <2> HIDE DEF r
  <2>3. /\ deletions' \in [Confirmations -> DeletionRow]
        /\ \A e \in Confirmations : deletions'[e].state = deletions[e].state
    BY <2>1, <2>2 DEF RowsTyped
  <2>4. RowsQuiet
    BY <1>3, <2>3 DEF LapseLease, RowsQuiet, RowsTyped, surroundings
  <2> QED
    BY <1>3, <2>4, RowsStep DEF LapseLease
<1>4. CASE Publish
  BY <1>4, ExportAssumption, RowsStep, SMT DEF Publish, RowsQuiet, RowsTyped, rows
<1>5. CASE ChangeMaintenance
  <2>1. idle' \in BOOLEAN
    BY <1>5 DEF ChangeMaintenance, RowsTyped
  <2> QED
    BY <1>5, <2>1, RowsStep DEF ChangeMaintenance, RowsQuiet, RowsTyped, rows
<1>6. CASE FenceRows
  BY <1>6, RowsStep DEF FenceRows, RowsQuiet, RowsTyped, rows
<1> QED
  BY <1>1, <1>2, <1>3, <1>4, <1>5, <1>6

(* A call begins. *)
LEMMA BeginStep ==
  ASSUME ExportInvariant, NEW c \in Calls, NEW d \in Confirmations, NEW y \in RetryKeys \cup {Nobody},
         NEW pc \in {"ended", "claim", "insert", "row"}, NEW a \in States, Begin(c, d, y, pc, a),
         calls[c].pc = "new", pc \in {"claim", "row"} => export.state # "available",
         UNCHANGED <<rows, surroundings, objects, scenario>>
  PROVE  ExportInvariant'
<1> USE DEF ExportInvariant
<1>1. /\ calls' \in [Calls -> Call]
      /\ \A e \in Calls : e # c => calls'[e] = calls[e]
      /\ calls'[c].pc = pc /\ calls'[c].deletion = d /\ calls'[c].at = calls[c].at
  BY BeginMoves, SMT
<1>2. ExportTypeOK'
  BY <1>1 DEF ExportTypeOK, rows, surroundings
<1>3. Named' /\ AtFirst' /\ SweptInOrder'
  BY <1>1 DEF Named, AtFirst, SweptInOrder
<1>4. ClaimedIsHidden' /\ ManifestGoesLast' /\ DeletedIsGone' /\ PartialPackageIsHidden'
  BY <1>1 DEF ClaimedIsHidden, ManifestGoesLast, DeletedIsGone, PartialPackageIsHidden, Manifest, Package, rows
<1> QED
  BY <1>2, <1>3, <1>4

(* A confirmation or a retry only begins a call. *)
LEMMA RequestsPreserve ==
  ASSUME ExportInvariant, NEW c \in Calls, NEW d \in Confirmations,
         \/ ConfirmCatalogueExportDeletion(c, d)
         \/ \E y \in RetryKeys : RetryCatalogueExportDeletion(c, d, y)
  PROVE  ExportInvariant'
<1>1. /\ deletions[d].response \in States /\ "none" \in States
      /\ \A y \in RetryKeys : retries[y].response \in States
  BY DEF ExportInvariant, ExportTypeOK, DeletionRow, States
<1>2. deletions[d].state # "none" => export.state # "available"
  BY DEF ExportInvariant, ClaimedIsHidden
<1>3. CASE ConfirmCatalogueExportDeletion(c, d)
  BY <1>1, <1>2, <1>3, BeginStep DEF ConfirmCatalogueExportDeletion
<1>4. ASSUME NEW y \in RetryKeys, RetryCatalogueExportDeletion(c, d, y) PROVE ExportInvariant'
  BY <1>1, <1>2, <1>4, BeginStep DEF RetryCatalogueExportDeletion
<1> QED
  BY <1>3, <1>4

(* Every place a call goes is one of Call's. *)
LEMMA GotoQuietly ==
  ASSUME ExportInvariant, NEW c \in Calls,
         NEW pc \in {"claim", "assert", "retry", "check", "remove", "send", "commit", "failing",
                     "fail", "wait", "ended"},
         Goto(c, pc), Follows(calls[c].pc, pc), RowsQuiet, objects' = objects
  PROVE  ExportInvariant'
<1>1. calls \in [Calls -> Call] /\ calls[c] \in Call
  BY DEF ExportInvariant, ExportTypeOK
<1>2. [calls[c] EXCEPT !.pc = pc] \in Call
  BY <1>1 DEF Call
<1> QED
  BY <1>1, <1>2, GotoMoves, QuietStep

(* Rows that stay are quiet. *)
LEMMA UnchangedIsQuiet ==
  ASSUME ExportInvariant, UNCHANGED <<rows, surroundings>>, scenario' \in Scenario
  PROVE  RowsQuiet
  BY TypeSplits DEF ExportInvariant, RowsQuiet, RowsTyped, rows, surroundings

(* A failure uses up one of the troubles left. *)
LEMMA TroubleTyped ==
  ASSUME scenario \in Scenario, Trouble PROVE scenario' \in Scenario
<1>1. scenario.troubles - 1 \in 0 .. 2
  BY SMT DEF Trouble, Scenario
<1> QED
  BY <1>1 DEF Trouble, Scenario

(* A claim hides an available export, or finds it hidden. *)
LEMMA InsertPreserves ==
  ASSUME ExportInvariant, NEW c \in Calls, InsertDeletion(c)
  PROVE  ExportInvariant'
<1> DEFINE d == calls[c].deletion
<1>1. /\ RowsTyped /\ calls \in [Calls -> Call] /\ calls[c] \in Call /\ calls[c].pc = "insert"
      /\ d \in Confirmations /\ scenario' = scenario /\ scenario \in Scenario
  BY TypeSplits DEF ExportInvariant, ExportTypeOK, Named, InsertDeletion
<1>2. CASE ~Insertable(d)
  <2>1. /\ UNCHANGED <<rows, surroundings>> /\ objects' = objects
        /\ IF deletions[d].state # "none" THEN Goto(c, "wait") ELSE Goto(c, "ended")
    BY <1>2 DEF InsertDeletion, rows, Throw
  <2>2. deletions[d].state # "none" => export.state # "available"
    BY <1>1 DEF ExportInvariant, ClaimedIsHidden
  <2> QED
    BY <1>1, <2>1, <2>2, UnchangedIsQuiet, GotoQuietly DEF Follows
<1>3. CASE Insertable(d)
  <2> DEFINE r == [deletions[d] EXCEPT !.state = "deleting", !.owner = c]
  <2>1. /\ Goto(c, "check") /\ deletions' = [deletions EXCEPT ![d] = r]
        /\ export' = [state |-> "deleting", operation |-> d]
        /\ export.state = "available" /\ objects' = objects
        /\ UNCHANGED <<plans, retries, surroundings, scenario>>
    <3>1. export.state = "available"
      BY <1>3 DEF Insertable
    <3> QED
      BY <1>3, <3>1 DEF InsertDeletion
  <2>2. r \in DeletionRow /\ r.state = "deleting"
    <3>1. deletions[d] \in DeletionRow
      BY <1>1 DEF RowsTyped
    <3> QED
      BY <3>1 DEF DeletionRow, States
  <2> HIDE DEF r
  <2>3. /\ deletions' \in [Confirmations -> DeletionRow] /\ deletions'[d].state = "deleting"
        /\ \A e \in Confirmations : e # d => deletions'[e] = deletions[e]
    BY <1>1, <2>1, <2>2, DeletionUpdate DEF RowsTyped
  <2>4. Moved(c, "check")
    <3>1. [calls[c] EXCEPT !.pc = "check"] \in Call
      BY <1>1 DEF Call
    <3> QED
      BY <1>1, <2>1, <3>1, GotoMoves
  <2>5. RowsTyped'
    BY <1>1, <2>1, <2>3 DEF RowsTyped, surroundings
  <2>6. ExportTypeOK'
    BY <2>1, <2>4, <2>5 DEF ExportInvariant, ExportTypeOK, RowsTyped, Moved
  <2>7. Named' /\ AtFirst'
    BY <1>1, <2>4 DEF ExportInvariant, Named, AtFirst, Moved
  <2>8. SweptInOrder'
    <3>1. calls[c].at = 1 /\ \A k \in objects : k >= 1
      BY <1>1, SMT DEF ExportInvariant, ExportTypeOK, AtFirst, Package
    <3> QED
      BY <2>1, <2>4, <3>1 DEF ExportInvariant, SweptInOrder, Moved
  <2>9. ManifestGoesLast' /\ PartialPackageIsHidden' /\ ClaimedIsHidden'
    BY <2>1 DEF ExportInvariant, ManifestGoesLast, PartialPackageIsHidden, ClaimedIsHidden, Manifest, Package
  <2>10. DeletedIsGone'
    BY <2>1, <2>3 DEF ExportInvariant, DeletedIsGone, ClaimedIsHidden
  <2> QED
    BY <2>6, <2>7, <2>8, <2>9, <2>10 DEF ExportInvariant
<1> QED
  BY <1>2, <1>3

(* Reading, claiming and retrying leave objects and export alone. *)
LEMMA ClaimsPreserve ==
  ASSUME ExportInvariant, NEW c \in Calls,
         \/ ReadDeletion(c) \/ ClaimDeletionExecutionLease(c) \/ AssertMaintenanceIdle(c) \/ ClaimRetry(c)
  PROVE  ExportInvariant'
<1> DEFINE d == calls[c].deletion
           y == calls[c].retry
<1>1. /\ RowsTyped /\ calls \in [Calls -> Call] /\ calls[c] \in Call /\ y \in RetryKeys \cup {Nobody}
      /\ scenario \in Scenario
  BY TypeSplits DEF ExportInvariant, ExportTypeOK, Call
<1>2. calls[c].pc # "new" => d \in Confirmations /\ deletions[d] \in DeletionRow /\ deletions[d].state \in States
  BY <1>1 DEF ExportInvariant, Named, RowsTyped, DeletionRow
<1>3. CASE ReadDeletion(c)
  <2>1. CASE calls[c].replay /\ deletions[d].state # "deleting" /\ ~(Fenced /\ retries[y].response = "none")
    <3> DEFINE a == Retained(retries[y].response, deletions[d].state)
    <3>1. /\ calls[c].pc = "row" /\ Answer(c, deletions[d].state) /\ objects' = objects
          /\ retries' = [retries EXCEPT ![y] = [@ EXCEPT !.response = a]]
          /\ UNCHANGED <<export, plans, deletions, surroundings, scenario>>
      BY <1>3, <2>1 DEF ReadDeletion
    <3>2. Moved(c, "ended")
      BY <1>1, <1>2, <3>1, AnswerMoves
    <3>3. retries' \in [RetryKeys -> [deletion : Confirmations \cup {Nobody}, response : States]]
      <4>1. CASE y \in RetryKeys
        <5>1. a \in States
          BY <1>1, <1>2, <3>1, <4>1, RetainedTyped DEF RowsTyped
        <5> QED
          BY <1>1, <3>1, <4>1, <5>1, ReceiptUpdate
      <4>2. CASE y \notin RetryKeys
        BY <1>1, <3>1, <4>2 DEF RowsTyped
      <4> QED
        BY <4>1, <4>2
    <3>4. RowsQuiet
      BY <1>1, <3>1, <3>3 DEF RowsQuiet, RowsTyped, surroundings
    <3> QED
      BY <3>1, <3>2, <3>4, QuietStep DEF Follows
  <2>2. CASE ~(calls[c].replay /\ deletions[d].state # "deleting" /\ ~(Fenced /\ retries[y].response = "none"))
    <3>1. /\ calls[c].pc = "row" /\ UNCHANGED <<rows, surroundings>> /\ scenario' = scenario /\ objects' = objects
          /\ \E pc \in {"claim", "assert", "ended"} : Goto(c, pc)
      BY <1>3, <2>2 DEF ReadDeletion, rows
    <3> QED
      BY <1>1, <3>1, UnchangedIsQuiet, GotoQuietly DEF Follows
  <2> QED
    BY <2>1, <2>2
<1>4. CASE ClaimDeletionExecutionLease(c)
  <2> DEFINE r == [deletions[d] EXCEPT !.owner = c, !.lapsed = FALSE]
  <2>1. /\ calls[c].pc = "claim" /\ objects' = objects
        /\ \E pc \in {"check", "assert", "wait"} : Goto(c, pc)
        /\ UNCHANGED <<export, plans, retries, surroundings, scenario>>
        /\ deletions' = deletions \/ deletions' = [deletions EXCEPT ![d] = r]
    BY <1>4 DEF ClaimDeletionExecutionLease
  <2>2. r \in DeletionRow /\ r.state = deletions[d].state
    BY <1>2, <2>1 DEF DeletionRow
  <2> HIDE DEF r
  <2>3. /\ deletions' \in [Confirmations -> DeletionRow]
        /\ \A e \in Confirmations : deletions'[e].state = deletions[e].state
    <3>1. deletions \in [Confirmations -> DeletionRow] /\ d \in Confirmations
      <4>1. calls[c].pc = "claim"
        BY <2>1
      <4> QED
        BY <1>1, <1>2, <4>1 DEF RowsTyped
    <3>2. CASE deletions' = deletions
      BY <3>1, <3>2
    <3>3. CASE deletions' = [deletions EXCEPT ![d] = r]
      BY <2>2, <3>1, <3>3
    <3> QED
      BY <2>1, <3>2, <3>3
  <2>4. RowsQuiet
    BY <1>1, <2>1, <2>3 DEF RowsQuiet, RowsTyped, surroundings
  <2> QED
    BY <2>1, <2>4, GotoQuietly DEF Follows
<1>5. CASE AssertMaintenanceIdle(c)
  <2>1. /\ calls[c].pc = "assert" /\ UNCHANGED <<rows, surroundings>> /\ scenario' = scenario /\ objects' = objects
        /\ \E pc \in {"check", "retry", "ended"} : Goto(c, pc)
    BY <1>5 DEF AssertMaintenanceIdle, Throw
  <2> QED
    BY <1>1, <2>1, UnchangedIsQuiet, GotoQuietly DEF Follows
<1>6. CASE ClaimRetry(c)
  <2> DEFINE r == [deletions[d] EXCEPT !.state = "deleting", !.retry = y, !.owner = c, !.lapsed = FALSE]
             q == [retries[y] EXCEPT !.deletion = d]
             Row == [deletion : Confirmations \cup {Nobody}, response : States]
  <2>1. /\ calls[c].pc = "retry" /\ objects' = objects
        /\ \E pc \in {"check", "wait", "ended"} : Goto(c, pc)
        /\ UNCHANGED <<export, plans, surroundings, scenario>>
        /\ \/ deletions' = deletions /\ retries' = retries
           \/ /\ deletions[d].state = "failed"
              /\ deletions' = [deletions EXCEPT ![d] = r] /\ retries' = [retries EXCEPT ![y] = q]
    BY <1>6 DEF ClaimRetry, Throw
  <2>2. r \in DeletionRow /\ r.state = "deleting"
    BY <1>1, <1>2, <2>1 DEF DeletionRow, States
  <2>3. retries \in [RetryKeys -> Row] /\ (y \in RetryKeys => q \in Row)
    BY <1>1, <1>2, <2>1, SMT DEF RowsTyped
  <2> HIDE DEF r, q, Row
  <2>4. retries' \in [RetryKeys -> Row]
    BY <2>1, <2>3
  <2>5. /\ deletions' \in [Confirmations -> DeletionRow]
        /\ \A e \in Confirmations : \/ deletions'[e] = deletions[e]
                                    \/ deletions'[e].state = "deleting" /\ deletions[e].state = "failed"
    BY <1>1, <1>2, <2>1, <2>2, SMT DEF RowsTyped
  <2>6. RowsQuiet
    <3>1. RowsTyped'
      BY <1>1, <2>1, <2>4, <2>5 DEF RowsTyped, surroundings, Row
    <3> QED
      BY <2>1, <2>5, <3>1 DEF RowsQuiet
  <2> QED
    BY <2>1, <2>6, GotoQuietly DEF Follows
<1> QED
  BY <1>3, <1>4, <1>5, <1>6

(* The loops of executeDeletion. *)
LEMMA LoopsPreserve ==
  ASSUME ExportInvariant, NEW c \in Calls,
         \/ CheckObject(c) \/ RenewBeforeDelete(c) \/ DeleteObject(c)
         \/ VerifyAbsence(c) \/ RenewTerminalLease(c)
  PROVE  ExportInvariant'
<1>1. scenario \in Scenario /\ calls[c].at \in Package
  BY DEF ExportInvariant, ExportTypeOK, Call
<1>2. Key(c) = calls[c].at
  BY <1>1 DEF Key, ordered
<1>3. CASE CheckObject(c)
  <2>1. CASE Renewed(c) /\ Key(c) \notin objects
    <3>1. objects' = objects \ {calls[c].at}
      BY <1>2, <1>3, <2>1 DEF CheckObject
    <3> QED
      BY <1>3, <2>1, <3>1, SweepStep DEF CheckObject
  <2>2. CASE ~(Renewed(c) /\ Key(c) \notin objects)
    <3>1. /\ calls[c].pc = "check" /\ UNCHANGED <<rows, surroundings>> /\ scenario' = scenario
          /\ objects' = objects /\ \E pc \in {"wait", "remove"} : Goto(c, pc)
      BY <1>3, <2>2 DEF CheckObject
    <3> QED
      BY <1>1, <3>1, UnchangedIsQuiet, GotoQuietly DEF Follows
  <2> QED
    BY <2>1, <2>2
<1>4. CASE RenewBeforeDelete(c)
  <2>1. /\ calls[c].pc = "remove" /\ UNCHANGED <<rows, surroundings>> /\ scenario' = scenario
        /\ objects' = objects /\ \E pc \in {"wait", "send"} : Goto(c, pc)
    BY <1>4 DEF RenewBeforeDelete
  <2> QED
    BY <1>1, <2>1, UnchangedIsQuiet, GotoQuietly DEF Follows
<1>5. CASE DeleteObject(c)
  BY <1>2, <1>5, SweepStep DEF DeleteObject
<1>6. CASE VerifyAbsence(c)
  <2>1. CASE Renewed(c) /\ calls[c].at \notin objects
    <3>1. /\ calls[c].pc = "verify" /\ Advance(c, "verify", "terminal")
          /\ UNCHANGED <<rows, surroundings>> /\ scenario' = scenario /\ objects' = objects
      BY <1>6, <2>1 DEF VerifyAbsence
    <3>2. /\ calls' \in [Calls -> Call]
          /\ \A e \in Calls : e # c => calls'[e] = calls[e]
          /\ calls'[c].deletion = calls[c].deletion
          /\ calls'[c].pc \in {"verify", "terminal"}
      BY <3>1, AdvanceMoves DEF ExportInvariant
    <3>3. RowsQuiet
      BY <1>1, <3>1, UnchangedIsQuiet
    <3>4. ExportTypeOK'
      BY <3>1, <3>2, <3>3 DEF ExportInvariant, ExportTypeOK, RowsQuiet, RowsTyped
    <3>5. Named' /\ AtFirst' /\ SweptInOrder'
      BY <3>1, <3>2 DEF ExportInvariant, Named, AtFirst, SweptInOrder
    <3>6. ClaimedIsHidden' /\ ManifestGoesLast' /\ DeletedIsGone' /\ PartialPackageIsHidden'
      BY <3>1, <3>2 DEF ExportInvariant, ClaimedIsHidden, ManifestGoesLast, DeletedIsGone,
           PartialPackageIsHidden, Manifest, Package, rows
    <3> QED
      BY <3>4, <3>5, <3>6 DEF ExportInvariant
  <2>2. CASE ~(Renewed(c) /\ calls[c].at \notin objects)
    <3>1. /\ calls[c].pc = "verify" /\ UNCHANGED <<rows, surroundings>> /\ scenario' = scenario
          /\ objects' = objects /\ \E pc \in {"wait", "failing"} : Goto(c, pc)
      BY <1>6, <2>2 DEF VerifyAbsence
    <3> QED
      BY <1>1, <3>1, UnchangedIsQuiet, GotoQuietly DEF Follows
  <2> QED
    BY <2>1, <2>2
<1>7. CASE RenewTerminalLease(c)
  <2>1. /\ UNCHANGED <<rows, surroundings>> /\ scenario' = scenario /\ objects' = objects
        /\ \/ calls[c].pc = "terminal" /\ \E pc \in {"wait", "commit"} : Goto(c, pc)
           \/ calls[c].pc = "failing" /\ \E pc \in {"wait", "fail"} : Goto(c, pc)
    BY <1>7 DEF RenewTerminalLease
  <2> QED
    BY <1>1, <2>1, UnchangedIsQuiet, GotoQuietly DEF Follows
<1> QED
  BY <1>3, <1>4, <1>5, <1>6, <1>7

(* A delete that throws may have removed the object all the same. *)
LEMMA FailuresPreserve ==
  ASSUME ExportInvariant, NEW c \in Calls, BucketFails(c) \/ Die(c)
  PROVE  ExportInvariant'
<1>1. /\ scenario' \in Scenario /\ UNCHANGED <<rows, surroundings>>
      /\ calls \in [Calls -> Call] /\ calls[c] \in Call /\ calls[c].at \in 1 .. ObjectCount
  BY TroubleTyped DEF ExportInvariant, ExportTypeOK, BucketFails, Die, Call, Package
<1>2. RowsQuiet
  BY <1>1, UnchangedIsQuiet
<1>3. CASE Die(c)
  BY <1>2, <1>3, GotoQuietly DEF Die, Throw, Follows
<1>4. CASE BucketFails(c) /\ objects' = objects
  <2>1. Goto(c, "failing") /\ calls[c].pc \in {"check", "verify", "send"}
    BY <1>4 DEF BucketFails
  <2> QED
    BY <1>2, <1>4, <2>1, GotoQuietly DEF Follows
<1>5. CASE BucketFails(c) /\ objects' # objects
  <2>1. /\ Goto(c, "failing") /\ calls[c].pc = "send" /\ objects' = objects \ {calls[c].at}
    <3>1. Key(c) = calls[c].at
      BY <1>1 DEF Key, ordered, Package
    <3> QED
      BY <1>5, <3>1 DEF BucketFails
  <2>2. Moved(c, "failing")
    <3>1. [calls[c] EXCEPT !.pc = "failing"] \in Call
      BY <1>1 DEF Call
    <3> QED
      BY <1>1, <2>1, <3>1, GotoMoves
  <2>3. /\ objects \subseteq 1 .. ObjectCount /\ \A k \in objects : k >= calls[c].at
    BY <2>1 DEF ExportInvariant, ExportTypeOK, SweptInOrder, Package
  <2>4. ManifestGoesLast'
    <3>1. calls[c].at = ObjectCount => objects' = {}
      BY <1>1, <2>1, <2>3, ExportAssumption, SMT
    <3> QED
      BY <1>1, <2>1, <2>3, <3>1, ExportAssumption DEF ExportInvariant, ManifestGoesLast, Manifest
  <2>5. ExportTypeOK'
    BY <1>2, <2>1, <2>2 DEF ExportInvariant, ExportTypeOK, RowsQuiet, RowsTyped, Moved
  <2>6. Named' /\ AtFirst' /\ SweptInOrder'
    BY <2>1, <2>2 DEF ExportInvariant, Named, AtFirst, SweptInOrder, Moved
  <2>7. export' = export /\ deletions' = deletions /\ export.state # "available"
    BY <1>1, <2>1 DEF ExportInvariant, rows, ClaimedIsHidden
  <2>8. ClaimedIsHidden' /\ DeletedIsGone' /\ PartialPackageIsHidden'
    BY <2>1, <2>2, <2>7 DEF ExportInvariant, ClaimedIsHidden, DeletedIsGone, PartialPackageIsHidden, Moved
  <2> QED
    BY <2>4, <2>5, <2>6, <2>8 DEF ExportInvariant
<1> QED
  BY <1>3, <1>4, <1>5

(* The end of an execution: its rows settle, or it waits for them. *)
LEMMA EndingsPreserve ==
  ASSUME ExportInvariant, NEW c \in Calls,
         CompleteDeletion(c) \/ FailDeletion(c) \/ WaitForDeletionResponse(c)
  PROVE  ExportInvariant'
<1> DEFINE d == calls[c].deletion
           y == calls[c].retry
           Receipts == [RetryKeys -> [deletion : Confirmations \cup {Nobody}, response : States]]
<1>1. /\ RowsTyped /\ calls \in [Calls -> Call] /\ calls[c] \in Call
      /\ y \in RetryKeys \cup {Nobody} /\ scenario \in Scenario
  BY TypeSplits DEF ExportInvariant, ExportTypeOK, Call
<1>2. calls[c].pc # "new" => /\ d \in Confirmations /\ deletions[d] \in DeletionRow
                             /\ deletions[d].state \in States /\ Response(d, y) \in States
  BY <1>1, ResponseTyped DEF ExportInvariant, Named
<1>3. CASE CompleteDeletion(c) /\ Owns(c)
  <2>1. /\ calls[c].pc = "commit" /\ Settle(c, "deleted") /\ export' = [export EXCEPT !.state = "deleted"]
        /\ UNCHANGED <<plans, surroundings, objects, scenario>>
    BY <1>3 DEF CompleteDeletion
  <2>2. /\ Moved(c, "ended") /\ deletions' \in [Confirmations -> DeletionRow] /\ retries' \in Receipts
        /\ deletions[d].state = "deleting" /\ deletions'[d].state = "deleted"
        /\ \A e \in Confirmations : e # d => deletions'[e] = deletions[e]
    BY <1>3, <2>1, SettleMoves
  <2>3. export' \in [state : {"available", "deleting", "deleted"}, operation : Confirmations \cup {Nobody}]
        /\ export'.state = "deleted"
    BY <1>1, <2>1 DEF RowsTyped
  <2>4. ExportTypeOK'
    BY <1>1, <2>1, <2>2, <2>3 DEF ExportInvariant, ExportTypeOK, RowsTyped, Moved, surroundings
  <2>5. objects = {}
    BY <2>1 DEF ExportInvariant, SweptInOrder
  <2>6. Named' /\ AtFirst' /\ SweptInOrder'
    BY <2>1, <2>2 DEF ExportInvariant, Named, AtFirst, SweptInOrder, Moved
  <2>7. ManifestGoesLast' /\ DeletedIsGone' /\ ClaimedIsHidden' /\ PartialPackageIsHidden'
    BY <2>1, <2>3, <2>5 DEF ManifestGoesLast, DeletedIsGone, ClaimedIsHidden, PartialPackageIsHidden
  <2> QED
    BY <2>4, <2>6, <2>7 DEF ExportInvariant
<1>4. CASE CompleteDeletion(c) /\ ~Owns(c)
  <2>1. /\ calls[c].pc = "commit" /\ Goto(c, "failing") /\ objects' = objects /\ scenario' = scenario
        /\ UNCHANGED <<rows, surroundings>>
    BY <1>4 DEF CompleteDeletion, rows
  <2> QED
    BY <1>1, <2>1, UnchangedIsQuiet, GotoQuietly DEF Follows
<1>5. CASE FailDeletion(c) /\ Owns(c)
  <2>1. /\ calls[c].pc = "fail" /\ Settle(c, "failed")
        /\ UNCHANGED <<export, plans, surroundings, objects, scenario>>
    BY <1>5 DEF FailDeletion
  <2>2. /\ Moved(c, "ended") /\ deletions' \in [Confirmations -> DeletionRow] /\ retries' \in Receipts
        /\ deletions[d].state = "deleting" /\ deletions'[d].state = "failed"
        /\ \A e \in Confirmations : e # d => deletions'[e] = deletions[e]
    BY <1>5, <2>1, SettleMoves
  <2>3. RowsQuiet
    BY <1>1, <2>1, <2>2 DEF RowsQuiet, RowsTyped, surroundings
  <2> QED
    BY <2>1, <2>2, <2>3, QuietStep DEF Follows
<1>6. CASE FailDeletion(c) /\ ~Owns(c)
  <2>1. /\ calls[c].pc = "fail" /\ (Answer(c, Response(d, y)) \/ Goto(c, "ended"))
        /\ UNCHANGED <<rows, surroundings>> /\ objects' = objects /\ scenario' = scenario
    BY <1>6 DEF FailDeletion, Throw, rows
  <2>2. RowsQuiet
    BY <1>1, <2>1, UnchangedIsQuiet
  <2> QED
    BY <1>1, <1>2, <2>1, <2>2, AnswerMoves, GotoQuietly, QuietStep DEF Follows
<1>7. CASE WaitForDeletionResponse(c) /\ Response(d, y) # "none"
  <2>1. /\ calls[c].pc = "wait" /\ Answer(c, Response(d, y)) /\ UNCHANGED <<rows, surroundings>>
        /\ objects' = objects /\ scenario' = scenario
    BY <1>7 DEF WaitForDeletionResponse, rows
  <2> QED
    BY <1>1, <1>2, <2>1, UnchangedIsQuiet, AnswerMoves, QuietStep DEF Follows
<1>8. CASE WaitForDeletionResponse(c) /\ Response(d, y) = "none" /\ Fenced
  <2>1. /\ calls[c].pc = "wait" /\ Goto(c, "ended") /\ UNCHANGED <<rows, surroundings>>
        /\ objects' = objects /\ scenario' = scenario
    BY <1>8 DEF WaitForDeletionResponse, Throw, rows
  <2> QED
    BY <1>1, <2>1, UnchangedIsQuiet, GotoQuietly DEF Follows
<1>9. CASE WaitForDeletionResponse(c) /\ Response(d, y) = "none" /\ ~Fenced
  <2> DEFINE r == [deletions[d] EXCEPT !.response = deletions[d].state]
  <2>1. /\ calls[c].pc = "wait" /\ Answer(c, deletions[d].state)
        /\ UNCHANGED <<export, plans, surroundings, objects, scenario>>
        /\ \/ retries' = retries /\ deletions' = [deletions EXCEPT ![d] = r]
           \/ /\ y # Nobody /\ deletions' = deletions
              /\ retries' = [retries EXCEPT ![y] = [@ EXCEPT !.response = deletions[d].state]]
    BY <1>9 DEF WaitForDeletionResponse
  <2>2. Moved(c, "ended")
    BY <1>1, <1>2, <2>1, AnswerMoves
  <2>3. r \in DeletionRow /\ r.state = deletions[d].state
    BY <1>2, <2>1 DEF DeletionRow
  <2> HIDE DEF r
  <2>4. /\ deletions' \in [Confirmations -> DeletionRow]
        /\ \A e \in Confirmations : deletions'[e].state = deletions[e].state
    BY <1>1, <2>1, <2>3, SMT DEF RowsTyped
  <2>5. retries' \in Receipts
    <3>1. CASE retries' = retries
      BY <1>1, <3>1 DEF RowsTyped
    <3>2. CASE retries' # retries
      BY <1>1, <1>2, <2>1, <3>2, ReceiptUpdate
    <3> QED
      BY <3>1, <3>2
  <2>6. RowsQuiet
    BY <1>1, <2>1, <2>4, <2>5 DEF RowsQuiet, RowsTyped, surroundings
  <2> QED
    BY <2>1, <2>2, <2>6, QuietStep DEF Follows
<1> QED
  BY <1>3, <1>4, <1>5, <1>6, <1>7, <1>8, <1>9

(* Every step of the deletion and of its surroundings keeps the invariant. *)
LEMMA StepPreserves ==
  ASSUME ExportInvariant, [ExportNext]_exportVars PROVE ExportInvariant'
<1>1. CASE UNCHANGED exportVars
  <2>1. /\ UNCHANGED <<rows, surroundings>> /\ scenario' = scenario /\ scenario \in Scenario
        /\ objects' = objects /\ calls' = calls
    BY <1>1 DEF exportVars, ExportInvariant, ExportTypeOK
  <2> QED
    BY <2>1, UnchangedIsQuiet, RowsStep
<1>2. CASE ExportNext
  BY <1>2, SurroundingsPreserve, RequestsPreserve, InsertPreserves, ClaimsPreserve, LoopsPreserve,
     FailuresPreserve, EndingsPreserve DEF ExportNext, Execute
<1> QED
  BY <1>1, <1>2

(* The invariant holds in every state of the deletion. *)
THEOREM ExportIsInvariant == ExportSpec => []ExportInvariant
<1> QED
  BY InitEstablishes, StepPreserves, PTL DEF ExportSpec

(* A deletion reported deleted left no object of the package, whatever calls *)
(* took over, failed or died.  (executeDeletion)                             *)
THEOREM DeletionIsComplete == ExportSpec => []DeletedIsGone
<1>1. ExportInvariant => DeletedIsGone
  BY DEF ExportInvariant
<1> QED
  BY <1>1, ExportIsInvariant, PTL

(* The manifest is there as long as any component of the package is.         *)
(* (executeDeletion: the manifest is the last of the ordered keys)           *)
THEOREM ManifestIsRemovedLast == ExportSpec => []ManifestGoesLast
<1>1. ExportInvariant => ManifestGoesLast
  BY DEF ExportInvariant
<1> QED
  BY <1>1, ExportIsInvariant, PTL

(* A package that lost an object is never served again.                      *)
(* (insertCatalogueExportDeletionStatement, failCatalogueExportDeletion)     *)
THEOREM PartialIsNeverServed == ExportSpec => []PartialPackageIsHidden
<1>1. ExportInvariant => PartialPackageIsHidden
  BY DEF ExportInvariant
<1> QED
  BY <1>1, ExportIsInvariant, PTL

-----------------------------------------------------------------------------
(* Receipts.  A call that has answered has ended; one that reads the row of  *)
(* a deletion it does not own is a retry; and what a call of a confirmation  *)
(* answered is the response the deletion's row retains.                      *)
CallReceipt(c) ==
  /\ calls[c].pc # "ended" => calls[c].answer = "none"
  /\ calls[c].pc \in {"row", "assert", "retry"} => calls[c].retry # Nobody
  /\ calls[c].retry = Nobody /\ calls[c].answer # "none"
       => deletions[calls[c].deletion].response = calls[c].answer

ReceiptInvariant ==
  /\ \A c \in Calls : CallReceipt(c)
  /\ UnansweredRetryOwnsDeletion

(* A retained response is never replaced. *)
ResponsesKept ==
  \A d \in Confirmations :
    deletions[d].response # "none" => deletions'[d].response = deletions[d].response

(* What going on, ending or answering leaves of a call. *)
OnlyCall(c) == \A e \in Calls : e # c => calls'[e] = calls[e]
Kept(c) ==
  /\ OnlyCall(c)
  /\ calls'[c].deletion = calls[c].deletion /\ calls'[c].retry = calls[c].retry

LEMMA GotoKeeps ==
  ASSUME ExportInvariant, NEW c \in Calls, NEW pc, Goto(c, pc)
  PROVE  Kept(c) /\ calls'[c].pc = pc /\ calls'[c].answer = calls[c].answer
<1>1. calls \in [Calls -> Call] /\ calls[c] \in Call
  BY DEF ExportInvariant, ExportTypeOK
<1> QED
  BY <1>1 DEF Goto, Kept, OnlyCall, Call

LEMMA AnswerKeeps ==
  ASSUME ExportInvariant, NEW c \in Calls, NEW a, Answer(c, a)
  PROVE  Kept(c) /\ calls'[c].pc = "ended" /\ calls'[c].answer = a
<1>1. calls \in [Calls -> Call] /\ calls[c] \in Call
  BY DEF ExportInvariant, ExportTypeOK
<1>2. calls' = [calls EXCEPT ![c] = [calls[c] EXCEPT !.pc = "ended", !.answer = a]]
  BY DEF Answer
<1> QED
  BY <1>1, <1>2 DEF Kept, OnlyCall, Call

LEMMA AdvanceKeeps ==
  ASSUME ExportInvariant, NEW c \in Calls, NEW loop, NEW then, Advance(c, loop, then)
  PROVE  Kept(c) /\ calls'[c].pc \in {loop, then} /\ calls'[c].answer = calls[c].answer
<1>1. calls \in [Calls -> Call] /\ calls[c] \in Call
  BY DEF ExportInvariant, ExportTypeOK
<1>0. \/ calls' = [calls EXCEPT ![c] = [calls[c] EXCEPT !.pc = then, !.at = 1]]
      \/ calls' = [calls EXCEPT ![c] = [calls[c] EXCEPT !.pc = loop, !.at = calls[c].at + 1]]
  BY DEF Advance
<1>2. PICK i, pc : /\ calls' = [calls EXCEPT ![c] = [calls[c] EXCEPT !.pc = pc, !.at = i]]
                   /\ pc \in {loop, then}
  BY <1>0
<1> DEFINE moved == [calls[c] EXCEPT !.pc = pc, !.at = i]
<1>3. /\ moved.pc = pc /\ moved.answer = calls[c].answer
      /\ moved.deletion = calls[c].deletion /\ moved.retry = calls[c].retry
  BY <1>1 DEF Call
<1>4. calls' = [calls EXCEPT ![c] = moved]
  BY <1>2
<1> HIDE DEF moved
<1> QED
  BY <1>1, <1>2, <1>3, <1>4 DEF Kept, OnlyCall

(* One call moves and has its receipt, and no retained response changes. *)
LEMMA ReceiptStep ==
  ASSUME ExportInvariant, ReceiptInvariant, NEW c \in Calls, OnlyCall(c), CallReceipt(c)',
         ResponsesKept, UnansweredRetryOwnsDeletion'
  PROVE  ReceiptInvariant'
<1>1. ASSUME NEW e \in Calls, e # c PROVE CallReceipt(e)'
  <2>1. calls'[e] = calls[e] /\ CallReceipt(e)
    BY <1>1 DEF OnlyCall, ReceiptInvariant
  <2>2. calls[e].answer # "none" => calls[e].deletion \in Confirmations
    BY <2>1 DEF CallReceipt, ExportInvariant, Named
  <2> QED
    BY <2>1, <2>2 DEF CallReceipt, ResponsesKept
<1> QED
  BY <1>1 DEF ReceiptInvariant

(* Deletions keep their state and their retry, and receipts only come. *)
LEMMA OwnersKept ==
  ASSUME ExportInvariant, ReceiptInvariant,
         \A y \in RetryKeys : /\ retries'[y].deletion = retries[y].deletion
                              /\ retries'[y].response = "none" => retries[y].response = "none",
         \A d \in Confirmations : /\ deletions'[d].state = deletions[d].state
                                  /\ deletions'[d].retry = deletions[d].retry
  PROVE  UnansweredRetryOwnsDeletion'
<1>1. \A y \in RetryKeys : retries[y].deletion \in Confirmations \cup {Nobody}
  BY DEF ExportInvariant, ExportTypeOK
<1> QED
  BY <1>1, SMT DEF ReceiptInvariant, UnansweredRetryOwnsDeletion

(* A call goes on without an answer, and no row changes what it retains. *)
LEMMA GoingOn ==
  ASSUME ExportInvariant, ReceiptInvariant, NEW c \in Calls, calls[c].pc # "ended", Kept(c),
         calls'[c].answer = calls[c].answer,
         calls'[c].pc \in {"row", "assert", "retry"} => calls[c].retry # Nobody,
         ResponsesKept, UnansweredRetryOwnsDeletion'
  PROVE  ReceiptInvariant'
<1>1. calls[c].answer = "none"
  BY DEF ReceiptInvariant, CallReceipt
<1>2. CallReceipt(c)'
  BY <1>1 DEF CallReceipt, Kept
<1> QED
  BY <1>2, ReceiptStep DEF Kept

(* Rows that stay retain what they retained. *)
LEMMA SameRows ==
  ASSUME ExportInvariant, ReceiptInvariant, UNCHANGED <<deletions, retries>>
  PROVE  ResponsesKept /\ UnansweredRetryOwnsDeletion'
  BY OwnersKept DEF ResponsesKept

(* A deletion whose row keeps its state, its retry and its response. *)
LEMMA LeaseChange ==
  ASSUME ExportInvariant, ReceiptInvariant, NEW d \in Confirmations, retries' = retries,
         NEW r, deletions' = [deletions EXCEPT ![d] = r],
         r.state = deletions[d].state, r.retry = deletions[d].retry, r.response = deletions[d].response
  PROVE  ResponsesKept /\ UnansweredRetryOwnsDeletion'
<1>1. \A e \in Confirmations : /\ deletions'[e].state = deletions[e].state
                               /\ deletions'[e].retry = deletions[e].retry
                               /\ deletions'[e].response = deletions[e].response
  BY DEF ExportInvariant, ExportTypeOK
<1> QED
  BY <1>1, OwnersKept DEF ResponsesKept

(* Steps of no call. *)
LEMMA SurroundingsReceipts ==
  ASSUME ExportInvariant, ReceiptInvariant,
         \/ \E d \in Confirmations : PrepareCatalogueExportDeletion(d) \/ ExpirePlan(d) \/ LapseLease(d)
         \/ Publish \/ ChangeMaintenance \/ FenceRows \/ UNCHANGED exportVars
  PROVE  ReceiptInvariant'
<1>1. calls' = calls
  BY DEF PrepareCatalogueExportDeletion, ExpirePlan, LapseLease, Publish, ChangeMaintenance, FenceRows, exportVars
<1>2. ResponsesKept /\ UnansweredRetryOwnsDeletion'
  <2>1. CASE UNCHANGED <<deletions, retries>>
    BY <2>1, SameRows
  <2>2. ASSUME NEW d \in Confirmations, LapseLease(d)
        PROVE  ResponsesKept /\ UnansweredRetryOwnsDeletion'
    <3> DEFINE r == [deletions[d] EXCEPT !.lapsed = TRUE]
    <3>1. deletions[d] \in DeletionRow
      BY DEF ExportInvariant, ExportTypeOK
    <3>2. r.state = deletions[d].state /\ r.retry = deletions[d].retry /\ r.response = deletions[d].response
      BY <3>1 DEF DeletionRow
    <3>3. deletions' = [deletions EXCEPT ![d] = r] /\ retries' = retries
      BY <2>2 DEF LapseLease
    <3> HIDE DEF r
    <3> QED
      BY <3>2, <3>3, LeaseChange
  <2> QED
    BY <2>1, <2>2 DEF PrepareCatalogueExportDeletion, ExpirePlan, Publish, ChangeMaintenance, FenceRows,
       exportVars, rows
<1>3. ASSUME NEW e \in Calls PROVE CallReceipt(e)'
  <2>1. CallReceipt(e)
    BY DEF ReceiptInvariant
  <2>2. calls[e].answer # "none" => calls[e].deletion \in Confirmations
    BY <2>1 DEF CallReceipt, ExportInvariant, Named
  <2> QED
    BY <1>1, <1>2, <2>1, <2>2 DEF CallReceipt, ResponsesKept
<1> QED
  BY <1>2, <1>3 DEF ReceiptInvariant

(* A call that begins with an answer gives the one its rows retain. *)
LEMMA RequestReceipts ==
  ASSUME ExportInvariant, ReceiptInvariant, NEW c \in Calls, NEW d \in Confirmations,
         \/ ConfirmCatalogueExportDeletion(c, d)
         \/ \E y \in RetryKeys : RetryCatalogueExportDeletion(c, d, y)
  PROVE  ReceiptInvariant'
<1>1. /\ deletions[d].response \in States /\ "none" \in States
      /\ \A y \in RetryKeys : retries[y].response \in States
  BY DEF ExportInvariant, ExportTypeOK, DeletionRow, States
<1>2. ExportTypeOK /\ Nobody \notin RetryKeys
  BY ExportAssumption DEF ExportInvariant
<1>3. UNCHANGED <<deletions, retries>>
  BY DEF ConfirmCatalogueExportDeletion, RetryCatalogueExportDeletion, rows
<1>4. PICK y \in RetryKeys \cup {Nobody}, pc \in {"ended", "claim", "insert", "row"}, a \in States :
        /\ Begin(c, d, y, pc, a)
        /\ pc # "ended" => a = "none"
        /\ pc = "row" => y # Nobody
        /\ y = Nobody /\ a # "none" => deletions[d].response = a
  BY <1>1, <1>2 DEF ConfirmCatalogueExportDeletion, RetryCatalogueExportDeletion
<1>5. /\ \A e \in Calls : e # c => calls'[e] = calls[e]
      /\ calls'[c].pc = pc /\ calls'[c].deletion = d /\ calls'[c].retry = y /\ calls'[c].answer = a
  BY <1>2, <1>4, BeginMoves, SMT
<1>6. OnlyCall(c) /\ CallReceipt(c)'
  BY <1>3, <1>4, <1>5 DEF OnlyCall, CallReceipt
<1> QED
  BY <1>3, <1>6, SameRows, ReceiptStep

(* Calls that only go on: the loops, and what fails in them. *)
LEMMA LoopReceipts ==
  ASSUME ExportInvariant, ReceiptInvariant, NEW c \in Calls,
         \/ CheckObject(c) \/ RenewBeforeDelete(c) \/ DeleteObject(c) \/ VerifyAbsence(c)
         \/ RenewTerminalLease(c) \/ AssertMaintenanceIdle(c) \/ BucketFails(c) \/ Die(c)
  PROVE  ReceiptInvariant'
<1> DEFINE Onward == {"check", "remove", "send", "verify", "terminal", "commit", "failing", "fail",
                      "wait", "ended"}
<1>1. /\ calls[c].pc # "ended" /\ UNCHANGED <<deletions, retries>>
      /\ \/ \E pc \in Onward : Goto(c, pc)
         \/ \E loop \in {"check", "verify"}, then \in {"verify", "terminal"} : Advance(c, loop, then)
         \/ calls[c].pc = "assert" /\ Goto(c, "retry")
  BY DEF CheckObject, RenewBeforeDelete, DeleteObject, VerifyAbsence, RenewTerminalLease,
     AssertMaintenanceIdle, BucketFails, Die, Throw, rows
<1>2. calls[c].pc = "assert" => calls[c].retry # Nobody
  BY DEF ReceiptInvariant, CallReceipt
<1>3. /\ Kept(c) /\ calls'[c].answer = calls[c].answer
      /\ calls'[c].pc \in {"row", "assert", "retry"} => calls[c].retry # Nobody
  BY <1>1, <1>2, GotoKeeps, AdvanceKeeps, SMT
<1> QED
  BY <1>1, <1>3, SameRows, GoingOn

(* Claiming a deletion, its lease, or a retry of it. *)
LEMMA ClaimReceipts ==
  ASSUME ExportInvariant, ReceiptInvariant, NEW c \in Calls,
         InsertDeletion(c) \/ ClaimDeletionExecutionLease(c) \/ ClaimRetry(c)
  PROVE  ReceiptInvariant'
<1> DEFINE d == calls[c].deletion
           y == calls[c].retry
<1>0. calls[c].pc \in {"insert", "claim", "retry"}
  BY DEF InsertDeletion, ClaimDeletionExecutionLease, ClaimRetry
<1>1. /\ d \in Confirmations /\ deletions[d] \in DeletionRow /\ deletions \in [Confirmations -> DeletionRow]
      /\ \A z \in RetryKeys : retries[z].deletion \in Confirmations \cup {Nobody}
  BY <1>0 DEF ExportInvariant, ExportTypeOK, Named
<1>2. \E pc \in {"check", "wait", "ended", "assert"} : Goto(c, pc) /\ (pc = "assert" => y # Nobody)
  BY DEF InsertDeletion, ClaimDeletionExecutionLease, ClaimRetry, Throw
<1>3. /\ Kept(c) /\ calls'[c].answer = calls[c].answer
      /\ calls'[c].pc \in {"row", "assert", "retry"} => calls[c].retry # Nobody
  BY <1>2, GotoKeeps
<1>4. CASE UNCHANGED <<deletions, retries>>
  BY <1>0, <1>3, <1>4, SameRows, GoingOn
<1>5. CASE ClaimDeletionExecutionLease(c) /\ deletions' # deletions
  <2> DEFINE r == [deletions[d] EXCEPT !.owner = c, !.lapsed = FALSE]
  <2>1. r.state = deletions[d].state /\ r.retry = deletions[d].retry /\ r.response = deletions[d].response
    BY <1>1 DEF DeletionRow
  <2>2. deletions' = [deletions EXCEPT ![d] = r] /\ retries' = retries
    BY <1>5 DEF ClaimDeletionExecutionLease
  <2> HIDE DEF r
  <2> QED
    BY <1>0, <1>1, <1>3, <2>1, <2>2, LeaseChange, GoingOn
<1>6. CASE InsertDeletion(c) /\ deletions' # deletions
  <2> DEFINE r == [deletions[d] EXCEPT !.state = "deleting", !.owner = c]
  <2>1. r.response = deletions[d].response
    BY <1>1 DEF DeletionRow
  <2>2. deletions[d].state = "none" /\ deletions' = [deletions EXCEPT ![d] = r] /\ retries' = retries
    BY <1>6 DEF InsertDeletion, Insertable
  <2> HIDE DEF r
  <2>3. /\ \A e \in Confirmations : e # d => deletions'[e] = deletions[e]
        /\ deletions'[d].response = deletions[d].response
    BY <1>1, <2>1, <2>2
  <2>4. ResponsesKept /\ UnansweredRetryOwnsDeletion'
    BY <1>1, <2>2, <2>3 DEF ResponsesKept, ReceiptInvariant, UnansweredRetryOwnsDeletion
  <2> QED
    BY <1>0, <1>3, <2>4, GoingOn
<1>7. CASE ClaimRetry(c) /\ ~UNCHANGED <<deletions, retries>>
  <2> DEFINE r == [deletions[d] EXCEPT !.state = "deleting", !.retry = y, !.owner = c, !.lapsed = FALSE]
             q == [retries[y] EXCEPT !.deletion = d]
  <2>1. y \in RetryKeys
    BY <1>7 DEF ExportInvariant, ExportTypeOK, Call, ReceiptInvariant, CallReceipt, ClaimRetry
  <2>2. r.state = "deleting" /\ r.retry = y /\ r.response = deletions[d].response
    BY <1>1 DEF DeletionRow
  <2>3. /\ deletions[d].state = "failed" /\ deletions' = [deletions EXCEPT ![d] = r]
        /\ retries' = [retries EXCEPT ![y] = q]
    BY <1>7 DEF ClaimRetry
  <2>4. q.deletion = d
    BY <2>1 DEF ExportInvariant, ExportTypeOK
  <2> HIDE DEF r, q
  <2>5. /\ \A e \in Confirmations : e # d => deletions'[e] = deletions[e]
        /\ deletions'[d].state = "deleting" /\ deletions'[d].retry = y
        /\ deletions'[d].response = deletions[d].response
        /\ \A z \in RetryKeys : z # y => retries'[z] = retries[z]
        /\ retries'[y].deletion = d
    BY <1>1, <2>1, <2>2, <2>3, <2>4 DEF ExportInvariant, ExportTypeOK
  <2>6. ResponsesKept
    BY <2>5 DEF ResponsesKept
  <2>7. ASSUME NEW z \in RetryKeys, retries'[z].deletion # Nobody, retries'[z].response = "none"
        PROVE  deletions'[retries'[z].deletion].state = "deleting" /\ deletions'[retries'[z].deletion].retry = z
    <3>1. CASE z = y
      BY <2>5, <3>1
    <3>2. CASE z # y
      <4>1. retries'[z] = retries[z] /\ retries[z].deletion \in Confirmations
        BY <2>5, <2>7, <3>2, SMT DEF ExportInvariant, ExportTypeOK
      <4>2. /\ deletions[retries[z].deletion].state = "deleting"
            /\ deletions[retries[z].deletion].retry = z
        BY <2>7, <4>1 DEF ReceiptInvariant, UnansweredRetryOwnsDeletion
      <4>3. retries[z].deletion # d
        BY <2>3, <4>2
      <4> QED
        BY <2>5, <4>1, <4>2, <4>3
    <3> QED
      BY <3>1, <3>2
  <2>8. UnansweredRetryOwnsDeletion'
    BY <2>7 DEF UnansweredRetryOwnsDeletion
  <2> QED
    BY <1>0, <1>3, <2>6, <2>8, GoingOn
<1> QED
  BY <1>4, <1>5, <1>6, <1>7 DEF InsertDeletion, ClaimDeletionExecutionLease

(* A retry takes a receipt and its call answers. *)
LEMMA ReadReceipts ==
  ASSUME ExportInvariant, ReceiptInvariant, NEW c \in Calls, ReadDeletion(c)
  PROVE  ReceiptInvariant'
<1> DEFINE d == calls[c].deletion
           y == calls[c].retry
           a == Retained(retries[y].response, deletions[d].state)
<1>0. calls[c].pc = "row" /\ deletions' = deletions
  BY DEF ReadDeletion
<1>1. y # Nobody /\ y \in RetryKeys
  BY <1>0 DEF ExportInvariant, ExportTypeOK, Call, ReceiptInvariant, CallReceipt
<1>2. CASE retries' = retries /\ \E pc \in {"claim", "assert", "ended"} : Goto(c, pc)
  BY <1>0, <1>1, <1>2, GotoKeeps, SameRows, GoingOn
<1>3. CASE Answer(c, deletions[d].state) /\ retries' = [retries EXCEPT ![y] = [@ EXCEPT !.response = a]]
  <2>1. Kept(c) /\ CallReceipt(c)'
    BY <1>1, <1>3, AnswerKeeps DEF CallReceipt, Kept
  <2>2. \A z \in RetryKeys : /\ retries'[z].deletion = retries[z].deletion
                             /\ retries'[z].response = "none" => retries[z].response = "none"
    BY <1>1, <1>3 DEF ExportInvariant, ExportTypeOK, Retained
  <2>3. ResponsesKept /\ UnansweredRetryOwnsDeletion'
    BY <1>0, <2>2, OwnersKept DEF ResponsesKept
  <2> QED
    BY <2>1, <2>3, ReceiptStep DEF Kept
<1> QED
  BY <1>2, <1>3 DEF ReadDeletion

(* A settled deletion answers, and gives its retry a receipt. *)
LEMMA SettleReceipts ==
  ASSUME ExportInvariant, ReceiptInvariant, NEW c \in Calls, calls[c].pc \in {"commit", "fail"},
         NEW state \in {"deleted", "failed"}, Settle(c, state), Owns(c)
  PROVE  ReceiptInvariant'
<1> DEFINE d == calls[c].deletion
           y == calls[c].retry
           a == Retained(deletions[d].response, state)
           r == [deletions[d] EXCEPT !.state = state, !.response = a]
           q == [retries[y] EXCEPT !.response = Retained(retries[y].response, state)]
<1>1. /\ d \in Confirmations /\ deletions[d] \in DeletionRow /\ deletions \in [Confirmations -> DeletionRow]
      /\ \A z \in RetryKeys : retries[z].deletion \in Confirmations \cup {Nobody}
      /\ y \in RetryKeys \cup {Nobody} /\ Nobody \notin RetryKeys
      /\ retries \in [RetryKeys -> [deletion : Confirmations \cup {Nobody}, response : States]]
  BY ExportAssumption DEF ExportInvariant, ExportTypeOK, Named, Call
<1>2. deletions' = [deletions EXCEPT ![d] = r] /\ deletions[d].retry = y
  BY DEF Settle, Owns
<1>3. r.response = a /\ r.retry = deletions[d].retry
  BY <1>1 DEF DeletionRow
<1> HIDE DEF r
<1>4. /\ deletions'[d].response = a
      /\ \A e \in Confirmations : e # d => deletions'[e] = deletions[e]
  BY <1>1, <1>2, <1>3
<1>5. ResponsesKept
  BY <1>4 DEF ResponsesKept, Retained
<1>6. Kept(c) /\ calls'[c].pc = "ended" /\ calls'[c].answer = Retained(Response(d, y), state)
  BY AnswerKeeps DEF Settle
<1>7. CallReceipt(c)'
  BY <1>4, <1>6 DEF CallReceipt, Kept, Response
<1>8. /\ \A z \in RetryKeys : z # y => retries'[z] = retries[z]
      /\ y # Nobody => retries'[y].response # "none"
  <2>1. CASE y = Nobody
    BY <1>1, <2>1 DEF Settle
  <2>2. CASE y # Nobody
    <3>1. y \in RetryKeys /\ retries' = [retries EXCEPT ![y] = q]
      BY <1>1, <2>2 DEF Settle
    <3>2. q.response # "none"
      BY <1>1, <3>1 DEF Retained
    <3> HIDE DEF q
    <3> QED
      BY <1>1, <3>1, <3>2
  <2> QED
    BY <2>1, <2>2
<1>9. UnansweredRetryOwnsDeletion'
  BY <1>1, <1>2, <1>4, <1>8, SMT DEF ReceiptInvariant, UnansweredRetryOwnsDeletion
<1> QED
  BY <1>5, <1>6, <1>7, <1>9, ReceiptStep DEF Kept

(* The end of an execution. *)
LEMMA EndingReceipts ==
  ASSUME ExportInvariant, ReceiptInvariant, NEW c \in Calls,
         CompleteDeletion(c) \/ FailDeletion(c) \/ WaitForDeletionResponse(c)
  PROVE  ReceiptInvariant'
<1> DEFINE d == calls[c].deletion
           y == calls[c].retry
<1>0. calls[c].pc \in {"commit", "fail", "wait"}
  BY DEF CompleteDeletion, FailDeletion, WaitForDeletionResponse
<1>1. /\ d \in Confirmations /\ deletions[d] \in DeletionRow /\ deletions \in [Confirmations -> DeletionRow]
      /\ y \in RetryKeys \cup {Nobody}
      /\ retries \in [RetryKeys -> [deletion : Confirmations \cup {Nobody}, response : States]]
  BY <1>0 DEF ExportInvariant, ExportTypeOK, Named, Call
<1>2. CASE calls[c].pc \in {"commit", "fail"} /\ Owns(c) /\ \E state \in {"deleted", "failed"} : Settle(c, state)
  BY <1>2, SettleReceipts
<1>3. CASE UNCHANGED <<deletions, retries>> /\ \E pc \in {"failing", "ended"} : Goto(c, pc)
  BY <1>0, <1>3, GotoKeeps, SameRows, GoingOn
<1>4. CASE UNCHANGED <<deletions, retries>> /\ Answer(c, Response(d, y))
  <2>1. Kept(c) /\ CallReceipt(c)'
    BY <1>4, AnswerKeeps DEF CallReceipt, Kept, Response
  <2> QED
    BY <1>4, <2>1, SameRows, ReceiptStep DEF Kept
<1>5. CASE /\ Response(d, y) = "none" /\ y = Nobody /\ Answer(c, deletions[d].state) /\ retries' = retries
           /\ deletions' = [deletions EXCEPT ![d] = [@ EXCEPT !.response = deletions[d].state]]
  <2> DEFINE r == [deletions[d] EXCEPT !.response = deletions[d].state]
  <2>1. r.state = deletions[d].state /\ r.retry = deletions[d].retry /\ r.response = deletions[d].state
    BY <1>1 DEF DeletionRow
  <2>2. deletions' = [deletions EXCEPT ![d] = r]
    BY <1>5
  <2> HIDE DEF r
  <2>3. /\ \A e \in Confirmations :
             /\ deletions'[e].state = deletions[e].state
             /\ deletions'[e].retry = deletions[e].retry
             /\ e # d => deletions'[e] = deletions[e]
        /\ deletions'[d].response = deletions[d].state
    BY <1>1, <2>1, <2>2
  <2>4. ResponsesKept /\ UnansweredRetryOwnsDeletion'
    BY <1>5, <2>3, OwnersKept DEF ResponsesKept, Response
  <2>5. Kept(c) /\ CallReceipt(c)'
    BY <1>5, <2>3, AnswerKeeps DEF CallReceipt, Kept
  <2> QED
    BY <2>4, <2>5, ReceiptStep DEF Kept
<1>6. CASE /\ y # Nobody /\ Answer(c, deletions[d].state) /\ deletions' = deletions
           /\ Response(d, y) = "none"
           /\ retries' = [retries EXCEPT ![y] = [@ EXCEPT !.response = deletions[d].state]]
  <2>1. \A z \in RetryKeys : /\ retries'[z].deletion = retries[z].deletion
                             /\ retries'[z].response = "none" => retries[z].response = "none"
    BY <1>1, <1>6 DEF Response
  <2>2. ResponsesKept /\ UnansweredRetryOwnsDeletion'
    BY <1>6, <2>1, OwnersKept DEF ResponsesKept
  <2>3. Kept(c) /\ CallReceipt(c)'
    BY <1>6, AnswerKeeps DEF CallReceipt, Kept
  <2> QED
    BY <2>2, <2>3, ReceiptStep DEF Kept
<1> QED
  BY <1>2, <1>3, <1>4, <1>5, <1>6 DEF CompleteDeletion, FailDeletion, WaitForDeletionResponse, Throw

(* Receipts stay true to the rows, whatever calls take over, fail or die. *)
LEMMA ReceiptsHold == ExportSpec => []ReceiptInvariant
<1>1. ExportInit => ReceiptInvariant
  BY SMT DEF ExportInit, ReceiptInvariant, CallReceipt, UnansweredRetryOwnsDeletion
<1>2. ASSUME ExportInvariant, ReceiptInvariant, [ExportNext]_exportVars PROVE ReceiptInvariant'
  BY <1>2, SurroundingsReceipts, RequestReceipts, LoopReceipts, ClaimReceipts, ReadReceipts,
     EndingReceipts DEF ExportNext, Execute
<1> QED
  BY <1>1, <1>2, ExportIsInvariant, PTL DEF ExportSpec

(* Every answered call of a confirmation gave the same answer: the response  *)
(* its row retains, which no later execution, retry or failure replaces.     *)
(* (waitForDeletionResponse, completeCatalogueExportDeletion: COALESCE)      *)
THEOREM ConfirmationsAgree == ExportSpec => []ConfirmationIsReplayed
<1>1. ReceiptInvariant => ConfirmationIsReplayed
  BY DEF ReceiptInvariant, CallReceipt, ConfirmationIsReplayed
<1> QED
  BY <1>1, ReceiptsHold, PTL

(* A retry without a receipt owns a deletion that is still running, whatever *)
(* executions lapsed and were taken over.  (retryCatalogueExportDeletion)    *)
THEOREM UnansweredRetryGoesOn == ExportSpec => []UnansweredRetryOwnsDeletion
<1>1. ReceiptInvariant => UnansweredRetryOwnsDeletion
  BY DEF ReceiptInvariant
<1> QED
  BY <1>1, ReceiptsHold, PTL
=============================================================================
