--------------------------- MODULE GamePreparation ---------------------------
(***************************************************************************)
(* The preparation of one Supported Game's Catalogue Candidate: the rows   *)
(* reconciliation_operations, game_candidates, game_candidate_slots and    *)
(* the pin in game_candidate_predecessors, and the Workflows that write    *)
(* them.                                                                   *)
(*                                                                         *)
(* A preparation's id is a digest of its request, so it names one game for *)
(* ever (GameOf).  Its Workflow runs under the generation it was started   *)
(* with; a Workflow of an older generation may still be alive and may      *)
(* still try to write.  Every batch re-reads the rows it depends on, so a  *)
(* batch is one step, and a crash is simply the next step not happening.   *)
(***************************************************************************)
EXTENDS OperationState, Integers

CONSTANTS
  Games,           \* Supported Games
  Preparations,    \* preparation ids; a candidate has its preparation's id
  GameOf,          \* the game a preparation is for
  Contents,        \* what a candidate's semantic receipt can say
  Spine,           \* catrev_spine_000, the empty first revision
  None,            \* SQL NULL
  MaxGeneration,   \* bound: pauses and resumes per operation
  Perishable       \* bound: preparations whose deadline passes in this instance

ASSUME PreparationAssumption ==
  /\ GameOf \in [Preparations -> Games]
  /\ Spine \notin Preparations
  /\ None \notin Preparations \cup Games \cup Contents \cup {Spine}
  /\ MaxGeneration \in Nat
  /\ Perishable \subseteq Preparations

(* A revision is named after the publication that creates it, and a         *)
(* candidate has at most one publication, so it is named by its candidate.  *)
Revisions == Preparations \cup {Spine}

VARIABLES
  operation,    \* reconciliation_operations: state, generation
  candidate,    \* game_candidates, its pin and its semantic receipt
  slot,         \* game_candidate_slots: game -> preparation holding it
  head,         \* game_catalogue_heads: game -> revision
  accepted,     \* game_accepted_candidates: game -> candidate
  expired,      \* preparations whose seven-day deadline has passed
  workers       \* Workflow instances ever started: <<preparation, generation>>

preparationVars == <<operation, candidate, slot, expired, workers>>
headVars == <<head, accepted>>

OperationStates == {"absent", "preparing", "paused", "sealed", "failed", "abandoned"}
CandidateStates == OperationStates \cup {"published"}
Live == {"preparing", "paused", "sealed"}

OperationRows == [state : OperationStates, generation : Nat]
CandidateRows ==
  [state : CandidateStates, generation : Nat, expected : Revisions,
   predecessor : Preparations \cup {None}, content : Contents \cup {None}]

PreparationTypeOK ==
  /\ operation \in [Preparations -> OperationRows]
  /\ candidate \in [Preparations -> CandidateRows]
  /\ slot \in [Games -> Preparations \cup {None}]
  /\ head \in [Games -> Revisions]
  /\ accepted \in [Games -> Preparations \cup {None}]
  /\ expired \subseteq Preparations
  /\ workers \subseteq Preparations \X Nat

PreparationInit ==
  /\ operation = [p \in Preparations |-> [state |-> "absent", generation |-> 0]]
  /\ candidate = [p \in Preparations |->
       [state |-> "absent", generation |-> 0, expected |-> Spine,
        predecessor |-> None, content |-> None]]
  /\ slot = [g \in Games |-> None]
  /\ head = [g \in Games |-> Spine]
  /\ accepted = [g \in Games |-> None]
  /\ expired = {}
  /\ workers = {}

-----------------------------------------------------------------------------
(* Mutants: a candidate that does not follow an abandonment out of sealed,  *)
(* and one that follows even when published.                                *)
SynchronizedUnlessSealed(p, op) ==
  IF candidate[p].state \in {"preparing", "paused"}
  THEN [candidate[p] EXCEPT !.state = op.state, !.generation = op.generation]
  ELSE candidate[p]
SynchronizedAlways(p, op) ==
  [candidate[p] EXCEPT !.state = op.state, !.generation = op.generation]

(* synchronizeGameCandidatePause: the candidate follows its operation while *)
(* neither is final, and follows an abandonment out of `sealed`.            *)
SynchronizedCandidate(p, op) ==
  IF \/ candidate[p].state \in {"preparing", "paused"}
     \/ candidate[p].state = "sealed" /\ op.state = "abandoned"
  THEN [candidate[p] EXCEPT !.state = op.state, !.generation = op.generation]
  ELSE candidate[p]

(* releaseGamePreparationSlot: only a dead operation gives its slot back. *)
ReleasedSlot(p, op) ==
  [g \in Games |-> IF slot[g] = p /\ op.state \in {"failed", "abandoned"}
                   THEN None ELSE slot[g]]

(* The update, the synchronisation and the release of one batch. *)
MoveOperation(p, op) ==
  /\ operation' = [operation EXCEPT ![p] = op]
  /\ candidate' = [candidate EXCEPT ![p] = SynchronizedCandidate(p, op)]
  /\ slot' = ReleasedSlot(p, op)
  /\ UNCHANGED <<expired, workers>>

(* What every write of a preparation Workflow re-reads.  A terminal failure *)
(* is recorded even when the deadline, head or slot is what went wrong.     *)
OwnsPreparation(p, g) ==
  /\ operation[p].state = "preparing"
  /\ operation[p].generation = g
  /\ recovery_health # "blocked"

ReconciliationWriterGuard(p, g) ==
  /\ OwnsPreparation(p, g)
  /\ p \notin expired
  /\ candidate[p].expected = head[GameOf[p]]
  /\ slot[GameOf[p]] = p

-----------------------------------------------------------------------------
(* createGameReconciliation: the expected head is the one the request read, *)
(* and the batch refuses any other.                                         *)
CreateGameReconciliation(p) ==
  /\ operation[p].state = "absent"
  /\ slot[GameOf[p]] = None
  /\ Healthy /\ Writable
  /\ operation' = [operation EXCEPT ![p] = [state |-> "preparing", generation |-> 0]]
  /\ candidate' = [candidate EXCEPT ![p] =
       [state |-> "preparing", generation |-> 0, expected |-> head[GameOf[p]],
        predecessor |-> accepted[GameOf[p]], content |-> None]]
  /\ slot' = [slot EXCEPT ![GameOf[p]] = p]
  /\ UNCHANGED <<expired, workers>>

(* dispatchGamePreparation, after the batch that created or resumed it; a   *)
(* crash in between leaves it to a replay of the same request.              *)
DispatchGamePreparation(p) ==
  /\ candidate[p].state = "preparing"
  /\ workers' = workers \cup {<<p, candidate[p].generation>>}
  /\ UNCHANGED <<operation, candidate, slot, expired>>

(* The last batch of a Workflow: candidate, semantic receipt and operation  *)
(* are sealed together.                                                     *)
SealCandidate(p, g, c) ==
  /\ <<p, g>> \in workers
  /\ ReconciliationWriterGuard(p, g) /\ Writable
  /\ candidate[p].state = "preparing"
  /\ operation' = [operation EXCEPT ![p] = [@ EXCEPT !.state = "sealed"]]
  /\ candidate' = [candidate EXCEPT ![p] = [@ EXCEPT !.state = "sealed", !.content = c]]
  /\ UNCHANGED <<slot, expired, workers>>

(* A blocked candidate, a passed deadline, a moved head or an exhausted     *)
(* capacity ends the preparation.                                           *)
FailPreparation(p, g) ==
  /\ <<p, g>> \in workers
  /\ OwnsPreparation(p, g) /\ Writable
  /\ MoveOperation(p, [operation[p] EXCEPT !.state = "failed"])

(* Any other error of the Workflow pauses it under a new generation.  This  *)
(* statement has no health guard of its own.                                *)
PauseFailedReconciliation(p, g) ==
  /\ <<p, g>> \in workers
  /\ operation[p].state = "preparing" /\ operation[p].generation = g
  /\ p \notin expired /\ candidate[p].expected = head[GameOf[p]]
  /\ Writable
  /\ g < MaxGeneration
  /\ MoveOperation(p, [state |-> "paused", generation |-> g + 1])

(* changeGameReconciliation, one action per owner's intent. *)
PausePreparation(p) ==
  /\ recovery_health # "blocked" /\ Writable
  /\ operation[p].state = "preparing"
  /\ operation[p].generation < MaxGeneration
  /\ MoveOperation(p, [state |-> "paused", generation |-> operation[p].generation + 1])

ResumePreparation(p) ==
  /\ Healthy /\ Writable
  /\ operation[p].state = "paused"
  /\ p \notin expired
  /\ candidate[p].expected = head[GameOf[p]]
  /\ slot[GameOf[p]] = p
  /\ MoveOperation(p, [operation[p] EXCEPT !.state = "preparing"])

(* A sealed operation stays sealed when its candidate is published, and can *)
(* be abandoned even then; the published candidate does not follow.         *)
AbandonPreparation(p) ==
  /\ recovery_health # "blocked" /\ Writable
  /\ operation[p].state \in {"paused", "sealed"}
  /\ MoveOperation(p, [state |-> "abandoned", generation |-> operation[p].generation + 1])

(* Seven days pass. *)
ExpirePreparation(p) ==
  /\ p \in Perishable \ expired
  /\ operation[p].state # "absent"
  /\ expired' = expired \cup {p}
  /\ UNCHANGED <<operation, candidate, slot, workers>>

PreparationStep ==
  \E p \in Preparations :
    \/ CreateGameReconciliation(p)
    \/ DispatchGamePreparation(p)
    \/ \E g \in 0..MaxGeneration :
         \/ \E c \in Contents : SealCandidate(p, g, c)
         \/ FailPreparation(p, g)
         \/ PauseFailedReconciliation(p, g)
    \/ PausePreparation(p)
    \/ ResumePreparation(p)
    \/ AbandonPreparation(p)
    \/ ExpirePreparation(p)

=============================================================================
