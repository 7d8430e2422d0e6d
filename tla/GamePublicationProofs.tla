----------------------- MODULE GamePublicationProofs ------------------------
(***************************************************************************)
(* Safety of GamePublication for every set of games, preparations,         *)
(* contents and executions, every bound and every schedule.                *)
(***************************************************************************)
EXTENDS GamePublication, TLAPS

(* Most steps are first-order: Zenon proves them unless they name SMT. *)
USE ZenonT(30)

USE DEF OperationStates, CandidateStates, Live, PublicationStates, Active,
        ArtifactStates, ExportStates

-----------------------------------------------------------------------------
(* The rows keep their types. *)

(* The initial rows have their types. *)
LEMMA InitTypeOK == Init => TypeOK
<1> SUFFICES ASSUME Init PROVE TypeOK
  OBVIOUS
<1>1. OperationStateTypeOK
  BY DEF Init, OperationStateInit, OperationStateTypeOK
<1>2. PreparationTypeOK
  BY DEF Init, PreparationInit, PreparationTypeOK, OperationRows, CandidateRows, Revisions
<1>3. PublicationTypeOK
  <2>1. EmptyComposition \in Compositions
    BY DEF EmptyComposition, Compositions
  <2>2. IdleRunner \in RunnerStates
    BY <2>1 DEF IdleRunner, RunnerStates, Revisions
  <2> QED
    BY <2>1, <2>2 DEF Init, PublicationInit, PublicationTypeOK, PublicationRows, Revisions
<1> QED
  BY <1>1, <1>2, <1>3 DEF TypeOK

(* Statements on operation_state keep its columns in their domains. *)
LEMMA FenceTypeOK == TypeOK /\ FenceStep => OperationStateTypeOK'
  BY DEF TypeOK, OperationStateTypeOK, FenceStep, ReserveBackupOperation,
     BlockBackupRestore, FenceCompositionSnapshot, ClearBackupRestore,
     RestoreHealthyBackupState, DegradeActiveBackupState,
     EnforceRecoveryRestoreGuard, ReserveRecoveryOperation,
     ClaimProductionRelease, ReleaseProductionRelease

(* So does synchronizing a candidate with its operation. *)
LEMMA MoveTypeOK ==
  ASSUME TypeOK, NEW p \in Preparations, NEW op \in OperationRows,
         MoveOperation(p, op)
  PROVE  /\ operation' \in [Preparations -> OperationRows]
         /\ candidate' \in [Preparations -> CandidateRows]
         /\ slot' \in [Games -> Preparations \cup {None}]
         /\ expired' = expired /\ workers' = workers
<1>1. SynchronizedCandidate(p, op) \in CandidateRows
  BY DEF SynchronizedCandidate, TypeOK, PreparationTypeOK, OperationRows, CandidateRows
<1> QED
  BY <1>1 DEF TypeOK, PreparationTypeOK, MoveOperation, ReleasedSlot

(* Every preparation step keeps the types of its rows. *)
LEMMA PreparationStepTypeOK ==
  ASSUME TypeOK, PreparationStep, UNCHANGED headVars
  PROVE  PreparationTypeOK'
<1> USE DEF TypeOK, PreparationTypeOK
<1> PICK p \in Preparations :
      \/ CreateGameReconciliation(p) \/ DispatchGamePreparation(p)
      \/ \E g \in 0..MaxGeneration :
           \/ \E c \in Contents : SealCandidate(p, g, c)
           \/ FailPreparation(p, g) \/ PauseFailedReconciliation(p, g)
      \/ PausePreparation(p) \/ ResumePreparation(p)
      \/ AbandonPreparation(p) \/ ExpirePreparation(p)
  BY DEF PreparationStep
<1>0. /\ operation[p] \in OperationRows /\ candidate[p] \in CandidateRows
      /\ GameOf[p] \in Games
      /\ head' = head /\ accepted' = accepted
  BY PreparationAssumption DEF headVars
<1>1. CASE CreateGameReconciliation(p)
  <2>1. [state |-> "preparing", generation |-> 0] \in OperationRows
    BY DEF OperationRows
  <2>2. [state |-> "preparing", generation |-> 0, expected |-> head[GameOf[p]],
         predecessor |-> accepted[GameOf[p]], content |-> None] \in CandidateRows
    BY <1>0 DEF CandidateRows
  <2> QED
    BY <1>0, <1>1, <2>1, <2>2 DEF CreateGameReconciliation
<1>2. CASE DispatchGamePreparation(p)
  BY <1>0, <1>2, SMT DEF DispatchGamePreparation, CandidateRows
<1>3. ASSUME NEW g \in 0..MaxGeneration, NEW c \in Contents, SealCandidate(p, g, c)
      PROVE  PreparationTypeOK'
  <2>1. [operation[p] EXCEPT !.state = "sealed"] \in OperationRows
    BY <1>0 DEF OperationRows
  <2>2. [candidate[p] EXCEPT !.state = "sealed", !.content = c] \in CandidateRows
    BY <1>0 DEF CandidateRows
  <2>3. /\ operation' = [operation EXCEPT ![p] = [operation[p] EXCEPT !.state = "sealed"]]
        /\ candidate' = [candidate EXCEPT ![p] =
             [candidate[p] EXCEPT !.state = "sealed", !.content = c]]
        /\ UNCHANGED <<slot, expired, workers>>
    BY <1>3 DEF SealCandidate
  <2> QED
    BY <1>0, <2>1, <2>2, <2>3
<1>4. ASSUME NEW op \in OperationRows, MoveOperation(p, op)
      PROVE  PreparationTypeOK'
  BY <1>0, <1>4, MoveTypeOK
<1>5. ASSUME NEW g \in 0..MaxGeneration,
             FailPreparation(p, g) \/ PauseFailedReconciliation(p, g)
      PROVE  PreparationTypeOK'
  <2>1. /\ [operation[p] EXCEPT !.state = "failed"] \in OperationRows
        /\ [state |-> "paused", generation |-> g + 1] \in OperationRows
    BY <1>0, PreparationAssumption, SMT DEF OperationRows
  <2> QED
    BY <1>4, <1>5, <2>1 DEF FailPreparation, PauseFailedReconciliation
<1>6. CASE PausePreparation(p) \/ ResumePreparation(p) \/ AbandonPreparation(p)
  <2>1. /\ [state |-> "paused", generation |-> operation[p].generation + 1] \in OperationRows
        /\ [operation[p] EXCEPT !.state = "preparing"] \in OperationRows
        /\ [state |-> "abandoned", generation |-> operation[p].generation + 1] \in OperationRows
    BY <1>0, SMT DEF OperationRows
  <2> QED
    BY <1>4, <1>6, <2>1 DEF PausePreparation, ResumePreparation, AbandonPreparation
<1>7. CASE ExpirePreparation(p)
  BY <1>0, <1>7 DEF ExpirePreparation
<1> QED
  BY <1>1, <1>2, <1>3, <1>5, <1>6, <1>7

(* The compare-and-set on a publication keeps its type. *)
LEMMA UpdateTypeOK ==
  ASSUME TypeOK, NEW p \in Preparations, NEW g, NEW to \in PublicationStates,
         UpdatePublicationState(p, g, to)
  PROVE  publication' \in [Preparations -> PublicationRows]
<1>1. [publication[p] EXCEPT !.state = to] \in PublicationRows
  BY SMT DEF TypeOK, PublicationTypeOK, PublicationRows
<1> QED
  BY <1>1 DEF UpdatePublicationState, TypeOK, PublicationTypeOK

(* Owner requests, unit loops and checkpoints keep the publication types. *)
LEMMA OwnerTypeOK ==
  ASSUME TypeOK, NEW p \in Preparations,
         \/ OwnerStep(p) \/ PrepareArtifacts(p) \/ PrepareExports(p) \/ Checkpoint(p)
  PROVE  PublicationTypeOK'
<1> USE DEF PublicationTypeOK
<1>0. /\ publication[p] \in PublicationRows /\ candidate[p] \in CandidateRows
      /\ PublicationTypeOK
  BY DEF TypeOK, PreparationTypeOK
<1>1. runner' = runner
  BY DEF OwnerStep, PrepareArtifacts, PrepareExports, Checkpoint, OwnerFrame
<1>2. CASE ApproveGamePublication(p)
  <2>1. [publication[p] EXCEPT !.state = "approved",
           !.candidate_generation = candidate[p].generation] \in PublicationRows
    BY <1>0 DEF PublicationRows, CandidateRows
  <2>2. /\ publication' = [publication EXCEPT ![p] = [publication[p] EXCEPT
             !.state = "approved", !.candidate_generation = candidate[p].generation]]
        /\ UNCHANGED <<artifacts, exports, switchers, current_revision, composition,
             previous, queryable, acceptance_head, checkpoint>>
    BY <1>2 DEF ApproveGamePublication
  <2> QED
    BY <1>0, <1>1, <2>1, <2>2
<1>3. CASE DispatchGamePublication(p)
  <2>1. publication[p].generation \in Nat
    BY <1>0 DEF PublicationRows
  <2> QED
    BY <1>0, <1>1, <1>3, <2>1, SMT DEF DispatchGamePublication
<1>4. ASSUME NEW g \in 0..MaxGeneration, PauseGamePublication(p, g)
      PROVE  PublicationTypeOK'
  <2>1. UpdatePublicationState(p, g, "retry_paused")
    BY <1>4 DEF PauseGamePublication
  <2>2. publication' \in [Preparations -> PublicationRows]
    BY <2>1, UpdateTypeOK
  <2> QED
    BY <1>0, <1>1, <2>1, <2>2 DEF UpdatePublicationState
<1>5. CASE ResumeGamePublication(p)
  <2>0. publication[p].generation + 1 \in Nat
    BY <1>0, SMT DEF PublicationRows
  <2>1. [publication[p] EXCEPT !.state = "approved",
           !.generation = publication[p].generation + 1] \in PublicationRows
    BY <1>0, <2>0 DEF PublicationRows
  <2> QED
    BY <1>0, <1>1, <1>5, <2>1 DEF ResumeGamePublication
<1>6. CASE PrepareArtifacts(p)
  BY <1>0, <1>1, <1>6 DEF PrepareArtifacts,
       StartPublicationPreparation, FinishArtifacts, RetainPublicationFence, MoveArtifacts
<1>7. CASE PrepareExports(p)
  BY <1>0, <1>1, <1>7 DEF PrepareExports, FinishExports
<1>8. CASE Checkpoint(p)
  BY <1>0, <1>1, <1>8 DEF Checkpoint, VerifyCheckpoint
<1> QED
  BY <1>2, <1>3, <1>4, <1>5, <1>6, <1>7, <1>8 DEF OwnerStep

(* An execution that changes its program counter keeps its type. *)
LEMMA GotoTypeOK ==
  ASSUME TypeOK, NEW r \in Runners, NEW fields \in RunnerStates, Goto(r, fields)
  PROVE  runner' \in [Runners -> RunnerStates]
  BY DEF TypeOK, PublicationTypeOK, Goto

(* An idle execution is an execution. *)
LEMMA IdleRunnerType == IdleRunner \in RunnerStates
  BY DEF IdleRunner, RunnerStates, EmptyComposition, Compositions, Revisions

(* The reading steps of an execution keep its locals in their domains. *)
LEMMA ReadTypeOK ==
  ASSUME TypeOK, NEW r \in Runners,
         \/ \E p \in Preparations, g \in 0..MaxGeneration : AdvanceGamePublication(r, p, g)
         \/ ComposePublication(r) \/ SwitchRefused(r) \/ CrashRunner(r) \/ RetryStep(r)
  PROVE  runner' \in [Runners -> RunnerStates]
<1>0. /\ runner[r] \in RunnerStates
      /\ current_revision \in Revisions /\ composition \in [Revisions -> Compositions]
  BY DEF TypeOK, PublicationTypeOK
<1>1. ASSUME NEW p \in Preparations, NEW g \in 0..MaxGeneration,
             AdvanceGamePublication(r, p, g)
      PROVE  runner' \in [Runners -> RunnerStates]
  <2> DEFINE begun == [IdleRunner EXCEPT !.p = p, !.generation = g]
  <2>0. g \in Nat /\ begun \in RunnerStates
    <3>1. g \in Nat
      BY PreparationAssumption, SMT
    <3> QED
      BY <3>1, IdleRunnerType DEF RunnerStates
  <2> HIDE DEF begun
  <2>1. /\ \A to \in PublicationStates :
             [begun EXCEPT !.pc = "update", !.to = to] \in RunnerStates
        /\ \A u \in BOOLEAN :
             [begun EXCEPT !.pc = "compose", !.unchanged = u] \in RunnerStates
    BY <2>0 DEF RunnerStates
  <2> QED
    BY <1>1, <2>1, GotoTypeOK DEF AdvanceGamePublication, begun
<1>2. \A to \in PublicationStates :
        [runner[r] EXCEPT !.pc = "update", !.to = to] \in RunnerStates
  BY <1>0 DEF RunnerStates
<1>3. CASE ComposePublication(r)
  <2>1. runner[r].pc = "compose"
    BY <1>3 DEF ComposePublication
  <2>2. CASE ~AcceptanceCheckpoint(current_revision)
    BY <1>2, <1>3, <2>2, GotoTypeOK DEF ComposePublication, Decide
  <2>3. CASE AcceptanceCheckpoint(current_revision)
    <3> DEFINE fields == [runner[r] EXCEPT !.pc = "switch", !.base = current_revision,
            !.members = [composition[current_revision] EXCEPT ![GameOf[runner[r].p]] = runner[r].p]]
    <3>1. [composition[current_revision] EXCEPT ![GameOf[runner[r].p]] = runner[r].p]
            \in Compositions
      BY <1>0 DEF RunnerStates, Compositions
    <3>2. fields \in RunnerStates
      BY <1>0, <3>1 DEF RunnerStates
    <3>3. Goto(r, fields)
      BY <1>3, <2>3 DEF ComposePublication
    <3> QED
      BY <3>2, <3>3, GotoTypeOK
  <2> QED
    BY <2>2, <2>3
<1>4. CASE SwitchRefused(r)
  <2>0. runner[r].tries + 1 \in Nat
    BY <1>0, SMT DEF RunnerStates
  <2>1. [runner[r] EXCEPT !.pc = "compose", !.tries = runner[r].tries + 1] \in RunnerStates
    BY <1>0, <2>0 DEF RunnerStates
  <2> QED
    BY <1>2, <1>4, <2>1, GotoTypeOK, IdleRunnerType DEF SwitchRefused, Decide, Return
<1>5. CASE CrashRunner(r) \/ RetryStep(r)
  <2>1. [IdleRunner EXCEPT !.pc = "dead"] \in RunnerStates
    BY IdleRunnerType DEF RunnerStates
  <2> QED
    BY <1>5, <2>1, GotoTypeOK, IdleRunnerType DEF CrashRunner, RetryStep, Return
<1> QED
  BY <1>1, <1>3, <1>4, <1>5

(* Completing a publication keeps the types of its rows. *)
LEMMA CompleteTypeOK ==
  ASSUME TypeOK, NEW p \in Preparations, NEW rev \in Revisions,
         CompletePublication(p, rev)
  PROVE  /\ candidate' \in [Preparations -> CandidateRows]
         /\ slot' \in [Games -> Preparations \cup {None}]
         /\ publication' \in [Preparations -> PublicationRows]
         /\ accepted' \in [Games -> Preparations \cup {None}]
         /\ acceptance_head' \in Preparations
         /\ checkpoint' \in [Preparations -> {"none", "reserved", "verified"}]
<1>1. /\ candidate \in [Preparations -> CandidateRows]
      /\ publication \in [Preparations -> PublicationRows]
  BY DEF TypeOK, PreparationTypeOK, PublicationTypeOK
<1>2. [candidate[p] EXCEPT !.state = "published"] \in CandidateRows
  BY <1>1 DEF CandidateRows
<1>3. [publication[p] EXCEPT !.state = "published", !.result = rev] \in PublicationRows
  BY <1>1 DEF PublicationRows
<1>4. /\ candidate' \in [Preparations -> CandidateRows]
      /\ publication' \in [Preparations -> PublicationRows]
  BY <1>1, <1>2, <1>3 DEF CompletePublication
<1> QED
  BY <1>4 DEF CompletePublication, TypeOK, PreparationTypeOK, PublicationTypeOK

(* So do both outcomes of the switch. *)
LEMMA CommitTypeOK ==
  ASSUME TypeOK, RunnerHasWork, NEW r \in Runners, Commit(r)
  PROVE  TypeOK'
<1> DEFINE x == runner[r]
<1>0. x \in RunnerStates
  BY DEF TypeOK, PublicationTypeOK
<1>1. x.p \in Preparations /\ x.base \in Revisions /\ x.members \in Compositions
      /\ x.to \in PublicationStates /\ x.generation \in Nat
  BY <1>0 DEF Commit, SwitchPublication, UpdateFromRunner, RunnerHasWork, RunnerStates
<1>2. runner' \in [Runners -> RunnerStates]
  BY GotoTypeOK, IdleRunnerType DEF Commit, SwitchPublication, UpdateFromRunner, Return
<1>3. OperationStateTypeOK'
  BY DEF Commit, TypeOK, OperationStateTypeOK, operationStateVars
<1>4. CASE SwitchPublication(r)
  <2>1. PICK rev \in Revisions : CompletePublication(x.p, rev)
    BY <1>1, <1>4 DEF SwitchPublication, AcceptUnchanged, SwitchRevision, Revisions
  <2>2. UNCHANGED <<operation, expired, workers, artifacts, exports, switchers>>
    BY <2>1 DEF CompletePublication
  <2>3. /\ head' \in [Games -> Revisions]
        /\ current_revision' \in Revisions
        /\ composition' \in [Revisions -> Compositions]
        /\ previous' \in [Revisions -> Revisions \cup {None}]
        /\ queryable' \subseteq Revisions
    <3>1. CASE x.unchanged
      BY <1>4, <3>1 DEF SwitchPublication, AcceptUnchanged, TypeOK, PreparationTypeOK,
         PublicationTypeOK
    <3>2. CASE ~x.unchanged
      <4>1. SwitchRevision(x.p, x.base, x.members)
        BY <1>4, <3>2 DEF SwitchPublication
      <4>2. x.p \in Revisions
        BY <1>1 DEF Revisions
      <4> QED
        BY <1>1, <4>1, <4>2 DEF SwitchRevision, TypeOK, PreparationTypeOK, PublicationTypeOK
    <3> QED
      BY <3>1, <3>2
  <2>4. /\ candidate' \in [Preparations -> CandidateRows]
        /\ slot' \in [Games -> Preparations \cup {None}]
        /\ publication' \in [Preparations -> PublicationRows]
        /\ accepted' \in [Games -> Preparations \cup {None}]
        /\ acceptance_head' \in Preparations
        /\ checkpoint' \in [Preparations -> {"none", "reserved", "verified"}]
    BY <1>1, <2>1, CompleteTypeOK
  <2> QED
    BY <1>2, <1>3, <2>2, <2>3, <2>4 DEF TypeOK, PreparationTypeOK, PublicationTypeOK
<1>5. CASE UpdateFromRunner(r) /\ UNCHANGED <<operationStateVars, preparationVars, headVars>>
  <2>1. UpdatePublicationState(x.p, x.generation, x.to)
    BY <1>5 DEF UpdateFromRunner
  <2>2. publication' \in [Preparations -> PublicationRows]
    BY <1>1, <2>1, UpdateTypeOK
  <2> QED
    BY <1>2, <1>3, <1>5, <2>1, <2>2 DEF UpdatePublicationState, TypeOK, PreparationTypeOK,
       PublicationTypeOK, preparationVars, headVars
<1> QED
  BY <1>4, <1>5 DEF Commit

(* So does the classification an accepted recovery performs. *)
LEMMA RecoveryTypeOK ==
  ASSUME TypeOK, AcceptRecovery, UNCHANGED <<headVars, runner>>
  PROVE  TypeOK'
<1>1. OperationStateTypeOK'
  BY DEF AcceptRecovery, ReleaseAcceptedRecovery, TypeOK, OperationStateTypeOK
<1>2. \A p \in Preparations :
        /\ operation[p] \in OperationRows /\ candidate[p] \in CandidateRows
        /\ publication[p] \in PublicationRows
  BY DEF TypeOK, PreparationTypeOK, PublicationTypeOK
<1>3. \A p \in Preparations :
        /\ operation[p].generation + 1 \in Nat
        /\ candidate[p].generation + 1 \in Nat
        /\ publication[p].generation + 1 \in Nat
  BY SMT, <1>2 DEF OperationRows, CandidateRows, PublicationRows
<1>4. \A p \in Preparations :
        /\ [state |-> "abandoned", generation |-> operation[p].generation + 1] \in OperationRows
        /\ [candidate[p] EXCEPT !.state = "abandoned",
              !.generation = candidate[p].generation + 1] \in CandidateRows
        /\ [publication[p] EXCEPT !.state = "failed",
              !.generation = publication[p].generation + 1] \in PublicationRows
  <2>1. ASSUME NEW p \in Preparations
        PROVE  [state |-> "abandoned", generation |-> operation[p].generation + 1] \in OperationRows
    BY <1>3 DEF OperationRows
  <2>2. ASSUME NEW p \in Preparations
        PROVE  [candidate[p] EXCEPT !.state = "abandoned",
                  !.generation = candidate[p].generation + 1] \in CandidateRows
    BY <1>2, <1>3 DEF CandidateRows
  <2>3. ASSUME NEW p \in Preparations
        PROVE  [publication[p] EXCEPT !.state = "failed",
                  !.generation = publication[p].generation + 1] \in PublicationRows
    BY <1>2, <1>3 DEF PublicationRows
  <2> QED
    BY <2>1, <2>2, <2>3
<1>5. /\ operation' \in [Preparations -> OperationRows]
      /\ candidate' \in [Preparations -> CandidateRows]
      /\ publication' \in [Preparations -> PublicationRows]
  BY <1>2, <1>4 DEF AcceptRecovery
<1>6. slot' \in [Games -> Preparations \cup {None}]
  BY DEF AcceptRecovery, TypeOK, PreparationTypeOK
<1>7. UNCHANGED <<expired, workers, artifacts, exports, switchers, current_revision,
        composition, previous, queryable, acceptance_head, checkpoint, head, accepted, runner>>
  BY DEF AcceptRecovery, headVars
<1> QED
  BY <1>1, <1>5, <1>6, <1>7 DEF TypeOK, PreparationTypeOK, PublicationTypeOK

(* Nothing changes in a stuttering step. *)
LEMMA StutterTypeOK == TypeOK /\ UNCHANGED vars => TypeOK'
  BY DEF TypeOK, OperationStateTypeOK, PreparationTypeOK, PublicationTypeOK, vars,
     operationStateVars, preparationVars, headVars, publicationVars

(* Every step keeps every type. *)
LEMMA NextTypeOK ==
  ASSUME TypeOK, RunnerHasWork, Next
  PROVE  TypeOK'
<1> USE DEF TypeOK
<1>1. CASE FenceStep /\ UNCHANGED <<preparationVars, headVars, publicationVars, runner>>
  BY <1>1, FenceTypeOK DEF PreparationTypeOK, PublicationTypeOK, preparationVars, headVars,
     publicationVars
<1>2. CASE PreparationStep /\ UNCHANGED <<operationStateVars, headVars, publicationVars, runner>>
  <2>1. PreparationTypeOK'
    BY <1>2, PreparationStepTypeOK
  <2> QED
    BY <1>2, <2>1 DEF OperationStateTypeOK, PublicationTypeOK, operationStateVars, publicationVars
<1>3. ASSUME NEW p \in Preparations,
             OwnerStep(p) \/ PrepareArtifacts(p) \/ PrepareExports(p) \/ Checkpoint(p)
      PROVE  TypeOK'
  <2>1. PublicationTypeOK'
    BY <1>3, OwnerTypeOK
  <2>2. OwnerFrame
    BY <1>3 DEF OwnerStep, PrepareArtifacts, PrepareExports, Checkpoint
  <2> QED
    BY <2>1, <2>2 DEF OwnerFrame, OperationStateTypeOK, PreparationTypeOK, operationStateVars,
       preparationVars, headVars
<1>4. ASSUME NEW r \in Runners, ReadFrame,
             \/ \E p \in Preparations, g \in 0..MaxGeneration : AdvanceGamePublication(r, p, g)
             \/ ComposePublication(r) \/ SwitchRefused(r) \/ CrashRunner(r) \/ RetryStep(r)
      PROVE  TypeOK'
  <2>1. runner' \in [Runners -> RunnerStates]
    BY <1>4, ReadTypeOK
  <2> QED
    BY <1>4, <2>1 DEF ReadFrame, OperationStateTypeOK, PreparationTypeOK, PublicationTypeOK,
       operationStateVars, preparationVars, headVars, publicationVars
<1>5. ASSUME NEW p \in Preparations, Begin(p) PROVE TypeOK'
  BY <1>4, <1>5 DEF Begin
<1>6. ASSUME NEW r \in Runners, Compose(r) \/ Refused(r) \/ Engine(r) PROVE TypeOK'
  BY <1>4, <1>6 DEF Compose, Refused, Engine
<1>7. ASSUME NEW r \in Runners, Commit(r) PROVE TypeOK'
  BY <1>7, CommitTypeOK
<1>8. CASE AcceptRecovery /\ UNCHANGED <<headVars, runner>>
  BY <1>8, RecoveryTypeOK
<1> QED
  BY <1>1, <1>2, <1>3, <1>5, <1>6, <1>7, <1>8 DEF Next

-----------------------------------------------------------------------------
(* How the rows stay related, action by action. *)

(* The rows the invariant relates, without the executions and the types. *)
RowInvariant ==
  /\ SlotHeldByLiveCandidate
  /\ LiveCandidateIsCurrent
  /\ CandidateMirrorsOperation
  /\ PublishedTogether
  /\ NothingPublishedAtSpine
  /\ OnlyLatestAcceptanceUnprotected

(* The initial rows satisfy the invariant. *)
LEMMA InitRows == Init => TypeOK /\ RunnerHasWork /\ RowInvariant
<1> SUFFICES ASSUME Init PROVE TypeOK /\ RunnerHasWork /\ RowInvariant
  OBVIOUS
<1>1. TypeOK
  BY InitTypeOK
<1>2. RunnerHasWork
  BY DEF Init, PublicationInit, RunnerHasWork, IdleRunner
<1>3. SlotHeldByLiveCandidate /\ LiveCandidateIsCurrent /\ CandidateMirrorsOperation
  BY PreparationAssumption DEF Init, PreparationInit, SlotHeldByLiveCandidate,
     LiveCandidateIsCurrent, CandidateMirrorsOperation
<1>4. PublishedTogether /\ NothingPublishedAtSpine /\ OnlyLatestAcceptanceUnprotected
  BY DEF Init, PreparationInit, PublicationInit, PublishedTogether, NothingPublishedAtSpine,
     OnlyLatestAcceptanceUnprotected
<1> QED
  BY <1>1, <1>2, <1>3, <1>4 DEF RowInvariant

(* An execution that keeps its publication keeps having work. *)
LEMMA GotoHasWork ==
  ASSUME TypeOK, RunnerHasWork, NEW r \in Runners, NEW fields, Goto(r, fields),
         fields.pc \in {"compose", "switch", "update"} => fields.p \in Preparations,
         fields.to # "published"
  PROVE  RunnerHasWork'
  BY DEF TypeOK, PublicationTypeOK, RunnerHasWork, Goto

(* Rows that do not change stay related. *)
LEMMA RowsUnchanged ==
  ASSUME RowInvariant,
         UNCHANGED <<operation, candidate, slot, head, accepted, publication,
                     current_revision, acceptance_head, checkpoint>>
  PROVE  RowInvariant'
<1>1. SlotHeldByLiveCandidate'
  BY DEF RowInvariant, SlotHeldByLiveCandidate
<1>2. LiveCandidateIsCurrent'
  BY DEF RowInvariant, LiveCandidateIsCurrent
<1>3. CandidateMirrorsOperation'
  BY DEF RowInvariant, CandidateMirrorsOperation
<1>4. NothingPublishedAtSpine'
  BY DEF RowInvariant, NothingPublishedAtSpine
<1>5. PublishedTogether'
  BY DEF RowInvariant, PublishedTogether
<1>6. OnlyLatestAcceptanceUnprotected'
  BY DEF RowInvariant, OnlyLatestAcceptanceUnprotected
<1> QED
  BY <1>1, <1>2, <1>3, <1>4, <1>5, <1>6 DEF RowInvariant

(* Moving an operation keeps candidate, slot and operation related. *)
LEMMA MoveKeepsRows ==
  ASSUME TypeOK, RowInvariant, NEW p \in Preparations, NEW op \in OperationRows,
         MoveOperation(p, op), UNCHANGED <<headVars, publicationVars>>,
         \/ /\ operation[p].state \in {"preparing", "paused"}
            /\ op.state \in {"failed", "paused", "preparing", "abandoned"}
         \/ operation[p].state = "sealed" /\ op.state = "abandoned"
  PROVE  RowInvariant'
<1>0. /\ operation \in [Preparations -> OperationRows]
      /\ candidate \in [Preparations -> CandidateRows]
      /\ slot \in [Games -> Preparations \cup {None}]
      /\ None \notin Preparations /\ GameOf \in [Preparations -> Games]
      /\ UNCHANGED <<head, accepted, publication, current_revision, acceptance_head, checkpoint>>
  BY PreparationAssumption DEF TypeOK, PreparationTypeOK, headVars, publicationVars
<1>1. /\ operation' = [operation EXCEPT ![p] = op]
      /\ candidate' = [candidate EXCEPT ![p] = SynchronizedCandidate(p, op)]
      /\ slot' = [g \in Games |-> IF slot[g] = p /\ op.state \in {"failed", "abandoned"}
                                 THEN None ELSE slot[g]]
  BY DEF MoveOperation, ReleasedSlot
<1>2. CASE candidate[p].state = "published"
  <2>1. candidate' = candidate /\ operation[p].state = "sealed" /\ op.state = "abandoned"
    BY <1>0, <1>1, <1>2 DEF SynchronizedCandidate, RowInvariant, CandidateMirrorsOperation
  <2>2. slot' = slot
    BY SMT, <1>0, <1>1, <1>2 DEF RowInvariant, SlotHeldByLiveCandidate
  <2> QED
    BY SMT, <1>0, <1>1, <1>2, <2>1, <2>2 DEF RowInvariant, SlotHeldByLiveCandidate,
       LiveCandidateIsCurrent, CandidateMirrorsOperation, PublishedTogether,
       NothingPublishedAtSpine, OnlyLatestAcceptanceUnprotected
<1>3. CASE candidate[p].state # "published"
  <2>1. candidate[p].state = operation[p].state
    BY <1>3 DEF RowInvariant, CandidateMirrorsOperation
  <2>2. candidate' = [candidate EXCEPT ![p] =
          [candidate[p] EXCEPT !.state = op.state, !.generation = op.generation]]
    BY <1>1, <2>1 DEF SynchronizedCandidate
  <2>3. /\ \A q \in Preparations : q # p => candidate'[q] = candidate[q]
        /\ candidate'[p].state = op.state /\ candidate'[p].generation = op.generation
        /\ candidate'[p].expected = candidate[p].expected
        /\ candidate'[p].predecessor = candidate[p].predecessor
        /\ \A q \in Preparations : q # p => operation'[q] = operation[q]
        /\ operation'[p] = op
    <3>1. /\ \A q \in Preparations : q # p => candidate'[q] = candidate[q]
          /\ candidate'[p] =
               [candidate[p] EXCEPT !.state = op.state, !.generation = op.generation]
          /\ \A q \in Preparations : q # p => operation'[q] = operation[q]
          /\ operation'[p] = op
      BY <1>0, <1>1, <2>2
    <3>2. candidate[p] \in CandidateRows
      BY <1>0
    <3> QED
      BY <3>1, <3>2 DEF CandidateRows
  <2>4. SlotHeldByLiveCandidate'
    BY <1>0, <1>1, <2>1, <2>3, SMT DEF RowInvariant, SlotHeldByLiveCandidate
  <2>5. LiveCandidateIsCurrent'
    BY <1>0, <2>1, <2>3 DEF RowInvariant, LiveCandidateIsCurrent
  <2>6. CandidateMirrorsOperation'
    BY <2>3 DEF RowInvariant, CandidateMirrorsOperation
  <2>7. PublishedTogether' /\ NothingPublishedAtSpine' /\ OnlyLatestAcceptanceUnprotected'
    BY <1>0, <1>3, <2>3 DEF RowInvariant, PublishedTogether, NothingPublishedAtSpine,
       OnlyLatestAcceptanceUnprotected
  <2> QED
    BY <2>4, <2>5, <2>6, <2>7 DEF RowInvariant
<1> QED
  BY <1>2, <1>3

(* Every preparation step keeps the rows related. *)
LEMMA PreparationKeepsRows ==
  ASSUME TypeOK, RowInvariant, PreparationStep, UNCHANGED <<headVars, publicationVars>>
  PROVE  RowInvariant'
<1>p. PICK p \in Preparations :
      \/ CreateGameReconciliation(p) \/ DispatchGamePreparation(p)
      \/ \E g \in 0..MaxGeneration :
           \/ \E c \in Contents : SealCandidate(p, g, c)
           \/ FailPreparation(p, g) \/ PauseFailedReconciliation(p, g)
      \/ PausePreparation(p) \/ ResumePreparation(p)
      \/ AbandonPreparation(p) \/ ExpirePreparation(p)
  BY DEF PreparationStep
<1>0. /\ operation \in [Preparations -> OperationRows] /\ operation[p] \in OperationRows
      /\ candidate \in [Preparations -> CandidateRows] /\ candidate[p] \in CandidateRows
      /\ slot \in [Games -> Preparations \cup {None}]
      /\ None \notin Preparations /\ GameOf \in [Preparations -> Games]
      /\ UNCHANGED <<head, accepted, publication, current_revision, acceptance_head, checkpoint>>
  BY PreparationAssumption DEF TypeOK, PreparationTypeOK, headVars, publicationVars
<1>1. CASE CreateGameReconciliation(p)
  <2>1. candidate[p].state = "absent" /\ slot[GameOf[p]] = None
    BY <1>1 DEF CreateGameReconciliation, RowInvariant, CandidateMirrorsOperation
  <2>2. /\ \A q \in Preparations : q # p => candidate'[q] = candidate[q]
        /\ candidate'[p].state = "preparing" /\ candidate'[p].generation = 0
        /\ candidate'[p].expected = head[GameOf[p]]
        /\ candidate'[p].predecessor = accepted[GameOf[p]]
        /\ \A q \in Preparations : q # p => operation'[q] = operation[q]
        /\ operation'[p].state = "preparing" /\ operation'[p].generation = 0
        /\ slot' = [slot EXCEPT ![GameOf[p]] = p]
    BY <1>0, <1>1 DEF CreateGameReconciliation
  <2>3. SlotHeldByLiveCandidate'
    <3>1. \A q \in Preparations, h \in Games :
            slot[h] = q <=> GameOf[q] = h /\ candidate[q].state \in Live
      BY DEF RowInvariant, SlotHeldByLiveCandidate
    <3>2. GameOf[p] \in Games /\ slot'[GameOf[p]] = p
      BY <1>0, <2>2
    <3>3. \A h \in Games : h # GameOf[p] => slot'[h] = slot[h]
      BY <1>0, <2>2
    <3>4. candidate'[p].state \in Live /\ candidate[p].state \notin Live
      BY <2>1, <2>2 DEF Live
    <3>5. \A h \in Games : slot'[h] = p <=> GameOf[p] = h /\ candidate'[p].state \in Live
      BY <3>1, <3>2, <3>3, <3>4
    <3>6. ASSUME NEW q \in Preparations, q # p, NEW h \in Games
          PROVE  slot'[h] = q <=> GameOf[q] = h /\ candidate'[q].state \in Live
      <4>1. CASE h = GameOf[p]
        BY <1>0, <2>1, <2>2, <3>1, <3>2, <3>6, <4>1
      <4>2. CASE h # GameOf[p]
        <5>1. slot'[h] = slot[h] /\ candidate'[q] = candidate[q]
          BY <2>2, <3>3, <3>6, <4>2
        <5> QED
          BY <3>1, <3>6, <5>1, SMT
      <4> QED
        BY <4>1, <4>2
    <3> QED
      BY <3>5, <3>6 DEF SlotHeldByLiveCandidate
  <2>4. LiveCandidateIsCurrent' /\ CandidateMirrorsOperation'
    BY <1>0, <2>2 DEF RowInvariant, LiveCandidateIsCurrent, CandidateMirrorsOperation
  <2>5. PublishedTogether' /\ NothingPublishedAtSpine' /\ OnlyLatestAcceptanceUnprotected'
    BY <1>0, <2>1, <2>2 DEF RowInvariant, PublishedTogether, NothingPublishedAtSpine,
       OnlyLatestAcceptanceUnprotected
  <2> QED
    BY <2>3, <2>4, <2>5 DEF RowInvariant
<1>2. CASE DispatchGamePreparation(p) \/ ExpirePreparation(p)
  BY <1>0, <1>2, RowsUnchanged DEF DispatchGamePreparation, ExpirePreparation
<1>3. ASSUME NEW g \in 0..MaxGeneration, NEW c \in Contents, SealCandidate(p, g, c)
      PROVE  RowInvariant'
  <2>1. candidate[p].state = "preparing" /\ operation[p].state = "preparing" /\ slot' = slot
    BY <1>3 DEF SealCandidate, ReconciliationWriterGuard, OwnsPreparation
  <2>2. /\ candidate' = [candidate EXCEPT ![p] =
             [candidate[p] EXCEPT !.state = "sealed", !.content = c]]
        /\ operation' = [operation EXCEPT ![p] = [operation[p] EXCEPT !.state = "sealed"]]
    BY <1>3 DEF SealCandidate
  <2>3. /\ candidate'[p].state = "sealed"
        /\ candidate'[p].generation = candidate[p].generation
        /\ candidate'[p].expected = candidate[p].expected
        /\ candidate'[p].predecessor = candidate[p].predecessor
    BY <1>0, <2>2 DEF CandidateRows
  <2>4. operation'[p].state = "sealed" /\ operation'[p].generation = operation[p].generation
    BY <1>0, <2>2 DEF OperationRows
  <2>5. \A q \in Preparations : q # p => candidate'[q] = candidate[q] /\ operation'[q] = operation[q]
    BY <1>0, <2>2
  <2>6. SlotHeldByLiveCandidate' /\ LiveCandidateIsCurrent'
    <3>1. SlotHeldByLiveCandidate'
      BY <2>1, <2>3, <2>5, SMT DEF RowInvariant, SlotHeldByLiveCandidate
    <3>2. LiveCandidateIsCurrent'
      BY <1>0, <2>1, <2>3, <2>5, SMT DEF RowInvariant, LiveCandidateIsCurrent
    <3> QED
      BY <3>1, <3>2
  <2>7. CandidateMirrorsOperation'
    BY <2>1, <2>3, <2>4, <2>5 DEF RowInvariant, CandidateMirrorsOperation
  <2>8. PublishedTogether' /\ NothingPublishedAtSpine' /\ OnlyLatestAcceptanceUnprotected'
    <3>1. PublishedTogether'
      BY <1>0, <2>1, <2>3, <2>5 DEF RowInvariant, PublishedTogether
    <3>2. NothingPublishedAtSpine' /\ OnlyLatestAcceptanceUnprotected'
      BY <1>0, <2>1, <2>3, <2>5
         DEF RowInvariant, NothingPublishedAtSpine, OnlyLatestAcceptanceUnprotected
    <3> QED
      BY <3>1, <3>2
  <2> QED
    BY <2>6, <2>7, <2>8 DEF RowInvariant
<1>4. ASSUME NEW g \in 0..MaxGeneration, FailPreparation(p, g) \/ PauseFailedReconciliation(p, g)
      PROVE  RowInvariant'
  <2>1. g + 1 \in Nat
    BY PreparationAssumption, SMT
  <2>2. /\ [operation[p] EXCEPT !.state = "failed"] \in OperationRows
        /\ [operation[p] EXCEPT !.state = "failed"].state = "failed"
        /\ [state |-> "paused", generation |-> g + 1] \in OperationRows
    BY <1>0, <2>1 DEF OperationRows
  <2> QED
    BY <1>4, <2>2, MoveKeepsRows DEF FailPreparation, PauseFailedReconciliation, OwnsPreparation
<1>5. CASE PausePreparation(p) \/ ResumePreparation(p) \/ AbandonPreparation(p)
  <2>1. operation[p].generation + 1 \in Nat
    BY <1>0, SMT DEF OperationRows
  <2>2. /\ [state |-> "paused", generation |-> operation[p].generation + 1] \in OperationRows
        /\ [operation[p] EXCEPT !.state = "preparing"] \in OperationRows
        /\ [operation[p] EXCEPT !.state = "preparing"].state = "preparing"
        /\ [state |-> "abandoned", generation |-> operation[p].generation + 1] \in OperationRows
    BY <1>0, <2>1 DEF OperationRows
  <2> QED
    BY <1>5, <2>2, MoveKeepsRows DEF PausePreparation, ResumePreparation, AbandonPreparation
<1> QED
  BY <1>p, <1>1, <1>2, <1>3, <1>4, <1>5

(* A publication that is not published on either side changes no relation. *)
LEMMA PublicationMoveKeepsRows ==
  ASSUME TypeOK, RowInvariant, NEW p \in Preparations,
         \A q \in Preparations : q # p => publication'[q] = publication[q],
         publication[p].state # "published", publication'[p].state # "published",
         UNCHANGED <<operation, candidate, slot, head, accepted, current_revision,
                     acceptance_head, checkpoint>>
  PROVE  RowInvariant'
<1>1. SlotHeldByLiveCandidate'
  BY SMT DEF RowInvariant, SlotHeldByLiveCandidate
<1>2. LiveCandidateIsCurrent'
  BY DEF RowInvariant, LiveCandidateIsCurrent
<1>3. CandidateMirrorsOperation'
  BY DEF RowInvariant, CandidateMirrorsOperation
<1>4. NothingPublishedAtSpine'
  BY DEF RowInvariant, NothingPublishedAtSpine
<1>5. PublishedTogether'
  BY DEF RowInvariant, PublishedTogether
<1>6. OnlyLatestAcceptanceUnprotected'
  BY DEF RowInvariant, OnlyLatestAcceptanceUnprotected
<1> QED
  BY <1>1, <1>2, <1>3, <1>4, <1>5, <1>6 DEF RowInvariant

(* The compare-and-set on a publication keeps the rows related. *)
LEMMA UpdateKeepsRows ==
  ASSUME TypeOK, RowInvariant, NEW p \in Preparations, NEW g, NEW to \in PublicationStates,
         to # "published", UpdatePublicationState(p, g, to),
         UNCHANGED <<preparationVars, headVars>>
  PROVE  RowInvariant'
<1>0. /\ publication \in [Preparations -> PublicationRows]
      /\ publication[p] \in PublicationRows
      /\ UNCHANGED <<operation, candidate, slot, head, accepted, current_revision,
                     acceptance_head, checkpoint>>
  BY DEF TypeOK, PublicationTypeOK, UpdatePublicationState, preparationVars, headVars
<1>1. CASE ~ActiveWriter(p, g)
  BY <1>0, <1>1, RowsUnchanged DEF UpdatePublicationState
<1>2. CASE ActiveWriter(p, g)
  <2>1. publication' = [publication EXCEPT ![p] = [publication[p] EXCEPT !.state = to]]
    BY <1>2 DEF UpdatePublicationState
  <2>2. publication'[p].state = to
    BY <1>0, <2>1 DEF PublicationRows
  <2>3. \A q \in Preparations : q # p => publication'[q] = publication[q]
    BY <1>0, <2>1
  <2> QED
    BY <1>0, <1>2, <2>2, <2>3, PublicationMoveKeepsRows DEF ActiveWriter
<1> QED
  BY <1>1, <1>2

(* Owner requests, unit loops and checkpoints keep the rows related. *)
LEMMA OwnerKeepsRows ==
  ASSUME TypeOK, RowInvariant, NEW p \in Preparations,
         \/ OwnerStep(p) \/ PrepareArtifacts(p) \/ PrepareExports(p) \/ Checkpoint(p)
  PROVE  RowInvariant'
<1>0. /\ publication \in [Preparations -> PublicationRows]
      /\ publication[p] \in PublicationRows
      /\ checkpoint \in [Preparations -> {"none", "reserved", "verified"}]
      /\ UNCHANGED <<preparationVars, headVars>>
      /\ UNCHANGED <<operation, candidate, slot, head, accepted>>
  BY DEF TypeOK, PublicationTypeOK, OwnerStep, PrepareArtifacts, PrepareExports, Checkpoint,
     OwnerFrame, preparationVars, headVars
<1>1. CASE ApproveGamePublication(p)
  <2>1. publication' = [publication EXCEPT ![p] = [publication[p] EXCEPT
          !.state = "approved", !.candidate_generation = candidate[p].generation]]
    BY <1>1 DEF ApproveGamePublication
  <2>2. publication'[p].state = "approved"
    BY <1>0, <2>1 DEF PublicationRows
  <2>3. \A q \in Preparations : q # p => publication'[q] = publication[q]
    BY <1>0, <2>1
  <2> QED
    BY <1>0, <1>1, <2>2, <2>3, PublicationMoveKeepsRows DEF ApproveGamePublication
<1>2. CASE ResumeGamePublication(p)
  <2>1. publication' = [publication EXCEPT ![p] = [publication[p] EXCEPT
          !.state = "approved", !.generation = publication[p].generation + 1]]
    BY <1>2 DEF ResumeGamePublication
  <2>2. publication'[p].state = "approved"
    BY <1>0, <2>1 DEF PublicationRows
  <2>3. \A q \in Preparations : q # p => publication'[q] = publication[q]
    BY <1>0, <2>1
  <2> QED
    BY <1>0, <1>2, <2>2, <2>3, PublicationMoveKeepsRows DEF ResumeGamePublication
<1>3. ASSUME NEW g \in 0..MaxGeneration, PauseGamePublication(p, g)
      PROVE  RowInvariant'
  BY <1>0, <1>3, UpdateKeepsRows DEF PauseGamePublication
<1>4. CASE DispatchGamePublication(p) \/ PrepareArtifacts(p) \/ PrepareExports(p)
  BY <1>0, <1>4, RowsUnchanged DEF DispatchGamePublication, PrepareArtifacts,
       StartPublicationPreparation, FinishArtifacts, RetainPublicationFence, MoveArtifacts,
     PrepareExports, FinishExports
<1>5. CASE Checkpoint(p)
  <2>1. /\ UNCHANGED <<publication, current_revision, acceptance_head>>
        /\ checkpoint'[p] = "verified"
        /\ \A q \in Preparations : q # p => checkpoint'[q] = checkpoint[q]
    BY <1>0, <1>5 DEF Checkpoint, VerifyCheckpoint
  <2>2. SlotHeldByLiveCandidate'
    BY <1>0 DEF RowInvariant, SlotHeldByLiveCandidate
  <2>3. LiveCandidateIsCurrent'
    BY <1>0 DEF RowInvariant, LiveCandidateIsCurrent
  <2>4. CandidateMirrorsOperation'
    BY <1>0 DEF RowInvariant, CandidateMirrorsOperation
  <2>5. NothingPublishedAtSpine'
    BY <1>0, <2>1 DEF RowInvariant, NothingPublishedAtSpine
  <2>6. PublishedTogether'
    BY <1>0, <2>1 DEF RowInvariant, PublishedTogether
  <2>7. OnlyLatestAcceptanceUnprotected'
    BY <1>0, <2>1 DEF RowInvariant, OnlyLatestAcceptanceUnprotected
  <2> QED
    BY <2>2, <2>3, <2>4, <2>5, <2>6, <2>7 DEF RowInvariant
<1> QED
  BY <1>1, <1>2, <1>3, <1>4, <1>5 DEF OwnerStep

(* The switch moves head, slot, candidate, publication and backup together. *)
LEMMA SwitchKeepsRows ==
  ASSUME TypeOK, RunnerHasWork, RowInvariant, NEW r \in Runners, SwitchPublication(r)
  PROVE  RowInvariant'
<1> DEFINE p == runner[r].p
           g == runner[r].generation
           base == runner[r].base
<1>a. p \in Preparations
  BY DEF SwitchPublication, RunnerHasWork
<1>0. /\ p \in Preparations /\ GameOf \in [Preparations -> Games] /\ GameOf[p] \in Games
      /\ None \notin Preparations /\ Spine \notin Preparations
      /\ candidate \in [Preparations -> CandidateRows] /\ candidate[p] \in CandidateRows
      /\ publication \in [Preparations -> PublicationRows] /\ publication[p] \in PublicationRows
      /\ checkpoint \in [Preparations -> {"none", "reserved", "verified"}]
      /\ slot \in [Games -> Preparations \cup {None}]
      /\ head \in [Games -> Revisions] /\ accepted \in [Games -> Preparations \cup {None}]
  BY <1>a, PreparationAssumption DEF TypeOK, PreparationTypeOK, PublicationTypeOK
<1>1. /\ ActiveWriter(p, g) /\ ApprovedCandidate(p, runner[r].unchanged)
      /\ HeadUnmoved(base) /\ AcceptanceCheckpoint(base)
  BY DEF SwitchPublication, SwitchOutcome
<1>2. PICK rev : CompletePublication(p, rev)
  BY DEF SwitchPublication, AcceptUnchanged, SwitchRevision
<1>3. /\ candidate[p].state = "sealed" /\ operation[p].state = "sealed"
      /\ slot[GameOf[p]] = p
  BY <1>1 DEF ApprovedCandidate
<1>4. /\ candidate' = [candidate EXCEPT ![p] = [candidate[p] EXCEPT !.state = "published"]]
      /\ publication' = [publication EXCEPT ![p] =
           [publication[p] EXCEPT !.state = "published", !.result = rev]]
      /\ slot' = [h \in Games |-> IF slot[h] = p THEN None ELSE slot[h]]
      /\ accepted' = [accepted EXCEPT ![GameOf[p]] = p]
      /\ acceptance_head' = p
      /\ checkpoint' = [checkpoint EXCEPT ![p] = "reserved"]
      /\ operation' = operation
  BY <1>2 DEF CompletePublication
<1>5. candidate'[p].state = "published"
  BY <1>0, <1>4 DEF CandidateRows
<1>6. publication'[p].state = "published"
  BY <1>0, <1>4 DEF PublicationRows
<1>7. \A q \in Preparations : q # p =>
        /\ candidate'[q] = candidate[q] /\ publication'[q] = publication[q]
        /\ checkpoint'[q] = checkpoint[q]
  BY <1>0, <1>4
<1>8. \A h \in Games : h # GameOf[p] => head'[h] = head[h] /\ accepted'[h] = accepted[h]
  BY <1>0, <1>4 DEF SwitchPublication, AcceptUnchanged, SwitchRevision
<1> HIDE DEF p, g, base
<1>9. SlotHeldByLiveCandidate'
  BY SMT, <1>0, <1>3, <1>4, <1>5, <1>7 DEF RowInvariant, SlotHeldByLiveCandidate
<1>10. LiveCandidateIsCurrent'
  <2> SUFFICES ASSUME NEW q \in Preparations, candidate'[q].state \in Live
               PROVE  candidate'[q].expected = head'[GameOf[q]]
                      /\ candidate'[q].predecessor = accepted'[GameOf[q]]
    BY DEF LiveCandidateIsCurrent
  <2>1. q # p /\ candidate[q].state \in Live
    BY <1>5, <1>7
  <2>2. GameOf[q] # GameOf[p]
    BY <1>0, <1>3, <2>1 DEF RowInvariant, SlotHeldByLiveCandidate
  <2> QED
    BY <1>0, <1>7, <1>8, <2>1, <2>2 DEF RowInvariant, LiveCandidateIsCurrent
<1>11. CandidateMirrorsOperation'
  BY <1>3, <1>4, <1>5, <1>7 DEF RowInvariant, CandidateMirrorsOperation
<1>12. PublishedTogether'
  BY <1>5, <1>6, <1>7 DEF RowInvariant, PublishedTogether
<1>13. NothingPublishedAtSpine'
  <2>1. CASE runner[r].unchanged
    <3>1. EqualGameSemantics(p) /\ current_revision' = current_revision
      BY <1>1, <2>1 DEF ApprovedCandidate, SwitchPublication, AcceptUnchanged
    <3>2. accepted[GameOf[p]] \in Preparations /\ candidate[accepted[GameOf[p]]].state = "published"
      BY <1>0, <3>1 DEF EqualGameSemantics
    <3> QED
      BY <3>1, <3>2 DEF RowInvariant, NothingPublishedAtSpine
  <2>2. CASE ~runner[r].unchanged
    BY <1>0, <2>2 DEF SwitchPublication, SwitchRevision, NothingPublishedAtSpine, p
  <2> QED
    BY <2>1, <2>2
<1>14. OnlyLatestAcceptanceUnprotected'
  <2> SUFFICES ASSUME NEW q \in Preparations, publication'[q].state = "published", q # p
               PROVE  checkpoint[q] = "verified"
    BY <1>4, <1>7 DEF OnlyLatestAcceptanceUnprotected
  <2>1. publication[q].state = "published" /\ candidate[q].state = "published"
    BY <1>7 DEF RowInvariant, PublishedTogether
  <2>2. base # Spine
    BY <1>1, <2>1 DEF HeadUnmoved, RowInvariant, NothingPublishedAtSpine
  <2>3. acceptance_head \in Preparations /\ checkpoint[acceptance_head] = "verified"
    BY <1>1, <2>2 DEF AcceptanceCheckpoint
  <2> QED
    BY <2>1, <2>3 DEF RowInvariant, OnlyLatestAcceptanceUnprotected
<1> QED
  BY <1>9, <1>10, <1>11, <1>12, <1>13, <1>14 DEF RowInvariant

(* The classification of an accepted recovery keeps the rows related. *)
LEMMA RecoveryKeepsRows ==
  ASSUME TypeOK, RowInvariant, AcceptRecovery, UNCHANGED headVars
  PROVE  RowInvariant'
<1> DEFINE abandoned == {p \in Preparations : candidate[p].state # "published"
                                               /\ operation[p].state \in Live}
<1>0. /\ \A p \in Preparations : candidate[p] \in CandidateRows /\ publication[p] \in PublicationRows
      /\ slot \in [Games -> Preparations \cup {None}]
      /\ None \notin Preparations /\ GameOf \in [Preparations -> Games]
      /\ UNCHANGED <<head, accepted, current_revision, acceptance_head, checkpoint>>
  BY PreparationAssumption DEF TypeOK, PreparationTypeOK, PublicationTypeOK, AcceptRecovery, headVars
<1>1. \A p \in Preparations : p \in abandoned => candidate[p].state \in Live
  BY DEF RowInvariant, CandidateMirrorsOperation
<1>2. ASSUME NEW p \in Preparations
      PROVE  /\ p \in abandoned =>
                  /\ operation'[p].state = "abandoned"
                  /\ operation'[p].generation = operation[p].generation + 1
                  /\ candidate'[p] = [candidate[p] EXCEPT !.state = "abandoned",
                                        !.generation = candidate[p].generation + 1]
             /\ p \notin abandoned => operation'[p] = operation[p] /\ candidate'[p] = candidate[p]
  BY <1>1 DEF AcceptRecovery
<1>3. ASSUME NEW p \in Preparations, p \in abandoned
      PROVE  /\ candidate'[p].state = "abandoned"
             /\ candidate'[p].generation = candidate[p].generation + 1
  BY <1>0, <1>2, <1>3 DEF CandidateRows
<1>4. ASSUME NEW p \in Preparations
      PROVE  publication'[p].state = "published" <=> publication[p].state = "published"
  <2>1. publication'[p] \in {publication[p], [publication[p] EXCEPT !.state = "failed",
                                               !.generation = publication[p].generation + 1]}
    BY DEF AcceptRecovery
  <2>2. publication'[p] # publication[p] => publication[p].state \in Active \cup {"retry_paused"}
    BY DEF AcceptRecovery
  <2>3. [publication[p] EXCEPT !.state = "failed",
           !.generation = publication[p].generation + 1].state = "failed"
    BY <1>0 DEF PublicationRows
  <2> QED
    BY <2>1, <2>2, <2>3
<1>5. slot' = [g \in Games |-> IF slot[g] \in abandoned THEN None ELSE slot[g]]
  BY DEF AcceptRecovery
<1>6. \A p \in Preparations : p \notin abandoned => (candidate[p].state \in Live <=> FALSE)
  BY DEF RowInvariant, CandidateMirrorsOperation
<1>7. /\ \A p \in Preparations : p \in abandoned =>
           /\ candidate[p].state \in Live /\ candidate'[p].state = "abandoned"
           /\ candidate'[p].generation = candidate[p].generation + 1
           /\ operation'[p].state = "abandoned"
           /\ operation'[p].generation = operation[p].generation + 1
      /\ \A p \in Preparations : p \notin abandoned =>
           /\ candidate[p].state \notin Live
           /\ operation'[p] = operation[p] /\ candidate'[p] = candidate[p]
  <2> HIDE DEF abandoned
  <2> QED
    BY <1>1, <1>2, <1>3, <1>6
<1> HIDE DEF abandoned
<1>8. SlotHeldByLiveCandidate'
  BY SMT, <1>0, <1>5, <1>7 DEF RowInvariant, SlotHeldByLiveCandidate
<1>9. LiveCandidateIsCurrent'
  BY <1>7 DEF LiveCandidateIsCurrent
<1>10. CandidateMirrorsOperation'
  BY SMT, <1>7 DEF RowInvariant, CandidateMirrorsOperation
<1>11. PublishedTogether' /\ NothingPublishedAtSpine' /\ OnlyLatestAcceptanceUnprotected'
  BY <1>0, <1>4, <1>7 DEF RowInvariant, PublishedTogether, NothingPublishedAtSpine,
     OnlyLatestAcceptanceUnprotected
<1> QED
  BY <1>8, <1>9, <1>10, <1>11 DEF RowInvariant

-----------------------------------------------------------------------------
(* What is served. *)

(* What the assignments of an execution leave of its publication and target. *)
LEMMA RunnerFields ==
  ASSUME NEW x \in RunnerStates
  PROVE  /\ \A to : LET f == [x EXCEPT !.pc = "update", !.to = to]
                    IN  f.p = x.p /\ f.to = to
         /\ \A n : LET f == [x EXCEPT !.pc = "compose", !.tries = n]
                   IN  f.p = x.p /\ f.to = x.to
  BY DEF RunnerStates

(* Composing only sets what is to be switched to. *)
LEMMA ComposedFields ==
  ASSUME NEW x \in RunnerStates, NEW b, NEW ms
  PROVE  LET f == [x EXCEPT !.pc = "switch", !.base = b, !.members = ms]
         IN  f.p = x.p /\ f.to = x.to
  BY DEF RunnerStates

(* Only executions that own a publication leave the idle state. *)
LEMMA NextHasWork ==
  ASSUME TypeOK, RunnerHasWork, Next
  PROVE  RunnerHasWork'
<1>1. CASE UNCHANGED runner
  BY <1>1 DEF RunnerHasWork
<1>2. ASSUME NEW r \in Runners, Return(r) PROVE RunnerHasWork'
  BY <1>2, GotoHasWork DEF Return, IdleRunner
<1>3. ASSUME NEW r \in Runners, runner[r].pc \in {"compose", "switch", "update"},
             NEW to \in PublicationStates \ {"published"}, Decide(r, to)
      PROVE  RunnerHasWork'
  <2>1. runner[r] \in RunnerStates /\ runner[r].p \in Preparations
    BY <1>3 DEF TypeOK, PublicationTypeOK, RunnerHasWork
  <2>2. /\ [runner[r] EXCEPT !.pc = "update", !.to = to].p \in Preparations
        /\ [runner[r] EXCEPT !.pc = "update", !.to = to].to = to
    BY <2>1, RunnerFields
  <2> QED
    BY <1>3, <2>2, GotoHasWork DEF Decide
<1>4. ASSUME NEW r \in Runners, NEW p \in Preparations, NEW g, AdvanceGamePublication(r, p, g)
      PROVE  RunnerHasWork'
  <2> DEFINE begun == [IdleRunner EXCEPT !.p = p, !.generation = g]
  <2>1. /\ \A to \in {"failed", "waiting_artifacts"} :
             /\ [begun EXCEPT !.pc = "update", !.to = to].p = p
             /\ [begun EXCEPT !.pc = "update", !.to = to].to # "published"
        /\ \A u : [begun EXCEPT !.pc = "compose", !.unchanged = u].p = p
                  /\ [begun EXCEPT !.pc = "compose", !.unchanged = u].to # "published"
    BY DEF IdleRunner
  <2>2. \/ \E to \in {"failed", "waiting_artifacts"} :
            Goto(r, [begun EXCEPT !.pc = "update", !.to = to])
        \/ \E u \in BOOLEAN : Goto(r, [begun EXCEPT !.pc = "compose", !.unchanged = u])
    BY <1>4 DEF AdvanceGamePublication
  <2> HIDE DEF begun
  <2>3. ASSUME NEW to \in {"failed", "waiting_artifacts"},
               Goto(r, [begun EXCEPT !.pc = "update", !.to = to])
        PROVE  RunnerHasWork'
    BY <2>1, <2>3, GotoHasWork
  <2>4. ASSUME NEW u \in BOOLEAN, Goto(r, [begun EXCEPT !.pc = "compose", !.unchanged = u])
        PROVE  RunnerHasWork'
    BY <2>1, <2>4, GotoHasWork
  <2> QED
    BY <2>2, <2>3, <2>4
<1>5. ASSUME NEW r \in Runners, ComposePublication(r) \/ SwitchRefused(r)
      PROVE  RunnerHasWork'
  <2>1. /\ runner[r] \in RunnerStates /\ runner[r].p \in Preparations
        /\ runner[r].pc \in {"compose", "switch", "update"} /\ runner[r].to # "published"
    BY <1>5 DEF TypeOK, PublicationTypeOK, RunnerHasWork, ComposePublication, SwitchRefused
  <2>2. ASSUME NEW b, NEW ms
        PROVE  LET f == [runner[r] EXCEPT !.pc = "switch", !.base = b, !.members = ms]
               IN  f.p = runner[r].p /\ f.to = runner[r].to
    BY <2>1, ComposedFields, SMT
  <2>3. ASSUME NEW n
        PROVE  LET f == [runner[r] EXCEPT !.pc = "compose", !.tries = n]
               IN  f.p = runner[r].p /\ f.to = runner[r].to
    BY <2>1, RunnerFields
  <2>4. CASE ComposePublication(r)
    BY <1>3, <2>1, <2>2, <2>4, GotoHasWork DEF ComposePublication
  <2>5. CASE SwitchRefused(r)
    BY <1>2, <1>3, <2>1, <2>3, <2>5, GotoHasWork DEF SwitchRefused
  <2> QED
    BY <1>5, <2>4, <2>5
<1>6. ASSUME NEW r \in Runners, Engine(r) PROVE RunnerHasWork'
  BY <1>2, <1>6, GotoHasWork DEF Engine, CrashRunner, RetryStep, IdleRunner
<1>7. ASSUME NEW r \in Runners, Commit(r) PROVE RunnerHasWork'
  BY <1>2, <1>7 DEF Commit, SwitchPublication, UpdateFromRunner
<1> QED
  BY <1>1, <1>4, <1>5, <1>6, <1>7 DEF Next, OwnerStep, PrepareArtifacts, PrepareExports,
     Checkpoint, OwnerFrame, Begin, Compose, Refused

(* Every step keeps the rows related. *)
LEMMA NextKeepsRows ==
  ASSUME TypeOK, RunnerHasWork, RowInvariant, Next
  PROVE  RowInvariant'
<1>1. CASE FenceStep /\ UNCHANGED <<preparationVars, headVars, publicationVars, runner>>
  BY <1>1, RowsUnchanged DEF preparationVars, headVars, publicationVars
<1>2. CASE PreparationStep /\ UNCHANGED <<operationStateVars, headVars, publicationVars, runner>>
  BY <1>2, PreparationKeepsRows
<1>3. ASSUME NEW p \in Preparations,
             OwnerStep(p) \/ PrepareArtifacts(p) \/ PrepareExports(p) \/ Checkpoint(p)
      PROVE  RowInvariant'
  BY <1>3, OwnerKeepsRows
<1>4. CASE ReadFrame
  BY <1>4, RowsUnchanged DEF ReadFrame, preparationVars, headVars, publicationVars
<1>5. ASSUME NEW r \in Runners, Commit(r) PROVE RowInvariant'
  <2>1. CASE SwitchPublication(r)
    BY <2>1, SwitchKeepsRows
  <2>2. CASE UpdateFromRunner(r) /\ UNCHANGED <<operationStateVars, preparationVars, headVars>>
    <3>1. runner[r].p \in Preparations /\ runner[r].to \in PublicationStates
          /\ runner[r].to # "published"
      BY <2>2 DEF UpdateFromRunner, RunnerHasWork, TypeOK, PublicationTypeOK, RunnerStates
    <3> QED
      BY <2>2, <3>1, UpdateKeepsRows DEF UpdateFromRunner
  <2> QED
    BY <1>5, <2>1, <2>2 DEF Commit
<1>6. CASE AcceptRecovery /\ UNCHANGED <<headVars, runner>>
  BY <1>6, RecoveryKeepsRows
<1> QED
  BY <1>1, <1>2, <1>3, <1>4, <1>5, <1>6 DEF Next, Begin, Compose, Refused, Engine

(* What a step other than a switch leaves alone: heads, evidence, revisions *)
(* and the facts of every candidate that is sealed or published.            *)
FactsKept ==
  \A p \in Preparations :
    /\ candidate[p].state = "published" => candidate'[p] = candidate[p]
    /\ candidate[p].state = "sealed" =>
         candidate'[p] = candidate[p] \/ candidate'[p].state \notin {"sealed", "published"}
    /\ candidate'[p].state = "published" => candidate[p].state = "published"
    /\ candidate'[p].state = "sealed" => candidate'[p].content \in Contents
Quiet ==
  /\ FactsKept
  /\ UNCHANGED <<head, accepted, current_revision, composition, previous, queryable,
                 acceptance_head>>

(* Moving an operation never touches the facts of a published candidate.    *)
LEMMA MoveKeepsFacts ==
  ASSUME TypeOK, RowInvariant, SealedHasContent, NEW p \in Preparations,
         NEW op \in OperationRows, op.state \notin {"absent", "sealed"}, MoveOperation(p, op)
  PROVE  FactsKept
<1>0. candidate \in [Preparations -> CandidateRows] /\ candidate[p] \in CandidateRows
  BY DEF TypeOK, PreparationTypeOK
<1>1. /\ \A q \in Preparations : q # p => candidate'[q] = candidate[q]
      /\ candidate'[p] = SynchronizedCandidate(p, op)
  BY <1>0 DEF MoveOperation
<1>2. op.state \notin {"sealed", "published"}
  BY DEF OperationRows
<1>3. [candidate[p] EXCEPT !.state = op.state, !.generation = op.generation].state = op.state
  BY <1>0 DEF CandidateRows
<1>4. \/ candidate'[p] = candidate[p]
      \/ candidate[p].state # "published" /\ candidate'[p].state = op.state
  BY <1>1, <1>3 DEF SynchronizedCandidate
<1> QED
  BY <1>1, <1>2, <1>4 DEF FactsKept, SealedHasContent

(* No preparation step does: a candidate gets its facts when it is sealed.  *)
LEMMA PreparationKeepsFacts ==
  ASSUME TypeOK, RowInvariant, SealedHasContent, PreparationStep
  PROVE  FactsKept
<1>p. PICK p \in Preparations :
      \/ CreateGameReconciliation(p) \/ DispatchGamePreparation(p)
      \/ \E g \in 0..MaxGeneration :
           \/ \E c \in Contents : SealCandidate(p, g, c)
           \/ FailPreparation(p, g) \/ PauseFailedReconciliation(p, g)
      \/ PausePreparation(p) \/ ResumePreparation(p)
      \/ AbandonPreparation(p) \/ ExpirePreparation(p)
  BY DEF PreparationStep
<1>0. /\ candidate \in [Preparations -> CandidateRows] /\ candidate[p] \in CandidateRows
      /\ operation[p] \in OperationRows
  BY DEF TypeOK, PreparationTypeOK
<1>1. CASE CreateGameReconciliation(p)
  <2>1. candidate[p].state = "absent"
    BY <1>1 DEF CreateGameReconciliation, RowInvariant, CandidateMirrorsOperation
  <2>2. /\ \A q \in Preparations : q # p => candidate'[q] = candidate[q]
        /\ candidate'[p].state = "preparing"
    BY <1>0, <1>1 DEF CreateGameReconciliation
  <2> QED
    BY <2>1, <2>2 DEF FactsKept, SealedHasContent
<1>2. CASE UNCHANGED candidate
  BY <1>2 DEF FactsKept, SealedHasContent
<1>3. ASSUME NEW g \in 0..MaxGeneration, NEW c \in Contents, SealCandidate(p, g, c)
      PROVE  FactsKept
  <2>1. /\ candidate[p].state = "preparing"
        /\ candidate' = [candidate EXCEPT ![p] =
             [candidate[p] EXCEPT !.state = "sealed", !.content = c]]
    BY <1>3 DEF SealCandidate
  <2>2. candidate'[p].state = "sealed" /\ candidate'[p].content = c
    BY <1>0, <2>1 DEF CandidateRows
  <2>3. \A q \in Preparations : q # p => candidate'[q] = candidate[q]
    BY <1>0, <2>1
  <2> QED
    BY <2>1, <2>2, <2>3 DEF FactsKept, SealedHasContent
<1>4. ASSUME NEW g \in 0..MaxGeneration,
             FailPreparation(p, g) \/ PauseFailedReconciliation(p, g)
      PROVE  FactsKept
  <2>1. /\ [operation[p] EXCEPT !.state = "failed"] \in OperationRows
        /\ [operation[p] EXCEPT !.state = "failed"].state = "failed"
        /\ [state |-> "paused", generation |-> g + 1] \in OperationRows
    BY <1>0, PreparationAssumption, SMT DEF OperationRows
  <2> QED
    BY <1>4, <2>1, MoveKeepsFacts DEF FailPreparation, PauseFailedReconciliation
<1>5. CASE PausePreparation(p) \/ ResumePreparation(p) \/ AbandonPreparation(p)
  <2>1. /\ [state |-> "paused", generation |-> operation[p].generation + 1] \in OperationRows
        /\ [operation[p] EXCEPT !.state = "preparing"] \in OperationRows
        /\ [operation[p] EXCEPT !.state = "preparing"].state = "preparing"
        /\ [state |-> "abandoned", generation |-> operation[p].generation + 1] \in OperationRows
    BY <1>0, SMT DEF OperationRows
  <2> QED
    BY <1>5, <2>1, MoveKeepsFacts DEF PausePreparation, ResumePreparation, AbandonPreparation
<1> QED
  BY <1>p, <1>1, <1>2, <1>3, <1>4, <1>5 DEF DispatchGamePreparation, ExpirePreparation

(* An accepted recovery abandons candidates in flight, and only those.      *)
LEMMA RecoveryKeepsFacts ==
  ASSUME TypeOK, SealedHasContent, AcceptRecovery
  PROVE  FactsKept
<1> SUFFICES ASSUME NEW p \in Preparations
             PROVE  \/ candidate'[p] = candidate[p]
                    \/ candidate[p].state # "published" /\ candidate'[p].state = "abandoned"
  BY DEF FactsKept, SealedHasContent
<1>1. candidate[p] \in CandidateRows
  BY DEF TypeOK, PreparationTypeOK
<1>2. [candidate[p] EXCEPT !.state = "abandoned",
         !.generation = candidate[p].generation + 1].state = "abandoned"
  BY <1>1 DEF CandidateRows
<1> QED
  BY <1>2 DEF AcceptRecovery

(* Every step is quiet, or the one batch that switches.                     *)
LEMMA QuietOrSwitch ==
  ASSUME TypeOK, RowInvariant, SealedHasContent, [Next]_vars
  PROVE  \/ Quiet /\ UNCHANGED checkpoint
         \/ Quiet /\ \E p \in Preparations : VerifyCheckpoint(p)
         \/ \E r \in Runners : SwitchPublication(r)
<1> USE DEF Quiet
<1>1. CASE UNCHANGED <<preparationVars, headVars, publicationVars>>
  <2>1. UNCHANGED candidate
    BY <1>1 DEF preparationVars
  <2> QED
    BY <1>1, <2>1 DEF FactsKept, SealedHasContent, headVars, publicationVars
<1>2. CASE PreparationStep /\ UNCHANGED <<operationStateVars, headVars, publicationVars, runner>>
  BY <1>2, PreparationKeepsFacts DEF headVars, publicationVars
<1>3. ASSUME NEW p \in Preparations,
             OwnerStep(p) \/ PrepareArtifacts(p) \/ PrepareExports(p) \/ Checkpoint(p)
      PROVE  Quiet /\ (UNCHANGED checkpoint \/ VerifyCheckpoint(p))
  <2>1. UNCHANGED <<candidate, head, accepted>>
    BY <1>3 DEF OwnerStep, PrepareArtifacts, PrepareExports, Checkpoint, OwnerFrame,
       preparationVars, headVars
  <2>2. /\ UNCHANGED <<current_revision, composition, previous, queryable, acceptance_head>>
        /\ UNCHANGED checkpoint \/ VerifyCheckpoint(p)
    BY <1>3 DEF OwnerStep, ApproveGamePublication, DispatchGamePublication,
       PauseGamePublication, UpdatePublicationState, ResumeGamePublication, PrepareArtifacts,
       StartPublicationPreparation, FinishArtifacts, RetainPublicationFence, MoveArtifacts,
       PrepareExports, FinishExports, Checkpoint, VerifyCheckpoint
  <2> QED
    BY <2>1, <2>2 DEF FactsKept, SealedHasContent
<1>4. ASSUME NEW r \in Runners, Commit(r)
      PROVE  (Quiet /\ UNCHANGED checkpoint) \/ SwitchPublication(r)
  <2>1. CASE UpdateFromRunner(r) /\ UNCHANGED <<operationStateVars, preparationVars, headVars>>
    BY <2>1 DEF UpdateFromRunner, UpdatePublicationState, FactsKept, SealedHasContent,
       preparationVars, headVars
  <2> QED
    BY <1>4, <2>1 DEF Commit
<1>5. CASE AcceptRecovery /\ UNCHANGED <<headVars, runner>>
  <2>1. FactsKept
    BY <1>5, RecoveryKeepsFacts
  <2> QED
    BY <1>5, <2>1 DEF AcceptRecovery, headVars
<1>6. CASE UNCHANGED vars
  BY <1>1, <1>6 DEF vars
<1> QED
  BY <1>1, <1>2, <1>3, <1>4, <1>5, <1>6 DEF Next, Begin, Compose, Refused, Engine, ReadFrame

(* What the batch of a switch does to the rows that readers see: fresh      *)
(* evidence for the same facts, or a new revision on the current one.       *)
Switched(p) ==
  /\ candidate[p].state = "sealed"
  /\ candidate'[p].state = "published" /\ candidate'[p].content = candidate[p].content
  /\ \A q \in Preparations \ {p} : candidate'[q] = candidate[q]
  /\ accepted' = [accepted EXCEPT ![GameOf[p]] = p]
  /\ acceptance_head' = p
  /\ checkpoint' = [checkpoint EXCEPT ![p] = "reserved"]
  /\ AcceptanceCheckpoint(current_revision)
  /\ \/ /\ EqualGameSemantics(p)
        /\ UNCHANGED <<head, current_revision, composition, previous, queryable>>
     \/ /\ head' = [head EXCEPT ![GameOf[p]] = p]
        /\ current_revision' = p
        /\ composition' = [composition EXCEPT ![p] =
             [composition[current_revision] EXCEPT ![GameOf[p]] = p]]
        /\ previous' = [previous EXCEPT ![p] = current_revision]
        /\ queryable' = (queryable \cup {p}) \cap QueryWindow(p, previous')

(* The runner's reads may be stale, what it commits is not: the guards of   *)
(* the batch leave only a switch on the rows as they are.                   *)
LEMMA SwitchIsCurrent ==
  ASSUME TypeOK, RunnerHasWork, NEW r \in Runners, SwitchPublication(r)
  PROVE  runner[r].p \in Preparations /\ Switched(runner[r].p)
<1> DEFINE x == runner[r]
           p == runner[r].p
<1>1. p \in Preparations
  BY DEF SwitchPublication, RunnerHasWork
<1>2. candidate \in [Preparations -> CandidateRows] /\ candidate[p] \in CandidateRows
  BY <1>1 DEF TypeOK, PreparationTypeOK
<1>3. /\ ApprovedCandidate(p, x.unchanged) /\ AcceptanceCheckpoint(x.base)
      /\ current_revision = x.base
      /\ x.unchanged \/ x.members = [composition[x.base] EXCEPT ![GameOf[p]] = p]
  BY DEF SwitchPublication, SwitchOutcome, HeadUnmoved
<1>4. PICK rev : CompletePublication(p, rev)
  BY DEF SwitchPublication, AcceptUnchanged, SwitchRevision
<1>5. /\ candidate' = [candidate EXCEPT ![p] = [candidate[p] EXCEPT !.state = "published"]]
      /\ accepted' = [accepted EXCEPT ![GameOf[p]] = p]
      /\ acceptance_head' = p
      /\ checkpoint' = [checkpoint EXCEPT ![p] = "reserved"]
  BY <1>4 DEF CompletePublication
<1>6. candidate'[p].state = "published" /\ candidate'[p].content = candidate[p].content
  <2>1. candidate'[p] = [candidate[p] EXCEPT !.state = "published"]
    BY <1>1, <1>2, <1>5
  <2> QED
    BY <1>2, <2>1 DEF CandidateRows
<1>7. \A q \in Preparations \ {p} : candidate'[q] = candidate[q]
  BY <1>2, <1>5
<1>8. candidate[p].state = "sealed"
  BY <1>3 DEF ApprovedCandidate
<1>9. CASE x.unchanged
  <2>1. /\ EqualGameSemantics(p)
        /\ UNCHANGED <<head, current_revision, composition, previous, queryable>>
    BY <1>3, <1>9 DEF ApprovedCandidate, SwitchPublication, AcceptUnchanged
  <2> QED
    BY <1>1, <1>3, <1>5, <1>6, <1>7, <1>8, <2>1 DEF Switched
<1>10. CASE ~x.unchanged
  <2>1. SwitchRevision(p, current_revision,
                       [composition[current_revision] EXCEPT ![GameOf[p]] = p])
    BY <1>3, <1>10 DEF SwitchPublication
  <2> QED
    BY <1>1, <1>3, <1>5, <1>6, <1>7, <1>8, <2>1 DEF Switched, SwitchRevision
<1> QED
  BY <1>9, <1>10

(* Quiet steps keep what is served, accepted and queryable as it was.       *)
LEMMA QuietKeepsServing ==
  ASSUME TypeOK, ServingInvariant, Quiet
  PROVE  /\ CompositionMatchesHeads' /\ ServedFactsAreAccepted'
         /\ PredecessorStaysQueryable' /\ PublishedIsServed' /\ SealedHasContent'
<1>0. /\ current_revision \in Preparations \cup {Spine}
      /\ \A g \in Games : /\ accepted[g] \in Preparations \cup {None}
                          /\ composition[current_revision][g] \in Preparations \cup {None}
  BY SMT DEF TypeOK, PreparationTypeOK, PublicationTypeOK, Compositions, Revisions
<1>1. /\ UNCHANGED <<head, accepted, current_revision, composition, previous, queryable>>
      /\ \A p \in Preparations : candidate[p].state = "published" => candidate'[p] = candidate[p]
  BY DEF Quiet, FactsKept
<1>2. CompositionMatchesHeads'
  BY <1>1 DEF ServingInvariant, CompositionMatchesHeads
<1>3. ServedFactsAreAccepted'
  BY <1>0, <1>1 DEF ServingInvariant, ServedFactsAreAccepted, PublishedIsServed
<1>4. PredecessorStaysQueryable'
  BY <1>1 DEF ServingInvariant, PredecessorStaysQueryable
<1>5. PublishedIsServed'
  BY <1>0, <1>1 DEF ServingInvariant, PublishedIsServed
<1>6. SealedHasContent'
  BY DEF Quiet, FactsKept, ServingInvariant, SealedHasContent
<1> QED
  BY <1>2, <1>3, <1>4, <1>5, <1>6

(* A switch serves its candidate for its game and the same candidates for   *)
(* the others, and keeps the revision it replaces within the query window.  *)
LEMMA SwitchKeepsServing ==
  ASSUME TypeOK, ServingInvariant, NEW p \in Preparations, Switched(p)
  PROVE  /\ CompositionMatchesHeads' /\ ServedFactsAreAccepted'
         /\ PredecessorStaysQueryable' /\ PublishedIsServed' /\ SealedHasContent'
<1> DEFINE g == GameOf[p]
           now == composition[current_revision]
<1>0. /\ g \in Games /\ p # None /\ p # Spine /\ None # Spine
      /\ None \notin Preparations /\ Spine \notin Preparations
      /\ current_revision \in Preparations \cup {Spine}
      /\ now \in [Games -> Preparations \cup {None}]
      /\ accepted \in [Games -> Preparations \cup {None}]
      /\ head \in [Games -> Revisions]
      /\ composition \in [Revisions -> [Games -> Preparations \cup {None}]]
      /\ previous \in [Revisions -> Revisions \cup {None}]
      /\ p \in Revisions
  BY PreparationAssumption DEF TypeOK, PreparationTypeOK, PublicationTypeOK, Compositions, Revisions
<1>1. /\ candidate[p].state = "sealed" /\ candidate[p].content \in Contents
      /\ candidate'[p].state = "published" /\ candidate'[p].content = candidate[p].content
      /\ \A q \in Preparations \ {p} : candidate'[q] = candidate[q]
      /\ accepted'[g] = p
      /\ \A h \in Games \ {g} : accepted'[h] = accepted[h]
  BY <1>0 DEF Switched, ServingInvariant, SealedHasContent
<1>2. /\ current_revision # p
      /\ \A h \in Games : now[h] # p /\ accepted[h] # p
  BY <1>0, <1>1 DEF ServingInvariant, PublishedIsServed
<1>3. SealedHasContent'
  BY <1>1 DEF ServingInvariant, SealedHasContent
<1>4. CASE EqualGameSemantics(p)
           /\ UNCHANGED <<head, current_revision, composition, previous, queryable>>
  <2>1. CompositionMatchesHeads' /\ PredecessorStaysQueryable'
    BY <1>4 DEF ServingInvariant, CompositionMatchesHeads, PredecessorStaysQueryable
  <2>2. PublishedIsServed'
    BY <1>0, <1>1, <1>2, <1>4, SMT DEF ServingInvariant, PublishedIsServed
  <2>3. /\ accepted[g] \in Preparations
        /\ candidate[p].content = candidate[accepted[g]].content
    BY <1>0, <1>4 DEF EqualGameSemantics
  <2>4. ServedFactsAreAccepted'
    BY <1>0, <1>1, <1>2, <1>4, <2>3, SMT DEF ServingInvariant, ServedFactsAreAccepted
  <2> QED
    BY <1>3, <2>1, <2>2, <2>4
<1>5. ASSUME head' = [head EXCEPT ![g] = p],
             current_revision' = p,
             composition' = [composition EXCEPT ![p] = [now EXCEPT ![g] = p]],
             previous' = [previous EXCEPT ![p] = current_revision],
             queryable' = (queryable \cup {p}) \cap QueryWindow(p, previous')
      PROVE  /\ CompositionMatchesHeads' /\ ServedFactsAreAccepted'
             /\ PredecessorStaysQueryable' /\ PublishedIsServed'
  <2>1. /\ composition'[current_revision'][g] = p /\ head'[g] = p
        /\ \A h \in Games \ {g} : /\ composition'[current_revision'][h] = now[h]
                                  /\ head'[h] = head[h]
    BY <1>0, <1>5
  <2>2. CompositionMatchesHeads'
    BY <1>0, <2>1 DEF ServingInvariant, CompositionMatchesHeads
  <2>3. ServedFactsAreAccepted'
    BY <1>0, <1>1, <1>2, <2>1, SMT DEF ServingInvariant, ServedFactsAreAccepted
  <2>4. PublishedIsServed'
    BY <1>0, <1>1, <1>2, <1>5, <2>1, SMT DEF ServingInvariant, PublishedIsServed
  <2>5. previous'[p] = current_revision /\ current_revision # None
    BY <1>0, <1>5
  <2>6. {p, current_revision} \subseteq QueryWindow(p, previous')
    BY <2>5 DEF QueryWindow
  <2>7. PredecessorStaysQueryable'
    BY <1>0, <1>5, <2>5, <2>6 DEF ServingInvariant, PredecessorStaysQueryable
  <2> QED
    BY <2>2, <2>3, <2>4, <2>7
<1> QED
  BY <1>3, <1>4, <1>5 DEF Switched

(* Every step keeps served, accepted and current related.                   *)
LEMMA NextKeepsServing ==
  ASSUME TypeOK, RunnerHasWork, RowInvariant, ServingInvariant, [Next]_vars, RowInvariant'
  PROVE  ServingInvariant'
<1>0. /\ SealedHasContent /\ PublishedTogether /\ PublishedTogether'
      /\ OnlyAcceptancesHaveBackups
      /\ checkpoint \in [Preparations -> {"none", "reserved", "verified"}]
  BY DEF ServingInvariant, RowInvariant, TypeOK, PublicationTypeOK
<1>1. ASSUME Quiet, \/ UNCHANGED checkpoint
                    \/ \E p \in Preparations : VerifyCheckpoint(p)
      PROVE  ServingInvariant'
  <2>1. \A p \in Preparations : checkpoint'[p] # "none" => checkpoint[p] # "none"
    BY <1>0, <1>1 DEF VerifyCheckpoint
  <2>2. OnlyAcceptancesHaveBackups'
    BY <1>0, <1>1, <2>1 DEF Quiet, FactsKept, PublishedTogether, OnlyAcceptancesHaveBackups
  <2> QED
    BY <1>1, <2>2, QuietKeepsServing DEF ServingInvariant
<1>2. ASSUME NEW p \in Preparations, Switched(p)
      PROVE  ServingInvariant'
  <2>1. /\ candidate'[p].state = "published"
        /\ \A q \in Preparations \ {p} : candidate'[q] = candidate[q]
        /\ \A q \in Preparations \ {p} : checkpoint'[q] = checkpoint[q]
    BY <1>0, <1>2 DEF Switched
  <2>2. OnlyAcceptancesHaveBackups'
    BY <1>0, <2>1 DEF PublishedTogether, OnlyAcceptancesHaveBackups
  <2> QED
    BY <1>2, <2>2, SwitchKeepsServing DEF ServingInvariant
<1> QED
  BY <1>0, <1>1, <1>2, QuietOrSwitch, SwitchIsCurrent

(* The initial rows serve nothing. *)
LEMMA InitServing == Init => ServingInvariant
<1> SUFFICES ASSUME Init PROVE ServingInvariant
  OBVIOUS
<1>1. CompositionMatchesHeads /\ ServedFactsAreAccepted /\ PredecessorStaysQueryable
  BY DEF Init, PreparationInit, PublicationInit, EmptyComposition, Revisions,
     CompositionMatchesHeads, ServedFactsAreAccepted, PredecessorStaysQueryable
<1>2. PublishedIsServed /\ SealedHasContent /\ OnlyAcceptancesHaveBackups
  BY DEF Init, PreparationInit, PublicationInit, EmptyComposition, Revisions,
     PublishedIsServed, SealedHasContent, OnlyAcceptancesHaveBackups
<1> QED
  BY <1>1, <1>2 DEF ServingInvariant

(* Slots, candidates, operations, publications, the backups of acceptances  *)
(* and what is served agree in every reachable state of every instance,     *)
(* under any interleaving of owners, Workflows, backups and recoveries.     *)
THEOREM PublicationIsConsistent == Spec => []PublicationInvariant
<1>0. PublicationInvariant <=> TypeOK /\ RunnerHasWork /\ RowInvariant /\ ServingInvariant
  BY DEF PublicationInvariant, RowInvariant
<1>1. Init => PublicationInvariant
  BY <1>0, InitRows, InitServing
<1>2. PublicationInvariant /\ [Next]_vars => PublicationInvariant'
  <2> SUFFICES ASSUME PublicationInvariant, [Next]_vars PROVE PublicationInvariant'
    OBVIOUS
  <2>1. TypeOK /\ RunnerHasWork /\ RowInvariant /\ ServingInvariant
    BY <1>0
  <2>2. TypeOK' /\ RunnerHasWork' /\ RowInvariant'
    <3>1. CASE Next
      BY <2>1, <3>1, NextTypeOK, NextHasWork, NextKeepsRows
    <3>2. CASE UNCHANGED vars
      <4>1. TypeOK' /\ RunnerHasWork'
        BY <2>1, <3>2, StutterTypeOK DEF vars, RunnerHasWork
      <4> QED
        BY <2>1, <3>2, <4>1, RowsUnchanged DEF vars, preparationVars, headVars, publicationVars
    <3> QED
      BY <3>1, <3>2
  <2>3. ServingInvariant'
    BY <2>1, <2>2, NextKeepsServing
  <2> QED
    BY <2>2, <2>3 DEF PublicationInvariant, RowInvariant
<1> QED
  BY <1>1, <1>2, PTL DEF Spec

(* Every variable keeps its type. *)
COROLLARY TypeCorrect == Spec => []TypeOK
<1>1. PublicationInvariant => TypeOK
  BY DEF PublicationInvariant
<1> QED
  BY <1>1, PublicationIsConsistent, PTL

(* A game's slot is held exactly by its one candidate in flight, which      *)
(* still succeeds the game's head and accepted evidence.                    *)
THEOREM OneCurrentCandidatePerGame ==
  Spec => [](SlotHeldByLiveCandidate /\ LiveCandidateIsCurrent)
<1>1. PublicationInvariant => SlotHeldByLiveCandidate /\ LiveCandidateIsCurrent
  BY DEF PublicationInvariant
<1> QED
  BY <1>1, PublicationIsConsistent, PTL

(* No acceptance but the latest is without a verified backup. *)
THEOREM AcceptancesAreProtected == Spec => []OnlyLatestAcceptanceUnprotected
<1>1. PublicationInvariant => OnlyLatestAcceptanceUnprotected
  BY DEF PublicationInvariant
<1> QED
  BY <1>1, PublicationIsConsistent, PTL

(* No step leaves a final publication state. *)
LEMMA FinalStep ==
  ASSUME PublicationInvariant, [Next]_vars, NEW p \in Preparations,
         publication[p].state \in {"published", "failed"}
  PROVE  publication'[p] = publication[p]
<1> USE DEF publicationVars
<1>0. TypeOK /\ RunnerHasWork /\ publication \in [Preparations -> PublicationRows]
  BY DEF PublicationInvariant, TypeOK, PublicationTypeOK
<1>1. ASSUME NEW q \in Preparations, NEW g, NEW to, UpdatePublicationState(q, g, to)
      PROVE  publication'[p] = publication[p]
  BY <1>0, <1>1 DEF UpdatePublicationState, ActiveWriter
<1>2. ASSUME NEW q \in Preparations,
             OwnerStep(q) \/ PrepareArtifacts(q) \/ PrepareExports(q) \/ Checkpoint(q)
      PROVE  publication'[p] = publication[p]
  <2>1. CASE ApproveGamePublication(q)
    BY <1>0, <2>1 DEF ApproveGamePublication
  <2>2. CASE ResumeGamePublication(q)
    BY <1>0, <2>2 DEF ResumeGamePublication
  <2>3. ASSUME NEW g \in 0..MaxGeneration, PauseGamePublication(q, g)
        PROVE  publication'[p] = publication[p]
    BY <1>1, <2>3 DEF PauseGamePublication
  <2>4. CASE DispatchGamePublication(q) \/ PrepareArtifacts(q) \/ PrepareExports(q) \/ Checkpoint(q)
    BY <2>4 DEF DispatchGamePublication, PrepareArtifacts,
       StartPublicationPreparation, FinishArtifacts, RetainPublicationFence, MoveArtifacts,
       PrepareExports,
       FinishExports, Checkpoint, VerifyCheckpoint
  <2> QED
    BY <1>2, <2>1, <2>2, <2>3, <2>4 DEF OwnerStep
<1>3. ASSUME NEW r \in Runners, Commit(r)
      PROVE  publication'[p] = publication[p]
  <2>1. runner[r].p \in Preparations
    BY <1>0, <1>3 DEF Commit, SwitchPublication, UpdateFromRunner, RunnerHasWork
  <2>2. CASE SwitchPublication(r)
    <3>1. ActiveWriter(runner[r].p, runner[r].generation)
      BY <2>2 DEF SwitchPublication, SwitchOutcome
    <3>2. p # runner[r].p
      BY <3>1 DEF ActiveWriter
    <3>3. PICK rev : CompletePublication(runner[r].p, rev)
      BY <2>2 DEF SwitchPublication, AcceptUnchanged, SwitchRevision
    <3> QED
      BY <1>0, <3>2, <3>3 DEF CompletePublication
  <2>3. CASE UpdateFromRunner(r)
    BY <1>1, <2>1, <2>3 DEF UpdateFromRunner
  <2> QED
    BY <1>3, <2>2, <2>3 DEF Commit
<1>4. CASE AcceptRecovery
  BY <1>4 DEF AcceptRecovery
<1>5. CASE UNCHANGED publication
  BY <1>5
<1> QED
  BY <1>2, <1>3, <1>4, <1>5 DEF Next, vars, Begin, Compose, Refused, Engine, ReadFrame

(* A published or failed publication is final: no execution of any          *)
(* generation, no owner and no recovery changes its row again.              *)
THEOREM FinalIsFinal == Spec => FinalPublicationIsFinal
<1>1. PublicationInvariant /\ [Next]_vars =>
        [\A p \in Preparations : publication[p].state \in {"published", "failed"} =>
           publication'[p] = publication[p]]_vars
  BY FinalStep
<1> QED
  BY <1>1, PublicationIsConsistent, PTL DEF Spec, FinalPublicationIsFinal

(* The current composition names, for every game, the candidate of its      *)
(* head: no publication ever loses another game's, however stale the        *)
(* composition was that its execution had read.                             *)
THEOREM NoGameIsLost == Spec => []CompositionMatchesHeads
<1>1. PublicationInvariant => CompositionMatchesHeads
  BY DEF PublicationInvariant, ServingInvariant
<1> QED
  BY <1>1, PublicationIsConsistent, PTL

(* Readers are served the facts of the evidence accepted last, whether it   *)
(* came with a revision of its own or confirmed the current one.            *)
THEOREM AcceptedFactsAreServed == Spec => []ServedFactsAreAccepted
<1>1. PublicationInvariant => ServedFactsAreAccepted
  BY DEF PublicationInvariant, ServingInvariant
<1> QED
  BY <1>1, PublicationIsConsistent, PTL

(* Archiving old query revisions never takes the current one or the one     *)
(* before it from its readers.                                              *)
THEOREM PredecessorIsQueryable == Spec => []PredecessorStaysQueryable
<1>1. PublicationInvariant => PredecessorStaysQueryable
  BY DEF PublicationInvariant, ServingInvariant
<1> QED
  BY <1>1, PublicationIsConsistent, PTL

(* An execution that ends has not moved a row of another generation.        *)
LEMMA StaleRunnerStep ==
  ASSUME PublicationInvariant, [Next]_vars, NEW r \in Runners,
         runner[r].pc \in {"switch", "update"}, runner'[r].pc = "idle",
         publication[runner[r].p].generation # runner[r].generation
  PROVE  publication'[runner[r].p] = publication[runner[r].p]
<1>0. runner \in [Runners -> RunnerStates] /\ IdleRunner.pc = "idle"
  BY DEF PublicationInvariant, TypeOK, PublicationTypeOK, IdleRunner
<1>1. ~ActiveWriter(runner[r].p, runner[r].generation)
  BY DEF ActiveWriter
<1>2. runner' # runner
  OBVIOUS
<1>3. ASSUME NEW q \in Runners, Commit(q)
      PROVE  publication'[runner[r].p] = publication[runner[r].p]
  <2>1. q = r
    BY <1>0, <1>3 DEF Commit, SwitchPublication, UpdateFromRunner, Return, Goto
  <2>2. ~SwitchPublication(r)
    BY <1>1 DEF SwitchPublication, SwitchOutcome
  <2> QED
    BY <1>1, <1>3, <2>1, <2>2 DEF Commit, UpdateFromRunner, UpdatePublicationState
<1>4. CASE UNCHANGED publication
  BY <1>4
<1> QED
  BY <1>2, <1>3, <1>4 DEF Next, vars, Begin, Compose, Refused, Engine, ReadFrame, OwnerStep,
     PrepareArtifacts, PrepareExports, Checkpoint, OwnerFrame, publicationVars

(* Whatever a replaced execution still does, a publication that was resumed *)
(* under a new generation keeps its row.                                    *)
THEOREM ReplacedRunnersAreFenced == Spec => StaleRunnerIsFenced
<1>1. PublicationInvariant /\ [Next]_vars =>
        [\A r \in Runners :
           (runner[r].pc \in {"switch", "update"} /\ runner'[r].pc = "idle") =>
             LET p == runner[r].p IN
             publication[p].generation # runner[r].generation =>
               publication'[p] = publication[p]]_vars
  BY StaleRunnerStep
<1> QED
  BY <1>1, PublicationIsConsistent, PTL DEF Spec, StaleRunnerIsFenced

(* Under the restore guard only an accepted recovery moves work.            *)
LEMMA FencedStep ==
  ASSUME PublicationInvariant, [Next]_vars, recovery_restore_guard = "blocked"
  PROVE  /\ UNCHANGED <<head, accepted, current_revision, composition>>
         /\ \A p \in Preparations :
              /\ operation'[p] # operation[p] => operation'[p].state = "abandoned"
              /\ publication'[p] # publication[p] => publication'[p].state = "failed"
<1>0. ~Writable /\ ~RecoveryVerified
  BY DEF Writable, RecoveryVerified
<1>1. CASE UNCHANGED <<head, accepted, current_revision, composition, operation, publication>>
  BY <1>1
<1>2. CASE PreparationStep /\ UNCHANGED <<operationStateVars, headVars, publicationVars, runner>>
  <2>1. UNCHANGED operation
    BY <1>0, <1>2 DEF PreparationStep, CreateGameReconciliation, DispatchGamePreparation,
       SealCandidate, FailPreparation, PauseFailedReconciliation, PausePreparation,
       ResumePreparation, AbandonPreparation, ExpirePreparation
  <2> QED
    BY <1>1, <1>2, <2>1 DEF headVars, publicationVars
<1>3. ASSUME NEW p \in Preparations,
             OwnerStep(p) \/ PrepareArtifacts(p) \/ PrepareExports(p) \/ Checkpoint(p)
      PROVE  UNCHANGED <<head, accepted, current_revision, composition, operation, publication>>
  <2>1. UNCHANGED <<head, accepted, operation>>
    BY <1>3 DEF OwnerStep, PrepareArtifacts, PrepareExports, Checkpoint, OwnerFrame,
       preparationVars, headVars
  <2>2. UNCHANGED <<current_revision, composition, publication>>
    BY <1>0, <1>3 DEF OwnerStep, ApproveGamePublication, DispatchGamePublication,
       PauseGamePublication, UpdatePublicationState, ResumeGamePublication, PrepareArtifacts,
       StartPublicationPreparation, FinishArtifacts, RetainPublicationFence, MoveArtifacts,
       PrepareExports, FinishExports, Checkpoint, VerifyCheckpoint
  <2> QED
    BY <2>1, <2>2
<1>4. ASSUME NEW r \in Runners, Commit(r) PROVE FALSE
  BY <1>0, <1>4 DEF Commit, SwitchPublication, SwitchOutcome, UpdateFromRunner,
     UpdatePublicationState
<1>5. CASE AcceptRecovery /\ UNCHANGED <<headVars, runner>>
  <2>1. UNCHANGED <<head, accepted, current_revision, composition>>
    BY <1>5 DEF AcceptRecovery, headVars
  <2>2. ASSUME NEW p \in Preparations
        PROVE  /\ operation'[p] # operation[p] => operation'[p].state = "abandoned"
               /\ publication'[p] # publication[p] => publication'[p].state = "failed"
    <3>1. /\ operation'[p] \in {operation[p],
               [state |-> "abandoned", generation |-> operation[p].generation + 1]}
          /\ publication'[p] \in {publication[p], [publication[p] EXCEPT !.state = "failed",
                                     !.generation = publication[p].generation + 1]}
      BY <1>5 DEF AcceptRecovery
    <3>2. publication[p] \in PublicationRows
      BY DEF PublicationInvariant, TypeOK, PublicationTypeOK
    <3>3. [publication[p] EXCEPT !.state = "failed",
             !.generation = publication[p].generation + 1].state = "failed"
      BY <3>2 DEF PublicationRows
    <3>4. [state |-> "abandoned", generation |-> operation[p].generation + 1].state = "abandoned"
      OBVIOUS
    <3> QED
      BY <3>1, <3>3, <3>4
  <2> QED
    BY <2>1, <2>2
<1> QED
  BY <1>1, <1>2, <1>3, <1>4, <1>5 DEF Next, vars, Begin, Compose, Refused, Engine, ReadFrame,
     preparationVars, headVars, publicationVars

(* Whoever raised the restore guard, nothing is accepted, approved, sealed  *)
(* or served anew until it is lowered, and accepting the recovery only      *)
(* abandons.                                                                *)
THEOREM GuardedWorkIsAbandoned == Spec => FencedWorkOnlyAbandoned
<1>1. PublicationInvariant /\ [Next]_vars =>
        [recovery_restore_guard = "blocked" =>
           /\ UNCHANGED <<head, accepted, current_revision, composition>>
           /\ \A p \in Preparations :
                /\ operation'[p] # operation[p] => operation'[p].state = "abandoned"
                /\ publication'[p] # publication[p] => publication'[p].state = "failed"]_vars
  BY FencedStep
<1> QED
  BY <1>1, PublicationIsConsistent, PTL DEF Spec, FencedWorkOnlyAbandoned

(* The candidate, the evidence and the predecessor compared stay the same.  *)
LEMMA StableStep ==
  ASSUME PublicationInvariant, [Next]_vars, NEW p \in Preparations,
         candidate[p].state = "sealed", candidate'[p].state = "sealed"
  PROVE  EqualGameSemantics(p) <=> EqualGameSemantics(p)'
<1>0. /\ TypeOK /\ RunnerHasWork /\ RowInvariant /\ SealedHasContent /\ PublishedIsServed
      /\ GameOf[p] \in Games /\ accepted \in [Games -> Preparations \cup {None}]
  BY PreparationAssumption DEF PublicationInvariant, RowInvariant, ServingInvariant,
     TypeOK, PreparationTypeOK
<1> DEFINE prior == accepted[GameOf[p]]
<1>1. prior # None => prior \in Preparations /\ candidate[prior].state = "published"
  BY <1>0 DEF PublishedIsServed
<1>2. /\ candidate'[p] = candidate[p] /\ accepted'[GameOf[p]] = prior
      /\ prior # None => candidate'[prior] = candidate[prior]
  <2>1. CASE Quiet
    BY <1>1, <2>1 DEF Quiet, FactsKept
  <2>2. ASSUME NEW q \in Preparations, Switched(q)
        PROVE  <1>2
    <3>1. candidate[q].state = "sealed" /\ q # p
      BY <2>2 DEF Switched
    <3>2. GameOf[q] # GameOf[p]
      BY <1>0, <3>1, SMT DEF RowInvariant, SlotHeldByLiveCandidate
    <3> QED
      BY <1>0, <1>1, <2>2, <3>1, <3>2 DEF Switched
  <2> QED
    BY <1>0, <2>1, <2>2, QuietOrSwitch, SwitchIsCurrent
<1> QED
  BY <1>2 DEF EqualGameSemantics

(* What a Workflow concluded about a sealed candidate, when it chose to     *)
(* render exports or to skip them, still holds when it commits.             *)
THEOREM ConclusionsStayTrue == Spec => UnchangedFactsAreStable
<1>1. PublicationInvariant /\ [Next]_vars =>
        [\A p \in Preparations :
           (candidate[p].state = "sealed" /\ candidate'[p].state = "sealed") =>
             (EqualGameSemantics(p) <=> EqualGameSemantics(p)')]_vars
  BY StableStep
<1> QED
  BY <1>1, PublicationIsConsistent, PTL DEF Spec, UnchangedFactsAreStable

(* The refinement mapping: what is served, accepted and backed up.          *)
ServedFacts ==
  [g \in Games |->
    LET served == composition[current_revision][g]
    IN  IF served = None THEN None ELSE candidate[served].content]
Acceptances == {p \in Preparations : publication[p].state = "published"}
Protected == {p \in Preparations : checkpoint[p] = "verified"}

(* Nothing is served, accepted or protected at first.                       *)
LEMMA InitPromise == Init => Promise!AcceptanceInit
  BY SMT DEF Init, PreparationInit, PublicationInit, EmptyComposition, Revisions,
     Promise!AcceptanceInit

(* Quiet steps change neither the facts served nor what is accepted.        *)
LEMMA QuietKeepsFacts ==
  ASSUME PublicationInvariant, RowInvariant', Quiet
  PROVE  ServedFacts' = ServedFacts /\ Acceptances' = Acceptances
<1>0. /\ PublishedTogether /\ PublishedTogether' /\ PublishedIsServed
      /\ \A g \in Games : composition[current_revision][g] \in Preparations \cup {None}
  BY DEF PublicationInvariant, RowInvariant, ServingInvariant, TypeOK, PublicationTypeOK,
     Compositions
<1>1. Acceptances' = Acceptances
  BY ZenonT(90), <1>0 DEF Acceptances, Quiet, FactsKept, PublishedTogether
<1>2. ServedFacts' = ServedFacts
  BY <1>0 DEF ServedFacts, Quiet, FactsKept, PublishedIsServed
<1> QED
  BY <1>1, <1>2

(* A switch accepts its candidate, once everything before it is protected.  *)
LEMMA SwitchAccepts ==
  ASSUME PublicationInvariant, RowInvariant', NEW p \in Preparations, Switched(p)
  PROVE  /\ p \notin Acceptances /\ Acceptances \subseteq Protected
         /\ Acceptances' = Acceptances \cup {p}
         /\ ServedFacts' = [ServedFacts EXCEPT ![GameOf[p]] = candidate[p].content]
         /\ Protected' = Protected
         /\ candidate[p].content \in Contents
<1> DEFINE now == composition[current_revision]
<1>0. /\ TypeOK /\ PublishedTogether /\ PublishedTogether' /\ NothingPublishedAtSpine
      /\ OnlyLatestAcceptanceUnprotected /\ OnlyAcceptancesHaveBackups
      /\ ServedFactsAreAccepted /\ PublishedIsServed /\ SealedHasContent
  BY DEF PublicationInvariant, RowInvariant, ServingInvariant
<1>1. /\ checkpoint \in [Preparations -> {"none", "reserved", "verified"}]
      /\ composition \in [Revisions -> [Games -> Preparations \cup {None}]]
      /\ current_revision \in Revisions /\ p \in Revisions /\ GameOf[p] \in Games
      /\ now \in [Games -> Preparations \cup {None}]
      /\ accepted \in [Games -> Preparations \cup {None}]
      /\ None \notin Preparations /\ p # None
  BY <1>0, PreparationAssumption DEF TypeOK, PreparationTypeOK, PublicationTypeOK, Compositions,
     Revisions
<1>2. /\ candidate[p].state = "sealed" /\ candidate[p].content \in Contents
      /\ candidate'[p].state = "published" /\ candidate'[p].content = candidate[p].content
      /\ \A q \in Preparations \ {p} : candidate'[q] = candidate[q]
      /\ AcceptanceCheckpoint(current_revision)
      /\ checkpoint' = [checkpoint EXCEPT ![p] = "reserved"]
  BY <1>0 DEF Switched, SealedHasContent
<1>3. p \notin Acceptances /\ Acceptances' = Acceptances \cup {p}
  BY <1>0, <1>2 DEF Acceptances, PublishedTogether
<1>4. Acceptances \subseteq Protected
  <2> SUFFICES ASSUME NEW q \in Preparations, publication[q].state = "published"
               PROVE  checkpoint[q] = "verified"
    BY DEF Acceptances, Protected
  <2>1. current_revision # Spine
    BY <1>0 DEF NothingPublishedAtSpine, PublishedTogether
  <2>2. checkpoint[acceptance_head] = "verified"
    BY <1>2, <2>1 DEF AcceptanceCheckpoint
  <2> QED
    BY <1>0, <2>2 DEF OnlyLatestAcceptanceUnprotected
<1>5. Protected' = Protected
  <2>1. checkpoint[p] = "none"
    BY <1>0, <1>3 DEF OnlyAcceptancesHaveBackups, Acceptances
  <2> QED
    BY <1>1, <1>2, <2>1 DEF Protected
<1>6. \A h \in Games : now[h] # None =>
        /\ now[h] \in Preparations \ {p}
        /\ candidate'[now[h]] = candidate[now[h]]
  BY <1>0, <1>1, <1>2 DEF PublishedIsServed
<1>7. ServedFacts' = [ServedFacts EXCEPT ![GameOf[p]] = candidate[p].content]
  <2>1. CASE EqualGameSemantics(p) /\ UNCHANGED <<current_revision, composition>>
    <3>1. /\ now[GameOf[p]] # None
          /\ candidate[now[GameOf[p]]].content = candidate[p].content
      BY <1>0, <1>1, <2>1 DEF EqualGameSemantics, ServedFactsAreAccepted
    <3> QED
      BY <1>1, <1>6, <2>1, <3>1 DEF ServedFacts
  <2>2. CASE /\ current_revision' = p
             /\ composition' = [composition EXCEPT ![p] = [now EXCEPT ![GameOf[p]] = p]]
    <3>1. /\ composition'[current_revision'][GameOf[p]] = p
          /\ \A h \in Games \ {GameOf[p]} : composition'[current_revision'][h] = now[h]
      BY <1>1, <2>2
    <3>2. ServedFacts'[GameOf[p]] = candidate[p].content
      BY <1>1, <1>2, <3>1 DEF ServedFacts
    <3>3. \A h \in Games \ {GameOf[p]} : ServedFacts'[h] = ServedFacts[h]
      BY <1>6, <3>1 DEF ServedFacts
    <3> QED
      BY <3>2, <3>3 DEF ServedFacts
  <2> QED
    BY <2>1, <2>2 DEF Switched
<1> QED
  BY <1>2, <1>3, <1>4, <1>5, <1>7

(* Every step is a step of the acceptance protocol or leaves it alone.      *)
LEMMA PromiseStep ==
  ASSUME PublicationInvariant, PublicationInvariant', [Next]_vars
  PROVE  [Promise!AcceptanceNext]_(Promise!acceptanceVars)
<1>0. /\ TypeOK /\ RunnerHasWork /\ RowInvariant /\ RowInvariant'
      /\ SealedHasContent /\ OnlyAcceptancesHaveBackups /\ OnlyLatestAcceptanceUnprotected
  BY DEF PublicationInvariant, RowInvariant, ServingInvariant
<1>1. CASE Quiet /\ UNCHANGED checkpoint
  <2>1. ServedFacts' = ServedFacts /\ Acceptances' = Acceptances /\ Protected' = Protected
        /\ acceptance_head' = acceptance_head
    BY <1>0, <1>1, QuietKeepsFacts DEF Protected, Quiet
  <2> QED
    BY <2>1 DEF Promise!acceptanceVars, ServedFacts, Acceptances, Protected
<1>2. ASSUME Quiet, NEW p \in Preparations, VerifyCheckpoint(p)
      PROVE  Promise!AcceptanceNext
  <2>1. ServedFacts' = ServedFacts /\ Acceptances' = Acceptances
        /\ acceptance_head' = acceptance_head
    BY <1>0, <1>2, QuietKeepsFacts DEF Quiet
  <2>2. p = acceptance_head
    BY <1>0, <1>2 DEF VerifyCheckpoint, OnlyAcceptancesHaveBackups, OnlyLatestAcceptanceUnprotected
  <2>3. p \notin Protected /\ Protected' = Protected \cup {p}
    <3>1. /\ checkpoint \in [Preparations -> {"none", "reserved", "verified"}]
      BY <1>0 DEF TypeOK, PublicationTypeOK
    <3> QED
      BY <1>2, <3>1 DEF VerifyCheckpoint, Protected
  <2>4. Promise!Protect(p)
    BY <2>1, <2>2, <2>3 DEF Promise!Protect, ServedFacts, Acceptances, Protected
  <2> QED
    BY <2>4 DEF Promise!AcceptanceNext
<1>3. ASSUME NEW p \in Preparations, Switched(p)
      PROVE  Promise!AcceptanceNext
  <2>1. acceptance_head' = p
    BY <1>3 DEF Switched
  <2>2. PICK c \in Contents : c = candidate[p].content
    BY <1>0, <1>3, SwitchAccepts
  <2>3. Promise!Accept(p, c)
    BY <1>0, <1>3, <2>1, <2>2, SwitchAccepts
       DEF Promise!Accept, ServedFacts, Acceptances, Protected
  <2> QED
    BY <2>3 DEF Promise!AcceptanceNext
<1> QED
  BY <1>0, <1>1, <1>2, <1>3, QuietOrSwitch, SwitchIsCurrent

(* Publication, with its rows, stale executions, fences and recoveries,     *)
(* implements CatalogueAcceptance: the facts of a game change only by       *)
(* accepting evidence for it, and nothing is accepted on unprotected        *)
(* acceptances.                                                             *)
THEOREM PublicationImplementsAcceptance == Spec => PublicationKeepsPromise
<1>1. PublicationInvariant /\ PublicationInvariant' /\ [Next]_vars =>
        [Promise!AcceptanceNext]_(Promise!acceptanceVars)
  BY PromiseStep
<1> QED
  BY <1>1, InitPromise, PublicationIsConsistent, PTL DEF Spec, PublicationKeepsPromise,
     Promise!AcceptanceSpec
=============================================================================
