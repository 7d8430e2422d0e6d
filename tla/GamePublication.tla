--------------------------- MODULE GamePublication ---------------------------
(***************************************************************************)
(* Publication of an approved candidate: the rows                          *)
(* game_publication_operations, catalogue_revisions with their             *)
(* composition, the game and catalogue heads, the acceptance head and its  *)
(* backup reservation; the publication Workflows; and the reads            *)
(* advanceGamePublication makes before the one batch that switches.        *)
(*                                                                         *)
(* A runner is one execution of advanceGamePublication.  Two runners may   *)
(* work for the same publication (a retried step whose first execution is  *)
(* still alive) or for a generation that a resume has replaced.  What a    *)
(* runner read may be stale when it writes.                                *)
(***************************************************************************)
EXTENDS GamePreparation

CONSTANTS
  Runners,              \* executions of advanceGamePublication
  CompositionAttempts   \* refreshes of a contended composition (3 in the code)

ASSUME PublicationAssumption == CompositionAttempts \in Nat \ {0}

VARIABLES
  publication,        \* game_publication_operations, one per candidate
  artifacts,          \* publication_preparations.state, private artifacts
  exports,            \* publication_export_preparations.state, public exports
  switchers,          \* publication Workflows started: <<candidate, generation>>
  current_revision,   \* catalogue_state.current_revision_id
  composition,        \* catalogue_composition_games: revision -> game -> candidate
  previous,           \* catalogue_revisions.expected_previous_revision_id
  queryable,          \* catalogue_query_revisions in state available
  acceptance_head,    \* catalogue_acceptance_head: latest accepted publication
  checkpoint,         \* backup of an acceptance: none, reserved or verified
  runner              \* what each execution has read so far

publicationVars ==
  <<publication, artifacts, exports, switchers, current_revision, composition,
    previous, queryable, acceptance_head, checkpoint>>

vars == <<operationStateVars, preparationVars, headVars, publicationVars, runner>>

PublicationStates ==
  {"absent", "approved", "waiting_artifacts", "waiting_backup", "retry_paused",
   "published", "failed"}
Active == {"approved", "waiting_artifacts", "waiting_backup"}
ArtifactStates == {"none", "preparing", "retry_paused", "verified", "failed"}
ExportStates == {"none", "verified", "failed"}

EmptyComposition == [g \in Games |-> None]

IdleRunner ==
  [pc |-> "idle", p |-> None, generation |-> 0, unchanged |-> FALSE, tries |-> 0,
   base |-> Spine, members |-> EmptyComposition, to |-> "absent"]

Compositions == [Games -> Preparations \cup {None}]
PublicationRows ==
  [state : PublicationStates, generation : Nat, candidate_generation : Nat,
   result : Revisions \cup {None}]
RunnerStates ==
  [pc : {"idle", "compose", "switch", "update", "dead"},
   p : Preparations \cup {None}, generation : Nat, unchanged : BOOLEAN,
   tries : Nat, base : Revisions, members : Compositions, to : PublicationStates]

PublicationTypeOK ==
  /\ publication \in [Preparations -> PublicationRows]
  /\ artifacts \in [Preparations -> ArtifactStates]
  /\ exports \in [Preparations -> ExportStates]
  /\ switchers \subseteq Preparations \X Nat
  /\ current_revision \in Revisions
  /\ composition \in [Revisions -> Compositions]
  /\ previous \in [Revisions -> Revisions \cup {None}]
  /\ queryable \subseteq Revisions
  /\ acceptance_head \in Preparations \cup {None}
  /\ checkpoint \in [Preparations -> {"none", "reserved", "verified"}]
  /\ runner \in [Runners -> RunnerStates]

PublicationInit ==
  /\ publication = [p \in Preparations |->
       [state |-> "absent", generation |-> 0, candidate_generation |-> 0, result |-> None]]
  /\ artifacts = [p \in Preparations |-> "none"]
  /\ exports = [p \in Preparations |-> "none"]
  /\ switchers = {}
  /\ current_revision = Spine
  /\ composition = [r \in Revisions |-> EmptyComposition]
  /\ previous = [r \in Revisions |-> None]
  /\ queryable = {}
  /\ acceptance_head = None
  /\ checkpoint = [p \in Preparations |-> "none"]
  /\ runner = [r \in Runners |-> IdleRunner]

Init == OperationStateInit /\ PreparationInit /\ PublicationInit

-----------------------------------------------------------------------------
(* publicationPreparationGuard, for approvals and private artifacts. *)
OwnsSealedCandidate(p, g) ==
  /\ slot[GameOf[p]] = p
  /\ operation[p].state = "sealed" /\ candidate[p].state = "sealed"
  /\ operation[p].generation = g /\ candidate[p].generation = g
  /\ p \notin expired
  /\ candidate[p].expected = head[GameOf[p]]
  /\ Healthy

(* inspectGameCandidateReadiness and the generation the owner approved. *)
CandidateReady(p) ==
  /\ candidate[p].state = "sealed"
  /\ p \notin expired
  /\ candidate[p].expected = head[GameOf[p]]
  /\ candidate[p].generation = publication[p].candidate_generation

(* Mutant: publication does not wait for the backup of what it builds on. *)
NoAcceptanceCheckpoint(rev) == rev \in Revisions

(* latestAcceptanceCheckpoint: the backup of the latest acceptance, not of  *)
(* an older one that published the same revision.                           *)
AcceptanceCheckpoint(rev) ==
  \/ rev = Spine
  \/ \E a \in Preparations :
       /\ acceptance_head = a
       /\ publication[a].state = "published"
       /\ publication[a].result = rev
       /\ checkpoint[a] = "verified"

(* Mutant: every successor of accepted evidence counts as unchanged. *)
AnySuccessorIsEqual(p) ==
  accepted[GameOf[p]] # None /\ candidate[p].predecessor = accepted[GameOf[p]]

(* equalGameSemantics: the candidate says what its pinned predecessor, still *)
(* the accepted one, already says.                                           *)
EqualGameSemantics(p) ==
  LET prior == accepted[GameOf[p]] IN
  /\ prior # None
  /\ candidate[p].predecessor = prior
  /\ candidate[prior].state = "published"
  /\ candidate[p].content = candidate[prior].content

(* The candidate is still the one that was approved, still holds its slot,   *)
(* still succeeds the head and the evidence it was prepared from.            *)
ApprovedCandidate(p, unchanged) ==
  /\ slot[GameOf[p]] = p
  /\ candidate[p].expected = head[GameOf[p]]
  /\ candidate[p].predecessor = accepted[GameOf[p]]
  /\ artifacts[p] = "verified"
  /\ operation[p].state = "sealed" /\ candidate[p].state = "sealed"
  /\ operation[p].generation = publication[p].candidate_generation
  /\ candidate[p].generation = publication[p].candidate_generation
  /\ IF unchanged THEN EqualGameSemantics(p) ELSE exports[p] = "verified"

(* Mutants: a writer that is not fenced by the final states, and one that   *)
(* is not fenced by the generation.                                         *)
ActiveWriterOfAnyState(p, g) == publication[p].state # "absent" /\ publication[p].generation = g
ActiveWriterOfAnyGeneration(p, g) == publication[p].state \in Active /\ g \in Nat

ActiveWriter(p, g) == publication[p].state \in Active /\ publication[p].generation = g

(* Mutant: the switch does not compare the head it composed from. *)
HeadIgnored(base) == base \in Revisions

HeadUnmoved(base) == current_revision = base

(* publicationSwitchGuard, in the order of its CASE. *)
SwitchOutcome(p, g, base, members, unchanged) ==
  IF ~ActiveWriter(p, g) THEN "writer_conflict"
  ELSE IF p \in expired THEN "deadline_expired"
  ELSE IF ~ApprovedCandidate(p, unchanged) THEN "candidate_conflict"
  ELSE IF ~RecoveryVerified \/ active_release THEN "recovery_not_verified"
  ELSE IF ~HeadUnmoved(base) THEN "composition_conflict"
  ELSE IF ~AcceptanceCheckpoint(base) THEN "backup_pending"
  ELSE IF ~unchanged /\ members # [composition[base] EXCEPT ![GameOf[p]] = p]
       THEN "composition_conflict"
  ELSE "ok"

(* Mutant: publishing archives everything but the new revision. *)
QueryWindowOfOne(rev, prev) == {r \in DOMAIN prev : r = rev}

(* The revisions a reader may still page through: the newest and the two     *)
(* before it.                                                                *)
QueryWindow(rev, prev) ==
  LET before == {prev[rev]} \ {None}
      twice  == {prev[r] : r \in before} \ {None}
  IN  {rev} \cup before \cup twice

(* completePublication: what a changed and an unchanged acceptance share. *)
CompletePublication(p, rev) ==
  /\ candidate' = [candidate EXCEPT ![p] = [@ EXCEPT !.state = "published"]]
  /\ slot' = [g \in Games |-> IF slot[g] = p THEN None ELSE slot[g]]
  /\ publication' = [publication EXCEPT ![p] = [@ EXCEPT !.state = "published", !.result = rev]]
  /\ accepted' = [accepted EXCEPT ![GameOf[p]] = p]
  /\ acceptance_head' = p
  /\ checkpoint' = [checkpoint EXCEPT ![p] = "reserved"]
  /\ UNCHANGED <<operation, expired, workers, artifacts, exports, switchers>>

(* publicationSwitch: a new revision, composed of what the runner read. *)
SwitchRevision(p, base, members) ==
  /\ head' = [head EXCEPT ![GameOf[p]] = p]
  /\ current_revision' = p
  /\ composition' = [composition EXCEPT ![p] = members]
  /\ previous' = [previous EXCEPT ![p] = base]
  /\ queryable' = (queryable \cup {p}) \cap QueryWindow(p, previous')
  /\ CompletePublication(p, p)

(* unchangedPublication: fresh evidence, same revision. *)
AcceptUnchanged(p, base) ==
  /\ UNCHANGED <<head, current_revision, composition, previous, queryable>>
  /\ CompletePublication(p, base)

-----------------------------------------------------------------------------
ApproveGamePublication(p) ==
  /\ publication[p].state = "absent"
  /\ OwnsSealedCandidate(p, candidate[p].generation) /\ Writable
  /\ publication' = [publication EXCEPT ![p] =
       [@ EXCEPT !.state = "approved", !.candidate_generation = candidate[p].generation]]
  /\ UNCHANGED <<artifacts, exports, switchers, current_revision, composition,
       previous, queryable, acceptance_head, checkpoint>>

(* publication_preparations, one row per candidate: its batches compare the *)
(* state they read and move it.                                             *)
MoveArtifacts(p, from, to) ==
  /\ artifacts[p] = from /\ Writable
  /\ artifacts' = [artifacts EXCEPT ![p] = to]
  /\ UNCHANGED <<publication, exports, switchers, current_revision, composition,
       previous, queryable, acceptance_head, checkpoint>>

(* The owner starts the private artifacts, and resumes them after a pause. *)
StartPublicationPreparation(p) ==
  /\ OwnsSealedCandidate(p, candidate[p].generation)
  /\ \/ MoveArtifacts(p, "none", "preparing")
     \/ MoveArtifacts(p, "retry_paused", "preparing")

(* The unit loop that renders them ends verified or failed; a dispatch, a   *)
(* unit or a Workflow that has exhausted its retries pauses it.             *)
FinishArtifacts(p, outcome) ==
  /\ OwnsSealedCandidate(p, candidate[p].generation)
  /\ MoveArtifacts(p, "preparing", outcome)

(* The loop of a candidate that lost its slot, head or time ends failed. *)
RetainPublicationFence(p) ==
  /\ ~OwnsSealedCandidate(p, candidate[p].generation) /\ Healthy
  /\ MoveArtifacts(p, "preparing", "failed")

(* The unit loop that renders public exports, owned by the publication. *)
FinishExports(p, g, outcome) ==
  /\ <<p, g>> \in switchers
  /\ exports[p] = "none"
  /\ ActiveWriter(p, g) /\ CandidateReady(p) /\ artifacts[p] = "verified"
  /\ Healthy /\ Writable
  /\ exports' = [exports EXCEPT ![p] = outcome]
  /\ UNCHANGED <<publication, artifacts, switchers, current_revision, composition,
       previous, queryable, acceptance_head, checkpoint>>

DispatchGamePublication(p) ==
  /\ publication[p].state \in Active
  /\ switchers' = switchers \cup {<<p, publication[p].generation>>}
  /\ UNCHANGED <<publication, artifacts, exports, current_revision, composition,
       previous, queryable, acceptance_head, checkpoint>>

(* Mutant: the compare-and-set also asks for the deadline. *)
UpdateBeforeDeadline(p, g, to) ==
  /\ Writable
  /\ publication' = IF ActiveWriter(p, g) /\ p \notin expired
                    THEN [publication EXCEPT ![p] = [@ EXCEPT !.state = to]] ELSE publication
  /\ UNCHANGED <<artifacts, exports, switchers, current_revision, composition,
       previous, queryable, acceptance_head, checkpoint>>

(* updatePublicationState: a compare-and-set on generation and activity. *)
UpdatePublicationState(p, g, to) ==
  /\ Writable
  /\ publication' = IF ActiveWriter(p, g)
                    THEN [publication EXCEPT ![p] = [@ EXCEPT !.state = to]] ELSE publication
  /\ UNCHANGED <<artifacts, exports, switchers, current_revision, composition,
       previous, queryable, acceptance_head, checkpoint>>

(* Exhausted dispatch or Workflow retries pause the publication. *)
PauseGamePublication(p, g) ==
  /\ ActiveWriter(p, g)
  /\ UpdatePublicationState(p, g, "retry_paused")

(* The owner starts a new generation; the deadline stays. *)
ResumeGamePublication(p) ==
  /\ publication[p].state \in Active \cup {"retry_paused"}
  /\ p \notin expired
  /\ RecoveryVerified
  /\ publication[p].generation < MaxGeneration
  /\ publication' = [publication EXCEPT ![p] =
       [@ EXCEPT !.state = "approved", !.generation = publication[p].generation + 1]]
  /\ UNCHANGED <<artifacts, exports, switchers, current_revision, composition,
       previous, queryable, acceptance_head, checkpoint>>

(* The reserved backup of the latest acceptance is verified, by whichever   *)
(* attempt or retry completes it; an unaccepted recovery aborts the batch.  *)
VerifyCheckpoint(p) ==
  /\ checkpoint[p] = "reserved"
  /\ ~(recovery_health = "blocked" /\ active_recovery)
  /\ checkpoint' = [checkpoint EXCEPT ![p] = "verified"]
  /\ UNCHANGED <<publication, artifacts, exports, switchers, current_revision,
       composition, previous, queryable, acceptance_head>>

-----------------------------------------------------------------------------
Goto(r, fields) == runner' = [runner EXCEPT ![r] = fields]
Return(r) == Goto(r, IdleRunner)
Decide(r, to) == Goto(r, [runner[r] EXCEPT !.pc = "update", !.to = to])

(* Mutant: exports that failed are waited for like exports under way. *)
AdvancePastFailedExports(r, p, g) ==
  /\ runner[r].pc = "idle"
  /\ <<p, g>> \in switchers
  /\ ActiveWriter(p, g)
  /\ LET begun == [IdleRunner EXCEPT !.p = p, !.generation = g]
         decided(to) == [begun EXCEPT !.pc = "update", !.to = to]
         compose(u) == [begun EXCEPT !.pc = "compose", !.unchanged = u]
     IN  Goto(r,
           IF p \in expired \/ ~CandidateReady(p) THEN decided("failed")
           ELSE IF artifacts[p] # "verified" THEN decided("waiting_artifacts")
           ELSE IF EqualGameSemantics(p) THEN compose(TRUE)
           ELSE IF exports[p] # "verified" THEN decided("waiting_artifacts")
           ELSE compose(FALSE))

(* advanceGamePublication up to its choice of path. *)
AdvanceGamePublication(r, p, g) ==
  /\ runner[r].pc = "idle"
  /\ <<p, g>> \in switchers
  /\ ActiveWriter(p, g)
  /\ LET begun == [IdleRunner EXCEPT !.p = p, !.generation = g]
         decided(to) == [begun EXCEPT !.pc = "update", !.to = to]
         compose(u) == [begun EXCEPT !.pc = "compose", !.unchanged = u]
     IN  Goto(r,
           IF p \in expired \/ ~CandidateReady(p) THEN decided("failed")
           ELSE IF artifacts[p] # "verified" THEN decided("waiting_artifacts")
           ELSE IF EqualGameSemantics(p) THEN compose(TRUE)
           ELSE IF exports[p] = "failed" THEN decided("failed")
           ELSE IF exports[p] = "none" THEN decided("waiting_artifacts")
           ELSE compose(FALSE))

(* One turn of the contention loop reads the head, its checkpoint and its   *)
(* members, and renders the package outside the database.                   *)
ComposePublication(r) ==
  LET p == runner[r].p IN
  /\ runner[r].pc = "compose"
  /\ IF AcceptanceCheckpoint(current_revision)
     THEN Goto(r, [runner[r] EXCEPT !.pc = "switch", !.base = current_revision,
            !.members = [composition[current_revision] EXCEPT ![GameOf[p]] = p]])
     ELSE Decide(r, "waiting_backup")

(* The batch succeeds as a whole ... *)
SwitchPublication(r) ==
  LET x == runner[r] IN
  /\ x.pc = "switch"
  /\ SwitchOutcome(x.p, x.generation, x.base, x.members, x.unchanged) = "ok"
  /\ IF x.unchanged THEN AcceptUnchanged(x.p, x.base)
                    ELSE SwitchRevision(x.p, x.base, x.members)
  /\ Return(r)

(* ... or aborts, and the error chooses what to do next. *)
SwitchRefused(r) ==
  LET x == runner[r]
      outcome == SwitchOutcome(x.p, x.generation, x.base, x.members, x.unchanged)
  IN
  /\ x.pc = "switch"
  /\ \/ /\ outcome \in {"deadline_expired", "candidate_conflict"}
        /\ Decide(r, "failed")
     \/ /\ outcome = "composition_conflict" /\ x.tries + 1 < CompositionAttempts
        /\ Goto(r, [x EXCEPT !.pc = "compose", !.tries = x.tries + 1])
     \/ /\ outcome = "composition_conflict" /\ x.tries + 1 >= CompositionAttempts
        /\ Decide(r, "retry_paused")
     \/ /\ outcome = "backup_pending"
        /\ Decide(r, "waiting_backup")
     \/ /\ outcome \in {"writer_conflict", "recovery_not_verified"}
        /\ Return(r)

(* The runner's verdict reaches the row only if it is still its own. *)
UpdateFromRunner(r) ==
  /\ runner[r].pc = "update"
  /\ UpdatePublicationState(runner[r].p, runner[r].generation, runner[r].to)
  /\ Return(r)

(* A crash, an exception or a step timeout ends an execution ... *)
CrashRunner(r) ==
  /\ runner[r].pc \in {"compose", "switch", "update"}
  /\ Goto(r, [IdleRunner EXCEPT !.pc = "dead"])

(* ... and the Workflow engine may run the step again. *)
RetryStep(r) ==
  /\ runner[r].pc = "dead"
  /\ Return(r)

-----------------------------------------------------------------------------
(* classifyRestoredWork, with the release of the fences it is batched with: *)
(* work in flight in the accepted snapshot is abandoned under a new         *)
(* generation.                                                              *)
AcceptRecovery ==
  LET abandoned == {p \in Preparations : /\ candidate[p].state # "published"
                                         /\ operation[p].state \in Live}
  IN
  /\ ReleaseAcceptedRecovery
  /\ operation' = [p \in Preparations |-> IF p \in abandoned
       THEN [state |-> "abandoned", generation |-> operation[p].generation + 1]
       ELSE operation[p]]
  /\ candidate' = [p \in Preparations |-> IF p \in abandoned /\ candidate[p].state \in Live
       THEN [candidate[p] EXCEPT !.state = "abandoned",
                                 !.generation = candidate[p].generation + 1]
       ELSE candidate[p]]
  /\ slot' = [g \in Games |-> IF slot[g] \in abandoned THEN None ELSE slot[g]]
  /\ publication' = [p \in Preparations |->
       IF p \in abandoned /\ publication[p].state \in Active \cup {"retry_paused"}
       THEN [publication[p] EXCEPT !.state = "failed",
                                   !.generation = publication[p].generation + 1]
       ELSE publication[p]]
  /\ UNCHANGED <<expired, workers, artifacts, exports, switchers, current_revision,
       composition, previous, queryable, acceptance_head, checkpoint>>

-----------------------------------------------------------------------------
(* What owners, units of work and backups leave alone, and what a runner    *)
(* that only reads does.                                                    *)
OwnerFrame == UNCHANGED <<operationStateVars, preparationVars, headVars, runner>>
ReadFrame == UNCHANGED <<operationStateVars, preparationVars, headVars, publicationVars>>

PrepareArtifacts(p) ==
  /\ OwnerFrame
  /\ \/ StartPublicationPreparation(p)
     \/ \E outcome \in {"verified", "failed", "retry_paused"} : FinishArtifacts(p, outcome)
     \/ RetainPublicationFence(p)
PrepareExports(p) ==
  OwnerFrame /\ \E g \in 0..MaxGeneration, outcome \in {"verified", "failed"} :
    FinishExports(p, g, outcome)
Checkpoint(p) == OwnerFrame /\ VerifyCheckpoint(p)

OwnerStep(p) ==
  /\ OwnerFrame
  /\ \/ ApproveGamePublication(p)
     \/ DispatchGamePublication(p)
     \/ \E g \in 0..MaxGeneration : PauseGamePublication(p, g)
     \/ ResumeGamePublication(p)

Begin(p) ==
  ReadFrame /\ \E r \in Runners, g \in 0..MaxGeneration : AdvanceGamePublication(r, p, g)

Compose(r) == ReadFrame /\ ComposePublication(r)
Refused(r) == ReadFrame /\ SwitchRefused(r)

Engine(r) == ReadFrame /\ (CrashRunner(r) \/ RetryStep(r))

Commit(r) ==
  \/ SwitchPublication(r) /\ UNCHANGED operationStateVars
  \/ UpdateFromRunner(r) /\ UNCHANGED <<operationStateVars, preparationVars, headVars>>

Next ==
  \/ FenceStep /\ UNCHANGED <<preparationVars, headVars, publicationVars, runner>>
  \/ /\ PreparationStep
     /\ UNCHANGED <<operationStateVars, headVars, publicationVars, runner>>
  \/ \E p \in Preparations :
       OwnerStep(p) \/ PrepareArtifacts(p) \/ PrepareExports(p) \/ Checkpoint(p) \/ Begin(p)
  \/ \E r \in Runners : Compose(r) \/ Refused(r) \/ Commit(r) \/ Engine(r)
  \/ AcceptRecovery /\ UNCHANGED <<headVars, runner>>

Spec == Init /\ [][Next]_vars

(* A started Workflow polls until its publication is final or paused, and   *)
(* retries its export units until it pauses the publication.  The           *)
(* executions of one step die at most four times before the Workflow pauses *)
(* the publication, so deaths do not go on for ever.  SF of Begin: an       *)
(* execution slot is free again and again, and each Workflow gets its turn. *)
(* Nothing is assumed of what may need the owner: that artifacts are        *)
(* started, finished or resumed, that a backup is verified, that an         *)
(* approval is dispatched or a publication resumed.                         *)
Fairness ==
  /\ \A p \in Preparations : WF_vars(PrepareExports(p)) /\ SF_vars(Begin(p))
  /\ \A r \in Runners :
       /\ WF_vars(Compose(r)) /\ WF_vars(Refused(r)) /\ WF_vars(Commit(r))
       /\ <>[](runner[r].pc # "dead")

FairSpec == Spec /\ Fairness

-----------------------------------------------------------------------------
TypeOK == OperationStateTypeOK /\ PreparationTypeOK /\ PublicationTypeOK

(* A game's slot is held exactly while one unpublished candidate of that     *)
(* game is preparing, paused or sealed: two candidates of a game are never   *)
(* in flight together, and no candidate in flight has lost its slot, through *)
(* any mix of owner actions, late Workflows, publications and recoveries.    *)
SlotHeldByLiveCandidate ==
  \A p \in Preparations : \A g \in Games :
    slot[g] = p <=> GameOf[p] = g /\ candidate[p].state \in Live

(* A candidate in flight always succeeds the game's present head and the     *)
(* evidence accepted last, so no publication can slip in between the         *)
(* preparation of a candidate and its own publication.                       *)
LiveCandidateIsCurrent ==
  \A p \in Preparations : candidate[p].state \in Live =>
    /\ candidate[p].expected = head[GameOf[p]]
    /\ candidate[p].predecessor = accepted[GameOf[p]]

(* A candidate and its operation, two rows moved by different statements,    *)
(* agree on state and generation until publication separates them.           *)
CandidateMirrorsOperation ==
  \A p \in Preparations :
    IF candidate[p].state = "published" THEN operation[p].state \in {"sealed", "abandoned"}
    ELSE /\ operation[p].state = candidate[p].state
         /\ operation[p].generation = candidate[p].generation

(* The current composition serves, for every game, the candidate its head    *)
(* names: a publication of one game never loses another game's, whatever     *)
(* composition its runner had read.                                          *)
CompositionMatchesHeads ==
  \A g \in Games : head[g] =
    IF composition[current_revision][g] = None THEN Spine
    ELSE composition[current_revision][g]

(* Every acceptance but the latest has a verified backup: the next           *)
(* publication waited for it.  An older backup of the same revision does not *)
(* count.                                                                    *)
OnlyLatestAcceptanceUnprotected ==
  \A p \in Preparations :
    publication[p].state = "published" =>
      p = acceptance_head \/ checkpoint[p] = "verified"

(* What the current composition serves for a game says the same as the       *)
(* evidence accepted last, also when later evidence reused the revision.     *)
ServedFactsAreAccepted ==
  \A g \in Games : accepted[g] # None =>
    /\ composition[current_revision][g] # None
    /\ candidate[composition[current_revision][g]].content = candidate[accepted[g]].content

(* Readers can page through the current revision and its predecessor.        *)
PredecessorStaysQueryable ==
  current_revision # Spine =>
    /\ current_revision \in queryable
    /\ previous[current_revision] \in queryable \cup {Spine}

(* Nothing is accepted, approved, sealed or changed while a snapshot or a    *)
(* recovery holds the restore guard; only the acceptance of the recovery     *)
(* moves work, and only to abandon it.                                       *)
FencedWorkOnlyAbandoned ==
  [][ recovery_restore_guard = "blocked" =>
        /\ UNCHANGED <<head, accepted, current_revision, composition>>
        /\ \A p \in Preparations :
             /\ operation'[p] # operation[p] => operation'[p].state = "abandoned"
             /\ publication'[p] # publication[p] => publication'[p].state = "failed" ]_vars

(* A publication that succeeded or failed is never touched again, by any     *)
(* runner of any generation, and a recovery keeps what was published.        *)
FinalPublicationIsFinal ==
  [][ \A p \in Preparations :
        publication[p].state \in {"published", "failed"} =>
          publication'[p] = publication[p] ]_vars

(* A row changed by a runner is changed under the runner's own generation:   *)
(* a runner of a generation that was resumed away publishes and fails        *)
(* nothing.                                                                  *)
StaleRunnerIsFenced ==
  [][ \A r \in Runners :
        (runner[r].pc \in {"switch", "update"} /\ runner'[r].pc = "idle") =>
          LET p == runner[r].p IN
          publication[p].generation # runner[r].generation =>
            publication'[p] = publication[p] ]_vars

(* What makes the above inductive.  An execution past its first read works   *)
(* for a real publication and never means to publish by a plain update;      *)
(* publication and candidate become published in the same step; nothing has  *)
(* been published while the empty revision is current.                       *)
RunnerHasWork ==
  \A r \in Runners :
    /\ runner[r].pc \in {"compose", "switch", "update"} => runner[r].p \in Preparations
    /\ runner[r].to # "published"
PublishedTogether ==
  \A p \in Preparations :
    publication[p].state = "published" <=> candidate[p].state = "published"
NothingPublishedAtSpine ==
  current_revision = Spine => \A p \in Preparations : candidate[p].state # "published"

(* What is served, what is accepted and what is current has been published,  *)
(* so its facts no longer change; a sealed candidate has facts; and only an  *)
(* acceptance has a backup.                                                  *)
PublishedIsServed ==
  /\ \A g \in Games :
       /\ composition[current_revision][g] # None =>
            candidate[composition[current_revision][g]].state = "published"
       /\ accepted[g] # None => candidate[accepted[g]].state = "published"
  /\ current_revision # Spine => candidate[current_revision].state = "published"
SealedHasContent ==
  \A p \in Preparations :
    candidate[p].state \in {"sealed", "published"} => candidate[p].content \in Contents
OnlyAcceptancesHaveBackups ==
  \A p \in Preparations : checkpoint[p] # "none" => publication[p].state = "published"

(* The inductive invariant behind the safety of publication: slots,          *)
(* candidates, operations, publications, backups of acceptances and what is  *)
(* served agree after every step of every actor.                             *)
ServingInvariant ==
  /\ CompositionMatchesHeads
  /\ ServedFactsAreAccepted
  /\ PredecessorStaysQueryable
  /\ PublishedIsServed
  /\ SealedHasContent
  /\ OnlyAcceptancesHaveBackups

PublicationInvariant ==
  /\ TypeOK
  /\ RunnerHasWork
  /\ SlotHeldByLiveCandidate
  /\ LiveCandidateIsCurrent
  /\ CandidateMirrorsOperation
  /\ PublishedTogether
  /\ NothingPublishedAtSpine
  /\ OnlyLatestAcceptanceUnprotected
  /\ ServingInvariant

(* Whether a sealed candidate repeats the accepted facts, which a Workflow   *)
(* reads once and then relies on for every export it skips, does not change  *)
(* while the candidate waits to be published.                                *)
UnchangedFactsAreStable ==
  [][ \A p \in Preparations :
        (candidate[p].state = "sealed" /\ candidate'[p].state = "sealed") =>
          (EqualGameSemantics(p) <=> EqualGameSemantics(p)') ]_vars

(* Seen through what it serves and what is backed up, publication is the     *)
(* acceptance protocol.                                                      *)
Promise == INSTANCE CatalogueAcceptance WITH
  facts <- [g \in Games |->
    LET served == composition[current_revision][g]
    IN  IF served = None THEN None ELSE candidate[served].content],
  acceptances <- {p \in Preparations : publication[p].state = "published"},
  latest <- acceptance_head,
  protected <- {p \in Preparations : checkpoint[p] = "verified"}

(* Every step of every actor keeps the promise of CatalogueAcceptance: facts *)
(* of a game change only by accepting evidence for it, and only once all     *)
(* earlier acceptances have verified backups.                                *)
PublicationKeepsPromise == Promise!AcceptanceSpec

(* A publication whose Workflow has started, whose artifacts are verified    *)
(* and whose catalogue is backed up is eventually published, failed, paused  *)
(* for the owner or taken over by a resumed generation, unless a competitor  *)
(* publishes first and its backup has to be waited for.  What it may wait    *)
(* for without end is only what the owner starts, resumes or retries:        *)
(* artifacts and the backup of the latest acceptance.                        *)
(* (runGamePublicationWorkflow, advanceGamePublication)                      *)
PublicationSettles ==
  \A p \in Preparations : \A g \in 0..MaxGeneration :
    (/\ ActiveWriter(p, g) /\ <<p, g>> \in switchers
     /\ artifacts[p] = "verified" /\ AcceptanceCheckpoint(current_revision))
    ~> (~ActiveWriter(p, g) \/ ~AcceptanceCheckpoint(current_revision))

(* The deadline ends every wait: of a started Workflow for artifacts that    *)
(* failed or stay paused, and for a backup that is never verified.           *)
DeadlineSettles ==
  \A p \in Preparations : \A g \in 0..MaxGeneration :
    (p \in expired /\ ActiveWriter(p, g) /\ <<p, g>> \in switchers)
    ~> ~ActiveWriter(p, g)

=============================================================================
