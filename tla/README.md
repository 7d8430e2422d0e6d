# Formal model of the card-keepr Catalogue

Card Keepr collects card data from publishers' sources, reconciles it into one
*candidate* per Supported Game, and publishes accepted candidates as revisions
of one *Catalogue*. It runs on Cloudflare Workers: the state is rows of one D1
(SQLite) database, large objects are in R2, and long jobs are Workflows whose
steps are retried. There is no long-lived process and no lock. Every decision
that matters is a **D1 batch**, atomic, that re-reads what it depends on and
aborts if something changed; everything between two batches may be interleaved
with anything else, may die, and may be run again.

These modules model the batches as actions and everything between them as
interleaving. TLC checks them on small instances; TLAPS proves the central
invariants for every instance.

## The system and its parts

| Part | Where | Modelled in |
| --- | --- | --- |
| Operation fences: the singleton row `operation_state` and the triggers that abort catalogue writes | `backup-recovery/*-repository.ts`, `migrations/0023_composed_recovery.sql`, `scripts/production-release.mjs` | `OperationState` |
| Preparation of a game's candidate | `reconciliation/game-reconciliation*.ts`, `reconciliation-progress*.ts`, `game-candidate-repository.ts` | `GamePreparation` |
| Publication of a candidate | `reconciliation/game-publication*.ts`, `apps/ingestion/src/game-publication-workflow.ts` | `GamePublication` |
| What publication promises | | `CatalogueAcceptance` |
| Private artifacts, public exports | `reconciliation/publication-preparation*.ts`, `ingestion/publication-export-*.ts` | verdict and guards in `GamePublication` |
| Backup of the Catalogue | `backup-recovery/backup-*.ts`, `card-search-recovery*.ts`, `composition-verification.ts`, `apps/ingestion/src/backup-workflow.ts` | `CatalogueBackup` |
| Recovery | `backup-recovery/recovery*.ts` | fences in `OperationState`, classification in `GamePublication` |
| The allowance a collection may spend | `source-evidence/acquisition-budget*.ts`, `migrations/0042_source_acquisition_budgets.sql` | `AcquisitionBudget` |
| Capture of source responses, collection Workflows, pause and resume | `source-evidence/source-evidence-capture.ts`, `source-evidence-batch.ts`, `source-capture-repository.ts`, `source-evidence-repository.ts`, `evidence-administration.ts`, `apps/ingestion/src/evidence-workflows.ts` | `SourceCapture` |
| Cleanup intents and the executions that advance them | `source-evidence/evidence-cleanup*.ts`, `staging-cleanup*.ts`, `apps/ingestion/src/evidence-cleanup-workflow.ts` | `EvidenceCleanup` |
| Staging objects: writers, references, deletion | `shared/staging-object-*.ts`, `reconciliation/publication-artifact-storage.ts`, `migrations/0024_evidence_cleanup.sql` | `StagingReclamation` |
| Source evidence: writers, reuse, pins, deletion | `source-evidence/evidence-cleanup*.ts`, `migrations/0024_evidence_cleanup.sql` | `CaptureReclamation` |
| Both kinds of cleanup over one machinery, with backups | | `EvidenceReclamation` |
| Deletion of a Catalogue Export | `export/catalogue-export-deletion.ts`, `export/export-*-repository.ts` | `ExportDeletion` |
| Host pacing, curated revisions, reads, releases, HTTP, adapters, CLI | the other directories | in part or not at all, see below |

Paths without a prefix are under `src/src/catalogue/`.

How they interact: a preparation takes the **slot** of its game, is written by
a Workflow under a **generation**, and seals a candidate that names the head it
succeeds and the evidence it was compared with. The owner approves it; a second
Workflow polls until artifacts and exports are verified and the previous
acceptance is backed up, composes the new Catalogue from the members of the
current one, and switches in one batch. A backup or recovery meanwhile raises
the fences, at any moment.

Before that, a collection fetches the Source Requests of a run: each physical
request first **reserves** a dispatch and its bytes against the run's account,
and its body becomes a snapshot only through the receipt of its own upload. When
a run or a preparation has ended for good, a **cleanup** deletes the objects that
nothing refers to, and the owner may delete the export of an old revision. These
work against a bucket in which a call whose answer was lost may still take effect
much later.

## Modules

### OperationState

Four variables for the fences of `operation_state`. Each operator is one UPDATE
of the row with its WHERE clause as guard. `FenceStep` lets any of them happen
at any moment its WHERE allows, an over-approximation of the backup, recovery
and release code: a property that holds under `FenceStep` holds whatever that
code does. `Writable` is the condition of the `recovery_fence` triggers and is
a conjunct of every action that writes a table they protect. `FenceUsers`
bounds who moves the fences in an instance.

### GamePreparation

`operation`, `candidate`, `slot`, `head` and `accepted` are the tables
`reconciliation_operations`, `game_candidates` (with its predecessor pin and
semantic receipt), `game_candidate_slots`, `game_catalogue_heads` and
`game_accepted_candidates`. `workers` is the set of Workflow instances ever
started, each for ever able to write under its own generation: a crash is a
Workflow that takes no further step, and a late Workflow one that takes it late.
Time is one bit per preparation: its deadline has passed or not.

One action per batch: creation, dispatch, seal, terminal failure, pause by an
error, and the owner's pause, resume and abandon. `MoveOperation` is the tail the
last four share (`reconciliationActionUpdate`, the synchronisation of the
candidate, the release of the slot).

The hundreds of checkpointed units between dispatch and seal write only rows
owned by the preparation; the model keeps the guard they all run under
(`reconciliationWriterGuard`) and the result. A candidate's facts are one value
of `Contents`, its semantic receipt, because that is all publication compares.

### GamePublication

Adds `game_publication_operations`, revisions with their composition and
predecessor, the query window, the acceptance head and the backup reserved for
each acceptance. A revision is named by the candidate whose publication creates
it, as in the code (`catrev_` followed by the publication's id).

A **runner** is one execution of `advanceGamePublication`. Its program counter
is in one of the places where the execution holds something it has read and not
yet used:

| pc | the code is about to |
| --- | --- |
| `idle` | read the operation |
| `compose` | read head, checkpoint and members (`game-publication.ts:197`) |
| `switch` | run the switch batch with what it composed (`:232`) |
| `update` | write a state it decided on (`updatePublicationState`) |
| `dead` | nothing: it crashed, timed out or threw; the engine may retry |

Reads that the batch repeats are taken at one moment (`AdvanceGamePublication`),
since an older read can only lead to a batch that refuses. `SwitchOutcome` is
the CASE of `publicationSwitchGuard` in its order, and `SwitchRefused` the
`catch` that maps each refusal to a reaction.

`AcceptRecovery` models the classification of work in flight when the owner
accepts a recovery. It does not move rows back to the time of the snapshot.

### CatalogueAcceptance

The abstract specification: facts per game, the set of acceptances, the latest
one, and the protected ones. `Accept` changes one game's facts and requires
everything accepted before to be protected. `GamePublication` implements it
under the mapping `Promise`: served facts are the content of the candidate that
the current composition names; an acceptance is a published publication; a
protected one has a verified checkpoint.

### CatalogueBackup

A backup is one **attempt** (`catalogue_backup_attempts`), named by its
idempotency key, requested by the publication that reserved it, by the owner, or
as a linked retry of a failed one. A Workflow runs it in a backup step of
`StepTries` tries and, when those are exhausted, a failure step. The module has
the rows, the Workflow instances, the search index with its lease, the retained
objects and manifests, the disposable database, and the executions.

An execution holds what `createVerifiedCatalogueBackup` has read and moves one
call at a time. Its program counter names the next call:

| pc | call |
| --- | --- |
| `insert`, `check`, `evidence`, `begin` | insert and re-read the row, read `operation_state`, capture the verification evidence, become active |
| `object`, `block`, `fence`, `capture` | look for a retained object, raise guard and health fence, capture the composition |
| `lease`, `drop`, `release`, `dump`, `rebuild`, `clear` | the search lease, the removal of the index, its error path, the export, and the two `finally` blocks |
| `put`, `exported` | retain the object, record the export |
| `prepare`, `prepared`, `importing`, `import`, `imported`, `verify` | disposable database, import, verification |
| `manifest`, `complete` | retain the manifest, the completing batch |
| `inspect`, `fail` | `failActiveCatalogueBackupAttempt`, which shares `lease` to `clear` |

Three things go wrong, each within a named bound. `CallFails`: a call throws
without effect and the exception passes the handlers around it (`Leave`,
`Throw`). `Crash`: the execution disappears, also standing for a call whose
answer was lost. `StepTimesOut`: the engine gives up a try that goes on running,
so two tries of an attempt overlap.

The Catalogue is a revision, the acceptance head, and a count of writes, so a
dump agrees with the captured composition exactly when nothing was written in
between. Revision 0 is one that no publication made; it is assumed to have Cards
(verification fails for an empty one, like a failed `verify`). The backups of
such a revision block `recovery_health` for their whole run; a publication's
backup only for its snapshot (`Native`). `AcceptPublication` and `BeginRecovery`
are the parts of the other components that meet a backup.

### AcquisitionBudget

One account, its current policy, and the ledger of dispatches. `Admits` is the
WHERE clause of `reserveSourceDispatch`; `ReserveSourceDispatch` its batch, which
also opens the object's writer; `SettleSourceDispatch` moves a reservation to a
charge once. A deadline is one bit, extensions never shrink a limit, and a legacy
run without a policy gets one with the bytes it already holds as baseline.
`BudgetSpec` allows any of these at any time and is what a collection implements.

### SourceCapture

Overlapping **invocations** (callbacks of the shard's durable step, of which a
timed-out one runs on beside its retry) and one **control path** (the parent that
replaces a finished child, or an owner's resume). The program counter of an
invocation is the next database batch or bucket call:

| pc | call |
| --- | --- |
| `idle`, `prepare`, `owns`, `capture` | take up a request, prepare or find its capture operation, re-check ownership after the pacing wait, read the operation |
| `reserve`, `refused`, `fetch` | the permit, what happens without one, the physical request |
| `revalidate`, `record` | reuse an earlier snapshot after a matched 304, record a failed attempt |
| `received`, `put`, `storing` | retain the response, start the write, wait for it |
| `recover`, `pause` | look for the object that a lost answer may have left; pause if ownership cannot be told |
| `ack`, `uploaded`, `settle` | complete the writer, retain the upload, settle the dispatch (shared with resume) |
| `complete`, `commit`, `parse`, `observe` | commit the snapshot, observe the request |

A source answers in one of seven ways that the code tells apart (rejected fetch,
broken body, unmatched 304, matched 304, retryable status, terminal status,
body). `Lose` ends an invocation at any point and `EndChild` a Workflow instance;
a write already sent to the bucket may land after either. A resume is five
separate transactions (`RecoverAcquisitionUploads`, `VerifyCollectionSupersession`,
the sweep of finished owners, `AdmitResume`, `ResumePausedEvidenceRun`).

Redirect discovery, unchanged Printing Images and capacity pauses are left out;
parsing is the step that observes a request. One control path acts at a time:
the parent Workflow ends before an owner's resume starts the next.

### EvidenceCleanup, StagingReclamation, CaptureReclamation

`EvidenceCleanup` has the intents, their two cursors and results, the chain of
Workflow units of each generation, the owner's advance route beside it, and a
backup. An execution looks at `MaxUnits` objects, one call at a time.

`StagingReclamation` adds content-addressed objects. A key can be deleted and
written again, so each write and delete is a ticket for one **incarnation**; the
bucket's side of a call is `sent` until it takes effect, also when the caller has
long been told it failed. `RetainReference` is the insert that the
`staging_reference` triggers guard.

`CaptureReclamation` adds source evidence, where a key is claimed once by a
tombstone that stays. Runs upload, reuse one another's snapshots and pin keys for
decisions. `SettleWriter` takes only the token found in the bucket, or the abort
of a multipart upload, as acknowledgement. `StrayDelete` lets a delete whose
answer was lost take effect at any later time, as often as the key exists, which
is more than a bucket does.

`EvidenceReclamation` composes the two; they share no key. Retention is at least
a day and outlasts a step of a writer, not a bucket call that was sent. The keys
of an intent do not change once it exists, since its owner has ended.

### ExportDeletion

One export with `ObjectCount` objects, the manifest last. A **call** is a
request being served and, with its random token, an execution of the deletion:

| pc | call |
| --- | --- |
| `insert` | the batch that turns a confirmed plan into a deletion |
| `claim`, `row`, `assert`, `retry` | replay or retry: read the row, claim a lapsed lease, assert idle maintenance, begin the retry |
| `check`, `remove`, `send` | head, renew, delete, for one object after another |
| `verify`, `terminal`, `commit` | absence of the package, last renewal, completion |
| `failing`, `fail` | the same for the failure |
| `wait` | a replay that waits for another execution's response |

A lease lapses at any moment its owner does not renew it, while the owner runs
on. Plan, deletion id and idempotency key of a confirmation always come
together, and a request refused before it began is not a step. A native package
is `ObjectCount = 1`: only its manifest is removed.

## Runs

| Run | Instance | Question |
| --- | --- | --- |
| `publication_interleaving` | two games with one preparation each, two executions and snapshots; or one preparation with two generations, all fences and a deadline | Can competing, replaced or fenced executions lose or overwrite one another? |
| `publication_succession` | one game, two preparations, two contents, deadlines, snapshots, recovery; or three acceptances over two games, one of which repeats facts | Do successive candidates hand over slot, head and evidence, each acceptance backed up before the next? |
| `publication_liveness` | two games, one execution, a deadline | Does a started publication settle? |
| `backup_safety` | publication, owner and retry, ingestion, a recovery, writes, a timed-out try that runs on, crashes and failed calls | Are backups exclusive and what is verified restorable, and are late executions harmless? |
| `backup_liveness` | a publication backup, a crash and three faults, enough to exhaust both steps | Does it end and its fence go down? |
| `source_capture` | one or two invocations and requests, every answer of a source, a loss, a resume, scarce and ample budgets | Does the ledger balance, is nothing fetched twice, and does the collection end or pause? |
| `reclamation` | one or two owners and keys, lost bucket calls, overlapping executions, a backup, a snapshot | Is only unreferenced evidence deleted, for good, and does each cleanup end or pause? |
| `export_deletion` | three calls, two plans or one deletion with two retries, failures, lapsed leases, publications, maintenance, a snapshot | Is a package removed completely, in order, once, and are answers repeated? |
| `capture_retry_pause`, `staging_stale_receipt`, `export_interrupted_deletion`, `backup_maintenance_fence` | the smallest that shows it | The four disagreements below |

The properties of each run are in its `.cfg`, and a comment above each definition
says what it states and of which code. The type invariants describe the variables;
that of publication is a conjunct of `PublicationInvariant`, and those of the budget
and of export deletion are conjuncts of the invariants proved below. A behaviour of a bounded instance ends
when everything is final, which is not an error, so deadlock is not checked; what
must not stop is stated as liveness.

Two of the runs over publication put two instances side by side: the action
constraint `WithinInstance` keeps the steps of `GamePublication` that stay within
one of them, told apart by whether the second game has begun. In the runs over
backups, collection, cleanup and export deletion a plan or scenario in the initial
state says who acts and what may go wrong in this behaviour, and appears only in
guards that bound.

### Where the code disagrees with its documentation or tests

* **A rejected fetch makes a Retry Pause unresumable** (`capture_retry_pause`).
  When `fetch` itself rejects, the operation fails and its dispatch stays
  unsettled, so that its exposure stays charged (`source-evidence-capture.ts:427`).
  Nothing settles it later: recovery needs a stored object, the sweep of
  finished owners an operation without an outcome. `assertAcquisitionResumable` then
  refuses every resume, while `docs/runbooks/sources.md:275` says "Resume after the
  source recovers".
* **A reference can outlive its object** (`staging_stale_receipt`). The
  `staging_reference` triggers ask whether the key is available, not whether the
  verified incarnation is. A second preparation verifies the object of a first,
  whose cleanup deletes it; a third registers its write, which reopens the key;
  the second's reference is then admitted before any byte is stored.
  `publication-artifact-storage.ts:8` says that references become receipts "only
  after every bounded write and verification settles".
* **An interrupted deletion can be stuck** (`export_interrupted_deletion`). A replay
  that waits in vain retains the pending response as final
  (`catalogue-export-deletion.ts:685`). Later replays return it without claiming
  the lapsed lease, and a retry needs the state `failed`. The test at
  `lifecycle.spec.ts:1734` is titled "an exact confirmation replay resumes an
  interrupted deleting operation".
* **A backup without a publication can fence writers for ever**
  (`backup_maintenance_fence`). The runbook says the snapshot fences writers
  "temporarily". The failure step cleans up only attempts of a publication
  (`backup-recovery.ts:1371`), and the retries of any other throw before their
  `finally`. Administration requests then block `recovery_health`, which refuses
  another backup and a recovery.

Three smaller observations have no run of their own. If the reconstruction of the
search index fails once after an export, the guard is cleared all the same
(`backup-recovery.ts:632`), and neither later tries nor the failure step rebuild the
index. Two executions of one attempt share the search lease, so the error path
of one can open reads while the index of the other is dropped
(`card-search-recovery.ts:29`); `SnapshotIsQuiescent` and `SearchReadyMeansIndexed`
are therefore stated for behaviours without a timed-out try, and `backup_safety`
injects no failure of the removal itself. And a replay of a *retry* that read its row
before the pending response was retained can answer with a newer state, so
`ConfirmationIsReplayed` speaks of confirmations only.

### Bounds

* `MaxGeneration` bounds pauses and resumes. One resume gives a stale and a
  current generation, and every guard compares one generation with one row.
* `CompositionAttempts` is 3 in the code and 1 in the runs: with two games the
  head moves at most once under an execution, so one conflict exhausts it. The
  proofs hold for any value.
* Two executions are enough to have one that read before and one that wrote
  after; three acceptances are the fewest in which a revision is shared and then
  succeeded.
* `FenceUsers` and `Perishable`, and the two instances of a run, split what would
  be one instance too large to enumerate: each has the fences and deadlines
  that bear on its question.
* `StepTries` is 4 in the code and 1 or 2 in the runs: 2 has a try that is
  followed by another and one that is the last.
* The plans of `MCCatalogueBackup` bound requesters, attempts, writes, crashes,
  timeouts and failed calls of a behaviour; two writes are an acceptance and
  another write while a backup is running.
* `AttemptsPerGeneration` is 4 in the code and 1 in the runs, so that a failure
  exhausts a generation; a resume opens the next one. Two parents and three
  children have a superseded attempt of each kind. The budgets are chosen so
  that one admits a request and refuses the next, by dispatches or by bytes.
* `MaxUnits` is 4 in the code and 2 in the runs: a unit that continues and one that
  returns. Two write tickets on one key are a first writer and one that reopens or
  shares it (three in `staging_stale_receipt`), and one retry of an intent gives
  overlapping chains. Two keys are enough for the two cursors to differ.
* Three calls are an execution, the one that takes it over, and one that waits;
  two objects are a component and the manifest. At most two bucket calls fail or
  calls die. The proofs hold for any number of calls and objects.
* Attempts, executions and calls are interchangeable in the safety runs that say so, and
  reduced by symmetry; the liveness runs use none.

### Fairness

`FairSpec` assumes what the Workflow engine does: units of work and reserved
backups are retried until they end (weak fairness), a started Workflow polls
again whenever an execution slot is free (strong fairness of `Begin`, since a
competing Workflow can take the slot in between), an execution that has begun
goes on, and executions do not die for ever, since a step that fails five times
pauses the publication. Nothing is assumed of the owner: no approval, dispatch
or resume needs to happen.

`PublicationSettles` has one exception that the code has too: when the private
artifacts failed, `advanceGamePublication` keeps the publication in
`waiting_artifacts`, and only the deadline ends it. `DeadlineSettles` says it does.

`FairSpec` of `CatalogueBackup` assumes that an execution that has not crashed
makes its next call, that the engine starts the next try of a running instance,
and that somebody keeps polling: the publication's Workflow asks for its backup
at every poll, which dispatches a pending request and observes an instance that
errored. Crashes and faults are bounded by their constants and may happen at
any of the allowed points.

`FairSpec` of `SourceCapture` assumes that the platform runs the step of a live
instance, lets sent writes land, and drives the parent; the owner need not pause,
extend, terminate or resume. Losses are bounded by the plan. `FairSpec` of
`EvidenceReclamation` assumes that some execution advances while one can, that the
answer it awaits arrives, and that a snapshot lowers its fence. Nothing is assumed
of a put, or of a call whose answer was lost. `ExportDeletion` has no liveness: an
execution is part of a request, and nothing in the code restarts it.

## Proofs

`GamePublicationTypes` proves type correctness, `GamePublicationRows` that each
action keeps the rows related, and `GamePublicationProofs` combines them into the
theorems. They hold for all values of the constants under their
ASSUMEs (every preparation has one game; `Spine` and `None` name nothing else):

* `PublicationIsConsistent`: `Spec => []PublicationInvariant`;
* `TypeCorrect`, `OneCurrentCandidatePerGame` and `AcceptancesAreProtected`,
  which follow from it;
* `FinalIsFinal`: no step changes a published or failed publication.

The safety properties are not inductive alone. That a slot is held by a live
candidate needs to know that the candidate and its operation agree, or an
abandonment could release a slot whose candidate stays (`CandidateMirrorsOperation`);
that candidates in flight are current needs that no two of a game are in flight;
that acceptances are protected needs publication and candidate to become
published together, and that nothing is published while the empty revision,
which needs no backup, is current. `PublicationInvariant` is that conjunction, and
the proof is one lemma per action and conjunct it can disturb. The succession
run checks the same formula with TLC.

`AcquisitionBudgetProofs` proves, for every budget, number of captures and owners,
that reservations and charges stay within the policy in force
(`AllowanceIsKept`) and that a capture never has two unsettled dispatches
(`CaptureHasOneOwner`). The invariant adds that each dispatch was charged once and
that a run without a policy has spent nothing, without which the
initialisation of a legacy run could start above its allowance. `SourceCapture`
implements `BudgetSpec` (checked by TLC as `BudgetIsKept`), so both carry over.

`ExportDeletionProofs` proves for a package of any size and any number of calls:
`DeletionIsComplete`, `ManifestIsRemovedLast` and `PartialIsNeverServed`. None is
inductive alone: that a completed deletion left nothing needs that every
execution, whether it still holds its lease or not, has no object behind it
(`SweptInOrder`), since a deposed execution goes on sending deletes; that a partial
package is hidden needs that a call past its claim implies a claimed export
(`ClaimedIsHidden`). `ExportInvariant` is the conjunction, proved by one lemma per
action.

Only model-checked: `CompositionMatchesHeads`, `ServedFactsAreAccepted`,
`StaleRunnerIsFenced` and the refinements `PublicationKeepsPromise` and `BudgetIsKept`;
`AccountMatchesLedger`, which sums over the ledger and needs induction over a set;
everything about `CatalogueBackup`, the rest of `SourceCapture`, and cleanup; the
answers of export deletion; and the liveness properties, which the proof system does
not reach.

## Not modelled

* Reconciliation rules, canonical identity, source adapters, archive extraction
  and curated data: large sequential transformations of card records without
  concurrency of their own, and most of the repository's lines. A candidate is its
  semantic receipt, a body one observation.
* Host pacing: a pure controller. The pacing wait is a point between two steps of
  an invocation.
* The units between the dispatch and the seal of a preparation, and of public
  exports: one writer, rows of its own, one guard that the model has.
* The return of rows to a snapshot in a recovery, and releases: calls of the provider.
* Digests and object contents: a verified object is verified.
* The publication path that predates per-game candidates
  (`publication-commit.ts`).
* Idempotency of administration requests: a replay returns the stored result.
* HTTP, authentication, CLI and scripts; reads, beyond the query window.
* Read-only inspection of every component.
* Counters shown to the owner (objects deleted, progress of a run).

## Next

The refinement of `CatalogueAcceptance` and the exclusion of backups are the next
to be proved; a recovery that returns rows to the snapshot of a verified backup is
the next to be modelled.
