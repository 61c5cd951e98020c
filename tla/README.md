# Verification of the Marvii core

TLA+ models, TLC runs and TLAPS proofs of the parts of the Rust core (`src/src/openhuman`) whose correctness depends
on the order in which things happen: the memory job queue, the source tree that its handlers build (also while it is
reset), the versioned subtrees of Notion pages, the re-embedding chain, the approval gate in front of tools with an
external effect, the chat turns of a thread, and the cron scheduler. Paths below are relative to `src/src/openhuman`
unless they start with `src/`.

    tlasany M.tla                        parse a module
    tlc -workers 2 -config X.cfg MC.tla  run a configuration (PROJECT.json pairs them)
    tlapm M.tla                          check the proofs of a module *Proofs.tla

## 1. The system

One process (a Tauri app or a server) runs everything on a tokio runtime. What survives it is in SQLite
files; what coordinates it is a handful of in-memory tables behind mutexes, and oneshot channels.

| Component | State | Operations | Talks to |
|---|---|---|---|
| Memory job queue (`memory_queue/`) | `mem_tree_jobs` rows; each worker's claimed `Job`s; the LLM permit | enqueue, claim (single, batch), mark done / deferred / failed, recover, release, requeue, retry | scheduler, RPCs, ingest and handlers enqueue; workers claim |
| Source-tree pipeline (`memory_queue/handlers`, `memory_tree/tree`, `memory_store/trees`) | chunk lifecycle, `mem_tree_buffers`, summaries and parent links, tree root | extract, append_buffer, seal, flush_stale, the manual flush | runs as handlers of the queue; enqueues its own follow-ups; awaits the model |
| Memory reset and deletion (`memory/read_rpc/admin.rs`) | none of its own | reset_tree, wipe_all, delete_chunk, delete_source | deletes under the running workers |
| Re-embedding chain (`memory_queue/ops.rs`, `handle_reembed_backfill`) | one row per signature, vectors and tombstones per signature, `BACKFILL_IN_PROGRESS` | ensure_reembed_backfill, one batch per run | settings RPCs, syncs and extract workers trigger it |
| Chunk ingest (`memory/ingest_pipeline.rs`) | chunk rows | persist | one transaction writes chunks and enqueues extractions |
| Scheduler gate (`scheduler_gate/gate.rs`) | one-slot semaphore, host signals | wait_for_capacity, acquire_llm_permit | workers, voice, autocomplete, triage, reflection |
| Approval gate (`approval/`) | `pending_approvals` rows; waiters (oneshot senders); thread and meeting routes | intercept, decide, expire, record_execution | the agent's tool runner parks in it; web chat, meetings and an RPC decide |
| Web chat turns (`channels/providers/web/ops.rs`, `agent/harness/run_queue`) | `IN_FLIGHT`, `PARALLEL_IN_FLIGHT`, a run queue per turn, cancellation tokens | start_chat in five queue modes, cancel_chat, queue_clear, follow-ups | the agent loop drains the run queue; replies go to the gate |
| Cron (`cron/`) | `cron_jobs` rows; the batch in hand | poll, run, settle, add, update, remove | RPCs and agent tools edit; runs are shell commands and agent turns |
| Document subtree (`bucket_seal.rs`, `notion/ingest.rs`, `retrieval/cover.rs`) | summaries tagged with page and version, the merge tier's buffers | ingest of a revision, seal_document, the window cover's filter | the Notion sync enqueues; a handler of the queue; the brief reads |
| Agent harness, orchestration, session_db, todos, sockets | turns, sub-agents, run ledgers, connections | see the plan | everything above |
| Inference, tools, channels, composio, wallet, UI, ... | mostly none of their own | I/O and data conversion | — |

`PROJECT.json` lists every component with its status and reason.

What is hard here, and hence modelled rather than unit-tested:

* **Claims outlive what they claimed.** A worker works from a snapshot of its row. While it runs, a shutdown
  hook can release the row, a restart recover it, a user delete or requeue it and another worker claim it.
  Settlement is fenced by `(attempts, started_at_ms)`, but `attempts` goes *down* on a deferral and
  restarts on a retry. Cron settles by a snapshot as well, without any fence.
* **A partial unique index as a lock.** At most one ready or running row per dedupe key; inserts respect
  it with `INSERT OR IGNORE`, a dozen `UPDATE`s rely on it. An insert that is suppressed trusts the active
  row to do its work, which may just be ending.
* **A read, an await and a write.** A seal reads its buffer, waits for a model for seconds, then clears
  the buffer; appends, resets, and a second seal started by the user, happen in between. A re-embedding batch
  is embedded while its items are deleted. A page's subtree is several such seals, any of which may be the last.
  `update_job` reads a row and later writes all its columns.
* **Two tables, two locks.** A turn is cancelled, replaced, registered and cleaned up under locks that are
  given back in between, while its task runs, queues messages and ends.
* **Two copies of one decision.** A user's decision is in a row and in a channel, the timeout races both,
  and the process may die between any two steps.
* **Statements that fail.** SQLite is busy now and then; some errors are retried, some dropped.

## 2. Modules

| Module | What it models |
|---|---|
| `JobTable` | rows of `mem_tree_jobs` and what each SQL statement does to one: pure operators |
| `MemQueue` | worker pool, scheduler, RPCs, process start, shutdown and crash around that table |
| `SourceTree` | the four handlers, the seal engine and the manual flush, on one flat source |
| `KeyQueue` | abstract: what the queue promises to those who enqueue and handle jobs |
| `TreeReset` | `reset_tree` beside that pipeline, whose workers are not stopped |
| `DocSubtree` | the revisions of Notion pages: ingest, seal job, merge tier, and what the window cover shows |
| `ReembedChain` | the self-deferring row per embedding signature, its triggers and its runs |
| `Consent` | abstract: what the gate promises about tool calls |
| `ApprovalGate` | the gate, its store, its two decision channels and its caller |
| `TurnQueue` | the chat turns of one thread, their run queues, interruption and cancellation |
| `CronScheduler` | the cron table, the scheduler's batches and the edits beside it |
| `MemQueueProofs`, `SourceTreeProofs`, `TreeResetProofs`, `DocSubtreeProofs`, `ReembedChainProofs`, `ApprovalGateProofs`, `TurnQueueProofs`, `CronSchedulerProofs` | the theorems of each, for every instance |
| `MCMemQueue`, `MCSourceTree`, `MCTreeReset`, `MCDocSubtree`, `MCReembedChain`, `MCApprovalGate`, `MCTurnQueue`, `MCCronScheduler` | values of the constants, symmetry |

`MemQueue` extends `JobTable`, `TreeReset` extends `SourceTree`. `SourceTree`, `TreeReset`, `DocSubtree` and
`ReembedChain` do not extend `MemQueue`: their queue is a status per key, without rows, tokens, leases and budgets, so
that handlers are explored with little else. `KeyQueue` is where the two sides meet:

* `MemQueue` implements it (`ActsAsKeyQueue`, proved): a key's status is that of its active row, and a worker owns the
  keys whose rows its claims can still settle. Claims take rows from whoever held them, also after the shutdown hook
  (`Release`), under which two workers may run one row but one of them owns it.
* Each of the four takes steps of it only (`UsesKeyQueue`, `ResetUsesKeyQueue`, `SealsUseKeyQueue`,
  `ChainsUseKeyQueue`, proved), those of `SteadySpec`, which are all but the hook's. Work done twice under the hook is
  therefore outside these four models. Before this was checked, `DocSubtree` and `ReembedChain` let a failed row be
  requeued by itself, which no statement of the queue does; now all go together.

That the four take every kind of step the queue may take is read off, not proved. They leave out a lost settlement
(`Abandon`: a row then stays running as after a crash), in the tree and the chain a `parked` row, and `wipe_all`
(`Wipe`; `reset_tree` is one in `TreeReset`). In `ReembedChain` a restart recovers every running row, as one after
their leases does. The timed flush of `SourceTree` stands for a key per 3-hour block and is left out of its view.

### MemQueue

| Code | Model |
|---|---|
| a row's columns | record: key (kind and budget follow from it), status, attempts, started stamp, `due` for `available_at_ms <= now`, `expired` for `locked_until_ms <= now`, `parked` for an unrecoverable failure class |
| `Job` held by `run_once` | `held[w]`: job, attempts, started |
| `claim_next`, `claim_ready_extract_batch` | `ClaimNext`, `ClaimBatch`: ranked by kind as the SQL orders them, ties in any order (age is data) |
| gate, permit kept or dropped (`worker.rs:165-239`) | `pc[w]`, `permit`, `KeepsPermit`, `PermitDropped` |
| handler, then `settle_job` | `Handle`, `Settle` with any outcome the kind allows |
| a statement that fails with SQLITE_BUSY | `StatementFails`, `MaxLeaks` of them |
| `recover_stale_locks` in `start` | `Start`; a process comes `down` → `up` → `stopping` → `down` |
| shutdown hook, exit, kill | `ReleaseRunningLocks`, `ProcessEnds` (in any state), `MaxInterrupts` of them |
| `requeue_failed`, `requeue_transient_failed`, `retry_all_failed` | `RequeueFailed`, `SchedulerTick`, `RetryAllFailed`; each is one UPDATE that the index aborts as a whole |

Time is not counted: a claim stamps the current millisecond, which is one no snapshot carries, or the same
as the last claim's. `BecomesDue` and `LeaseExpires` let a backoff or a lease run out at any moment.

### SourceTree and TreeReset

Each transaction is one action. `Claim`/`Handle…`/`Settle` follow a worker through a job; a seal goes
through stage `"model"`, with the buffer it read in `snap`, before `CommitSeal`. `ManualFlush` runs the
cascade in the RPC's own task (`CascadeReads`, `CommitSeal`), not through the queue. `overtaken` is a
history variable: what was put into a buffer while a seal of that buffer awaited the model.
`mem_tree_trees.max_level`, `root`, parent back-links that only fill NULLs, `force_now_ms` of a
suppressed job and the failed row per key are all there; token counts are small numbers, summary texts,
embeddings and files are left out.

`TreeReset` adds the two transactions of `reset_tree` (`DeleteTree`, `RequeueChunks`) and what becomes of
actors whose row and tree are deleted under them (`stale`): a seal that awaits the model fails in its
transaction, since it reads its tree's row there (`Orphaned`); an extraction, a flush and an append that has not
resolved its tree go on and touch the new one; a settlement finds no row. The rebuilt tree has a new id, so
the variables of `SourceTree` are those of the tree there is; `gone` has the ids of deleted summaries.

### DocSubtree

A revision is a pair of page and version; its chunks are content-addressed, so revisions share them. `Batches`
is what the token budget makes of a revision's chunks. `Ingest` is the gate's transaction, `Enqueue` the seal job's
(both in the sync). The job is `Claim`, one `SealBatch` per batch of a level (`ByCount` groups the next level,
`AfterSeal` says what follows), `AppendRoot` once one summary is left, then the gate of the merge tier (`ReadMerge`)
and perhaps its seal (`SealMerge`), and `Settle`. A job that fails or dies is begun again from its chunks; its
summaries stay. The batches of a level are sealed in a fixed order. The merge tier has one level here. `under` and
`overtaken` are history variables.

The read side is a set of operators on this state for a window that holds everything: `Winners` is the summary the
filter keeps, `Removed` and `Suppressed` what it takes out, `Shown` the chunks that the cover then tells of, by a
summary or raw. A retry's new ids, and the order the query returns equal levels in, are why `Winners` is a set.

### ReembedChain

Items are chunks and summaries; an item is covered at a signature by a vector or a tombstone. A trigger is
three steps (`Probe`, `Enqueue`, `RaiseFlag`) of one of its callers: the worker that admitted a chunk, the
end of a sync, a settings RPC. A run of a row is `Claim`, then `EndStale`, or `ReadWorklist` with a batch in
hand, `Embed` (or `NoProvider`, `EmbedFails`), `Write`, and `Settle` with the outcome: done, deferred, tried
again, failed for good. Workers and syncs hold the config of the process's start (`loaded`), the settings
RPCs the saved one (`saved`). `missed` names what the code leaves to the next trigger: what came between
an empty worklist and the settlement of its row, what a missing provider ended, what a restart under another
signature uncovered.

An embedding batch is answered item by item: a body that cannot be read is in `Unembeddable`; any other item may be
`refused`, since the errors that count as unrecoverable include those of the account; a transient error ends the run
after some items were marked. A tombstone that cannot be written is not modelled: its item is read again.

### ApprovalGate

A call goes `new → registered → parked → allowed | denied` with the steps of `intercept_audited`: the
waiter and the routes, the row, the await, the timeout with its eviction, its deny and its re-read. A
decision is three steps of another task: the row (`Decide`), the channel (`Deliver`), and for "always"
the saved list (`SaveAlways`). A reply finds its call through `route`; the RPC may decide any row. A
store call may fail at any of its statements (`Unfinished`), also after its update has committed.
`store::decide` runs its two updates on one connection without a transaction; one step is enough, since
another statement between them acts as one that comes before (the expiry is `ListPending`'s). The tool
runner's part is `Execute`, `Finish` and `Cancel`, the last being the drop of the turn's future.

### TurnQueue

A request is one call of `start_chat`; the turn it may become carries its id. Each section under a lock is
one action: `RouteReply`, `Enqueue`, `FindsIdle`, `Replace` (takes the old entry out, cancels it, spawns),
`Register` (the new entry goes in, over whatever is there), and the two of a parallel turn. The turn's task
drains its run queue at the iteration boundary (`DrainSteers`, `DrainCollects`), goes round, delivers and
ends (`End` hands out the follow-ups, each of which calls `start_chat` again), or is unwound when its token is
cancelled, or aborted by the backstop. `CancelPrimary` and `CancelParallels` are the two halves of
`cancel_chat`. `displaced` and `late` are history variables: entries written over or written too late, and
turns that had their result when they were cancelled.

### CronScheduler

A row has `enabled`, `delete_after_run` (`once`), its schedule, and the schedule its `next_run` was computed
from. Instants are kept as passed or not (`due`) and, of those passed, by their order (`older`), which is what
`due_jobs` sorts by. `Tick` reads a batch of snapshots; each job starts, ends and is settled by its snapshot
(`RemoveOneShot`, `DisableOneShot` and `DisableWrites`, `Reschedule`), or `SettleFails`; the next poll waits for
the whole batch. The user adds, removes and updates; `update_job`, which disabling uses too, is a read
(`BeginUpdate`) and a write of every column (`Update`). `fires` counts the scheduled runs of a one-shot job since
it became one.

## 3. Runs

Passing runs take between a few seconds and three minutes with two TLC workers.

| Run | Instance | Question |
|---|---|---|
| `queue_safety` | 2 rows of 2 keys (one of a kind that defers), 2 workers, 3 stamps, 1 interruption, 1 failing statement, every producer and retry | can two outstanding claims settle one row; do workers share a row; is the budget kept; is a settled row final; does the table implement `KeyQueue` |
| `queue_liveness` | 2 rows, a seal and an extraction (first and last rank, both LLM-bound), 2 workers, 2 stamps, local model, other LLM users, 1 failing statement | can a low rank starve beside anything but better ranks that are fed for ever; is every running row that a worker holds settled; do local LLM handlers run one at a time |
| `tree_safety` | 2 chunks that each fill a buffer, 4 summary ids, 2 levels, 2 workers; a crash, a failure or a manual flush at any step | links and child lists agree; one summary per item; the root is highest; nothing is lost but what a seal overtook; no admitted chunk is stranded; does the pipeline take steps of `KeyQueue` only |
| `tree_reset` | 1 chunk too small to fill a buffer, 1 worker and the RPC, 3 summary ids; two of: a reset, a crash, a failure, a manual flush | does anything of a deleted tree come back; does every chunk get into the rebuilt one |
| `doc_subtree` | 2 revisions of a page, of 3 batches and of 1, sharing a chunk; fan-in 2, merge gate 2, 2 workers, 14 summary ids; a failure or a crash at any step | is what the merge tier gets always one whole revision; what does a reader of the page see; is every enqueued revision sealed |
| `reembed` | a chunk without a body and a summary, 2 signatures, batches of 1, 2 disturbances (refusals by the provider among them) | is what has no vector pursued; is only what must be given up; does every chain end; does the flag stand for the batch in hand |
| `approval_races` | a chat call and a meeting's call on one thread, a call of unknown origin, 1 store error, 1 restart | the gate implements `Consent`; approvals arrive and are acted on; denials agree with rows; whom does a reply reach |
| `turn_queue` | an interrupting turn, a follow-up and a request of any other mode; 1 cancel or clear | are running turns reachable by cancel; is a message handled once; do clients hear the right thing, and something; do follow-ups run |
| `cron` | 2 jobs, one absolute time, one period, polls of 1, 1 editor; two of: an edit, a failed settlement, a crash | how often does a one-shot fire; does every due job get its turn; does an edited schedule take hold |
| `tree_lost` | 3 chunks, 2 workers, no faults | *violation*, see §6 |
| `reembed_switch` | as `reembed`, 1 disturbance | *violation* |
| `cron_one_shot` | 1 job, no disturbances | *violation* |

Why the bounds are enough to be worth something: a fencing violation needs a worker that holds an old claim while
another claims, a deferral or an interruption that reuses the attempts, and stamps that separate or confuse the
claims; the deferring kind's budget is 2 and the other's 1, so first attempt, retry and terminal failure all occur;
two rows suffice for a pairwise index. Two rows of the first and the last rank suffice for one to wait for the other;
no process ends in `queue_liveness`, so that what a restart repairs is not counted as settled. With fan-in 2 and a budget that one chunk fills, two chunks make two leaf seals
and one above them, of which two overlap in two workers. In `tree_reset` one chunk is summarised by the timed or the
manual flush only, so that an old seal, a reset and a new seal of the same chunk overlap; with two chunks and no
fairness the safety half was also explored once (2.2 million states). One item that cannot be embedded beside one that
can, and two signatures, are what it takes to run a chain dry, block it, or make it stale. Three batches with a fan-in
of 2 make a subtree of three levels whose last group is short, one batch makes the subtree that is its own root; 14
ids suffice for both, a retry and the merge (`OutOfIds` otherwise); with one disturbance no job uses up its budget, so
that a failed job, as opposed to a parked one, is left to the theorems. Two calls on one thread overwrite a route.
Three requests are a turn, one that displaces it, and one that waits. Two jobs and polls of one make a job wait for
another.

The bounds on crashes, failures, statements that fail, flushes, resets, cancels and edits are constants of the
modules, used only in the guards of the actions that count them; `MaxDisturbances` bounds their sum. Symmetry
is used only in runs without liveness properties. A queue that has used up its row ids suppresses further
inserts, as though the key were active; ids of summaries that run out are `OutOfIds` in the property that
depends on them.

Deadlock is checked in every run but `turn_queue` and `doc_subtree`, where all requests have been made, or all
revisions sealed, some time.

Fairness, and why the code justifies it:

* *Queue*: weak fairness on each worker's steps once it has claimed, on the passing of backoffs and leases, on the
  start of the process and the scheduler. Strong fairness, for each row, on the claim of it or of a row of a better
  rank: a tokio semaphore hands the slot out first in, first out, so its other users cannot keep the workers out for
  ever, and of the due rows of one rank the oldest is claimed. It does not assume that a low rank is ever reached:
  better ranks may be claimed instead, again and again, and `ReadyIsClaimed` names that as the only way a row starves
  (TLC finds it when the exception is taken out: a seal that is requeued for ever keeps an extraction waiting).
  Nothing makes a producer or a user act, or the process die. A handler is assumed to return.
* *Tree under reset*: ready jobs are claimed (strong: what `queue_liveness` shows of a queue whose better ranks
  come to rest; here seals follow from the chunks, and flushes are three hours apart), handlers and the model return,
  buffers age, the scheduler ticks and sweeps, and a `reset_tree` that has begun goes on. Not the user, nor faults.
* *Document subtree*: the sync goes on to its enqueue, ready jobs are claimed (strong, as above), models and the
  store answer. Not edits of pages, requeues of failed rows, or faults.
* *Re-embedding*: runs and callers of the trigger go on (weak), and sources sync again and again
  (`memory/sync.rs` ends each sync with the trigger). Nobody has to sign in, change settings or sweep.
* *Gate*: each call's own steps, the delivery of a committed decision, and time. No fairness for users,
  cancellation, crashes or failures.
* *Turns*: the runtime polls every task that can go on, and a turn's loop ends (`max_iterations`). Nobody has to
  call `start_chat`, cancel or clear.
* *Cron*: the loop polls, what runs returns, what has begun in a thread goes on, time passes.

## 4. Properties

*Queue.* `OneSettlerPerRow`: whatever happened since their claims, two outstanding claims never both match
a row. `NoDoubleClaim` (until the shutdown hook), `AttemptsWithinBudget` (one more run per interruption, no more),
`TerminalIsFinal`, `LocalWorkIsSerial`. `ReadyIsClaimed`: a ready row is claimed in the end, also beside a better-ranked
one that runs, is retried, fails or is lost; only better ranks claimed for ever starve it. `RunningIsSettled`: a running
row that a worker holds is settled unless a statement fails or the process ends; of the row whose own settlement failed
it promises nothing (§6).

*Tree.* `OnlyOvertakenAreLost`: what reached the tree is in a buffer or a summary, except what came under a seal.
`AdmittedIsPursued`, `ChildSealsOnce` (through the queue only), `ParentListsChild`, `RootIsHighest`.
`ResetStrandsNothing`: the first two of these through a reset. `NothingComesBack`: no buffer, child list or root
names a summary of a deleted tree. `EveryChunkIsRebuilt`: in the end each chunk is summarised in the tree there
is, or dropped; the exceptions (overtaken, overlooked, a crash between the two transactions, a row a crash
left running) are cases the code does lose, each listed in §6.

*Pages.* `RootsCoverRevision`: whatever failed, died or ran beside it, an item of the merge tier is the summary of all
chunks of one revision. `OnlyTallVanish`: the newest sealed revision is shown whole, among older ones and the
duplicates of retries, unless it has more than one batch. `SupersededHidden`: what only an older, sealed revision has is
not shown. `RevisionIsSealed`: an enqueued revision gets its doc-root, or its job fails (or a crash left it running).

*Re-embedding.* `UncoveredIsPursued`: an admitted chunk without a vector has a row that will still read the
worklist, or a failed one, or is `missed`. `CoverageIsReal`: vectors and tombstones are of items that exist, no item has
both at one signature, and only an unembeddable or a refused one has a tombstone. `FlagStandsForBatch`, `ChainEnds`.
`EmbeddableSearchable`: what can be embedded becomes searchable at the signature of the process, unless the provider
has refused it with an unrecoverable error (§6).

*Gate.* `KeepsPromise`: refinement of `Consent`, under the mapping of a row to a ruling (`Ruling`) and of a
program counter to a fate (`Fate`): a call acts at most once, only after a ruling for it, and a ruling
never changes. `ApprovalReachesCall`: an approval committed to the row of a parked call is in its channel,
or on its way with the sender still there. `DenialsAgree`: a call is turned away only if its row says so,
unless the store failed. `ApprovedIsActedOn`: an approved parked call runs. `RoutesKnown`: a reply on a thread or in a
meeting reaches a call that asked there and waits, or one that lost its turn or its insert (§6), and never one that has
its answer, though calls on one thread write over and clear each other's route.

*Turns.* `LiveTurnsAreReachable`: `cancel_chat` finds every turn that runs, unless its entry was written over.
`OnlyDisplacedStrand`: only cancelled or displaced turns leave follow-ups behind. `HandledOnce`,
`CancelledStaysQuiet` (both terminal events only if the turn had its result when cancelled),
`EveryTurnReports`, `FollowupRuns`.

*Cron.* `OneShotFiresOnce`: once, and once more at most for each edit, failed settlement or crash. `DueIsRun`: no
due job starves behind the others, unless left-over one-shots fill every poll. `ScheduleTakesHold`: an edited
schedule gets its `next_run` in the end, whatever runs and edits wrote over it. `DueInLine` and `PlacesKept`, the safety
half of `DueIsRun`: the due jobs are in one line, and only a job rescheduled to a past time, or an edit, gets ahead of
one that waits there.

*Queue and its users.* `ActsAsKeyQueue` (run `queue_safety`): the table implements `KeyQueue`. What an enqueue, a
claim, a settlement, a requeue or a restart does to a key is what its users are told: among others, a settlement under
an old token changes nothing for the row's new owner, and a requeue takes every failed row or, when two of one key or an
active row stand against it, none. `UsesKeyQueue` (run `tree_safety`): the tree's handlers rely on no more.

The type invariants, `OneActivePerKey`, `DueInLine`, `PlacesKept`, `ResetUsesKeyQueue`, `ChainsUseKeyQueue` and
`SealsUseKeyQueue` are theorems (§5) and not in a run; TLC found each true on the instance of its module's run.

Every property of a passing run has a mutant: the definition `M_X` beside `X` is a plausible bug (a
condition dropped from the claim, a token without its time stamp, a missing re-read, ...), and replacing
`X` by it breaks the property under the same configuration.

## 5. Proofs

For every value of the constants (any number of rows, workers, chunks, levels, calls, requests, jobs, and any
number of faults) under the named assumptions of the modules:

| Module | Theorems | State |
|---|---|---|
| `MemQueueProofs` | `Invariant`, `TypeCorrect` | `IInv`, `TypeOK` |
| | `Fencing`, `Dedupe`, `ClaimsExclusive`, `BudgetBounds`, `TerminalStays` | `OneSettlerPerRow`, `OneActivePerKey`, `NoDoubleClaim`, `AttemptsWithinBudget`, `TerminalIsFinal` |
| | `OneLocalHandler`, `ParkedStays` | `LocalWorkIsSerial`, `ParkedWaitsForUser` |
| | `ImplementsKeyQueue`, `OneOwnerPerKey` | `ActsAsKeyQueue`, `KeyView!OneOwner` |
| `SourceTreeProofs` | `Invariant`, `TypeCorrect` | `IInv`, `TypeOK` |
| | `LostOnlyUnderSeal`, `AdmittedPursued`, `SealsOnce` | `OnlyOvertakenAreLost`, `AdmittedIsPursued`, `ChildSealsOnce` |
| | `LinksAgree`, `ParentsFinal`, `RootHighest`, `FaninHolds` | `ParentListsChild`, `ParentIsFinal`, `RootIsHighest`, `FaninRespected` |
| | `PipelineUsesKeyQueue` | `UsesKeyQueue` |
| `TreeResetProofs` | `ResetIsFinal`, `NothingStrands` | `NothingComesBack`, `ResetStrandsNothing` |
| | `ResetsUseKeyQueue` | `ResetUsesKeyQueue` |
| `DocSubtreeProofs` | `Invariance`, `TypeCorrect` | `Inv`, `TypeOK` |
| | `MergeTierIsWhole`, `OneBatchIsShown`, `OldIsHidden` | `RootsCoverRevision`, `OnlyTallVanish`, `SupersededHidden` |
| | `SealsUse` | `SealsUseKeyQueue` |
| `ReembedChainProofs` | `Invariant`, `TypeCorrect` | `IInv`, `TypeOK` |
| | `CoverageCorrect`, `NothingForgotten`, `FlagCorrect` | `CoverageIsReal`, `UncoveredIsPursued`, `FlagStandsForBatch` |
| | `ChainsUse` | `ChainsUseKeyQueue` |
| `ApprovalGateProofs` | `Invariant`, `TypeCorrect` | `IInv`, `TypeOK` |
| | `ApprovalsArrive`, `DeniedByItsRow`, `GateKeepsPromise`, `RepliesFindAskers` | `ApprovalReachesCall`, `DenialsAgree`, `KeepsPromise`, `RoutesKnown` |
| `TurnQueueProofs` | `Invariant`, `TypeCorrect` | `IInv`, `TypeOK` |
| | `NoTurnEscapes`, `NoFollowupStrands`, `EachMessageOnce`, `NoResultAfterCancel` | `LiveTurnsAreReachable`, `OnlyDisplacedStrand`, `HandledOnce`, `CancelledStaysQuiet` |
| `CronSchedulerProofs` | `TypeCorrect`, `FiresOnce` | `TypeOK`, `OneShotFiresOnce` |
| | `OneLine`, `WaitersKeepPlace` | `DueInLine`, `PlacesKept` |

**Queue.** `OneSettlerPerRow` is not inductive: a row that is ready
again could be claimed under the token of an old snapshot. A claim stamps the current millisecond, so
only a snapshot of that millisecond can collide; `TokensBehind` says that such a snapshot has no more
attempts than its row, and the claim increments them. Attempts only go down on a deferral, which the
worker that holds the current token makes as it lets go of it, or with the erased stamp of a requeue.
`TokensDistinct` then separates any two snapshots, `SettledForGood` separates settled rows from all
of them. `HeldRowsRunning` gives `NoDoubleClaim`: until the hook runs, only a holder moves its row, and
claims take ready rows only. `AttemptsLeft` carries the budget over a claim. Lemmas treat the shapes of
steps once (`RefillStep` for whatever inserts and requeues, `ClaimStep`, `SettleStep`, `UnlockStep` for
recovery and release, `EndStep`, `QuietStep`), and `NextInvariant` has a step per action. `OneLocalHandler` has
an invariant of its own on top, `LocalWorkKeeps`: with a local model a worker that claims its batch or holds
an LLM-bound row has the permit, so there cannot be two.

**Queue as a promise.** `ImplementsKeyQueue` reads `KeyQueue`'s state off the table, and each step lemma ends in an
action of the abstract queue (`RefillView`, `RequeueView`, `ClaimView`, `SettleView`, `RetryView`, `WipeView`,
`RestartView`, `ReleaseView`, and `QuietView` for stutters; `StepsActAsKeyQueue` joins them). The point is
ownership: a snapshot owns its key as long as its token matches. That a claim takes the key from every other worker
needs `TokensBehind` once more (the new token is nobody's), that a settlement under an old token is a stutter is the
fence itself, and that one worker owns a key (`OneOwnerPerKey`) is `TokensDistinct` with `OneActivePerKey`. A worker
between two jobs holds no snapshot that its next claim could drop (`IdleHoldsNothing`).

For the users the direction is the other one. `HandHasRow` (a worker's keyed job is running and its alone) makes each
settlement the owner's; in `TreeReset` it is said of workers that are not `stale`, whose rows are gone and who own
nothing, and `FailuresCounted` keeps the ids of failed rows fresh; in `DocSubtree` `RowsInv` adds that a revision whose
sync has yet to send its job has no row, so that the enqueue meets a free key.

**Tree.** What makes `OnlyOvertakenAreLost` hold is `SnapCoversBuffer`: what is in a buffer under a seal
was read by that seal, or has a summary already, or came later and is overtaken; clearing the buffer then loses
no more. `AppendedIsInTree` (an append settles after its push) gives `AdmittedIsPursued`. `ChildSealsOnce`
holds while nothing fails and nobody flushes by hand, and its conjuncts are implications from that (`Calm`): a
running row has one worker, a seal is its level's job and reads no more than its buffer, a chunk is extracted
once and pushed once, and leaves its buffer as it gets its summary. `WrittenOnly` keeps unused ids out of
everything, which `RootIsHighest` and the links need when a summary is written.

**Reset.** `NothingComesBack` with `SealsAreFresh`: a seal in stage `"model"` has read its buffer since the
last reset, because a reset turns every seal under way into an orphan, which commits nothing. The other way
a deleted id could return, an append, brings chunks only. `ResetStrandsNothing` follows from `Kept`: a seal's
snapshot covers its buffer but for what overtook it (`SnapCoversBuffer`), and an append that will settle its row
has pushed its chunk into the tree there is (`PushesKept`). Workers that lost their rows are left out of
`PushesKept`, since they settle nothing. The lifecycles need nothing said between the two transactions, and after
the second one no chunk is admitted or buffered until the pipeline makes it so again.

**Pages.** `RootsCoverRevision` becomes inductive with `TaskOK`: on the way up, what a worker has sealed of its level
(`made`) and what is left of it (`todo`) together stand for every chunk of the revision. `ByCountCovers` (grouping by
count leaves no summary out) carries that over a change of level, and one summary left is then a `Complete` one.
`SummaryOK` says what summaries are made of: a batch, summaries of the same revision, or, in the merge tier, complete
ones; and that a revision of one batch has summaries of level 1 only. That is what the filter needs: `OneBatchIsShown`
and `OldIsHidden` follow for whichever summary wins, by `Below` and `WinnerIsNewest`.

**Re-embedding.** `HandedOver` is `UncoveredIsPursued` from the enqueue on, and needs `CallersUnderWay`: an
extract worker in the middle of a trigger has an admitted chunk and asks about the loaded signature.
`OnlyLoadedWorks` (the stale check) keeps other chains from having a batch, so that the flag is the loaded
chain's. `CoverageIsReal` needs `BatchUncovered`: what is in hand has neither vector nor tombstone at the loaded
signature, through seals, deletions and new ingests, so that giving some of it up (`GivenUpIsReal`) and writing the
rest never meet.

**Gate.** `KeepsPromise` needs that a decided row stays decided
(`RowsStand`, from `WHERE decided_at IS NULL`) and that a call runs only on an approved row; the second
follows from `DecisionsAgree` (what is in flight or in a channel is the row's) and `RowFollowsCall` (a call
past the gate has no row or an approved one; one in a re-read has a decided one). `ApprovalReachesCall` needs
`WaiterIsReady`: a call that can be decided has its sender, which is what registering before persisting
buys. `DropStep`, `FatesDrop`, `RulingsStand` and `ActStep` map every step to one of `Consent` or to a stutter.
`RoutesKnown` is inductive beside them: a call clears the surfaces it asked on, so no route to it outlives its answer
(`RoutesKept`), and a call left behind never gets a row again (`RowsStand`).

**Turns.** `CancelledHasNoEntry` (whoever cancels a turn has taken its entry out before) and `TablesHoldTurns`
separate a turn's clean-up from another's entry; `QueuesOfPrimaries` and `StaleIsDisplaced` bind follow-ups to
registered turns; `QueuedOnce` and `ReportsAgree` are the parts of the state that `HandledOnce` and
`CancelledStaysQuiet` read off.

**Cron.** `OneShotFiresOnce` is not inductive, since an enabled row that has fired looks like one that has
not. `Fired` adds that an enabled row outside its run has been paid for: it has fired at most as often as there
were disturbances. It needs `Settling` (a run that writes `enabled = 0` owns the call of `update_job`; a run to be
rescheduled was not read as a one-shot), and every edit, failure or crash pays for one firing. `DueInLine`: jobs enter
the line behind everyone, leave it from any place, or, with a time that has passed, are put first (`EntersLine`,
`LeavesLine`, `JoinsLine`); `PlacesKept` reads off who may be overtaken.

Only model-checked: every liveness property, `ReadyIsClaimed`, `RunningIsSettled`,
`EveryChunkIsRebuilt`, `ChainEnds`, `EmbeddableSearchable`, `ApprovedIsActedOn`, `EveryTurnReports`, `FollowupRuns`,
`DueIsRun`, `ScheduleTakesHold`, `RevisionIsSealed` (liveness under fairness and ENABLED are beyond the prover, as
is induction with the library's second-order theorems).

## 6. What the models show against the code's own words

Violation runs, each checking what a comment or a tool's description says:

* `tree_lost`: "the items move into a summary row and the buffer is cleared in the same tx"
  (`memory_store/trees/store.rs:976-977`); a leaf appended while the model writes is cleared with the rest.
* `reembed_switch`: the switch-path trigger keeps a change of embedder from blinding prior memory
  (`memory_queue/ops.rs:38-42`); the workers hold the config of the process's start and end the new signature's
  chain as stale (`memory_queue/handlers/mod.rs:830-839`).
* `cron_one_shot`: a job of kind "at" "runs once at a specific UTC instant" (`cron/tools/add.rs:143`); a shell job
  of that kind is neither deleted nor disabled, gets the past time as its `next_run` again (`cron/store.rs:399`), and
  runs at every poll.

Seen while modelling and reachable in the models, without a run of their own:

*Queue.*
* A settlement that fails is dropped because `recover_stale_locks` is said to requeue the row
  (`memory_queue/worker.rs:241-246`); that runs in `start` only, so the row stays running, and suppresses its key,
  until the next process. A restart within the 5-minute lease leaves the row running for the same reason.
* Two failed rows of one key make the sweep's one UPDATE abort, every time, for all rows
  (`memory_queue/store.rs:469-476`); so do `Requeue` in `KeyQueue` and `Sweep` in `ReembedChain`.
* The shutdown hook makes rows ready under workers that still run, and others may claim them
  (`worker.rs:85`; `NoDoubleClaim` is stated up to the hook, the fencing holds beyond it).

*Tree and reset.*
* A crash between the append transaction and `mark_done`, with the seal in between, appends the leaf again
  and gives it two summaries (`handlers/mod.rs:520-523` says that it cannot).
* A manual flush beside a worker's seal gives the items two summaries, although "a child seals at most once"
  (`bucket_seal.rs:760-761`); links still agree.
* A manual flush that fails leaves its scope in `ACTIVE` (`memory/read_rpc/admin.rs:301`), and later ones are told
  that one is running.
* `reset_tree` keeps the `parent_summary_id` of chunks (`admin.rs:135-186`) and back-links only fill NULLs
  (`bucket_seal.rs:758-763`), so the chunks of a rebuilt tree name deleted summaries.
* A crash between the two transactions of `reset_tree` strands every chunk (`interrupted`). A requeue that is
  suppressed by an extraction which has just dropped the chunk leaves it dropped (`overlooked`).

*Pages.*
* "Retrieval surfaces only the latest version per document" (`notion/ingest.rs:42`). The filter expects one doc-root
  per revision, but the summaries below it carry the same tags (`bucket_seal.rs:1201-1331`): of a page whose newest
  sealed revision has more than one batch the first summary of level 1 wins, the doc-root and all others are
  duplicates, and with the doc-root go its children, the winner among them, and all chunks (`cover.rs:387-413`).
  Such a page is not in the cover, but for what a merge summary says of it. This is the exception in
  `OnlyTallVanish`. Merge summaries mix in superseded revisions.
* "Doc subtrees seal newest-last" (`bucket_seal.rs:1401`) is not ensured: two workers, or a retry, finish the older
  revision last, and the link of a shared chunk stays on it (`link`).
* An enqueue that fails after the ingest, or a crash between them, leaves a revision that is never sealed: the gate
  takes it for ingested (`ingest.rs:248-279`).
* A retry makes a second subtree and, when the first run got that far, puts a second doc-root into the merge tier. A
  doc-root appended while the merge tier's model runs is cleared with the rest, as in `tree_lost`.
* Chunks of a revision that is admitted but not sealed are shown raw beside a newer one; those that a reverted
  edit shares with an older, superseded revision are hidden until the revision is sealed.

*Re-embedding.*
* A rejected key (401, 403) or a spent budget or quota (402) counts as unrecoverable (`memory_tree/health/mod.rs:121-126`,
  `241-263`), so every item of a batch that meets one is tombstoned for the signature (`handlers/mod.rs:810-822`) and
  stays without a vector when the account is in order again. Nothing in the program takes a tombstone back:
  `clear_chunk_reembed_skipped` is "intended for operator recovery" (`memory_store/chunks/embeddings.rs:151`), and only tests
  call it. This is `refused` in `EmbeddableSearchable`.
* A trigger is lost when its enqueue is suppressed by a run that has already read an empty worklist (`missed`).
* `BACKFILL_IN_PROGRESS` stays up when it is raised after the row has run to its end (`ops.rs:13-21`, `65`), or when a
  stale chain ends.

*Gate and turns.*
* The route is that of "the approval currently parked" (`approval/gate.rs:725`); a cancelled turn leaves it
  (`gate.rs:630`), and the next yes or no on the thread decides the dead request and is swallowed. Two calls parked on
  one thread share its one route: the second overwrites it, the first to leave removes it (`gate.rs:739`).
* A follow-up "fires after the current turn completes" (`agent/harness/run_queue/types.rs:15-16`). Those of one turn are
  dispatched at once; one that finds the thread idle goes on to the interrupt section, so the later cancels the
  earlier (`channels/providers/web/ops.rs:319-365`, `577-602`), although nobody interrupted.
* Concurrent `start_chat`s write over each other's entry, and a turn that ends before it is registered
  leaves a stale one (`web/ops.rs:560`; `displaced`). Follow-ups queued with a cancelled turn are dropped.
* A turn cancelled while it delivers reports both the cancellation and its result (`web/ops.rs:460`; `late`).
* A steer or collect that comes after the last iteration boundary stays in the queue of the ended turn, though it
  was acknowledged.

*Cron.*
* Jobs of a batch run as they were read, although paused, removed or edited since. An edited one-shot is
  deleted or disabled by the settlement of its old run.
* `reschedule_after_run` writes the `next_run` of the old schedule over an edited one; the run after that repairs it.
* `update_job` writes back every column it read: overlapping edits are lost, an ended one-shot may be enabled
  again, a past `next_run` come back.
* A crash or a failed settlement repeats the run. `max_tasks` left-over one-shots starve all other jobs.

Seen in code outside the models: `claim_next` never compares attempts with the budget (hence "plus
interruptions" in `AttemptsWithinBudget`); a handler that panics ends its worker (`worker.rs:104`); the pause and
sign-out state is read before the wait for the slot (`scheduler_gate/gate.rs:470`); the seal of an upper level is
suppressed by one that has committed and is not settled (`handlers/mod.rs:540`); `reset_tree` removes the summary
files after its transactions (`admin.rs:198`); an injected steer is only in the history of the request that is
rebuilt; the exchange of a parallel turn is not in the cached session; a hung agent job of cron blocks the whole loop; Run
Now and a scheduled run may overlap, and a crash leaves the placeholder record "queued"; the seeding of the
built-in jobs checks and then inserts; an expression without a future occurrence is never rescheduled.

## 7. Assumptions and what is left out

* A claim's millisecond is the current one or a new one: the wall clock is not set back onto a
  millisecond that an outstanding claim carries.
* One process has the database. UUIDs do not repeat while in use.
* A tool call asks the gate once. The gate's "channel dropped" branch is unreachable: a sender leaves the table
  only to be used or to be evicted by the call itself. The user does not edit the Always-allow list by
  other means while calls are under way.
* Threads share nothing in `TurnQueue`, so one is modelled. A request is sent once.
* A cron job whose schedule has a next occurrence has one in the future; runs return. A time counts as passed for a
  job once a row that waited for it has become due.
* Left out of the modelled parts: payloads, log and error texts, backoff lengths, host-load policy (it only delays a
  grant), schema migrations, redaction, archived summaries as leaves, windows that cut through a page, `drill_down`
  and search, the cached sessions of threads, cron's run history, Run Now, seeding and delivery.

**Not modelled.** Most of the repository is adapters (channels, inference, tools, MCP, sockets), prompt
assembly, policy and key functions over data, and two front ends: I/O and conversion, where interleavings have
nothing to break and unit tests reach. `PROJECT.json` names each with its reason. The lines the modules stand for are
about a quarter of the files they are mapped to, the rest of which is conversion, tests and logging.

## 8. What is left to do

In order of what the code most depends on:

1. `delete_source` and `delete_chunk` under running workers, beside `reset_tree` in `TreeReset`.
2. The queue's liveness at the level of `KeyQueue` (what `ReadyIsClaimed` lets its users assume), and the suppressed
   seal of an upper level as a question about it.
3. `TurnQueue` composed with `ApprovalGate`'s `Cancel` and routes: a follow-up that is an answer.
4. Cron's Run Now, its history and the seeding; the run ledger (`session_db`, todos) and its recovery; running
   sub-agents and teams; socket reconnection.

A dozen runs are kept, one for each question; a run whose question a theorem settles makes room for the next
module.
