------------------------------ MODULE MemQueue ------------------------------
(***************************************************************************)
(* The memory-tree job queue: the worker pool of memory_queue/worker.rs,   *)
(* the 3-hourly scheduler of memory_queue/scheduler.rs, the retry RPCs and *)
(* the process that crashes, shuts down and restarts around them, over the *)
(* table of JobTable.  A worker holds the Job snapshots it claimed; every  *)
(* statement on the table is one step, and other actors run in between.    *)
(***************************************************************************)
EXTENDS JobTable

CONSTANTS
  Jobs,           \* row ids (UUIDs); a row's id is not reused while a worker holds it
  Workers,        \* the WORKER_COUNT tasks
  BatchLimit,     \* EXTRACT_EMBED_BATCH - 1
  LocalMemory,    \* config.workload_uses_local("memory")
  OtherLlmWork,   \* whether other parts of the process take the LLM permit
  MaxInterrupts,  \* bound: shutdown hooks run plus processes ended
  MaxLeaks        \* bound: statements that fail with SQLITE_BUSY

ASSUME BatchLimitAssumption == BatchLimit \in Nat
ASSUME LlmAssumption == LocalMemory \in BOOLEAN /\ OtherLlmWork \in BOOLEAN
ASSUME BoundsAssumption == MaxInterrupts \in Nat /\ MaxLeaks \in Nat
ASSUME PermitAssumption == Workers \cap {"free", "external"} = {}

VARIABLES
  rows,        \* mem_tree_jobs
  held,        \* per worker: the claimed Jobs it has not settled
  pc,          \* per worker: where run_once is (what a handler returns, Settle picks)
  permit,      \* who has the single LLM permit
  clock,       \* the current millisecond
  process,     \* "down", "up", or "stopping" once the shutdown hook has run
  interrupts, leaks

vars == <<rows, held, pc, permit, clock, process, interrupts, leaks>>

Lease == [job: Jobs, attempts: Nat \ {0}, started: Stamps]
Alive == process # "down"

\* A millisecond no row and no snapshot carries yet.
FreshStamps ==
  Stamps \ ({clock} \cup {rows[j].started : j \in Jobs}
                    \cup {l.started : l \in UNION {held[w] : w \in Workers}})
NextStamp == CHOOSE s \in FreshStamps : TRUE

Init ==
  /\ rows = [j \in Jobs |-> AbsentRow]
  /\ held = [w \in Workers |-> {}]
  /\ pc = [w \in Workers |-> "gate"]
  /\ permit = "free"
  /\ clock = CHOOSE s \in Stamps : TRUE
  /\ process = "down"
  /\ interrupts = 0
  /\ leaks = 0

-----------------------------------------------------------------------------
(* Producers: ingest, the handlers and the RPCs that enqueue.              *)

FreshIds == {j \in Jobs : /\ rows[j].status = "absent"
                          /\ \A w \in Workers : \A l \in held[w] : l.job # j}

\* The tables an insert of k can leave; once Jobs is used up the table is as
\* large as the model lets it get.
Inserted(table, k) ==
  IF Suppressed(table, k) \/ FreshIds = {} THEN {table}
  ELSE {[table EXCEPT ![j] = NewRow(k)] : j \in FreshIds}

Enqueue(k) ==
  /\ Alive
  /\ rows' \in Inserted(rows, k)
  /\ UNCHANGED <<held, pc, permit, clock, process, interrupts, leaks>>

\* wipe_all_rpc, and the first transaction of reset_tree_rpc.
DeleteJobs ==
  /\ Alive
  /\ rows' = [j \in Jobs |-> AbsentRow]
  /\ UNCHANGED <<held, pc, permit, clock, process, interrupts, leaks>>

-----------------------------------------------------------------------------
(* Time: a backoff or a lease runs out.                                    *)

BecomesDue(j) ==
  /\ rows[j].status = "ready" /\ ~rows[j].due
  /\ rows' = [rows EXCEPT ![j].due = TRUE]
  /\ UNCHANGED <<held, pc, permit, clock, process, interrupts, leaks>>

LeaseExpires(j) ==
  /\ rows[j].status = "running" /\ ~rows[j].expired
  /\ rows' = [rows EXCEPT ![j].expired = TRUE]
  /\ UNCHANGED <<held, pc, permit, clock, process, interrupts, leaks>>

-----------------------------------------------------------------------------
(* The LLM permit's other users: voice, autocomplete, triage, reflection.  *)

ExternalAcquire ==
  /\ OtherLlmWork /\ Alive /\ permit = "free"
  /\ permit' = "external"
  /\ UNCHANGED <<rows, held, pc, clock, process, interrupts, leaks>>

ExternalRelease ==
  /\ permit = "external"
  /\ permit' = "free"
  /\ UNCHANGED <<rows, held, pc, clock, process, interrupts, leaks>>

-----------------------------------------------------------------------------
(* run_once, one action per statement.                                     *)

IsLlmBound(kind) == kind \in {"extract_chunk", "seal", "reembed_backfill", "seal_document"}

\* Mutant: extraction forgotten among the local work that keeps the permit.
M_KeepsPermitSealOnly(kind) == LocalMemory /\ kind = "seal"
\* Local LLM-bound work keeps the permit while it runs.
KeepsPermit(kind) == LocalMemory /\ IsLlmBound(kind)

\* Dropping w's permit, when w has it.
PermitDropped(w) == IF permit = w THEN "free" ELSE permit

\* Utc::now() read by a claim: the current millisecond or a later one.
ClaimTimes == {clock} \cup (IF FreshStamps = {} THEN {} ELSE {NextStamp})

\* wait_for_capacity hands out the single slot before anything is claimed, and
\* the claim follows at once; other work than KeepsPermit drops the permit again.  A
\* worker that finds nothing drops the permit and polls again.
ClaimNext(w, j) ==
  /\ Alive /\ pc[w] = "gate" /\ permit = "free"
  /\ j \in NextClaims(rows)
  /\ \E now \in ClaimTimes :
       LET r == ClaimedRow(rows[j], now)
       IN  /\ clock' = now
           /\ rows' = [rows EXCEPT ![j] = r]
           /\ held' = [held EXCEPT ![w] = {LeaseOf(j, r)}]
  /\ permit' = IF KeepsPermit(Kind(rows[j])) THEN w ELSE permit
  /\ pc' = [pc EXCEPT ![w] = IF Kind(rows[j]) = "extract_chunk" THEN "batch" ELSE "handle"]
  /\ UNCHANGED <<process, interrupts, leaks>>

\* claim_ready_extract_batch leases up to BatchLimit more extract jobs.
ClaimBatch(w) ==
  /\ pc[w] = "batch"
  /\ \E now \in ClaimTimes : \E batch \in SUBSET ClaimableExtracts(rows) :
       /\ \/ Cardinality(batch) = BatchLimit
          \/ Cardinality(batch) < BatchLimit /\ batch = ClaimableExtracts(rows)
       /\ clock' = now
       /\ rows' = [j \in Jobs |-> IF j \in batch THEN ClaimedRow(rows[j], now) ELSE rows[j]]
       /\ held' = [held EXCEPT ![w] =
                     @ \cup {LeaseOf(j, ClaimedRow(rows[j], now)) : j \in batch}]
  /\ pc' = [pc EXCEPT ![w] = "handle"]
  /\ UNCHANGED <<permit, process, interrupts, leaks>>

\* The `?` on claim_ready_extract_batch or on a settlement: run_once returns
\* the error, its snapshots are gone, and their rows stay as they are.
StatementFails(w) ==
  /\ pc[w] \in {"batch", "settle"} /\ leaks < MaxLeaks
  /\ leaks' = leaks + 1
  /\ held' = [held EXCEPT ![w] = {}]
  /\ permit' = PermitDropped(w)
  /\ pc' = [pc EXCEPT ![w] = "gate"]
  /\ UNCHANGED <<rows, clock, process, interrupts>>

\* The handlers have returned: the permit is dropped before anything is settled.
Handle(w) ==
  /\ pc[w] = "handle"
  /\ permit' = PermitDropped(w)
  /\ pc' = [pc EXCEPT ![w] = "settle"]
  /\ UNCHANGED <<rows, held, clock, process, interrupts, leaks>>

\* settle_job for one snapshot; the last one ends run_once.
Settle(w, l) ==
  /\ pc[w] = "settle" /\ l \in held[w]
  /\ \E outcome \in Outcomes :
       /\ rows[l.job].status # "absent" => outcome \in OutcomesOf(Kind(rows[l.job]))
       /\ rows' = [rows EXCEPT ![l.job] = SettledRow(@, l, outcome)]
  /\ held' = [held EXCEPT ![w] = @ \ {l}]
  /\ pc' = [pc EXCEPT ![w] = IF held[w] = {l} THEN "gate" ELSE "settle"]
  /\ UNCHANGED <<permit, clock, process, interrupts, leaks>>

-----------------------------------------------------------------------------
(* Retries: the scheduler's tick, the RPC and the manual sync.             *)

\* requeued rows get a fresh retry budget in a later millisecond than any claim.
Requeue(after) ==
  /\ Alive /\ rows' = after
  /\ FreshStamps # {} /\ clock' = NextStamp
  /\ UNCHANGED <<held, pc, permit, process, interrupts, leaks>>

RequeueFailed == Requeue(RequeueAll(rows))
RetryAllFailed == Requeue(RetryAll(rows))

\* A turn of the scheduler's loop: retry_transient_failures, then
\* enqueue_flush_stale under the key of the current 3-hour block.
SchedulerTick ==
  LET swept == RequeueTransient(rows)
  IN  \E k \in Keys :
        /\ KindOf[k] = "flush_stale"
        /\ \E after \in Inserted(swept, k) : Requeue(after)

-----------------------------------------------------------------------------
(* The process.                                                            *)

\* worker::start: recover_stale_locks runs once, and may fail.
Start ==
  /\ process = "down"
  /\ process' = "up"
  /\ \/ rows' = [j \in Jobs |-> RecoveredRow(rows[j])] /\ UNCHANGED leaks
     \/ leaks < MaxLeaks /\ leaks' = leaks + 1 /\ UNCHANGED rows
  /\ UNCHANGED <<held, pc, permit, clock, interrupts>>

\* The graceful-shutdown hook; the workers run on until the process exits.
ReleaseRunningLocks ==
  /\ process = "up" /\ interrupts < MaxInterrupts
  /\ process' = "stopping"
  /\ interrupts' = interrupts + 1
  /\ rows' = [j \in Jobs |-> ReleasedRow(rows[j])]
  /\ UNCHANGED <<held, pc, permit, clock, leaks>>

\* A hard kill, or the exit after a graceful shutdown.
ProcessEnds ==
  /\ Alive /\ interrupts < MaxInterrupts
  /\ process' = "down"
  /\ interrupts' = interrupts + 1
  /\ held' = [w \in Workers |-> {}]
  /\ pc' = [w \in Workers |-> "gate"]
  /\ permit' = "free"
  /\ UNCHANGED <<rows, clock, leaks>>

WorkerStep(w) ==
  \/ \E j \in Jobs : ClaimNext(w, j)
  \/ ClaimBatch(w)
  \/ StatementFails(w)
  \/ Handle(w)
  \/ \E l \in held[w] : Settle(w, l)

Next ==
  \/ \E k \in Keys : Enqueue(k)
  \/ DeleteJobs
  \/ \E j \in Jobs : BecomesDue(j) \/ LeaseExpires(j)
  \/ ExternalAcquire
  \/ ExternalRelease
  \/ \E w \in Workers : WorkerStep(w)
  \/ RequeueFailed
  \/ RetryAllFailed
  \/ SchedulerTick
  \/ Start
  \/ ReleaseRunningLocks
  \/ ProcessEnds

Spec == Init /\ [][Next]_vars

Outranks(i, j) ==
  rows[i].status = "ready" /\ rows[j].status = "ready" /\ Rank(rows[i]) < Rank(rows[j])

\* Workers and timers make progress.  The permit is handed out in the order it is
\* asked for, so it is not kept from the workers for ever, and of the due rows of one
\* rank the oldest is claimed first: a claimable row is passed over again and again
\* only by rows of a better rank.  Nothing makes producers, retries, shutdowns or
\* failures happen.
Fairness ==
  /\ \A w \in Workers :
       /\ WF_vars(ClaimBatch(w))
       /\ WF_vars(Handle(w))
       /\ WF_vars(\E l \in held[w] : Settle(w, l))
  /\ \A j \in Jobs :
       /\ WF_vars(BecomesDue(j))
       /\ WF_vars(LeaseExpires(j))
       /\ SF_vars(\E w \in Workers, i \in Jobs :
                    ClaimNext(w, i) /\ (i = j \/ Outranks(i, j)))
  /\ WF_vars(ExternalRelease)
  /\ WF_vars(SchedulerTick)
  /\ WF_vars(Start)

FairSpec == Spec /\ Fairness

-----------------------------------------------------------------------------
(* Properties.                                                             *)

\* The shape of the state.
TypeOK ==
  /\ rows \in [Jobs -> Row]
  /\ held \in [Workers -> SUBSET Lease]
  /\ pc \in [Workers -> {"gate", "batch", "handle", "settle"}]
  /\ permit \in Workers \cup {"free", "external"}
  /\ clock \in Stamps
  /\ process \in {"down", "up", "stopping"}
  /\ interrupts \in Nat /\ leaks \in Nat

\* No statement of the queue ever leaves two active rows with one dedupe key:
\* settlements, recovery and release, which rely on the unique index without
\* handling its error, never meet it.
OneActivePerKey == UniqueActive(rows)

\* At most one outstanding snapshot can settle a row (the claim token of
\* mark_done, mark_failed_typed and mark_deferred), whatever released,
\* recovered, requeued or re-claimed the row in between.
OneSettlerPerRow ==
  \A w1, w2 \in Workers : \A l1 \in held[w1], l2 \in held[w2] :
    /\ l1.job = l2.job
    /\ TokenMatches(rows[l1.job], l1) /\ TokenMatches(rows[l2.job], l2)
    => w1 = w2 /\ l1 = l2

\* While the process has not begun to shut down, two workers never hold one row.
NoDoubleClaim ==
  process = "up" =>
    \A w1, w2 \in Workers : \A l1 \in held[w1], l2 \in held[w2] :
      l1.job = l2.job => w1 = w2 /\ l1 = l2

\* A job's attempts exceed its budget only through shutdowns and process ends:
\* retries, deferrals and re-claims alone never run a job more often.
AttemptsWithinBudget ==
  \A j \in Jobs : rows[j].status # "absent" =>
    rows[j].attempts <= Budget(rows[j]) + interrupts

\* At most one local LLM-bound handler runs at a time (LLM_SLOTS = 1), and none
\* while another part of the process has the slot.
LocalWorkIsSerial ==
  LocalMemory =>
    \A w \in Workers : \A l \in held[w] :
      pc[w] = "handle" /\ rows[l.job].status # "absent" /\ IsLlmBound(Kind(rows[l.job]))
        => permit = w

\* A done row is never run again, and a failed row leaves `failed` only with a
\* fresh retry budget: no late settlement revives a settled row.
TerminalIsFinal ==
  [][\A j \in Jobs :
       /\ rows[j].status = "done" => rows'[j].status \in {"done", "absent"}
       /\ rows[j].status = "failed" =>
            \/ rows'[j].status \in {"failed", "absent"}
            \/ rows'[j].status = "ready" /\ rows'[j].attempts = 0 /\ rows'[j].due]_vars

\* A parked (unrecoverable) failure is retried only by the user's retry, never
\* by the scheduler.
ParkedWaitsForUser ==
  [][\A j \in Jobs :
       rows[j].status = "failed" /\ rows[j].parked /\ rows'[j].status = "ready"
         => RequeueFailed \/ RetryAllFailed]_vars

\* Why a claim token names one claim, though attempts go down on a deferral and
\* start again on a retry: a snapshot of the current millisecond never has more
\* attempts than its row ...
TokensBehind ==
  \A w \in Workers : \A l \in held[w] :
    l.started = clock /\ rows[l.job].status # "absent" =>
      l.attempts <= rows[l.job].attempts /\ rows[l.job].started \in {clock, None}

\* ... no two snapshots of a row carry one token ...
TokensDistinct ==
  \A w1, w2 \in Workers : \A l1 \in held[w1], l2 \in held[w2] :
    l1.job = l2.job /\ l1.attempts = l2.attempts /\ l1.started = l2.started => w1 = w2

\* ... and the row of a settled job matches no snapshot any more.
SettledForGood ==
  \A w \in Workers : \A l \in held[w] :
    rows[l.job].status \in {"done", "failed"} => ~TokenMatches(rows[l.job], l)

\* Before the shutdown hook runs, a snapshot's row is running under its token.
HeldRowsRunning ==
  process = "up" =>
    \A w \in Workers : \A l \in held[w] :
      rows[l.job].status # "absent" =>
        rows[l.job].status = "running" /\ TokenMatches(rows[l.job], l)

\* A row that may be claimed has an attempt left, one more for each interruption.
AttemptsLeft ==
  \A j \in Jobs :
    (rows[j].status = "ready" \/ (rows[j].status = "running" /\ process = "down")) =>
      rows[j].attempts < Budget(rows[j]) + interrupts

\* A process that is down has no worker in the middle of anything.
DownIsIdle == process = "down" => \A w \in Workers : held[w] = {} /\ pc[w] = "gate"

\* Every row of the table has a key, hence a kind and a budget.
RowsKeyed == \A j \in Jobs : rows[j].status # "absent" => rows[j].key \in Keys

\* The inductive invariant of the queue.
IInv ==
  /\ TypeOK
  /\ DownIsIdle
  /\ RowsKeyed
  /\ OneActivePerKey
  /\ TokensBehind
  /\ TokensDistinct
  /\ SettledForGood
  /\ HeldRowsRunning
  /\ NoDoubleClaim
  /\ AttemptsWithinBudget
  /\ AttemptsLeft

-----------------------------------------------------------------------------
(* The queue by key, as producers and handlers see it.                     *)

ActiveAs(table, k, status) == \E j \in Jobs : table[j].key = k /\ table[j].status = status
StatusOf(table, k) == IF ActiveAs(table, k, "ready") THEN "ready"
                      ELSE IF ActiveAs(table, k, "running") THEN "running" ELSE "none"
\* The keys whose row one of these snapshots can settle.
SettledBy(table, leases) ==
  {k \in Keys : \E l \in leases : /\ table[l.job].key = k /\ IsActive(table[l.job])
                                  /\ TokenMatches(table[l.job], l)}
FailedRows(table, k, parked) ==
  {j \in Jobs : table[j].key = k /\ table[j].status = "failed" /\ table[j].parked = parked}

KeyView == INSTANCE KeyQueue WITH
  Ids    <- Jobs,
  jobs   <- [k \in Keys |-> StatusOf(rows, k)],
  owns   <- [w \in Workers |-> SettledBy(rows, held[w])],
  failed <- [k \in Keys |-> FailedRows(rows, k, FALSE)],
  parked <- [k \in Keys |-> FailedRows(rows, k, TRUE)]

\* The table, its tokens and leases implement KeyQueue through crashes, shutdowns, lost
\* settlements and wipes: a row is settled by its owner only, a claim takes it from
\* whoever held it, and a requeue takes every failed row or none (store.rs:469-476).
ActsAsKeyQueue == KeyView!Spec

\* A row of a better rank is claimed before the ready row j.
Overtaken(j) ==
  \E i \in Jobs : Outranks(i, j) /\ rows'[i].status = "running"

\* A ready job is claimed in the end, whatever happened to the other jobs of its queue
\* and to the slot: only better ranks that are fed and claimed for ever can starve it.
\* A job of a better rank that is running, put off, failed or lost does not stand in
\* its way (the ORDER BY of claim_next and the single LLM slot).
ReadyIsClaimed ==
  \A j \in Jobs :
    \/ []<><<Overtaken(j)>>_vars
    \/ rows[j].status = "ready" ~> rows[j].status # "ready"

\* A running row whose snapshot some worker still has.
Attended(j) ==
  /\ rows[j].status = "running"
  /\ \E w \in Workers : \E l \in held[w] : l.job = j /\ TokenMatches(rows[j], l)

\* A running job that a worker holds does not stay running unless a statement fails or
\* the process ends meanwhile: no wait for the slot, no retry and no failure of another
\* worker's statement keeps it.  It says nothing of the row whose own settlement failed:
\* that one stays running until the next start, although worker.rs:244-246 leaves it to
\* its lease.
RunningIsSettled ==
  \A j \in Jobs, n \in 0..MaxLeaks :
    Attended(j) /\ leaks = n
      ~> rows[j].status # "running" \/ leaks # n \/ process = "down"
=============================================================================
