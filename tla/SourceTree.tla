----------------------------- MODULE SourceTree -----------------------------
(***************************************************************************)
(* How chunks become one source tree: the handlers of                      *)
(* memory_queue/handlers/mod.rs, the seal engine of                        *)
(* memory_tree/tree/bucket_seal.rs and the user's flush of                 *)
(* memory/read_rpc/admin.rs.  Each SQLite transaction is one step; a seal  *)
(* reads its buffer, awaits the model, and commits later.                  *)
(*                                                                         *)
(* One flat source: the per-document subtree of Notion sources, archived   *)
(* summaries as leaves and deletion are not modelled; TreeReset adds reset.*)
(*                                                                         *)
(* The queue is what MemQueue promises before the shutdown hook runs: one  *)
(* active row per dedupe key, one worker at a time for it, at least one    *)
(* run of it, and a crash leaves its row running.                          *)
(***************************************************************************)
EXTENDS Naturals, FiniteSets, FiniteSetsExt

CONSTANTS
  Chunks, SummaryIds,  \* chunk ids, and the UUIDs summaries can get
  Tokens, Budget,      \* token_count of each chunk; INPUT_TOKEN_BUDGET
  Fanout,              \* SUMMARY_FANOUT
  Top,                 \* bound: the highest level with a buffer
  Workers,             \* the queue's worker tasks
  Rpc,                 \* the task of flush_source_tree_rpc
  MaxCrashes, MaxFailures, MaxManualFlushes,  \* bounds
  MaxDisturbances,     \* bound: on the three together
  None                 \* NULL

ASSUME TokensAssumption == Tokens \in [Chunks -> Nat] /\ Budget \in Nat \ {0}
ASSUME FanoutAssumption == Fanout \in Nat \ {0, 1} /\ Top \in Nat \ {0}
ASSUME ActorsAssumption == Rpc \notin Workers
ASSUME BoundsAreNat ==
  {MaxCrashes, MaxFailures, MaxManualFlushes, MaxDisturbances} \subseteq Nat
ASSUME ItemsAssumption == Chunks \cap SummaryIds = {} /\ None \notin Chunks \cup SummaryIds

VARIABLES
  status,     \* lifecycle_status of each chunk; "absent" before ingest
  buffers,    \* mem_tree_buffers: item_ids of each level
  aged,       \* oldest_at of the L0 buffer is past the flush cutoff
  children,   \* child_ids of each summary; {} for one not written yet
  level,      \* level of each summary, 0 for one not written yet
  parent,     \* parent_summary_id of chunks, parent_id of summaries
  root, maxLevel,  \* mem_tree_trees
  jobs,       \* status of each dedupe key's active row, "none" without one
  failed,     \* how many failed rows each dedupe key has
  forced,     \* force_now_ms of the L0 seal job
  task,       \* what each worker, and the RPC, is doing
  active,     \* whether the tree's scope is in ACTIVE
  overtaken,  \* items put into a buffer while a seal of it awaits the model
  crashes, failures, flushes

vars == <<status, buffers, aged, children, level, parent, root, maxLevel,
          jobs, failed, forced, task, active, overtaken, crashes, failures, flushes>>
tree == <<buffers, aged, children, level, parent, root, maxLevel, overtaken>>
bounds == <<crashes, failures, flushes>>

Items == Chunks \cup SummaryIds
Levels == 0..Top
Actors == Workers \cup {Rpc}

Extract(c) == <<"extract", c>>
Append(c) == <<"append", c>>
Seal(l) == <<"seal", l>>
FlushStale == <<"flush", 0>>
JobKeys == {Extract(c) : c \in Chunks} \cup {Append(c) : c \in Chunks}
             \cup {Seal(l) : l \in Levels} \cup {FlushStale}

\* stage: "work" before the handler's first transaction, "model" while a seal has
\* read its buffer (snap) and summarises, embeds and stages it, "settle" once the
\* handler has returned, "read" when the synchronous cascade looks at its next level.
Idle == [stage |-> "idle", job |-> None, level |-> 0, snap |-> {}]
At(stage, k, l, snap) == [stage |-> stage, job |-> k, level |-> l, snap |-> snap]
Moved(a, stage) == [task EXCEPT ![a].stage = stage]

\* Mutant: a running row no longer suppresses an insert of its key.
M_IsActive(j, k) == j[k] = "ready"
IsActive(j, k) == j[k] # "none"
Enqueued(j, k) == IF IsActive(j, k) THEN j ELSE [j EXCEPT ![k] = "ready"]
\* The payload of the L0 seal job after an enqueue with force_now_ms = force.
Payload(force) == IF IsActive(jobs, Seal(0)) THEN forced ELSE force

TokenSum(items) == MapThenSumSet(LAMBDA c : Tokens[c], items)
ShouldSeal(l, items) ==
  /\ items # {}
  /\ IF l = 0 THEN TokenSum(items) >= Budget ELSE Cardinality(items) >= Fanout

\* Actors whose seal of level l awaits the model.
Sealing(l) == {a \in Actors : task[a].stage = "model" /\ task[a].level = l}

Init ==
  /\ status = [c \in Chunks |-> "absent"]
  /\ buffers = [l \in Levels |-> {}]
  /\ aged = FALSE
  /\ children = [s \in SummaryIds |-> {}]
  /\ level = [s \in SummaryIds |-> 0]
  /\ parent = [i \in Items |-> None]
  /\ root = None /\ maxLevel = 0
  /\ jobs = [k \in JobKeys |-> "none"]
  /\ failed = [k \in JobKeys |-> 0]
  /\ forced = FALSE
  /\ task = [a \in Actors |-> Idle]
  /\ active = FALSE
  /\ overtaken = {}
  /\ crashes = 0 /\ failures = 0 /\ flushes = 0

\* There is room for one more crash, failure or manual flush.
MayDisturb == crashes + failures + flushes < MaxDisturbances

-----------------------------------------------------------------------------
(* Producers.                                                              *)

\* The persist transaction of the ingest pipeline.  A chunk past
\* pending_extraction is left alone.
Ingest(c) ==
  /\ status[c] \in {"absent", "pending"}
  /\ status' = [status EXCEPT ![c] = "pending"]
  /\ jobs' = Enqueued(jobs, Extract(c))
  /\ UNCHANGED <<tree, failed, forced, task, active, bounds>>

\* enqueue_flush_stale; flush_now_rpc enqueues the same job.
SchedulerTick ==
  /\ jobs' = Enqueued(jobs, FlushStale)
  /\ UNCHANGED <<status, tree, failed, forced, task, active, bounds>>

\* The oldest item of the L0 buffer passes the cutoff (at once, when the item
\* is itself that old).
BecomesStale ==
  /\ buffers[0] # {} /\ ~aged
  /\ aged' = TRUE
  /\ UNCHANGED <<status, buffers, children, level, parent, root, maxLevel,
                 jobs, failed, forced, task, active, overtaken, bounds>>

-----------------------------------------------------------------------------
(* The workers' handlers, one action per transaction.                      *)

Claim(w, k) ==
  /\ task[w] = Idle /\ jobs[k] = "ready"
  /\ jobs' = [jobs EXCEPT ![k] = "running"]
  /\ task' = [task EXCEPT ![w] = At("work", k, 0, {})]
  /\ UNCHANGED <<status, tree, failed, forced, active, bounds>>

\* Mutant: the append job is not part of the transaction, and gets lost.
M_ExtractFollowUp(c) == jobs
ExtractFollowUp(c) == Enqueued(jobs, Append(c))

\* finalize_extract: the admission decision and the follow-up job commit together.
HandleExtract(w, c) ==
  /\ task[w].stage = "work" /\ task[w].job = Extract(c)
  /\ \/ /\ status' = [status EXCEPT ![c] = "admitted"]
        /\ jobs' = ExtractFollowUp(c)
     \/ /\ status' = [status EXCEPT ![c] = "dropped"]
        /\ UNCHANGED jobs
  /\ task' = Moved(w, "settle")
  /\ UNCHANGED <<tree, failed, forced, active, bounds>>

\* The jobs after the push of a leaf: with its seal when the gate is met.
SealFollowUp(items) ==
  IF ShouldSeal(0, items) THEN Enqueued(jobs, Seal(0)) ELSE jobs

\* handle_append_buffer: push, seal job and lifecycle in one transaction.
HandleAppend(w, c) ==
  LET items == buffers[0] \cup {c}
  IN  /\ task[w].stage = "work" /\ task[w].job = Append(c)
      /\ buffers' = [buffers EXCEPT ![0] = items]
      /\ jobs' = SealFollowUp(items)
      /\ forced' = IF ShouldSeal(0, items) THEN Payload(FALSE) ELSE forced
      /\ status' = [status EXCEPT ![c] = "buffered"]
      /\ overtaken' = IF Sealing(0) # {} /\ c \notin buffers[0]
                        THEN overtaken \cup {c} ELSE overtaken
      /\ task' = Moved(w, "settle")
      /\ UNCHANGED <<aged, children, level, parent, root, maxLevel, failed, active, bounds>>

\* handle_seal's early returns: an empty buffer, or a gate that is not met.
MaySeal(l, force) == buffers[l] # {} /\ (force \/ ShouldSeal(l, buffers[l]))

\* handle_seal reads the buffer and hands it to the model.
HandleSeal(w, l) ==
  /\ task[w].stage = "work" /\ task[w].job = Seal(l)
  /\ task' = IF MaySeal(l, l = 0 /\ forced)
               THEN [task EXCEPT ![w] = At("model", Seal(l), l, buffers[l])]
               ELSE Moved(w, "settle")
  /\ UNCHANGED <<status, tree, jobs, failed, forced, active, bounds>>

\* Mutant: the flush leaves a buffer below its gate alone.
M_FlushFollowUps ==
  IF aged /\ ShouldSeal(0, buffers[0]) THEN Enqueued(jobs, Seal(0)) ELSE jobs
\* handle_flush_stale: a forced seal job for the stale L0 buffer.
FlushFollowUps == IF aged THEN Enqueued(jobs, Seal(0)) ELSE jobs

HandleFlushStale(w) ==
  /\ task[w].stage = "work" /\ task[w].job = FlushStale
  /\ jobs' = FlushFollowUps
  /\ forced' = IF aged THEN Payload(TRUE) ELSE forced
  /\ task' = Moved(w, "settle")
  /\ UNCHANGED <<status, tree, failed, active, bounds>>

\* mark_done.
Settle(w) ==
  /\ task[w].stage = "settle" /\ w \in Workers
  /\ jobs' = [jobs EXCEPT ![task[w].job] = "none"]
  /\ task' = [task EXCEPT ![w] = Idle]
  /\ UNCHANGED <<status, tree, failed, forced, active, bounds>>

\* The handler returns an error and mark_failed retries or ends the job.  Only
\* handle_extract can do so after its transaction, when it reads the tags back.
Fail(w) ==
  /\ \/ task[w].stage \in {"work", "model"}
     \/ /\ task[w].stage = "settle"
        /\ \E c \in Chunks : task[w].job = Extract(c) /\ status[c] # "dropped"
  /\ w \in Workers /\ failures < MaxFailures /\ MayDisturb
  /\ failures' = failures + 1
  /\ \/ /\ jobs' = [jobs EXCEPT ![task[w].job] = "ready"]
        /\ UNCHANGED failed
     \/ /\ jobs' = [jobs EXCEPT ![task[w].job] = "none"]
        /\ failed' = [failed EXCEPT ![task[w].job] = @ + 1]
  /\ task' = [task EXCEPT ![w] = Idle]
  /\ UNCHANGED <<status, tree, forced, active, crashes, flushes>>

\* requeue_transient_failed: one UPDATE, which a second row of a key aborts (but
\* flush jobs, which have a key per 3-hour block).  A seal job comes back with the
\* payload it failed with.
Sweep ==
  LET swept == {k \in JobKeys : failed[k] > 0}
  IN  /\ swept # {}
      /\ \A k \in swept \ {FlushStale} : failed[k] = 1 /\ ~IsActive(jobs, k)
      /\ jobs' = [k \in JobKeys |-> IF k \in swept THEN "ready" ELSE jobs[k]]
      /\ failed' = [k \in JobKeys |-> 0]
      /\ forced' \in IF Seal(0) \in swept THEN BOOLEAN ELSE {forced}
      /\ UNCHANGED <<status, tree, task, active, bounds>>

-----------------------------------------------------------------------------
(* The write transaction of seal_one_level.                                *)

\* The buffers after a seal of level l: the level is emptied, whatever was put
\* there since the seal read it, and the summary joins the level above.
\* Mutant: the parent's buffer is overwritten.
M_SealedAlone(l, s) == [buffers EXCEPT ![l] = {}, ![l + 1] = {s}]
Sealed(l, s) == [buffers EXCEPT ![l] = {}, ![l + 1] = @ \cup {s}]

\* Mutant: any seal moves the root.
M_Climbs(l) == TRUE
Climbs(l) == l + 1 > maxLevel

\* Mutant: what is in the buffer when the seal commits is linked, not what was
\* summarised.
M_LinkedLate(snap, s) ==
  [i \in Items |-> IF i \in snap \cup buffers[0] /\ parent[i] = None THEN s ELSE parent[i]]
Linked(snap, s) == [i \in Items |-> IF i \in snap /\ parent[i] = None THEN s ELSE parent[i]]

CommitSeal(a, s) ==
  LET l    == task[a].level
      snap == task[a].snap
  IN  /\ task[a].stage = "model" /\ level[s] = 0 /\ l < Top
      /\ children' = [children EXCEPT ![s] = snap]
      /\ level' = [level EXCEPT ![s] = l + 1]
      /\ parent' = Linked(snap, s)
      /\ buffers' = Sealed(l, s)
      /\ aged' = (aged /\ l # 0)
      /\ overtaken' = IF Sealing(l + 1) # {} THEN overtaken \cup {s} ELSE overtaken
      /\ root' = IF Climbs(l) THEN s ELSE root
      /\ maxLevel' = IF Climbs(l) THEN l + 1 ELSE maxLevel
      /\ IF a = Rpc
           THEN /\ UNCHANGED jobs
                /\ task' = [task EXCEPT ![a] = At("read", None, l + 1, {})]
           ELSE /\ jobs' = IF ShouldSeal(l + 1, buffers'[l + 1])
                             THEN Enqueued(jobs, Seal(l + 1)) ELSE jobs
                /\ task' = Moved(a, "settle")
      /\ UNCHANGED <<status, failed, forced, active, bounds>>

-----------------------------------------------------------------------------
(* flush_source_tree_rpc: a forced seal of L0 and the cascade above it, in  *)
(* the caller's task and not through the queue.                             *)

ManualFlush ==
  /\ ~active /\ flushes < MaxManualFlushes /\ MayDisturb
  /\ flushes' = flushes + 1
  /\ active' = TRUE
  /\ task' = [task EXCEPT ![Rpc] = At("read", None, 0, {})]
  /\ UNCHANGED <<status, tree, jobs, failed, forced, crashes, failures>>

\* An iteration of cascade_all_from: only the first is forced.
CascadeReads ==
  LET l == task[Rpc].level
  IN  /\ task[Rpc].stage = "read"
      /\ IF MaySeal(l, l = 0)
           THEN /\ task' = [task EXCEPT ![Rpc] = At("model", None, l, buffers[l])]
                /\ UNCHANGED active
           ELSE /\ task' = [task EXCEPT ![Rpc] = Idle]
                /\ active' = FALSE
      /\ UNCHANGED <<status, tree, jobs, failed, forced, bounds>>

\* The cascade fails, at a read or at the model.  Its `?` returns before the scope
\* is taken out of ACTIVE, so no later flush of this process starts.
ManualFlushFails ==
  /\ task[Rpc] # Idle
  /\ task' = [task EXCEPT ![Rpc] = Idle]
  /\ UNCHANGED <<status, tree, jobs, failed, forced, active, bounds>>

-----------------------------------------------------------------------------

\* The process dies and starts again; recovery takes the running rows whose
\* lease is over by then.
Crash ==
  /\ crashes < MaxCrashes /\ MayDisturb
  /\ crashes' = crashes + 1
  /\ task' = [a \in Actors |-> Idle]
  /\ active' = FALSE
  /\ \E over \in SUBSET {k \in JobKeys : jobs[k] = "running"} :
       jobs' = [k \in JobKeys |-> IF k \in over THEN "ready" ELSE jobs[k]]
  /\ UNCHANGED <<status, tree, failed, forced, failures, flushes>>

Next ==
  \/ \E c \in Chunks : Ingest(c)
  \/ SchedulerTick
  \/ BecomesStale
  \/ \E w \in Workers : \/ \E k \in JobKeys : Claim(w, k)
                        \/ \E c \in Chunks : HandleExtract(w, c) \/ HandleAppend(w, c)
                        \/ \E l \in Levels : HandleSeal(w, l)
                        \/ HandleFlushStale(w)
                        \/ Settle(w)
                        \/ Fail(w)
  \/ \E a \in Actors, s \in SummaryIds : CommitSeal(a, s)
  \/ Sweep
  \/ ManualFlush
  \/ CascadeReads
  \/ ManualFlushFails
  \/ Crash

Spec == Init /\ [][Next]_vars

-----------------------------------------------------------------------------
(* Properties.                                                             *)

\* The shape of the state.
TypeOK ==
  /\ status \in [Chunks -> {"absent", "pending", "admitted", "buffered", "dropped"}]
  /\ buffers \in [Levels -> SUBSET Items]
  /\ aged \in BOOLEAN /\ forced \in BOOLEAN /\ active \in BOOLEAN
  /\ children \in [SummaryIds -> SUBSET Items]
  /\ level \in [SummaryIds -> Levels]
  /\ parent \in [Items -> SummaryIds \cup {None}]
  /\ root \in SummaryIds \cup {None} /\ maxLevel \in Levels
  /\ jobs \in [JobKeys -> {"none", "ready", "running"}]
  /\ failed \in [JobKeys -> 0..MaxFailures]
  /\ task \in [Actors -> [stage: {"idle", "work", "model", "settle", "read"},
                          job: JobKeys \cup {None}, level: Levels, snap: SUBSET Items]]
  /\ \A a \in Actors : task[a].stage = "model" => task[a].snap # {}
  /\ overtaken \subseteq Items

Summarised(i) == \E s \in SummaryIds : i \in children[s]

\* Nothing that reached the tree gets lost except what was put into a buffer
\* while a seal of that buffer awaited the model: a buffered chunk, and each
\* summary, waits in its buffer or is a child of a summary above.
OnlyOvertakenAreLost ==
  /\ \A c \in Chunks : status[c] = "buffered" =>
       c \in buffers[0] \/ Summarised(c) \/ c \in overtaken
  /\ \A s \in SummaryIds : level[s] > 0 =>
       s \in buffers[level[s]] \/ Summarised(s) \/ s \in overtaken

\* An admitted chunk has its append job, or is already in the tree: a second run
\* of the extraction, which moves the lifecycle back, does not strand the chunk.
AdmittedIsPursued ==
  \A c \in Chunks : status[c] = "admitted" =>
    \/ IsActive(jobs, Append(c)) \/ failed[Append(c)] > 0
    \/ c \in buffers[0] \/ Summarised(c) \/ c \in overtaken

\* A child seals at most once (bucket_seal.rs:760-761), as long as every seal
\* comes through the queue and every job settles.  A manual flush seals outside
\* the queue, and an item it seals under a worker's seal has two summaries.
ChildSealsOnce ==
  crashes = 0 /\ failures = 0 /\ flushes = 0 =>
    \A s1, s2 \in SummaryIds : children[s1] \cap children[s2] # {} => s1 = s2

\* Parent links and child lists agree: the parent of an item lists it, and every
\* listed item has a parent.
ParentListsChild ==
  \A i \in Items : /\ parent[i] # None => i \in children[parent[i]]
                   /\ Summarised(i) => parent[i] # None

\* A parent link, once set, stays: no later seal of the same item moves it.
ParentIsFinal == [][\A i \in Items : parent[i] # None => parent'[i] = parent[i]]_vars

\* The tree's root is one of its highest summaries, whatever order the seals of
\* different levels commit in.
RootIsHighest ==
  /\ \A s \in SummaryIds : level[s] <= maxLevel
  /\ maxLevel > 0 => root # None /\ level[root] = maxLevel

\* Above the leaves no summary has fewer children than the fan-in gate asks for:
\* flushes do not make 1:1:1 chains (trees/store.rs:986-992).
FaninRespected ==
  \A s \in SummaryIds : level[s] > 1 => Cardinality(children[s]) >= Fanout

\* "the items move into a summary row and the buffer is cleared in the same tx"
\* (trees/store.rs:976-977): what leaves a buffer is in a summary.
SealMovesItems ==
  [][\A l \in Levels : \A i \in buffers[l] \ buffers'[l] :
       \E s \in SummaryIds : i \in children'[s]]_vars

-----------------------------------------------------------------------------
(* The queue as the pipeline uses it.                                      *)

\* FlushStale stands for one key per 3-hour block, and is left out.
KeyedJobs == JobKeys \ {FlushStale}
HasInHand(w, k) == task[w] # Idle /\ task[w].job = k

KeyView == INSTANCE KeyQueue WITH
  Keys   <- KeyedJobs,
  Ids    <- 1..MaxFailures,
  jobs   <- [k \in KeyedJobs |-> jobs[k]],
  owns   <- [w \in Workers |-> {k \in KeyedJobs : HasInHand(w, k)}],
  failed <- [k \in KeyedJobs |-> 1..failed[k]],
  parked <- [k \in KeyedJobs |-> {}]

\* Whatever handlers, seals, failures and crashes do meanwhile, the pipeline's jobs move
\* as KeyQueue says, which MemQueue implements: no follow-up is enqueued over an active
\* row, a row is settled by the worker that has it, and failed rows go back together.
UsesKeyQueue == KeyView!SteadySpec
=============================================================================
