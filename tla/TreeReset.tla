----------------------------- MODULE TreeReset ------------------------------
(***************************************************************************)
(* reset_tree_rpc (memory/read_rpc/admin.rs) beside the running pipeline:  *)
(* one transaction deletes the tree and every job, a second sends every    *)
(* chunk through extraction again.  The workers are not stopped, and what  *)
(* they are doing goes on without its job row.                             *)
(*                                                                         *)
(* The rebuilt tree gets a new id, so SourceTree's state is that of the    *)
(* tree there is; what still holds the old id finds no row.                *)
(***************************************************************************)
EXTENDS SourceTree

CONSTANT MaxResets  \* bound; resets are under MaxDisturbances too

VARIABLES
  resetting,    \* reset_tree_rpc is between its two transactions
  interrupted,  \* history: the process died there
  stale,        \* actors whose job row, and tree, were deleted under them
  gone,         \* ids of the deleted summaries
  overlooked,   \* history: chunks just dropped by a run that suppressed the requeue
  resets

reset == <<resetting, interrupted, stale, gone, overlooked, resets>>
rvars == <<vars, reset>>

ASSUME ResetsAreNat == MaxResets \in Nat

InitReset ==
  /\ Init
  /\ resetting = FALSE /\ interrupted = FALSE
  /\ stale = {} /\ gone = {} /\ overlooked = {} /\ resets = 0

\* Mutant: a seal writes without a row of its tree.
M_Orphaned(t) == t
\* A seal that awaits the model reads its tree's row in its transaction, and fails.
Orphaned(t) == IF t.stage = "model" THEN [t EXCEPT !.stage = "orphan"] ELSE t

DeletedJobs == [k \in JobKeys |-> "none"]

\* The first transaction: summaries, buffers, jobs and trees.  The chunks keep their
\* lifecycle and their parent_summary_id.
DeleteTree ==
  /\ ~resetting /\ resets < MaxResets
  /\ resets' = resets + 1
  /\ resetting' = TRUE
  /\ buffers' = [l \in Levels |-> {}] /\ aged' = FALSE
  /\ gone' = gone \cup {s \in SummaryIds : level[s] > 0}
  /\ children' = [s \in SummaryIds |-> {}]
  /\ level' = [s \in SummaryIds |-> 0]
  /\ parent' = [i \in Items |-> IF i \in Chunks THEN parent[i] ELSE None]
  /\ root' = None /\ maxLevel' = 0
  /\ jobs' = DeletedJobs
  /\ failed' = [k \in JobKeys |-> 0]
  /\ forced' = FALSE
  /\ stale' = {a \in Actors : task[a] # Idle}
  /\ task' = [a \in Actors |-> Orphaned(task[a])]
  /\ overtaken' = {}
  /\ overlooked' = {}
  /\ UNCHANGED <<status, active, bounds, interrupted>>

\* Mutant: only chunks that were in the tree are sent again.
M_Requeued == {c \in Chunks : status[c] = "buffered"}
Requeued == {c \in Chunks : status[c] # "absent"}

\* The second transaction.
RequeueChunks ==
  /\ resetting
  /\ resetting' = FALSE
  /\ status' = [c \in Chunks |-> IF c \in Requeued THEN "pending" ELSE status[c]]
  /\ jobs' = [k \in JobKeys |-> IF k \in {Extract(c) : c \in Requeued} /\ ~IsActive(jobs, k)
                                  THEN "ready" ELSE jobs[k]]
  /\ overlooked' = {c \in Requeued : status[c] = "dropped" /\ IsActive(jobs, Extract(c))}
  /\ UNCHANGED <<tree, failed, forced, task, active, bounds, interrupted, stale, gone,
                 resets>>

-----------------------------------------------------------------------------
(* The pipeline beside it.                                                 *)

\* A stale append or seal that had resolved its tree fails; a seal finds no tree; and
\* whatever a stale handler returns, its settlement finds no row.
StaleEnds(w) ==
  /\ w \in stale \ {Rpc}
  /\ \/ task[w].stage \in {"orphan", "settle"}
     \/ /\ task[w].stage = "work"
        /\ \E c \in Chunks, l \in Levels : task[w].job \in {Append(c), Seal(l)}
  /\ task' = [task EXCEPT ![w] = Idle]
  /\ stale' = stale \ {w}
  /\ UNCHANGED <<status, tree, jobs, failed, forced, active, bounds, resetting, interrupted,
                 gone, overlooked, resets>>

\* The cascade of a manual flush finds the old tree's buffers gone; a seal of it fails,
\* and leaves the scope in ACTIVE.
StaleFlushEnds ==
  /\ Rpc \in stale
  /\ active' = (task[Rpc].stage = "orphan")
  /\ task' = [task EXCEPT ![Rpc] = Idle]
  /\ stale' = stale \ {Rpc}
  /\ UNCHANGED <<status, tree, jobs, failed, forced, bounds, resetting, interrupted, gone,
                 overlooked, resets>>

\* What a worker does whether or not its job row is still there.  A stale append that
\* has not resolved its tree yet creates the new one.
HandlesAnyway(w) ==
  \/ \E c \in Chunks : HandleExtract(w, c) \/ HandleAppend(w, c)
  \/ HandleFlushStale(w)

HandlesOwn(w) ==
  /\ w \notin stale
  /\ (\E l \in Levels : HandleSeal(w, l)) \/ Settle(w) \/ Fail(w)

Commits(a) == \E s \in SummaryIds \ gone : CommitSeal(a, s)

Flushes == Rpc \notin stale /\ (CascadeReads \/ ManualFlushFails)

ClaimsAny(w) == \E k \in JobKeys : Claim(w, k)

Pipeline ==
  \/ \E c \in Chunks : Ingest(c)
  \/ SchedulerTick \/ BecomesStale \/ Sweep \/ ManualFlush \/ Flushes
  \/ \E w \in Workers : ClaimsAny(w) \/ HandlesAnyway(w) \/ HandlesOwn(w)
  \/ \E a \in Actors : Commits(a)

Dies ==
  /\ Crash
  /\ resetting' = FALSE
  /\ interrupted' = (interrupted \/ resetting)
  /\ stale' = {}
  /\ UNCHANGED <<gone, overlooked, resets>>

Disturbances == resets + crashes + failures + flushes

NextReset ==
  /\ \/ DeleteTree \/ RequeueChunks
     \/ Pipeline /\ UNCHANGED reset
     \/ (\E w \in Workers : StaleEnds(w)) \/ StaleFlushEnds
     \/ Dies
  /\ Disturbances' <= MaxDisturbances

SpecReset == InitReset /\ [][NextReset]_rvars

\* The queue claims and runs every ready job, the scheduler ticks every three hours
\* and sweeps failures, the model answers, buffers age, and reset_tree_rpc goes on.
FairnessReset ==
  /\ \A k \in JobKeys :
       SF_rvars((\E w \in Workers : Claim(w, k)) /\ UNCHANGED reset)
  /\ \A w \in Workers : /\ WF_rvars((HandlesAnyway(w) \/ HandlesOwn(w)) /\ UNCHANGED reset)
                        /\ WF_rvars(StaleEnds(w))
  /\ \A a \in Actors : WF_rvars(Commits(a) /\ UNCHANGED reset)
  /\ WF_rvars(Flushes /\ UNCHANGED reset) /\ WF_rvars(StaleFlushEnds)
  /\ WF_rvars(BecomesStale /\ UNCHANGED reset)
  /\ WF_rvars(SchedulerTick /\ UNCHANGED reset) /\ WF_rvars(Sweep /\ UNCHANGED reset)
  /\ WF_rvars(RequeueChunks)

FairSpecReset == SpecReset /\ FairnessReset

-----------------------------------------------------------------------------
(* Properties.                                                             *)

\* A reset that is under way, or was cut in two by a crash, has taken the tree away
\* from under the chunks' lifecycles.
TreeTakenAway == resetting \/ interrupted

\* OnlyOvertakenAreLost and AdmittedIsPursued through resets: workers that lost their
\* job rows and their tree strand no chunk of the tree that is rebuilt beside them.
ResetStrandsNothing == TreeTakenAway \/ (OnlyOvertakenAreLost /\ AdmittedIsPursued)

\* The rebuilt tree holds nothing of the old one, although seals of the old one commit
\* after its rows are deleted: no buffer, child list or root names a deleted summary.
NothingComesBack ==
  /\ \A l \in Levels : buffers[l] \cap gone = {}
  /\ \A s \in SummaryIds : children[s] \cap gone = {}
  /\ root \notin gone
  /\ \A s \in gone : level[s] = 0

\* A job whose row a crash left running waits for a restart after its lease.
Stuck == \E k \in JobKeys : jobs[k] = "running" /\ \A w \in Workers : task[w].job # k

\* The bound on SummaryIds is reached.
OutOfIds == \A s \in SummaryIds \ gone : level[s] > 0

\* "re-enqueue every chunk through the extraction pipeline so the tree rebuilds from
\* scratch" (memory/schema/definitions.rs:438-442): every chunk gets into a summary of
\* the tree there is in the end, or is dropped.
EveryChunkIsRebuilt ==
  \A c \in Chunks :
    status[c] # "absent"
      ~> Summarised(c) \/ status[c] = "dropped" \/ c \in overtaken \cup overlooked
         \/ interrupted \/ Stuck \/ OutOfIds

\* The queue as the pipeline uses it beside resets: a worker whose row was deleted has
\* none to settle, whatever it still does.
ResetView == INSTANCE KeyQueue WITH
  Keys   <- KeyedJobs,
  Ids    <- 1..MaxFailures,
  jobs   <- [k \in KeyedJobs |-> jobs[k]],
  owns   <- [w \in Workers |-> {k \in KeyedJobs : w \notin stale /\ HasInHand(w, k)}],
  failed <- [k \in KeyedJobs |-> 1..failed[k]],
  parked <- [k \in KeyedJobs |-> {}]

\* A reset empties the table under the workers and fills it again, and no stale worker
\* settles the row that took its own row's place.
ResetUsesKeyQueue == ResetView!SteadySpec
=============================================================================
