-------------------------- MODULE TreeResetProofs ---------------------------
(* Proofs about TreeReset, for every number of chunks, summaries, workers,  *)
(* levels and resets: nothing of a deleted tree gets into the rebuilt one,  *)
(* and no chunk is stranded beside it.                                      *)
EXTENDS TreeReset, TLAPS

Stages == {"idle", "work", "model", "settle", "read", "orphan"}
Task == [stage : Stages, job : JobKeys \cup {None}, level : Levels, snap : SUBSET Items]

\* The shape of what the argument looks at.
Shape ==
  /\ buffers \in [Levels -> SUBSET Items]
  /\ children \in [SummaryIds -> SUBSET Items]
  /\ level \in [SummaryIds -> Nat]
  /\ task \in [Actors -> Task]
  /\ gone \subseteq SummaryIds

\* A seal that awaits the model has read its buffer since the last reset: one that read
\* it before is an orphan.
SealsAreFresh ==
  \A a \in Actors : task[a].stage = "model" => task[a].snap \cap gone = {}

Inv == Shape /\ NothingComesBack /\ SealsAreFresh

LEMMA InitInv == InitReset => Inv
  <1> SUFFICES ASSUME InitReset PROVE Inv
    OBVIOUS
  <1>1. 0 \in Levels
    BY FanoutAssumption DEF Levels
  <1>2. Idle \in Task
    BY <1>1 DEF Idle, Task, Stages
  <1> QED  BY <1>2, ItemsAssumption DEF InitReset, Init, Inv, Shape, NothingComesBack, SealsAreFresh, Idle

\* Steps that leave the tree alone, and after which no seal awaits the model that did
\* not before.
LEMMA TreeKept ==
  ASSUME Inv, UNCHANGED <<buffers, children, level, root, gone>>,
         task' \in [Actors -> Task],
         \A a \in Actors : task'[a].stage = "model" =>
           task[a].stage = "model" /\ task'[a].snap = task[a].snap
  PROVE  Inv'
  BY DEF Inv, Shape, NothingComesBack, SealsAreFresh

\* A seal reads its buffer.
LEMMA SealReads ==
  ASSUME Inv, NEW a \in Actors, NEW l \in Levels, NEW k \in JobKeys \cup {None},
         task' = [task EXCEPT ![a] = At("model", k, l, buffers[l])],
         UNCHANGED <<buffers, children, level, root, gone>>
  PROVE  Inv'
  <1>1. At("model", k, l, buffers[l]) \in Task
    BY DEF At, Task, Stages, Inv, Shape
  <1>2. task' \in [Actors -> Task]
    BY <1>1 DEF Inv, Shape
  <1>3. ASSUME NEW b \in Actors, task'[b].stage = "model" PROVE task'[b].snap \cap gone = {}
    BY <1>3 DEF At, Inv, Shape, NothingComesBack, SealsAreFresh
  <1> QED  BY <1>2, <1>3 DEF Inv, Shape, NothingComesBack, SealsAreFresh

\* The task of one actor moves to a stage other than "model".
LEMMA TaskMoves ==
  ASSUME Inv, NEW a \in Actors, NEW t \in Task, t.stage # "model",
         task' = [task EXCEPT ![a] = t],
         UNCHANGED <<buffers, children, level, root, gone>>
  PROVE  Inv'
  <1>1. task' \in [Actors -> Task]
    BY DEF Inv, Shape
  <1>2. \A b \in Actors : task'[b].stage = "model" =>
          task[b].stage = "model" /\ task'[b].snap = task[b].snap
    BY DEF Inv, Shape
  <1> QED  BY <1>1, <1>2, TreeKept

LEMMA MovedIsTask ==
  ASSUME Shape, NEW a \in Actors, NEW s \in Stages
  PROVE  \E t \in Task : t.stage = s /\ Moved(a, s) = [task EXCEPT ![a] = t]
  <1> DEFINE t == [task[a] EXCEPT !.stage = s]
  <1>1. t \in Task /\ t.stage = s
    BY DEF Shape, Task
  <1>2. Moved(a, s) = [task EXCEPT ![a] = t]
    BY DEF Moved
  <1> QED  BY <1>1, <1>2

LEMMA DeleteTreeInv == Inv /\ DeleteTree => Inv'
  <1> SUFFICES ASSUME Inv, DeleteTree PROVE Inv'
    OBVIOUS
  <1>1. \A a \in Actors : Orphaned(task[a]) \in Task /\ Orphaned(task[a]).stage # "model"
    BY DEF Inv, Shape, Orphaned, Task, Stages
  <1>2. task' \in [Actors -> Task] /\ \A a \in Actors : task'[a].stage # "model"
    BY <1>1 DEF DeleteTree
  <1>3. gone' \subseteq SummaryIds
    BY DEF DeleteTree, Inv, Shape
  <1> QED  BY <1>2, <1>3, ItemsAssumption DEF DeleteTree, Inv, Shape, NothingComesBack, SealsAreFresh

LEMMA AppendInv ==
  ASSUME Inv, NEW w \in Workers, NEW c \in Chunks, HandleAppend(w, c), UNCHANGED gone
  PROVE  Inv'
  <1>1. PICK t \in Task : t.stage = "settle" /\ task' = [task EXCEPT ![w] = t]
    BY MovedIsTask DEF HandleAppend, Inv, Actors, Stages
  <1>2. /\ buffers' = [buffers EXCEPT ![0] = buffers[0] \cup {c}]
        /\ UNCHANGED <<children, level, root>>
    BY DEF HandleAppend
  <1>3. 0 \in Levels
    BY FanoutAssumption DEF Levels
  <1>4. buffers' \in [Levels -> SUBSET Items] /\ \A l \in Levels : buffers'[l] \cap gone = {}
    BY <1>2, <1>3, ItemsAssumption DEF Inv, Shape, NothingComesBack, Items
  <1>5. task' \in [Actors -> Task]
        /\ \A b \in Actors : task'[b].stage = "model" =>
             task[b].stage = "model" /\ task'[b].snap = task[b].snap
    BY <1>1 DEF Inv, Shape, Actors
  <1> QED  BY <1>2, <1>4, <1>5 DEF Inv, Shape, NothingComesBack, SealsAreFresh

\* A seal that commits adds a summary whose id was never used, over what it has read.
LEMMA CommitInv ==
  ASSUME Inv, NEW a \in Actors, Commits(a), UNCHANGED gone
  PROVE  Inv'
  <1>1. PICK s \in SummaryIds \ gone : CommitSeal(a, s)
    BY DEF Commits
  <1> DEFINE l == task[a].level
             snap == task[a].snap
  <1>2. /\ task[a].stage = "model" /\ l \in Levels /\ l + 1 \in Levels /\ l + 1 \in Nat
        /\ snap \in SUBSET Items /\ snap \cap gone = {}
    BY <1>1, FanoutAssumption DEF CommitSeal, Inv, Shape, SealsAreFresh, Task, Levels
  <1>3. /\ children' = [children EXCEPT ![s] = snap]
        /\ level' = [level EXCEPT ![s] = l + 1]
        /\ buffers' = [buffers EXCEPT ![l] = {}, ![l + 1] = @ \cup {s}]
        /\ root' = s \/ root' = root
    BY <1>1 DEF CommitSeal, Sealed
  <1>4. PICK t \in Task : t.stage # "model" /\ task' = [task EXCEPT ![a] = t]
    <2>1. CASE a = Rpc
      <3>1. At("read", None, l + 1, {}) \in Task
        BY <1>2 DEF At, Task, Stages
      <3> QED  BY <1>1, <2>1, <3>1 DEF CommitSeal, At
    <2>2. CASE a # Rpc
      BY <1>1, <2>2, MovedIsTask DEF CommitSeal, Inv, Stages
    <2> QED  BY <2>1, <2>2
  <1>5. /\ task' \in [Actors -> Task]
        /\ \A b \in Actors : task'[b].stage = "model" =>
             task[b].stage = "model" /\ task'[b].snap = task[b].snap
    BY <1>4 DEF Inv, Shape
  <1>6. buffers' \in [Levels -> SUBSET Items] /\ \A k \in Levels : buffers'[k] \cap gone = {}
    BY <1>2, <1>3 DEF Inv, Shape, NothingComesBack, Items
  <1>7. children' \in [SummaryIds -> SUBSET Items]
        /\ \A k \in SummaryIds : children'[k] \cap gone = {}
    BY <1>2, <1>3 DEF Inv, Shape, NothingComesBack
  <1>8. level' \in [SummaryIds -> Nat] /\ \A k \in gone : level'[k] = 0
    BY <1>2, <1>3 DEF Inv, Shape, NothingComesBack
  <1>9. root' \notin gone
    BY <1>3 DEF Inv, NothingComesBack
  <1> QED  BY <1>5, <1>6, <1>7, <1>8, <1>9 DEF Inv, Shape, NothingComesBack, SealsAreFresh

LEMMA PipelineInv == Inv /\ Pipeline /\ UNCHANGED reset => Inv'
  <1> SUFFICES ASSUME Inv, Pipeline, UNCHANGED reset PROVE Inv'
    OBVIOUS
  <1>n. gone' = gone
    BY DEF reset
  <1>i. 0 \in Levels /\ Idle \in Task /\ Idle.stage # "model"
    <2>1. 0 \in Levels
      BY FanoutAssumption DEF Levels
    <2> QED  BY <2>1 DEF Idle, Task, Stages
  <1>1. ASSUME UNCHANGED <<tree, task>> PROVE Inv'
    BY <1>1, <1>n, TreeKept DEF tree, Inv, Shape
  <1>2. ASSUME NEW w \in Workers, NEW s \in Stages, s # "model", task' = Moved(w, s),
               UNCHANGED tree
        PROVE  Inv'
    <2>1. PICK t \in Task : t.stage = s /\ task' = [task EXCEPT ![w] = t]
      BY <1>2, MovedIsTask DEF Inv, Actors
    <2> QED  BY <1>n, <1>2, <2>1, TaskMoves DEF tree, Actors
  <1>3. ASSUME NEW a \in Actors, task' = [task EXCEPT ![a] = Idle], UNCHANGED tree PROVE Inv'
    BY <1>n, <1>i, <1>3, TaskMoves DEF tree
  <1>4. CASE \/ \E c \in Chunks : Ingest(c)
             \/ SchedulerTick \/ Sweep
    BY <1>1, <1>4 DEF Ingest, SchedulerTick, Sweep
  <1>5. CASE BecomesStale
    BY <1>5, <1>n, TreeKept DEF BecomesStale, Inv, Shape
  <1>6. CASE ManualFlush
    <2>1. At("read", None, 0, {}) \in Task /\ At("read", None, 0, {}).stage # "model"
      BY <1>i DEF At, Task, Stages
    <2> QED  BY <1>n, <1>6, <2>1, TaskMoves DEF ManualFlush, tree, Actors
  <1>7. CASE Flushes
    <2>1. CASE ManualFlushFails
      BY <1>3, <2>1 DEF ManualFlushFails, Actors
    <2>2. CASE CascadeReads
      <3>1. Rpc \in Actors /\ task[Rpc].level \in Levels
        BY DEF Actors, Inv, Shape, Task
      <3>2. UNCHANGED <<buffers, children, level, root, gone>>
        BY <1>n, <2>2 DEF CascadeReads, tree
      <3>3. CASE task' = [task EXCEPT ![Rpc] = At("model", None, task[Rpc].level,
                                                buffers[task[Rpc].level])]
        BY <3>1, <3>2, <3>3, SealReads
      <3>4. CASE task' = [task EXCEPT ![Rpc] = Idle]
        BY <1>i, <3>1, <3>2, <3>4, TaskMoves
      <3> QED  BY <2>2, <3>3, <3>4 DEF CascadeReads
    <2> QED  BY <1>7, <2>1, <2>2 DEF Flushes
  <1>8. ASSUME NEW w \in Workers, ClaimsAny(w) PROVE Inv'
    <2>1. PICK k \in JobKeys : Claim(w, k)
      BY <1>8 DEF ClaimsAny
    <2>2. At("work", k, 0, {}) \in Task /\ At("work", k, 0, {}).stage # "model"
      BY <1>i DEF At, Task, Stages
    <2> QED  BY <1>n, <2>1, <2>2, TaskMoves DEF Claim, tree, Actors
  <1>9. ASSUME NEW w \in Workers, HandlesAnyway(w) PROVE Inv'
    <2>1. ASSUME NEW c \in Chunks, HandleExtract(w, c) PROVE Inv'
      BY <1>2, <2>1 DEF HandleExtract, Stages
    <2>2. CASE HandleFlushStale(w)
      BY <1>2, <2>2 DEF HandleFlushStale, Stages
    <2> QED  BY <1>n, <1>9, <2>1, <2>2, AppendInv DEF HandlesAnyway
  <1>10. ASSUME NEW w \in Workers, HandlesOwn(w) PROVE Inv'
    <2>1. ASSUME NEW l \in Levels, HandleSeal(w, l) PROVE Inv'
      <3>1. CASE task' = [task EXCEPT ![w] = At("model", Seal(l), l, buffers[l])]
        <4>1. Seal(l) \in JobKeys
          BY DEF JobKeys
        <4> QED  BY <1>n, <2>1, <3>1, <4>1, SealReads DEF HandleSeal, tree, Actors
      <3>2. CASE task' = Moved(w, "settle")
        BY <1>2, <2>1, <3>2 DEF HandleSeal, Stages
      <3> QED  BY <2>1, <3>1, <3>2 DEF HandleSeal
    <2>2. CASE Settle(w)
      BY <1>3, <2>2 DEF Settle, Actors
    <2>3. CASE Fail(w)
      BY <1>3, <2>3 DEF Fail, Actors
    <2> QED  BY <1>10, <2>1, <2>2, <2>3 DEF HandlesOwn
  <1>11. ASSUME NEW a \in Actors, Commits(a) PROVE Inv'
    BY <1>n, <1>11, CommitInv
  <1> QED  BY <1>4, <1>5, <1>6, <1>7, <1>8, <1>9, <1>10, <1>11 DEF Pipeline

\* A reset and the crashes, failures and flushes beside it never bring a summary of a
\* deleted tree back into a buffer, a child list or the root.
THEOREM ResetIsFinal == SpecReset => []NothingComesBack
  <1>1. Inv /\ [NextReset]_rvars => Inv'
    <2> SUFFICES ASSUME Inv, [NextReset]_rvars PROVE Inv'
      OBVIOUS
    <2>i. Idle \in Task /\ Idle.stage # "model"
      BY FanoutAssumption DEF Idle, Task, Stages, Levels
    <2>1. CASE RequeueChunks
      BY <2>1, TreeKept DEF RequeueChunks, tree, Inv, Shape
    <2>2. ASSUME NEW w \in Workers, StaleEnds(w) PROVE Inv'
      BY <2>i, <2>2, TaskMoves DEF StaleEnds, tree, Actors
    <2>3. CASE StaleFlushEnds
      BY <2>i, <2>3, TaskMoves DEF StaleFlushEnds, tree, Actors
    <2>4. CASE Dies
      BY <2>i, <2>4, TreeKept DEF Dies, Crash, tree
    <2>5. CASE UNCHANGED rvars
      BY <2>5, TreeKept DEF rvars, vars, reset, Inv, Shape
    <2> QED  BY <2>1, <2>2, <2>3, <2>4, <2>5, DeleteTreeInv, PipelineInv DEF NextReset
  <1>2. Inv => NothingComesBack
    BY DEF Inv
  <1> QED  BY InitInv, <1>1, <1>2, PTL DEF SpecReset

-----------------------------------------------------------------------------
(* No chunk is stranded by a reset.                                        *)

InTree(c) == c \in buffers[0] \/ Summarised(c) \/ c \in overtaken
Pursued(c) == IsActive(jobs, Append(c)) \/ failed[Append(c)] > 0 \/ InTree(c)

JobStates == {"none", "ready", "running"}
Statuses == {"absent", "pending", "admitted", "buffered", "dropped"}

\* The shape of the rest of the state.
Types ==
  /\ status \in [Chunks -> Statuses]
  /\ buffers \in [Levels -> SUBSET Items]
  /\ children \in [SummaryIds -> SUBSET Items]
  /\ level \in [SummaryIds -> Levels]
  /\ jobs \in [JobKeys -> JobStates]
  /\ failed \in [JobKeys -> Nat]
  /\ task \in [Actors -> Task]

\* A summary that is not written has no children.
FreshIsEmpty == \A s \in SummaryIds : level[s] = 0 => children[s] = {}

\* What is in a buffer under a seal was read by it, or came after it.  Seals of a deleted
\* tree are orphans, and clear no buffer of this one.
SnapCoversBuffer ==
  \A a \in Actors : task[a].stage = "model" =>
    \A i \in buffers[task[a].level] :
      i \in task[a].snap \/ Summarised(i) \/ i \in overtaken

SummariesKept ==
  \A s \in SummaryIds :
    level[s] > 0 => s \in buffers[level[s]] \/ Summarised(s) \/ s \in overtaken

\* An append that will settle has pushed its chunk into the tree there is: one that pushed
\* it into a deleted tree is stale, and settles no row.
PushesKept ==
  \A w \in Workers \ stale, c \in Chunks :
    task[w].stage \in {"model", "settle"} /\ task[w].job = Append(c) => InTree(c)

\* Between the transactions of a reset the lifecycles are those of the deleted tree; the
\* second one sends every chunk back to extraction.
ChunksKept ==
  TreeTakenAway \/ \A c \in Chunks : /\ status[c] = "buffered" => InTree(c)
                                     /\ status[c] = "admitted" => Pursued(c)

Kept ==
  /\ Types /\ FreshIsEmpty /\ SnapCoversBuffer /\ SummariesKept /\ PushesKept /\ ChunksKept

LEMMA Keys ==
  /\ \A c \in Chunks : Extract(c) \in JobKeys /\ Append(c) \in JobKeys
  /\ \A l \in Levels : Seal(l) \in JobKeys
  /\ FlushStale \in JobKeys
  /\ \A c, d : Append(c) # Extract(d)
  /\ \A c, d : Append(c) = Append(d) => c = d
  /\ \A c, l : Append(c) # Seal(l)
  /\ \A c : Append(c) # FlushStale
  BY DEF JobKeys, Append, Extract, Seal, FlushStale

LEMMA Levelled == Levels \subseteq Nat /\ 0 \in Levels /\ Idle \in Task /\ Idle.stage = "idle"
  <1>1. Levels \subseteq Nat /\ 0 \in Levels
    BY FanoutAssumption DEF Levels
  <1> QED  BY <1>1 DEF Idle, Task, Stages

\* An enqueue keeps active what is, and its own key becomes it.
LEMMA Enqueues ==
  ASSUME NEW j \in [JobKeys -> JobStates], NEW k \in JobKeys
  PROVE  /\ Enqueued(j, k) \in [JobKeys -> JobStates]
         /\ IsActive(Enqueued(j, k), k)
         /\ \A n \in JobKeys : IsActive(j, n) => IsActive(Enqueued(j, k), n)
  BY DEF Enqueued, IsActive, JobStates

\* The kinds of steps that leave the tree alone: no seal begins but one that has just read
\* its buffer, no append gets past its push, no chunk is buffered, and an admitted one is
\* pursued after the step.
LEMMA TreeAlone ==
  ASSUME Kept, UNCHANGED <<buffers, children, level, overtaken>>,
         status' \in [Chunks -> Statuses], jobs' \in [JobKeys -> JobStates],
         failed' \in [JobKeys -> Nat], task' \in [Actors -> Task],
         \A a \in Actors : task'[a].stage = "model" =>
           \/ task[a].stage = "model" /\ task'[a].level = task[a].level
              /\ task'[a].snap = task[a].snap
           \/ task'[a].snap = buffers[task'[a].level],
         \A w \in Workers \ stale', c \in Chunks :
           task'[w].stage \in {"model", "settle"} /\ task'[w].job = Append(c) =>
             w \notin stale /\ task[w].stage \in {"model", "settle"} /\ task[w].job = Append(c),
         TreeTakenAway => TreeTakenAway',
         \A c \in Chunks : status'[c] = "buffered" => status[c] = "buffered",
         \A c \in Chunks : status'[c] = "admitted" /\ ~TreeTakenAway =>
           \/ IsActive(jobs', Append(c)) \/ failed'[Append(c)] > 0 \/ InTree(c)
           \/ status[c] = "admitted" /\ ~IsActive(jobs, Append(c)) /\ ~(failed[Append(c)] > 0)
  PROVE  Kept'
  <1>1. /\ \A i : Summarised(i)' <=> Summarised(i)
        /\ \A c : InTree(c)' <=> InTree(c)
    BY DEF Summarised, InTree
  <1>2. Types' /\ FreshIsEmpty' /\ SummariesKept'
    BY <1>1 DEF Kept, Types, FreshIsEmpty, SummariesKept
  <1>3. SnapCoversBuffer'
    BY <1>1 DEF Kept, SnapCoversBuffer
  <1>4. PushesKept'
    BY <1>1 DEF Kept, PushesKept
  <1>5. ChunksKept'
    BY <1>1 DEF Kept, ChunksKept, Pursued
  <1> QED  BY <1>2, <1>3, <1>4, <1>5 DEF Kept

LEMMA KeptInit == InitReset => Kept
  <1> SUFFICES ASSUME InitReset PROVE Kept
    OBVIOUS
  <1>1. Types
    BY Levelled DEF InitReset, Init, Types, Statuses, JobStates
  <1>2. \A a \in Actors : task[a].stage = "idle"
    BY Levelled DEF InitReset, Init
  <1>3. SnapCoversBuffer /\ PushesKept
    BY <1>2 DEF SnapCoversBuffer, PushesKept, Actors
  <1>4. FreshIsEmpty /\ SummariesKept /\ ChunksKept
    BY DEF InitReset, Init, FreshIsEmpty, SummariesKept, ChunksKept
  <1> QED  BY <1>1, <1>3, <1>4 DEF Kept

LEMMA KeptDeleteTree == Kept /\ DeleteTree => Kept'
  <1> SUFFICES ASSUME Kept, DeleteTree PROVE Kept'
    OBVIOUS
  <1>1. \A a \in Actors : Orphaned(task[a]) \in Task /\ Orphaned(task[a]).stage # "model"
    BY DEF Kept, Types, Orphaned, Task, Stages
  <1>2. task' \in [Actors -> Task] /\ \A a \in Actors : task'[a].stage # "model"
    BY <1>1 DEF DeleteTree
  <1>3. \A w \in Workers : w \notin stale' => task'[w].stage = "idle"
    BY Levelled DEF DeleteTree, Orphaned, Actors
  <1>4. Types'
    BY <1>2, Levelled DEF DeleteTree, Kept, Types, DeletedJobs, JobStates
  <1>5. FreshIsEmpty' /\ SummariesKept'
    BY DEF DeleteTree, FreshIsEmpty, SummariesKept
  <1>6. SnapCoversBuffer'
    BY <1>2 DEF SnapCoversBuffer
  <1>7. PushesKept'
    BY <1>3 DEF PushesKept
  <1>8. ChunksKept'
    BY DEF DeleteTree, ChunksKept, TreeTakenAway
  <1> QED  BY <1>4, <1>5, <1>6, <1>7, <1>8 DEF Kept

\* Afterwards no chunk is admitted or buffered.
LEMMA KeptRequeue == Kept /\ RequeueChunks => Kept'
  <1> SUFFICES ASSUME Kept, RequeueChunks PROVE Kept'
    OBVIOUS
  <1>1. UNCHANGED <<buffers, children, level, overtaken, failed, task, stale>>
    BY DEF RequeueChunks, tree
  <1>2. \A c \in Chunks : status'[c] \in {"absent", "pending"}
    BY DEF RequeueChunks, Requeued
  <1>3. status' \in [Chunks -> Statuses]
    BY <1>2 DEF RequeueChunks, Requeued, Statuses
  <1>4. jobs' \in [JobKeys -> JobStates]
    BY DEF RequeueChunks, Kept, Types, JobStates
  <1>5. Types'
    BY <1>1, <1>3, <1>4 DEF Kept, Types
  <1>6. FreshIsEmpty' /\ SummariesKept' /\ SnapCoversBuffer' /\ PushesKept'
    BY <1>1 DEF Kept, FreshIsEmpty, SummariesKept, SnapCoversBuffer, PushesKept, Summarised, InTree
  <1>7. ChunksKept'
    BY <1>2 DEF ChunksKept
  <1> QED  BY <1>5, <1>6, <1>7 DEF Kept

\* A push: under a seal the chunk counts as overtaken.
LEMMA KeptAppend ==
  ASSUME Kept, NEW w \in Workers, NEW c \in Chunks, HandleAppend(w, c), UNCHANGED reset
  PROVE  Kept'
  <1> DEFINE items == buffers[0] \cup {c}
  <1>1. /\ buffers' = [buffers EXCEPT ![0] = items]
        /\ overtaken' = IF Sealing(0) # {} /\ c \notin buffers[0]
                          THEN overtaken \cup {c} ELSE overtaken
        /\ status' = [status EXCEPT ![c] = "buffered"]
        /\ task' = [task EXCEPT ![w].stage = "settle"]
        /\ task[w].job = Append(c)
        /\ UNCHANGED <<children, level, failed, stale, resetting, interrupted>>
    BY DEF HandleAppend, Moved, reset
  <1>2. /\ buffers'[0] = items /\ \A l \in Levels \ {0} : buffers'[l] = buffers[l]
        /\ overtaken \subseteq overtaken'
        /\ buffers' \in [Levels -> SUBSET Items]
    BY <1>1, Levelled DEF Kept, Types, Items
  <1>3. /\ task' \in [Actors -> Task]
        /\ task'[w].stage = "settle" /\ task'[w].job = Append(c)
        /\ \A b \in Actors \ {w} : task'[b] = task[b]
    BY <1>1 DEF Kept, Types, Task, Stages, Actors
  <1>4. jobs' = jobs \/ jobs' = Enqueued(jobs, Seal(0))
    BY DEF HandleAppend, SealFollowUp
  <1>5. jobs' \in [JobKeys -> JobStates] /\ \A k \in JobKeys : IsActive(jobs, k) => IsActive(jobs', k)
    <2>1. Seal(0) \in JobKeys
      BY Keys, Levelled
    <2> QED  BY <1>4, <2>1, Enqueues DEF Kept, Types, IsActive
  <1>6. /\ \A i : Summarised(i)' <=> Summarised(i)
        /\ \A d : InTree(d) => InTree(d)'
        /\ InTree(c)'
    BY <1>1, <1>2 DEF Summarised, InTree
  <1>7. Types'
    BY <1>1, <1>2, <1>3, <1>5 DEF Kept, Types, Statuses
  <1>8. FreshIsEmpty'
    BY <1>1 DEF Kept, FreshIsEmpty
  <1>9. SummariesKept'
    BY <1>1, <1>2, <1>6, Levelled DEF Kept, Types, SummariesKept
  <1>10. ASSUME NEW a \in Actors, task'[a].stage = "model", NEW i \in buffers'[task'[a].level]
         PROVE  i \in task'[a].snap \/ Summarised(i)' \/ i \in overtaken'
    <2>1. task'[a] = task[a] /\ task[a].level \in Levels
      BY <1>3, <1>10 DEF Kept, Types, Task
    <2>2. CASE i \in buffers[task[a].level]
      BY <1>2, <1>6, <1>10, <2>1, <2>2 DEF Kept, SnapCoversBuffer
    <2>3. CASE i \notin buffers[task[a].level]
      <3>1. task[a].level = 0 /\ i = c
        BY <1>2, <1>10, <2>1, <2>3
      <3>2. a \in Sealing(0)
        BY <1>10, <2>1, <3>1 DEF Sealing
      <3> QED  BY <1>1, <2>3, <3>1, <3>2
    <2> QED  BY <2>2, <2>3
  <1>11. SnapCoversBuffer'
    BY <1>10 DEF SnapCoversBuffer
  <1>12. PushesKept'
    <2>1. ASSUME NEW v \in Workers \ stale', NEW d \in Chunks,
                 task'[v].stage \in {"model", "settle"}, task'[v].job = Append(d)
          PROVE  InTree(d)'
      <3>1. CASE v = w
        BY <1>3, <1>6, <2>1, <3>1, Keys
      <3>2. CASE v # w
        BY <1>1, <1>3, <1>6, <2>1, <3>2 DEF Kept, PushesKept, Actors
      <3> QED  BY <3>1, <3>2
    <2> QED  BY <2>1 DEF PushesKept
  <1>13. ChunksKept'
    <2>1. \A d \in Chunks : Pursued(d) => Pursued(d)'
      BY <1>1, <1>5, <1>6, Keys DEF Pursued
    <2>2. \A d \in Chunks \ {c} : status'[d] = status[d]
      BY <1>1 DEF Kept, Types
    <2>3. TreeTakenAway' = TreeTakenAway
      BY <1>1 DEF TreeTakenAway
    <2> QED  BY <1>6, <2>1, <2>2, <2>3 DEF Kept, ChunksKept, Pursued
  <1> QED  BY <1>7, <1>8, <1>9, <1>11, <1>12, <1>13 DEF Kept

\* A seal clears what it has read and what counts as overtaken, and its summary joins the
\* buffer above.
LEMMA KeptCommit ==
  ASSUME Kept, NEW a \in Actors, NEW s \in SummaryIds, CommitSeal(a, s), UNCHANGED reset
  PROVE  Kept'
  <1> DEFINE l == task[a].level
             snap == task[a].snap
  <1>1. /\ task[a].stage = "model" /\ level[s] = 0 /\ children[s] = {}
        /\ l \in Levels /\ l + 1 \in Levels /\ l \in Nat /\ snap \in SUBSET Items
    BY FanoutAssumption DEF CommitSeal, Kept, Types, FreshIsEmpty, Task, Levels
  <1>2. /\ children' = [children EXCEPT ![s] = snap]
        /\ level' = [level EXCEPT ![s] = l + 1]
        /\ buffers' = [buffers EXCEPT ![l] = {}, ![l + 1] = @ \cup {s}]
        /\ overtaken' = IF Sealing(l + 1) # {} THEN overtaken \cup {s} ELSE overtaken
        /\ UNCHANGED <<status, failed, stale, resetting, interrupted>>
    BY DEF CommitSeal, Sealed, reset
  <1>3. /\ buffers'[l] = {} /\ buffers'[l + 1] = buffers[l + 1] \cup {s}
        /\ \A n \in Levels \ {l, l + 1} : buffers'[n] = buffers[n]
        /\ buffers' \in [Levels -> SUBSET Items]
        /\ overtaken \subseteq overtaken'
    BY <1>1, <1>2 DEF Kept, Types, Items
  <1>4. /\ children'[s] = snap /\ level'[s] = l + 1
        /\ \A x \in SummaryIds \ {s} : children'[x] = children[x] /\ level'[x] = level[x]
        /\ children' \in [SummaryIds -> SUBSET Items] /\ level' \in [SummaryIds -> Levels]
    BY <1>1, <1>2 DEF Kept, Types
  <1>5. PICK t \in Task : /\ t.stage # "model" /\ task' = [task EXCEPT ![a] = t]
                          /\ t.stage = "settle" => a # Rpc /\ t.job = task[a].job
    <2>1. CASE a = Rpc
      <3>1. At("read", None, l + 1, {}) \in Task
        BY <1>1 DEF At, Task, Stages
      <3> QED  BY <2>1, <3>1 DEF CommitSeal, At
    <2>2. CASE a # Rpc
      <3> DEFINE u == [task[a] EXCEPT !.stage = "settle"]
      <3>1. u \in Task /\ u.stage = "settle" /\ u.job = task[a].job
        BY DEF Kept, Types, Task, Stages
      <3>2. task' = [task EXCEPT ![a] = u]
        BY <2>2 DEF CommitSeal, Moved
      <3> QED  BY <2>2, <3>1, <3>2
    <2> QED  BY <2>1, <2>2
  <1>6. /\ task' \in [Actors -> Task] /\ task'[a] = t
        /\ \A b \in Actors \ {a} : task'[b] = task[b]
    BY <1>5 DEF Kept, Types
  <1>7. jobs' = jobs \/ jobs' = Enqueued(jobs, Seal(l + 1))
    BY DEF CommitSeal
  <1>8. jobs' \in [JobKeys -> JobStates] /\ \A k \in JobKeys : IsActive(jobs, k) => IsActive(jobs', k)
    <2>1. Seal(l + 1) \in JobKeys
      BY <1>1, Keys
    <2> QED  BY <1>7, <2>1, Enqueues DEF Kept, Types, IsActive
  <1>9. \A i : Summarised(i) => Summarised(i)'
    BY <1>1, <1>4 DEF Summarised
  <1>10. ASSUME NEW n \in Levels, NEW i \in buffers[n]
         PROVE  i \in buffers'[n] \/ Summarised(i)' \/ i \in overtaken'
    <2>1. CASE n = l
      <3>1. i \in snap \/ Summarised(i) \/ i \in overtaken
        BY <1>1, <1>10, <2>1 DEF Kept, SnapCoversBuffer
      <3>2. i \in snap => Summarised(i)'
        BY <1>4 DEF Summarised
      <3> QED  BY <1>3, <1>9, <3>1, <3>2
    <2>2. CASE n # l
      BY <1>3, <1>10, <2>2
    <2> QED  BY <2>1, <2>2
  <1>11. \A c : InTree(c) => InTree(c)'
    BY <1>3, <1>9, <1>10, Levelled DEF InTree
  <1>12. Types'
    BY <1>2, <1>3, <1>4, <1>6, <1>8 DEF Kept, Types
  <1>13. FreshIsEmpty'
    BY <1>1, <1>4 DEF Kept, FreshIsEmpty
  <1>14. SummariesKept'
    <2>1. s \in buffers'[level'[s]]
      BY <1>3, <1>4
    <2>2. ASSUME NEW x \in SummaryIds \ {s}, level'[x] > 0
          PROVE  x \in buffers'[level'[x]] \/ Summarised(x)' \/ x \in overtaken'
      <3>1. level'[x] = level[x] /\ level[x] \in Levels
        BY <1>4 DEF Kept, Types
      <3>2. x \in buffers[level[x]] \/ Summarised(x) \/ x \in overtaken
        BY <2>2, <3>1 DEF Kept, SummariesKept
      <3> QED  BY <1>3, <1>9, <1>10, <3>1, <3>2
    <2> QED  BY <2>1, <2>2 DEF SummariesKept
  <1>15. ASSUME NEW b \in Actors, task'[b].stage = "model", NEW i \in buffers'[task'[b].level]
         PROVE  i \in task'[b].snap \/ Summarised(i)' \/ i \in overtaken'
    <2>1. task'[b] = task[b] /\ task[b].level \in Levels
      BY <1>5, <1>6, <1>15 DEF Kept, Types, Task
    <2>2. CASE i \in buffers[task[b].level]
      <3>1. i \in task[b].snap \/ Summarised(i) \/ i \in overtaken
        BY <1>15, <2>1, <2>2 DEF Kept, SnapCoversBuffer
      <3> QED  BY <1>3, <1>9, <2>1, <3>1
    <2>3. CASE i \notin buffers[task[b].level]
      <3>1. task[b].level = l + 1 /\ i = s
        BY <1>3, <1>15, <2>1, <2>3
      <3>2. b \in Sealing(l + 1)
        BY <1>15, <2>1, <3>1 DEF Sealing
      <3> QED  BY <1>2, <3>1, <3>2
    <2> QED  BY <2>2, <2>3
  <1>16. SnapCoversBuffer'
    BY <1>15 DEF SnapCoversBuffer
  <1>17. PushesKept'
    <2>1. ASSUME NEW v \in Workers \ stale', NEW d \in Chunks,
                 task'[v].stage \in {"model", "settle"}, task'[v].job = Append(d)
          PROVE  InTree(d)
      <3>1. v \in Actors /\ v \notin stale
        BY <1>2, <2>1 DEF Actors
      <3>2. CASE v = a
        BY <1>1, <1>5, <1>6, <2>1, <3>1, <3>2 DEF Kept, PushesKept
      <3>3. CASE v # a
        BY <1>6, <2>1, <3>1, <3>3 DEF Kept, PushesKept
      <3> QED  BY <3>2, <3>3
    <2> QED  BY <1>11, <2>1 DEF PushesKept
  <1>18. ChunksKept'
    <2>1. \A d \in Chunks : Pursued(d) => Pursued(d)'
      BY <1>2, <1>8, <1>11, Keys DEF Pursued
    <2>2. TreeTakenAway' = TreeTakenAway
      BY <1>2 DEF TreeTakenAway
    <2> QED  BY <1>2, <1>11, <2>1, <2>2 DEF Kept, ChunksKept
  <1> QED  BY <1>12, <1>13, <1>14, <1>16, <1>17, <1>18 DEF Kept

\* Such a step by one actor, whose job is no append once it is past its first transaction.
LEMMA ActorMoves ==
  ASSUME Kept, UNCHANGED <<buffers, children, level, overtaken, reset>>,
         status' \in [Chunks -> Statuses], jobs' \in [JobKeys -> JobStates],
         failed' \in [JobKeys -> Nat],
         NEW a \in Actors, NEW t \in Task, task' = [task EXCEPT ![a] = t],
         t.stage = "model" => t.snap = buffers[t.level],
         a \in Workers /\ t.stage \in {"model", "settle"} => \A c \in Chunks : t.job # Append(c),
         \A c \in Chunks : status'[c] = "buffered" => status[c] = "buffered",
         \A c \in Chunks : status'[c] = "admitted" =>
           \/ IsActive(jobs', Append(c)) \/ failed'[Append(c)] > 0 \/ InTree(c)
           \/ status[c] = "admitted" /\ ~IsActive(jobs, Append(c)) /\ ~(failed[Append(c)] > 0)
  PROVE  Kept'
  <1>1. task' \in [Actors -> Task] /\ task'[a] = t /\ \A b \in Actors \ {a} : task'[b] = task[b]
    BY DEF Kept, Types
  <1>2. stale' = stale /\ TreeTakenAway' = TreeTakenAway
    BY DEF reset, TreeTakenAway
  <1>3. \A b \in Actors : task'[b].stage = "model" =>
          \/ task[b].stage = "model" /\ task'[b].level = task[b].level
             /\ task'[b].snap = task[b].snap
          \/ task'[b].snap = buffers[task'[b].level]
    BY <1>1
  <1>4. \A w \in Workers \ stale', c \in Chunks :
          task'[w].stage \in {"model", "settle"} /\ task'[w].job = Append(c) =>
            w \notin stale /\ task[w].stage \in {"model", "settle"} /\ task[w].job = Append(c)
    BY <1>1, <1>2 DEF Actors
  <1> QED  BY <1>1, <1>2, <1>3, <1>4, TreeAlone

\* Such a step that touches no task.
LEMMA JobsMove ==
  ASSUME Kept, UNCHANGED <<buffers, children, level, overtaken, task, reset>>,
         status' \in [Chunks -> Statuses], jobs' \in [JobKeys -> JobStates],
         failed' \in [JobKeys -> Nat],
         \A c \in Chunks : status'[c] \in {"buffered", "admitted"} => status'[c] = status[c],
         \A c \in Chunks : IsActive(jobs, Append(c)) \/ failed[Append(c)] > 0 =>
           IsActive(jobs', Append(c)) \/ failed'[Append(c)] > 0
  PROVE  Kept'
  <1>1. stale' = stale /\ TreeTakenAway' = TreeTakenAway
    BY DEF reset, TreeTakenAway
  <1>2. task' \in [Actors -> Task]
    BY DEF Kept, Types
  <1>3. /\ \A c \in Chunks : status'[c] = "buffered" => status[c] = "buffered"
        /\ \A c \in Chunks : status'[c] = "admitted" =>
             \/ IsActive(jobs', Append(c)) \/ failed'[Append(c)] > 0
             \/ status[c] = "admitted" /\ ~IsActive(jobs, Append(c)) /\ ~(failed[Append(c)] > 0)
    OBVIOUS
  <1> QED  BY <1>1, <1>2, <1>3, TreeAlone

LEMMA KeptProducers ==
  ASSUME Kept, UNCHANGED reset,
         (\E c \in Chunks : Ingest(c)) \/ SchedulerTick \/ BecomesStale \/ Sweep
  PROVE  Kept'
  <1>t. /\ status \in [Chunks -> Statuses] /\ jobs \in [JobKeys -> JobStates]
        /\ failed \in [JobKeys -> Nat]
    BY DEF Kept, Types
  <1>1. ASSUME NEW c \in Chunks, Ingest(c) PROVE Kept'
    <2>1. status' \in [Chunks -> Statuses]
      BY <1>t, <1>1 DEF Ingest, Statuses
    <2>2. \A d \in Chunks : status'[d] \in {"buffered", "admitted"} => status'[d] = status[d]
      BY <1>t, <1>1 DEF Ingest
    <2>3. jobs' \in [JobKeys -> JobStates] /\ \A k \in JobKeys : IsActive(jobs, k) => IsActive(jobs', k)
      BY <1>t, <1>1, Keys, Enqueues DEF Ingest
    <2>4. UNCHANGED <<buffers, children, level, overtaken, task, failed>>
      BY <1>1 DEF Ingest, tree
    <2> QED  BY <1>t, <2>1, <2>2, <2>3, <2>4, Keys, JobsMove
  <1>2. CASE SchedulerTick
    <2>1. jobs' \in [JobKeys -> JobStates] /\ \A k \in JobKeys : IsActive(jobs, k) => IsActive(jobs', k)
      BY <1>t, <1>2, Keys, Enqueues DEF SchedulerTick
    <2>2. UNCHANGED <<status, buffers, children, level, overtaken, task, failed>>
      BY <1>2 DEF SchedulerTick, tree
    <2> QED  BY <1>t, <2>1, <2>2, Keys, JobsMove
  <1>3. CASE BecomesStale
    BY <1>t, <1>3, JobsMove DEF BecomesStale
  <1>4. CASE Sweep
    <2>1. /\ jobs' \in [JobKeys -> JobStates] /\ failed' \in [JobKeys -> Nat]
          /\ UNCHANGED <<status, buffers, children, level, overtaken, task>>
      BY <1>t, <1>4 DEF Sweep, tree, JobStates
    <2>2. \A k \in JobKeys : IsActive(jobs, k) \/ failed[k] > 0 => IsActive(jobs', k)
      BY <1>4 DEF Sweep, IsActive
    <2> QED  BY <1>t, <2>1, <2>2, Keys, JobsMove
  <1> QED  BY <1>1, <1>2, <1>3, <1>4

LEMMA KeptFlushes == Kept /\ (ManualFlush \/ Flushes) /\ UNCHANGED reset => Kept'
  <1> SUFFICES ASSUME Kept, ManualFlush \/ Flushes, UNCHANGED reset PROVE Kept'
    OBVIOUS
  <1>t. /\ status \in [Chunks -> Statuses] /\ jobs \in [JobKeys -> JobStates]
        /\ failed \in [JobKeys -> Nat] /\ Rpc \in Actors
        /\ task[Rpc].level \in Levels /\ buffers[task[Rpc].level] \in SUBSET Items
    BY DEF Kept, Types, Actors, Task
  <1>1. UNCHANGED <<status, buffers, children, level, overtaken, jobs, failed>>
    BY DEF ManualFlush, Flushes, CascadeReads, ManualFlushFails, tree
  <1>2. PICK t \in Task : /\ task' = [task EXCEPT ![Rpc] = t]
                          /\ t.stage = "model" => t.snap = buffers[t.level]
    <2>1. CASE ManualFlush
      <3>1. At("read", None, 0, {}) \in Task
        BY Levelled DEF At, Task, Stages
      <3> QED  BY <2>1, <3>1 DEF ManualFlush, At
    <2>2. CASE task' = [task EXCEPT ![Rpc] = Idle]
      BY <2>2, Levelled DEF Idle
    <2>3. CASE task' = [task EXCEPT ![Rpc] = At("model", None, task[Rpc].level,
                                              buffers[task[Rpc].level])]
      <3>1. At("model", None, task[Rpc].level, buffers[task[Rpc].level]) \in Task
        BY <1>t DEF At, Task, Stages
      <3> QED  BY <2>3, <3>1 DEF At
    <2> QED  BY <2>1, <2>2, <2>3 DEF Flushes, CascadeReads, ManualFlushFails
  <1> QED  BY <1>t, <1>1, <1>2, ActorsAssumption, ActorMoves

\* A worker that is still the owner of its row.
LEMMA KeptWorkers ==
  ASSUME Kept, NEW w \in Workers, ClaimsAny(w) \/ HandlesAnyway(w) \/ HandlesOwn(w),
         UNCHANGED reset
  PROVE  Kept'
  <1>t. /\ status \in [Chunks -> Statuses] /\ jobs \in [JobKeys -> JobStates]
        /\ failed \in [JobKeys -> Nat] /\ w \in Actors
        /\ task[w] \in Task /\ task \in [Actors -> Task]
    BY DEF Kept, Types, Actors
  <1> DEFINE settled == [task[w] EXCEPT !.stage = "settle"]
  <1>s. settled \in Task /\ settled.stage = "settle" /\ settled.job = task[w].job
    BY <1>t DEF Task, Stages
  <1>1. ASSUME NEW k \in JobKeys, Claim(w, k) PROVE Kept'
    <2>1. At("work", k, 0, {}) \in Task /\ At("work", k, 0, {}).stage = "work"
      BY Levelled DEF At, Task, Stages
    <2>2. /\ jobs' \in [JobKeys -> JobStates] /\ \A n \in JobKeys : IsActive(jobs, n) => IsActive(jobs', n)
          /\ UNCHANGED <<status, buffers, children, level, overtaken, failed>>
      BY <1>t, <1>1 DEF Claim, tree, IsActive, JobStates
    <2> QED  BY <1>t, <1>1, <2>1, <2>2, Keys, ActorMoves DEF Claim
  <1>2. ASSUME NEW c \in Chunks, HandleExtract(w, c) PROVE Kept'
    <2>1. /\ task' = [task EXCEPT ![w] = settled] /\ task[w].job = Extract(c)
          /\ UNCHANGED <<buffers, children, level, overtaken, failed>>
      BY <1>2 DEF HandleExtract, Moved, tree
    <2>2. \A d \in Chunks : settled.job # Append(d)
      BY <1>s, <2>1, Keys
    <2>3. CASE status' = [status EXCEPT ![c] = "admitted"] /\ jobs' = ExtractFollowUp(c)
      <3>1. /\ jobs' \in [JobKeys -> JobStates] /\ IsActive(jobs', Append(c))
            /\ \A n \in JobKeys : IsActive(jobs, n) => IsActive(jobs', n)
        BY <1>t, <2>3, Keys, Enqueues DEF ExtractFollowUp
      <3>2. /\ status' \in [Chunks -> Statuses]
            /\ \A d \in Chunks : d = c \/ status'[d] = status[d]
            /\ status'[c] = "admitted"
        BY <1>t, <2>3 DEF Statuses
      <3>3. \A d \in Chunks : status'[d] = "admitted" =>
              \/ IsActive(jobs', Append(d))
              \/ status[d] = "admitted" /\ ~IsActive(jobs, Append(d)) /\ ~(failed[Append(d)] > 0)
              \/ failed'[Append(d)] > 0
        BY <2>1, <3>1, <3>2, Keys
      <3>4. \A d \in Chunks : status'[d] = "buffered" => status[d] = "buffered"
        BY <3>2
      <3> QED  BY <1>t, <1>s, <2>1, <2>2, <3>1, <3>2, <3>3, <3>4, ActorMoves
    <2>4. CASE status' = [status EXCEPT ![c] = "dropped"] /\ UNCHANGED jobs
      <3>1. /\ status' \in [Chunks -> Statuses]
            /\ \A d \in Chunks : status'[d] \in {"buffered", "admitted"} => status'[d] = status[d]
        BY <1>t, <2>4 DEF Statuses
      <3> QED  BY <1>t, <1>s, <2>1, <2>2, <2>4, <3>1, ActorMoves
    <2> QED  BY <1>2, <2>3, <2>4 DEF HandleExtract
  <1>3. CASE HandleFlushStale(w)
    <2>1. /\ task' = [task EXCEPT ![w] = settled] /\ task[w].job = FlushStale
          /\ UNCHANGED <<status, buffers, children, level, overtaken, failed>>
      BY <1>3 DEF HandleFlushStale, Moved, tree
    <2>2. \A d \in Chunks : settled.job # Append(d)
      BY <1>s, <2>1, Keys
    <2>3. jobs' \in [JobKeys -> JobStates] /\ \A n \in JobKeys : IsActive(jobs, n) => IsActive(jobs', n)
      <3>1. Seal(0) \in JobKeys /\ (jobs' = jobs \/ jobs' = Enqueued(jobs, Seal(0)))
        BY <1>3, Keys, Levelled DEF HandleFlushStale, FlushFollowUps
      <3> QED  BY <1>t, <3>1, Enqueues
    <2> QED  BY <1>t, <1>s, <2>1, <2>2, <2>3, Keys, ActorMoves
  <1>4. ASSUME NEW l \in Levels, HandleSeal(w, l) PROVE Kept'
    <2>1. /\ task[w].job = Seal(l)
          /\ UNCHANGED <<status, buffers, children, level, overtaken, jobs, failed>>
      BY <1>4 DEF HandleSeal, tree
    <2>2. PICK t \in Task : /\ task' = [task EXCEPT ![w] = t] /\ t.job = Seal(l)
                            /\ t.stage = "model" => t.snap = buffers[t.level]
      <3>1. At("model", Seal(l), l, buffers[l]) \in Task
        BY <1>4, Keys DEF At, Task, Stages, Kept, Types
      <3> QED  BY <1>4, <1>s, <2>1, <3>1 DEF HandleSeal, Moved, At
    <2>3. \A d \in Chunks : t.job # Append(d)
      BY <2>2, Keys
    <2> QED  BY <1>t, <2>1, <2>2, <2>3, ActorMoves
  <1>5. ASSUME w \notin stale, Settle(w) PROVE Kept'
    \* The row of an append goes, and its chunk is in the tree.
    <2>1. /\ task[w].stage = "settle" /\ task' = [task EXCEPT ![w] = Idle]
          /\ jobs' = [jobs EXCEPT ![task[w].job] = "none"]
          /\ UNCHANGED <<status, buffers, children, level, overtaken, failed>>
      BY <1>5 DEF Settle, tree
    <2>2. jobs' \in [JobKeys -> JobStates]
      BY <1>t, <2>1 DEF JobStates
    <2>3. \A c \in Chunks : IsActive(jobs, Append(c)) => IsActive(jobs', Append(c)) \/ InTree(c)
      <3>1. ASSUME NEW c \in Chunks, task[w].job = Append(c) PROVE InTree(c)
        BY <1>5, <2>1, <3>1 DEF Kept, PushesKept
      <3>2. ASSUME NEW c \in Chunks, task[w].job # Append(c) PROVE jobs'[Append(c)] = jobs[Append(c)]
        BY <1>t, <2>1, <3>2, Keys
      <3> QED  BY <3>1, <3>2 DEF IsActive
    <2> QED  BY <1>t, <2>1, <2>2, <2>3, Levelled, ActorMoves
  <1>6. CASE Fail(w)
    \* The row goes back to ready, or the key has a failed one.
    <2>1. /\ task' = [task EXCEPT ![w] = Idle]
          /\ UNCHANGED <<status, buffers, children, level, overtaken>>
      BY <1>6 DEF Fail, tree
    <2>2. /\ jobs' \in [JobKeys -> JobStates] /\ failed' \in [JobKeys -> Nat]
          /\ \A k \in JobKeys : IsActive(jobs, k) \/ failed[k] > 0 =>
               IsActive(jobs', k) \/ failed'[k] > 0
      <3>1. CASE jobs' = [jobs EXCEPT ![task[w].job] = "ready"] /\ UNCHANGED failed
        BY <1>t, <3>1 DEF IsActive, JobStates
      <3>2. CASE /\ jobs' = [jobs EXCEPT ![task[w].job] = "none"]
                 /\ failed' = [failed EXCEPT ![task[w].job] = @ + 1]
        <4>1. jobs' \in [JobKeys -> JobStates] /\ failed' \in [JobKeys -> Nat]
          <5>1. jobs' \in [JobKeys -> JobStates]
            BY <1>t, <3>2 DEF JobStates
          <5>2. failed' = [k \in JobKeys |-> IF k = task[w].job THEN failed[k] + 1 ELSE failed[k]]
            BY <1>t, <3>2
          <5>3. \A k \in JobKeys : failed[k] + 1 \in Nat /\ failed[k] \in Nat
            BY <1>t
          <5>4. \A k \in JobKeys : failed'[k] \in Nat
            BY <5>2, <5>3
          <5> QED  BY <5>1, <5>2, <5>4
        <4>2. \A k \in JobKeys : IF k = task[w].job THEN failed'[k] > 0
                                 ELSE jobs'[k] = jobs[k] /\ failed'[k] = failed[k]
          BY <1>t, <3>2
        <4> QED  BY <4>1, <4>2 DEF IsActive
      <3> QED  BY <1>6, <3>1, <3>2 DEF Fail
    <2> QED  BY <1>t, <2>1, <2>2, Keys, Levelled, ActorMoves
  <1> QED  BY <1>1, <1>2, <1>3, <1>4, <1>5, <1>6, KeptAppend
           DEF ClaimsAny, HandlesAnyway, HandlesOwn

LEMMA KeptPipeline == Kept /\ Pipeline /\ UNCHANGED reset => Kept'
  BY KeptProducers, KeptFlushes, KeptWorkers, KeptCommit DEF Pipeline, Commits

\* What a handler returns that lost its row changes no row.
LEMMA KeptStaleEnds ==
  ASSUME Kept, (\E w \in Workers : StaleEnds(w)) \/ StaleFlushEnds
  PROVE  Kept'
  <1>1. PICK a \in Actors : task' = [task EXCEPT ![a] = Idle] /\ stale' = stale \ {a}
    BY DEF StaleEnds, StaleFlushEnds, Actors
  <1>2. UNCHANGED <<status, buffers, children, level, overtaken, jobs, failed, resetting,
                    interrupted>>
    BY DEF StaleEnds, StaleFlushEnds, tree
  <1>3. /\ task' \in [Actors -> Task] /\ task'[a].stage = "idle"
        /\ \A b \in Actors \ {a} : task'[b] = task[b]
    BY <1>1, Levelled DEF Kept, Types
  <1>4. TreeTakenAway' = TreeTakenAway
    BY <1>2 DEF TreeTakenAway
  <1>5. \A b \in Actors : task'[b].stage = "model" => b # a /\ task'[b] = task[b]
    BY <1>3
  <1>6. \A w \in Workers \ stale', c \in Chunks :
          task'[w].stage \in {"model", "settle"} /\ task'[w].job = Append(c) =>
            w \notin stale /\ task[w].stage \in {"model", "settle"} /\ task[w].job = Append(c)
    BY <1>1, <1>3 DEF Actors
  <1> QED  BY <1>2, <1>3, <1>4, <1>5, <1>6, TreeAlone DEF Kept, Types

LEMMA KeptDies == Kept /\ Dies => Kept'
  <1> SUFFICES ASSUME Kept, Dies PROVE Kept'
    OBVIOUS
  <1>1. /\ task' = [a \in Actors |-> Idle]
        /\ UNCHANGED <<status, buffers, children, level, overtaken, failed>>
    BY DEF Dies, Crash, tree
  <1>2. task' \in [Actors -> Task] /\ \A a \in Actors : task'[a].stage = "idle"
    BY <1>1, Levelled
  <1>3. jobs' \in [JobKeys -> JobStates] /\ \A k \in JobKeys : IsActive(jobs, k) => IsActive(jobs', k)
    BY DEF Dies, Crash, Kept, Types, IsActive, JobStates
  <1>4. TreeTakenAway' = TreeTakenAway
    BY DEF Dies, TreeTakenAway
  <1>5. \A w \in Workers : task'[w].stage = "idle"
    BY <1>2 DEF Actors
  <1> QED  BY <1>1, <1>2, <1>3, <1>4, <1>5, Keys, TreeAlone DEF Kept, Types

LEMMA KeptForever == SpecReset => []Kept
  <1>1. Kept /\ [NextReset]_rvars => Kept'
    <2> SUFFICES ASSUME Kept, [NextReset]_rvars PROVE Kept'
      OBVIOUS
    <2>1. CASE UNCHANGED rvars
      BY <2>1, JobsMove DEF rvars, vars, Kept, Types
    <2> QED  BY <2>1, KeptDeleteTree, KeptRequeue, KeptPipeline, KeptStaleEnds, KeptDies
             DEF NextReset
  <1> QED  BY KeptInit, <1>1, PTL DEF SpecReset

\* A reset beside the pipeline strands no chunk of the rebuilt tree: once the second
\* transaction has run, each buffered chunk and each summary waits in its buffer or is in
\* a summary above, unless a seal overtook it, and each admitted chunk is pursued.
THEOREM NothingStrands == SpecReset => []ResetStrandsNothing
  <1>1. Kept => ResetStrandsNothing
    BY DEF Kept, SummariesKept, ChunksKept, ResetStrandsNothing, OnlyOvertakenAreLost,
           AdmittedIsPursued, InTree, Pursued
  <1> QED  BY <1>1, KeptForever, PTL

-----------------------------------------------------------------------------
(* The pipeline uses its queue as KeyQueue says, through resets.           *)

\* A worker that still has its row.
Holds(w) == w \notin stale /\ task[w] # Idle

\* A row that has a worker is running and its worker's alone; a stale worker is busy
\* until it ends; and failed rows are counted.
HandHasRow ==
  \A w \in Workers : Holds(w) =>
    /\ task[w].job \in JobKeys
    /\ task[w].job # FlushStale =>
         /\ jobs[task[w].job] = "running"
         /\ \A v \in Workers : Holds(v) /\ task[v].job = task[w].job => v = w
StaleIsBusy == \A w \in Workers : w \in stale => task[w] # Idle
FailuresCounted ==
  failures \in 0..MaxFailures /\ \A k \in JobKeys : failed[k] \in 0..failures

InHand == HandHasRow /\ StaleIsBusy /\ FailuresCounted

\* The workers keep what they have in hand, and rows only come in.
HandsKept ==
  \A w \in Workers : /\ Holds(w)' <=> Holds(w)
                     /\ Holds(w) => task'[w].job = task[w].job
                     /\ w \in stale' => task'[w] # Idle
RowsComeIn ==
  /\ jobs' \in [JobKeys -> JobStates]
  /\ \A k \in JobKeys : jobs'[k] = jobs[k] \/ (jobs[k] = "none" /\ jobs'[k] = "ready")

LEMMA RowsEnter ==
  ASSUME InHand, HandsKept, RowsComeIn, failed' = failed, failures' = failures
  PROVE  ResetView!Enqueue /\ InHand'
  <1>1. InHand'
    BY DEF InHand, HandHasRow, StaleIsBusy, FailuresCounted, HandsKept, RowsComeIn
  <1>2. \A w \in Workers, k \in KeyedJobs :
          (w \notin stale /\ HasInHand(w, k))' <=> w \notin stale /\ HasInHand(w, k)
    BY DEF HandsKept, Holds, HasInHand
  <1>3. [k \in KeyedJobs |-> jobs'[k]] \in [KeyedJobs -> ResetView!Status]
    BY DEF RowsComeIn, KeyedJobs, JobStates, ResetView!Status
  <1>4. \A k \in KeyedJobs : ResetView!MayEnter(k)
    BY DEF RowsComeIn, KeyedJobs, ResetView!MayEnter
  <1> QED  BY <1>1, <1>2, <1>3, <1>4 DEF ResetView!Enqueue

LEMMA OneRowEnters ==
  ASSUME Types, NEW k \in JobKeys, jobs' = jobs \/ jobs' = Enqueued(jobs, k)
  PROVE  RowsComeIn
  BY DEF Types, JobStates, Enqueued, IsActive, RowsComeIn

\* The task of a busy actor moves to another stage of the same job.
LEMMA SameJob ==
  ASSUME InHand, Types, NEW a \in Actors, NEW t, task' = [task EXCEPT ![a] = t], t # Idle,
         a \in Workers => task[a] # Idle /\ t.job = task[a].job, stale' = stale
  PROVE  HandsKept
  <1>1. task'[a] = t /\ \A b \in Actors \ {a} : task'[b] = task[b]
    BY DEF Types
  <1> QED  BY <1>1 DEF InHand, StaleIsBusy, HandsKept, Holds, Actors

LEMMA ReturnKeepsHands ==
  ASSUME InHand, Types, NEW w \in Workers, task' = Moved(w, "settle"), task[w] # Idle,
         stale' = stale
  PROVE  HandsKept
  <1> DEFINE t == [task[w] EXCEPT !.stage = "settle"]
  <1>1. w \in Actors /\ task[w] \in Task
    BY DEF Types, Actors
  <1>2. task' = [task EXCEPT ![w] = t] /\ t.job = task[w].job /\ t.stage = "settle"
    BY <1>1 DEF Moved, Task
  <1>3. t # Idle
    BY <1>2, Levelled
  <1> HIDE DEF t
  <1> QED  BY <1>1, <1>2, <1>3, SameJob

\* A claim.
LEMMA ClaimTakes ==
  ASSUME InHand, Types, NEW w \in Workers, NEW k \in JobKeys, Claim(w, k), stale' = stale
  PROVE  ResetView!Claim(w) /\ InHand'
  <1>1. /\ task[w] = Idle /\ jobs[k] = "ready" /\ jobs'[k] = "running" /\ failed' = failed
        /\ failures' = failures
        /\ \A n \in JobKeys \ {k} : jobs'[n] = jobs[n]
        /\ task'[w] = At("work", k, 0, {}) /\ \A v \in Workers \ {w} : task'[v] = task[v]
    BY DEF Claim, Types, Actors, bounds
  <1>2. task'[w] # Idle /\ task'[w].job = k /\ w \notin stale
    BY <1>1 DEF At, Idle, InHand, StaleIsBusy
  <1>3. \A v \in Workers : Holds(v) /\ task[v].job = k => k = FlushStale
    BY <1>1 DEF InHand, HandHasRow
  <1>4. InHand'
    BY <1>1, <1>2, <1>3 DEF InHand, HandHasRow, StaleIsBusy, FailuresCounted, Holds
  <1> DEFINE taken == {n \in KeyedJobs : n = k}
  <1>5. taken \in SUBSET {n \in KeyedJobs : [m \in KeyedJobs |-> jobs[m]][n] = "ready"}
    BY <1>1
  <1>6. [n \in KeyedJobs |-> jobs'[n]] =
          [n \in KeyedJobs |-> IF n \in taken THEN "running" ELSE [m \in KeyedJobs |-> jobs[m]][n]]
    BY <1>1 DEF KeyedJobs
  <1>7. ASSUME NEW v \in Workers
        PROVE  {n \in KeyedJobs : v \notin stale' /\ HasInHand(v, n)'} =
                 IF v = w THEN {n \in KeyedJobs : v \notin stale /\ HasInHand(v, n)} \cup taken
                 ELSE {n \in KeyedJobs : v \notin stale /\ HasInHand(v, n)} \ taken
    BY <1>1, <1>2, <1>3 DEF HasInHand, KeyedJobs, Holds
  <1>8. [v \in Workers |-> {n \in KeyedJobs : v \notin stale' /\ HasInHand(v, n)'}] =
          [v \in Workers |->
            IF v = w
              THEN [u \in Workers |-> {n \in KeyedJobs : u \notin stale /\ HasInHand(u, n)}][v]
                     \cup taken
              ELSE [u \in Workers |-> {n \in KeyedJobs : u \notin stale /\ HasInHand(u, n)}][v]
                     \ taken]
    BY <1>7
  <1>9. failed' = failed
    BY <1>1
  <1> HIDE DEF taken
  <1>10. ResetView!Claim(w)
    BY ONLY <1>5, <1>6, <1>8, <1>9 DEF ResetView!Claim
  <1> QED  BY <1>4, <1>10

\* A worker lets go of its job, done or not.
LEMMA LetsGo ==
  ASSUME HandHasRow, StaleIsBusy, Types, NEW w \in Workers, Holds(w), stale' = stale,
         task' = [task EXCEPT ![w] = Idle],
         NEW s \in {"none", "ready"}, jobs' = [jobs EXCEPT ![task[w].job] = s]
  PROVE  /\ HandHasRow' /\ StaleIsBusy'
         /\ \A x \in KeyedJobs : task[w].job = x =>
              /\ ResetView!LetGo(w, x)
              /\ [k \in KeyedJobs |-> jobs'[k]] = [[k \in KeyedJobs |-> jobs[k]] EXCEPT ![x] = s]
         /\ task[w].job \notin KeyedJobs =>
              /\ \A v \in Workers, k \in KeyedJobs : HasInHand(v, k)' <=> HasInHand(v, k)
              /\ \A k \in KeyedJobs : jobs'[k] = jobs[k]
  <1>1. /\ task'[w] = Idle /\ \A v \in Workers \ {w} : task'[v] = task[v]
        /\ \A k \in JobKeys \ {task[w].job} : jobs'[k] = jobs[k]
        /\ w \notin stale
    BY DEF Types, Actors, Holds
  <1>2. \A v \in Workers \ {w} :
          Holds(v) /\ task[v].job = task[w].job => task[v].job = FlushStale
    BY DEF HandHasRow
  <1>3. HandHasRow' /\ StaleIsBusy'
    BY <1>1, <1>2 DEF HandHasRow, StaleIsBusy, Holds
  <1>4. ASSUME NEW x \in KeyedJobs, task[w].job = x
        PROVE  /\ ResetView!LetGo(w, x)
               /\ [k \in KeyedJobs |-> jobs'[k]] = [[k \in KeyedJobs |-> jobs[k]] EXCEPT ![x] = s]
    <2>1. \A v \in Workers : {k \in KeyedJobs : v \notin stale' /\ HasInHand(v, k)'} =
            IF v = w THEN {k \in KeyedJobs : v \notin stale /\ HasInHand(v, k)} \ {x}
            ELSE {k \in KeyedJobs : v \notin stale /\ HasInHand(v, k)}
      BY <1>1, <1>4 DEF HasInHand
    <2>2. x \in {k \in KeyedJobs : w \notin stale /\ HasInHand(w, k)}
      BY <1>4 DEF HasInHand, Holds
    <2>3. ResetView!LetGo(w, x)
      BY <2>1, <2>2 DEF ResetView!LetGo
    <2>4. jobs \in [JobKeys -> JobStates] /\ x \in JobKeys
      BY DEF Types, KeyedJobs
    <2> QED  BY <1>4, <2>3, <2>4 DEF KeyedJobs
  <1>5. ASSUME task[w].job \notin KeyedJobs
        PROVE  /\ \A v \in Workers, k \in KeyedJobs : HasInHand(v, k)' <=> HasInHand(v, k)
               /\ \A k \in KeyedJobs : jobs'[k] = jobs[k]
    BY <1>1, <1>5 DEF HasInHand, KeyedJobs
  <1> QED  BY <1>3, <1>4, <1>5

\* A step that the keyed jobs do not show.
LEMMA HandsUnseen ==
  ASSUME stale' = stale,
         \A v \in Workers, k \in KeyedJobs : HasInHand(v, k)' <=> HasInHand(v, k),
         \A k \in KeyedJobs : jobs'[k] = jobs[k] /\ failed'[k] = failed[k]
  PROVE  UNCHANGED ResetView!vars
  <1>1. [w \in Workers |-> {k \in KeyedJobs : w \notin stale' /\ HasInHand(w, k)'}] =
          [w \in Workers |-> {k \in KeyedJobs : w \notin stale /\ HasInHand(w, k)}]
    OBVIOUS
  <1>2. [k \in KeyedJobs |-> jobs'[k]] = [k \in KeyedJobs |-> jobs[k]]
    OBVIOUS
  <1>3. [k \in KeyedJobs |-> 1..failed'[k]] = [k \in KeyedJobs |-> 1..failed[k]]
    OBVIOUS
  <1> QED  BY <1>1, <1>2, <1>3 DEF ResetView!vars

\* An owner's settlement of a keyed job.
LEMMA OwnerSettles ==
  ASSUME NEW w \in Workers, NEW k \in KeyedJobs,
         ResetView!Finish(w, k) \/ ResetView!PutBack(w, k) \/ ResetView!Fail(w, k)
  PROVE  ResetView!Works
  BY Zenon DEF ResetView!Works

LEMMA SettleFinishes ==
  ASSUME InHand, Types, NEW w \in Workers \ stale, Settle(w), stale' = stale
  PROVE  (ResetView!Works \/ UNCHANGED ResetView!vars) /\ InHand'
  <1>1. Holds(w) /\ task' = [task EXCEPT ![w] = Idle] /\ failed' = failed /\ failures' = failures
        /\ jobs' = [jobs EXCEPT ![task[w].job] = "none"]
    BY DEF Settle, Idle, Holds, bounds
  <1>2. InHand'
    BY <1>1, LetsGo DEF InHand, FailuresCounted
  <1>3. CASE task[w].job \in KeyedJobs
    <2>1. PICK x \in KeyedJobs : task[w].job = x
      BY <1>3
    <2>2. ResetView!Finish(w, x)
      BY <1>1, <2>1, LetsGo DEF InHand, ResetView!Finish
    <2> QED  BY <1>2, <2>2, OwnerSettles
  <1>4. CASE task[w].job \notin KeyedJobs
    <2>1. /\ \A v \in Workers, k \in KeyedJobs : HasInHand(v, k)' <=> HasInHand(v, k)
          /\ \A k \in KeyedJobs : jobs'[k] = jobs[k]
      BY <1>1, <1>4, LetsGo DEF InHand
    <2> QED  BY <1>1, <1>2, <2>1, HandsUnseen
  <1> QED  BY <1>3, <1>4

LEMMA FailPutsBack ==
  ASSUME InHand, Types, NEW w \in Workers \ stale, Fail(w), stale' = stale
  PROVE  (ResetView!Works \/ UNCHANGED ResetView!vars) /\ InHand'
  <1>1. Holds(w) /\ task' = [task EXCEPT ![w] = Idle]
        /\ failures < MaxFailures /\ failures' = failures + 1
    BY DEF Fail, Idle, Holds
  <1>c. /\ failures \in Nat /\ MaxFailures \in Nat /\ failures' \in 0..MaxFailures
        /\ \A k \in JobKeys : failed[k] \in Nat /\ failed[k] <= failures
    BY <1>1, BoundsAreNat DEF InHand, FailuresCounted
  <1>2. CASE jobs' = [jobs EXCEPT ![task[w].job] = "ready"] /\ failed' = failed
    <2>1. InHand'
      <3>1. FailuresCounted'
        BY <1>1, <1>2, <1>c DEF FailuresCounted
      <3> QED  BY <1>1, <1>2, <3>1, LetsGo DEF InHand
    <2>2. CASE task[w].job \in KeyedJobs
      <3>1. PICK x \in KeyedJobs : task[w].job = x
        BY <2>2
      <3>2. ResetView!PutBack(w, x)
        BY <1>1, <1>2, <3>1, LetsGo DEF InHand, ResetView!PutBack
      <3> QED  BY <2>1, <3>2, OwnerSettles
    <2>3. CASE task[w].job \notin KeyedJobs
      <3>1. /\ \A v \in Workers, k \in KeyedJobs : HasInHand(v, k)' <=> HasInHand(v, k)
            /\ \A k \in KeyedJobs : jobs'[k] = jobs[k]
        BY <1>1, <1>2, <2>3, LetsGo DEF InHand
      <3> QED  BY <1>2, <2>1, <3>1, HandsUnseen
    <2> QED  BY <2>2, <2>3
  <1>3. CASE /\ jobs' = [jobs EXCEPT ![task[w].job] = "none"]
             /\ failed' = [failed EXCEPT ![task[w].job] = failed[task[w].job] + 1]
    <2>1. /\ \A k \in JobKeys \ {task[w].job} : failed'[k] = failed[k]
          /\ task[w].job \in JobKeys /\ failed'[task[w].job] = failed[task[w].job] + 1
      BY <1>1, <1>3 DEF Types, InHand, HandHasRow
    <2>2. InHand'
      <3>1. FailuresCounted'
        BY <1>1, <1>c, <2>1 DEF FailuresCounted
      <3> QED  BY <1>1, <1>3, <3>1, LetsGo DEF InHand
    <2>3. CASE task[w].job \in KeyedJobs
      <3>0. PICK x \in KeyedJobs : task[w].job = x
        BY <2>3
      <3> DEFINE i == failed[x] + 1
                 rows == [k \in KeyedJobs |-> 1..failed[k]]
      <3>1. failed[x] \in Nat /\ failed'[x] = i /\ i \in 1..MaxFailures
            /\ 1..i = 1..failed[x] \cup {i} /\ i \notin 1..failed[x]
        <4>1. x \in JobKeys /\ failed[x] \in Nat /\ failed[x] <= failures /\ failed'[x] = i
          BY <1>c, <2>1, <3>0
        <4> QED  BY <1>1, <1>c, <4>1
      <3>2. [k \in KeyedJobs |-> 1..failed'[k]] = [rows EXCEPT ![x] = rows[x] \cup {i}]
        BY <2>1, <3>0, <3>1 DEF KeyedJobs
      <3>3. i \in (1..MaxFailures) \ (rows[x] \cup [k \in KeyedJobs |-> {}][x])
        BY <3>1
      <3>4. ResetView!LetGo(w, x)
            /\ [k \in KeyedJobs |-> jobs'[k]] =
                 [[k \in KeyedJobs |-> jobs[k]] EXCEPT ![x] = "none"]
        BY <1>1, <1>3, <3>0, LetsGo DEF InHand
      <3> HIDE DEF i
      <3>5. ResetView!Fail(w, x)
        BY <3>2, <3>3, <3>4 DEF ResetView!Fail
      <3> QED  BY <2>2, <3>5, OwnerSettles
    <2>4. CASE task[w].job \notin KeyedJobs
      <3>1. /\ \A v \in Workers, k \in KeyedJobs : HasInHand(v, k)' <=> HasInHand(v, k)
            /\ \A k \in KeyedJobs : jobs'[k] = jobs[k]
        BY <1>1, <1>3, <2>4, LetsGo DEF InHand
      <3>2. \A k \in KeyedJobs : failed'[k] = failed[k]
        BY <2>1, <2>4 DEF KeyedJobs
      <3> QED  BY <2>2, <3>1, <3>2, HandsUnseen
    <2> QED  BY <2>3, <2>4
  <1> QED  BY <1>2, <1>3 DEF Fail

LEMMA SweepRequeues ==
  ASSUME InHand, Types, Sweep, stale' = stale
  PROVE  ResetView!Requeue(FALSE) /\ InHand'
  <1> DEFINE swept == {k \in JobKeys : failed[k] > 0}
  <1>1. /\ \A k \in swept \ {FlushStale} : failed[k] = 1 /\ jobs[k] = "none"
        /\ jobs' = [k \in JobKeys |-> IF k \in swept THEN "ready" ELSE jobs[k]]
        /\ failed' = [k \in JobKeys |-> 0] /\ task' = task /\ failures' = failures
    BY DEF Sweep, IsActive, bounds
  <1>2. InHand'
    BY <1>1, BoundsAreNat DEF InHand, HandHasRow, StaleIsBusy, FailuresCounted, Holds
  <1>3. \A k \in KeyedJobs : k \in JobKeys /\ failed[k] \in Nat /\ (k \in swept <=> failed[k] > 0)
    BY DEF KeyedJobs, Types
  <1>4. \A k \in KeyedJobs : 1..failed[k] # {} <=> k \in swept
    BY <1>3
  <1>5. \A k \in KeyedJobs : k \in swept =>
          jobs[k] = "none" /\ jobs'[k] = "ready" /\ \A i, j \in 1..failed[k] : i = j
    BY <1>1, <1>3 DEF KeyedJobs
  <1>6. \A k \in KeyedJobs : k \notin swept => jobs'[k] = jobs[k]
    BY <1>1, <1>3
  <1>7. [k \in KeyedJobs |-> jobs'[k]] \in [KeyedJobs -> ResetView!Status]
    BY <1>1, <1>3 DEF Types, JobStates, ResetView!Status
  <1>8. [k \in KeyedJobs |-> 1..failed'[k]] = ResetView!NoneFailed
    BY <1>1, <1>3 DEF ResetView!NoneFailed
  <1>9. \A w \in Workers, k \in KeyedJobs : HasInHand(w, k)' <=> HasInHand(w, k)
    BY <1>1 DEF HasInHand
  <1> HIDE DEF swept
  <1>10. ResetView!Requeue(FALSE)
    BY <1>4, <1>5, <1>6, <1>7, <1>8, <1>9 DEF ResetView!Requeue, ResetView!MayEnter
  <1> QED  BY <1>2, <1>10

\* No worker holds a row after a death.
LEMMA DeathRestarts ==
  ASSUME InHand, Types, Dies
  PROVE  ResetView!Restart /\ InHand'
  <1>1. (\A w \in Workers : task'[w] = Idle) /\ stale' = {} /\ failed' = failed
        /\ failures' = failures
    BY DEF Dies, Crash, Actors
  <1>2. PICK over \in SUBSET {k \in JobKeys : jobs[k] = "running"} :
          jobs' = [k \in JobKeys |-> IF k \in over THEN "ready" ELSE jobs[k]]
    BY DEF Dies, Crash
  <1> DEFINE keyed == over \cap KeyedJobs
  <1>3. keyed \in SUBSET {k \in KeyedJobs : [m \in KeyedJobs |-> jobs[m]][k] = "running"}
    OBVIOUS
  <1>4. [k \in KeyedJobs |-> jobs'[k]] =
          [k \in KeyedJobs |-> IF k \in keyed THEN "ready" ELSE [m \in KeyedJobs |-> jobs[m]][k]]
    BY <1>2 DEF KeyedJobs
  <1>5. \A w \in Workers : {k \in KeyedJobs : w \notin stale' /\ HasInHand(w, k)'} = {}
    BY <1>1 DEF HasInHand
  <1>6. ResetView!Restart
    BY <1>1, <1>3, <1>4, <1>5 DEF ResetView!Restart, ResetView!NoneOwned
  <1> QED  BY <1>1, <1>6 DEF InHand, HandHasRow, StaleIsBusy, FailuresCounted, Holds

\* Nor after the first transaction of a reset.
LEMMA DeletionWipes ==
  ASSUME InHand, Types, DeleteTree
  PROVE  ResetView!Wipe /\ InHand'
  <1>1. /\ jobs' = [k \in JobKeys |-> "none"] /\ failed' = [k \in JobKeys |-> 0]
        /\ failures' = failures
        /\ stale' = {a \in Actors : task[a] # Idle}
        /\ task' = [a \in Actors |-> Orphaned(task[a])]
    BY DEF DeleteTree, DeletedJobs, bounds
  <1>2. \A w \in Workers : w \notin stale' => task'[w] = Idle
    BY <1>1, Levelled DEF Actors, Orphaned
  <1>3. StaleIsBusy'
    <2>1. ASSUME NEW w \in Workers, w \in stale' PROVE task'[w] # Idle
      <3>1. w \in Actors /\ task[w] # Idle /\ task[w] \in Task /\ task'[w] = Orphaned(task[w])
        BY <1>1, <2>1 DEF Types, Actors
      <3>2. CASE task[w].stage = "model"
        <4>1. task'[w].stage = "orphan"
          BY <3>1, <3>2 DEF Orphaned, Task
        <4> QED  BY <4>1, Levelled
      <3>3. CASE task[w].stage # "model"
        BY <3>1, <3>3 DEF Orphaned
      <3> QED  BY <3>2, <3>3
    <2> QED  BY <2>1 DEF StaleIsBusy
  <1>4. InHand'
    BY <1>1, <1>2, <1>3 DEF InHand, HandHasRow, FailuresCounted, Holds
  <1>5. \A w \in Workers : {k \in KeyedJobs : w \notin stale' /\ HasInHand(w, k)'} = {}
    BY <1>2 DEF HasInHand
  <1>6. /\ [k \in KeyedJobs |-> jobs'[k]] = [k \in KeyedJobs |-> "none"]
        /\ [k \in KeyedJobs |-> 1..failed'[k]] = [k \in KeyedJobs |-> {}]
    BY <1>1 DEF KeyedJobs
  <1>7. ResetView!Wipe
    BY <1>5, <1>6 DEF ResetView!Wipe, ResetView!NoneOwned, ResetView!NoneFailed
  <1> QED  BY <1>4, <1>7

LEMMA Enters ==
  ASSUME InHand, HandsKept, RowsComeIn, failed' = failed, failures' = failures
  PROVE  (ResetView!Works \/ UNCHANGED ResetView!vars) /\ InHand'
  BY RowsEnter DEF ResetView!Works

\* The pipeline's steps, with and without a row.
LEMMA PipelineUses ==
  ASSUME InHand, Types, Pipeline, UNCHANGED reset
  PROVE  (ResetView!Works \/ UNCHANGED ResetView!vars) /\ InHand'
  <1> DEFINE Goal == (ResetView!Works \/ UNCHANGED ResetView!vars) /\ InHand'
  <1> SUFFICES Goal
    OBVIOUS
  <1>1. ASSUME HandsKept, RowsComeIn, failed' = failed, failures' = failures PROVE Goal
    BY <1>1, Enters
  <1> HIDE DEF Goal
  <1>s. stale' = stale
    BY DEF reset
  <1>2. ASSUME \A w \in Workers : task'[w] = task[w] PROVE HandsKept
    BY <1>2, <1>s DEF HandsKept, Holds, InHand, StaleIsBusy
  <1>3. ASSUME UNCHANGED jobs PROVE RowsComeIn
    BY <1>3 DEF RowsComeIn, Types
  <1>4. ASSUME NEW c \in Chunks, Ingest(c) PROVE Goal
    BY <1>1, <1>2, <1>4, Keys, OneRowEnters DEF Ingest, bounds
  <1>5. CASE SchedulerTick
    BY <1>1, <1>2, <1>5, Keys, OneRowEnters DEF SchedulerTick, bounds
  <1>6. CASE BecomesStale
    BY <1>1, <1>2, <1>3, <1>6 DEF BecomesStale, bounds
  <1>7. CASE Sweep
    BY <1>7, <1>s, SweepRequeues DEF Goal, ResetView!Works
  <1>8. CASE ManualFlush \/ Flushes
    <2>1. \A w \in Workers : task'[w] = task[w]
      BY <1>8, ActorsAssumption
         DEF ManualFlush, Flushes, CascadeReads, ManualFlushFails, Types, Actors
    <2>2. UNCHANGED <<jobs, failed, failures>>
      BY <1>8 DEF ManualFlush, Flushes, CascadeReads, ManualFlushFails, bounds
    <2> QED  BY <1>1, <1>2, <1>3, <2>1, <2>2
  <1>9. ASSUME NEW w \in Workers, ClaimsAny(w) PROVE Goal
    BY <1>9, <1>s, ClaimTakes DEF ClaimsAny, Goal, ResetView!Works
  <1>10. ASSUME NEW w \in Workers, NEW c \in Chunks, HandleExtract(w, c) PROVE Goal
    <2>1. HandsKept
      BY <1>10, <1>s, Levelled, ReturnKeepsHands DEF HandleExtract
    <2>2. jobs' = jobs \/ jobs' = Enqueued(jobs, Append(c))
      BY <1>10 DEF HandleExtract, ExtractFollowUp
    <2>3. failed' = failed /\ failures' = failures
      BY <1>10 DEF HandleExtract, bounds
    <2> QED  BY <1>1, <2>1, <2>2, <2>3, Keys, OneRowEnters
  <1>11. ASSUME NEW w \in Workers, NEW c \in Chunks, HandleAppend(w, c) PROVE Goal
    <2>1. HandsKept
      BY <1>11, <1>s, Levelled, ReturnKeepsHands DEF HandleAppend
    <2>2. jobs' = jobs \/ jobs' = Enqueued(jobs, Seal(0))
      BY <1>11 DEF HandleAppend, SealFollowUp
    <2>3. failed' = failed /\ failures' = failures
      BY <1>11 DEF HandleAppend, bounds
    <2> QED  BY <1>1, <2>1, <2>2, <2>3, Keys, Levelled, OneRowEnters
  <1>12. ASSUME NEW w \in Workers, HandleFlushStale(w) PROVE Goal
    <2>1. HandsKept
      BY <1>12, <1>s, Levelled, ReturnKeepsHands DEF HandleFlushStale
    <2>2. jobs' = jobs \/ jobs' = Enqueued(jobs, Seal(0))
      BY <1>12 DEF HandleFlushStale, FlushFollowUps
    <2>3. failed' = failed /\ failures' = failures
      BY <1>12 DEF HandleFlushStale, bounds
    <2> QED  BY <1>1, <2>1, <2>2, <2>3, Keys, Levelled, OneRowEnters
  <1>13. ASSUME NEW w \in Workers, NEW l \in Levels, HandleSeal(w, l) PROVE Goal
    <2>1. /\ task[w] # Idle /\ task[w].job = Seal(l)
          /\ UNCHANGED <<jobs, failed, failures>>
      BY <1>13, Levelled DEF HandleSeal, bounds
    <2>2. HandsKept
      <3>1. CASE task' = Moved(w, "settle")
        BY <1>s, <2>1, <3>1, ReturnKeepsHands
      <3>2. CASE task' = [task EXCEPT ![w] = At("model", Seal(l), l, buffers[l])]
        <4> DEFINE t == At("model", Seal(l), l, buffers[l])
        <4>1. t.job = Seal(l) /\ t.stage = "model"
          BY DEF At
        <4>2. t # Idle
          BY <4>1, Levelled
        <4> HIDE DEF t
        <4> QED  BY <1>s, <2>1, <3>2, <4>1, <4>2, SameJob DEF t, Actors
      <3> QED  BY <1>13, <3>1, <3>2 DEF HandleSeal
    <2> QED  BY <1>1, <1>3, <2>1, <2>2
  <1>14. ASSUME NEW w \in Workers \ stale, Settle(w) \/ Fail(w) PROVE Goal
    BY <1>14, <1>s, SettleFinishes, FailPutsBack DEF Goal
  <1>15. ASSUME NEW a \in Actors, NEW s \in SummaryIds, CommitSeal(a, s) PROVE Goal
    <2>1. /\ task[a].stage = "model" /\ task[a].level \in Levels /\ task[a].level < Top
          /\ UNCHANGED <<failed, failures>>
      BY <1>15 DEF CommitSeal, Types, Task, bounds
    <2>2. Seal(task[a].level + 1) \in JobKeys
      BY <2>1, FanoutAssumption DEF JobKeys, Levels
    <2>3. CASE a = Rpc
      <3>1. UNCHANGED jobs /\ \A w \in Workers : task'[w] = task[w]
        BY <1>15, <2>3, ActorsAssumption DEF CommitSeal, Types, Actors
      <3> QED  BY <1>1, <1>2, <1>3, <2>1, <3>1
    <2>4. CASE a # Rpc
      <3>1. a \in Workers /\ task' = Moved(a, "settle")
            /\ (jobs' = jobs \/ jobs' = Enqueued(jobs, Seal(task[a].level + 1)))
        BY <1>15, <2>4 DEF CommitSeal, Actors
      <3>2. HandsKept
        BY <1>s, <2>1, <3>1, Levelled, ReturnKeepsHands
      <3>3. RowsComeIn
        BY <2>2, <3>1, OneRowEnters
      <3> QED  BY <1>1, <2>1, <3>2, <3>3
    <2> QED  BY <2>3, <2>4
  <1> QED  BY <1>4, <1>5, <1>6, <1>7, <1>8, <1>9, <1>10, <1>11, <1>12, <1>13, <1>14, <1>15
           DEF Pipeline, HandlesAnyway, HandlesOwn, Commits

\* A step of the reset, or of a worker that lost its row.
LEMMA ResetUses ==
  ASSUME InHand, Types,
         RequeueChunks \/ (\E w \in Workers : StaleEnds(w)) \/ StaleFlushEnds \/ UNCHANGED rvars
  PROVE  (ResetView!Works \/ UNCHANGED ResetView!vars) /\ InHand'
  <1>1. failed' = failed /\ failures' = failures
    BY DEF RequeueChunks, StaleEnds, StaleFlushEnds, rvars, vars, bounds
  <1>2. RowsComeIn
    <2>1. CASE RequeueChunks
      BY <2>1 DEF RequeueChunks, Types, JobStates, IsActive, RowsComeIn
    <2>2. CASE ~RequeueChunks
      BY <2>2 DEF StaleEnds, StaleFlushEnds, rvars, vars, RowsComeIn, Types
    <2> QED  BY <2>1, <2>2
  <1>3. HandsKept
    <2>1. CASE RequeueChunks \/ UNCHANGED rvars
      <3>1. UNCHANGED <<task, stale>>
        BY <2>1 DEF RequeueChunks, rvars, vars, reset
      <3> QED  BY <3>1 DEF HandsKept, Holds, InHand, StaleIsBusy
    <2>2. ASSUME NEW a \in Actors, a \in stale, task' = [task EXCEPT ![a] = Idle],
                 stale' = stale \ {a}
          PROVE  HandsKept
      <3>1. task'[a] = Idle /\ \A b \in Actors \ {a} : task'[b] = task[b]
        BY <2>2 DEF Types
      <3> QED  BY <2>2, <3>1 DEF HandsKept, Holds, InHand, StaleIsBusy, Actors
    <2> QED  BY <2>1, <2>2 DEF StaleEnds, StaleFlushEnds, Actors
  <1> QED  BY <1>1, <1>2, <1>3, Enters

\* The jobs beside resets move as KeyQueue says: a worker that lost its row settles none,
\* whatever follow-ups it still enqueues.
THEOREM ResetsUseKeyQueue == SpecReset => ResetUsesKeyQueue
  <1>1. InitReset => ResetView!Init /\ InHand
    <2> SUFFICES ASSUME InitReset PROVE ResetView!Init /\ InHand
      OBVIOUS
    <2>1. /\ jobs = [k \in JobKeys |-> "none"] /\ failed = [k \in JobKeys |-> 0]
          /\ (\A w \in Workers : task[w] = Idle) /\ stale = {} /\ failures = 0
      BY DEF InitReset, Init, Actors
    <2>2. InHand
      BY <2>1, BoundsAreNat DEF InHand, HandHasRow, StaleIsBusy, FailuresCounted, Holds
    <2>3. [k \in KeyedJobs |-> jobs[k]] = [k \in KeyedJobs |-> "none"]
      BY <2>1 DEF KeyedJobs
    <2>4. [k \in KeyedJobs |-> 1..failed[k]] = [k \in KeyedJobs |-> {}]
      BY <2>1 DEF KeyedJobs
    <2>5. \A w \in Workers : {k \in KeyedJobs : w \notin stale /\ HasInHand(w, k)} = {}
      BY <2>1 DEF HasInHand
    <2> QED  BY <2>2, <2>3, <2>4, <2>5
             DEF ResetView!Init, ResetView!NoneOwned, ResetView!NoneFailed
  <1>2. Kept /\ InHand /\ [NextReset]_rvars => [ResetView!Works]_(ResetView!vars) /\ InHand'
    <2> SUFFICES ASSUME Kept, InHand, [NextReset]_rvars
                 PROVE  (ResetView!Works \/ UNCHANGED ResetView!vars) /\ InHand'
      OBVIOUS
    <2>0. Types
      BY DEF Kept
    <2>1. CASE DeleteTree
      BY <2>0, <2>1, DeletionWipes DEF ResetView!Works
    <2>2. CASE Pipeline /\ UNCHANGED reset
      BY <2>0, <2>2, PipelineUses
    <2>3. CASE Dies
      BY <2>0, <2>3, DeathRestarts DEF ResetView!Works
    <2>4. CASE ~DeleteTree /\ ~(Pipeline /\ UNCHANGED reset) /\ ~Dies
      BY <2>0, <2>4, ResetUses DEF NextReset
    <2> QED  BY <2>1, <2>2, <2>3, <2>4
  <1> QED  BY KeptInit, KeptForever, <1>1, <1>2, PTL DEF SpecReset, ResetUsesKeyQueue, ResetView!SteadySpec
=============================================================================
