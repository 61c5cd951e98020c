-------------------------- MODULE DocSubtreeProofs --------------------------
(* Proofs about DocSubtree, for every set of pages, revisions, batches,     *)
(* workers and ids, and any number of failures and crashes.                 *)
EXTENDS DocSubtree, FiniteSetTheorems, TLAPS

\* Summaries of a whole revision.
Complete == {n \in Written : tag[n] \in Revisions /\ under[n] = Body(tag[n])}

\* A revision of one batch.
Single(r) == \E b : Batches[r] = {b}

UnderOf(S) == UNION {under[m] : m \in S}

Tagged(S, r) == \A m \in S : m \in Written /\ tag[m] = r

\* What a summary is made of: in the merge tier, of whole revisions; in a page, of a
\* batch or of summaries of the same revision, with every chunk in one of level 1.
SummaryOK(n) ==
  /\ level[n] = 0 => tag[n] = None /\ children[n] = {}
  /\ tag[n] = None => children[n] \subseteq Complete
  /\ tag[n] # None =>
       /\ level[n] = 1 => children[n] \in Batches[tag[n]]
       /\ level[n] > 1 => ~Single(tag[n]) /\ Tagged(children[n], tag[n])
       /\ \A c \in under[n] :
            \E m \in Written : level[m] = 1 /\ tag[m] = tag[n] /\ c \in children[m]

\* A worker on a page's levels has the whole revision before it and behind it.
TaskOK(t) ==
  /\ t.stage # "idle" => t.rev \in Revisions
  /\ t.stage = "build" =>
       /\ Tagged(t.made, t.rev)
       /\ t.level = 0 => /\ t.todo \subseteq Batches[t.rev]
                         /\ Body(t.rev) = (UNION t.todo) \cup UnderOf(t.made)
                         /\ Single(t.rev) => t.made = {}
       /\ t.level # 0 => /\ \A g \in t.todo : Tagged(g, t.rev)
                         /\ Body(t.rev) = UnderOf(UNION t.todo) \cup UnderOf(t.made)
                         /\ ~Single(t.rev)
  /\ t.stage = "append" => t.made \subseteq Complete
  /\ t.stage = "model" => t.snap \subseteq Complete

Inv ==
  /\ TypeOK
  /\ merge \subseteq Complete /\ overtaken \subseteq Complete
  /\ \A n \in SummaryIds : SummaryOK(n)
  /\ \A w \in Workers : TaskOK(task[w])

Stages == {"idle", "build", "append", "merge", "model", "settle"}
Task == [stage : Stages, rev : Revisions \cup {None}, level : Nat,
         todo : SUBSET (SUBSET Items), made : SUBSET SummaryIds, snap : SUBSET SummaryIds]

-----------------------------------------------------------------------------
(* Facts about the operators.                                              *)

LEMMA IdleIsTask == Idle \in Task /\ TaskOK(Idle)
  BY DEF Idle, Task, Stages, TaskOK

\* batch_by_count leaves no summary out and adds none.
LEMMA ByCountCovers ==
  ASSUME NEW S
  PROVE  UNION ByCount(S) = S /\ \A g \in ByCount(S) : g \subseteq S
  <1> DEFINE G(n) == Cardinality({m \in S : m < n}) \div FanIn
             Of(n) == {m \in S : G(m) = G(n)}
  <1>1. ByCount(S) = {Of(n) : n \in S}
    BY DEF ByCount
  <1>2. \A n \in S : n \in Of(n) /\ Of(n) \subseteq S
    OBVIOUS
  <1> HIDE DEF Of
  <1> QED  BY <1>1, <1>2

LEMMA UnderOfUnion ==
  ASSUME NEW S, NEW T
  PROVE  UnderOf(S \cup T) = UnderOf(S) \cup UnderOf(T)
  BY DEF UnderOf

LEMMA BatchesAreChunks ==
  ASSUME NEW r \in Revisions
  PROVE  Batches[r] \subseteq SUBSET Chunks /\ Body(r) \subseteq Chunks
  BY BatchesAssumption DEF Body

\* Cardinality 1 and Single are the same.
LEMMA OneBatchIsSingle ==
  ASSUME NEW r \in Revisions, Cardinality(Batches[r]) = 1
  PROVE  Single(r)
  <1>1. IsFiniteSet(Batches[r])
    BY BatchesAssumption
  <1>2. \E b : Batches[r] = {b}
    BY <1>1, FS_Singleton
  <1> QED  BY <1>2 DEF Single

-----------------------------------------------------------------------------
(* Steps that write no summary.                                            *)

LEMMA SameSummaries ==
  ASSUME UNCHANGED <<children, level, tag, under>>
  PROVE  /\ Complete' = Complete
         /\ \A n : SummaryOK(n)' <=> SummaryOK(n)
         /\ \A t : TaskOK(t)' <=> TaskOK(t)
  BY DEF Written, Complete, SummaryOK, TaskOK, Tagged, UnderOf

\* One worker's task changes and no summary is written.
LEMMA TaskChanges ==
  ASSUME Inv, TypeOK', UNCHANGED <<children, level, tag, under>>,
         NEW w \in Workers, NEW t, task' = [task EXCEPT ![w] = t], TaskOK(t),
         merge' \subseteq Complete, overtaken' \subseteq Complete
  PROVE  Inv'
  <1>1. \A v \in Workers : TaskOK(task'[v])
    BY DEF Inv, TypeOK
  <1>2. \A v \in Workers : TaskOK(task[v])'
    BY <1>1, SameSummaries
  <1> QED  BY <1>2, SameSummaries DEF Inv

\* No task changes, or all end.
LEMMA TasksStay ==
  ASSUME Inv, TypeOK', UNCHANGED tree,
         \A w \in Workers : task'[w] \in {task[w], Idle}
  PROVE  Inv'
  <1>1. \A v \in Workers : TaskOK(task'[v])
    BY IdleIsTask DEF Inv
  <1>2. UNCHANGED <<children, level, tag, under>>
    BY DEF tree
  <1>3. \A v \in Workers : TaskOK(task[v])'
    BY <1>1, <1>2, SameSummaries
  <1> QED  BY <1>2, <1>3, SameSummaries DEF Inv, tree

-----------------------------------------------------------------------------
(* One lemma per action.                                                   *)

LEMMA TasksTyped ==
  ASSUME TypeOK, NEW w \in Workers, NEW t \in Task
  PROVE  [task EXCEPT ![w] = t] \in [Workers -> Task]
  BY DEF TypeOK, Task, Stages

LEMMA TaskOfWorker ==
  ASSUME TypeOK, NEW w \in Workers
  PROVE  task[w] \in Task
  BY DEF TypeOK, Task, Stages

LEMMA InitInv == Init => Inv
  <1> SUFFICES ASSUME Init PROVE Inv
    OBVIOUS
  <1>1. TypeOK
    <2>1. task \in [Workers -> Task]
      BY IdleIsTask DEF Init
    <2> QED  BY <2>1 DEF Init, TypeOK, Task, Stages
  <1>2. \A n \in SummaryIds : SummaryOK(n)
    BY DEF Init, SummaryOK
  <1>3. \A w \in Workers : TaskOK(task[w])
    BY IdleIsTask DEF Init
  <1> QED  BY <1>1, <1>2, <1>3 DEF Init, Inv

LEMMA IngestInv == ASSUME Inv, NEW r \in Revisions, Ingest(r) PROVE Inv'
  <1>1. TypeOK'
    BY DEF Inv, TypeOK, Ingest, tree, bounds
  <1> QED  BY <1>1, TasksStay DEF Ingest

LEMMA EnqueueInv == ASSUME Inv, NEW r \in Revisions, Enqueue(r) PROVE Inv'
  <1>1. TypeOK'
    BY DEF Inv, TypeOK, Enqueue, tree
  <1> QED  BY <1>1, TasksStay DEF Enqueue

LEMMA RequeueInv == ASSUME Inv, NEW all, Requeue(all) PROVE Inv'
  <1>1. TypeOK'
    BY DEF Inv, TypeOK, Requeue, tree, sync
  <1> QED  BY <1>1, TasksStay DEF Requeue

LEMMA CrashInv == ASSUME Inv, Crash PROVE Inv'
  <1>1. task' \in [Workers -> Task]
    BY IdleIsTask DEF Crash
  <1>2. jobs' \in [Revisions -> {"none", "ready", "running", "done", "failed", "parked"}]
    BY DEF Inv, TypeOK, Crash
  <1>3. TypeOK'
    BY <1>1, <1>2 DEF Inv, TypeOK, Crash, tree, Task, Stages
  <1> QED  BY <1>3, TasksStay DEF Crash

LEMMA ClaimInv == ASSUME Inv, NEW w \in Workers, NEW r \in Revisions, Claim(w, r) PROVE Inv'
  <1> DEFINE t == [Idle EXCEPT !.stage = "build", !.rev = r, !.todo = Batches[r]]
  <1>1. t \in Task
    BY BatchesAreChunks DEF Idle, Task, Stages, Items
  <1>2. TaskOK(t)
    BY DEF Idle, TaskOK, Body, UnderOf, Tagged
  <1>3. task' = [task EXCEPT ![w] = t]
    BY DEF Claim
  <1> HIDE DEF t
  <1>4. task' \in [Workers -> Task]
    BY <1>1, <1>3, TasksTyped DEF Inv
  <1>5. TypeOK'
    BY <1>4 DEF Inv, TypeOK, Claim, tree, sync, Task, Stages
  <1>6. /\ UNCHANGED <<children, level, tag, under>>
        /\ merge' \subseteq Complete /\ overtaken' \subseteq Complete
    BY DEF Claim, tree, Inv
  <1> QED  BY <1>2, <1>3, <1>5, <1>6, TaskChanges

LEMMA AppendRootInv == ASSUME Inv, NEW w \in Workers, AppendRoot(w) PROVE Inv'
  <1> DEFINE t == [task[w] EXCEPT !.stage = "merge"]
  <1>1. t \in Task /\ task[w].made \subseteq SummaryIds
    BY TaskOfWorker DEF Inv, Task, Stages
  <1>2. TaskOK(t) /\ task[w].made \subseteq Complete
    BY TaskOfWorker DEF Inv, AppendRoot, TaskOK, Task
  <1>3. task' = [task EXCEPT ![w] = t]
    BY DEF AppendRoot
  <1> HIDE DEF t
  <1>4. task' \in [Workers -> Task]
    BY <1>1, <1>3, TasksTyped DEF Inv
  <1>5. TypeOK'
    BY <1>1, <1>4 DEF Inv, TypeOK, AppendRoot, sync, Task, Stages
  <1>6. /\ UNCHANGED <<children, level, tag, under>>
        /\ merge' \subseteq Complete /\ overtaken' \subseteq Complete
    BY <1>2 DEF AppendRoot, Inv
  <1> QED  BY <1>2, <1>3, <1>5, <1>6, TaskChanges

LEMMA ReadMergeInv == ASSUME Inv, NEW w \in Workers, ReadMerge(w) PROVE Inv'
  <1> DEFINE model == [task[w] EXCEPT !.stage = "model", !.snap = merge]
             settle == [task[w] EXCEPT !.stage = "settle"]
             t == IF Cardinality(merge) >= Fanout THEN model ELSE settle
  <1>1. task' = [task EXCEPT ![w] = t]
    BY DEF ReadMerge
  <1>2. model \in Task /\ settle \in Task
    BY TaskOfWorker DEF Inv, TypeOK, Task, Stages
  <1>3. TaskOK(model) /\ TaskOK(settle)
    BY TaskOfWorker DEF Inv, ReadMerge, TaskOK, Task
  <1>4. t \in Task /\ TaskOK(t)
    BY <1>2, <1>3
  <1> HIDE DEF t
  <1>5. task' \in [Workers -> Task]
    BY <1>1, <1>4, TasksTyped DEF Inv
  <1>6. TypeOK'
    BY <1>5 DEF Inv, TypeOK, ReadMerge, tree, sync, Task, Stages
  <1>7. /\ UNCHANGED <<children, level, tag, under>>
        /\ merge' \subseteq Complete /\ overtaken' \subseteq Complete
    BY DEF ReadMerge, tree, Inv
  <1> QED  BY <1>1, <1>4, <1>6, <1>7, TaskChanges

LEMMA SettleInv == ASSUME Inv, NEW w \in Workers, Settle(w) PROVE Inv'
  <1>1. task[w].rev \in Revisions
    BY DEF Inv, TaskOK, Settle
  <1>2. task' \in [Workers -> Task]
    BY IdleIsTask, TasksTyped DEF Inv, Settle
  <1>3. TypeOK'
    BY <1>1, <1>2 DEF Inv, TypeOK, Settle, tree, sync, Task, Stages
  <1>4. \A v \in Workers : task'[v] \in {task[v], Idle}
    BY DEF Inv, TypeOK, Settle
  <1> QED  BY <1>3, <1>4, TasksStay DEF Settle

LEMMA FailInv == ASSUME Inv, NEW w \in Workers, Fail(w) PROVE Inv'
  <1>1. task[w].rev \in Revisions
    BY DEF Inv, TaskOK, Fail
  <1>2. task' \in [Workers -> Task]
    BY IdleIsTask, TasksTyped DEF Inv, Fail
  <1>3. jobs' \in [Revisions -> {"none", "ready", "running", "done", "failed", "parked"}]
    BY <1>1 DEF Inv, TypeOK, Fail
  <1>4. TypeOK'
    BY <1>2, <1>3 DEF Inv, TypeOK, Fail, tree, sync, Task, Stages
  <1>5. \A v \in Workers : task'[v] \in {task[v], Idle}
    BY DEF Inv, TypeOK, Fail
  <1> QED  BY <1>4, <1>5, TasksStay DEF Fail

-----------------------------------------------------------------------------
(* The steps that write a summary n.                                       *)

\* Nothing but n changes.
OnlyWrites(n) ==
  /\ \A m \in SummaryIds \ {n} : /\ children'[m] = children[m] /\ level'[m] = level[m]
                                /\ tag'[m] = tag[m] /\ under'[m] = under[m]
  /\ level'[n] > 0

LEMMA UnderStays ==
  ASSUME NEW n \in SummaryIds, n \notin Written, OnlyWrites(n), NEW S, S \subseteq Written
  PROVE  UnderOf(S)' = UnderOf(S)
  BY DEF UnderOf, OnlyWrites, Written

LEMMA TaggedStays ==
  ASSUME NEW n \in SummaryIds, n \notin Written, OnlyWrites(n),
         NEW S, NEW r, Tagged(S, r)
  PROVE  Tagged(S, r)' /\ S \subseteq Written
  BY DEF Tagged, OnlyWrites, Written

LEMMA CompleteStays ==
  ASSUME NEW n \in SummaryIds, n \notin Written, OnlyWrites(n)
  PROVE  Complete \subseteq Complete' /\ Written' = Written \cup {n}
  BY DEF Complete, OnlyWrites, Written, Body

LEMMA SummaryStays ==
  ASSUME NEW n \in SummaryIds, n \notin Written, OnlyWrites(n),
         NEW m \in SummaryIds \ {n}, SummaryOK(m)
  PROVE  SummaryOK(m)'
  <1>1. /\ children'[m] = children[m] /\ level'[m] = level[m]
        /\ tag'[m] = tag[m] /\ under'[m] = under[m]
    BY DEF OnlyWrites
  <1>2. \A k \in Written : /\ k \in Written' /\ level'[k] = level[k]
                           /\ tag'[k] = tag[k] /\ children'[k] = children[k]
    BY DEF OnlyWrites, Written
  <1>3. ASSUME NEW c \in under[m], tag[m] # None
        PROVE  \E k \in Written' : level'[k] = 1 /\ tag'[k] = tag[m] /\ c \in children'[k]
    BY <1>2, <1>3 DEF SummaryOK
  <1>4. level[m] > 1 /\ tag[m] # None => Tagged(children[m], tag[m])'
    BY <1>1, <1>2 DEF SummaryOK, Tagged
  <1>5. tag[m] = None => children[m] \subseteq Complete'
    BY CompleteStays DEF SummaryOK
  <1> QED  BY <1>1, <1>3, <1>4, <1>5 DEF SummaryOK, Single, Tagged

LEMMA TaskStays ==
  ASSUME NEW n \in SummaryIds, n \notin Written, OnlyWrites(n), NEW t, TaskOK(t)
  PROVE  TaskOK(t)'
  <1>1. ASSUME t.stage = "build"
        PROVE  /\ Tagged(t.made, t.rev)'
               /\ UnderOf(t.made)' = UnderOf(t.made)
    BY <1>1, TaggedStays, UnderStays DEF TaskOK
  <1>2. ASSUME t.stage = "build", t.level # 0
        PROVE  /\ \A g \in t.todo : Tagged(g, t.rev)'
               /\ UnderOf(UNION t.todo)' = UnderOf(UNION t.todo)
    <2>1. \A g \in t.todo : Tagged(g, t.rev)' /\ g \subseteq Written
      BY <1>2, TaggedStays DEF TaskOK
    <2>2. UNION t.todo \subseteq Written
      BY <2>1
    <2> QED  BY <2>1, <2>2, UnderStays
  <1>3. Complete \subseteq Complete'
    BY CompleteStays
  <1> QED  BY <1>1, <1>2, <1>3 DEF TaskOK, Single, Body

\* A summary is written by worker w, whose task becomes t.
LEMMA Writes ==
  ASSUME Inv, TypeOK', NEW n \in SummaryIds, n \notin Written, OnlyWrites(n),
         NEW w \in Workers, NEW t, task' = [task EXCEPT ![w] = t], TaskOK(t)',
         SummaryOK(n)', merge' \subseteq Complete, UNCHANGED overtaken
  PROVE  Inv'
  <1>1. merge' \subseteq Complete' /\ overtaken' \subseteq Complete'
    BY CompleteStays DEF Inv
  <1>2. \A m \in SummaryIds : SummaryOK(m)'
    BY SummaryStays DEF Inv
  <1>3. \A v \in Workers : TaskOK(task[v])'
    <2> SUFFICES ASSUME NEW v \in Workers PROVE TaskOK(task[v])'
      OBVIOUS
    <2>1. CASE v = w
      BY <2>1 DEF Inv, TypeOK
    <2>2. CASE v # w
      <3>1. task'[v] = task[v]
        BY <2>2 DEF Inv, TypeOK
      <3>2. \A u : TaskOK(u) => TaskOK(u)'
        BY TaskStays
      <3>3. TaskOK(task[v])
        BY DEF Inv
      <3> QED  BY <3>1, <3>2, <3>3
    <2> QED  BY <2>1, <2>2
  <1> QED  BY <1>1, <1>2, <1>3 DEF Inv

\* seal_one_level of the merge tier.
LEMMA SealMergeInv ==
  ASSUME Inv, NEW w \in Workers, NEW n \in SummaryIds, SealMerge(w, n), NEW s, s = task[w]
  PROVE  Inv'
  <1> DEFINE t == [s EXCEPT !.stage = "settle"]
  <1>1. /\ s \in Task /\ TaskOK(s) /\ s.stage = "model" /\ s.snap \subseteq Complete
        /\ n \notin Written
    BY TaskOfWorker DEF Inv, SealMerge, IsNext, TaskOK
  <1>2. t \in Task /\ t.stage = "settle" /\ t.rev \in Revisions
    BY <1>1 DEF Task, Stages, TaskOK
  <1>3. TaskOK(t)'
    BY <1>2 DEF TaskOK
  <1>4. task' = [task EXCEPT ![w] = t]
    BY DEF SealMerge
  <1> HIDE DEF t
  <1>5. task' \in [Workers -> Task]
    BY <1>2, <1>4, TasksTyped DEF Inv
  <1>6. s.snap \subseteq SummaryIds
    BY <1>1 DEF Task
  <1>7. TypeOK'
    <2>1. children' \in [SummaryIds -> SUBSET Items]
      BY <1>6 DEF Inv, TypeOK, SealMerge, Items
    <2>2. parent' \in [SummaryIds -> SummaryIds \cup {0}]
      BY DEF Inv, TypeOK, SealMerge
    <2>3. level' \in [SummaryIds -> Nat]
      BY DEF Inv, TypeOK, SealMerge, MERGE_LEVEL_BASE
    <2> QED  BY <1>5, <2>1, <2>2, <2>3 DEF Inv, TypeOK, SealMerge, sync, Task, Stages
  <1>8. OnlyWrites(n)
    BY DEF Inv, TypeOK, SealMerge, OnlyWrites, MERGE_LEVEL_BASE
  <1>9. SummaryOK(n)'
    <2>1. tag'[n] = None
      BY <1>1 DEF Inv, TypeOK, SummaryOK, SealMerge, Written
    <2>2. children'[n] \subseteq Complete'
      BY <1>1, <1>8, CompleteStays DEF Inv, TypeOK, SealMerge
    <2>3. level'[n] # 0
      BY DEF Inv, TypeOK, SealMerge, MERGE_LEVEL_BASE
    <2> QED  BY <2>1, <2>2, <2>3 DEF SummaryOK
  <1>10. merge' \subseteq Complete /\ UNCHANGED overtaken
    BY DEF SealMerge
  <1> QED  BY <1>1, <1>3, <1>4, <1>7, <1>8, <1>9, <1>10, Writes

\* seal_explicit_children.
LEMMA SealBatchInv ==
  ASSUME Inv, NEW w \in Workers, NEW n \in SummaryIds, NEW t, t = task[w],
         NEW b \in t.todo, SealBatch(w, b, n)
  PROVE  Inv'
  <1> DEFINE todo == t.todo \ {b}
             made == t.made \cup {n}
             u == AfterSeal(t, b, n)
  <1>1. /\ t \in Task /\ TaskOK(t) /\ t.stage = "build" /\ n \notin Written
        /\ t.rev \in Revisions
    BY TaskOfWorker DEF Inv, SealBatch, IsNext, TaskOK
  <1>2. /\ children'[n] = b /\ level'[n] = t.level + 1 /\ tag'[n] = t.rev
        /\ OnlyWrites(n) /\ level'[n] \in Nat /\ t.level \in Nat /\ t.rev # None
    BY <1>1, IdsAssumption DEF Inv, TypeOK, SealBatch, OnlyWrites, Task
  <1>3. Written' = Written \cup {n}
    BY <1>1, <1>2, CompleteStays
  <1>4. /\ Tagged(t.made, t.rev)' /\ Tagged(made, t.rev)'
        /\ t.made \subseteq Written /\ UnderOf(t.made)' = UnderOf(t.made)
    <2>1. Tagged(t.made, t.rev)' /\ t.made \subseteq Written
      BY <1>1, <1>2, TaggedStays DEF TaskOK
    <2>2. Tagged(made, t.rev)'
      BY <1>2, <1>3, <2>1 DEF Tagged
    <2> QED  BY <1>1, <1>2, <2>1, <2>2, UnderStays
  <1>5. ASSUME t.level = 0
        PROVE  /\ b \in Batches[t.rev] /\ under'[n] = b
               /\ Body(t.rev) = (UNION todo) \cup UnderOf(made)'
               /\ Single(t.rev) => todo = {} /\ made = {n}
    <2>1. b \in Batches[t.rev] /\ under'[n] = b
      BY <1>1, <1>5 DEF Inv, TypeOK, SealBatch, TaskOK
    <2>2. Body(t.rev) = (UNION t.todo) \cup UnderOf(t.made)
      BY <1>1, <1>5 DEF TaskOK
    <2>3. UnderOf(made)' = UnderOf(t.made) \cup b
      BY <1>4, <2>1 DEF UnderOf
    <2>4. UNION t.todo = (UNION todo) \cup b
      OBVIOUS
    <2>5. Single(t.rev) => todo = {} /\ made = {n}
      BY <1>1, <1>5, <2>1 DEF TaskOK, Single
    <2> QED  BY <2>1, <2>2, <2>3, <2>4, <2>5
  <1>6. ASSUME t.level # 0
        PROVE  /\ Tagged(b, t.rev) /\ b \subseteq Written /\ under'[n] = UnderOf(b)
               /\ \A g \in todo : Tagged(g, t.rev)'
               /\ Body(t.rev) = UnderOf(UNION todo)' \cup UnderOf(made)'
               /\ ~Single(t.rev)
    <2>1. \A g \in t.todo : Tagged(g, t.rev) /\ Tagged(g, t.rev)' /\ g \subseteq Written
      BY <1>1, <1>2, <1>6, TaggedStays DEF TaskOK
    <2>2. under'[n] = UnderOf(b)
      BY <1>6 DEF Inv, TypeOK, SealBatch, UnderOf
    <2>3. Body(t.rev) = UnderOf(UNION t.todo) \cup UnderOf(t.made) /\ ~Single(t.rev)
      BY <1>1, <1>6 DEF TaskOK
    <2>4. UnderOf(made)' = UnderOf(t.made) \cup UnderOf(b)
      BY <1>4, <2>2 DEF UnderOf
    <2>5. UNION t.todo = (UNION todo) \cup b
      OBVIOUS
    <2>6. UnderOf(UNION t.todo) = UnderOf(UNION todo) \cup UnderOf(b)
      BY <2>5, UnderOfUnion
    <2>7. UNION todo \subseteq Written
      BY <2>1
    <2>8. UnderOf(UNION todo)' = UnderOf(UNION todo)
      BY <1>1, <1>2, <2>7, UnderStays
    <2> QED  BY <2>1, <2>2, <2>3, <2>4, <2>6, <2>8
  <1>7. SummaryOK(n)'
    <2>1. CASE t.level = 0
      BY <1>2, <1>3, <1>5, <2>1 DEF SummaryOK
    <2>2. CASE t.level # 0
      <3>1. level'[n] > 1
        BY <1>2, <2>2
      <3>2. Tagged(b, t.rev)'
        BY <1>1, <1>2, <1>6, <2>2, TaggedStays
      <3>3. ASSUME NEW c \in under'[n]
            PROVE  \E m \in Written' : level'[m] = 1 /\ tag'[m] = t.rev /\ c \in children'[m]
        <4>1. PICK k \in b : c \in under[k]
          BY <1>6, <2>2 DEF UnderOf
        <4>2. k \in Written /\ tag[k] = t.rev /\ SummaryOK(k)
          BY <1>6, <2>2 DEF Tagged, Inv, Written
        <4>3. PICK m \in Written : level[m] = 1 /\ tag[m] = t.rev /\ c \in children[m]
          BY <1>2, <4>1, <4>2 DEF SummaryOK
        <4>4. m \in SummaryIds \ {n}
          BY <1>1 DEF Written
        <4> QED  BY <1>2, <1>3, <4>3, <4>4 DEF OnlyWrites
      <3> QED  BY <1>2, <1>6, <2>2, <3>1, <3>2, <3>3 DEF SummaryOK, Single, Tagged
    <2> QED  BY <2>1, <2>2
  <1>8. u \in Task /\ TaskOK(u)'
    <2>0. todo \in SUBSET (SUBSET Items) /\ made \in SUBSET SummaryIds
      BY <1>1 DEF Task
    <2>1. CASE todo # {}
      <3>1. u = [t EXCEPT !.todo = todo, !.made = made]
        BY <2>1 DEF AfterSeal
      <3>2. u \in Task
        BY <1>1, <2>0, <3>1 DEF Task
      <3>3. /\ u.stage = "build" /\ u.rev = t.rev /\ u.level = t.level
            /\ u.todo = todo /\ u.made = made
        BY <1>1, <3>1 DEF Task
      <3>4. todo \subseteq t.todo
        OBVIOUS
      <3>5. CASE t.level = 0
        <4>1. ~Single(t.rev) /\ todo \subseteq Batches[t.rev]
          BY <1>1, <1>5, <2>1, <3>4, <3>5 DEF TaskOK
        <4> QED  BY <1>1, <1>4, <1>5, <3>3, <3>5, <4>1, <3>2 DEF TaskOK, Single, Body
      <3>6. CASE t.level # 0
        BY <1>1, <1>4, <1>6, <3>2, <3>3, <3>6 DEF TaskOK, Single, Body
      <3> QED  BY <3>5, <3>6
    <2>2. CASE todo = {} /\ made = {n}
      <3>1. u = [t EXCEPT !.stage = "append", !.todo = {}, !.made = made]
        BY <2>2 DEF AfterSeal
      <3>2. u \in Task
        BY <1>1, <2>0, <3>1 DEF Task, Stages
      <3>3. u.stage = "append" /\ u.rev = t.rev /\ u.made = {n}
        BY <1>1, <2>2, <3>1 DEF Task
      <3>4. UnderOf(made)' = under'[n]
        BY <2>2 DEF UnderOf
      <3>5. under'[n] = Body(t.rev)
        <4>1. CASE t.level = 0
          BY <1>5, <2>2, <3>4, <4>1
        <4>2. CASE t.level # 0
          <5>1. UnderOf(UNION todo)' = {}
            BY <2>2 DEF UnderOf
          <5> QED  BY <1>6, <3>4, <4>2, <5>1
        <4> QED  BY <4>1, <4>2
      <3>6. n \in Complete'
        BY <1>1, <1>2, <1>3, <3>5 DEF Complete, Body
      <3> QED  BY <1>1, <3>2, <3>3, <3>6 DEF TaskOK
    <2>3. CASE todo = {} /\ made # {n}
      <3>1. u = [t EXCEPT !.level = t.level + 1, !.todo = ByCount(made), !.made = {}]
        BY <2>3 DEF AfterSeal
      <3>2. UNION ByCount(made) = made /\ \A g \in ByCount(made) : g \subseteq made
        BY ByCountCovers
      <3>3. ByCount(made) \subseteq SUBSET Items
        BY <1>1, <3>2 DEF Items, Task
      <3>4. u \in Task
        <4>1. t.level + 1 \in Nat
          BY <1>2
        <4>2. ByCount(made) \in SUBSET (SUBSET Items) /\ {} \in SUBSET SummaryIds
          BY <3>3
        <4> HIDE DEF made, todo
        <4> QED  BY <1>1, <3>1, <4>1, <4>2 DEF Task
      <3>5. /\ u.stage = "build" /\ u.rev = t.rev /\ u.level = t.level + 1
            /\ u.todo = ByCount(made) /\ u.made = {}
        BY <1>1, <3>1 DEF Task
      <3>6. ~Single(t.rev)
        BY <1>5, <1>6, <2>3
      <3>7. UnderOf(made)' = Body(t.rev)
        <4>1. CASE t.level = 0
          BY <1>5, <2>3, <4>1
        <4>2. CASE t.level # 0
          <5>1. UnderOf(UNION todo)' = {}
            BY <2>3 DEF UnderOf
          <5> QED  BY <1>6, <4>2, <5>1
        <4> QED  BY <4>1, <4>2
      <3>8. \A g \in ByCount(made) : Tagged(g, t.rev)'
        BY <1>4, <3>2 DEF Tagged
      <3>9. UnderOf(UNION ByCount(made))' = UnderOf(made)' /\ UnderOf({})' = {}
        BY <3>2 DEF UnderOf
      <3>10. u.level # 0 /\ Tagged({}, t.rev)'
        BY <1>2, <3>5 DEF Tagged
      <3> QED
        BY <1>1, <3>4, <3>5, <3>6, <3>7, <3>8, <3>9, <3>10 DEF TaskOK, Single, Body
    <2> QED  BY <2>1, <2>2, <2>3
  <1>9. task' = [task EXCEPT ![w] = u]
    BY DEF SealBatch
  <1> HIDE DEF u
  <1>10. task' \in [Workers -> Task]
    BY <1>8, <1>9, TasksTyped DEF Inv
  <1>11. TypeOK'
    <2>1. b \subseteq Items
      BY <1>1 DEF Task
    <2>2. children' \in [SummaryIds -> SUBSET Items]
      BY <2>1 DEF Inv, TypeOK, SealBatch
    <2>3. level' \in [SummaryIds -> Nat] /\ tag' \in [SummaryIds -> Revisions \cup {None}]
      BY <1>1, <1>2 DEF Inv, TypeOK, SealBatch
    <2>4. /\ parent' \in [SummaryIds -> SummaryIds \cup {0}]
          /\ link' \in [Chunks -> SummaryIds \cup {0}]
      <3>1. /\ parent \in [SummaryIds -> SummaryIds \cup {0}]
            /\ link \in [Chunks -> SummaryIds \cup {0}]
        BY DEF Inv, TypeOK
      <3>2. CASE t.level = 0
        <4>1. parent' = parent /\ link' = [c \in Chunks |-> IF c \in b THEN n ELSE link[c]]
          BY <3>2 DEF SealBatch
        <4> QED  BY <3>1, <4>1
      <3>3. CASE t.level # 0
        <4>1. /\ link' = link
              /\ parent' = [m \in SummaryIds |->
                              IF m \in b /\ parent[m] = 0 THEN n ELSE parent[m]]
          BY <3>3 DEF SealBatch
        <4> QED  BY <3>1, <4>1
      <3> QED  BY <3>2, <3>3
    <2>5. under'[n] \subseteq Chunks
      <3>1. CASE t.level = 0
        BY <1>1, <1>5, <3>1, BatchesAreChunks
      <3>2. CASE t.level # 0
        <4>1. \A m \in b : under[m] \subseteq Chunks
          BY <1>6, <3>2 DEF Inv, TypeOK, Written
        <4> QED  BY <1>6, <3>2, <4>1 DEF UnderOf
      <3> QED  BY <3>1, <3>2
    <2>6. under' \in [SummaryIds -> SUBSET Chunks]
      <3>1. \E v : under' = [under EXCEPT ![n] = v]
        BY DEF SealBatch
      <3> QED  BY <2>5, <3>1 DEF Inv, TypeOK
    <2> QED
      BY <1>10, <2>2, <2>3, <2>4, <2>6 DEF Inv, TypeOK, SealBatch, sync, Task, Stages
  <1>12. merge' \subseteq Complete /\ UNCHANGED overtaken
    BY DEF SealBatch, Inv
  <1> QED  BY <1>1, <1>2, <1>7, <1>8, <1>9, <1>11, <1>12, Writes

-----------------------------------------------------------------------------
(* The invariant, and what follows from it.                                *)

LEMMA NextInv == Inv /\ [Next]_vars => Inv'
  <1> SUFFICES ASSUME Inv, [Next]_vars PROVE Inv'
    OBVIOUS
  <1>1. ASSUME NEW r \in Revisions, Ingest(r) \/ Enqueue(r) PROVE Inv'
    BY <1>1, IngestInv, EnqueueInv
  <1>2. ASSUME NEW w \in Workers, NEW r \in Revisions, Claim(w, r) PROVE Inv'
    BY <1>2, ClaimInv
  <1>3. ASSUME NEW w \in Workers, Handles(w) \/ Fail(w) PROVE Inv'
    BY <1>3, SealMergeInv, SealBatchInv, AppendRootInv, ReadMergeInv, SettleInv, FailInv
       DEF Handles, Seals
  <1>4. CASE Crash
    BY <1>4, CrashInv
  <1>5. ASSUME NEW all \in BOOLEAN, Requeue(all) PROVE Inv'
    BY <1>5, RequeueInv
  <1>6. CASE UNCHANGED vars
    <2>1. TypeOK'
      BY <1>6 DEF Inv, TypeOK, vars
    <2> QED  BY <1>6, <2>1, TasksStay DEF vars, tree
  <1> QED  BY <1>1, <1>2, <1>3, <1>4, <1>5, <1>6 DEF Next

THEOREM Invariance == Spec => []Inv
  <1>1. Init => Inv
    BY InitInv
  <1>2. Inv /\ [Next]_vars => Inv'
    BY NextInv
  <1> QED  BY <1>1, <1>2, PTL DEF Spec

\* The shape of the state.
THEOREM TypeCorrect == Spec => []TypeOK
  <1>1. Inv => TypeOK
    BY DEF Inv
  <1> QED  BY <1>1, Invariance, PTL

LEMMA HandedOverIsComplete == Inv => HandedOver \subseteq Complete
  <1> SUFFICES ASSUME Inv, NEW n \in HandedOver PROVE n \in Complete
    OBVIOUS
  <1>1. \A m \in Written : tag[m] = None => children[m] \subseteq Complete
    BY DEF Inv, SummaryOK, Written
  <1> QED  BY <1>1 DEF Inv, HandedOver, Merged

\* Whatever fails, dies, is retried or runs beside it, the merge tier is given summaries
\* of whole revisions only.
THEOREM MergeTierIsWhole == Spec => []RootsCoverRevision
  <1>1. Inv => RootsCoverRevision
    BY HandedOverIsComplete DEF RootsCoverRevision, Complete
  <1> QED  BY <1>1, Invariance, PTL

\* The winner of a page is a summary of its newest sealed revision.
LEMMA WinnerIsNewest ==
  ASSUME Inv, NEW r \in Revisions, NewestSealed(r), NEW w \in Winners(Doc(r))
  PROVE  w \in Written /\ tag[w] = r
  <1>1. PICK n \in Written : tag[n] = r
    BY DEF NewestSealed
  <1>2. n \in Nodes(Doc(r))
    BY <1>1, IdsAssumption DEF Nodes
  <1>3. w \in Written /\ tag[w] \in Revisions /\ Doc(tag[w]) = Doc(r)
    BY DEF Winners, Nodes, Inv, TypeOK, Written
  <1>4. Version(tag[w]) <= Version(r) /\ Version(r) <= Version(tag[w])
    BY <1>1, <1>2 DEF Winners, NewestSealed
  <1>5. Version(tag[w]) = Version(r)
    BY <1>3, <1>4, RevisionsAssumption
  <1> QED  BY <1>3, <1>5, RevisionsAssumption

\* Summaries of level 1 have chunks below, the others summaries.
LEMMA Below ==
  ASSUME Inv, NEW n \in Written, tag[n] # None
  PROVE  /\ level[n] = 1 => children[n] \subseteq Body(tag[n]) /\ children[n] \subseteq Chunks
         /\ level[n] # 1 => /\ children[n] \subseteq Written /\ ~Single(tag[n])
                            /\ \A m \in children[n] : tag[m] = tag[n]
  <1>1. n \in SummaryIds /\ level[n] \in Nat \ {0} /\ tag[n] \in Revisions /\ SummaryOK(n)
    BY DEF Inv, TypeOK, Written
  <1>2. CASE level[n] = 1
    <2>1. children[n] \in Batches[tag[n]]
      BY <1>1, <1>2 DEF SummaryOK
    <2> QED  BY <1>1, <1>2, <2>1, BatchesAreChunks DEF Body
  <1>3. CASE level[n] # 1
    BY <1>1, <1>3 DEF SummaryOK, Tagged
  <1> QED  BY <1>2, <1>3

\* A page of one batch is shown: its newest sealed revision loses to none of the older
\* ones, and of the doc-roots that retries made one is left.
THEOREM OneBatchIsShown == Spec => []OnlyTallVanish
  <1>1. ASSUME Inv, NEW r \in Revisions, NewestSealed(r), Cardinality(Batches[r]) = 1,
               NEW w \in Winners(Doc(r))
        PROVE  Body(r) \subseteq Shown(Doc(r), w)
    <2>1. PICK b : Batches[r] = {b}
      BY <1>1, OneBatchIsSingle DEF Single
    <2>2. w \in Written /\ tag[w] = r /\ r # None
      BY <1>1, WinnerIsNewest, IdsAssumption
    <2>3. level[w] = 1
      BY <1>1, <2>1, <2>2, Below DEF Single
    <2>4. children[w] = b /\ Body(r) = b /\ b \subseteq Chunks
      <3>1. children[w] \in Batches[r]
        BY <1>1, <2>2, <2>3 DEF Inv, SummaryOK, Written
      <3> QED  BY <2>1, <3>1, BatchesAreChunks DEF Body
    <2>5. ASSUME NEW n \in Nodes(Doc(r)), w \in children[n] PROVE FALSE
      <3>1. n \in Written /\ tag[n] # None
        BY <2>5 DEF Nodes
      <3>2. level[n] # 1
        BY <1>1, <2>2, <2>5, <3>1, Below, IdsAssumption DEF Written
      <3>3. tag[n] = r /\ ~Single(r)
        BY <1>1, <2>2, <2>5, <3>1, <3>2, Below
      <3> QED  BY <2>1, <3>3 DEF Single
    <2>6. w \in Nodes(Doc(r)) \ Removed(Doc(r), w)
      BY <2>2, <2>5 DEF Removed, Nodes
    <2> QED  BY <2>4, <2>6 DEF Shown, Covered
  <1>2. Inv => OnlyTallVanish
    BY <1>1 DEF OnlyTallVanish
  <1> QED  BY <1>2, Invariance, PTL

\* What only an older, sealed revision has is neither covered nor shown raw.
THEOREM OldIsHidden == Spec => []SupersededHidden
  <1>1. ASSUME Inv, NEW r \in Revisions, NEW s \in Revisions, NewestSealed(r),
               Doc(s) = Doc(r), Version(s) < Version(r),
               NEW n \in HandedOver, tag[n] = s, NEW w \in Winners(Doc(r)),
               NEW c \in Body(s) \ Body(r)
        PROVE  c \notin Shown(Doc(r), w)
    <2>1. w \in Written /\ tag[w] = r /\ r # None /\ s # None
      BY <1>1, WinnerIsNewest, IdsAssumption
    <2>2. c \notin Covered(Doc(r), w)
      <3>1. Nodes(Doc(r)) \ Removed(Doc(r), w) \subseteq {w}
        BY DEF Removed
      <3>2. c \notin children[w] \/ c \notin Chunks
        BY <1>1, <2>1, Below, IdsAssumption DEF Written
      <3> QED  BY <3>1, <3>2 DEF Covered
    <2>3. n \in Written /\ under[n] = Body(s)
      BY <1>1, HandedOverIsComplete DEF Complete
    <2>4. PICK m \in Written : level[m] = 1 /\ tag[m] = s /\ c \in children[m]
      BY <1>1, <2>1, <2>3 DEF Inv, SummaryOK, Written
    <2>5. m \in Nodes(Doc(r)) \ {w}
      BY <1>1, <2>1, <2>4, RevisionsAssumption DEF Nodes
    <2>6. c \in Chunks
      BY <1>1, <2>1, <2>4, Below
    <2>7. c \in Suppressed(Doc(r), w)
      BY <2>4, <2>5, <2>6 DEF Suppressed, Removed
    <2>8. ASSUME NEW R  PROVE  c \notin R \ Suppressed(Doc(r), w)
      BY <2>7
    <2> QED  BY <2>2, <2>8 DEF Shown
  <1>2. Inv => SupersededHidden
    BY <1>1 DEF SupersededHidden
  <1> QED  BY <1>2, Invariance, PTL
-----------------------------------------------------------------------------
(* The rows of the seal jobs move as KeyQueue says.                        *)

\* A row is there only after its sync has sent it, and a worker's is running and its
\* alone.
RowsInv ==
  /\ \A r \in Revisions : jobs[r] # "none" => r \in gate \ unsent
  /\ \A w \in Workers : task[w].rev \in Revisions =>
       /\ jobs[task[w].rev] = "running"
       /\ \A v \in Workers : task[v].rev = task[w].rev => v = w

QInv == Inv /\ RowsInv

\* Steps that move neither rows nor workers' revisions.
LEMMA Unseen ==
  ASSUME UNCHANGED jobs, \A w \in Workers : task'[w].rev = task[w].rev
  PROVE  UNCHANGED KeyView!vars /\ (RowsInv /\ UNCHANGED sync => RowsInv')
  <1>1. [w \in Workers |-> {r \in Revisions : task'[w].rev = r}] =
          [w \in Workers |-> {r \in Revisions : task[w].rev = r}]
    OBVIOUS
  <1>2. UNCHANGED KeyView!vars
    BY <1>1 DEF KeyView!vars
  <1>3. RowsInv /\ UNCHANGED sync => RowsInv'
    BY DEF RowsInv, sync
  <1> QED  BY <1>2, <1>3

LEMMA TasksWithoutRows ==
  ASSUME Inv, NEW w \in Workers,
         \/ AppendRoot(w) \/ ReadMerge(w)
         \/ \E n \in SummaryIds : SealMerge(w, n) \/ \E b \in task[w].todo : SealBatch(w, b, n)
  PROVE  UNCHANGED <<jobs, sync>> /\ \A v \in Workers : task'[v].rev = task[v].rev
  <1>1. task[w] \in Task
    BY TaskOfWorker DEF Inv
  <1>2. UNCHANGED <<jobs, sync>>
    BY DEF AppendRoot, ReadMerge, SealMerge, SealBatch
  <1>3. \A b, n : AfterSeal(task[w], b, n).rev = task[w].rev
    BY <1>1 DEF AfterSeal, Task
  <1>4. PICK t : task' = [task EXCEPT ![w] = t] /\ t.rev = task[w].rev
    <2>1. CASE AppendRoot(w)
      <3>1. [task[w] EXCEPT !.stage = "merge"].rev = task[w].rev
        BY <1>1 DEF Task
      <3> QED  BY <2>1, <3>1 DEF AppendRoot
    <2>2. CASE ReadMerge(w)
      <3>1. [task[w] EXCEPT !.stage = "model", !.snap = merge].rev = task[w].rev
        BY <1>1 DEF Task
      <3>2. [task[w] EXCEPT !.stage = "settle"].rev = task[w].rev
        BY <1>1 DEF Task
      <3> QED  BY <2>2, <3>1, <3>2 DEF ReadMerge
    <2>3. ASSUME NEW n \in SummaryIds, SealMerge(w, n)
          PROVE  \E t : task' = [task EXCEPT ![w] = t] /\ t.rev = task[w].rev
      <3>1. [task[w] EXCEPT !.stage = "settle"].rev = task[w].rev
        BY <1>1 DEF Task
      <3> QED  BY <2>3, <3>1 DEF SealMerge
    <2>4. ASSUME NEW n \in SummaryIds, NEW b \in task[w].todo, SealBatch(w, b, n)
          PROVE  \E t : task' = [task EXCEPT ![w] = t] /\ t.rev = task[w].rev
      <3>1. task' = [task EXCEPT ![w] = AfterSeal(task[w], b, n)]
        BY <2>4 DEF SealBatch
      <3> QED  BY <1>3, <3>1
    <2> QED  BY <2>1, <2>2, <2>3, <2>4
  <1> QED  BY <1>2, <1>4 DEF Inv, TypeOK

LEMMA EnqueueEnters ==
  ASSUME QInv, NEW r \in Revisions, Enqueue(r)
  PROVE  RowsInv' /\ KeyView!Enqueue
  <1>1. jobs[r] = "none" /\ UNCHANGED <<task, gate>> /\ unsent' = unsent \ {r} /\ r \in gate
    BY DEF QInv, Inv, TypeOK, RowsInv, Enqueue
  <1>2. jobs \in [Revisions -> {"none", "ready", "running", "done", "failed", "parked"}]
    BY DEF QInv, Inv, TypeOK
  <1>3. \/ jobs' = [jobs EXCEPT ![r] = "ready"]
        \/ jobs' = jobs
    BY DEF Enqueue
  <1>4. RowsInv'
    BY <1>1, <1>2, <1>3 DEF QInv, RowsInv
  <1>5. \A x \in Revisions : (jobs'[x] = "failed" <=> jobs[x] = "failed")
                          /\ (jobs'[x] = "parked" <=> jobs[x] = "parked")
    BY <1>1, <1>2, <1>3
  <1>6. KeyView!Enqueue
    <2>1. [x \in Revisions |-> {i \in {1} : jobs'[x] = "failed"}] =
            [x \in Revisions |-> {i \in {1} : jobs[x] = "failed"}]
      BY <1>5
    <2>2. [x \in Revisions |-> {i \in {1} : jobs'[x] = "parked"}] =
            [x \in Revisions |-> {i \in {1} : jobs[x] = "parked"}]
      BY <1>5
    <2>3. [w \in Workers |-> {x \in Revisions : task'[w].rev = x}] =
            [w \in Workers |-> {x \in Revisions : task[w].rev = x}]
      BY <1>1
    <2> QED
      BY <1>1, <1>2, <1>3, <2>1, <2>2, <2>3 DEF KeyView!Enqueue, KeyView!MayEnter, KeyView!Status
  <1> QED  BY <1>4, <1>6

LEMMA ClaimTakes ==
  ASSUME QInv, NEW w \in Workers, NEW r \in Revisions, Claim(w, r)
  PROVE  RowsInv' /\ KeyView!Claim(w)
  <1>1. /\ jobs[r] = "ready" /\ jobs' = [jobs EXCEPT ![r] = "running"]
        /\ UNCHANGED <<gate, unsent>>
        /\ task[w].rev = None /\ task'[w].rev = r
        /\ \A v \in Workers \ {w} : task'[v] = task[v]
    BY DEF Claim, Idle, sync, QInv, Inv, TypeOK
  <1>2. jobs \in [Revisions -> {"none", "ready", "running", "done", "failed", "parked"}]
    BY DEF QInv, Inv, TypeOK
  <1>3. \A v \in Workers : task[v].rev # r
    BY <1>1, <1>2 DEF QInv, RowsInv
  <1>4. RowsInv'
    BY <1>1, <1>2, <1>3, IdsAssumption DEF QInv, RowsInv
  <1>5. KeyView!Claim(w)
    <2> DEFINE row(x) == IF jobs[x] \in {"ready", "running"} THEN jobs[x] ELSE "none"
               taken == {r}
    <2>1. taken \in SUBSET {x \in Revisions : [y \in Revisions |-> row(y)][x] = "ready"}
      BY <1>1
    <2>2. [x \in Revisions |-> IF jobs'[x] \in {"ready", "running"} THEN jobs'[x] ELSE "none"] =
            [x \in Revisions |-> IF x \in taken THEN "running" ELSE [y \in Revisions |-> row(y)][x]]
      BY <1>1, <1>2
    <2>3. \A v \in Workers :
            {x \in Revisions : task'[v].rev = x} =
              IF v = w THEN {x \in Revisions : task[v].rev = x} \cup taken
              ELSE {x \in Revisions : task[v].rev = x} \ taken
      BY <1>1, <1>3, IdsAssumption
    <2>4. /\ [x \in Revisions |-> {i \in {1} : jobs'[x] = "failed"}] =
               [x \in Revisions |-> {i \in {1} : jobs[x] = "failed"}]
          /\ [x \in Revisions |-> {i \in {1} : jobs'[x] = "parked"}] =
               [x \in Revisions |-> {i \in {1} : jobs[x] = "parked"}]
      BY <1>1, <1>2
    <2> HIDE DEF taken
    <2> QED  BY <2>1, <2>2, <2>3, <2>4 DEF KeyView!Claim
  <1> QED  BY <1>4, <1>5

\* A worker's settlement of its row r with the status s.
Settles(w, r, s) ==
  /\ task[w].rev = r /\ jobs' = [jobs EXCEPT ![r] = s]
  /\ task' = [task EXCEPT ![w] = Idle]
  /\ UNCHANGED sync

LEMMA SettlesIsStep ==
  ASSUME QInv, NEW w \in Workers, NEW r \in Revisions,
         NEW s \in {"done", "ready", "failed", "parked"}, Settles(w, r, s)
  PROVE  RowsInv' /\ (KeyView!Finish(w, r) \/ KeyView!PutBack(w, r) \/ KeyView!Fail(w, r))
  <1>1. /\ jobs[r] = "running" /\ r \in gate \ unsent
        /\ \A v \in Workers : task[v].rev = r => v = w
    BY DEF Settles, QInv, RowsInv
  <1>2. /\ jobs' = [jobs EXCEPT ![r] = s] /\ UNCHANGED <<gate, unsent>>
        /\ task'[w].rev = None /\ task[w].rev = r
        /\ \A v \in Workers \ {w} : task'[v] = task[v]
    BY DEF Settles, Idle, sync, QInv, Inv, TypeOK
  <1>3. jobs \in [Revisions -> {"none", "ready", "running", "done", "failed", "parked"}]
    BY DEF QInv, Inv, TypeOK
  <1>4. RowsInv'
    BY <1>1, <1>2, <1>3, IdsAssumption DEF QInv, RowsInv
  <1> DEFINE row == [x \in Revisions |-> IF jobs[x] \in {"ready", "running"} THEN jobs[x] ELSE "none"]
             row1 == [x \in Revisions |-> IF jobs'[x] \in {"ready", "running"} THEN jobs'[x] ELSE "none"]
             owns == [v \in Workers |-> {x \in Revisions : task[v].rev = x}]
             fd == [x \in Revisions |-> {i \in {1} : jobs[x] = "failed"}]
             fd1 == [x \in Revisions |-> {i \in {1} : jobs'[x] = "failed"}]
             pd == [x \in Revisions |-> {i \in {1} : jobs[x] = "parked"}]
             pd1 == [x \in Revisions |-> {i \in {1} : jobs'[x] = "parked"}]
  <1>5. KeyView!LetGo(w, r)
    <2>1. \A v \in Workers :
            {x \in Revisions : task'[v].rev = x} = IF v = w THEN owns[v] \ {r} ELSE owns[v]
      BY <1>2, IdsAssumption
    <2>2. r \in owns[w]
      BY <1>2
    <2> QED  BY <2>1, <2>2 DEF KeyView!LetGo
  <1>6. CASE s = "done"
    <2>1. row1 = [row EXCEPT ![r] = "none"] /\ fd1 = fd /\ pd1 = pd
      BY <1>1, <1>2, <1>3, <1>6
    <2> QED  BY <1>4, <1>5, <2>1 DEF KeyView!Finish
  <1>7. CASE s = "ready"
    <2>1. row1 = [row EXCEPT ![r] = "ready"] /\ fd1 = fd /\ pd1 = pd
      BY <1>1, <1>2, <1>3, <1>7
    <2> QED  BY <1>4, <1>5, <2>1 DEF KeyView!PutBack
  <1>8. CASE s = "failed"
    <2>1. row1 = [row EXCEPT ![r] = "none"] /\ fd1 = [fd EXCEPT ![r] = fd[r] \cup {1}] /\ pd1 = pd
      BY <1>1, <1>2, <1>3, <1>8
    <2>2. 1 \in {1} \ (fd[r] \cup pd[r])
      BY <1>1
    <2> QED  BY <1>4, <1>5, <2>1, <2>2 DEF KeyView!Fail
  <1>9. CASE s = "parked"
    <2>1. row1 = [row EXCEPT ![r] = "none"] /\ pd1 = [pd EXCEPT ![r] = pd[r] \cup {1}] /\ fd1 = fd
      BY <1>1, <1>2, <1>3, <1>9
    <2>2. 1 \in {1} \ (fd[r] \cup pd[r])
      BY <1>1
    <2> QED  BY <1>4, <1>5, <2>1, <2>2 DEF KeyView!Fail
  <1> QED  BY <1>6, <1>7, <1>8, <1>9

LEMMA RequeueRequeues ==
  ASSUME QInv, NEW all \in BOOLEAN, Requeue(all)
  PROVE  RowsInv' /\ KeyView!Requeue(all)
  <1> DEFINE back == {r \in Revisions : jobs[r] = "failed" \/ (all /\ jobs[r] = "parked")}
  <1>1. /\ jobs' = [r \in Revisions |-> IF r \in back THEN "ready" ELSE jobs[r]]
        /\ UNCHANGED <<gate, unsent, task>>
    BY DEF Requeue, sync
  <1>2. jobs \in [Revisions -> {"none", "ready", "running", "done", "failed", "parked"}]
    BY DEF QInv, Inv, TypeOK
  <1>3. RowsInv'
    BY <1>1, <1>2 DEF QInv, RowsInv
  <1>4. KeyView!Requeue(all)
    <2> DEFINE row == [x \in Revisions |-> IF jobs[x] \in {"ready", "running"} THEN jobs[x] ELSE "none"]
               row1 == [x \in Revisions |-> IF jobs'[x] \in {"ready", "running"} THEN jobs'[x] ELSE "none"]
               fd == [x \in Revisions |-> {i \in {1} : jobs[x] = "failed"}]
               pd == [x \in Revisions |-> {i \in {1} : jobs[x] = "parked"}]
               Back(x) == fd[x] \cup (IF all THEN pd[x] ELSE {})
    <2>1. \A x \in Revisions : Back(x) # {} <=> x \in back
      OBVIOUS
    <2>2. \A x \in Revisions : Back(x) # {} =>
            row[x] = "none" /\ \A i, j \in Back(x) : i = j
      OBVIOUS
    <2>3. row1 \in [Revisions -> KeyView!Status]
      BY DEF KeyView!Status
    <2>4. \A x \in Revisions : IF Back(x) # {} THEN row1[x] = "ready" ELSE row1[x] = row[x]
      BY <1>1, <2>1
    <2>5. [x \in Revisions |-> {i \in {1} : jobs'[x] = "failed"}] = KeyView!NoneFailed
      BY <1>1 DEF KeyView!NoneFailed
    <2>6. [x \in Revisions |-> {i \in {1} : jobs'[x] = "parked"}] =
            IF all THEN KeyView!NoneFailed ELSE pd
      BY <1>1, <1>2 DEF KeyView!NoneFailed
    <2>7. [w \in Workers |-> {x \in Revisions : task'[w].rev = x}] =
            [w \in Workers |-> {x \in Revisions : task[w].rev = x}]
      BY <1>1
    <2> HIDE DEF back
    <2> QED
      BY <2>2, <2>3, <2>4, <2>5, <2>6, <2>7 DEF KeyView!Requeue, KeyView!MayEnter
  <1> QED  BY <1>3, <1>4

LEMMA CrashRestarts ==
  ASSUME QInv, Crash
  PROVE  RowsInv' /\ KeyView!Restart
  <1>1. PICK over \in SUBSET {r \in Revisions : jobs[r] = "running"} :
          jobs' = [r \in Revisions |-> IF r \in over THEN "ready" ELSE jobs[r]]
    BY DEF Crash
  <1>2. /\ unsent' = {} /\ gate' = gate
        /\ \A w \in Workers : task'[w].rev = None
    BY DEF Crash, Idle
  <1>3. jobs \in [Revisions -> {"none", "ready", "running", "done", "failed", "parked"}]
    BY DEF QInv, Inv, TypeOK
  <1>4. RowsInv'
    BY <1>1, <1>2, <1>3, IdsAssumption DEF QInv, RowsInv
  <1>5. KeyView!Restart
    <2> DEFINE row == [x \in Revisions |-> IF jobs[x] \in {"ready", "running"} THEN jobs[x] ELSE "none"]
    <2>1. over \in SUBSET {x \in Revisions : row[x] = "running"}
      OBVIOUS
    <2>2. [x \in Revisions |-> IF jobs'[x] \in {"ready", "running"} THEN jobs'[x] ELSE "none"] =
            [x \in Revisions |-> IF x \in over THEN "ready" ELSE row[x]]
      BY <1>1
    <2>3. [w \in Workers |-> {x \in Revisions : task'[w].rev = x}] = KeyView!NoneOwned
      BY <1>2, IdsAssumption DEF KeyView!NoneOwned
    <2>4. /\ [x \in Revisions |-> {i \in {1} : jobs'[x] = "failed"}] =
               [x \in Revisions |-> {i \in {1} : jobs[x] = "failed"}]
          /\ [x \in Revisions |-> {i \in {1} : jobs'[x] = "parked"}] =
               [x \in Revisions |-> {i \in {1} : jobs[x] = "parked"}]
      BY <1>1
    <2> QED  BY <2>1, <2>2, <2>3, <2>4 DEF KeyView!Restart
  <1> QED  BY <1>4, <1>5

\* Every step is one of the queue's, or none.
LEMMA StepsUseKeyQueue ==
  ASSUME QInv, [Next]_vars
  PROVE  RowsInv' /\ (KeyView!Works \/ UNCHANGED KeyView!vars)
  <1>0. Inv /\ RowsInv
    BY DEF QInv
  <1>1. ASSUME NEW r \in Revisions, Ingest(r)
        PROVE  RowsInv' /\ UNCHANGED KeyView!vars
    <2>1. UNCHANGED <<jobs, task>> /\ gate' = gate \cup {r} /\ unsent' = unsent \cup {r}
      BY <1>1 DEF Ingest
    <2>2. r \notin gate
      BY <1>1, RevisionsAssumption DEF Ingest
    <2>3. RowsInv'
      BY <1>0, <2>1, <2>2 DEF RowsInv
    <2> QED  BY <2>1, <2>3, Unseen
  <1>2. ASSUME NEW r \in Revisions, Enqueue(r) PROVE RowsInv' /\ KeyView!Works
    BY <1>2, EnqueueEnters DEF KeyView!Works
  <1>3. ASSUME NEW all \in BOOLEAN, Requeue(all) PROVE RowsInv' /\ KeyView!Works
    BY <1>3, RequeueRequeues DEF KeyView!Works
  <1>4. ASSUME NEW w \in Workers, NEW r \in Revisions, Claim(w, r) PROVE RowsInv' /\ KeyView!Works
    BY <1>4, ClaimTakes DEF KeyView!Works
  <1>5. ASSUME NEW w \in Workers, Settle(w) \/ Fail(w) PROVE RowsInv' /\ KeyView!Works
    <2>1. PICK r \in Revisions : task[w].rev = r
      BY <1>0, <1>5 DEF Inv, TaskOK, Settle, Fail
    <2>2. PICK s \in {"done", "ready", "failed", "parked"} : Settles(w, r, s)
      BY <1>5, <2>1 DEF Settle, Fail, Settles
    <2>3. RowsInv' /\ (KeyView!Finish(w, r) \/ KeyView!PutBack(w, r) \/ KeyView!Fail(w, r))
      BY <2>2, SettlesIsStep
    <2> QED  BY <2>3, Zenon DEF KeyView!Works
  <1>6. ASSUME NEW w \in Workers, AppendRoot(w) \/ ReadMerge(w) \/ Seals(w)
        PROVE  RowsInv' /\ UNCHANGED KeyView!vars
    <2>1. UNCHANGED <<jobs, sync>> /\ \A v \in Workers : task'[v].rev = task[v].rev
      BY <1>0, <1>6, TasksWithoutRows DEF Seals
    <2> QED  BY <1>0, <2>1, Unseen
  <1>7. CASE Crash
    BY <1>7, CrashRestarts DEF KeyView!Works
  <1>8. CASE UNCHANGED vars
    <2>1. UNCHANGED <<jobs, sync, task>>
      BY <1>8 DEF vars, sync
    <2> QED  BY <1>0, <2>1, Unseen
  <1> QED  BY <1>1, <1>2, <1>3, <1>4, <1>5, <1>6, <1>7, <1>8 DEF Next, Handles

\* The sync, the workers, the retries and the restarts treat the rows of the seal jobs as
\* the queue allows: what DocSubtree says of the queue is what KeyQueue says.
THEOREM SealsUse == Spec => SealsUseKeyQueue
  <1>1. Init => QInv /\ KeyView!Init
    <2>1. Init => RowsInv
      BY IdsAssumption DEF Init, RowsInv, Idle
    <2>2. Init => KeyView!Init
      BY IdsAssumption DEF Init, Idle, KeyView!Init, KeyView!NoneFailed, KeyView!NoneOwned
    <2> QED  BY <2>1, <2>2, InitInv DEF QInv
  <1>2. QInv /\ [Next]_vars => QInv' /\ [KeyView!Works]_(KeyView!vars)
    BY NextInv, StepsUseKeyQueue DEF QInv
  <1> QED  BY <1>1, <1>2, PTL DEF Spec, SealsUseKeyQueue, KeyView!SteadySpec
=============================================================================
