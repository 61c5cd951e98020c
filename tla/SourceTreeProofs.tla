-------------------------- MODULE SourceTreeProofs --------------------------
(***************************************************************************)
(* Safety of SourceTree for any chunks, workers, budget, fan-in and levels, *)
(* and any number of crashes, failures and manual flushes.                 *)
(***************************************************************************)
EXTENDS SourceTree, FiniteSetTheorems, TLAPS

InTree(c) == c \in buffers[0] \/ Summarised(c) \/ c \in overtaken

(* Failed rows are counted.                                                 *)
Counted ==
  /\ crashes \in 0..MaxCrashes /\ failures \in 0..MaxFailures
  /\ flushes \in 0..MaxManualFlushes
  /\ \A k \in JobKeys : failed[k] \in 0..failures

(* A summary that is not written has no children.                           *)
FreshIsEmpty == \A s \in SummaryIds : level[s] = 0 => children[s] = {}

(* Buffers, reads and child lists name written summaries.                   *)
WrittenOnly ==
  \A s \in SummaryIds : level[s] = 0 =>
    /\ \A l \in Levels : s \notin buffers[l]
    /\ \A x \in SummaryIds : s \notin children[x]
    /\ \A a \in Actors : s \notin task[a].snap

(* A seal read at least the fan-in above the leaves.                        *)
SnapMeetsGate ==
  \A a \in Actors :
    task[a].stage = "model" /\ task[a].level > 0 => Cardinality(task[a].snap) >= Fanout

(* What is in a buffer under a seal was read by it, or came after it.       *)
SnapCoversBuffer ==
  \A a \in Actors : task[a].stage = "model" =>
    \A i \in buffers[task[a].level] :
      i \in task[a].snap \/ Summarised(i) \/ i \in overtaken

(* An append job is past "work" only after its push.                        *)
AppendedIsInTree ==
  \A w \in Workers, c \in Chunks :
    task[w].stage \in {"model", "settle"} /\ task[w].job = Append(c) => InTree(c)

(* While nothing fails and nobody flushes by hand:                          *)
Calm == crashes = 0 /\ failures = 0 /\ flushes = 0

(* a row is running exactly while one worker has it,                        *)
OneWorkerPerJob ==
  Calm =>
    /\ \A k \in JobKeys : failed[k] = 0
    /\ task[Rpc] = Idle
    /\ \A w \in Workers : task[w] # Idle =>
         /\ task[w].job \in JobKeys /\ jobs[task[w].job] = "running"
         /\ task[w].stage \in {"work", "model", "settle"}
    /\ \A w1, w2 \in Workers :
         task[w1] # Idle /\ task[w2] # Idle /\ task[w1].job = task[w2].job => w1 = w2

(* a seal is its level's job and reads no more than its buffer,             *)
SealsAreJobs ==
  Calm => \A w \in Workers : task[w].stage = "model" =>
    task[w].job = Seal(task[w].level) /\ task[w].snap \subseteq buffers[task[w].level]

(* a chunk is extracted once,                                               *)
Past(c) == status[c] \notin {"absent", "pending"}
ExtractedOnce ==
  Calm => \A c \in Chunks :
    Past(c) /\ IsActive(jobs, Extract(c)) =>
      \E w \in Workers : task[w].stage = "settle" /\ task[w].job = Extract(c)

(* pushed once,                                                             *)
AppendedOnce ==
  Calm => \A c \in Chunks :
    /\ ~Past(c) => ~IsActive(jobs, Append(c))
    /\ ~Past(c) => c \notin buffers[0] /\ ~Summarised(c)
    /\ IsActive(jobs, Append(c)) /\ (c \in buffers[0] \/ Summarised(c)) =>
         \E w \in Workers : task[w].stage = "settle" /\ task[w].job = Append(c)

(* and leaves its buffer as it gets its summary.                            *)
WaitsOrIsSummarised ==
  Calm => /\ \A l \in Levels : \A i \in buffers[l] : ~Summarised(i)
          /\ \A i \in Chunks, l \in Levels : i \in buffers[l] => l = 0
          /\ \A s \in SummaryIds, l \in Levels : s \in buffers[l] => l = level[s] /\ l > 0

IInv ==
  /\ TypeOK /\ Counted
  /\ FreshIsEmpty /\ WrittenOnly
  /\ ParentListsChild /\ RootIsHighest
  /\ SnapMeetsGate /\ FaninRespected
  /\ SnapCoversBuffer /\ OnlyOvertakenAreLost
  /\ AppendedIsInTree /\ AdmittedIsPursued
  /\ OneWorkerPerJob /\ SealsAreJobs
  /\ ExtractedOnce /\ AppendedOnce
  /\ WaitsOrIsSummarised /\ ChildSealsOnce

(* The dedupe keys of different kinds, chunks and levels differ.            *)
LEMMA KeysDiffer ==
  /\ \A c, d : Append(c) # Extract(d)
  /\ \A c, d : Append(c) = Append(d) => c = d
  /\ \A c, d : Extract(c) = Extract(d) => c = d
  /\ \A c, l : Append(c) # Seal(l) /\ Extract(c) # Seal(l)
  /\ \A c : Append(c) # FlushStale /\ Extract(c) # FlushStale
  /\ \A l, n : Seal(l) = Seal(n) => l = n
  /\ \A l : Seal(l) # FlushStale
BY DEF Append, Extract, Seal, FlushStale

LEMMA KeysExist ==
  /\ \A c \in Chunks : Extract(c) \in JobKeys /\ Append(c) \in JobKeys
  /\ \A l \in Levels : Seal(l) \in JobKeys
  /\ FlushStale \in JobKeys
BY DEF JobKeys

LEMMA LevelsFact ==
  /\ Levels \subseteq Nat /\ 0 \in Levels
  /\ \A l \in Levels : l < Top => l + 1 \in Levels
  /\ Top \in Nat
BY FanoutAssumption DEF Levels

(* What the commit of a seal writes.                                        *)
LEMMA SealWrites ==
  ASSUME TypeOK, NEW a \in Actors, NEW s \in SummaryIds, CommitSeal(a, s)
  PROVE  LET l    == task[a].level
             snap == task[a].snap
         IN  /\ task[a].stage = "model" /\ snap \subseteq Items /\ snap # {}
             /\ l \in Nat /\ l < Top /\ l \in Levels /\ l + 1 \in Levels
             /\ level[s] = 0 /\ level'[s] = l + 1
             /\ \A x \in SummaryIds \ {s} : level'[x] = level[x]
             /\ children'[s] = snap
             /\ \A x \in SummaryIds \ {s} : children'[x] = children[x]
             /\ \A i \in Items :
                  parent'[i] = IF i \in snap /\ parent[i] = None THEN s ELSE parent[i]
             /\ buffers'[l] = {} /\ buffers'[l + 1] = buffers[l + 1] \cup {s}
             /\ \A n \in Levels \ {l, l + 1} : buffers'[n] = buffers[n]
             /\ overtaken \subseteq overtaken'
             /\ Sealing(l + 1) # {} => s \in overtaken'
             /\ root' = IF l + 1 > maxLevel THEN s ELSE root
             /\ maxLevel' = IF l + 1 > maxLevel THEN l + 1 ELSE maxLevel
             /\ UNCHANGED <<status, failed, forced, active, bounds>>
<1> DEFINE l == task[a].level
           snap == task[a].snap
<1>1. task[a].stage = "model" /\ level[s] = 0 /\ l < Top
  BY DEF CommitSeal
<1>2. l \in Levels /\ snap \subseteq Items /\ snap # {}
  BY <1>1 DEF TypeOK
<1>3. l \in Nat /\ l \in Levels /\ l + 1 \in Levels /\ l # l + 1
  BY <1>1, <1>2, FanoutAssumption DEF Levels
<1>4. /\ children' = [children EXCEPT ![s] = snap] /\ level' = [level EXCEPT ![s] = l + 1]
      /\ parent' = Linked(snap, s) /\ buffers' = Sealed(l, s)
      /\ overtaken' = IF Sealing(l + 1) # {} THEN overtaken \cup {s} ELSE overtaken
      /\ root' = (IF Climbs(l) THEN s ELSE root)
      /\ maxLevel' = (IF Climbs(l) THEN l + 1 ELSE maxLevel)
      /\ UNCHANGED <<status, failed, forced, active, bounds>>
  BY DEF CommitSeal
<1>5. /\ buffers'[l] = {} /\ buffers'[l + 1] = buffers[l + 1] \cup {s}
      /\ \A n \in Levels \ {l, l + 1} : buffers'[n] = buffers[n]
  BY <1>3, <1>4 DEF Sealed, TypeOK
<1>6. \A i \in Items : parent'[i] = IF i \in snap /\ parent[i] = None THEN s ELSE parent[i]
  BY <1>4 DEF Linked
<1> HIDE DEF l, snap
<1>7. /\ children'[s] = snap /\ level'[s] = l + 1
      /\ \A x \in SummaryIds \ {s} : children'[x] = children[x] /\ level'[x] = level[x]
  BY <1>4 DEF TypeOK
<1>8. /\ root' = (IF l + 1 > maxLevel THEN s ELSE root)
      /\ maxLevel' = (IF l + 1 > maxLevel THEN l + 1 ELSE maxLevel)
  BY <1>4 DEF Climbs
<1>9. overtaken \subseteq overtaken' /\ (Sealing(l + 1) # {} => s \in overtaken')
  BY <1>4
<1> USE DEF l, snap
<1> QED
  BY <1>1, <1>2, <1>3, <1>4, <1>5, <1>6, <1>7, <1>8, <1>9

(* What it does to its actor and to the jobs.                               *)
LEMMA SealMoves ==
  ASSUME TypeOK, NEW a \in Actors, NEW s \in SummaryIds, CommitSeal(a, s)
  PROVE  /\ \A b \in Actors \ {a} : task'[b] = task[b]
         /\ task'[a].snap \subseteq task[a].snap /\ task'[a].stage \in {"read", "settle"}
         /\ task'[a].level \in Levels
         /\ \/ /\ a = Rpc /\ jobs' = jobs
               /\ task'[a] = At("read", None, task[a].level + 1, {})
            \/ /\ a # Rpc /\ a \in Workers /\ task'[a] = [task[a] EXCEPT !.stage = "settle"]
               /\ jobs' = jobs \/ jobs' = Enqueued(jobs, Seal(task[a].level + 1))
<1>1. a \in DOMAIN task /\ task[a].level \in Levels
  BY DEF TypeOK
<1>2. task[a].level + 1 \in Levels
  BY SealWrites
<1>3. CASE a = Rpc
  <2>1. jobs' = jobs /\ task' = [task EXCEPT ![a] = At("read", None, task[a].level + 1, {})]
    BY <1>3 DEF CommitSeal
  <2>2. task'[a] = At("read", None, task[a].level + 1, {})
    BY <1>1, <2>1
  <2> QED
    BY <1>2, <1>3, <2>1, <2>2 DEF At, TypeOK
<1>4. CASE a # Rpc
  <2>1. a \in Workers /\ task' = [task EXCEPT ![a].stage = "settle"]
    BY <1>4 DEF CommitSeal, Moved, Actors
  <2>2. task'[a] = [task[a] EXCEPT !.stage = "settle"]
    BY <1>1, <2>1
  <2>3. /\ task'[a].snap = task[a].snap /\ task'[a].stage = "settle"
        /\ task'[a].level = task[a].level
    BY <2>2, <1>1 DEF TypeOK
  <2>4. jobs' = jobs \/ jobs' = Enqueued(jobs, Seal(task[a].level + 1))
    BY <1>4 DEF CommitSeal
  <2> QED
    BY <1>1, <1>4, <2>1, <2>2, <2>3, <2>4 DEF TypeOK
<1> QED
  BY <1>3, <1>4

(* An enqueue makes no row idle and no row that was not idle ready.         *)
LEMMA EnqueuedFact ==
  ASSUME NEW j \in [JobKeys -> {"none", "ready", "running"}], NEW k \in JobKeys
  PROVE  /\ Enqueued(j, k) \in [JobKeys -> {"none", "ready", "running"}]
         /\ IsActive(Enqueued(j, k), k)
         /\ \A n \in JobKeys : j[n] # "none" => Enqueued(j, k)[n] = j[n]
         /\ \A n \in JobKeys \ {k} : Enqueued(j, k)[n] = j[n]
         /\ Enqueued(j, k)[k] # "none"
BY DEF Enqueued, IsActive

(* A handler that returns leaves everything but its stage.                  *)
LEMMA MovedFact ==
  ASSUME TypeOK, NEW w \in Workers, task' = Moved(w, "settle")
  PROVE  /\ \A b \in Actors \ {w} : task'[b] = task[b]
         /\ task'[w] = [task[w] EXCEPT !.stage = "settle"]
         /\ task'[w].stage = "settle" /\ task'[w].job = task[w].job /\ task'[w] # Idle
         /\ task'[w].level = task[w].level /\ task'[w].snap = task[w].snap
<1>1. w \in Actors /\ task[w] \in [stage: {"idle", "work", "model", "settle", "read"},
                          job: JobKeys \cup {None}, level: Levels, snap: SUBSET Items]
  BY DEF TypeOK, Actors
<1>2. /\ \A b \in Actors \ {w} : task'[b] = task[b]
      /\ task'[w] = [task[w] EXCEPT !.stage = "settle"]
  BY <1>1 DEF TypeOK, Moved
<1>3. task'[w].stage = "settle" /\ task'[w].job = task[w].job
      /\ task'[w].level = task[w].level /\ task'[w].snap = task[w].snap
  BY <1>1, <1>2
<1>4. task'[w] # Idle
  BY <1>3 DEF Idle
<1> QED
  BY <1>2, <1>3, <1>4

(* An enqueue leaves the active keys active, and adds only its own.         *)
LEMMA StaysActive ==
  ASSUME TypeOK, NEW k \in JobKeys, jobs' = jobs \/ jobs' = Enqueued(jobs, k)
  PROVE  /\ \A n \in JobKeys : IsActive(jobs, n) => IsActive(jobs', n) /\ jobs'[n] = jobs[n]
         /\ \A n \in JobKeys \ {k} : jobs'[n] = jobs[n]
         /\ jobs' \in [JobKeys -> {"none", "ready", "running"}]
BY EnqueuedFact DEF IsActive, TypeOK

(* The enqueue of a seal leaves the chunks' jobs alone.                     *)
LEMMA ChunkJobsStay ==
  ASSUME TypeOK, NEW l \in Levels, jobs' = jobs \/ jobs' = Enqueued(jobs, Seal(l))
  PROVE  \A d \in Chunks : /\ jobs'[Extract(d)] = jobs[Extract(d)]
                           /\ jobs'[Append(d)] = jobs[Append(d)]
<1>1. Seal(l) \in JobKeys
  BY KeysExist
<1>2. \A n \in JobKeys \ {Seal(l)} : jobs'[n] = jobs[n]
  BY <1>1, StaysActive
<1>3. \A d \in Chunks : /\ Extract(d) \in JobKeys \ {Seal(l)}
                        /\ Append(d) \in JobKeys \ {Seal(l)}
  BY KeysExist, KeysDiffer
<1> QED
  BY <1>2, <1>3

(* What the failure of a job writes.                                        *)
LEMMA FailWrites ==
  ASSUME NEW w \in Workers, Fail(w)
  PROVE  /\ w \in Actors /\ task[w].stage \in {"work", "model", "settle"}
         /\ failures' = failures + 1 /\ failures < MaxFailures
         /\ task' = [task EXCEPT ![w] = Idle]
         /\ \/ jobs' = [jobs EXCEPT ![task[w].job] = "ready"] /\ failed' = failed
            \/ /\ jobs' = [jobs EXCEPT ![task[w].job] = "none"]
               /\ failed' = [failed EXCEPT ![task[w].job] = failed[task[w].job] + 1]
         /\ UNCHANGED <<status, tree, forced, active, crashes, flushes>>
<1>1. task[w].stage \in {"work", "model", "settle"}
  BY DEF Fail
<1>2. failures' = failures + 1 /\ failures < MaxFailures /\ task' = [task EXCEPT ![w] = Idle]
  BY DEF Fail
<1>3. \/ jobs' = [jobs EXCEPT ![task[w].job] = "ready"] /\ failed' = failed
      \/ /\ jobs' = [jobs EXCEPT ![task[w].job] = "none"]
         /\ failed' = [failed EXCEPT ![task[w].job] = failed[task[w].job] + 1]
  BY DEF Fail
<1>4. UNCHANGED <<status, tree, forced, active, crashes, flushes>>
  BY DEF Fail
<1> QED
  BY <1>1, <1>2, <1>3, <1>4 DEF Actors

(* What is in the tree stays there, or is overtaken, when a seal commits.   *)
LEMMA SealKeeps ==
  ASSUME IInv, NEW a \in Actors, NEW s \in SummaryIds, CommitSeal(a, s)
  PROVE  /\ \A i : Summarised(i) => Summarised(i)'
         /\ \A n \in Levels : \A i \in buffers[n] :
              i \in buffers'[n] \/ Summarised(i)' \/ i \in overtaken'
<1>1. TypeOK /\ FreshIsEmpty /\ SnapCoversBuffer
  BY DEF IInv
<1>2. \A x \in SummaryIds \ {s} : children'[x] = children[x]
  BY <1>1, SealWrites
<1>3. children[s] = {} /\ children'[s] = task[a].snap
  BY <1>1, SealWrites DEF FreshIsEmpty
<1>4. ASSUME NEW i, Summarised(i)
      PROVE  Summarised(i)'
  BY <1>2, <1>3, <1>4 DEF Summarised
<1>5. ASSUME NEW n \in Levels, NEW i \in buffers[n]
      PROVE  i \in buffers'[n] \/ Summarised(i)' \/ i \in overtaken'
  <2>1. CASE n = task[a].level
    <3>1. i \in task[a].snap \/ Summarised(i) \/ i \in overtaken
      BY <1>1, <1>5, <2>1, SealWrites DEF SnapCoversBuffer
    <3>2. i \in task[a].snap => Summarised(i)'
      BY <1>3 DEF Summarised
    <3>3. overtaken \subseteq overtaken'
      BY <1>1, SealWrites
    <3> QED
      BY <1>4, <3>1, <3>2, <3>3
  <2>2. CASE n # task[a].level
    BY <1>1, <1>5, <2>2, SealWrites
  <2> QED
    BY <2>1, <2>2
<1> QED
  BY <1>4, <1>5

(* And when an append commits.                                              *)
LEMMA AppendWrites ==
  ASSUME TypeOK, NEW w \in Workers, NEW c \in Chunks, HandleAppend(w, c)
  PROVE  /\ buffers'[0] = buffers[0] \cup {c}
         /\ \A n \in Levels \ {0} : buffers'[n] = buffers[n]
         /\ overtaken \subseteq overtaken'
         /\ Sealing(0) # {} /\ c \notin buffers[0] => c \in overtaken'
         /\ \A b \in Actors \ {w} : task'[b] = task[b]
         /\ task'[w] = [task[w] EXCEPT !.stage = "settle"]
         /\ task'[w].stage = "settle" /\ task'[w].job = Append(c) /\ task'[w] # Idle
         /\ task[w].stage = "work" /\ task[w].job = Append(c)
         /\ status'[c] = "buffered" /\ \A d \in Chunks \ {c} : status'[d] = status[d]
         /\ jobs' = jobs \/ jobs' = Enqueued(jobs, Seal(0))
         /\ UNCHANGED <<children, level, failed, bounds>>
<1>1. /\ buffers' = [buffers EXCEPT ![0] = buffers[0] \cup {c}]
      /\ status' = [status EXCEPT ![c] = "buffered"]
      /\ overtaken' = IF Sealing(0) # {} /\ c \notin buffers[0]
                        THEN overtaken \cup {c} ELSE overtaken
      /\ task' = [task EXCEPT ![w].stage = "settle"]
      /\ task[w].stage = "work" /\ task[w].job = Append(c)
      /\ jobs' = SealFollowUp(buffers[0] \cup {c})
      /\ UNCHANGED <<children, level, failed, bounds>>
  BY DEF HandleAppend, Moved
<1>2. /\ buffers'[0] = buffers[0] \cup {c}
      /\ \A n \in Levels \ {0} : buffers'[n] = buffers[n]
  BY <1>1, LevelsFact DEF TypeOK
<1>3. w \in Actors /\ task[w] \in [stage: {"idle", "work", "model", "settle", "read"},
                          job: JobKeys \cup {None}, level: Levels, snap: SUBSET Items]
  BY DEF TypeOK, Actors
<1>4. /\ \A b \in Actors \ {w} : task'[b] = task[b]
      /\ task'[w] = [task[w] EXCEPT !.stage = "settle"]
  BY <1>1, <1>3 DEF TypeOK
<1>5. task'[w].stage = "settle" /\ task'[w].job = Append(c)
  BY <1>1, <1>3, <1>4
<1>9. task'[w] # Idle
  BY <1>5 DEF Idle
<1>6. jobs' = jobs \/ jobs' = Enqueued(jobs, Seal(0))
  BY <1>1 DEF SealFollowUp
<1>7. status'[c] = "buffered" /\ \A d \in Chunks \ {c} : status'[d] = status[d]
  BY <1>1 DEF TypeOK
<1>8. overtaken \subseteq overtaken' /\ (Sealing(0) # {} /\ c \notin buffers[0] => c \in overtaken')
  BY <1>1
<1> QED
  BY <1>1, <1>2, <1>4, <1>5, <1>6, <1>7, <1>8, <1>9

(* While nothing fails, a seal is a worker's and summarises what waits in   *)
(* its level's buffer and nowhere else.                                     *)
LEMMA CalmSeal ==
  ASSUME IInv, Calm, NEW a \in Actors, NEW s \in SummaryIds, CommitSeal(a, s)
  PROVE  /\ a \in Workers /\ a # Rpc /\ task[a].job = Seal(task[a].level)
         /\ task[a].snap \subseteq buffers[task[a].level]
         /\ \A i \in task[a].snap : ~Summarised(i)
         /\ \A n \in Levels : \A i \in task[a].snap : i \notin buffers'[n]
         /\ \A i : Summarised(i)' <=> (Summarised(i) \/ i \in task[a].snap)
         /\ ~Summarised(s) /\ s \notin task[a].snap
         /\ \A n \in Levels : s \notin buffers[n]
         /\ \A c \in Chunks : /\ c \in buffers'[0] => c \in buffers[0]
                              /\ c \in task[a].snap => c \in buffers[0]
<1>1. /\ TypeOK /\ FreshIsEmpty /\ WrittenOnly /\ OneWorkerPerJob /\ SealsAreJobs
      /\ WaitsOrIsSummarised
  BY DEF IInv
<1>2. /\ task[a].stage = "model" /\ task[a].level \in Levels /\ task[a].level + 1 \in Levels
      /\ task[a].level \in Nat
      /\ level[s] = 0 /\ children'[s] = task[a].snap
      /\ \A x \in SummaryIds \ {s} : children'[x] = children[x]
  BY <1>1, SealWrites
<1>3. a \in Workers /\ a # Rpc
  BY <1>1, <1>2 DEF OneWorkerPerJob, Idle, Actors
<1>4. task[a].job = Seal(task[a].level) /\ task[a].snap \subseteq buffers[task[a].level]
  BY <1>1, <1>2, <1>3 DEF SealsAreJobs
<1>5. \A i \in task[a].snap : ~Summarised(i)
  BY <1>1, <1>2, <1>4 DEF WaitsOrIsSummarised
<1>6. ~Summarised(s) /\ s \notin task[a].snap /\ \A n \in Levels : s \notin buffers[n]
  BY <1>1, <1>2 DEF WrittenOnly, Summarised
<1>7. \A i : Summarised(i)' <=> (Summarised(i) \/ i \in task[a].snap)
  BY <1>1, <1>2 DEF FreshIsEmpty, Summarised
<1>8. ASSUME NEW n \in Levels, NEW i \in task[a].snap
      PROVE  i \notin buffers'[n]
  <2>1. CASE n = task[a].level
    BY <1>1, <2>1, SealWrites
  <2>2. CASE n # task[a].level
    <3>1. buffers'[n] \subseteq buffers[n] \cup {s}
      BY <1>1, <2>2, SealWrites
    <3>2. i \notin buffers[n]
      <4>1. i \in buffers[task[a].level] /\ i \in Items
        BY <1>1, <1>2, <1>4 DEF TypeOK
      <4> QED
        BY <1>1, <1>2, <2>2, <4>1 DEF WaitsOrIsSummarised, Items
    <3> QED
      BY <1>6, <3>1, <3>2
  <2> QED
    BY <2>1, <2>2
<1>9. ASSUME NEW c \in Chunks
      PROVE  /\ c \in buffers'[0] => c \in buffers[0]
             /\ c \in task[a].snap => c \in buffers[0]
  <2>1. buffers'[0] \subseteq buffers[0] \cup {s}
    BY <1>1, <1>2, SealWrites, LevelsFact
  <2>2. c \in buffers[task[a].level] => task[a].level = 0
    BY <1>1, <1>2 DEF WaitsOrIsSummarised
  <2> QED
    BY <1>4, <2>1, <2>2, ItemsAssumption
<1> QED
  BY <1>3, <1>4, <1>5, <1>6, <1>7, <1>8, <1>9

(* While nothing fails, an extraction runs before its chunk's admission and *)
(* an append before its push.                                               *)
LEMMA CalmRun ==
  ASSUME IInv, Calm, NEW w \in Workers, NEW c \in Chunks, task[w].stage = "work"
  PROVE  /\ task[w].job = Extract(c) => ~Past(c)
         /\ task[w].job = Append(c) => Past(c) /\ c \notin buffers[0] /\ ~Summarised(c)
<1>1. OneWorkerPerJob /\ ExtractedOnce /\ AppendedOnce
  BY DEF IInv
<1>2. task[w] # Idle
  BY DEF Idle
<1>3. jobs[task[w].job] = "running"
  BY <1>1, <1>2 DEF OneWorkerPerJob
<1>4. \A x \in Workers : task[x].stage = "settle" => task[x].job # task[w].job
  BY <1>1, <1>2 DEF OneWorkerPerJob, Idle
<1>5. task[w].job = Extract(c) => ~Past(c)
  BY <1>1, <1>3, <1>4 DEF ExtractedOnce, IsActive
<1>6. task[w].job = Append(c) => Past(c) /\ c \notin buffers[0] /\ ~Summarised(c)
  BY <1>1, <1>3, <1>4 DEF AppendedOnce, IsActive
<1> QED
  BY <1>5, <1>6

(* Every step is one of the actions'.                                       *)
LEMMA StepCases ==
  ASSUME [Next]_vars
  PROVE  \/ \E c \in Chunks : Ingest(c)
         \/ SchedulerTick \/ BecomesStale
         \/ \E w \in Workers, k \in JobKeys : Claim(w, k)
         \/ \E w \in Workers, c \in Chunks : HandleExtract(w, c)
         \/ \E w \in Workers, c \in Chunks : HandleAppend(w, c)
         \/ \E w \in Workers, l \in Levels : HandleSeal(w, l)
         \/ \E w \in Workers : HandleFlushStale(w)
         \/ \E w \in Workers : Settle(w)
         \/ \E w \in Workers : Fail(w)
         \/ \E a \in Actors, s \in SummaryIds : CommitSeal(a, s)
         \/ Sweep \/ ManualFlush \/ CascadeReads \/ ManualFlushFails \/ Crash
         \/ UNCHANGED vars
BY DEF Next

(* The steps of a run without crashes, failures and manual flushes.         *)
CalmNext ==
  \/ \E c \in Chunks : Ingest(c)
  \/ SchedulerTick
  \/ BecomesStale
  \/ \E w \in Workers : \/ \E k \in JobKeys : Claim(w, k)
                        \/ \E c \in Chunks : HandleExtract(w, c) \/ HandleAppend(w, c)
                        \/ \E l \in Levels : HandleSeal(w, l)
                        \/ HandleFlushStale(w)
                        \/ Settle(w)
  \/ \E a \in Actors, s \in SummaryIds : CommitSeal(a, s)

LEMMA CalmSteps ==
  ASSUME IInv, [Next]_vars, Calm'
  PROVE  Calm /\ (CalmNext \/ UNCHANGED vars)
<1>1. /\ Counted /\ (Calm => OneWorkerPerJob)
      /\ crashes \in Nat /\ failures \in Nat /\ flushes \in Nat
  BY BoundsAreNat DEF IInv, Counted
<1>2. ASSUME NEW w \in Workers, Fail(w) PROVE FALSE
  BY <1>1, <1>2, FailWrites DEF Calm
<1>3. ~Crash /\ ~ManualFlush
  BY <1>1 DEF Crash, ManualFlush, Calm
<1>4. ASSUME CalmNext \/ Sweep \/ CascadeReads \/ ManualFlushFails \/ UNCHANGED vars
      PROVE  UNCHANGED bounds
  BY <1>4 DEF CalmNext, Ingest, SchedulerTick, BecomesStale, Claim, HandleExtract,
     HandleAppend, HandleSeal, HandleFlushStale, Settle, CommitSeal, Sweep,
     CascadeReads, ManualFlushFails, vars, bounds
<1>5. CalmNext \/ Sweep \/ CascadeReads \/ ManualFlushFails \/ UNCHANGED vars
  BY <1>2, <1>3 DEF Next, CalmNext
<1>6. Calm
  BY <1>4, <1>5 DEF Calm, bounds
<1>7. ~Sweep /\ ~CascadeReads /\ ~ManualFlushFails
  BY <1>1, <1>6 DEF OneWorkerPerJob, Sweep, CascadeReads, ManualFlushFails, Idle
<1> QED
  BY <1>5, <1>6, <1>7

(* Every step keeps the types.                                              *)
LEMMA TypeOKStep == IInv /\ [Next]_vars => TypeOK'
<1> SUFFICES ASSUME IInv, [Next]_vars PROVE TypeOK'
  OBVIOUS
<1>1. ASSUME NEW c \in Chunks, Ingest(c)
      PROVE  TypeOK'
  BY <1>1 DEF IInv, Counted, TypeOK, Ingest, Enqueued, Actors, Idle, tree, bounds
<1>2. CASE SchedulerTick
  BY <1>2 DEF IInv, Counted, TypeOK, SchedulerTick, Enqueued, Actors, Idle, tree, bounds
<1>3. CASE BecomesStale
  BY <1>3 DEF IInv, Counted, TypeOK, BecomesStale, Actors, Idle, tree, bounds
<1>4. ASSUME NEW w \in Workers, NEW k \in JobKeys, Claim(w, k)
      PROVE  TypeOK'
  BY <1>4 DEF IInv, Counted, TypeOK, Claim, At, Actors, Idle, tree, bounds
<1>5. ASSUME NEW w \in Workers, NEW c \in Chunks, HandleExtract(w, c)
      PROVE  TypeOK'
  BY <1>5 DEF IInv, Counted, TypeOK, HandleExtract, ExtractFollowUp, Enqueued, Moved,
     Actors, Idle, tree, bounds
<1>6. ASSUME NEW w \in Workers, NEW c \in Chunks, HandleAppend(w, c)
      PROVE  TypeOK'
  <2>1. TypeOK
    BY DEF IInv
  <2>2. task' \in [Actors -> [stage: {"idle", "work", "model", "settle", "read"},
                             job: JobKeys \cup {None}, level: Levels, snap: SUBSET Items]]
    BY <1>6, <2>1 DEF HandleAppend, Moved, TypeOK
  <2>3. \A b \in Actors : task'[b].stage = "model" => task'[b].snap # {}
    <3>1. task'[w].stage = "settle" /\ \A b \in Actors \ {w} : task'[b] = task[b]
      BY <1>6, <2>1, AppendWrites
    <3> QED
      BY <2>1, <3>1 DEF TypeOK
  <2>4. jobs' \in [JobKeys -> {"none", "ready", "running"}]
    <3>1. Seal(0) \in JobKeys
      BY KeysExist, LevelsFact
    <3> QED
      BY <1>6, <2>1, <3>1, AppendWrites, StaysActive
  <2>5. buffers' \in [Levels -> SUBSET Items] /\ overtaken' \subseteq Items
    BY <1>6, <2>1 DEF HandleAppend, TypeOK, Items
  <2>6. status' \in [Chunks -> {"absent", "pending", "admitted", "buffered", "dropped"}]
        /\ forced' \in BOOLEAN
    BY <1>6, <2>1 DEF HandleAppend, TypeOK, Payload
  <2>7. UNCHANGED <<aged, active, children, level, parent, root, maxLevel, failed, failures>>
    BY <1>6 DEF HandleAppend, bounds
  <2> QED
    BY <2>1, <2>2, <2>3, <2>4, <2>5, <2>6, <2>7 DEF TypeOK
<1>7. ASSUME NEW w \in Workers, NEW l \in Levels, HandleSeal(w, l)
      PROVE  TypeOK'
  BY <1>7 DEF IInv, Counted, TypeOK, HandleSeal, MaySeal, ShouldSeal, At, Moved, Actors,
     Idle, tree, bounds
<1>8. ASSUME NEW w \in Workers, HandleFlushStale(w)
      PROVE  TypeOK'
  BY <1>8 DEF IInv, Counted, TypeOK, HandleFlushStale, FlushFollowUps, Enqueued, Payload,
     Moved, Actors, Idle, tree, bounds
<1>9. ASSUME NEW w \in Workers, Settle(w)
      PROVE  TypeOK'
  <2>1. TypeOK /\ w \in Actors
    BY <1>9 DEF IInv, Actors
  <2>2. jobs' \in [JobKeys -> {"none", "ready", "running"}]
    BY <1>9, <2>1 DEF Settle, TypeOK
  <2>3. task' = [task EXCEPT ![w] = Idle]
    BY <1>9 DEF Settle
  <2>4. Idle.stage = "idle" /\ Idle \in [stage: {"idle", "work", "model", "settle", "read"},
                             job: JobKeys \cup {None}, level: Levels, snap: SUBSET Items]
    BY LevelsFact DEF Idle
  <2>5. task' \in [Actors -> [stage: {"idle", "work", "model", "settle", "read"},
                             job: JobKeys \cup {None}, level: Levels, snap: SUBSET Items]]
    BY <2>1, <2>3, <2>4 DEF TypeOK
  <2>6. \A b \in Actors : task'[b].stage = "model" => task'[b].snap # {}
    BY <2>1, <2>3, <2>4 DEF TypeOK
  <2> QED
    BY <1>9, <2>1, <2>2, <2>5, <2>6 DEF Settle, TypeOK, tree, bounds
<1>10. ASSUME NEW w \in Workers, Fail(w)
      PROVE  TypeOK'
  <2>1. TypeOK /\ Counted /\ w \in Actors
    BY <1>10 DEF IInv, Actors
  <2>2. jobs' \in [JobKeys -> {"none", "ready", "running"}]
    BY <1>10, <2>1, FailWrites DEF TypeOK
  <2>3. failed' \in [JobKeys -> 0..MaxFailures]
    <3>1. \A k \in JobKeys : failed[k] \in Nat /\ failed[k] + 1 \in 0..MaxFailures
      BY <1>10, <2>1, FailWrites, BoundsAreNat DEF Counted
    <3> QED
      BY <1>10, <2>1, <3>1, FailWrites DEF TypeOK
  <2>4. Idle.stage = "idle" /\ Idle \in [stage: {"idle", "work", "model", "settle", "read"},
                             job: JobKeys \cup {None}, level: Levels, snap: SUBSET Items]
    BY LevelsFact DEF Idle
  <2>5. task' \in [Actors -> [stage: {"idle", "work", "model", "settle", "read"},
                             job: JobKeys \cup {None}, level: Levels, snap: SUBSET Items]]
    BY <1>10, <2>1, <2>4, FailWrites DEF TypeOK
  <2>6. \A b \in Actors : task'[b].stage = "model" => task'[b].snap # {}
    BY <1>10, <2>1, <2>4, FailWrites DEF TypeOK
  <2>7. UNCHANGED <<status, tree, forced, active>>
    BY <1>10, FailWrites
  <2> QED
    BY <2>1, <2>2, <2>3, <2>5, <2>6, <2>7 DEF TypeOK, tree
<1>11. ASSUME NEW a \in Actors, NEW s \in SummaryIds, CommitSeal(a, s)
      PROVE  TypeOK'
  <2>1. TypeOK
    BY DEF IInv
  <2>2. /\ task[a].stage = "model" /\ task[a].level \in Levels /\ task[a].level + 1 \in Levels
        /\ task[a].snap \subseteq Items
    BY <1>11, <2>1, SealWrites
  <2>3. buffers' \in [Levels -> SUBSET Items]
    BY <1>11, <2>1, <2>2 DEF CommitSeal, Sealed, TypeOK, Items
  <2>4. aged' \in BOOLEAN /\ overtaken' \subseteq Items
    BY <1>11, <2>1 DEF CommitSeal, TypeOK, Items
  <2>5. children' \in [SummaryIds -> SUBSET Items] /\ level' \in [SummaryIds -> Levels]
    BY <1>11, <2>1, <2>2 DEF CommitSeal, TypeOK
  <2>6. parent' \in [Items -> SummaryIds \cup {None}]
    BY <1>11, <2>1 DEF CommitSeal, Linked, TypeOK
  <2>7. root' \in SummaryIds \cup {None} /\ maxLevel' \in Levels
    BY <1>11, <2>1, <2>2 DEF CommitSeal, Climbs, TypeOK
  <2>8. jobs' \in [JobKeys -> {"none", "ready", "running"}]
    <3>1. Seal(task[a].level + 1) \in JobKeys
      BY <2>2, KeysExist
    <3> QED
      BY <1>11, <2>1, <3>1, SealMoves, StaysActive DEF TypeOK
  <2>9. task' \in [Actors -> [stage: {"idle", "work", "model", "settle", "read"},
                             job: JobKeys \cup {None}, level: Levels, snap: SUBSET Items]]
    BY <1>11, <2>1, <2>2 DEF CommitSeal, At, Moved, TypeOK
  <2>10. \A b \in Actors : task'[b].stage = "model" => task'[b].snap # {}
    BY <1>11, <2>1, SealMoves DEF TypeOK
  <2>11. UNCHANGED <<status, forced, active, failed, failures>>
    BY <1>11 DEF CommitSeal, bounds
  <2> QED
    BY <2>1, <2>3, <2>4, <2>5, <2>6, <2>7, <2>8, <2>9, <2>10, <2>11 DEF TypeOK
<1>12. CASE Sweep
  <2>1. TypeOK
    BY DEF IInv
  <2>2. jobs' \in [JobKeys -> {"none", "ready", "running"}]
    BY <1>12, <2>1 DEF Sweep, TypeOK
  <2>3. failed' \in [JobKeys -> 0..MaxFailures]
    BY <1>12, BoundsAreNat DEF Sweep
  <2>4. forced' \in BOOLEAN
    BY <1>12, <2>1 DEF Sweep, TypeOK
  <2>5. UNCHANGED <<status, tree, task, active>>
    BY <1>12 DEF Sweep
  <2> QED
    BY <2>1, <2>2, <2>3, <2>4, <2>5 DEF TypeOK, tree
<1>13. CASE ManualFlush
  <2>1. TypeOK
    BY DEF IInv
  <2>2. task' = [task EXCEPT ![Rpc] = At("read", None, 0, {})]
    BY <1>13 DEF ManualFlush
  <2>3. task' \in [Actors -> [stage: {"idle", "work", "model", "settle", "read"},
                             job: JobKeys \cup {None}, level: Levels, snap: SUBSET Items]]
    BY <2>1, <2>2, LevelsFact DEF At, TypeOK
  <2>4. \A b \in Actors : task'[b].stage = "model" => task'[b].snap # {}
    BY <2>1, <2>2 DEF At, TypeOK
  <2>5. active' \in BOOLEAN /\ UNCHANGED <<status, tree, jobs, failed, forced>>
    BY <1>13 DEF ManualFlush
  <2> QED
    BY <2>1, <2>3, <2>4, <2>5 DEF TypeOK, tree
<1>14. CASE CascadeReads
  <2> DEFINE l == task[Rpc].level
  <2>1. TypeOK /\ l \in Levels
    BY DEF IInv, TypeOK, Actors
  <2>2. \/ task' = [task EXCEPT ![Rpc] = Idle]
        \/ task' = [task EXCEPT ![Rpc] = At("model", None, l, buffers[l])] /\ buffers[l] # {}
    BY <1>14 DEF CascadeReads, MaySeal
  <2>3. buffers[l] \subseteq Items
    BY <2>1 DEF TypeOK
  <2> HIDE DEF l
  <2>4. task' \in [Actors -> [stage: {"idle", "work", "model", "settle", "read"},
                             job: JobKeys \cup {None}, level: Levels, snap: SUBSET Items]]
    BY <2>1, <2>2, <2>3, LevelsFact DEF At, Idle, TypeOK
  <2>5. \A b \in Actors : task'[b].stage = "model" => task'[b].snap # {}
    BY <2>1, <2>2 DEF At, Idle, TypeOK
  <2>6. active' \in BOOLEAN /\ UNCHANGED <<status, tree, jobs, failed, forced>>
    BY <1>14, <2>1 DEF CascadeReads, TypeOK
  <2> QED
    BY <2>1, <2>4, <2>5, <2>6 DEF TypeOK, tree
<1>15. CASE ManualFlushFails
  <2>1. TypeOK
    BY DEF IInv
  <2>2. task' = [task EXCEPT ![Rpc] = Idle] /\ UNCHANGED <<status, tree, jobs, failed, forced, active>>
    BY <1>15 DEF ManualFlushFails
  <2>3. Idle.stage = "idle" /\ Idle \in [stage: {"idle", "work", "model", "settle", "read"},
                             job: JobKeys \cup {None}, level: Levels, snap: SUBSET Items]
    BY LevelsFact DEF Idle
  <2>4. task' \in [Actors -> [stage: {"idle", "work", "model", "settle", "read"},
                             job: JobKeys \cup {None}, level: Levels, snap: SUBSET Items]]
    BY <2>1, <2>2, <2>3 DEF TypeOK
  <2>5. \A b \in Actors : task'[b].stage = "model" => task'[b].snap # {}
    BY <2>1, <2>2, <2>3 DEF TypeOK
  <2> QED
    BY <2>1, <2>2, <2>4, <2>5 DEF TypeOK, tree
<1>16. CASE Crash
  <2>1. TypeOK
    BY DEF IInv
  <2>2. jobs' \in [JobKeys -> {"none", "ready", "running"}]
    BY <1>16, <2>1 DEF Crash, TypeOK
  <2>3. Idle.stage = "idle" /\ Idle \in [stage: {"idle", "work", "model", "settle", "read"},
                             job: JobKeys \cup {None}, level: Levels, snap: SUBSET Items]
    BY LevelsFact DEF Idle
  <2>4. task' \in [Actors -> [stage: {"idle", "work", "model", "settle", "read"},
                             job: JobKeys \cup {None}, level: Levels, snap: SUBSET Items]]
    BY <1>16, <2>3 DEF Crash
  <2>5. \A b \in Actors : task'[b].stage = "model" => task'[b].snap # {}
    BY <1>16, <2>3 DEF Crash
  <2>6. active' \in BOOLEAN /\ UNCHANGED <<status, tree, failed, forced>>
    BY <1>16 DEF Crash
  <2> QED
    BY <2>1, <2>2, <2>4, <2>5, <2>6 DEF TypeOK, tree
<1>17. ASSUME \/ UNCHANGED vars
      PROVE  TypeOK'
  <2>1. UNCHANGED <<status, buffers, aged, children, level, parent, root, maxLevel, jobs, failed, forced, task, active, overtaken, failures>>
    BY <1>17 DEF vars, tree, bounds
  <2> QED
    BY <2>1 DEF IInv, TypeOK
<1> QED
  BY <1>1, <1>2, <1>3, <1>4, <1>5, <1>6, <1>7, <1>8, <1>9, <1>10, <1>11, <1>12, <1>13,
     <1>14, <1>15, <1>16, <1>17, StepCases

(* Failures, and failed rows, are counted.                                  *)
LEMMA CountedStep == IInv /\ [Next]_vars => Counted'
<1> SUFFICES ASSUME IInv, [Next]_vars PROVE Counted'
  OBVIOUS
<1>1. ASSUME NEW w \in Workers, Fail(w)
      PROVE  Counted'
  <2>1. TypeOK /\ Counted
    BY DEF IInv
  <2>2. failures' = failures + 1 /\ failures < MaxFailures /\ UNCHANGED <<crashes, flushes>>
    BY <1>1, FailWrites
  <2>3. \A k \in JobKeys : failed'[k] \in {failed[k], failed[k] + 1}
    BY <1>1, <2>1, FailWrites DEF TypeOK
  <2> QED
    BY <2>1, <2>2, <2>3, BoundsAreNat DEF Counted
<1>2. CASE Sweep
  BY <1>2 DEF IInv, TypeOK, Counted, Sweep, Actors, Idle, tree, bounds
<1>3. CASE ManualFlush
  <2>1. flushes' = flushes + 1 /\ flushes < MaxManualFlushes /\ UNCHANGED <<crashes, failures, failed>>
    BY <1>3 DEF ManualFlush
  <2> QED
    BY <2>1, BoundsAreNat DEF IInv, Counted
<1>4. CASE Crash
  <2>1. crashes' = crashes + 1 /\ crashes < MaxCrashes /\ UNCHANGED <<failures, flushes, failed>>
    BY <1>4 DEF Crash
  <2> QED
    BY <2>1, BoundsAreNat DEF IInv, Counted
<1>5. ASSUME \/ \E c \in Chunks : Ingest(c)
             \/ SchedulerTick
             \/ BecomesStale
             \/ \E w \in Workers, k \in JobKeys : Claim(w, k)
             \/ \E w \in Workers, c \in Chunks : HandleExtract(w, c)
             \/ \E w \in Workers, c \in Chunks : HandleAppend(w, c)
             \/ \E w \in Workers, l \in Levels : HandleSeal(w, l)
             \/ \E w \in Workers : HandleFlushStale(w)
             \/ \E w \in Workers : Settle(w)
             \/ \E a \in Actors, s \in SummaryIds : CommitSeal(a, s)
             \/ CascadeReads
             \/ ManualFlushFails
             \/ UNCHANGED vars
      PROVE  Counted'
  <2>1. UNCHANGED <<failed, crashes, failures, flushes>>
    BY <1>5 DEF Ingest, SchedulerTick, BecomesStale, Claim, HandleExtract, HandleAppend,
     HandleSeal, HandleFlushStale, Settle, CommitSeal, CascadeReads, ManualFlushFails,
     vars, tree, bounds
  <2> QED
    BY <2>1 DEF IInv, Counted
<1> QED
  BY <1>1, <1>2, <1>3, <1>4, <1>5, StepCases

(* Only the seal that writes a summary gives it children.                   *)
LEMMA FreshIsEmptyStep == IInv /\ [Next]_vars => FreshIsEmpty'
<1> SUFFICES ASSUME IInv, [Next]_vars PROVE FreshIsEmpty'
  OBVIOUS
<1>1. ASSUME NEW a \in Actors, NEW s \in SummaryIds, CommitSeal(a, s)
      PROVE  FreshIsEmpty'
  BY <1>1, SealWrites DEF IInv, FreshIsEmpty
<1>2. ASSUME \/ \E c \in Chunks : Ingest(c)
             \/ SchedulerTick
             \/ BecomesStale
             \/ \E w \in Workers, k \in JobKeys : Claim(w, k)
             \/ \E w \in Workers, c \in Chunks : HandleExtract(w, c)
             \/ \E w \in Workers, c \in Chunks : HandleAppend(w, c)
             \/ \E w \in Workers, l \in Levels : HandleSeal(w, l)
             \/ \E w \in Workers : HandleFlushStale(w)
             \/ \E w \in Workers : Settle(w)
             \/ \E w \in Workers : Fail(w)
             \/ Sweep
             \/ ManualFlush
             \/ CascadeReads
             \/ ManualFlushFails
             \/ Crash
             \/ UNCHANGED vars
      PROVE  FreshIsEmpty'
  <2>1. UNCHANGED <<children, level>>
    BY <1>2 DEF Ingest, SchedulerTick, BecomesStale, Claim, HandleExtract, HandleAppend,
     HandleSeal, HandleFlushStale, Settle, Fail, Sweep, ManualFlush, CascadeReads,
     ManualFlushFails, Crash, vars, tree, bounds
  <2> QED
    BY <2>1 DEF IInv, FreshIsEmpty
<1> QED
  BY <1>1, <1>2, StepCases

(* What is buffered, read or summarised was written before.                 *)
LEMMA WrittenOnlyStep == IInv /\ [Next]_vars => WrittenOnly'
<1> SUFFICES ASSUME IInv, [Next]_vars PROVE WrittenOnly'
  OBVIOUS
<1>1. ASSUME NEW w \in Workers, NEW k \in JobKeys, Claim(w, k)
      PROVE  WrittenOnly'
  BY <1>1 DEF IInv, TypeOK, WrittenOnly, Claim, At, Actors, Idle, tree, bounds
<1>2. ASSUME NEW w \in Workers, NEW c \in Chunks, HandleExtract(w, c)
      PROVE  WrittenOnly'
  BY <1>2 DEF IInv, TypeOK, WrittenOnly, HandleExtract, ExtractFollowUp, Enqueued, Moved,
     Actors, Idle, tree, bounds
<1>3. ASSUME NEW w \in Workers, NEW c \in Chunks, HandleAppend(w, c)
      PROVE  WrittenOnly'
  <2>1. buffers' = [buffers EXCEPT ![0] = buffers[0] \cup {c}] /\ task' = Moved(w, "settle")
        /\ UNCHANGED <<level, children>>
    BY <1>3 DEF HandleAppend
  <2>2. \A n \in Levels : buffers'[n] \subseteq buffers[n] \cup {c}
    BY <2>1 DEF IInv, TypeOK
  <2>3. \A b \in Actors : task'[b].snap = task[b].snap
    BY <2>1 DEF IInv, TypeOK, Moved
  <2> QED
    BY <2>1, <2>2, <2>3, ItemsAssumption DEF IInv, WrittenOnly
<1>4. ASSUME NEW w \in Workers, NEW l \in Levels, HandleSeal(w, l)
      PROVE  WrittenOnly'
  BY <1>4 DEF IInv, TypeOK, WrittenOnly, HandleSeal, MaySeal, ShouldSeal, At, Moved,
     Actors, Idle, tree, bounds
<1>5. ASSUME NEW w \in Workers, HandleFlushStale(w)
      PROVE  WrittenOnly'
  BY <1>5 DEF IInv, TypeOK, WrittenOnly, HandleFlushStale, FlushFollowUps, Enqueued,
     Payload, Moved, Actors, Idle, tree, bounds
<1>6. ASSUME NEW w \in Workers, Settle(w)
      PROVE  WrittenOnly'
  BY <1>6 DEF IInv, TypeOK, WrittenOnly, Settle, Actors, Idle, tree, bounds
<1>7. ASSUME NEW w \in Workers, Fail(w)
      PROVE  WrittenOnly'
  BY <1>7 DEF IInv, TypeOK, WrittenOnly, Fail, Actors, Idle, tree, bounds
<1>8. ASSUME NEW a \in Actors, NEW s \in SummaryIds, CommitSeal(a, s)
      PROVE  WrittenOnly'
  <2>1. TypeOK
    BY DEF IInv
  <2>2. \A n \in Levels : buffers'[n] \subseteq buffers[n] \cup {s}
    BY <1>8, <2>1, SealWrites
  <2>3. \A b \in Actors : task'[b].snap \subseteq task[b].snap
    BY <1>8, <2>1, SealMoves
  <2>4. ASSUME NEW x \in SummaryIds, level'[x] = 0
        PROVE  level[x] = 0 /\ x # s
    BY <1>8, <2>1, <2>4, SealWrites
  <2>5. \A x \in SummaryIds : children'[x] \subseteq children[x] \cup task[a].snap
    BY <1>8, <2>1, SealWrites
  <2> QED
    BY <2>2, <2>3, <2>4, <2>5 DEF IInv, WrittenOnly
<1>9. CASE ManualFlush
  BY <1>9 DEF IInv, TypeOK, WrittenOnly, ManualFlush, At, Actors, Idle, tree, bounds
<1>10. CASE CascadeReads
  BY <1>10 DEF IInv, TypeOK, WrittenOnly, CascadeReads, MaySeal, ShouldSeal, At, Actors,
     Idle, tree, bounds
<1>11. CASE ManualFlushFails
  BY <1>11 DEF IInv, TypeOK, WrittenOnly, ManualFlushFails, Actors, Idle, tree, bounds
<1>12. CASE Crash
  BY <1>12 DEF IInv, TypeOK, WrittenOnly, Crash, Actors, Idle, tree, bounds
<1>13. ASSUME \/ \E c \in Chunks : Ingest(c)
              \/ SchedulerTick
              \/ BecomesStale
              \/ Sweep
              \/ UNCHANGED vars
      PROVE  WrittenOnly'
  <2>1. UNCHANGED <<buffers, children, level, task>>
    BY <1>13 DEF Ingest, SchedulerTick, BecomesStale, Sweep, vars, tree, bounds
  <2> QED
    BY <2>1 DEF IInv, WrittenOnly
<1> QED
  BY <1>1, <1>2, <1>3, <1>4, <1>5, <1>6, <1>7, <1>8, <1>9, <1>10, <1>11, <1>12, <1>13,
     StepCases

(* A seal links what it lists and what has no link yet.                     *)
LEMMA ParentListsChildStep == IInv /\ [Next]_vars => ParentListsChild'
<1> SUFFICES ASSUME IInv, [Next]_vars PROVE ParentListsChild'
  OBVIOUS
<1>1. ASSUME NEW a \in Actors, NEW s \in SummaryIds, CommitSeal(a, s)
      PROVE  ParentListsChild'
  <2>1. parent \in [Items -> SummaryIds \cup {None}]
    BY DEF IInv, TypeOK
  <2> QED
    BY <1>1, <2>1, SealWrites, ItemsAssumption
       DEF IInv, ParentListsChild, FreshIsEmpty, Summarised, Items
<1>2. ASSUME \/ \E c \in Chunks : Ingest(c)
             \/ SchedulerTick
             \/ BecomesStale
             \/ \E w \in Workers, k \in JobKeys : Claim(w, k)
             \/ \E w \in Workers, c \in Chunks : HandleExtract(w, c)
             \/ \E w \in Workers, c \in Chunks : HandleAppend(w, c)
             \/ \E w \in Workers, l \in Levels : HandleSeal(w, l)
             \/ \E w \in Workers : HandleFlushStale(w)
             \/ \E w \in Workers : Settle(w)
             \/ \E w \in Workers : Fail(w)
             \/ Sweep
             \/ ManualFlush
             \/ CascadeReads
             \/ ManualFlushFails
             \/ Crash
             \/ UNCHANGED vars
      PROVE  ParentListsChild'
  <2>1. UNCHANGED <<children, parent>>
    BY <1>2 DEF Ingest, SchedulerTick, BecomesStale, Claim, HandleExtract, HandleAppend,
     HandleSeal, HandleFlushStale, Settle, Fail, Sweep, ManualFlush, CascadeReads,
     ManualFlushFails, Crash, vars, tree, bounds
  <2> QED
    BY <2>1 DEF IInv, ParentListsChild, Summarised
<1> QED
  BY <1>1, <1>2, StepCases

(* A seal moves the root up with the highest level only.                    *)
LEMMA RootIsHighestStep == IInv /\ [Next]_vars => RootIsHighest'
<1> SUFFICES ASSUME IInv, [Next]_vars PROVE RootIsHighest'
  OBVIOUS
<1>1. ASSUME NEW a \in Actors, NEW s \in SummaryIds, CommitSeal(a, s)
      PROVE  RootIsHighest'
  <2>1. /\ level \in [SummaryIds -> Levels] /\ maxLevel \in Levels
        /\ root \in SummaryIds \cup {None}
    BY DEF IInv, TypeOK
  <2> QED
    BY <1>1, <2>1, SealWrites, LevelsFact, ItemsAssumption DEF IInv, RootIsHighest
<1>2. ASSUME \/ \E c \in Chunks : Ingest(c)
             \/ SchedulerTick
             \/ BecomesStale
             \/ \E w \in Workers, k \in JobKeys : Claim(w, k)
             \/ \E w \in Workers, c \in Chunks : HandleExtract(w, c)
             \/ \E w \in Workers, c \in Chunks : HandleAppend(w, c)
             \/ \E w \in Workers, l \in Levels : HandleSeal(w, l)
             \/ \E w \in Workers : HandleFlushStale(w)
             \/ \E w \in Workers : Settle(w)
             \/ \E w \in Workers : Fail(w)
             \/ Sweep
             \/ ManualFlush
             \/ CascadeReads
             \/ ManualFlushFails
             \/ Crash
             \/ UNCHANGED vars
      PROVE  RootIsHighest'
  <2>1. UNCHANGED <<level, root, maxLevel>>
    BY <1>2 DEF Ingest, SchedulerTick, BecomesStale, Claim, HandleExtract, HandleAppend,
     HandleSeal, HandleFlushStale, Settle, Fail, Sweep, ManualFlush, CascadeReads,
     ManualFlushFails, Crash, vars, tree, bounds
  <2> QED
    BY <2>1 DEF IInv, RootIsHighest
<1> QED
  BY <1>1, <1>2, StepCases

(* Whoever starts a seal looks at the gate above the leaves.                *)
LEMMA SnapMeetsGateStep == IInv /\ [Next]_vars => SnapMeetsGate'
<1> SUFFICES ASSUME IInv, [Next]_vars PROVE SnapMeetsGate'
  OBVIOUS
<1>1. ASSUME NEW w \in Workers, NEW k \in JobKeys, Claim(w, k)
      PROVE  SnapMeetsGate'
  BY <1>1 DEF IInv, TypeOK, SnapMeetsGate, Claim, At, Actors, Idle, tree, bounds
<1>2. ASSUME NEW w \in Workers, NEW c \in Chunks, HandleExtract(w, c)
      PROVE  SnapMeetsGate'
  BY <1>2 DEF IInv, TypeOK, SnapMeetsGate, HandleExtract, ExtractFollowUp, Enqueued, Moved,
     Actors, Idle, tree, bounds
<1>3. ASSUME NEW w \in Workers, NEW c \in Chunks, HandleAppend(w, c)
      PROVE  SnapMeetsGate'
  BY <1>3 DEF IInv, TypeOK, SnapMeetsGate, HandleAppend, SealFollowUp, Enqueued, Sealing,
     Moved, Actors, Idle, tree, bounds
<1>4. ASSUME NEW w \in Workers, NEW l \in Levels, HandleSeal(w, l)
      PROVE  SnapMeetsGate'
  BY <1>4 DEF IInv, TypeOK, SnapMeetsGate, HandleSeal, MaySeal, ShouldSeal, At, Moved,
     Actors, Idle, tree, bounds
<1>5. ASSUME NEW w \in Workers, HandleFlushStale(w)
      PROVE  SnapMeetsGate'
  BY <1>5 DEF IInv, TypeOK, SnapMeetsGate, HandleFlushStale, FlushFollowUps, Enqueued,
     Payload, Moved, Actors, Idle, tree, bounds
<1>6. ASSUME NEW w \in Workers, Settle(w)
      PROVE  SnapMeetsGate'
  BY <1>6 DEF IInv, TypeOK, SnapMeetsGate, Settle, Actors, Idle, tree, bounds
<1>7. ASSUME NEW w \in Workers, Fail(w)
      PROVE  SnapMeetsGate'
  BY <1>7 DEF IInv, TypeOK, SnapMeetsGate, Fail, Actors, Idle, tree, bounds
<1>8. ASSUME NEW a \in Actors, NEW s \in SummaryIds, CommitSeal(a, s)
      PROVE  SnapMeetsGate'
  BY <1>8 DEF IInv, TypeOK, SnapMeetsGate, CommitSeal, Sealed, Climbs, Linked, Sealing,
     Enqueued, At, Moved, Actors, Idle, tree, bounds
<1>9. CASE ManualFlush
  BY <1>9 DEF IInv, TypeOK, SnapMeetsGate, ManualFlush, At, Actors, Idle, tree, bounds
<1>10. CASE CascadeReads
  BY <1>10 DEF IInv, TypeOK, SnapMeetsGate, CascadeReads, MaySeal, ShouldSeal, At, Actors,
     Idle, tree, bounds
<1>11. CASE ManualFlushFails
  BY <1>11 DEF IInv, TypeOK, SnapMeetsGate, ManualFlushFails, Actors, Idle, tree, bounds
<1>12. CASE Crash
  BY <1>12 DEF IInv, TypeOK, SnapMeetsGate, Crash, Actors, Idle, tree, bounds
<1>13. ASSUME \/ \E c \in Chunks : Ingest(c)
              \/ SchedulerTick
              \/ BecomesStale
              \/ Sweep
              \/ UNCHANGED vars
      PROVE  SnapMeetsGate'
  <2>1. UNCHANGED <<task>>
    BY <1>13 DEF Ingest, SchedulerTick, BecomesStale, Sweep, vars, tree, bounds
  <2> QED
    BY <2>1 DEF IInv, SnapMeetsGate
<1> QED
  BY <1>1, <1>2, <1>3, <1>4, <1>5, <1>6, <1>7, <1>8, <1>9, <1>10, <1>11, <1>12, <1>13,
     StepCases

(* So the summary it writes has its fan-in.                                 *)
LEMMA FaninRespectedStep == IInv /\ [Next]_vars => FaninRespected'
<1> SUFFICES ASSUME IInv, [Next]_vars PROVE FaninRespected'
  OBVIOUS
<1>1. ASSUME NEW a \in Actors, NEW s \in SummaryIds, CommitSeal(a, s)
      PROVE  FaninRespected'
  <2>1. TypeOK /\ SnapMeetsGate /\ FaninRespected
    BY DEF IInv
  <2>2. /\ task[a].stage = "model" /\ task[a].level \in Nat
        /\ level'[s] = task[a].level + 1 /\ children'[s] = task[a].snap
        /\ \A x \in SummaryIds \ {s} : level'[x] = level[x] /\ children'[x] = children[x]
    BY <1>1, <2>1, SealWrites
  <2>3. level'[s] > 1 => Cardinality(children'[s]) >= Fanout
    BY <2>1, <2>2 DEF SnapMeetsGate
  <2> QED
    BY <2>1, <2>2, <2>3 DEF FaninRespected
<1>2. ASSUME \/ \E c \in Chunks : Ingest(c)
             \/ SchedulerTick
             \/ BecomesStale
             \/ \E w \in Workers, k \in JobKeys : Claim(w, k)
             \/ \E w \in Workers, c \in Chunks : HandleExtract(w, c)
             \/ \E w \in Workers, c \in Chunks : HandleAppend(w, c)
             \/ \E w \in Workers, l \in Levels : HandleSeal(w, l)
             \/ \E w \in Workers : HandleFlushStale(w)
             \/ \E w \in Workers : Settle(w)
             \/ \E w \in Workers : Fail(w)
             \/ Sweep
             \/ ManualFlush
             \/ CascadeReads
             \/ ManualFlushFails
             \/ Crash
             \/ UNCHANGED vars
      PROVE  FaninRespected'
  <2>1. UNCHANGED <<children, level>>
    BY <1>2 DEF Ingest, SchedulerTick, BecomesStale, Claim, HandleExtract, HandleAppend,
     HandleSeal, HandleFlushStale, Settle, Fail, Sweep, ManualFlush, CascadeReads,
     ManualFlushFails, Crash, vars, tree, bounds
  <2> QED
    BY <2>1 DEF IInv, FaninRespected
<1> QED
  BY <1>1, <1>2, StepCases

(* A push under a seal is noted; a seal of the same level empties the buffer.*)
LEMMA SnapCoversBufferStep == IInv /\ [Next]_vars => SnapCoversBuffer'
<1> SUFFICES ASSUME IInv, [Next]_vars PROVE SnapCoversBuffer'
  OBVIOUS
<1>1. ASSUME NEW w \in Workers, NEW k \in JobKeys, Claim(w, k)
      PROVE  SnapCoversBuffer'
  BY <1>1 DEF IInv, TypeOK, FreshIsEmpty, SnapCoversBuffer, Claim, Summarised, At, Actors,
     Idle, tree, bounds
<1>2. ASSUME NEW w \in Workers, NEW c \in Chunks, HandleExtract(w, c)
      PROVE  SnapCoversBuffer'
  BY <1>2 DEF IInv, TypeOK, FreshIsEmpty, SnapCoversBuffer, HandleExtract, Summarised,
     ExtractFollowUp, Enqueued, Moved, Actors, Idle, tree, bounds
<1>3. ASSUME NEW w \in Workers, NEW c \in Chunks, HandleAppend(w, c)
      PROVE  SnapCoversBuffer'
  <2>1. TypeOK /\ SnapCoversBuffer
    BY DEF IInv
  <2>2. SUFFICES ASSUME NEW b \in Actors, task'[b].stage = "model",
                        NEW i \in buffers'[task'[b].level]
                 PROVE  i \in task'[b].snap \/ Summarised(i)' \/ i \in overtaken'
    BY DEF SnapCoversBuffer
  <2>3. b # w /\ task'[b] = task[b] /\ task[b].level \in Levels
    BY <1>3, <2>1, <2>2, AppendWrites DEF TypeOK
  <2>4. CASE i \in buffers[task[b].level]
    BY <1>3, <2>1, <2>2, <2>3, <2>4, AppendWrites DEF SnapCoversBuffer, Summarised
  <2>5. CASE i \notin buffers[task[b].level]
    <3>0. /\ buffers'[0] = buffers[0] \cup {c}
          /\ \A n \in Levels \ {0} : buffers'[n] = buffers[n]
      BY <1>3, <2>1, AppendWrites
    <3>1. task[b].level = 0
      BY <2>2, <2>3, <2>5, <3>0
    <3>2. i = c
      BY <2>2, <2>3, <2>5, <3>0, <3>1
    <3>3. b \in Sealing(0)
      BY <2>2, <2>3, <3>1 DEF Sealing
    <3> QED
      BY <1>3, <2>1, <2>5, <3>1, <3>2, <3>3, AppendWrites
  <2> QED
    BY <2>4, <2>5
<1>4. ASSUME NEW w \in Workers, NEW l \in Levels, HandleSeal(w, l)
      PROVE  SnapCoversBuffer'
  BY <1>4 DEF IInv, TypeOK, FreshIsEmpty, SnapCoversBuffer, HandleSeal, Summarised,
     MaySeal, ShouldSeal, At, Moved, Actors, Idle, tree, bounds
<1>5. ASSUME NEW w \in Workers, HandleFlushStale(w)
      PROVE  SnapCoversBuffer'
  BY <1>5 DEF IInv, TypeOK, FreshIsEmpty, SnapCoversBuffer, HandleFlushStale, Summarised,
     FlushFollowUps, Enqueued, Payload, Moved, Actors, Idle, tree, bounds
<1>6. ASSUME NEW w \in Workers, Settle(w)
      PROVE  SnapCoversBuffer'
  BY <1>6 DEF IInv, TypeOK, FreshIsEmpty, SnapCoversBuffer, Settle, Summarised, Actors,
     Idle, tree, bounds
<1>7. ASSUME NEW w \in Workers, Fail(w)
      PROVE  SnapCoversBuffer'
  BY <1>7 DEF IInv, TypeOK, FreshIsEmpty, SnapCoversBuffer, Fail, Summarised, Actors, Idle,
     tree, bounds
<1>8. ASSUME NEW a \in Actors, NEW s \in SummaryIds, CommitSeal(a, s)
      PROVE  SnapCoversBuffer'
  <2>1. TypeOK /\ SnapCoversBuffer
    BY DEF IInv
  <2>2. SUFFICES ASSUME NEW b \in Actors, task'[b].stage = "model",
                        NEW i \in buffers'[task'[b].level]
                 PROVE  i \in task'[b].snap \/ Summarised(i)' \/ i \in overtaken'
    BY DEF SnapCoversBuffer
  <2>3. b # a /\ task'[b] = task[b] /\ task[b].level \in Levels
    BY <1>8, <2>1, <2>2, SealMoves DEF TypeOK
  <2>4. CASE i \in buffers[task[b].level]
    <3>1. i \in task[b].snap \/ Summarised(i) \/ i \in overtaken
      BY <2>1, <2>2, <2>3, <2>4 DEF SnapCoversBuffer
    <3>2. overtaken \subseteq overtaken'
      BY <1>8, <2>1, SealWrites
    <3> QED
      BY <1>8, <2>3, <3>1, <3>2, SealKeeps
  <2>5. CASE i \notin buffers[task[b].level]
    <3>1. task[b].level = task[a].level + 1 /\ i = s
      BY <1>8, <2>1, <2>2, <2>3, <2>5, SealWrites
    <3>2. b \in Sealing(task[a].level + 1)
      BY <2>2, <2>3, <3>1 DEF Sealing
    <3> QED
      BY <1>8, <2>1, <3>1, <3>2, SealWrites
  <2> QED
    BY <2>4, <2>5
<1>9. CASE ManualFlush
  BY <1>9 DEF IInv, TypeOK, FreshIsEmpty, SnapCoversBuffer, ManualFlush, Summarised, At,
     Actors, Idle, tree, bounds
<1>10. CASE CascadeReads
  BY <1>10 DEF IInv, TypeOK, FreshIsEmpty, SnapCoversBuffer, CascadeReads, Summarised,
     MaySeal, ShouldSeal, At, Actors, Idle, tree, bounds
<1>11. CASE ManualFlushFails
  BY <1>11 DEF IInv, TypeOK, FreshIsEmpty, SnapCoversBuffer, ManualFlushFails, Summarised,
     Actors, Idle, tree, bounds
<1>12. CASE Crash
  BY <1>12 DEF IInv, TypeOK, FreshIsEmpty, SnapCoversBuffer, Crash, Summarised, Actors,
     Idle, tree, bounds
<1>13. ASSUME \/ \E c \in Chunks : Ingest(c)
              \/ SchedulerTick
              \/ BecomesStale
              \/ Sweep
              \/ UNCHANGED vars
      PROVE  SnapCoversBuffer'
  <2>1. UNCHANGED <<buffers, children, task, overtaken>>
    BY <1>13 DEF Ingest, SchedulerTick, BecomesStale, Sweep, vars, tree, bounds
  <2> QED
    BY <2>1 DEF IInv, SnapCoversBuffer, Summarised
<1> QED
  BY <1>1, <1>2, <1>3, <1>4, <1>5, <1>6, <1>7, <1>8, <1>9, <1>10, <1>11, <1>12, <1>13,
     StepCases

(* What a seal clears it has read, or was pushed under it.                  *)
LEMMA OnlyOvertakenAreLostStep == IInv /\ [Next]_vars => OnlyOvertakenAreLost'
<1> SUFFICES ASSUME IInv, [Next]_vars PROVE OnlyOvertakenAreLost'
  OBVIOUS
<1>1. ASSUME NEW c \in Chunks, Ingest(c)
      PROVE  OnlyOvertakenAreLost'
  BY <1>1 DEF IInv, TypeOK, FreshIsEmpty, SnapCoversBuffer, OnlyOvertakenAreLost, Ingest,
     Summarised, Enqueued, Actors, Idle, tree, bounds
<1>2. ASSUME NEW w \in Workers, NEW c \in Chunks, HandleExtract(w, c)
      PROVE  OnlyOvertakenAreLost'
  BY <1>2 DEF IInv, TypeOK, FreshIsEmpty, SnapCoversBuffer, OnlyOvertakenAreLost,
     HandleExtract, Summarised, ExtractFollowUp, Enqueued, Moved, Actors, Idle, tree, bounds
<1>3. ASSUME NEW w \in Workers, NEW c \in Chunks, HandleAppend(w, c)
      PROVE  OnlyOvertakenAreLost'
  <2>1. TypeOK /\ OnlyOvertakenAreLost
    BY DEF IInv
  <2>2. \A n \in Levels : buffers[n] \subseteq buffers'[n]
    BY <1>3, <2>1, AppendWrites
  <2>3. overtaken \subseteq overtaken' /\ UNCHANGED <<children, level>>
    BY <1>3, <2>1, AppendWrites
  <2>4. \A d \in Chunks : status'[d] = "buffered" => d \in buffers'[0] \/ status[d] = "buffered"
    BY <1>3, <2>1, AppendWrites
  <2> QED
    BY <2>1, <2>2, <2>3, <2>4, LevelsFact DEF OnlyOvertakenAreLost, Summarised, TypeOK
<1>4. ASSUME NEW a \in Actors, NEW s \in SummaryIds, CommitSeal(a, s)
      PROVE  OnlyOvertakenAreLost'
  <2>1. TypeOK /\ OnlyOvertakenAreLost
    BY DEF IInv
  <2>2. overtaken \subseteq overtaken' /\ UNCHANGED status
    BY <1>4, <2>1, SealWrites
  <2>3. \A c \in Chunks : status[c] = "buffered" =>
          c \in buffers'[0] \/ Summarised(c)' \/ c \in overtaken'
    BY <1>4, <2>1, <2>2, SealKeeps, LevelsFact DEF OnlyOvertakenAreLost
  <2>4. s \in buffers'[level'[s]]
    BY <1>4, <2>1, SealWrites
  <2>5. ASSUME NEW x \in SummaryIds \ {s}, level'[x] > 0
        PROVE  x \in buffers'[level'[x]] \/ Summarised(x)' \/ x \in overtaken'
    <3>1. level'[x] = level[x] /\ level[x] \in Levels
      BY <1>4, <2>1, SealWrites DEF TypeOK
    <3> QED
      BY <1>4, <2>1, <2>2, <2>5, <3>1, SealKeeps DEF OnlyOvertakenAreLost
  <2> QED
    BY <2>2, <2>3, <2>4, <2>5 DEF OnlyOvertakenAreLost
<1>5. ASSUME \/ SchedulerTick
             \/ BecomesStale
             \/ \E w \in Workers, k \in JobKeys : Claim(w, k)
             \/ \E w \in Workers, l \in Levels : HandleSeal(w, l)
             \/ \E w \in Workers : HandleFlushStale(w)
             \/ \E w \in Workers : Settle(w)
             \/ \E w \in Workers : Fail(w)
             \/ Sweep
             \/ ManualFlush
             \/ CascadeReads
             \/ ManualFlushFails
             \/ Crash
             \/ UNCHANGED vars
      PROVE  OnlyOvertakenAreLost'
  <2>1. UNCHANGED <<status, buffers, children, level, overtaken>>
    BY <1>5 DEF SchedulerTick, BecomesStale, Claim, HandleSeal, HandleFlushStale, Settle,
     Fail, Sweep, ManualFlush, CascadeReads, ManualFlushFails, Crash, vars, tree, bounds
  <2> QED
    BY <2>1 DEF IInv, OnlyOvertakenAreLost, Summarised
<1> QED
  BY <1>1, <1>2, <1>3, <1>4, <1>5, StepCases

(* A pushed chunk stays in the tree or is overtaken.                        *)
LEMMA AppendedIsInTreeStep == IInv /\ [Next]_vars => AppendedIsInTree'
<1> SUFFICES ASSUME IInv, [Next]_vars PROVE AppendedIsInTree'
  OBVIOUS
<1>1. ASSUME NEW w \in Workers, NEW k \in JobKeys, Claim(w, k)
      PROVE  AppendedIsInTree'
  BY <1>1 DEF IInv, TypeOK, FreshIsEmpty, SnapCoversBuffer, AppendedIsInTree, Claim,
     InTree, Summarised, At, Actors, Idle, tree, bounds
<1>2. ASSUME NEW w \in Workers, NEW c \in Chunks, HandleExtract(w, c)
      PROVE  AppendedIsInTree'
  <2>1. TypeOK /\ AppendedIsInTree
    BY DEF IInv
  <2>2. task' = Moved(w, "settle") /\ UNCHANGED tree
    BY <1>2 DEF HandleExtract
  <2>3. task[w].job = Extract(c)
    BY <1>2 DEF HandleExtract
  <2>4. \A b \in Workers \ {w} : task'[b] = task[b]
    BY <2>1, <2>2, MovedFact DEF Actors
  <2>5. task'[w].job = task[w].job
    BY <2>1, <2>2, MovedFact
  <2> QED
    BY <2>1, <2>2, <2>3, <2>4, <2>5, KeysDiffer DEF AppendedIsInTree, InTree, Summarised, tree
<1>3. ASSUME NEW w \in Workers, NEW c \in Chunks, HandleAppend(w, c)
      PROVE  AppendedIsInTree'
  <2>1. TypeOK /\ AppendedIsInTree
    BY DEF IInv
  <2>2. \A d \in Chunks : InTree(d) => InTree(d)'
    BY <1>3, <2>1, AppendWrites DEF InTree, Summarised
  <2>3. InTree(c)'
    BY <1>3, <2>1, AppendWrites DEF InTree
  <2>4. \A b \in Workers \ {w} : task'[b] = task[b]
    BY <1>3, <2>1, AppendWrites DEF Actors
  <2>5. task'[w].job = Append(c)
    BY <1>3, <2>1, AppendWrites
  <2> QED
    BY <2>1, <2>2, <2>3, <2>4, <2>5, KeysDiffer DEF AppendedIsInTree
<1>4. ASSUME NEW w \in Workers, NEW l \in Levels, HandleSeal(w, l)
      PROVE  AppendedIsInTree'
  <2>1. TypeOK /\ AppendedIsInTree
    BY DEF IInv
  <2>2. task[w].job = Seal(l) /\ UNCHANGED tree
    BY <1>4 DEF HandleSeal
  <2>3. \A b \in Workers \ {w} : task'[b] = task[b]
    BY <1>4, <2>1, MovedFact DEF HandleSeal, Actors, TypeOK
  <2>4. task'[w].job = Seal(l)
    <3>1. CASE task' = Moved(w, "settle")
      BY <2>1, <2>2, <3>1, MovedFact
    <3>2. CASE task' = [task EXCEPT ![w] = At("model", Seal(l), l, buffers[l])]
      BY <2>1, <3>2 DEF TypeOK, At, Actors
    <3> QED
      BY <1>4, <3>1, <3>2 DEF HandleSeal
  <2> QED
    BY <2>1, <2>2, <2>3, <2>4, KeysDiffer DEF AppendedIsInTree, InTree, Summarised, tree
<1>5. ASSUME NEW w \in Workers, HandleFlushStale(w)
      PROVE  AppendedIsInTree'
  <2>1. TypeOK /\ AppendedIsInTree
    BY DEF IInv
  <2>2. task' = Moved(w, "settle") /\ UNCHANGED tree
    BY <1>5 DEF HandleFlushStale
  <2>3. task[w].job = FlushStale
    BY <1>5 DEF HandleFlushStale
  <2>4. \A b \in Workers \ {w} : task'[b] = task[b]
    BY <2>1, <2>2, MovedFact DEF Actors
  <2>5. task'[w].job = task[w].job
    BY <2>1, <2>2, MovedFact
  <2> QED
    BY <2>1, <2>2, <2>3, <2>4, <2>5, KeysDiffer DEF AppendedIsInTree, InTree, Summarised, tree
<1>6. ASSUME NEW w \in Workers, Settle(w)
      PROVE  AppendedIsInTree'
  BY <1>6 DEF IInv, TypeOK, FreshIsEmpty, SnapCoversBuffer, AppendedIsInTree, Settle,
     InTree, Summarised, Actors, Idle, tree, bounds
<1>7. ASSUME NEW w \in Workers, Fail(w)
      PROVE  AppendedIsInTree'
  BY <1>7 DEF IInv, TypeOK, FreshIsEmpty, SnapCoversBuffer, AppendedIsInTree, Fail, InTree,
     Summarised, Actors, Idle, tree, bounds
<1>8. ASSUME NEW a \in Actors, NEW s \in SummaryIds, CommitSeal(a, s)
      PROVE  AppendedIsInTree'
  <2>1. TypeOK /\ AppendedIsInTree
    BY DEF IInv
  <2>2. overtaken \subseteq overtaken'
    BY <1>8, <2>1, SealWrites
  <2>3. \A d \in Chunks : InTree(d) => InTree(d)'
    BY <1>8, <2>2, SealKeeps, LevelsFact DEF InTree
  <2>4. ASSUME NEW b \in Workers, b # a
        PROVE  task'[b] = task[b]
    BY <1>8, <2>1, <2>4, SealMoves DEF Actors
  <2>5. a \in Workers => task'[a].job = task[a].job /\ task[a].stage = "model"
    <3>1. a \in Workers => /\ task'[a] = [task[a] EXCEPT !.stage = "settle"]
                           /\ task[a].stage = "model"
      BY <1>8, <2>1, SealMoves, SealWrites, ActorsAssumption
    <3> QED
      BY <2>1, <3>1 DEF TypeOK
  <2> QED
    BY <2>1, <2>3, <2>4, <2>5 DEF AppendedIsInTree
<1>9. CASE ManualFlush
  BY <1>9 DEF IInv, TypeOK, FreshIsEmpty, SnapCoversBuffer, AppendedIsInTree, ManualFlush,
     InTree, Summarised, At, Actors, Idle, tree, bounds
<1>10. CASE CascadeReads
  <2>1. TypeOK /\ AppendedIsInTree
    BY DEF IInv
  <2>2. \A b \in Workers : task'[b] = task[b]
    BY <1>10, <2>1, ActorsAssumption DEF CascadeReads, Actors, TypeOK
  <2>3. UNCHANGED tree
    BY <1>10 DEF CascadeReads
  <2> QED
    BY <2>1, <2>2, <2>3 DEF AppendedIsInTree, InTree, Summarised, tree
<1>11. CASE ManualFlushFails
  BY <1>11 DEF IInv, TypeOK, FreshIsEmpty, SnapCoversBuffer, AppendedIsInTree,
     ManualFlushFails, InTree, Summarised, Actors, Idle, tree, bounds
<1>12. CASE Crash
  BY <1>12 DEF IInv, TypeOK, FreshIsEmpty, SnapCoversBuffer, AppendedIsInTree, Crash,
     InTree, Summarised, Actors, Idle, tree, bounds
<1>13. ASSUME \/ \E c \in Chunks : Ingest(c)
              \/ SchedulerTick
              \/ BecomesStale
              \/ Sweep
              \/ UNCHANGED vars
      PROVE  AppendedIsInTree'
  <2>1. UNCHANGED <<buffers, children, task, overtaken>>
    BY <1>13 DEF Ingest, SchedulerTick, BecomesStale, Sweep, vars, tree, bounds
  <2> QED
    BY <2>1 DEF IInv, AppendedIsInTree, InTree, Summarised
<1> QED
  BY <1>1, <1>2, <1>3, <1>4, <1>5, <1>6, <1>7, <1>8, <1>9, <1>10, <1>11, <1>12, <1>13,
     StepCases

(* The append job goes only when the chunk is in the tree, or as a failed row.*)
LEMMA AdmittedIsPursuedStep == IInv /\ [Next]_vars => AdmittedIsPursued'
<1> SUFFICES ASSUME IInv, [Next]_vars PROVE AdmittedIsPursued'
  OBVIOUS
<1>1. ASSUME NEW c \in Chunks, Ingest(c)
      PROVE  AdmittedIsPursued'
  BY <1>1 DEF IInv, TypeOK, FreshIsEmpty, SnapCoversBuffer, AppendedIsInTree,
     AdmittedIsPursued, Ingest, IsActive, Summarised, Enqueued, Actors, Idle, tree, bounds
<1>2. CASE SchedulerTick
  BY <1>2 DEF IInv, TypeOK, FreshIsEmpty, SnapCoversBuffer, AppendedIsInTree,
     AdmittedIsPursued, SchedulerTick, IsActive, Summarised, Enqueued, Actors, Idle, tree,
     bounds
<1>3. ASSUME NEW w \in Workers, NEW k \in JobKeys, Claim(w, k)
      PROVE  AdmittedIsPursued'
  BY <1>3 DEF IInv, TypeOK, FreshIsEmpty, SnapCoversBuffer, AppendedIsInTree,
     AdmittedIsPursued, Claim, IsActive, Summarised, At, Actors, Idle, tree, bounds
<1>4. ASSUME NEW w \in Workers, NEW c \in Chunks, HandleExtract(w, c)
      PROVE  AdmittedIsPursued'
  <2>1. TypeOK /\ AdmittedIsPursued
    BY DEF IInv
  <2>2. /\ jobs' = jobs \/ jobs' = Enqueued(jobs, Append(c))
        /\ UNCHANGED <<tree, failed>>
    BY <1>4 DEF HandleExtract, ExtractFollowUp
  <2>3. \A k \in JobKeys : IsActive(jobs, k) => IsActive(jobs', k)
    BY <2>1, <2>2, KeysExist, StaysActive
  <2>4. status'[c] = "admitted" => IsActive(jobs', Append(c))
    BY <1>4, <2>1, KeysExist, EnqueuedFact DEF HandleExtract, ExtractFollowUp, TypeOK
  <2>5. \A d \in Chunks \ {c} : status'[d] = status[d]
    BY <1>4, <2>1 DEF HandleExtract, TypeOK
  <2> QED
    BY <2>1, <2>2, <2>3, <2>4, <2>5, KeysExist DEF AdmittedIsPursued, Summarised, tree
<1>5. ASSUME NEW w \in Workers, NEW c \in Chunks, HandleAppend(w, c)
      PROVE  AdmittedIsPursued'
  <2>1. TypeOK /\ AdmittedIsPursued
    BY DEF IInv
  <2>2. Seal(0) \in JobKeys
    BY KeysExist, LevelsFact
  <2>3. \A k \in JobKeys : IsActive(jobs, k) => IsActive(jobs', k)
    BY <1>5, <2>1, <2>2, AppendWrites, StaysActive
  <2> QED
    BY <1>5, <2>1, <2>3, AppendWrites, KeysExist DEF AdmittedIsPursued, Summarised
<1>6. ASSUME NEW w \in Workers, HandleFlushStale(w)
      PROVE  AdmittedIsPursued'
  BY <1>6 DEF IInv, TypeOK, FreshIsEmpty, SnapCoversBuffer, AppendedIsInTree,
     AdmittedIsPursued, HandleFlushStale, IsActive, Summarised, FlushFollowUps, Enqueued,
     Payload, Moved, Actors, Idle, tree, bounds
<1>7. ASSUME NEW w \in Workers, Settle(w)
      PROVE  AdmittedIsPursued'
  <2>1. TypeOK /\ AdmittedIsPursued /\ AppendedIsInTree
    BY DEF IInv
  <2>2. /\ task[w].stage = "settle" /\ jobs' = [jobs EXCEPT ![task[w].job] = "none"]
        /\ UNCHANGED <<status, tree, failed>>
    BY <1>7 DEF Settle
  <2>3. ASSUME NEW c \in Chunks, task[w].job = Append(c)
        PROVE  InTree(c)
    BY <2>1, <2>2, <2>3 DEF AppendedIsInTree
  <2>4. ASSUME NEW c \in Chunks, task[w].job # Append(c)
        PROVE  jobs'[Append(c)] = jobs[Append(c)]
    BY <2>1, <2>2, <2>4, KeysExist DEF TypeOK
  <2> QED
    BY <2>1, <2>2, <2>3, <2>4 DEF AdmittedIsPursued, InTree, Summarised, IsActive, tree
<1>8. ASSUME NEW w \in Workers, Fail(w)
      PROVE  AdmittedIsPursued'
  <2>1. TypeOK /\ AdmittedIsPursued /\ Counted
    BY DEF IInv
  <2>2. UNCHANGED <<status, tree>>
    BY <1>8 DEF Fail
  <2>3. ASSUME NEW c \in Chunks, IsActive(jobs, Append(c)) \/ failed[Append(c)] > 0
        PROVE  IsActive(jobs', Append(c)) \/ failed'[Append(c)] > 0
    <3>1. Append(c) \in JobKeys /\ failed[Append(c)] \in Nat
      BY <2>1, KeysExist DEF TypeOK
    <3>2. CASE task[w].job # Append(c)
      BY <1>8, <2>1, <2>3, <3>1, <3>2 DEF Fail, TypeOK, IsActive
    <3>3. CASE task[w].job = Append(c)
      <4>1. CASE jobs' = [jobs EXCEPT ![task[w].job] = "ready"]
        BY <2>1, <3>1, <3>3, <4>1 DEF TypeOK, IsActive
      <4>2. CASE failed' = [failed EXCEPT ![task[w].job] = failed[task[w].job] + 1]
        BY <2>1, <3>1, <3>3, <4>2 DEF TypeOK
      <4> QED
        BY <1>8, <4>1, <4>2, FailWrites
    <3> QED
      BY <3>2, <3>3
  <2> QED
    BY <2>1, <2>2, <2>3 DEF AdmittedIsPursued, Summarised, tree
<1>9. ASSUME NEW a \in Actors, NEW s \in SummaryIds, CommitSeal(a, s)
      PROVE  AdmittedIsPursued'
  <2>1. TypeOK /\ AdmittedIsPursued
    BY DEF IInv
  <2>2. \A k \in JobKeys : IsActive(jobs, k) => IsActive(jobs', k)
    <3>1. Seal(task[a].level + 1) \in JobKeys
      BY <1>9, <2>1, SealWrites, KeysExist
    <3> QED
      BY <1>9, <2>1, <3>1, SealMoves, StaysActive
  <2>3. overtaken \subseteq overtaken' /\ UNCHANGED <<status, failed>>
    BY <1>9, <2>1, SealWrites
  <2> QED
    BY <1>9, <2>1, <2>2, <2>3, SealKeeps, KeysExist, LevelsFact DEF AdmittedIsPursued
<1>10. CASE Sweep
  <2>1. TypeOK /\ AdmittedIsPursued
    BY DEF IInv
  <2>2. /\ jobs' = [k \in JobKeys |-> IF k \in {n \in JobKeys : failed[n] > 0} THEN "ready" ELSE jobs[k]]
        /\ UNCHANGED <<status, tree>>
    BY <1>10 DEF Sweep
  <2>3. ASSUME NEW c \in Chunks, IsActive(jobs, Append(c)) \/ failed[Append(c)] > 0
        PROVE  IsActive(jobs', Append(c))
    BY <2>2, <2>3, KeysExist DEF IsActive
  <2> QED
    BY <2>1, <2>2, <2>3 DEF AdmittedIsPursued, Summarised, tree
<1>11. CASE Crash
  <2>1. TypeOK /\ AdmittedIsPursued
    BY DEF IInv
  <2>2. UNCHANGED <<status, tree, failed>>
    BY <1>11 DEF Crash
  <2>3. ASSUME NEW c \in Chunks, IsActive(jobs, Append(c))
        PROVE  IsActive(jobs', Append(c))
    BY <1>11, <2>3, KeysExist DEF IsActive, Crash
  <2> QED
    BY <2>1, <2>2, <2>3 DEF AdmittedIsPursued, Summarised, tree
<1>12. ASSUME \/ BecomesStale
              \/ \E w \in Workers, l \in Levels : HandleSeal(w, l)
              \/ ManualFlush
              \/ CascadeReads
              \/ ManualFlushFails
              \/ UNCHANGED vars
      PROVE  AdmittedIsPursued'
  <2>1. UNCHANGED <<status, buffers, children, jobs, failed, overtaken>>
    BY <1>12 DEF BecomesStale, HandleSeal, ManualFlush, CascadeReads, ManualFlushFails,
     vars, tree, bounds
  <2> QED
    BY <2>1 DEF IInv, AdmittedIsPursued, IsActive, Summarised
<1> QED
  BY <1>1, <1>2, <1>3, <1>4, <1>5, <1>6, <1>7, <1>8, <1>9, <1>10, <1>11, <1>12, StepCases

(* Without crashes and failures a running row has one worker.               *)
LEMMA OneWorkerPerJobStep == IInv /\ [Next]_vars => OneWorkerPerJob'
<1> SUFFICES ASSUME IInv, [Next]_vars, Calm'
             PROVE  OneWorkerPerJob'
  BY DEF OneWorkerPerJob, Calm
<1>1. Calm /\ (CalmNext \/ UNCHANGED vars)
  BY CalmSteps
<1>2. ASSUME NEW c \in Chunks, Ingest(c)
      PROVE  OneWorkerPerJob'
  <2>2. TypeOK /\ OneWorkerPerJob
    BY DEF IInv
  <2>3. \A n \in JobKeys : jobs[n] = "running" => jobs'[n] = "running"
    <3>1. Extract(c) \in JobKeys
      BY KeysExist
    <3> QED
      BY <1>2, <2>2, <3>1, StaysActive DEF Ingest, IsActive
  <2>4. UNCHANGED <<task, failed>>
    BY <1>2 DEF Ingest
  <2> QED
    BY <1>1, <2>2, <2>3, <2>4 DEF OneWorkerPerJob
<1>3. CASE SchedulerTick
  <2>2. TypeOK /\ OneWorkerPerJob
    BY DEF IInv
  <2>3. \A n \in JobKeys : jobs[n] = "running" => jobs'[n] = "running"
    <3>1. FlushStale \in JobKeys
      BY KeysExist
    <3> QED
      BY <1>3, <2>2, <3>1, StaysActive DEF SchedulerTick, IsActive
  <2>4. UNCHANGED <<task, failed>>
    BY <1>3 DEF SchedulerTick
  <2> QED
    BY <1>1, <2>2, <2>3, <2>4 DEF OneWorkerPerJob
<1>4. ASSUME NEW w \in Workers, NEW k \in JobKeys, Claim(w, k)
      PROVE  OneWorkerPerJob'
  <2>2. TypeOK /\ OneWorkerPerJob /\ w \in Actors
    BY DEF IInv, Actors
  <2>3. /\ task'[w] = At("work", k, 0, {}) /\ \A b \in Actors \ {w} : task'[b] = task[b]
        /\ jobs[k] = "ready" /\ jobs'[k] = "running"
        /\ \A n \in JobKeys \ {k} : jobs'[n] = jobs[n]
        /\ failed' = failed
    BY <1>4, <2>2 DEF Claim, TypeOK
  <2>4. task'[w].stage = "work" /\ task'[w].job = k
    BY <2>3 DEF At
  <2>5. \A x \in Workers : task[x] # Idle => task[x].job # k
    BY <1>1, <2>2, <2>3 DEF OneWorkerPerJob
  <2> QED
    BY <1>1, <2>2, <2>3, <2>4, <2>5, ActorsAssumption DEF OneWorkerPerJob, Actors
<1>5. ASSUME NEW w \in Workers, NEW c \in Chunks, HandleExtract(w, c)
      PROVE  OneWorkerPerJob'
  <2>2. TypeOK /\ OneWorkerPerJob /\ task[w] # Idle
    BY <1>5 DEF IInv, Idle, HandleExtract
  <2>3. /\ task'[w] # Idle /\ task'[w].job = task[w].job /\ task'[w].stage = "settle"
        /\ \A b \in Actors \ {w} : task'[b] = task[b]
    BY <1>5, <2>2, MovedFact DEF HandleExtract
  <2>4. \A k \in JobKeys : jobs[k] = "running" => jobs'[k] = "running"
    <3>1. Append(c) \in JobKeys
      BY KeysExist
    <3> QED
      BY <1>5, <2>2, <3>1, StaysActive DEF IsActive, HandleExtract, ExtractFollowUp
  <2>5. failed' = failed
    BY <1>5 DEF HandleExtract
  <2> QED
    BY <1>1, <2>2, <2>3, <2>4, <2>5, ActorsAssumption DEF OneWorkerPerJob, Actors
<1>6. ASSUME NEW w \in Workers, NEW c \in Chunks, HandleAppend(w, c)
      PROVE  OneWorkerPerJob'
  <2>2. TypeOK /\ OneWorkerPerJob /\ task[w] # Idle
    BY <1>6 DEF IInv, Idle, HandleAppend
  <2>3. /\ task'[w] # Idle /\ task'[w].job = task[w].job /\ task'[w].stage = "settle"
        /\ \A b \in Actors \ {w} : task'[b] = task[b]
    BY <1>6, <2>2, AppendWrites DEF HandleAppend
  <2>4. \A k \in JobKeys : jobs[k] = "running" => jobs'[k] = "running"
    <3>1. Seal(0) \in JobKeys
      BY KeysExist, LevelsFact
    <3> QED
      BY <1>6, <2>2, <3>1, StaysActive DEF IsActive, HandleAppend, SealFollowUp
  <2>5. failed' = failed
    BY <1>6 DEF HandleAppend
  <2> QED
    BY <1>1, <2>2, <2>3, <2>4, <2>5, ActorsAssumption DEF OneWorkerPerJob, Actors
<1>7. ASSUME NEW w \in Workers, NEW l \in Levels, HandleSeal(w, l)
      PROVE  OneWorkerPerJob'
  <2>2. TypeOK /\ OneWorkerPerJob /\ task[w] # Idle
    BY <1>7 DEF IInv, Idle, HandleSeal
  <2>3. /\ task'[w] # Idle /\ task'[w].job = task[w].job /\ task'[w].stage \in {"model", "settle"}
        /\ \A b \in Actors \ {w} : task'[b] = task[b]
    <3>1. CASE task' = Moved(w, "settle")
      BY <2>2, <3>1, MovedFact
    <3>2. CASE task' = [task EXCEPT ![w] = At("model", Seal(l), l, buffers[l])]
      BY <1>7, <2>2, <3>2 DEF TypeOK, At, Actors, Idle, HandleSeal
    <3> QED
      BY <1>7, <3>1, <3>2 DEF HandleSeal
  <2>4. UNCHANGED <<jobs, failed>>
    BY <1>7 DEF HandleSeal
  <2> QED
    BY <1>1, <2>2, <2>3, <2>4, ActorsAssumption DEF OneWorkerPerJob, Actors
<1>8. ASSUME NEW w \in Workers, HandleFlushStale(w)
      PROVE  OneWorkerPerJob'
  <2>2. TypeOK /\ OneWorkerPerJob /\ task[w] # Idle
    BY <1>8 DEF IInv, Idle, HandleFlushStale
  <2>3. /\ task'[w] # Idle /\ task'[w].job = task[w].job /\ task'[w].stage = "settle"
        /\ \A b \in Actors \ {w} : task'[b] = task[b]
    BY <1>8, <2>2, MovedFact DEF HandleFlushStale
  <2>4. \A k \in JobKeys : jobs[k] = "running" => jobs'[k] = "running"
    <3>1. Seal(0) \in JobKeys
      BY KeysExist, LevelsFact
    <3> QED
      BY <1>8, <2>2, <3>1, StaysActive DEF IsActive, HandleFlushStale, FlushFollowUps
  <2>5. failed' = failed
    BY <1>8 DEF HandleFlushStale
  <2> QED
    BY <1>1, <2>2, <2>3, <2>4, <2>5, ActorsAssumption DEF OneWorkerPerJob, Actors
<1>9. ASSUME NEW w \in Workers, Settle(w)
      PROVE  OneWorkerPerJob'
  <2>2. TypeOK /\ OneWorkerPerJob /\ w \in Actors /\ task[w] # Idle
    BY <1>9 DEF IInv, Actors, Settle, Idle
  <2>3. /\ task'[w] = Idle /\ \A b \in Actors \ {w} : task'[b] = task[b]
        /\ \A n \in JobKeys \ {task[w].job} : jobs'[n] = jobs[n]
        /\ failed' = failed
    BY <1>9, <2>2 DEF Settle, TypeOK
  <2>4. \A x \in Workers \ {w} : task[x] # Idle => task[x].job # task[w].job
    BY <1>9, <1>1, <2>2 DEF OneWorkerPerJob
  <2> QED
    BY <1>1, <2>2, <2>3, <2>4, ActorsAssumption DEF OneWorkerPerJob, Actors
<1>10. ASSUME NEW a \in Actors, NEW s \in SummaryIds, CommitSeal(a, s)
      PROVE  OneWorkerPerJob'
  <2>2. TypeOK /\ OneWorkerPerJob /\ a \in Workers /\ a # Rpc
    BY <1>10, <1>1, CalmSeal DEF IInv
  <2>3. /\ task'[a] = [task[a] EXCEPT !.stage = "settle"] /\ task[a].stage = "model"
        /\ \A b \in Actors \ {a} : task'[b] = task[b]
    BY <1>10, <2>2, SealMoves, SealWrites
  <2>4. task[a] # Idle /\ task'[a] # Idle /\ task'[a].job = task[a].job /\ task'[a].stage = "settle"
    BY <2>2, <2>3 DEF TypeOK, Idle, Actors
  <2>5. \A k \in JobKeys : jobs[k] = "running" => jobs'[k] = "running"
    <3>1. Seal(task[a].level + 1) \in JobKeys
      BY <1>10, <2>2, SealWrites, KeysExist
    <3> QED
      BY <1>10, <2>2, <3>1, SealMoves, StaysActive DEF IsActive
  <2>6. failed' = failed
    BY <1>10 DEF CommitSeal
  <2>7. \A b \in Actors \ {a} : task'[b] = task[b]
    BY <2>3
  <2> QED
    BY <1>1, <2>2, <2>4, <2>5, <2>6, <2>7, ActorsAssumption DEF OneWorkerPerJob, Actors
<1>11. ASSUME \/ BecomesStale
              \/ UNCHANGED vars
      PROVE  OneWorkerPerJob'
  <2>1. UNCHANGED <<jobs, failed, task, crashes, failures, flushes>>
    BY <1>11 DEF BecomesStale, vars, tree, bounds
  <2> QED
    BY <2>1 DEF IInv, OneWorkerPerJob, Calm
<1> QED
  BY <1>1, <1>2, <1>3, <1>4, <1>5, <1>6, <1>7, <1>8, <1>9, <1>10, <1>11 DEF CalmNext

(* Buffers only grow under the one seal of their level.                     *)
LEMMA SealsAreJobsStep == IInv /\ [Next]_vars => SealsAreJobs'
<1> SUFFICES ASSUME IInv, [Next]_vars, Calm'
             PROVE  SealsAreJobs'
  BY DEF SealsAreJobs, Calm
<1>1. Calm /\ (CalmNext \/ UNCHANGED vars)
  BY CalmSteps
<1>2. ASSUME NEW w \in Workers, NEW k \in JobKeys, Claim(w, k)
      PROVE  SealsAreJobs'
  <2>2. TypeOK /\ SealsAreJobs
    BY DEF IInv
  <2>3. \A x \in Workers : task'[x].stage = "model" => task'[x] = task[x]
    BY <1>2, <2>2 DEF Claim, TypeOK, At, Actors
  <2>4. UNCHANGED buffers
    BY <1>2 DEF Claim, tree
  <2> QED
    BY <1>1, <2>2, <2>3, <2>4 DEF SealsAreJobs
<1>3. ASSUME NEW w \in Workers, NEW c \in Chunks, HandleExtract(w, c)
      PROVE  SealsAreJobs'
  <2>2. TypeOK /\ SealsAreJobs
    BY DEF IInv
  <2>3. \A x \in Workers : task'[x].stage = "model" => task'[x] = task[x]
    BY <1>3, <2>2, MovedFact DEF HandleExtract, Actors
  <2>4. UNCHANGED buffers
    BY <1>3 DEF HandleExtract, tree
  <2> QED
    BY <1>1, <2>2, <2>3, <2>4 DEF SealsAreJobs
<1>4. ASSUME NEW w \in Workers, NEW c \in Chunks, HandleAppend(w, c)
      PROVE  SealsAreJobs'
  <2>2. TypeOK /\ SealsAreJobs
    BY DEF IInv
  <2>3. \A x \in Workers : task'[x].stage = "model" => task'[x] = task[x]
    BY <1>4, <2>2, AppendWrites DEF Actors
  <2>4. \A n \in Levels : buffers[n] \subseteq buffers'[n]
    BY <1>4, <2>2, AppendWrites
  <2> QED
    BY <1>1, <2>2, <2>3, <2>4 DEF SealsAreJobs, TypeOK, Actors
<1>5. ASSUME NEW w \in Workers, NEW l \in Levels, HandleSeal(w, l)
      PROVE  SealsAreJobs'
  <2>2. TypeOK /\ SealsAreJobs /\ w \in Actors
    BY DEF IInv, Actors
  <2>3. UNCHANGED buffers /\ \A b \in Workers \ {w} : task'[b] = task[b]
    BY <1>5, <2>2 DEF HandleSeal, tree, Moved, TypeOK, Actors
  <2>4. task'[w].stage = "model" => task'[w] = At("model", Seal(l), l, buffers[l])
    <3>1. CASE task' = Moved(w, "settle")
      BY <2>2, <3>1, MovedFact
    <3>2. CASE task' = [task EXCEPT ![w] = At("model", Seal(l), l, buffers[l])]
      BY <2>2, <3>2 DEF TypeOK
    <3> QED
      BY <1>5, <3>1, <3>2 DEF HandleSeal
  <2> QED
    BY <1>1, <2>2, <2>3, <2>4 DEF SealsAreJobs, At
<1>6. ASSUME NEW w \in Workers, HandleFlushStale(w)
      PROVE  SealsAreJobs'
  <2>2. TypeOK /\ SealsAreJobs
    BY DEF IInv
  <2>3. \A x \in Workers : task'[x].stage = "model" => task'[x] = task[x]
    BY <1>6, <2>2, MovedFact DEF HandleFlushStale, Actors
  <2>4. UNCHANGED buffers
    BY <1>6 DEF HandleFlushStale, tree
  <2> QED
    BY <1>1, <2>2, <2>3, <2>4 DEF SealsAreJobs
<1>7. ASSUME NEW w \in Workers, Settle(w)
      PROVE  SealsAreJobs'
  <2>2. TypeOK /\ SealsAreJobs
    BY DEF IInv
  <2>3. \A x \in Workers : task'[x].stage = "model" => task'[x] = task[x]
    BY <1>7, <2>2 DEF Settle, TypeOK, Idle, Actors
  <2>4. UNCHANGED buffers
    BY <1>7 DEF Settle, tree
  <2> QED
    BY <1>1, <2>2, <2>3, <2>4 DEF SealsAreJobs
<1>8. ASSUME NEW a \in Actors, NEW s \in SummaryIds, CommitSeal(a, s)
      PROVE  SealsAreJobs'
  <2>2. TypeOK /\ SealsAreJobs /\ OneWorkerPerJob
    BY DEF IInv
  <2>3. a \in Workers /\ task[a].job = Seal(task[a].level) /\ task[a].stage = "model"
    BY <1>8, <1>1, <2>2, CalmSeal, SealWrites
  <2>4. SUFFICES ASSUME NEW x \in Workers, task'[x].stage = "model"
                 PROVE  task'[x].job = Seal(task'[x].level)
                        /\ task'[x].snap \subseteq buffers'[task'[x].level]
    BY DEF SealsAreJobs
  <2>5. x # a /\ task'[x] = task[x]
    BY <1>8, <2>2, <2>4, SealMoves DEF Actors
  <2>6. task[x].job = Seal(task[x].level) /\ task[x].snap \subseteq buffers[task[x].level]
        /\ task[x].level \in Levels
    BY <1>1, <2>2, <2>4, <2>5 DEF SealsAreJobs, TypeOK, Actors
  <2>7. task[x].level # task[a].level
    BY <1>1, <2>2, <2>3, <2>4, <2>5, <2>6 DEF OneWorkerPerJob, Idle
  <2>8. buffers[task[x].level] \subseteq buffers'[task[x].level]
    BY <1>8, <2>2, <2>6, <2>7, SealWrites
  <2> QED
    BY <2>5, <2>6, <2>8
<1>9. ASSUME \/ \E c \in Chunks : Ingest(c)
             \/ SchedulerTick
             \/ BecomesStale
             \/ UNCHANGED vars
      PROVE  SealsAreJobs'
  <2>1. UNCHANGED <<buffers, task, crashes, failures, flushes>>
    BY <1>9 DEF Ingest, SchedulerTick, BecomesStale, vars, tree, bounds
  <2> QED
    BY <2>1 DEF IInv, SealsAreJobs, Calm
<1> QED
  BY <1>1, <1>2, <1>3, <1>4, <1>5, <1>6, <1>7, <1>8, <1>9 DEF CalmNext

(* Past pending, only the settlement of the extraction is left.             *)
LEMMA ExtractedOnceStep == IInv /\ [Next]_vars => ExtractedOnce'
<1> SUFFICES ASSUME IInv, [Next]_vars, Calm'
             PROVE  ExtractedOnce'
  BY DEF ExtractedOnce, Calm
<1>1. Calm /\ (CalmNext \/ UNCHANGED vars)
  BY CalmSteps
<1>2. ASSUME NEW c \in Chunks, Ingest(c)
      PROVE  ExtractedOnce'
  <2>2. TypeOK /\ ExtractedOnce
    BY DEF IInv
  <2>3. /\ status' = [status EXCEPT ![c] = "pending"] /\ status[c] \in {"absent", "pending"}
        /\ UNCHANGED task
    BY <1>2 DEF Ingest
  <2>4. ~Past(c)' /\ ~Past(c) /\ \A d \in Chunks \ {c} : Past(d)' <=> Past(d)
    BY <2>2, <2>3 DEF TypeOK, Past
  <2>5. \A d \in Chunks \ {c} : jobs'[Extract(d)] = jobs[Extract(d)]
    BY <1>2, <2>2, KeysExist, KeysDiffer, StaysActive DEF Ingest
  <2> QED
    BY <1>1, <2>2, <2>3, <2>4, <2>5 DEF ExtractedOnce, IsActive
<1>3. CASE SchedulerTick
  <2>2. TypeOK /\ ExtractedOnce
    BY DEF IInv
  <2>3. \A d \in Chunks : jobs'[Extract(d)] = jobs[Extract(d)]
    BY <1>3, <2>2, KeysExist, KeysDiffer, StaysActive DEF SchedulerTick
  <2>4. UNCHANGED <<status, task>>
    BY <1>3 DEF SchedulerTick
  <2> QED
    BY <1>1, <2>2, <2>3, <2>4 DEF ExtractedOnce, IsActive, Past
<1>4. ASSUME NEW w \in Workers, NEW k \in JobKeys, Claim(w, k)
      PROVE  ExtractedOnce'
  <2>2. TypeOK /\ ExtractedOnce /\ OneWorkerPerJob
    BY DEF IInv
  <2>3. \A x \in Workers : task[x].stage = "settle" => task'[x] = task[x]
    BY <1>4, <2>2 DEF Claim, TypeOK, Idle, Actors
  <2>4. \A n \in JobKeys : IsActive(jobs', n) => IsActive(jobs, n)
    BY <1>4, <2>2 DEF Claim, IsActive, TypeOK
  <2>5. UNCHANGED status
    BY <1>4 DEF Claim
  <2> QED
    BY <1>1, <2>2, <2>3, <2>4, <2>5, KeysExist DEF ExtractedOnce, Past
<1>5. ASSUME NEW w \in Workers, NEW c \in Chunks, HandleExtract(w, c)
      PROVE  ExtractedOnce'
  <2>2. TypeOK /\ ExtractedOnce
    BY DEF IInv
  <2>3. /\ task[w].stage = "work" /\ task[w].job = Extract(c) /\ task' = Moved(w, "settle")
        /\ jobs' = jobs \/ jobs' = Enqueued(jobs, Append(c))
        /\ \E d \in {"admitted", "dropped"} : status' = [status EXCEPT ![c] = d]
    BY <1>5 DEF HandleExtract, ExtractFollowUp
  <2>4. \A d \in Chunks : jobs'[Extract(d)] = jobs[Extract(d)]
    <3>1. Append(c) \in JobKeys /\ \A d \in Chunks : Extract(d) \in JobKeys \ {Append(c)}
      BY KeysExist, KeysDiffer
    <3>2. jobs' = jobs \/ jobs' = Enqueued(jobs, Append(c))
      BY <2>3
    <3> QED
      BY <2>2, <3>1, <3>2, StaysActive
  <2>5. \A d \in Chunks \ {c} : Past(d)' <=> Past(d)
    BY <2>2, <2>3 DEF Past, TypeOK
  <2>6. task'[w].stage = "settle" /\ task'[w].job = Extract(c)
    BY <2>2, <2>3, MovedFact
  <2>7. \A x \in Workers : task[x].stage = "settle" => task'[x] = task[x]
    <3>1. task[w].stage = "work" /\ task' = Moved(w, "settle")
      BY <2>3
    <3> QED
      BY <2>2, <3>1, MovedFact DEF Actors
  <2> QED
    BY <1>1, <2>2, <2>4, <2>5, <2>6, <2>7 DEF ExtractedOnce, IsActive
<1>6. ASSUME NEW w \in Workers, NEW c \in Chunks, HandleAppend(w, c)
      PROVE  ExtractedOnce'
  <2>2. TypeOK /\ ExtractedOnce
    BY DEF IInv
  <2>3. task[w].stage = "work" /\ task[w].job = Append(c)
    BY <1>6, <2>2, AppendWrites
  <2>4. Past(c)
    BY <1>1, <2>3, CalmRun
  <2>5. \A d \in Chunks : Past(d)' => Past(d)
    BY <1>6, <2>2, <2>4, AppendWrites DEF Past
  <2>6. \A d \in Chunks : jobs'[Extract(d)] = jobs[Extract(d)]
    <3>1. jobs' = jobs \/ jobs' = Enqueued(jobs, Seal(0))
      BY <1>6, <2>2, AppendWrites
    <3> QED
      BY <2>2, <3>1, ChunkJobsStay, LevelsFact
  <2>7. \A x \in Workers : task[x].stage = "settle" => task'[x] = task[x]
    BY <1>6, <2>2, <2>3, AppendWrites DEF Actors
  <2> QED
    BY <1>1, <2>2, <2>5, <2>6, <2>7 DEF ExtractedOnce, IsActive
<1>7. ASSUME NEW w \in Workers, NEW l \in Levels, HandleSeal(w, l)
      PROVE  ExtractedOnce'
  <2>2. TypeOK /\ ExtractedOnce
    BY DEF IInv
  <2>3. \A x \in Workers : task[x].stage = "settle" => task'[x] = task[x]
    BY <1>7, <2>2 DEF HandleSeal, Moved, TypeOK, Actors
  <2>4. UNCHANGED <<status, jobs>>
    BY <1>7 DEF HandleSeal
  <2> QED
    BY <1>1, <2>2, <2>3, <2>4 DEF ExtractedOnce, IsActive, Past
<1>8. ASSUME NEW w \in Workers, HandleFlushStale(w)
      PROVE  ExtractedOnce'
  <2>2. TypeOK /\ ExtractedOnce
    BY DEF IInv
  <2>3. \A x \in Workers : task[x].stage = "settle" => task'[x] = task[x]
    BY <1>8, <2>2, MovedFact DEF HandleFlushStale, Actors
  <2>4. \A d \in Chunks : jobs'[Extract(d)] = jobs[Extract(d)]
    <3>1. jobs' = jobs \/ jobs' = Enqueued(jobs, Seal(0))
      BY <1>8 DEF HandleFlushStale, FlushFollowUps
    <3> QED
      BY <2>2, <3>1, ChunkJobsStay, LevelsFact
  <2>5. UNCHANGED status
    BY <1>8 DEF HandleFlushStale
  <2> QED
    BY <1>1, <2>2, <2>3, <2>4, <2>5 DEF ExtractedOnce, IsActive, Past
<1>9. ASSUME NEW w \in Workers, Settle(w)
      PROVE  ExtractedOnce'
  <2>2. TypeOK /\ ExtractedOnce
    BY DEF IInv
  <2>3. \A x \in Workers \ {w} : task'[x] = task[x]
    BY <1>9, <2>2 DEF Settle, TypeOK, Actors
  <2>4. jobs' = [jobs EXCEPT ![task[w].job] = "none"] /\ UNCHANGED status
    BY <1>9 DEF Settle
  <2>5. ASSUME NEW d \in Chunks, IsActive(jobs', Extract(d))
        PROVE  IsActive(jobs, Extract(d)) /\ task[w].job # Extract(d)
    BY <2>2, <2>4, <2>5, KeysExist DEF IsActive, TypeOK
  <2> QED
    BY <1>1, <2>2, <2>3, <2>4, <2>5 DEF ExtractedOnce, Past
<1>10. ASSUME NEW a \in Actors, NEW s \in SummaryIds, CommitSeal(a, s)
      PROVE  ExtractedOnce'
  <2>2. TypeOK /\ ExtractedOnce
    BY DEF IInv
  <2>3. task[a].stage = "model" /\ UNCHANGED status /\ task[a].level + 1 \in Levels
    BY <1>10, <2>2, SealWrites
  <2>4. \A x \in Workers : task[x].stage = "settle" => task'[x] = task[x]
    BY <1>10, <2>2, <2>3, SealMoves DEF Actors
  <2>5. \A d \in Chunks : jobs'[Extract(d)] = jobs[Extract(d)]
    <3>1. jobs' = jobs \/ jobs' = Enqueued(jobs, Seal(task[a].level + 1))
      BY <1>10, <2>2, SealMoves
    <3> QED
      BY <2>2, <2>3, <3>1, ChunkJobsStay
  <2> QED
    BY <1>1, <2>2, <2>3, <2>4, <2>5 DEF ExtractedOnce, IsActive, Past
<1>11. ASSUME \/ BecomesStale
              \/ UNCHANGED vars
      PROVE  ExtractedOnce'
  <2>1. UNCHANGED <<status, jobs, task, crashes, failures, flushes>>
    BY <1>11 DEF BecomesStale, vars, tree, bounds
  <2> QED
    BY <2>1 DEF IInv, ExtractedOnce, Calm, Past, IsActive
<1> QED
  BY <1>1, <1>2, <1>3, <1>4, <1>5, <1>6, <1>7, <1>8, <1>9, <1>10, <1>11 DEF CalmNext

(* An extraction enqueues its append once, before the chunk is in the tree. *)
LEMMA AppendedOnceStep == IInv /\ [Next]_vars => AppendedOnce'
<1> SUFFICES ASSUME IInv, [Next]_vars, Calm'
             PROVE  AppendedOnce'
  BY DEF AppendedOnce, Calm
<1>1. Calm /\ (CalmNext \/ UNCHANGED vars)
  BY CalmSteps
<1>2. ASSUME NEW c \in Chunks, Ingest(c)
      PROVE  AppendedOnce'
  <2>2. TypeOK /\ AppendedOnce
    BY DEF IInv
  <2>3. /\ status' = [status EXCEPT ![c] = "pending"] /\ status[c] \in {"absent", "pending"}
        /\ UNCHANGED <<task, buffers, children>>
    BY <1>2 DEF Ingest, tree
  <2>4. \A d \in Chunks : Past(d)' <=> Past(d)
    BY <2>2, <2>3 DEF TypeOK, Past
  <2>5. \A d \in Chunks : jobs'[Append(d)] = jobs[Append(d)]
    <3>1. Extract(c) \in JobKeys /\ \A d \in Chunks : Append(d) \in JobKeys \ {Extract(c)}
      BY KeysExist, KeysDiffer
    <3>2. jobs' = Enqueued(jobs, Extract(c))
      BY <1>2 DEF Ingest
    <3> QED
      BY <2>2, <3>1, <3>2, StaysActive
  <2> QED
    BY <1>1, <2>2, <2>3, <2>4, <2>5 DEF AppendedOnce, IsActive, Summarised
<1>3. CASE SchedulerTick
  <2>2. TypeOK /\ AppendedOnce
    BY DEF IInv
  <2>3. UNCHANGED <<status, task, buffers, children>>
    BY <1>3 DEF SchedulerTick, tree
  <2>4. \A d \in Chunks : jobs'[Append(d)] = jobs[Append(d)]
    <3>1. FlushStale \in JobKeys /\ \A d \in Chunks : Append(d) \in JobKeys \ {FlushStale}
      BY KeysExist, KeysDiffer
    <3>2. jobs' = Enqueued(jobs, FlushStale)
      BY <1>3 DEF SchedulerTick
    <3> QED
      BY <2>2, <3>1, <3>2, StaysActive
  <2> QED
    BY <1>1, <2>2, <2>3, <2>4 DEF AppendedOnce, IsActive, Summarised, Past
<1>4. ASSUME NEW w \in Workers, NEW k \in JobKeys, Claim(w, k)
      PROVE  AppendedOnce'
  <2>2. TypeOK /\ AppendedOnce
    BY DEF IInv
  <2>3. \A x \in Workers : task[x].stage = "settle" => task'[x] = task[x]
    BY <1>4, <2>2 DEF Claim, TypeOK, Idle, Actors
  <2>4. \A n \in JobKeys : IsActive(jobs', n) <=> IsActive(jobs, n)
    BY <1>4, <2>2 DEF Claim, IsActive, TypeOK
  <2>5. UNCHANGED <<status, buffers, children>>
    BY <1>4 DEF Claim, tree
  <2> QED
    BY <1>1, <2>2, <2>3, <2>4, <2>5, KeysExist DEF AppendedOnce, Past, Summarised
<1>5. ASSUME NEW w \in Workers, NEW c \in Chunks, HandleExtract(w, c)
      PROVE  AppendedOnce'
  <2>2. TypeOK /\ AppendedOnce
    BY DEF IInv
  <2>3. /\ task[w].stage = "work" /\ task[w].job = Extract(c) /\ task' = Moved(w, "settle")
        /\ UNCHANGED <<buffers, children>>
    BY <1>5 DEF HandleExtract, tree
  <2>4. /\ jobs' = jobs \/ jobs' = Enqueued(jobs, Append(c))
        /\ \E d \in {"admitted", "dropped"} : status' = [status EXCEPT ![c] = d]
    BY <1>5 DEF HandleExtract, ExtractFollowUp
  <2>5. c \notin buffers[0] /\ ~Summarised(c)
    BY <1>1, <2>2, <2>3, CalmRun DEF AppendedOnce
  <2>6. \A d \in Chunks \ {c} : jobs'[Append(d)] = jobs[Append(d)]
    <3>1. Append(c) \in JobKeys /\ \A d \in Chunks \ {c} : Append(d) \in JobKeys \ {Append(c)}
      BY KeysExist, KeysDiffer
    <3>2. jobs' = jobs \/ jobs' = Enqueued(jobs, Append(c))
      BY <2>4
    <3> QED
      BY <2>2, <3>1, <3>2, StaysActive
  <2>7. Past(c)' /\ \A d \in Chunks \ {c} : Past(d)' <=> Past(d)
    BY <2>2, <2>4 DEF Past, TypeOK
  <2>8. \A x \in Workers : task[x].stage = "settle" => task'[x] = task[x]
    BY <2>2, <2>3, MovedFact DEF Actors
  <2> QED
    BY <1>1, <2>2, <2>3, <2>5, <2>6, <2>7, <2>8 DEF AppendedOnce, IsActive, Summarised
<1>6. ASSUME NEW w \in Workers, NEW c \in Chunks, HandleAppend(w, c)
      PROVE  AppendedOnce'
  <2>2. TypeOK /\ AppendedOnce
    BY DEF IInv
  <2>3. task[w].stage = "work" /\ task[w].job = Append(c)
    BY <1>6, <2>2, AppendWrites
  <2>4. Past(c)'
    BY <1>6, <2>2, AppendWrites DEF Past
  <2>5. \A d \in Chunks \ {c} : Past(d)' <=> Past(d)
    BY <1>6, <2>2, AppendWrites DEF Past
  <2>9. \A d \in Chunks \ {c} : d \in buffers'[0] <=> d \in buffers[0]
    <3>1. buffers'[0] = buffers[0] \cup {c}
      BY <1>6, <2>2, AppendWrites
    <3> QED
      BY <3>1
  <2>6. \A d \in Chunks : jobs'[Append(d)] = jobs[Append(d)]
    <3>1. jobs' = jobs \/ jobs' = Enqueued(jobs, Seal(0))
      BY <1>6, <2>2, AppendWrites
    <3> QED
      BY <2>2, <3>1, ChunkJobsStay, LevelsFact
  <2>7. \A x \in Workers : task[x].stage = "settle" => task'[x] = task[x]
    BY <1>6, <2>2, <2>3, AppendWrites DEF Actors
  <2>8. task'[w].stage = "settle" /\ task'[w].job = Append(c) /\ UNCHANGED children
    BY <1>6, <2>2, AppendWrites
  <2> QED
    BY <1>1, <2>2, <2>4, <2>5, <2>6, <2>7, <2>8, <2>9 DEF AppendedOnce, IsActive, Summarised
<1>7. ASSUME NEW w \in Workers, NEW l \in Levels, HandleSeal(w, l)
      PROVE  AppendedOnce'
  <2>2. TypeOK /\ AppendedOnce
    BY DEF IInv
  <2>3. \A x \in Workers : task[x].stage = "settle" => task'[x] = task[x]
    BY <1>7, <2>2 DEF HandleSeal, Moved, TypeOK, Actors
  <2>4. UNCHANGED <<status, jobs, buffers, children>>
    BY <1>7 DEF HandleSeal, tree
  <2> QED
    BY <1>1, <2>2, <2>3, <2>4 DEF AppendedOnce, IsActive, Past, Summarised
<1>8. ASSUME NEW w \in Workers, HandleFlushStale(w)
      PROVE  AppendedOnce'
  <2>2. TypeOK /\ AppendedOnce
    BY DEF IInv
  <2>3. \A x \in Workers : task[x].stage = "settle" => task'[x] = task[x]
    BY <1>8, <2>2, MovedFact DEF HandleFlushStale, Actors
  <2>4. \A d \in Chunks : jobs'[Append(d)] = jobs[Append(d)]
    <3>1. jobs' = jobs \/ jobs' = Enqueued(jobs, Seal(0))
      BY <1>8 DEF HandleFlushStale, FlushFollowUps
    <3> QED
      BY <2>2, <3>1, ChunkJobsStay, LevelsFact
  <2>5. UNCHANGED <<status, buffers, children>>
    BY <1>8 DEF HandleFlushStale, tree
  <2> QED
    BY <1>1, <2>2, <2>3, <2>4, <2>5 DEF AppendedOnce, IsActive, Past, Summarised
<1>9. ASSUME NEW w \in Workers, Settle(w)
      PROVE  AppendedOnce'
  <2>2. TypeOK /\ AppendedOnce
    BY DEF IInv
  <2>3. \A x \in Workers \ {w} : task'[x] = task[x]
    BY <1>9, <2>2 DEF Settle, TypeOK, Actors
  <2>4. /\ jobs' = [jobs EXCEPT ![task[w].job] = "none"]
        /\ UNCHANGED <<status, buffers, children>>
    BY <1>9 DEF Settle, tree
  <2>5. ASSUME NEW d \in Chunks, IsActive(jobs', Append(d))
        PROVE  IsActive(jobs, Append(d)) /\ task[w].job # Append(d)
    BY <2>2, <2>4, <2>5, KeysExist DEF IsActive, TypeOK
  <2> QED
    BY <1>1, <2>2, <2>3, <2>4, <2>5 DEF AppendedOnce, Past, Summarised
<1>10. ASSUME NEW a \in Actors, NEW s \in SummaryIds, CommitSeal(a, s)
      PROVE  AppendedOnce'
  <2>2. TypeOK /\ AppendedOnce
    BY DEF IInv
  <2>3. task[a].stage = "model" /\ UNCHANGED status /\ task[a].level + 1 \in Levels
    BY <1>10, <2>2, SealWrites
  <2>4. \A x \in Workers : task[x].stage = "settle" => task'[x] = task[x]
    BY <1>10, <2>2, <2>3, SealMoves DEF Actors
  <2>5. \A d \in Chunks : jobs'[Append(d)] = jobs[Append(d)]
    <3>1. jobs' = jobs \/ jobs' = Enqueued(jobs, Seal(task[a].level + 1))
      BY <1>10, <2>2, SealMoves
    <3> QED
      BY <2>2, <2>3, <3>1, ChunkJobsStay
  <2>6. \A d \in Chunks : d \in buffers'[0] \/ Summarised(d)' => d \in buffers[0] \/ Summarised(d)
    BY <1>10, <1>1, CalmSeal
  <2> QED
    BY <1>1, <2>2, <2>3, <2>4, <2>5, <2>6 DEF AppendedOnce, IsActive, Past
<1>11. ASSUME \/ BecomesStale
              \/ UNCHANGED vars
      PROVE  AppendedOnce'
  <2>1. UNCHANGED <<status, buffers, children, jobs, task, crashes, failures, flushes>>
    BY <1>11 DEF BecomesStale, vars, tree, bounds
  <2> QED
    BY <2>1 DEF IInv, AppendedOnce, Calm, Past, IsActive, Summarised
<1> QED
  BY <1>1, <1>2, <1>3, <1>4, <1>5, <1>6, <1>7, <1>8, <1>9, <1>10, <1>11 DEF CalmNext

(* What a seal summarises leaves the only buffer it is in.                  *)
LEMMA WaitsOrIsSummarisedStep == IInv /\ [Next]_vars => WaitsOrIsSummarised'
<1> SUFFICES ASSUME IInv, [Next]_vars, Calm'
             PROVE  WaitsOrIsSummarised'
  BY DEF WaitsOrIsSummarised, Calm
<1>1. Calm /\ (CalmNext \/ UNCHANGED vars)
  BY CalmSteps
<1>2. ASSUME NEW w \in Workers, NEW c \in Chunks, HandleAppend(w, c)
      PROVE  WaitsOrIsSummarised'
  <2>2. TypeOK /\ WaitsOrIsSummarised
    BY DEF IInv
  <2>3. ~Summarised(c)
    BY <1>2, <1>1, <2>2, AppendWrites, CalmRun
  <2>4. /\ buffers'[0] = buffers[0] \cup {c}
        /\ \A n \in Levels \ {0} : buffers'[n] = buffers[n]
        /\ UNCHANGED <<children, level>>
    BY <1>2, <2>2, AppendWrites
  <2>5. \A n \in Levels : \A i \in buffers'[n] : i \in buffers[n] \/ (i = c /\ n = 0)
    BY <2>4
  <2>6. \A i : Summarised(i)' <=> Summarised(i)
    BY <2>4 DEF Summarised
  <2>8. c \notin SummaryIds /\ UNCHANGED level
    BY <2>4, ItemsAssumption
  <2> QED
    BY <1>1, <2>2, <2>3, <2>5, <2>6, <2>8 DEF WaitsOrIsSummarised
<1>3. ASSUME NEW a \in Actors, NEW s \in SummaryIds, CommitSeal(a, s)
      PROVE  WaitsOrIsSummarised'
  <2>1. TypeOK /\ WaitsOrIsSummarised
    BY DEF IInv
  <2>2. /\ task[a].level \in Nat /\ task[a].level + 1 \in Levels
        /\ \A n \in Levels : buffers'[n] \subseteq buffers[n] \cup {s}
        /\ \A n \in Levels : n # task[a].level + 1 => buffers'[n] \subseteq buffers[n]
        /\ level'[s] = task[a].level + 1
        /\ \A x \in SummaryIds \ {s} : level'[x] = level[x]
    BY <1>3, <2>1, SealWrites
  <2>3. ~Summarised(s) /\ s \notin task[a].snap /\ \A n \in Levels : s \notin buffers[n]
    BY <1>3, <1>1, CalmSeal
  <2>4. ASSUME NEW n \in Levels, NEW i \in buffers'[n]
        PROVE  ~Summarised(i)'
    <3>1. i \in buffers[n] \/ i = s
      BY <2>2, <2>4
    <3>2. i \notin task[a].snap
      BY <1>3, <1>1, <2>4, CalmSeal
    <3>3. ~Summarised(i)
      BY <1>1, <2>1, <2>3, <3>1 DEF WaitsOrIsSummarised
    <3> QED
      BY <1>3, <1>1, <3>2, <3>3, CalmSeal
  <2>5. ASSUME NEW i \in Chunks, NEW n \in Levels, i \in buffers'[n]
        PROVE  n = 0
    BY <1>1, <2>1, <2>2, <2>5, ItemsAssumption DEF WaitsOrIsSummarised
  <2>6. ASSUME NEW x \in SummaryIds, NEW n \in Levels, x \in buffers'[n]
        PROVE  n = level'[x] /\ n > 0
    <3>1. CASE x = s
      BY <2>2, <2>3, <2>6, <3>1
    <3>2. CASE x # s
      BY <1>1, <2>1, <2>2, <2>6, <3>2 DEF WaitsOrIsSummarised
    <3> QED
      BY <3>1, <3>2
  <2> QED
    BY <2>4, <2>5, <2>6 DEF WaitsOrIsSummarised
<1>4. ASSUME \/ \E c \in Chunks : Ingest(c)
             \/ SchedulerTick
             \/ BecomesStale
             \/ \E w \in Workers, k \in JobKeys : Claim(w, k)
             \/ \E w \in Workers, c \in Chunks : HandleExtract(w, c)
             \/ \E w \in Workers, l \in Levels : HandleSeal(w, l)
             \/ \E w \in Workers : HandleFlushStale(w)
             \/ \E w \in Workers : Settle(w)
             \/ UNCHANGED vars
      PROVE  WaitsOrIsSummarised'
  <2>1. UNCHANGED <<buffers, children, level, crashes, failures, flushes>>
    BY <1>4 DEF Ingest, SchedulerTick, BecomesStale, Claim, HandleExtract, HandleSeal,
     HandleFlushStale, Settle, vars, tree, bounds
  <2> QED
    BY <2>1 DEF IInv, WaitsOrIsSummarised, Calm, Summarised
<1> QED
  BY <1>1, <1>2, <1>3, <1>4 DEF CalmNext

(* A seal summarises what waits, and what waits has no summary.             *)
LEMMA ChildSealsOnceStep == IInv /\ [Next]_vars => ChildSealsOnce'
<1> SUFFICES ASSUME IInv, [Next]_vars, Calm'
             PROVE  ChildSealsOnce'
  BY DEF ChildSealsOnce, Calm
<1>1. Calm /\ (CalmNext \/ UNCHANGED vars)
  BY CalmSteps
<1>2. ASSUME NEW a \in Actors, NEW s \in SummaryIds, CommitSeal(a, s)
      PROVE  ChildSealsOnce'
  <2>2. /\ children'[s] = task[a].snap
        /\ \A x \in SummaryIds \ {s} : children'[x] = children[x]
    BY <1>2, SealWrites DEF IInv
  <2>3. \A x \in SummaryIds : children[x] \cap task[a].snap = {}
    BY <1>2, <1>1, CalmSeal DEF Summarised
  <2> QED
    BY <1>1, <2>2, <2>3 DEF IInv, ChildSealsOnce, Calm
<1>3. ASSUME \/ \E c \in Chunks : Ingest(c)
             \/ SchedulerTick
             \/ BecomesStale
             \/ \E w \in Workers, k \in JobKeys : Claim(w, k)
             \/ \E w \in Workers, c \in Chunks : HandleExtract(w, c)
             \/ \E w \in Workers, c \in Chunks : HandleAppend(w, c)
             \/ \E w \in Workers, l \in Levels : HandleSeal(w, l)
             \/ \E w \in Workers : HandleFlushStale(w)
             \/ \E w \in Workers : Settle(w)
             \/ UNCHANGED vars
      PROVE  ChildSealsOnce'
  <2>1. UNCHANGED <<children, crashes, failures, flushes>>
    BY <1>3 DEF Ingest, SchedulerTick, BecomesStale, Claim, HandleExtract, HandleAppend,
     HandleSeal, HandleFlushStale, Settle, vars, tree, bounds
  <2> QED
    BY <2>1 DEF IInv, ChildSealsOnce
<1> QED
  BY <1>1, <1>2, <1>3 DEF CalmNext

-----------------------------------------------------------------------------

(* It holds at the start: nothing is ingested and no task runs.             *)
LEMMA InitInv == Init => IInv
<1> SUFFICES ASSUME Init PROVE IInv
  OBVIOUS
<1>1. /\ level = [s \in SummaryIds |-> 0] /\ children = [s \in SummaryIds |-> {}]
      /\ buffers = [l \in Levels |-> {}] /\ task = [a \in Actors |-> Idle]
      /\ jobs = [k \in JobKeys |-> "none"] /\ failed = [k \in JobKeys |-> 0]
      /\ status = [c \in Chunks |-> "absent"] /\ parent = [i \in Items |-> None]
  BY DEF Init
<1>2. Idle.stage = "idle" /\ Idle.snap = {}
  BY DEF Idle
<1>3. \A a \in Actors : task[a] = Idle
  BY <1>1
<1>4. TypeOK
  <2>1. Idle \in [stage: {"idle", "work", "model", "settle", "read"},
                  job: JobKeys \cup {None}, level: Levels, snap: SUBSET Items]
    BY LevelsFact DEF Idle
  <2>2. task \in [Actors -> [stage: {"idle", "work", "model", "settle", "read"},
                  job: JobKeys \cup {None}, level: Levels, snap: SUBSET Items]]
    BY <1>1, <2>1
  <2>3. \A a \in Actors : task[a].stage = "model" => task[a].snap # {}
    BY <1>2, <1>3
  <2>4. /\ jobs \in [JobKeys -> {"none", "ready", "running"}]
        /\ failed \in [JobKeys -> 0..MaxFailures]
        /\ status \in [Chunks -> {"absent", "pending", "admitted", "buffered", "dropped"}]
    BY <1>1, BoundsAreNat
  <2>5. /\ buffers \in [Levels -> SUBSET Items] /\ children \in [SummaryIds -> SUBSET Items]
        /\ level \in [SummaryIds -> Levels]
        /\ parent \in [Items -> SummaryIds \cup {None}]
    BY <1>1, LevelsFact
  <2>6. /\ root \in SummaryIds \cup {None} /\ maxLevel \in Levels
        /\ aged \in BOOLEAN /\ forced \in BOOLEAN /\ active \in BOOLEAN
        /\ overtaken \subseteq Items
    BY LevelsFact DEF Init
  <2> QED
    BY <2>2, <2>3, <2>4, <2>5, <2>6 DEF TypeOK
<1>5. Counted
  BY <1>1, BoundsAreNat DEF Init, Counted
<1>6. FreshIsEmpty /\ WrittenOnly
  BY <1>1, <1>2 DEF FreshIsEmpty, WrittenOnly
<1>7. ParentListsChild
  BY <1>1 DEF ParentListsChild, Summarised
<1>8. RootIsHighest
  BY <1>1 DEF Init, RootIsHighest
<1>9. SnapMeetsGate /\ FaninRespected /\ SnapCoversBuffer
  BY <1>1, <1>2 DEF SnapMeetsGate, FaninRespected, SnapCoversBuffer
<1>10. OnlyOvertakenAreLost /\ AdmittedIsPursued
  BY <1>1 DEF OnlyOvertakenAreLost, AdmittedIsPursued
<1>11. AppendedIsInTree
  BY <1>2, <1>3 DEF AppendedIsInTree, Actors
<1>12. OneWorkerPerJob
  BY <1>1, <1>3 DEF OneWorkerPerJob, Actors
<1>13. SealsAreJobs
  BY <1>2, <1>3 DEF SealsAreJobs, Actors
<1>14. ExtractedOnce
  BY <1>1 DEF ExtractedOnce, Past
<1>15. AppendedOnce
  <2>1. \A c \in Chunks : ~IsActive(jobs, Append(c))
    BY <1>1, KeysExist DEF IsActive
  <2>2. \A c \in Chunks : c \notin buffers[0] /\ ~Summarised(c)
    BY <1>1, LevelsFact DEF Summarised
  <2> QED
    BY <2>1, <2>2 DEF AppendedOnce
<1>16. WaitsOrIsSummarised /\ ChildSealsOnce
  BY <1>1 DEF WaitsOrIsSummarised, ChildSealsOnce
<1> QED
  BY <1>4, <1>5, <1>6, <1>7, <1>8, <1>9, <1>10, <1>11, <1>12, <1>13, <1>14, <1>15, <1>16
     DEF IInv

(* The invariant: IInv holds in every state of every behaviour.             *)
THEOREM Invariant == Spec => []IInv
<1>1. IInv /\ [Next]_vars => IInv'
  BY TypeOKStep, CountedStep, FreshIsEmptyStep, WrittenOnlyStep, ParentListsChildStep,
     RootIsHighestStep, SnapMeetsGateStep, FaninRespectedStep, SnapCoversBufferStep,
     OnlyOvertakenAreLostStep, AppendedIsInTreeStep, AdmittedIsPursuedStep,
     OneWorkerPerJobStep, SealsAreJobsStep, ExtractedOnceStep, AppendedOnceStep,
     WaitsOrIsSummarisedStep, ChildSealsOnceStep
     DEF IInv
<1> QED
  BY InitInv, <1>1, PTL DEF Spec

(* The state keeps its types.                                               *)
THEOREM TypeCorrect == Spec => []TypeOK
<1>1. IInv => TypeOK
  BY DEF IInv
<1> QED
  BY <1>1, Invariant, PTL

(* Nothing that reached the tree gets lost, but what was put into a buffer  *)
(* while a seal of that buffer awaited the model.                           *)
THEOREM LostOnlyUnderSeal == Spec => []OnlyOvertakenAreLost
<1>1. IInv => OnlyOvertakenAreLost
  BY DEF IInv
<1> QED
  BY <1>1, Invariant, PTL

(* An admitted chunk has its append job, or is in the tree.                 *)
THEOREM AdmittedPursued == Spec => []AdmittedIsPursued
<1>1. IInv => AdmittedIsPursued
  BY DEF IInv
<1> QED
  BY <1>1, Invariant, PTL

(* A child seals at most once, while nothing fails and nobody flushes by hand.*)
THEOREM SealsOnce == Spec => []ChildSealsOnce
<1>1. IInv => ChildSealsOnce
  BY DEF IInv
<1> QED
  BY <1>1, Invariant, PTL

(* Parent links and child lists agree.                                      *)
THEOREM LinksAgree == Spec => []ParentListsChild
<1>1. IInv => ParentListsChild
  BY DEF IInv
<1> QED
  BY <1>1, Invariant, PTL

(* The root is one of the highest summaries.                                *)
THEOREM RootHighest == Spec => []RootIsHighest
<1>1. IInv => RootIsHighest
  BY DEF IInv
<1> QED
  BY <1>1, Invariant, PTL

(* Above the leaves every summary has at least its fan-in of children.      *)
THEOREM FaninHolds == Spec => []FaninRespected
<1>1. IInv => FaninRespected
  BY DEF IInv
<1> QED
  BY <1>1, Invariant, PTL

(* A parent link never moves: a seal fills only links that are NULL.        *)
THEOREM ParentsFinal == Spec => ParentIsFinal
<1> DEFINE Kept == \A i \in Items : parent[i] # None => parent'[i] = parent[i]
<1>1. IInv /\ [Next]_vars => [Kept]_vars
  <2> SUFFICES ASSUME IInv, Next PROVE Kept
    OBVIOUS
  <2>1. ASSUME NEW a \in Actors, NEW s \in SummaryIds, CommitSeal(a, s)
        PROVE  Kept
    BY <2>1, SealWrites DEF IInv
  <2>2. ASSUME ~\E a \in Actors, s \in SummaryIds : CommitSeal(a, s)
        PROVE  UNCHANGED parent
    BY <2>2 DEF Next, Ingest, SchedulerTick, BecomesStale, Claim, HandleExtract,
       HandleAppend, HandleSeal, HandleFlushStale, Settle, Fail, Sweep, ManualFlush,
       CascadeReads, ManualFlushFails, Crash, tree
  <2> QED
    BY <2>1, <2>2
<1> QED
  BY <1>1, Invariant, PTL DEF Spec, ParentIsFinal

-----------------------------------------------------------------------------
(* The pipeline uses its queue as KeyQueue says.                           *)

(* Through crashes, failures and sweeps: a worker with a keyed job has its  *)
(* row, and has it alone.                                                   *)
HandHasRow ==
  \A w \in Workers : task[w] # Idle =>
    /\ task[w].job \in JobKeys
    /\ task[w].job # FlushStale =>
         /\ jobs[task[w].job] = "running"
         /\ \A v \in Workers : task[v] # Idle /\ task[v].job = task[w].job => v = w

(* The workers keep what they have in hand, and rows only come in.          *)
HandsKept ==
  \A w \in Workers : /\ task'[w] # Idle <=> task[w] # Idle
                     /\ task[w] # Idle => task'[w].job = task[w].job
RowsComeIn ==
  /\ jobs' \in [JobKeys -> {"none", "ready", "running"}]
  /\ \A k \in JobKeys : jobs'[k] = jobs[k] \/ (jobs[k] = "none" /\ jobs'[k] = "ready")

LEMMA RowsEnter ==
  ASSUME HandHasRow, HandsKept, RowsComeIn, failed' = failed
  PROVE  KeyView!Enqueue /\ HandHasRow'
<1>1. HandHasRow'
  BY DEF HandHasRow, HandsKept, RowsComeIn
<1>2. \A w \in Workers, k \in KeyedJobs : HasInHand(w, k)' <=> HasInHand(w, k)
  BY DEF HandsKept, HasInHand
<1>3. [k \in KeyedJobs |-> jobs'[k]] \in [KeyedJobs -> KeyView!Status]
  BY DEF RowsComeIn, KeyedJobs, KeyView!Status
<1>4. \A k \in KeyedJobs : KeyView!MayEnter(k)
  BY DEF RowsComeIn, KeyedJobs, KeyView!MayEnter
<1> QED
  BY <1>1, <1>2, <1>3, <1>4 DEF KeyView!Enqueue

LEMMA OneRowEnters ==
  ASSUME TypeOK, NEW k \in JobKeys, jobs' = jobs \/ jobs' = Enqueued(jobs, k)
  PROVE  RowsComeIn
BY DEF TypeOK, Enqueued, IsActive, RowsComeIn

(* A worker whose handler goes on keeps its job.                            *)
LEMMA ReturnKeepsHands ==
  ASSUME TypeOK, NEW w \in Workers, task' = Moved(w, "settle"), task[w] # Idle
  PROVE  HandsKept
BY MovedFact DEF HandsKept, Actors

(* A claim.                                                                 *)
LEMMA ClaimTakes ==
  ASSUME TypeOK, HandHasRow, NEW w \in Workers, NEW k \in JobKeys, Claim(w, k)
  PROVE  KeyView!Claim(w) /\ HandHasRow'
<1>1. /\ task[w] = Idle /\ jobs[k] = "ready" /\ jobs'[k] = "running" /\ failed' = failed
      /\ \A n \in JobKeys \ {k} : jobs'[n] = jobs[n]
      /\ task'[w] = At("work", k, 0, {}) /\ \A v \in Workers \ {w} : task'[v] = task[v]
  BY DEF Claim, TypeOK, Actors
<1>2. task'[w] # Idle /\ task'[w].job = k
  BY <1>1 DEF At, Idle
<1>3. \A v \in Workers : task[v] # Idle /\ task[v].job = k => k = FlushStale
  BY <1>1 DEF HandHasRow
<1>4. HandHasRow'
  BY <1>1, <1>2, <1>3 DEF HandHasRow
<1> DEFINE taken == {n \in KeyedJobs : n = k}
<1>5. taken \in SUBSET {n \in KeyedJobs : [m \in KeyedJobs |-> jobs[m]][n] = "ready"}
  BY <1>1
<1>6. [n \in KeyedJobs |-> jobs'[n]] =
        [n \in KeyedJobs |-> IF n \in taken THEN "running" ELSE [m \in KeyedJobs |-> jobs[m]][n]]
  BY <1>1 DEF KeyedJobs
<1>7. ASSUME NEW v \in Workers
      PROVE  {n \in KeyedJobs : HasInHand(v, n)'} =
               IF v = w THEN {n \in KeyedJobs : HasInHand(v, n)} \cup taken
               ELSE {n \in KeyedJobs : HasInHand(v, n)} \ taken
  BY <1>1, <1>2, <1>3 DEF HasInHand, KeyedJobs
<1>8. KeyView!Claim(w)
  BY <1>1, <1>5, <1>6, <1>7 DEF KeyView!Claim
<1> QED
  BY <1>4, <1>8

(* A worker lets go of its job, done or not.                                *)
LEMMA LetsGo ==
  ASSUME TypeOK, HandHasRow, NEW w \in Workers, task[w] # Idle,
         task' = [task EXCEPT ![w] = Idle],
         NEW s \in {"none", "ready"}, jobs' = [jobs EXCEPT ![task[w].job] = s]
  PROVE  /\ HandHasRow'
         /\ \A x \in KeyedJobs : task[w].job = x =>
              /\ KeyView!LetGo(w, x)
              /\ [k \in KeyedJobs |-> jobs'[k]] = [[k \in KeyedJobs |-> jobs[k]] EXCEPT ![x] = s]
         /\ task[w].job \notin KeyedJobs =>
              /\ \A v \in Workers, k \in KeyedJobs : HasInHand(v, k)' <=> HasInHand(v, k)
              /\ \A k \in KeyedJobs : jobs'[k] = jobs[k]
<1>1. /\ task'[w] = Idle /\ \A v \in Workers \ {w} : task'[v] = task[v]
      /\ \A k \in JobKeys \ {task[w].job} : jobs'[k] = jobs[k]
  BY DEF TypeOK, Actors
<1>2. \A v \in Workers \ {w} :
        task[v] # Idle /\ task[v].job = task[w].job => task[v].job = FlushStale
  BY DEF HandHasRow
<1>3. HandHasRow'
  BY <1>1, <1>2 DEF HandHasRow
<1>4. ASSUME NEW x \in KeyedJobs, task[w].job = x
      PROVE  /\ KeyView!LetGo(w, x)
             /\ [k \in KeyedJobs |-> jobs'[k]] = [[k \in KeyedJobs |-> jobs[k]] EXCEPT ![x] = s]
  <2>1. \A v \in Workers : {k \in KeyedJobs : HasInHand(v, k)'} =
          IF v = w THEN {k \in KeyedJobs : HasInHand(v, k)} \ {x}
          ELSE {k \in KeyedJobs : HasInHand(v, k)}
    BY <1>1, <1>4 DEF HasInHand
  <2>2. x \in {k \in KeyedJobs : HasInHand(w, k)}
    BY <1>4 DEF HasInHand
  <2>3. KeyView!LetGo(w, x)
    BY <2>1, <2>2 DEF KeyView!LetGo
  <2>4. jobs \in [JobKeys -> {"none", "ready", "running"}] /\ x \in JobKeys
    BY DEF TypeOK, KeyedJobs
  <2> QED
    BY <1>4, <2>3, <2>4 DEF KeyedJobs
<1>5. ASSUME task[w].job \notin KeyedJobs
      PROVE  /\ \A v \in Workers, k \in KeyedJobs : HasInHand(v, k)' <=> HasInHand(v, k)
             /\ \A k \in KeyedJobs : jobs'[k] = jobs[k]
  BY <1>1, <1>5 DEF HasInHand, KeyedJobs
<1> QED
  BY <1>3, <1>4, <1>5

(* A step that the keyed jobs do not show.                                  *)
LEMMA HandsUnseen ==
  ASSUME \A v \in Workers, k \in KeyedJobs : HasInHand(v, k)' <=> HasInHand(v, k),
         \A k \in KeyedJobs : jobs'[k] = jobs[k] /\ failed'[k] = failed[k]
  PROVE  UNCHANGED KeyView!vars
<1>1. [w \in Workers |-> {k \in KeyedJobs : HasInHand(w, k)'}] =
        [w \in Workers |-> {k \in KeyedJobs : HasInHand(w, k)}]
  OBVIOUS
<1>2. [k \in KeyedJobs |-> jobs'[k]] = [k \in KeyedJobs |-> jobs[k]]
  OBVIOUS
<1>3. [k \in KeyedJobs |-> 1..failed'[k]] = [k \in KeyedJobs |-> 1..failed[k]]
  OBVIOUS
<1> QED
  BY <1>1, <1>2, <1>3 DEF KeyView!vars

(* An owner's settlement of a keyed job.                                    *)
LEMMA OwnerSettles ==
  ASSUME NEW w \in Workers, NEW k \in KeyedJobs,
         KeyView!Finish(w, k) \/ KeyView!PutBack(w, k) \/ KeyView!Fail(w, k)
  PROVE  KeyView!Works
BY Zenon DEF KeyView!Works

LEMMA SettleFinishes ==
  ASSUME TypeOK, HandHasRow, NEW w \in Workers, Settle(w)
  PROVE  (KeyView!Works \/ UNCHANGED KeyView!vars) /\ HandHasRow'
<1>1. task[w] # Idle /\ task' = [task EXCEPT ![w] = Idle] /\ failed' = failed
      /\ jobs' = [jobs EXCEPT ![task[w].job] = "none"]
  BY DEF Settle, Idle
<1>2. HandHasRow'
  BY <1>1, LetsGo
<1>3. CASE task[w].job \in KeyedJobs
  <2>1. PICK x \in KeyedJobs : task[w].job = x
    BY <1>3
  <2>2. KeyView!Finish(w, x)
    BY <1>1, <2>1, LetsGo DEF KeyView!Finish
  <2> QED
    BY <1>2, <2>2, OwnerSettles
<1>4. CASE task[w].job \notin KeyedJobs
  <2>1. /\ \A v \in Workers, k \in KeyedJobs : HasInHand(v, k)' <=> HasInHand(v, k)
        /\ \A k \in KeyedJobs : jobs'[k] = jobs[k]
    BY <1>1, <1>4, LetsGo
  <2> QED
    BY <1>1, <1>2, <2>1, HandsUnseen
<1> QED
  BY <1>3, <1>4

LEMMA FailPutsBack ==
  ASSUME TypeOK, Counted, HandHasRow, NEW w \in Workers, Fail(w)
  PROVE  (KeyView!Works \/ UNCHANGED KeyView!vars) /\ HandHasRow'
<1>1. task[w] # Idle /\ task' = [task EXCEPT ![w] = Idle]
  BY FailWrites DEF Idle
<1>2. CASE jobs' = [jobs EXCEPT ![task[w].job] = "ready"] /\ failed' = failed
  <2>1. HandHasRow'
    BY <1>1, <1>2, LetsGo
  <2>2. CASE task[w].job \in KeyedJobs
    <3>1. PICK x \in KeyedJobs : task[w].job = x
      BY <2>2
    <3>2. KeyView!PutBack(w, x)
      BY <1>1, <1>2, <3>1, LetsGo DEF KeyView!PutBack
    <3> QED
      BY <2>1, <3>2, OwnerSettles
  <2>3. CASE task[w].job \notin KeyedJobs
    <3>1. /\ \A v \in Workers, k \in KeyedJobs : HasInHand(v, k)' <=> HasInHand(v, k)
          /\ \A k \in KeyedJobs : jobs'[k] = jobs[k]
      BY <1>1, <1>2, <2>3, LetsGo
    <3> QED
      BY <1>2, <2>1, <3>1, HandsUnseen
  <2> QED
    BY <2>2, <2>3
<1>3. CASE /\ jobs' = [jobs EXCEPT ![task[w].job] = "none"]
           /\ failed' = [failed EXCEPT ![task[w].job] = failed[task[w].job] + 1]
  <2>1. HandHasRow'
    BY <1>1, <1>3, LetsGo
  <2>2. \A k \in JobKeys \ {task[w].job} : failed'[k] = failed[k]
    BY <1>3 DEF TypeOK
  <2>3. CASE task[w].job \in KeyedJobs
    <3>0. PICK x \in KeyedJobs : task[w].job = x
      BY <2>3
    <3> DEFINE i == failed[x] + 1
               gone == [k \in KeyedJobs |-> 1..failed[k]]
    <3>1. x \in JobKeys /\ failed[x] \in Nat /\ failed'[x] = i /\ i \in 1..MaxFailures
          /\ 1..i = 1..failed[x] \cup {i} /\ i \notin 1..failed[x]
      <4>1. x \in JobKeys
        BY DEF KeyedJobs
      <4>2. failed[x] \in 0..failures /\ failures \in 0..MaxFailures /\ failures < MaxFailures
        BY <4>1, FailWrites DEF Counted
      <4>3. failed'[x] = i
        BY <1>3, <3>0, <4>1 DEF TypeOK
      <4> QED
        BY <4>1, <4>2, <4>3, BoundsAreNat
    <3>2. [k \in KeyedJobs |-> 1..failed'[k]] = [gone EXCEPT ![x] = gone[x] \cup {i}]
      BY <2>2, <3>0, <3>1 DEF KeyedJobs
    <3>3. i \in (1..MaxFailures) \ (gone[x] \cup [k \in KeyedJobs |-> {}][x])
      BY <3>1
    <3>4. KeyView!LetGo(w, x)
          /\ [k \in KeyedJobs |-> jobs'[k]] =
               [[k \in KeyedJobs |-> jobs[k]] EXCEPT ![x] = "none"]
      BY <1>1, <1>3, <3>0, LetsGo
    <3> HIDE DEF i
    <3>5. KeyView!Fail(w, x)
      BY <3>2, <3>3, <3>4 DEF KeyView!Fail
    <3> QED
      BY <2>1, <3>5, OwnerSettles
  <2>4. CASE task[w].job \notin KeyedJobs
    <3>1. /\ \A v \in Workers, k \in KeyedJobs : HasInHand(v, k)' <=> HasInHand(v, k)
          /\ \A k \in KeyedJobs : jobs'[k] = jobs[k]
      BY <1>1, <1>3, <2>4, LetsGo
    <3>2. \A k \in KeyedJobs : failed'[k] = failed[k]
      BY <2>2, <2>4 DEF KeyedJobs
    <3> QED
      BY <2>1, <3>1, <3>2, HandsUnseen
  <2> QED
    BY <2>3, <2>4
<1> QED
  BY <1>2, <1>3, FailWrites

LEMMA SweepRequeues ==
  ASSUME TypeOK, HandHasRow, Sweep
  PROVE  KeyView!Requeue(FALSE) /\ HandHasRow'
<1> DEFINE swept == {k \in JobKeys : failed[k] > 0}
<1>1. /\ \A k \in swept \ {FlushStale} : failed[k] = 1 /\ jobs[k] = "none"
      /\ jobs' = [k \in JobKeys |-> IF k \in swept THEN "ready" ELSE jobs[k]]
      /\ failed' = [k \in JobKeys |-> 0] /\ task' = task
  BY DEF Sweep, IsActive
<1>2. HandHasRow'
  BY <1>1 DEF HandHasRow
<1>3. \A k \in KeyedJobs : k \in JobKeys /\ failed[k] \in Nat /\ (k \in swept <=> failed[k] > 0)
  BY BoundsAreNat DEF KeyedJobs, TypeOK
<1>4. \A k \in KeyedJobs : 1..failed[k] # {} <=> k \in swept
  BY <1>3
<1>5. \A k \in KeyedJobs : k \in swept =>
        jobs[k] = "none" /\ jobs'[k] = "ready" /\ \A i, j \in 1..failed[k] : i = j
  BY <1>1, <1>3 DEF KeyedJobs
<1>6. \A k \in KeyedJobs : k \notin swept => jobs'[k] = jobs[k]
  BY <1>1, <1>3
<1>7. [k \in KeyedJobs |-> jobs'[k]] \in [KeyedJobs -> KeyView!Status]
  BY <1>1, <1>3 DEF TypeOK, KeyView!Status
<1>8. [k \in KeyedJobs |-> 1..failed'[k]] = KeyView!NoneFailed
  BY <1>1, <1>3 DEF KeyView!NoneFailed
<1>9. \A w \in Workers, k \in KeyedJobs : HasInHand(w, k)' <=> HasInHand(w, k)
  BY <1>1 DEF HasInHand
<1> HIDE DEF swept
<1>10. KeyView!Requeue(FALSE)
  BY <1>4, <1>5, <1>6, <1>7, <1>8, <1>9 DEF KeyView!Requeue, KeyView!MayEnter
<1> QED
  BY <1>2, <1>10

LEMMA CrashRestarts ==
  ASSUME TypeOK, Crash
  PROVE  KeyView!Restart /\ HandHasRow'
<1>1. \A w \in Workers : task'[w] = Idle
  BY DEF Crash, Actors
<1>2. failed' = failed
  BY DEF Crash
<1>3. PICK over \in SUBSET {k \in JobKeys : jobs[k] = "running"} :
        jobs' = [k \in JobKeys |-> IF k \in over THEN "ready" ELSE jobs[k]]
  BY DEF Crash
<1> DEFINE keyed == over \cap KeyedJobs
<1>4. keyed \in SUBSET {k \in KeyedJobs : [m \in KeyedJobs |-> jobs[m]][k] = "running"}
  OBVIOUS
<1>5. [k \in KeyedJobs |-> jobs'[k]] =
        [k \in KeyedJobs |-> IF k \in keyed THEN "ready" ELSE [m \in KeyedJobs |-> jobs[m]][k]]
  BY <1>3 DEF KeyedJobs
<1>6. \A w \in Workers : {k \in KeyedJobs : HasInHand(w, k)'} = {}
  BY <1>1 DEF HasInHand
<1>7. KeyView!Restart
  BY <1>2, <1>4, <1>5, <1>6 DEF KeyView!Restart, KeyView!NoneOwned
<1> QED
  BY <1>1, <1>7 DEF HandHasRow

(* Every step of the pipeline is one of the queue's, or none.               *)
LEMMA StepsUseKeyQueue ==
  ASSUME IInv, HandHasRow, [Next]_vars
  PROVE  (KeyView!Works \/ UNCHANGED KeyView!vars) /\ HandHasRow'
<1>0. TypeOK /\ Counted
  BY DEF IInv
<1> DEFINE Goal == (KeyView!Works \/ UNCHANGED KeyView!vars) /\ HandHasRow'
<1> SUFFICES Goal
  OBVIOUS
<1>1. ASSUME HandsKept, RowsComeIn, failed' = failed PROVE Goal
  BY <1>1, RowsEnter DEF KeyView!Works
<1> HIDE DEF Goal
<1>2. ASSUME UNCHANGED task PROVE HandsKept
  BY <1>2 DEF HandsKept
<1>3. ASSUME UNCHANGED jobs PROVE RowsComeIn
  BY <1>0, <1>3 DEF RowsComeIn, TypeOK
<1>4. ASSUME NEW c \in Chunks, Ingest(c) PROVE Goal
  BY <1>0, <1>1, <1>2, <1>4, KeysExist, OneRowEnters DEF Ingest
<1>5. CASE SchedulerTick
  BY <1>0, <1>1, <1>2, <1>5, KeysExist, OneRowEnters DEF SchedulerTick
<1>6. CASE BecomesStale \/ UNCHANGED vars
  BY <1>1, <1>2, <1>3, <1>6 DEF BecomesStale, vars
<1>7. ASSUME NEW w \in Workers, NEW k \in JobKeys, Claim(w, k) PROVE Goal
  BY <1>0, <1>7, ClaimTakes DEF Goal, KeyView!Works
<1>8. ASSUME NEW w \in Workers, NEW c \in Chunks, HandleExtract(w, c) PROVE Goal
  <2>1. HandsKept
    BY <1>0, <1>8, ReturnKeepsHands DEF HandleExtract, Idle
  <2>2. jobs' = jobs \/ jobs' = Enqueued(jobs, Append(c))
    BY <1>8 DEF HandleExtract, ExtractFollowUp
  <2>3. failed' = failed
    BY <1>8 DEF HandleExtract
  <2> QED
    BY <1>0, <1>1, <2>1, <2>2, <2>3, KeysExist, OneRowEnters
<1>9. ASSUME NEW w \in Workers, NEW c \in Chunks, HandleAppend(w, c) PROVE Goal
  <2>1. HandsKept
    BY <1>0, <1>9, ReturnKeepsHands DEF HandleAppend, Idle
  <2>2. jobs' = jobs \/ jobs' = Enqueued(jobs, Seal(0))
    BY <1>9 DEF HandleAppend, SealFollowUp
  <2>3. failed' = failed
    BY <1>9 DEF HandleAppend
  <2> QED
    BY <1>0, <1>1, <2>1, <2>2, <2>3, KeysExist, LevelsFact, OneRowEnters
<1>10. ASSUME NEW w \in Workers, NEW l \in Levels, HandleSeal(w, l) PROVE Goal
  <2>1. task[w] # Idle /\ task[w].job = Seal(l) /\ UNCHANGED <<jobs, failed>>
    BY <1>10 DEF HandleSeal, Idle
  <2>2. HandsKept
    <3>1. CASE task' = Moved(w, "settle")
      BY <1>0, <2>1, <3>1, ReturnKeepsHands
    <3>2. CASE task' = [task EXCEPT ![w] = At("model", Seal(l), l, buffers[l])]
      BY <1>0, <2>1, <3>2 DEF TypeOK, HandsKept, At, Idle, Actors
    <3> QED
      BY <1>10, <3>1, <3>2 DEF HandleSeal
  <2> QED
    BY <1>1, <1>3, <2>1, <2>2
<1>11. ASSUME NEW w \in Workers, HandleFlushStale(w) PROVE Goal
  <2>1. HandsKept
    BY <1>0, <1>11, ReturnKeepsHands DEF HandleFlushStale, Idle
  <2>2. jobs' = jobs \/ jobs' = Enqueued(jobs, Seal(0))
    BY <1>11 DEF HandleFlushStale, FlushFollowUps
  <2>3. failed' = failed
    BY <1>11 DEF HandleFlushStale
  <2> QED
    BY <1>0, <1>1, <2>1, <2>2, <2>3, KeysExist, LevelsFact, OneRowEnters
<1>12. ASSUME NEW w \in Workers, Settle(w) \/ Fail(w) PROVE Goal
  BY <1>0, <1>12, SettleFinishes, FailPutsBack DEF Goal
<1>13. ASSUME NEW a \in Actors, NEW s \in SummaryIds, CommitSeal(a, s) PROVE Goal
  <2>1. task[a].stage = "model" /\ task[a].level + 1 \in Levels
    BY <1>0, <1>13, SealWrites
  <2>2. /\ \A b \in Actors \ {a} : task'[b] = task[b]
        /\ \/ a = Rpc /\ jobs' = jobs
           \/ /\ a \in Workers /\ task'[a] = [task[a] EXCEPT !.stage = "settle"]
              /\ jobs' = jobs \/ jobs' = Enqueued(jobs, Seal(task[a].level + 1))
    BY <1>0, <1>13, SealMoves
  <2>3. HandsKept
    <3>1. CASE a = Rpc
      BY <2>2, <3>1, ActorsAssumption DEF HandsKept, Actors
    <3>2. CASE task'[a] = [task[a] EXCEPT !.stage = "settle"]
      <4>1. task[a] # Idle /\ task'[a] # Idle /\ task'[a].job = task[a].job
        BY <1>0, <2>1, <3>2 DEF TypeOK, Idle
      <4> QED
        BY <2>2, <4>1 DEF HandsKept, Actors
    <3> QED
      BY <2>2, <3>1, <3>2
  <2>4. RowsComeIn
    BY <1>0, <1>3, <2>1, <2>2, KeysExist, OneRowEnters
  <2>5. failed' = failed
    BY <1>13 DEF CommitSeal
  <2> QED
    BY <1>1, <2>3, <2>4, <2>5
<1>14. CASE Sweep
  BY <1>0, <1>14, SweepRequeues DEF Goal, KeyView!Works
<1>15. CASE ManualFlush \/ CascadeReads \/ ManualFlushFails
  <2>1. \A w \in Workers : task'[w] = task[w]
    BY <1>0, <1>15, ActorsAssumption
       DEF ManualFlush, CascadeReads, ManualFlushFails, TypeOK, Actors
  <2>2. HandsKept /\ UNCHANGED <<jobs, failed>>
    BY <1>15, <2>1 DEF HandsKept, ManualFlush, CascadeReads, ManualFlushFails
  <2> QED
    BY <1>1, <1>3, <2>2
<1>16. CASE Crash
  BY <1>0, <1>16, CrashRestarts DEF Goal, KeyView!Works
<1> QED
  BY <1>4, <1>5, <1>6, <1>7, <1>8, <1>9, <1>10, <1>11, <1>12, <1>13, <1>14, <1>15, <1>16,
     StepCases

(* The pipeline's jobs move as KeyQueue says, whatever handlers, seals,     *)
(* failures, sweeps and crashes do meanwhile.                               *)
THEOREM PipelineUsesKeyQueue == Spec => UsesKeyQueue
<1>1. Init => KeyView!Init /\ HandHasRow
  <2> SUFFICES ASSUME Init PROVE KeyView!Init /\ HandHasRow
    OBVIOUS
  <2>1. /\ jobs = [k \in JobKeys |-> "none"] /\ failed = [k \in JobKeys |-> 0]
        /\ \A w \in Workers : task[w] = Idle
    BY DEF Init, Actors
  <2>2. HandHasRow
    BY <2>1 DEF HandHasRow
  <2>3. [k \in KeyedJobs |-> jobs[k]] = [k \in KeyedJobs |-> "none"]
    BY <2>1 DEF KeyedJobs
  <2>4. [k \in KeyedJobs |-> 1..failed[k]] = [k \in KeyedJobs |-> {}]
    BY <2>1 DEF KeyedJobs
  <2>5. \A w \in Workers : {k \in KeyedJobs : HasInHand(w, k)} = {}
    BY <2>1 DEF HasInHand
  <2> QED
    BY <2>2, <2>3, <2>4, <2>5 DEF KeyView!Init, KeyView!NoneOwned, KeyView!NoneFailed
<1>2. IInv /\ HandHasRow /\ [Next]_vars => HandHasRow'
  BY StepsUseKeyQueue
<1>3. IInv /\ HandHasRow /\ [Next]_vars => [KeyView!Works]_(KeyView!vars)
  <2> SUFFICES ASSUME IInv, HandHasRow, [Next]_vars
               PROVE  KeyView!Works \/ UNCHANGED KeyView!vars
    OBVIOUS
  <2> QED
    BY StepsUseKeyQueue
<1> QED
  BY <1>1, <1>2, <1>3, Invariant, PTL DEF Spec, UsesKeyQueue, KeyView!SteadySpec
=============================================================================
