----------------------------- MODULE DocSubtree -----------------------------
(***************************************************************************)
(* The pages of one Notion connection: ingest of a page's revisions        *)
(* (notion/ingest.rs), the SealDocument job that rolls a revision's chunks *)
(* up to one doc-root and hands it to the merge tier                       *)
(* (memory_tree/tree/bucket_seal.rs), and which of it all the window cover *)
(* shows (memory_tree/retrieval/cover.rs).                                 *)
(*                                                                         *)
(* Each transaction is one step, as in SourceTree.  The merge tier has one *)
(* level: SourceTree models the cascade above it.  The rows of the jobs    *)
(* move as KeyQueue says.                                                  *)
(***************************************************************************)
EXTENDS Naturals, FiniteSets

CONSTANTS
  Revisions,    \* pairs of a page and the version (last_edited_time) of an edit
  Chunks,       \* chunk ids: hashes of page and content, so revisions may share them
  Batches,      \* the batches the token budget makes of each revision's chunks
  SummaryIds,   \* the ids summaries get, in the order they get them
  FanIn,        \* DOC_SUBTREE_MAX_FANIN
  Fanout,       \* SUMMARY_FANOUT, the gate of the merge tier
  Workers,      \* the queue's worker tasks
  MaxAttempts,  \* attempts of a job
  MaxDisturbances,  \* bound: on failures and crashes together
  None          \* NULL

Doc(r) == r[1]
Version(r) == r[2]
Body(r) == UNION Batches[r]

ASSUME RevisionsAssumption ==
  \A r \in Revisions : r = <<Doc(r), Version(r)>> /\ Version(r) \in Nat
ASSUME BatchesAssumption ==
  /\ Batches \in [Revisions -> SUBSET (SUBSET Chunks)]
  /\ \A r \in Revisions : /\ IsFiniteSet(Batches[r])
                          /\ Batches[r] # {} /\ {} \notin Batches[r]
  /\ \A r, s \in Revisions : Doc(r) # Doc(s) => Body(r) \cap Body(s) = {}
ASSUME IdsAssumption ==
  SummaryIds \subseteq Nat /\ SummaryIds \cap Chunks = {} /\ None \notin Revisions
ASSUME NumbersAssumption ==
  /\ FanIn \in Nat \ {0, 1} /\ Fanout \in Nat \ {0, 1} /\ MaxAttempts \in Nat \ {0}
  /\ MaxDisturbances \in Nat

VARIABLES
  gate,      \* revisions the ingest gate has admitted; their chunks are stored
  unsent,    \* admitted revisions whose sync has not enqueued the seal job yet
  jobs,      \* status of each revision's seal job, "none" without a row
  attempts,  \* attempts of that row
  children,  \* child_ids of each summary; {} for one not written yet
  level,     \* level of each summary, 0 for one not written yet
  tag,       \* doc_id and version_ms of each summary, None in the merge tier
  parent,    \* parent_id of each summary, 0 for NULL
  link,      \* parent_summary_id of each chunk, 0 for NULL
  merge,     \* item_ids of the merge tier's buffer
  overtaken, \* history: doc-roots put there while a seal of it awaits the model
  under,     \* history: the chunks each summary of a page was made of
  task,      \* what each worker is doing
  failures, crashes

vars == <<gate, unsent, jobs, attempts, children, level, tag, parent, link, merge,
          overtaken, under, task, failures, crashes>>
tree == <<children, level, tag, parent, link, merge, overtaken, under>>
sync == <<gate, unsent>>
bounds == <<failures, crashes>>

MERGE_LEVEL_BASE == 1000

Items == Chunks \cup SummaryIds
Written == {n \in SummaryIds : level[n] > 0}
\* The id of the next summary.
IsNext(n) == n \notin Written /\ \A m \in SummaryIds \ Written : n <= m

\* stage: "build" while the page's own levels are sealed (todo: the batches of the level
\* still to seal, made: the summaries of the others), "append" with the doc-root made,
\* "merge" before and "model" during the seal of the merge tier, of what it read (snap).
Idle == [stage |-> "idle", rev |-> None, level |-> 0, todo |-> {}, made |-> {}, snap |-> {}]

Init ==
  /\ gate = {} /\ unsent = {}
  /\ jobs = [r \in Revisions |-> "none"]
  /\ attempts = [r \in Revisions |-> 0]
  /\ children = [n \in SummaryIds |-> {}]
  /\ level = [n \in SummaryIds |-> 0]
  /\ tag = [n \in SummaryIds |-> None]
  /\ parent = [n \in SummaryIds |-> 0]
  /\ link = [c \in Chunks |-> 0]
  /\ merge = {} /\ overtaken = {}
  /\ under = [n \in SummaryIds |-> {}]
  /\ task = [w \in Workers |-> Idle]
  /\ failures = 0 /\ crashes = 0

-----------------------------------------------------------------------------
(* The sync.                                                               *)

\* An edit reaches the gate, in one transaction with its chunks.  Notion lists the
\* current version of a page only.
Ingest(r) ==
  /\ \A s \in gate : Doc(s) = Doc(r) => Version(s) < Version(r)
  /\ gate' = gate \cup {r}
  /\ unsent' = unsent \cup {r}
  /\ UNCHANGED <<jobs, attempts, tree, task, bounds>>

\* The seal job, in a transaction of its own.  When that fails there is a warning, and
\* the gate admits the revision no second time.
Enqueue(r) ==
  /\ r \in unsent
  /\ unsent' = unsent \ {r}
  /\ \/ jobs' = [jobs EXCEPT ![r] = "ready"] /\ UNCHANGED failures
     \/ failures + crashes < MaxDisturbances /\ failures' = failures + 1 /\ UNCHANGED jobs
  /\ UNCHANGED <<gate, attempts, tree, task, crashes>>

-----------------------------------------------------------------------------
(* The SealDocument job.                                                   *)

Claim(w, r) ==
  /\ task[w] = Idle /\ jobs[r] = "ready"
  /\ jobs' = [jobs EXCEPT ![r] = "running"]
  /\ attempts' = [attempts EXCEPT ![r] = @ + 1]
  /\ task' = [task EXCEPT ![w] =
                [Idle EXCEPT !.stage = "build", !.rev = r, !.todo = Batches[r]]]
  /\ UNCHANGED <<sync, tree, bounds>>

\* Mutant: only full groups are rolled up.
M_ByCount(made) ==
  LET Group(n) == Cardinality({m \in made : m < n}) \div FanIn
      Of(n) == {m \in made : Group(m) = Group(n)}
  IN  {Of(n) : n \in {m \in made : Cardinality(Of(m)) = FanIn}}
\* batch_by_count: the summaries in the order they were made, FanIn at a time.
ByCount(made) ==
  LET Group(n) == Cardinality({m \in made : m < n}) \div FanIn
  IN  {{m \in made : Group(m) = Group(n)} : n \in made}

\* Mutant: the doc-root is not handed to the merge tier.
M_AfterSeal(t, b, n) ==
  LET todo == t.todo \ {b}
      made == t.made \cup {n}
  IN  IF todo # {}   THEN [t EXCEPT !.todo = todo, !.made = made]
      ELSE IF made = {n} THEN [t EXCEPT !.stage = "merge", !.todo = {}, !.made = made]
      ELSE [t EXCEPT !.level = @ + 1, !.todo = ByCount(made), !.made = {}]
\* The worker after it has sealed batch b into summary n: on to the next batch, to the
\* merge tier with a single summary, or up a level.
AfterSeal(t, b, n) ==
  LET todo == t.todo \ {b}
      made == t.made \cup {n}
  IN  IF todo # {}   THEN [t EXCEPT !.todo = todo, !.made = made]
      ELSE IF made = {n} THEN [t EXCEPT !.stage = "append", !.todo = {}, !.made = made]
      ELSE [t EXCEPT !.level = @ + 1, !.todo = ByCount(made), !.made = {}]

\* seal_explicit_children: the model, the embedder and the file first, then one
\* transaction.  Chunks are re-pointed whatever they pointed to.
SealBatch(w, b, n) ==
  LET t == task[w]
  IN  /\ t.stage = "build" /\ b = CHOOSE x \in t.todo : TRUE
      /\ IsNext(n)
      /\ children' = [children EXCEPT ![n] = b]
      /\ level' = [level EXCEPT ![n] = t.level + 1]
      /\ tag' = [tag EXCEPT ![n] = t.rev]
      /\ IF t.level = 0
           THEN /\ link' = [c \in Chunks |-> IF c \in b THEN n ELSE link[c]]
                /\ UNCHANGED parent
                /\ under' = [under EXCEPT ![n] = b]
           ELSE /\ parent' = [m \in SummaryIds |->
                                IF m \in b /\ parent[m] = 0 THEN n ELSE parent[m]]
                /\ UNCHANGED link
                /\ under' = [under EXCEPT ![n] = UNION {under[m] : m \in b}]
      /\ task' = [task EXCEPT ![w] = AfterSeal(t, b, n)]
      /\ UNCHANGED <<sync, jobs, attempts, merge, overtaken, bounds>>

\* append_to_buffer at MERGE_LEVEL_BASE.
AppendRoot(w) ==
  /\ task[w].stage = "append"
  /\ merge' = merge \cup task[w].made
  /\ overtaken' = IF \E v \in Workers : task[v].stage = "model"
                    THEN overtaken \cup task[w].made ELSE overtaken
  /\ task' = [task EXCEPT ![w].stage = "merge"]
  /\ UNCHANGED <<sync, jobs, attempts, children, level, tag, parent, link, under, bounds>>

\* The first iteration of cascade_all_from: the gate of the merge tier.
ReadMerge(w) ==
  /\ task[w].stage = "merge"
  /\ task' = [task EXCEPT ![w] =
                IF Cardinality(merge) >= Fanout
                  THEN [@ EXCEPT !.stage = "model", !.snap = merge]
                  ELSE [@ EXCEPT !.stage = "settle"]]
  /\ UNCHANGED <<sync, jobs, attempts, tree, bounds>>

\* The write transaction of seal_one_level clears the buffer, whatever was put there
\* since.
SealMerge(w, n) ==
  LET snap == task[w].snap
  IN  /\ task[w].stage = "model" /\ IsNext(n)
      /\ children' = [children EXCEPT ![n] = snap]
      /\ level' = [level EXCEPT ![n] = MERGE_LEVEL_BASE + 1]
      /\ parent' = [m \in SummaryIds |->
                      IF m \in snap /\ parent[m] = 0 THEN n ELSE parent[m]]
      /\ merge' = {}
      /\ task' = [task EXCEPT ![w].stage = "settle"]
      /\ UNCHANGED <<sync, jobs, attempts, tag, link, overtaken, under, bounds>>

\* mark_done.
Settle(w) ==
  /\ task[w].stage = "settle"
  /\ jobs' = [jobs EXCEPT ![task[w].rev] = "done"]
  /\ task' = [task EXCEPT ![w] = Idle]
  /\ UNCHANGED <<sync, attempts, tree, bounds>>

\* The embedder or the store fails at any step.  The job is retried as a whole, failed
\* when its attempts are used up, or parked when the failure is unrecoverable; what it
\* has written stays.
Fail(w) ==
  LET r == task[w].rev
  IN  /\ task[w].stage \in {"build", "append", "merge", "model"}
      /\ failures + crashes < MaxDisturbances
      /\ failures' = failures + 1
      /\ \E s \in {IF attempts[r] < MaxAttempts THEN "ready" ELSE "failed", "parked"} :
           jobs' = [jobs EXCEPT ![r] = s]
      /\ task' = [task EXCEPT ![w] = Idle]
      /\ UNCHANGED <<sync, attempts, tree, crashes>>

\* The scheduler's retry of the failed rows, or the user's of the parked ones with them.
Requeue(all) ==
  LET back == {r \in Revisions : jobs[r] = "failed" \/ (all /\ jobs[r] = "parked")}
  IN  /\ back # {}
      /\ jobs' = [r \in Revisions |-> IF r \in back THEN "ready" ELSE jobs[r]]
      /\ attempts' = [r \in Revisions |-> IF r \in back THEN 0 ELSE attempts[r]]
      /\ UNCHANGED <<sync, tree, task, bounds>>

\* The process dies and starts again; recovery takes the running rows whose lease is
\* over by then.
Crash ==
  /\ failures + crashes < MaxDisturbances
  /\ crashes' = crashes + 1
  /\ unsent' = {}
  /\ task' = [w \in Workers |-> Idle]
  /\ \E over \in SUBSET {r \in Revisions : jobs[r] = "running"} :
       jobs' = [r \in Revisions |-> IF r \in over THEN "ready" ELSE jobs[r]]
  /\ UNCHANGED <<gate, attempts, tree, failures>>

Seals(w) == \E n \in SummaryIds : SealMerge(w, n) \/ \E b \in task[w].todo : SealBatch(w, b, n)
Handles(w) == Seals(w) \/ AppendRoot(w) \/ ReadMerge(w) \/ Settle(w)

Next ==
  \/ \E r \in Revisions : Ingest(r) \/ Enqueue(r)
  \/ \E all \in BOOLEAN : Requeue(all)
  \/ \E w \in Workers : Handles(w) \/ Fail(w) \/ \E r \in Revisions : Claim(w, r)
  \/ Crash

Spec == Init /\ [][Next]_vars

\* The sync goes on to its enqueue, the queue claims every ready row, and models answer.
Fairness ==
  /\ \A r \in Revisions : /\ WF_vars(Enqueue(r))
                          /\ SF_vars(\E w \in Workers : Claim(w, r))
  /\ \A w \in Workers : WF_vars(Handles(w))

FairSpec == Spec /\ Fairness

-----------------------------------------------------------------------------
(* The read side: filter_superseded_doc_versions and plan_cover, with a    *)
(* window around everything, for the page d.                               *)

Nodes(d) == {n \in Written : tag[n] # None /\ Doc(tag[n]) = d}

\* Mutant: the oldest revision wins.
M_Winners(d) ==
  {w \in Nodes(d) : \A n \in Nodes(d) :
     /\ Version(tag[w]) <= Version(tag[n])
     /\ Version(tag[n]) = Version(tag[w]) => level[w] <= level[n]}
\* The summary the filter meets first among those of the newest version: one of the
\* lowest level, by the order of the query; those have one start time.
Winners(d) ==
  {w \in Nodes(d) : \A n \in Nodes(d) :
     /\ Version(tag[n]) <= Version(tag[w])
     /\ Version(tag[n]) = Version(tag[w]) => level[w] <= level[n]}

\* removed_summary_ids with winner w: every other summary of the page, whatever its
\* level, and what is below one.  (One level down is enough: below a summary of a page
\* there are summaries of the page, losers themselves but for the winner.)
Removed(d, w) ==
  LET losers == Nodes(d) \ {w}
  IN  losers \cup (SummaryIds \cap UNION {children[n] : n \in losers})

\* Mutant: the chunks of a removed summary are not remembered.
M_Suppressed(d, w) == {}
\* suppressed_chunk_ids.
Suppressed(d, w) == Chunks \cap UNION {children[n] : n \in Removed(d, w)}

\* covered_chunk_ids: the chunks of the page below a summary that is left.
Covered(d, w) == Chunks \cap UNION {children[n] : n \in Nodes(d) \ Removed(d, w)}

\* What the cover tells of the page: chunks by a summary, or raw.
Shown(d, w) ==
  Covered(d, w) \cup ((UNION {Body(r) : r \in {s \in gate : Doc(s) = d}}) \ Suppressed(d, w))

-----------------------------------------------------------------------------
(* Properties.                                                             *)

\* The shape of the state.
TypeOK ==
  /\ gate \subseteq Revisions /\ unsent \subseteq gate
  /\ jobs \in [Revisions -> {"none", "ready", "running", "done", "failed", "parked"}]
  /\ attempts \in [Revisions -> Nat]
  /\ children \in [SummaryIds -> SUBSET Items]
  /\ level \in [SummaryIds -> Nat]
  /\ tag \in [SummaryIds -> Revisions \cup {None}]
  /\ parent \in [SummaryIds -> SummaryIds \cup {0}]
  /\ link \in [Chunks -> SummaryIds \cup {0}]
  /\ merge \subseteq SummaryIds /\ overtaken \subseteq SummaryIds
  /\ under \in [SummaryIds -> SUBSET Chunks]
  /\ task \in [Workers -> [stage: {"idle", "build", "append", "merge", "model", "settle"},
                           rev: Revisions \cup {None}, level: Nat,
                           todo: SUBSET (SUBSET Items), made: SUBSET SummaryIds,
                           snap: SUBSET SummaryIds]]

\* Doc-roots the merge tier has been given.
Merged == UNION {children[n] : n \in {m \in Written : tag[m] = None}}
HandedOver == merge \cup Merged \cup overtaken

\* "Cascade chunk_ids upward until a single doc-root remains" (bucket_seal.rs:1025-1028):
\* every item of the merge tier is the summary of one whole revision, whatever runs of
\* its job failed or died before, and left summaries behind, and however the others
\* interleave.
RootsCoverRevision ==
  \A n \in HandedOver : tag[n] \in Revisions /\ under[n] = Body(tag[n])

\* r is the newest revision of its page that has a summary.
NewestSealed(r) ==
  /\ \E n \in Written : tag[n] = r
  /\ \A n \in Nodes(Doc(r)) : Version(tag[n]) <= Version(r)

\* "retrieval surfaces only the latest version per document" (notion/ingest.rs:42): the
\* newest sealed revision is shown whole, beside any older ones, retried jobs and their
\* second doc-roots, unless it is more than one batch long.  Such a page is not shown:
\* the filter takes the summaries of one revision for duplicates of each other, and
\* removes all of them with their chunks.
OnlyTallVanish ==
  \A r \in Revisions :
    NewestSealed(r) /\ Cardinality(Batches[r]) = 1 =>
      \A w \in Winners(Doc(r)) : Body(r) \subseteq Shown(Doc(r), w)

\* "so the raw fallback can't resurface stale page content" (cover.rs:346-347): what only
\* a revision older than the newest sealed one has is not shown, once that revision has
\* been sealed too.
SupersededHidden ==
  \A r, s \in Revisions :
    /\ NewestSealed(r) /\ Doc(s) = Doc(r) /\ Version(s) < Version(r)
    /\ \E n \in HandedOver : tag[n] = s
    => \A w \in Winners(Doc(r)) : (Body(s) \ Body(r)) \cap Shown(Doc(r), w) = {}

\* A row a crash left running waits for a restart after its lease.
Stuck(r) == jobs[r] = "running" /\ \A w \in Workers : task[w].rev # r

\* The bound on SummaryIds is reached.
OutOfIds == Written = SummaryIds

\* An enqueued revision gets a doc-root in the merge tier, or its job fails.
RevisionIsSealed ==
  \A r \in Revisions :
    jobs[r] = "ready" ~> \/ \E n \in HandedOver : tag[n] = r
                         \/ jobs[r] \in {"failed", "parked"} \/ Stuck(r) \/ OutOfIds

-----------------------------------------------------------------------------
(* The queue as the seal jobs use it.                                      *)

KeyView == INSTANCE KeyQueue WITH
  Keys   <- Revisions,
  Ids    <- {1},
  jobs   <- [r \in Revisions |-> IF jobs[r] \in {"ready", "running"} THEN jobs[r] ELSE "none"],
  owns   <- [w \in Workers |-> {r \in Revisions : task[w].rev = r}],
  failed <- [r \in Revisions |-> {i \in {1} : jobs[r] = "failed"}],
  parked <- [r \in Revisions |-> {i \in {1} : jobs[r] = "parked"}]

\* The sync, the workers, the retries and the restarts move the rows of the seal jobs as
\* KeyQueue says, which MemQueue implements.
SealsUseKeyQueue == KeyView!SteadySpec
=============================================================================
