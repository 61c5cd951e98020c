---------------------------- MODULE ReembedChain ----------------------------
(***************************************************************************)
(* The re-embedding chain: chunks and summaries get their vectors from one *)
(* self-deferring job row per embedding signature.  ensure_reembed_backfill*)
(* starts a chain; each run embeds a batch and reschedules the row, and    *)
(* the run that finds nothing left ends it.                                *)
(*                                                                         *)
(* The worker pool and the sync trigger keep the Config the process was    *)
(* started with; the settings RPCs and the readers load the saved one.     *)
(* Leases, budgets and claims are MemQueue's subject: here a row is ready, *)
(* run by one worker at a time, or failed for good until it is swept.      *)
(***************************************************************************)
EXTENDS Naturals, FiniteSets

CONSTANTS Chunks, Summaries,
          Unembeddable,          \* items no embedder takes, or without a body on disk
          Signatures,
          First,                 \* signature of the saved config at first
          Batch,                 \* REEMBED_BACKFILL_BATCH
          Sync, Rpc, None,
          MaxDisturbances        \* bound: settings changes, restarts, transient failures,
                                 \* refusals, sign-outs and deletions together

Items == Chunks \cup Summaries
\* Who calls ensure_reembed_backfill: the worker that admitted a chunk, the trigger
\* at the end of a sync, and the settings RPCs.
Callers == Chunks \cup {Sync, Rpc}

ASSUME ItemsApart == Chunks \cap Summaries = {} /\ Unembeddable \subseteq Items
ASSUME SignaturesNamed == First \in Signatures /\ None \notin Signatures
ASSUME CallersApart == Sync # Rpc /\ Sync \notin Chunks /\ Rpc \notin Chunks
ASSUME BatchPositive == Batch \in Nat \ {0}
ASSUME BoundIsNat == MaxDisturbances \in Nat

VARIABLES
  saved,       \* active signature of the config on disk
  loaded,      \* that of the config the workers and the sync trigger hold
  usable,      \* an embeddings provider is usable
  present,     \* rows of mem_tree_chunks and mem_tree_summaries
  vectors,     \* the sidecar tables, per signature
  skipped,     \* the tombstones, per signature
  refused,     \* history: items given up for an error of the provider's account
  extract,     \* how far the extract job of a chunk is
  ensure,      \* signature a caller of ensure_reembed_backfill found work for
  raising,     \* callers that have enqueued and not yet raised the flag
  row,         \* the active job row of each signature
  failed,      \* its failed rows
  stage,       \* how far the run of a signature's chain is
  batch,       \* what the run of the loaded signature's chain embeds
  flag,        \* BACKFILL_IN_PROGRESS
  missed,      \* history: what waits for the next trigger
  disturbances

data   == <<present, vectors, skipped, refused>>
config == <<saved, loaded, usable>>
calls  == <<extract, ensure, raising>>
chain  == <<row, failed, stage, batch, flag, missed>>
vars   == <<config, data, calls, chain, disturbances>>

\* has_uncovered_reembed_work, and the worklist of a run.
Uncovered(s) == present \ (vectors[s] \cup skipped[s])

\* The types, and that a row is running exactly while a worker runs it.
TypeOK ==
  /\ saved \in Signatures /\ loaded \in Signatures /\ usable \in BOOLEAN
  /\ present \subseteq Items
  /\ vectors \in [Signatures -> SUBSET Items]
  /\ skipped \in [Signatures -> SUBSET Items]
  /\ refused \in [Signatures -> SUBSET Items]
  /\ extract \in [Chunks -> {"none", "due", "admitted", "done"}]
  /\ ensure \in [Callers -> Signatures \cup {None}]
  /\ raising \subseteq Callers
  /\ row \in [Signatures -> {"none", "ready", "running"}]
  /\ failed \in [Signatures -> Nat]
  /\ stage \in [Signatures -> {"idle", "read", "embed", "write", "defer", "fail", "end"}]
  /\ \A s \in Signatures : row[s] = "running" <=> stage[s] # "idle"
  /\ batch \subseteq Items
  /\ flag \in BOOLEAN
  /\ missed \subseteq Items
  /\ disturbances \in 0..MaxDisturbances

Init ==
  /\ saved = First /\ loaded = First /\ usable = TRUE
  /\ present = {}
  /\ vectors = [s \in Signatures |-> {}]
  /\ skipped = [s \in Signatures |-> {}]
  /\ refused = [s \in Signatures |-> {}]
  /\ extract = [c \in Chunks |-> "none"]
  /\ ensure = [a \in Callers |-> None]
  /\ raising = {}
  /\ row = [s \in Signatures |-> "none"]
  /\ failed = [s \in Signatures |-> 0]
  /\ stage = [s \in Signatures |-> "idle"]
  /\ batch = {}
  /\ flag = FALSE
  /\ missed = {}
  /\ disturbances = 0

-----------------------------------------------------------------------------
(* What needs vectors.                                                     *)

\* A chunk is persisted with its extract job and without a vector.  The job of a
\* deleted chunk of the same id that is still active stands for the new one, even when
\* its worker has looked for work already.
Ingest(c) ==
  /\ c \notin present
  /\ present' = present \cup {c}
  /\ extract' = [extract EXCEPT ![c] = IF @ \in {"none", "done"} THEN "due" ELSE @]
  /\ missed' = missed \cup {x \in {c} : extract[x] = "admitted"}
  /\ UNCHANGED <<config, vectors, skipped, refused, ensure, raising, row, failed, stage,
                 batch, flag, disturbances>>

\* finalize_extract commits.  Only an admitted chunk makes its worker look for
\* work; a dropped one is on the worklist all the same.
Extract(c) ==
  /\ extract[c] = "due"
  /\ \E outcome \in {"admitted", "none"} : extract' = [extract EXCEPT ![c] = outcome]
  /\ UNCHANGED <<config, data, ensure, raising, chain, disturbances>>

\* A seal embeds its summary itself; without a provider, or for an empty summary,
\* it commits one without a vector and tells nobody.  The id of a summary that was
\* deleted under a batch is not given out again.
Seal(m) ==
  /\ m \notin present /\ m \notin batch
  /\ present' = present \cup {m}
  /\ \/ /\ usable
        /\ vectors' = [vectors EXCEPT ![loaded] = @ \cup {m}]
     \/ UNCHANGED vectors
  /\ UNCHANGED <<config, skipped, refused, calls, chain, disturbances>>

\* Mutant: the side rows stay.
M_Erased(covered, i) == covered
\* ON DELETE CASCADE of the sidecars and the tombstones.
Erased(covered, i) == [s \in Signatures |-> covered[s] \ {i}]

\* A deletion leaves the jobs alone, a running batch included.
Delete(i) ==
  /\ disturbances < MaxDisturbances
  /\ disturbances' = disturbances + 1
  /\ i \in present
  /\ present' = present \ {i}
  /\ vectors' = Erased(vectors, i)
  /\ skipped' = Erased(skipped, i)
  /\ refused' = Erased(refused, i)
  /\ UNCHANGED <<config, calls, chain>>

-----------------------------------------------------------------------------
(* ensure_reembed_backfill: the coverage probe, the enqueue, and the flag, *)
(* one after the other.                                                    *)

\* Mutant: every caller looks at the config on disk.
M_SignatureOf(a) == saved
SignatureOf(a) == IF a = Rpc THEN saved ELSE loaded

Over(a) == [c \in Chunks |-> IF c = a THEN "done" ELSE extract[c]]

Probe(a) ==
  /\ ensure[a] = None /\ a \notin raising
  /\ \/ a \in Chunks /\ extract[a] = "admitted"
     \/ a = Sync
  /\ IF Uncovered(SignatureOf(a)) # {}
       THEN /\ ensure' = [ensure EXCEPT ![a] = SignatureOf(a)]
            /\ UNCHANGED extract
       ELSE /\ extract' = Over(a)
            /\ UNCHANGED ensure
  /\ UNCHANGED <<config, data, raising, chain, disturbances>>

\* The dedupe key is the signature's; an active row suppresses the insert.
Suppressed(s) == row[s] # "none"

\* What an enqueue leaves to a run that has already decided to end the chain.
LeftBehind(s) == IF Suppressed(s) /\ stage[s] = "end" THEN Uncovered(s) ELSE {}

\* Mutant: a failed row suppresses the insert as well.
M_Inserted(s) ==
  IF Suppressed(s) \/ failed[s] > 0 THEN row ELSE [row EXCEPT ![s] = "ready"]
Inserted(s) == IF Suppressed(s) THEN row ELSE [row EXCEPT ![s] = "ready"]

Enqueue(a) ==
  /\ ensure[a] # None
  /\ row' = Inserted(ensure[a])
  /\ missed' = IF ensure[a] = loaded THEN LeftBehind(loaded) ELSE missed
  /\ ensure' = [ensure EXCEPT ![a] = None]
  /\ raising' = raising \cup {a}
  /\ UNCHANGED <<config, data, extract, failed, stage, batch, flag, disturbances>>

RaiseFlag(a) ==
  /\ a \in raising
  /\ flag' = TRUE
  /\ raising' = raising \ {a}
  /\ extract' = Over(a)
  /\ UNCHANGED <<config, data, ensure, row, failed, stage, batch, missed, disturbances>>

\* A settings RPC saves the config and then ensures a chain for it.
ChangeSettings(s) ==
  /\ disturbances < MaxDisturbances /\ s # saved
  /\ ensure[Rpc] = None /\ Rpc \notin raising
  /\ disturbances' = disturbances + 1
  /\ saved' = s
  /\ ensure' = [ensure EXCEPT ![Rpc] = IF Uncovered(s) # {} THEN s ELSE None]
  /\ UNCHANGED <<loaded, usable, data, extract, raising, chain>>

-----------------------------------------------------------------------------
(* A run of handle_reembed_backfill.                                       *)

Claim(s) ==
  /\ row[s] = "ready"
  /\ row' = [row EXCEPT ![s] = "running"]
  /\ stage' = [stage EXCEPT ![s] = "read"]
  /\ UNCHANGED <<config, data, calls, failed, batch, flag, missed, disturbances>>

\* Mutant: a stale chain takes the flag down.
M_StaleFlag == FALSE
StaleFlag == flag

\* A chain of another signature than the process's is stale and ends.
EndStale(s) ==
  /\ stage[s] = "read"
  /\ s # loaded
  /\ stage' = [stage EXCEPT ![s] = "end"]
  /\ flag' = StaleFlag
  /\ UNCHANGED <<config, data, calls, row, failed, batch, missed, disturbances>>

\* Chunks first, in no particular order; summaries fill the batch up.
Batches(s) ==
  {b \in SUBSET Uncovered(s) :
     /\ Cardinality(b) <= Batch
     /\ Cardinality(b) < Batch => b = Uncovered(s)
     /\ b \cap Summaries # {} => Uncovered(s) \cap Chunks \subseteq b}

ReadWorklist(s) ==
  /\ stage[s] = "read"
  /\ s = loaded
  /\ batch' \in Batches(s)
  /\ stage' = [stage EXCEPT ![s] = IF batch' = {} THEN "end" ELSE "embed"]
  /\ flag' = (batch' # {})
  /\ UNCHANGED <<config, data, calls, row, failed, missed, disturbances>>

\* Without a provider the chain ends and its items stay as they are.
NoProvider(s) ==
  /\ stage[s] = "embed"
  /\ ~usable
  /\ flag' = FALSE
  /\ stage' = [stage EXCEPT ![s] = "end"]
  /\ batch' = {}
  /\ missed' = Uncovered(s)
  /\ UNCHANGED <<config, data, calls, row, failed, disturbances>>

\* Mutants: nothing is remembered of what was given up; a transient failure is
\* remembered like a final one.
M_Tombstones(items, refusal) == {}
M_TombstonesAll(items, refusal) == batch \cap present
\* Given up for the signature: a body that cannot be read, a vector of the wrong
\* size, and what is refused.  A tombstone refers to its item, and one that was
\* deleted meanwhile gets none.
Tombstones(items, refusal) == ((items \cap Unembeddable) \cup refusal) \cap present

\* Items of an error that is_unrecoverable.  classify_embed_error counts a rejected key
\* and a spent budget or quota in, so it may be any of them, and not the others.
Refusals(items) == SUBSET (items \ Unembeddable)

GiveUp(s, items, refusal) ==
  /\ skipped' = [skipped EXCEPT ![s] = @ \cup Tombstones(items, refusal)]
  /\ refused' = [refused EXCEPT ![s] = @ \cup (refusal \cap present)]

\* The results are taken position by position: some are given up, the others have a
\* vector each.
Embed(s) ==
  /\ stage[s] = "embed"
  /\ usable
  /\ \E refusal \in Refusals(batch) :
       /\ \/ refusal = {} /\ UNCHANGED disturbances
          \/ /\ refusal # {} /\ disturbances < MaxDisturbances
             /\ disturbances' = disturbances + 1
       /\ GiveUp(s, batch, refusal)
       /\ batch' = batch \ (Unembeddable \cup refusal)
  /\ stage' = [stage EXCEPT ![s] = "write"]
  /\ UNCHANGED <<config, present, vectors, calls, row, failed, flag, missed>>

\* One transient error gives up the whole batch, but not what was marked before it.
EmbedFails(s) ==
  /\ stage[s] = "embed"
  /\ usable
  /\ disturbances < MaxDisturbances
  /\ disturbances' = disturbances + 1
  /\ \E items \in SUBSET batch : \E refusal \in Refusals(items) :
       GiveUp(s, items, refusal)
  /\ batch' = {}
  /\ stage' = [stage EXCEPT ![s] = "fail"]
  /\ UNCHANGED <<config, present, vectors, calls, row, failed, flag, missed>>

\* Mutant: the sidecar rows do not refer to their items.
M_Writable == TRUE
Writable == batch \subseteq present

\* One transaction: one item deleted meanwhile breaks its foreign key and undoes it all.
Write(s) ==
  /\ stage[s] = "write"
  /\ \/ /\ Writable
        /\ vectors' = [vectors EXCEPT ![s] = @ \cup batch]
        /\ stage' = [stage EXCEPT ![s] = "defer"]
     \/ /\ ~Writable
        /\ stage' = [stage EXCEPT ![s] = "fail"]
        /\ UNCHANGED vectors
  /\ batch' = {}
  /\ UNCHANGED <<config, present, skipped, refused, calls, row, failed, flag, missed,
                 disturbances>>

\* The worker settles the row: done, deferred, tried again, or failed.
Settle(s) ==
  /\ stage' = [stage EXCEPT ![s] = "idle"]
  /\ \/ /\ stage[s] = "end"
        /\ row' = [row EXCEPT ![s] = "none"]
        /\ UNCHANGED failed
     \/ /\ stage[s] \in {"defer", "fail"}
        /\ row' = [row EXCEPT ![s] = "ready"]
        /\ UNCHANGED failed
     \/ /\ stage[s] = "fail"
        /\ row' = [row EXCEPT ![s] = "none"]
        /\ failed' = [failed EXCEPT ![s] = @ + 1]
  /\ UNCHANGED <<config, data, calls, batch, flag, missed, disturbances>>

-----------------------------------------------------------------------------
(* The world around the chain.                                             *)

\* requeue_transient_failed: one UPDATE of all failed rows, which two rows of one key,
\* or an active one, abort.
Sweep ==
  LET swept == {s \in Signatures : failed[s] > 0}
  IN  /\ swept # {}
      /\ \A s \in swept : failed[s] = 1 /\ ~Suppressed(s)
      /\ row' = [s \in Signatures |-> IF s \in swept THEN "ready" ELSE row[s]]
      /\ failed' = [s \in Signatures |-> 0]
      /\ UNCHANGED <<config, data, calls, stage, batch, flag, missed, disturbances>>

SignOut ==
  /\ usable /\ disturbances < MaxDisturbances
  /\ disturbances' = disturbances + 1
  /\ usable' = FALSE
  /\ UNCHANGED <<saved, loaded, data, calls, chain>>

SignIn ==
  /\ ~usable
  /\ usable' = TRUE
  /\ UNCHANGED <<saved, loaded, data, calls, chain, disturbances>>

Recovered(s) == IF row[s] = "running" THEN "ready" ELSE row[s]

\* A new process loads the saved config; running rows come back as ready, so an
\* extract job that was between its commit and its enqueue runs again.
Restart ==
  /\ disturbances < MaxDisturbances
  /\ disturbances' = disturbances + 1
  /\ loaded' = saved
  /\ row' = [s \in Signatures |-> Recovered(s)]
  /\ stage' = [s \in Signatures |-> "idle"]
  /\ batch' = {}
  /\ flag' = FALSE
  /\ ensure' = [a \in Callers |-> None]
  /\ raising' = {}
  /\ extract' = [c \in Chunks |-> IF extract[c] = "admitted" THEN "due" ELSE extract[c]]
  /\ missed' = IF saved = loaded THEN missed ELSE Uncovered(saved)
  /\ UNCHANGED <<saved, usable, data, failed>>

RunStep(s) ==
  \/ Claim(s) \/ EndStale(s) \/ ReadWorklist(s) \/ NoProvider(s)
  \/ Embed(s) \/ EmbedFails(s) \/ Write(s) \/ Settle(s)

EnsureStep(a) == Probe(a) \/ Enqueue(a) \/ RaiseFlag(a)

Next ==
  \/ \E c \in Chunks : Ingest(c) \/ Extract(c)
  \/ \E m \in Summaries : Seal(m)
  \/ \E i \in Items : Delete(i)
  \/ \E a \in Callers : EnsureStep(a)
  \/ \E s \in Signatures : ChangeSettings(s) \/ RunStep(s)
  \/ Sweep \/ SignOut \/ SignIn \/ Restart

\* The pool runs what is ready, a handler goes on, a caller of
\* ensure_reembed_backfill finishes it, and sources sync again and again.
Fairness ==
  /\ \A s \in Signatures : WF_vars(RunStep(s))
  /\ \A a \in Callers : WF_vars(EnsureStep(a))

Spec == Init /\ [][Next]_vars /\ Fairness

-----------------------------------------------------------------------------
(* Properties.                                                             *)

\* Vectors and tombstones are those of items that exist, no item is both searchable and
\* given up at one signature, and only an item no embedder takes, or one refused with
\* an unrecoverable error since it was stored, is given up: a transient error marks
\* nothing (reembed_collect against deletions, new ingests and seals under a batch in
\* hand, and the ON DELETE CASCADE of the sidecar and tombstone tables).
CoverageIsReal ==
  \A s \in Signatures :
    /\ vectors[s] \cup skipped[s] \subseteq present
    /\ vectors[s] \cap skipped[s] = {}
    /\ skipped[s] \subseteq Unembeddable \cup refused[s]

\* The loaded signature has a row whose run has not decided to end the chain, or a
\* failed one.
Pursued ==
  \/ row[loaded] # "none" /\ stage[loaded] # "end"
  \/ failed[loaded] > 0

\* A chunk whose admission has told the chain about it, and that has no vector yet, is
\* not forgotten: a row will still read the worklist, or a failed row waits for the
\* sweep.  The exceptions are what came after the worklist was found empty and before
\* that run's row was settled, what a missing provider ended, what a restart under a
\* changed signature uncovered, and a chunk deleted and ingested anew under its own
\* extract job (ensure_reembed_backfill's two statements against
\* handle_reembed_backfill and settle_job).
UncoveredIsPursued ==
  \A c \in Chunks :
    c \in Uncovered(loaded) /\ extract[c] = "done" => Pursued \/ c \in missed

\* While a chain has a batch in hand BACKFILL_IN_PROGRESS is up, whatever stale chains
\* and other callers of ensure_reembed_backfill do meanwhile.
FlagStandsForBatch ==
  stage[loaded] \in {"embed", "write", "defer", "fail"} => flag

\* Every chain ends: each batch covers or marks something, and what was given up is not
\* read again (the runaway loop handlers/mod.rs:757-765 describes).
ChainEnds == \A s \in Signatures : row[s] # "none" ~> row[s] = "none"

Searchable(s, i) == i \in vectors[s]

\* An item an embedder takes becomes searchable at the signature the process runs
\* with, although triggers are suppressed, batches fail, rows fail for good and seals
\* leave summaries without vectors.  The exception is one the provider has refused with
\* an unrecoverable error, a rejected key or a spent quota: its tombstone stays when the
\* account is in order again (handlers/mod.rs:810-820).
EmbeddableSearchable ==
  \A s \in Signatures, i \in Items \ Unembeddable :
    i \in present /\ loaded = s /\ usable
      ~> \/ Searchable(s, i) \/ i \in refused[s]
         \/ i \notin present \/ loaded # s \/ ~usable

\* ops.rs:36-46: the switch-path trigger keeps a change of embedder from blinding prior
\* memory.  An item that is there when the trigger has found work for the new signature
\* becomes searchable at it, unless it is refused or the settings change again.
SwitchRecovers ==
  \A s \in Signatures, i \in Items \ Unembeddable :
    ensure[Rpc] = s /\ saved = s /\ i \in present /\ usable
      ~> \/ Searchable(s, i) \/ i \in refused[s]
         \/ i \notin present \/ saved # s \/ ~usable

-----------------------------------------------------------------------------
(* The queue as the chains use it: each signature's run is a worker of its *)
(* own, and no failed row is parked.                                       *)

KeyView == INSTANCE KeyQueue WITH
  Keys    <- Signatures,
  Workers <- Signatures,
  Ids     <- Nat \ {0},
  jobs    <- row,
  owns    <- [s \in Signatures |-> {x \in {s} : stage[s] # "idle"}],
  failed  <- [s \in Signatures |-> 1..failed[s]],
  parked  <- [s \in Signatures |-> {}]

\* The callers of ensure_reembed_backfill, the runs that reschedule themselves and the
\* restarts move the chains' rows as KeyQueue says, which MemQueue implements.
ChainsUseKeyQueue == KeyView!SteadySpec
=============================================================================
