----------------------------- MODULE MCMemQueue -----------------------------
(***************************************************************************)
(* Small instances of MemQueue for TLC.                                    *)
(***************************************************************************)
EXTENDS MemQueue, TLC

CONSTANTS extract, extract2, backfill, seal, flush

MCKindOf == [k \in Keys |-> CASE k \in {extract, extract2} -> "extract_chunk"
                              [] k = backfill -> "reembed_backfill"
                              [] k = seal     -> "seal"
                              [] k = flush    -> "flush_stale"]
\* Budgets of 2 instead of 5 and 3: one retry, then the terminal failure; and none.
MCMaxAttempts == [k \in Kinds |-> IF k = "flush_stale" THEN 1 ELSE 2]

Symmetry == Permutations(Jobs) \cup Permutations(Workers)
=============================================================================
