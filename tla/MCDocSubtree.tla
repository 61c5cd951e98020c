---------------------------- MODULE MCDocSubtree ----------------------------
(* DocSubtree for TLC: a page whose first revision is three batches long,   *)
(* with chunks of a level and a half of fan-in, and whose second is one     *)
(* batch and shares a chunk with the first.                                 *)
EXTENDS DocSubtree

CONSTANTS page, a, b, c, d

MCRevisions == {<<page, 1>>, <<page, 2>>}
MCBatches ==
  [r \in Revisions |-> IF r = <<page, 1>> THEN {{a}, {b}, {c}} ELSE {{a, d}}]
MCSummaryIds == 1..14
=============================================================================
