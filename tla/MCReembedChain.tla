--------------------------- MODULE MCReembedChain ---------------------------
(***************************************************************************)
(* Small instances of ReembedChain for TLC.                                *)
(***************************************************************************)
EXTENDS ReembedChain, TLC

CONSTANTS c1, s1
=============================================================================
