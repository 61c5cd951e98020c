---- MODULE MCTurnQueue ----
EXTENDS TurnQueue, TLC

CONSTANTS r1, r2, r3

MCRequests == {r1, r2, r3}
SomeModes  == r1 :> {"interrupt"} @@ r2 :> {"followup"} @@ r3 :> ModeNames \ {"interrupt"}
====
