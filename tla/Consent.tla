------------------------------ MODULE Consent -------------------------------
(***************************************************************************)
(* What the approval gate promises: a ruling on a tool call, once made,    *)
(* stands; a call acts at most once, and only after a ruling in its        *)
(* favour; a call that was turned away never acts.                         *)
(***************************************************************************)
CONSTANTS Calls  \* tool calls with an external effect

VARIABLES
  ruling,  \* "open", "granted" or "refused" for each call
  fate     \* "waiting", "acted" or "dropped" for each call

vars == <<ruling, fate>>

Init ==
  /\ ruling = [c \in Calls |-> "open"]
  /\ fate = [c \in Calls |-> "waiting"]

\* The policy, the user or the clock rules on open calls; other rulings stay.
Rules ==
  /\ ruling' \in [Calls -> {"open", "granted", "refused"}]
  /\ \A c \in Calls : ruling[c] # "open" => ruling'[c] = ruling[c]

Rule == Rules /\ UNCHANGED fate

Act(c) ==
  /\ ruling[c] = "granted" /\ fate[c] = "waiting"
  /\ fate' = [fate EXCEPT ![c] = "acted"]
  /\ UNCHANGED ruling

\* Calls are turned away, with a ruling against them or without one.
Drop ==
  /\ \E turned \in SUBSET {c \in Calls : fate[c] = "waiting"} :
       fate' = [c \in Calls |-> IF c \in turned THEN "dropped" ELSE fate[c]]
  /\ Rules

Next == Rule \/ Drop \/ \E c \in Calls : Act(c)

Spec == Init /\ [][Next]_vars
=============================================================================
