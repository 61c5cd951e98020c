------------------------------ MODULE KeyQueue ------------------------------
(***************************************************************************)
(* What the job queue promises to those who enqueue and handle jobs, with  *)
(* the rows, tokens, leases and budgets left out: a key has at most one    *)
(* active row; a claim takes ready rows, and the row is then its worker's  *)
(* to settle, and nobody else's, until another claim takes it; a failed    *)
(* row stays until a requeue, which takes all of them or none.             *)
(***************************************************************************)
CONSTANTS
  Keys,     \* dedupe keys
  Workers,
  Ids       \* of failed rows

VARIABLES
  jobs,     \* status of each key's active row, "none" without one
  owns,     \* keys whose row each worker is to settle
  failed,   \* failed rows of each key that the scheduler requeues
  parked    \* failed rows of each key that only the user requeues

vars == <<jobs, owns, failed, parked>>

Status == {"none", "ready", "running"}
NoneFailed == [k \in Keys |-> {}]
NoneOwned == [w \in Workers |-> {}]

Init ==
  /\ jobs = [k \in Keys |-> "none"]
  /\ owns = NoneOwned
  /\ failed = NoneFailed
  /\ parked = NoneFailed

\* A key keeps its status, or gets an active row.
MayEnter(k) == jobs'[k] = jobs[k] \/ (jobs[k] = "none" /\ jobs'[k] = "ready")

\* Any number of keys without an active row get one; the others' inserts are ignored.
Enqueue ==
  /\ jobs' \in [Keys -> Status]
  /\ \A k \in Keys : MayEnter(k)
  /\ UNCHANGED <<owns, failed, parked>>

\* Failed rows go back, all at once and only if each finds its key free, and new rows
\* may come in with them.
Requeue(all) ==
  LET back(k) == failed[k] \cup (IF all THEN parked[k] ELSE {})
  IN  /\ \A k \in Keys : back(k) # {} =>
           jobs[k] = "none" /\ \A i, j \in back(k) : i = j
      /\ jobs' \in [Keys -> Status]
      /\ \A k \in Keys : IF back(k) # {} THEN jobs'[k] = "ready" ELSE MayEnter(k)
      /\ failed' = NoneFailed
      /\ parked' = IF all THEN NoneFailed ELSE parked
      /\ UNCHANGED owns

\* A worker takes ready rows, and with them what another may still do to them.
Claim(w) ==
  \E taken \in SUBSET {k \in Keys : jobs[k] = "ready"} :
    /\ jobs' = [k \in Keys |-> IF k \in taken THEN "running" ELSE jobs[k]]
    /\ owns' = [v \in Workers |-> IF v = w THEN owns[v] \cup taken ELSE owns[v] \ taken]
    /\ UNCHANGED <<failed, parked>>

\* The owner's settlement: the row is done, ready again, or failed.
LetGo(w, k) ==
  /\ k \in owns[w]
  /\ owns' = [owns EXCEPT ![w] = @ \ {k}]

Finish(w, k) ==
  /\ LetGo(w, k)
  /\ jobs' = [jobs EXCEPT ![k] = "none"]
  /\ UNCHANGED <<failed, parked>>

PutBack(w, k) ==
  /\ LetGo(w, k)
  /\ jobs' = [jobs EXCEPT ![k] = "ready"]
  /\ UNCHANGED <<failed, parked>>

Fail(w, k) ==
  /\ LetGo(w, k)
  /\ jobs' = [jobs EXCEPT ![k] = "none"]
  /\ \E i \in Ids \ (failed[k] \cup parked[k]) :
       \/ failed' = [failed EXCEPT ![k] = @ \cup {i}] /\ UNCHANGED parked
       \/ parked' = [parked EXCEPT ![k] = @ \cup {i}] /\ UNCHANGED failed

\* A worker loses what it holds; the rows stay running.
Abandon(w) ==
  /\ owns' = [owns EXCEPT ![w] = {}]
  /\ UNCHANGED <<jobs, failed, parked>>

\* All workers lose what they hold, and some of the running rows are recovered.
Restart ==
  /\ owns' = NoneOwned
  /\ \E over \in SUBSET {k \in Keys : jobs[k] = "running"} :
       jobs' = [k \in Keys |-> IF k \in over THEN "ready" ELSE jobs[k]]
  /\ UNCHANGED <<failed, parked>>

\* The table is emptied under the workers.
Wipe ==
  /\ jobs' = [k \in Keys |-> "none"]
  /\ owns' = NoneOwned
  /\ failed' = NoneFailed
  /\ parked' = NoneFailed

Works ==
  \/ Enqueue
  \/ \E all \in BOOLEAN : Requeue(all)
  \/ \E w \in Workers : Claim(w) \/ Abandon(w)
  \/ \E w \in Workers, k \in Keys : Finish(w, k) \/ PutBack(w, k) \/ Fail(w, k)
  \/ Restart
  \/ Wipe

\* The shutdown hook: the rows are up for a claim, and still their owners' to settle.
Release ==
  /\ jobs' = [k \in Keys |-> IF jobs[k] = "running" THEN "ready" ELSE jobs[k]]
  /\ UNCHANGED <<owns, failed, parked>>

Next == Works \/ Release

Spec == Init /\ [][Next]_vars
\* Until the shutdown hook runs.
SteadySpec == Init /\ [][Works]_vars

-----------------------------------------------------------------------------
(* What its users rely on.                                                 *)

\* Only one worker at a time can settle the row of a key, and there is such a row.
OneOwner ==
  \A v, w \in Workers : \A k \in owns[v] \cap owns[w] : v = w /\ jobs[k] # "none"
=============================================================================
