------------------------------ MODULE JobTable ------------------------------
(***************************************************************************)
(* The mem_tree_jobs table (memory_queue/store.rs) as operators on rows.   *)
(*                                                                         *)
(* Every constructor of NewJob gives the row a dedupe key whose prefix is  *)
(* the kind, so a row carries its key and KindOf gives the kind.           *)
(* Times are kept for what the code compares: started_at_ms is only        *)
(* compared for equality, so it is a stamp; available_at_ms and            *)
(* locked_until_ms are only compared with now, so they are the booleans    *)
(* `due` and `expired`.                                                    *)
(***************************************************************************)
EXTENDS Naturals, FiniteSets

CONSTANTS
  Keys,         \* dedupe keys the producers use
  KindOf,       \* the JobKind each key belongs to
  MaxAttempts,  \* retry budget of each kind (NewJob.max_attempts)
  Stamps,       \* millisecond timestamps of claims
  None          \* NULL

Kinds == {"seal", "flush_stale", "append_buffer",
          "extract_chunk", "reembed_backfill", "seal_document"}

ASSUME KindOfAssumption == KindOf \in [Keys -> Kinds]
ASSUME BudgetAssumption == MaxAttempts \in [Kinds -> Nat \ {0}]
ASSUME StampsAssumption == Stamps # {}
ASSUME NoneAssumption == None \notin Stamps /\ None \notin Keys

Status == {"absent", "ready", "running", "done", "failed"}

Row == [status: Status, key: Keys \cup {None}, attempts: Nat,
        started: Stamps \cup {None}, due: BOOLEAN, expired: BOOLEAN,
        parked: BOOLEAN]

AbsentRow == [status |-> "absent", key |-> None, attempts |-> 0,
              started |-> None, due |-> FALSE, expired |-> FALSE,
              parked |-> FALSE]

Kind(r) == KindOf[r.key]
Budget(r) == MaxAttempts[Kind(r)]
IsActive(r) == r.status \in {"ready", "running"}

\* The partial index idx_mem_tree_jobs_dedupe_active over a whole table.
UniqueActive(rows) ==
  \A i, j \in DOMAIN rows :
    IsActive(rows[i]) /\ IsActive(rows[j]) /\ rows[i].key = rows[j].key => i = j

\* enqueue_conn's INSERT OR IGNORE: the row it inserts, and when it is ignored.
NewRow(k) == [AbsentRow EXCEPT !.status = "ready", !.key = k, !.due = TRUE]
Suppressed(rows, k) == \E j \in DOMAIN rows : IsActive(rows[j]) /\ rows[j].key = k

\* The CASE kind ... END of claim_next: the lower rank runs first.
Rank(r) == CASE Kind(r) = "seal"          -> 1
             [] Kind(r) = "flush_stale"   -> 2
             [] Kind(r) = "append_buffer" -> 4
             [] OTHER                     -> 5

\* Mutant: an expired lease may be claimed over.
M_ClaimableExpired(rows) ==
  {j \in DOMAIN rows : \/ (rows[j].status = "ready" /\ rows[j].due)
                       \/ (rows[j].status = "running" /\ rows[j].expired)}
Claimable(rows) == {j \in DOMAIN rows : rows[j].status = "ready" /\ rows[j].due}

\* Mutant: a row waits for every better rank, the running rows included.
M_NextClaims(rows) ==
  {j \in Claimable(rows) :
     \A i \in DOMAIN rows : IsActive(rows[i]) => Rank(rows[j]) <= Rank(rows[i])}
\* Rows claim_next may pick; rows of one rank are ordered by available_at_ms,
\* which the model does not keep.
NextClaims(rows) ==
  {j \in Claimable(rows) : \A i \in Claimable(rows) : Rank(rows[j]) <= Rank(rows[i])}

ClaimableExtracts(rows) == {j \in Claimable(rows) : Kind(rows[j]) = "extract_chunk"}

ClaimedRow(r, now) == [r EXCEPT !.status = "running", !.attempts = @ + 1,
                                !.started = now, !.expired = FALSE]

\* The Job snapshot a claim returns; attempts and started are its claim token.
LeaseOf(j, r) == [job |-> j, attempts |-> r.attempts, started |-> r.started]
\* Mutant: the token without started_at_ms.
M_TokenAttemptsOnly(r, l) == r.attempts = l.attempts
TokenMatches(r, l) == r.attempts = l.attempts /\ r.started = l.started

Outcomes == {"done", "defer", "retry", "unrecoverable"}
\* reembed_backfill is the only handler that defers.
OutcomesOf(kind) == IF kind = "reembed_backfill" THEN Outcomes ELSE Outcomes \ {"defer"}

DoneRow(r) == [r EXCEPT !.status = "done", !.expired = FALSE]
DeferredRow(r) == [r EXCEPT !.status = "ready", !.attempts = @ - 1, !.started = None,
                            !.due = FALSE, !.expired = FALSE]
\* Mutants: a retry that is put off and not put back; off by one on the budget.
M_RetryStaysRunning(r, l, unrecoverable) ==
  IF l.attempts >= Budget(r) \/ unrecoverable
    THEN [r EXCEPT !.status = "failed", !.parked = unrecoverable, !.expired = FALSE]
    ELSE [r EXCEPT !.due = FALSE]
M_FailedRowLate(r, l, unrecoverable) ==
  IF l.attempts > Budget(r) \/ unrecoverable
    THEN [r EXCEPT !.status = "failed", !.parked = unrecoverable, !.expired = FALSE]
    ELSE [r EXCEPT !.status = "ready", !.due = FALSE, !.expired = FALSE]
FailedRow(r, l, unrecoverable) ==
  IF l.attempts >= Budget(r) \/ unrecoverable
    THEN [r EXCEPT !.status = "failed", !.parked = unrecoverable, !.expired = FALSE]
    ELSE [r EXCEPT !.status = "ready", !.due = FALSE, !.expired = FALSE]

\* settle_job: each outcome's UPDATE, gated on the claim token and on nothing else.
SettledRow(r, l, outcome) ==
  IF ~(r.status # "absent" /\ TokenMatches(r, l)) THEN r
  ELSE CASE outcome = "done"  -> DoneRow(r)
         [] outcome = "defer" -> DeferredRow(r)
         [] OTHER             -> FailedRow(r, l, outcome = "unrecoverable")

RecoveredRow(r) == IF r.status = "running" /\ r.expired
                     THEN [r EXCEPT !.status = "ready"] ELSE r
ReleasedRow(r) == IF r.status = "running"
                    THEN [r EXCEPT !.status = "ready", !.expired = FALSE] ELSE r

RequeuedRow(r) == [r EXCEPT !.status = "ready", !.attempts = 0, !.started = None,
                            !.due = TRUE, !.expired = FALSE, !.parked = FALSE]
RetriedRow(r) == [r EXCEPT !.status = "ready", !.attempts = 0, !.started = None,
                           !.due = TRUE, !.expired = FALSE]

IsFailed(r) == r.status = "failed"
IsTransientFailed(r) == r.status = "failed" /\ ~r.parked

\* A bulk UPDATE is one statement: a row that would break the unique index
\* aborts it, and the table stays as it was.
\* Mutant: UPDATE OR IGNORE, which takes one row of a key and leaves the others.
M_UnlessDuplicate(rows, after) ==
  [j \in DOMAIN rows |->
     IF \E i \in DOMAIN rows \ {j} :
          /\ IsActive(after[i]) /\ after[i].key = after[j].key
          /\ IsActive(rows[i]) \/ i = CHOOSE n \in {i, j} : TRUE
       THEN rows[j] ELSE after[j]]
UnlessDuplicate(rows, after) == IF UniqueActive(after) THEN after ELSE rows

\* requeue_failed, requeue_transient_failed and retry_all_failed.
RequeueAll(rows) == UnlessDuplicate(rows,
  [j \in DOMAIN rows |-> IF IsFailed(rows[j]) THEN RequeuedRow(rows[j]) ELSE rows[j]])
RequeueTransient(rows) == UnlessDuplicate(rows,
  [j \in DOMAIN rows |-> IF IsTransientFailed(rows[j]) THEN RequeuedRow(rows[j]) ELSE rows[j]])
RetryAll(rows) == UnlessDuplicate(rows,
  [j \in DOMAIN rows |-> IF IsFailed(rows[j]) THEN RetriedRow(rows[j]) ELSE rows[j]])
=============================================================================
