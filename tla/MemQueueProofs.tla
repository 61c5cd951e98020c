--------------------------- MODULE MemQueueProofs ---------------------------
(***************************************************************************)
(* Theorems about MemQueue, for any table, worker pool, retry budgets and  *)
(* any number of crashes, shutdowns and failed statements.                 *)
(***************************************************************************)
EXTENDS MemQueue, TLAPS

-----------------------------------------------------------------------------
(* What the row operations of JobTable preserve.                           *)

\* Each UPDATE of the queue leaves a row of the table's type.
LEMMA RowOperationsTyped ==
  ASSUME NEW r \in Row, r.key \in Keys, NEW now \in Stamps
  PROVE  /\ ClaimedRow(r, now) \in Row
         /\ RecoveredRow(r) \in Row
         /\ ReleasedRow(r) \in Row
         /\ RequeuedRow(r) \in Row
         /\ RetriedRow(r) \in Row
  <1>1. ClaimedRow(r, now) \in Row
    <2>1. r.attempts + 1 \in Nat
      BY DEF Row
    <2>2. \A n \in Nat : [r EXCEPT !.status = "running", !.attempts = n,
                                   !.started = now, !.expired = FALSE] \in Row
      BY DEF Row, Status
    <2> QED BY <2>1, <2>2, Zenon DEF ClaimedRow
  <1>2. RecoveredRow(r) \in Row
    BY DEF Row, Status, RecoveredRow
  <1>3. ReleasedRow(r) \in Row
    BY DEF Row, Status, ReleasedRow
  <1>4. RequeuedRow(r) \in Row /\ RetriedRow(r) \in Row
    BY DEF Row, Status, RequeuedRow, RetriedRow
  <1> QED BY <1>1, <1>2, <1>3, <1>4

\* A budget is a positive number.
LEMMA BudgetPositive ==
  ASSUME NEW r \in Row, r.key \in Keys
  PROVE  Budget(r) \in Nat \ {0}
  BY KindOfAssumption, BudgetAssumption DEF Budget, Kind, Row

\* A settlement keeps the row's type, key and token, or gives one attempt back
\* and clears the stamp; it never makes an inactive row active unless its token
\* still matches.
LEMMA SettlementTyped ==
  ASSUME NEW r \in Row, r.status # "absent" => r.key \in Keys,
         NEW l \in Lease, NEW outcome \in Outcomes
  PROVE  /\ SettledRow(r, l, outcome) \in Row
         /\ SettledRow(r, l, outcome).key = r.key
         /\ (r.status = "absent" <=> SettledRow(r, l, outcome).status = "absent")
  <1>1. CASE ~(r.status # "absent" /\ TokenMatches(r, l))
    BY <1>1 DEF SettledRow
  <1>2. CASE r.status # "absent" /\ TokenMatches(r, l)
    <2>1. Budget(r) \in Nat \ {0} /\ r.attempts \in Nat \ {0}
      BY <1>2, BudgetPositive DEF TokenMatches, Lease
    <2>2. CASE outcome = "done"
      BY <1>2, <2>2 DEF SettledRow, DoneRow, Row, Status
    <2>3. CASE outcome = "defer"
      <3>1. r.attempts - 1 \in Nat
        BY <2>1
      <3>2. SettledRow(r, l, outcome) =
              [status |-> "ready", key |-> r.key, attempts |-> r.attempts - 1,
               started |-> None, due |-> FALSE, expired |-> FALSE, parked |-> r.parked]
        BY <1>2, <2>3 DEF SettledRow, DeferredRow, Row
      <3> QED BY <1>2, <3>1, <3>2 DEF Row, Status
    <2>4. CASE outcome \in {"retry", "unrecoverable"}
      BY <1>2, <2>1, <2>4 DEF SettledRow, FailedRow, Row, Status
    <2> QED BY <2>2, <2>3, <2>4 DEF Outcomes
  <1> QED BY <1>1, <1>2

\* The status and token each outcome leaves.
LEMMA SettlementFields ==
  ASSUME NEW r \in Row, NEW l \in Lease, NEW u \in BOOLEAN
  PROVE  /\ DoneRow(r).status = "done"
         /\ DoneRow(r).attempts = r.attempts /\ DoneRow(r).started = r.started
         /\ DeferredRow(r).status = "ready"
         /\ DeferredRow(r).attempts = r.attempts - 1 /\ DeferredRow(r).started = None
         /\ FailedRow(r, l, u).attempts = r.attempts
         /\ FailedRow(r, l, u).started = r.started
         /\ \/ FailedRow(r, l, u).status = "failed"
            \/ FailedRow(r, l, u).status = "ready" /\ ~(l.attempts >= Budget(r))
  BY DEF Row, DoneRow, DeferredRow, FailedRow

\* The fields a recovery or a release leaves alone.
LEMMA RecoveryFields ==
  ASSUME NEW r \in Row, NEW q \in {RecoveredRow(r), ReleasedRow(r)}
  PROVE  /\ q.key = r.key /\ q.attempts = r.attempts /\ q.started = r.started
         /\ q.status = r.status \/ (r.status = "running" /\ q.status = "ready")
  BY DEF Row, RecoveredRow, ReleasedRow

\* Rows of one key have one budget.
LEMMA BudgetByKey ==
  ASSUME NEW r, NEW q, r.key = q.key
  PROVE  Budget(r) = Budget(q)
  BY DEF Budget, Kind

-----------------------------------------------------------------------------
(* The inductive invariant.                                                *)

\* The invariant holds of the empty table.
LEMMA InitInvariant == Init => IInv
  <1> SUFFICES ASSUME Init PROVE IInv
    OBVIOUS
  <1>1. clock \in Stamps
    BY StampsAssumption DEF Init
  <1>2. AbsentRow \in Row
    BY DEF AbsentRow, Row, Status
  <1>3. TypeOK
    BY <1>1, <1>2 DEF Init, TypeOK
  <1> QED BY <1>3 DEF Init, IInv, DownIsIdle, RowsKeyed, OneActivePerKey, UniqueActive, IsActive,
       TokensBehind, TokensDistinct, SettledForGood, HeldRowsRunning, NoDoubleClaim,
       AttemptsWithinBudget, AttemptsLeft, AbsentRow

\* A step that leaves every row's status, key and token alone, and at most drops
\* snapshots, keeps the invariant.
LEMMA QuietStep ==
  ASSUME IInv, rows' \in [Jobs -> Row], held' \in [Workers -> SUBSET Lease],
         \A j \in Jobs : /\ rows'[j].status = rows[j].status
                         /\ rows'[j].key = rows[j].key
                         /\ rows'[j].attempts = rows[j].attempts
                         /\ rows'[j].started = rows[j].started,
         \A w \in Workers : held'[w] \subseteq held[w],
         UNCHANGED <<clock, process, interrupts>>
  PROVE  /\ RowsKeyed' /\ OneActivePerKey' /\ TokensBehind' /\ TokensDistinct'
         /\ SettledForGood' /\ HeldRowsRunning' /\ NoDoubleClaim'
         /\ AttemptsWithinBudget' /\ AttemptsLeft'
  <1>1. \A w \in Workers : \A l \in held'[w] : l \in Lease /\ l \in held[w] /\ l.job \in Jobs
    BY DEF Lease
  <1>2. RowsKeyed' /\ OneActivePerKey'
    BY DEF IInv, TypeOK, RowsKeyed, OneActivePerKey, UniqueActive, IsActive
  <1>3. TokensBehind' /\ TokensDistinct'
    BY <1>1 DEF IInv, TokensBehind, TokensDistinct
  <1>4. SettledForGood' /\ HeldRowsRunning' /\ NoDoubleClaim'
    BY <1>1 DEF IInv, SettledForGood, HeldRowsRunning, NoDoubleClaim, TokenMatches
  <1>5. \A j \in Jobs : Budget(rows'[j]) = Budget(rows[j])
    BY BudgetByKey
  <1>6. AttemptsWithinBudget' /\ AttemptsLeft'
    BY <1>5 DEF IInv, AttemptsWithinBudget, AttemptsLeft
  <1> QED BY <1>2, <1>3, <1>4, <1>6

\* What producers, retries and the scheduler may make of the table: each row is
\* as it was, a failed row with a fresh budget, or new in a slot nobody holds.
Requeued(after, j) ==
  /\ rows[j].status = "failed" /\ after[j].status = "ready"
  /\ after[j].key = rows[j].key /\ after[j].attempts = 0 /\ after[j].started = None
  /\ after[j].due
New(after, j) ==
  /\ j \in FreshIds /\ after[j].status = "ready"
  /\ after[j].key \in Keys /\ after[j].attempts = 0 /\ after[j].started = None
Refilled(after) ==
  /\ after \in [Jobs -> Row]
  /\ UniqueActive(after)
  /\ \A j \in Jobs : after[j] = rows[j] \/ Requeued(after, j) \/ New(after, j)

\* An insert into a refilled table is a refill.
LEMMA InsertRefills ==
  ASSUME TypeOK, NEW table, Refilled(table), NEW k \in Keys,
         NEW after \in Inserted(table, k)
  PROVE  Refilled(after)
  <1>1. CASE after = table
    BY <1>1
  <1>2. CASE ~Suppressed(table, k) /\ \E j \in FreshIds : after = [table EXCEPT ![j] = NewRow(k)]
    <2>1. PICK i \in FreshIds : after = [table EXCEPT ![i] = NewRow(k)]
      BY <1>2
    <2>2. /\ NewRow(k) \in Row
          /\ NewRow(k).status = "ready" /\ NewRow(k).key = k
          /\ NewRow(k).attempts = 0 /\ NewRow(k).started = None
      BY DEF NewRow, AbsentRow, Row, Status
    <2>3. i \in Jobs /\ DOMAIN table = Jobs /\ DOMAIN after = Jobs
      BY <2>1 DEF FreshIds, Refilled
    <2>4. after \in [Jobs -> Row]
      BY <2>1, <2>2, <2>3 DEF Refilled
    <2>5. UniqueActive(after)
      BY <1>2, <2>1, <2>2, <2>3 DEF UniqueActive, Refilled, Suppressed, IsActive
    <2>6. ASSUME NEW j \in Jobs
          PROVE  after[j] = rows[j] \/ Requeued(after, j) \/ New(after, j)
      BY <2>1, <2>2, <2>3 DEF Refilled, Requeued, New
    <2> QED BY <2>4, <2>5, <2>6 DEF Refilled
  <1> QED BY <1>1, <1>2 DEF Inserted

\* The table itself, and each of the three bulk retries, is a refill.
LEMMA SweepRefills ==
  ASSUME IInv,
         NEW after \in {rows, RequeueAll(rows), RequeueTransient(rows), RetryAll(rows)}
  PROVE  Refilled(after)
  <1>1. Refilled(rows)
    BY DEF IInv, TypeOK, OneActivePerKey, Refilled
  <1>2. ASSUME NEW j \in Jobs, rows[j].status = "failed",
               NEW q \in {RequeuedRow(rows[j]), RetriedRow(rows[j])}
        PROVE  /\ q \in Row /\ q.status = "ready" /\ q.key = rows[j].key
               /\ q.attempts = 0 /\ q.started = None /\ q.due
    <2>1. rows[j] \in Row /\ rows[j].key \in Keys
      BY <1>2 DEF IInv, TypeOK, RowsKeyed
    <2>2. q \in Row
      BY <2>1, <1>2, StampsAssumption, RowOperationsTyped
    <2> QED BY <2>1, <2>2, <1>2 DEF RequeuedRow, RetriedRow, Row
  <1>3. ASSUME NEW table,
               UniqueActive(table),
               table \in {[j \in Jobs |-> IF IsFailed(rows[j]) THEN RequeuedRow(rows[j]) ELSE rows[j]],
                          [j \in Jobs |-> IF IsTransientFailed(rows[j]) THEN RequeuedRow(rows[j]) ELSE rows[j]],
                          [j \in Jobs |-> IF IsFailed(rows[j]) THEN RetriedRow(rows[j]) ELSE rows[j]]}
        PROVE  Refilled(table)
    <2>1. \A j \in Jobs : \/ table[j] = rows[j]
                          \/ /\ rows[j].status = "failed"
                             /\ table[j] \in {RequeuedRow(rows[j]), RetriedRow(rows[j])}
      BY <1>3 DEF IsFailed, IsTransientFailed
    <2>2. \A j \in Jobs : rows[j] \in Row
      BY DEF IInv, TypeOK
    <2>3. \A j \in Jobs : table[j] \in Row
      BY <1>2, <2>1, <2>2
    <2>4. table \in [Jobs -> Row]
      BY <1>3, <2>3
    <2> QED BY <1>2, <1>3, <2>1, <2>4 DEF Refilled, Requeued
  <1>4. DOMAIN rows = Jobs
    BY DEF IInv, TypeOK
  <1> QED BY <1>1, <1>3, <1>4 DEF RequeueAll, RequeueTransient, RetryAll, UnlessDuplicate

\* Refilling the table keeps the invariant; a retry does so because it reads a
\* millisecond no snapshot carries.
LEMMA RefillStep ==
  ASSUME IInv, Refilled(rows'), UNCHANGED <<held, process, interrupts>>,
         \/ clock' \in FreshStamps
         \/ clock' = clock /\ \A j \in Jobs : ~Requeued(rows', j)
  PROVE  /\ RowsKeyed' /\ OneActivePerKey' /\ TokensBehind' /\ TokensDistinct'
         /\ SettledForGood' /\ HeldRowsRunning' /\ NoDoubleClaim'
         /\ AttemptsWithinBudget' /\ AttemptsLeft'
  <1>1. \A w \in Workers : \A l \in held[w] :
          l \in Lease /\ l.job \in Jobs /\ l.job \notin FreshIds
    BY DEF IInv, TypeOK, Lease, FreshIds
  <1>2. \A j \in Jobs : rows'[j].status # "absent" => rows'[j].key \in Keys
    BY DEF IInv, RowsKeyed, Refilled, Requeued, New
  <1>3. RowsKeyed' /\ OneActivePerKey'
    BY <1>2 DEF RowsKeyed, OneActivePerKey, Refilled
  <1>4. TokensBehind'
    <2>1. CASE clock' \in FreshStamps
      BY <1>1, <2>1 DEF TokensBehind, FreshStamps
    <2>2. CASE clock' = clock /\ \A j \in Jobs : ~Requeued(rows', j)
      BY <1>1, <2>2 DEF IInv, TokensBehind, Refilled, New
    <2> QED BY <2>1, <2>2
  <1>5. TokensDistinct' /\ NoDoubleClaim'
    BY DEF IInv, TokensDistinct, NoDoubleClaim
  <1>6. SettledForGood' /\ HeldRowsRunning'
    BY <1>1 DEF IInv, SettledForGood, HeldRowsRunning, Refilled, Requeued, New, TokenMatches
  <1>7. AttemptsWithinBudget' /\ AttemptsLeft'
    <2>1. ASSUME NEW j \in Jobs, rows'[j].status # "absent"
          PROVE  Budget(rows'[j]) \in Nat \ {0} /\ interrupts \in Nat
      BY <1>2, <2>1, BudgetPositive DEF Refilled, IInv, TypeOK
    <2> QED BY <2>1 DEF IInv, AttemptsWithinBudget, AttemptsLeft, Refilled, Requeued, New
  <1> QED BY <1>3, <1>4, <1>5, <1>6, <1>7

\* What a claim of `batch` by w in millisecond `now` does: a row changes only by
\* the claim, and a snapshot is an old one or carries its row's new token.
Claimed(w, batch, now) ==
  /\ now \in Stamps /\ clock' = now
  /\ \A v \in Workers : \A l \in held[v] : l.started = now => now = clock
  /\ rows' \in [Jobs -> Row] /\ held' \in [Workers -> SUBSET Lease]
  /\ \A j \in Jobs \ batch : rows'[j] = rows[j]
  /\ \A j \in batch : /\ rows[j].status = "ready" /\ rows'[j].status = "running"
                      /\ rows'[j].key = rows[j].key /\ rows'[j].started = now
                      /\ rows'[j].attempts = rows[j].attempts + 1
  /\ \A v \in Workers : \A l \in held'[v] :
       \/ l \in held[v]
       \/ /\ v = w /\ l.job \in batch
          /\ l.attempts = rows'[l.job].attempts /\ l.started = now

\* A claim statement does that.
LEMMA ClaimFacts ==
  ASSUME IInv, NEW w \in Workers, NEW batch \in SUBSET Jobs,
         \A j \in batch : rows[j].status = "ready",
         NEW now \in ClaimTimes, NEW kept \in SUBSET held[w],
         clock' = now,
         rows' = [j \in Jobs |-> IF j \in batch THEN ClaimedRow(rows[j], now) ELSE rows[j]],
         held' = [held EXCEPT ![w] =
                    kept \cup {LeaseOf(j, ClaimedRow(rows[j], now)) : j \in batch}]
  PROVE  Claimed(w, batch, now)
  <1>1. now \in Stamps /\ \A v \in Workers : \A l \in held[v] : l.started = now => now = clock
    <2>1. FreshStamps # {} => NextStamp \in FreshStamps
      BY DEF NextStamp
    <2> QED BY <2>1 DEF ClaimTimes, FreshStamps, IInv, TypeOK
  <1>2. ASSUME NEW j \in Jobs
        PROVE  /\ rows'[j] \in Row
               /\ j \notin batch => rows'[j] = rows[j]
               /\ j \in batch => /\ rows'[j] = ClaimedRow(rows[j], now)
                                 /\ rows'[j].status = "running"
                                 /\ rows'[j].key = rows[j].key /\ rows'[j].started = now
                                 /\ rows'[j].attempts = rows[j].attempts + 1
                                 /\ rows'[j].attempts \in Nat \ {0}
    <2>1. rows[j] \in Row
      BY DEF IInv, TypeOK
    <2>2. CASE j \notin batch
      BY <2>1, <2>2
    <2>3. CASE j \in batch
      <3>1. rows[j].key \in Keys /\ rows'[j] = ClaimedRow(rows[j], now)
        BY <2>3 DEF IInv, RowsKeyed
      <3>2. rows'[j] \in Row
        BY <1>1, <2>1, <3>1, RowOperationsTyped
      <3>3. /\ rows'[j].status = "running" /\ rows'[j].key = rows[j].key
            /\ rows'[j].attempts = rows[j].attempts + 1 /\ rows'[j].started = now
        BY <2>1, <3>1 DEF ClaimedRow, Row
      <3>4. rows'[j].attempts \in Nat \ {0}
        BY <2>1, <3>3 DEF Row
      <3> QED BY <2>3, <3>1, <3>2, <3>3, <3>4
    <2> QED BY <2>2, <2>3
  <1>3. rows' \in [Jobs -> Row]
    BY <1>2
  <1>4. ASSUME NEW v \in Workers, NEW l \in held'[v]
        PROVE  /\ l \in Lease
               /\ \/ l \in held[v]
                  \/ /\ v = w /\ l.job \in batch
                     /\ l.attempts = rows'[l.job].attempts /\ l.started = now
    <2>1. held[v] \subseteq Lease /\ w \in DOMAIN held /\ v \in DOMAIN held
      BY DEF IInv, TypeOK
    <2>2. CASE l \in held[v]
      BY <2>1, <2>2
    <2>3. CASE v = w /\ l \in {LeaseOf(j, ClaimedRow(rows[j], now)) : j \in batch}
      <3>1. PICK j \in batch : l = LeaseOf(j, ClaimedRow(rows[j], now))
        BY <2>3
      <3>2. j \in Jobs /\ l = [job |-> j, attempts |-> rows'[j].attempts, started |-> now]
        BY <1>2, <3>1 DEF LeaseOf
      <3>3. rows'[j].attempts \in Nat \ {0}
        BY <1>2, <3>2
      <3>4. l.job = j /\ l.attempts = rows'[j].attempts /\ l.started = now
        BY <3>2
      <3>5. l \in Lease
        BY <1>1, <3>2, <3>3 DEF Lease
      <3> QED BY <2>3, <3>4, <3>5
    <2> QED BY <2>1, <2>2, <2>3
  <1>5. held' \in [Workers -> SUBSET Lease]
    <2>1. DOMAIN held' = Workers /\ held' = [v \in Workers |-> held'[v]]
      BY DEF IInv, TypeOK
    <2>2. \A v \in Workers : held'[v] \subseteq Lease
      BY <1>4
    <2> QED BY <2>1, <2>2
  <1> QED BY <1>1, <1>2, <1>3, <1>4, <1>5 DEF Claimed

\* A claim keeps the invariant: the new token is one attempt ahead of every
\* snapshot of the same row and millisecond.
LEMMA ClaimStep ==
  ASSUME IInv, NEW w \in Workers, NEW batch \in SUBSET Jobs, NEW now,
         Claimed(w, batch, now), UNCHANGED <<process, interrupts>>, process # "down"
  PROVE  /\ RowsKeyed' /\ OneActivePerKey' /\ TokensBehind' /\ TokensDistinct'
         /\ SettledForGood' /\ HeldRowsRunning' /\ NoDoubleClaim'
         /\ AttemptsWithinBudget' /\ AttemptsLeft'
  <1>0. /\ \A j \in Jobs : rows[j] \in Row /\ rows[j].attempts \in Nat
        /\ \A v \in Workers : \A l \in held[v] :
             l \in Lease /\ l.job \in Jobs /\ l.attempts \in Nat \ {0} /\ l.started \in Stamps
        /\ DOMAIN rows = Jobs /\ DOMAIN rows' = Jobs
    BY DEF Row, Lease, IInv, TypeOK, Claimed
  <1>1. RowsKeyed' /\ OneActivePerKey'
    BY <1>0 DEF IInv, Claimed, RowsKeyed, OneActivePerKey, UniqueActive, IsActive
  <1>2. ASSUME NEW v \in Workers, NEW l \in held[v], l.job \in batch, l.started = now
        PROVE  l.attempts < rows'[l.job].attempts
    <2>1. l.started = clock
      BY <1>2 DEF Claimed
    <2>2. l.attempts <= rows[l.job].attempts
      BY <1>2, <2>1 DEF IInv, TokensBehind, Claimed
    <2>3. rows'[l.job].attempts = rows[l.job].attempts + 1
      BY <1>2 DEF Claimed
    <2> QED BY <1>0, <2>2, <2>3
  <1>3. TokensBehind'
    <2> SUFFICES ASSUME NEW v \in Workers, NEW l \in held'[v],
                        l.started = now, rows'[l.job].status # "absent"
                 PROVE  /\ l.attempts <= rows'[l.job].attempts
                        /\ rows'[l.job].started \in {now, None}
      BY DEF TokensBehind, Claimed
    <2>1. CASE l \in held[v] /\ l.job \in batch
      BY <1>0, <1>2, <2>1 DEF Claimed
    <2>2. CASE l \in held[v] /\ l.job \notin batch
      BY <1>0, <2>2 DEF Claimed, IInv, TokensBehind
    <2>3. CASE l \notin held[v]
      <3>1. l.attempts = rows'[l.job].attempts /\ l.job \in batch /\ l \in Lease
        BY <2>3 DEF Claimed
      <3> QED BY <3>1 DEF Claimed, Lease
    <2> QED BY <2>1, <2>2, <2>3
  <1>4. TokensDistinct'
    <2> SUFFICES ASSUME NEW w1 \in Workers, NEW w2 \in Workers,
                        NEW l1 \in held'[w1], NEW l2 \in held'[w2],
                        l1.job = l2.job, l1.attempts = l2.attempts, l1.started = l2.started
                 PROVE  w1 = w2
      BY DEF TokensDistinct
    <2>1. CASE l1 \in held[w1] /\ l2 \in held[w2]
      BY <2>1 DEF IInv, TokensDistinct
    <2>2. CASE l1 \in held[w1] /\ l2 \notin held[w2]
      <3>1. l2.job \in batch /\ l2.attempts = rows'[l2.job].attempts /\ l2.started = now
        BY <2>2 DEF Claimed
      <3> QED BY <1>0, <1>2, <2>2, <3>1
    <2>3. CASE l1 \notin held[w1] /\ l2 \in held[w2]
      <3>1. l1.job \in batch /\ l1.attempts = rows'[l1.job].attempts /\ l1.started = now
        BY <2>3 DEF Claimed
      <3>2. l2.attempts < rows'[l2.job].attempts
        BY <1>2, <2>3, <3>1
      <3>3. l2.attempts < l2.attempts /\ l2.attempts \in Nat
        BY <1>0, <2>3, <3>1, <3>2
      <3> QED BY <3>3
    <2>4. CASE l1 \notin held[w1] /\ l2 \notin held[w2]
      BY <2>4 DEF Claimed
    <2> QED BY <2>1, <2>2, <2>3, <2>4
  <1>5. ASSUME NEW v \in Workers, NEW l \in held[v], l.job \in batch, process = "up"
        PROVE  FALSE
    BY <1>5 DEF IInv, HeldRowsRunning, Claimed
  <1>6. SettledForGood'
    BY <1>0 DEF IInv, Claimed, SettledForGood, TokenMatches
  <1>7. HeldRowsRunning'
    BY <1>0, <1>5 DEF IInv, Claimed, HeldRowsRunning, TokenMatches
  <1>8. NoDoubleClaim'
    <2> SUFFICES ASSUME process = "up", NEW w1 \in Workers, NEW w2 \in Workers,
                        NEW l1 \in held'[w1], NEW l2 \in held'[w2], l1.job = l2.job
                 PROVE  w1 = w2 /\ l1 = l2
      BY DEF NoDoubleClaim
    <2>1. CASE l1 \in held[w1] /\ l2 \in held[w2]
      BY <2>1 DEF IInv, NoDoubleClaim
    <2>2. CASE l1 \notin held[w1] /\ l2 \notin held[w2]
      <3>1. l1 \in Lease /\ l2 \in Lease
        BY DEF Claimed
      <3>2. w1 = w2 /\ l1.attempts = l2.attempts /\ l1.started = l2.started
        BY <2>2 DEF Claimed
      <3> QED BY <3>1, <3>2 DEF Lease
    <2> QED BY <1>5, <2>1, <2>2 DEF Claimed
  <1>9. AttemptsWithinBudget' /\ AttemptsLeft'
    <2>1. ASSUME NEW j \in Jobs, rows[j].status # "absent"
          PROVE  Budget(rows[j]) \in Nat /\ interrupts \in Nat
      BY <1>0, <2>1, BudgetPositive DEF IInv, TypeOK, RowsKeyed
    <2>2. \A j \in Jobs : Budget(rows'[j]) = Budget(rows[j])
      BY BudgetByKey DEF Claimed
    <2> QED BY <1>0, <2>1, <2>2 DEF IInv, Claimed, AttemptsWithinBudget, AttemptsLeft
  <1> QED BY <1>1, <1>3, <1>4, <1>6, <1>7, <1>8, <1>9

\* Emptying the table keeps the invariant, whatever the workers hold.
LEMMA DeleteStep ==
  ASSUME IInv, \A j \in Jobs : rows'[j] = AbsentRow, rows' \in [Jobs -> Row],
         UNCHANGED <<held, clock, process, interrupts>>
  PROVE  /\ RowsKeyed' /\ OneActivePerKey' /\ TokensBehind' /\ TokensDistinct'
         /\ SettledForGood' /\ HeldRowsRunning' /\ NoDoubleClaim'
         /\ AttemptsWithinBudget' /\ AttemptsLeft'
  <1>1. \A j \in Jobs : rows'[j].status = "absent"
    BY DEF AbsentRow
  <1>2. \A w \in Workers : \A l \in held[w] : l.job \in Jobs
    BY DEF IInv, TypeOK, Lease
  <1>3. RowsKeyed' /\ OneActivePerKey' /\ AttemptsWithinBudget' /\ AttemptsLeft'
    BY <1>1 DEF RowsKeyed, OneActivePerKey, UniqueActive, IsActive, AttemptsWithinBudget,
         AttemptsLeft
  <1>4. TokensDistinct' /\ NoDoubleClaim'
    BY DEF IInv, TokensDistinct, NoDoubleClaim
  <1>5. TokensBehind' /\ SettledForGood' /\ HeldRowsRunning'
    BY <1>1, <1>2 DEF TokensBehind, SettledForGood, HeldRowsRunning
  <1> QED BY <1>3, <1>4, <1>5

\* What a settlement by w of its snapshot l may do to the row: nothing; or, when
\* the token matches, end it, or give it back with an attempt left: under the
\* same token, or with one attempt fewer and no stamp.
Settled(w, l) ==
  /\ rows' \in [Jobs -> Row]
  /\ l \in held[w] /\ l \in Lease /\ held' = [held EXCEPT ![w] = @ \ {l}]
  /\ \A j \in Jobs \ {l.job} : rows'[j] = rows[j]
  /\ \/ rows'[l.job] = rows[l.job]
     \/ /\ rows[l.job].status # "absent" /\ TokenMatches(rows[l.job], l)
        /\ rows'[l.job].key = rows[l.job].key
        /\ \/ /\ rows'[l.job].status \in {"done", "failed"}
              /\ TokenMatches(rows'[l.job], l)
           \/ /\ rows'[l.job].status = "ready" /\ TokenMatches(rows'[l.job], l)
              /\ l.attempts < Budget(rows[l.job])
           \/ /\ rows'[l.job].status = "ready"
              /\ rows'[l.job].attempts = l.attempts - 1 /\ rows'[l.job].started = None

\* A settlement does that.
LEMMA SettleFacts ==
  ASSUME IInv, NEW w \in Workers, NEW l \in held[w], NEW outcome \in Outcomes,
         rows' = [rows EXCEPT ![l.job] = SettledRow(@, l, outcome)],
         held' = [held EXCEPT ![w] = @ \ {l}]
  PROVE  Settled(w, l)
  <1>1. l \in Lease /\ l.job \in Jobs
    BY DEF IInv, TypeOK, Lease
  <1>2. /\ rows[l.job] \in Row
        /\ rows[l.job].status # "absent" => rows[l.job].key \in Keys
    BY <1>1 DEF IInv, TypeOK, RowsKeyed
  <1>3. SettledRow(rows[l.job], l, outcome) \in Row
    BY <1>1, <1>2, SettlementTyped
  <1>4. /\ rows' \in [Jobs -> Row]
        /\ \A j \in Jobs \ {l.job} : rows'[j] = rows[j]
        /\ rows'[l.job] = SettledRow(rows[l.job], l, outcome)
    BY <1>1, <1>3 DEF IInv, TypeOK
  <1>5. CASE ~(rows[l.job].status # "absent" /\ TokenMatches(rows[l.job], l))
    BY <1>1, <1>4, <1>5 DEF SettledRow, Settled
  <1>6. CASE rows[l.job].status # "absent" /\ TokenMatches(rows[l.job], l)
    <2>1. rows'[l.job].key = rows[l.job].key
      BY <1>1, <1>2, <1>4, SettlementTyped
    <2>2. l.attempts \in Nat /\ Budget(rows[l.job]) \in Nat
      BY <1>1, <1>2, <1>6, BudgetPositive DEF Lease
    <2>3. CASE outcome = "done"
      <3>1. rows'[l.job] = DoneRow(rows[l.job])
        BY <1>4, <1>6, <2>3 DEF SettledRow
      <3>2. rows'[l.job].status = "done" /\ TokenMatches(rows'[l.job], l)
        BY <1>1, <1>2, <1>6, <3>1, SettlementFields DEF TokenMatches
      <3> QED BY <1>1, <1>4, <1>6, <2>1, <3>2, Zenon DEF Settled
    <2>4. CASE outcome = "defer"
      <3>1. rows'[l.job] = DeferredRow(rows[l.job])
        BY <1>4, <1>6, <2>4 DEF SettledRow
      <3>2. rows'[l.job].status = "ready" /\ rows'[l.job].started = None
            /\ rows'[l.job].attempts = l.attempts - 1
        BY <1>1, <1>2, <1>6, <3>1, SettlementFields DEF TokenMatches
      <3> QED BY <1>1, <1>4, <1>6, <2>1, <3>2, Zenon DEF Settled
    <2>5. CASE outcome \in {"retry", "unrecoverable"}
      <3>1. PICK u \in BOOLEAN : rows'[l.job] = FailedRow(rows[l.job], l, u)
        BY <1>4, <1>6, <2>5 DEF SettledRow
      <3>2. /\ TokenMatches(rows'[l.job], l)
            /\ \/ rows'[l.job].status = "failed"
               \/ rows'[l.job].status = "ready" /\ l.attempts < Budget(rows[l.job])
        <4>1. /\ rows'[l.job].attempts = rows[l.job].attempts
              /\ rows'[l.job].started = rows[l.job].started
              /\ \/ rows'[l.job].status = "failed"
                 \/ rows'[l.job].status = "ready" /\ ~(l.attempts >= Budget(rows[l.job]))
          BY <1>1, <1>2, <3>1, SettlementFields
        <4> QED BY <1>6, <2>2, <4>1 DEF TokenMatches
      <3> QED BY <1>1, <1>4, <1>6, <2>1, <3>2, Zenon DEF Settled
    <2> QED BY <2>3, <2>4, <2>5 DEF Outcomes
  <1> QED BY <1>5, <1>6

\* A settlement keeps the invariant.  No other snapshot carries the token it
\* used, so what it leaves behind can only be settled by a later claim.
LEMMA SettleStep ==
  ASSUME IInv, NEW w \in Workers, NEW l, Settled(w, l),
         UNCHANGED <<clock, process, interrupts>>, process # "down"
  PROVE  /\ RowsKeyed' /\ OneActivePerKey' /\ TokensBehind' /\ TokensDistinct'
         /\ SettledForGood' /\ HeldRowsRunning' /\ NoDoubleClaim'
         /\ AttemptsWithinBudget' /\ AttemptsLeft'
  <1>0. /\ \A j \in Jobs : rows[j] \in Row /\ rows[j].attempts \in Nat
        /\ \A v \in Workers : \A m \in held[v] :
             m \in Lease /\ m.job \in Jobs /\ m.attempts \in Nat \ {0} /\ m.started \in Stamps
        /\ DOMAIN rows = Jobs /\ DOMAIN rows' = Jobs
        /\ l \in held[w] /\ l \in Lease /\ l.job \in Jobs
        /\ l.attempts \in Nat \ {0} /\ l.started \in Stamps
    BY DEF Row, Lease, IInv, TypeOK, Settled
  <1>1. \A v \in Workers : \A m \in held'[v] : m \in held[v] /\ (v = w => m # l)
    BY DEF Settled, IInv, TypeOK
  <1>2. ASSUME NEW v \in Workers, NEW m \in held'[v], m.job = l.job
        PROVE  ~(m.attempts = l.attempts /\ m.started = l.started)
    <2> SUFFICES ASSUME m.attempts = l.attempts, m.started = l.started
                 PROVE  FALSE
      OBVIOUS
    <2>1. m \in held[v] /\ (v = w => m # l)
      BY <1>1
    <2>2. m \in Lease
      BY <1>0, <2>1
    <2>3. m = l
      BY <1>0, <1>2, <2>2 DEF Lease
    <2>4. v = w
      BY <1>0, <1>2, <2>1 DEF IInv, TokensDistinct
    <2> QED BY <2>1, <2>3, <2>4
  <1>3. RowsKeyed' /\ OneActivePerKey'
    <2>1. \A j \in Jobs : rows'[j].key = rows[j].key
      BY DEF Settled
    <2>2. \A j \in Jobs : IsActive(rows'[j]) => IsActive(rows[j])
      BY <1>0 DEF Settled, IInv, SettledForGood, IsActive, Row, Status
    <2>3. \A j \in Jobs : rows'[j].status # "absent" => rows[j].status # "absent"
      BY DEF Settled
    <2> QED BY <1>0, <2>1, <2>2, <2>3 DEF IInv, RowsKeyed, OneActivePerKey, UniqueActive
  <1>4. TokensBehind'
    <2> SUFFICES ASSUME NEW v \in Workers, NEW m \in held'[v],
                        m.started = clock, rows'[m.job].status # "absent"
                 PROVE  /\ m.attempts <= rows'[m.job].attempts
                        /\ rows'[m.job].started \in {clock, None}
      BY DEF TokensBehind
    <2>1. m \in held[v] /\ m.job \in Jobs /\ m.attempts \in Nat
      BY <1>0, <1>1
    <2>2. rows[m.job].status # "absent"
      BY <2>1 DEF Settled
    <2>3. m.attempts <= rows[m.job].attempts /\ rows[m.job].started \in {clock, None}
      BY <2>1, <2>2 DEF IInv, TokensBehind
    <2>4. CASE rows'[m.job] = rows[m.job]
      BY <2>3, <2>4
    <2>5. CASE rows'[m.job] # rows[m.job]
      <3>1. m.job = l.job /\ TokenMatches(rows[l.job], l)
        BY <2>1, <2>5 DEF Settled
      <3>2. CASE TokenMatches(rows'[l.job], l)
        BY <2>3, <3>1, <3>2 DEF TokenMatches
      <3>3. CASE rows'[l.job].attempts = l.attempts - 1 /\ rows'[l.job].started = None
        <4>1. l.attempts = rows[m.job].attempts /\ l.started = rows[m.job].started
          BY <3>1 DEF TokenMatches
        <4>2. l.started = clock
          BY <1>0, <2>3, <4>1, NoneAssumption
        <4>3. m.attempts # l.attempts
          BY <1>2, <3>1, <4>2
        <4>4. m.attempts < l.attempts
          BY <1>0, <2>1, <2>3, <4>1, <4>3
        <4> QED BY <1>0, <2>1, <3>1, <3>3, <4>4
      <3> QED BY <2>5, <3>1, <3>2, <3>3 DEF Settled
    <2> QED BY <2>4, <2>5
  <1>5. TokensDistinct' /\ NoDoubleClaim'
    BY <1>1 DEF IInv, TokensDistinct, NoDoubleClaim
  <1>6. SettledForGood'
    <2> SUFFICES ASSUME NEW v \in Workers, NEW m \in held'[v],
                        rows'[m.job].status \in {"done", "failed"}
                 PROVE  ~TokenMatches(rows'[m.job], m)
      BY DEF SettledForGood
    <2>1. m \in held[v] /\ m.job \in Jobs
      BY <1>0, <1>1
    <2>2. CASE rows'[m.job] = rows[m.job]
      BY <2>1, <2>2 DEF IInv, SettledForGood
    <2>3. CASE rows'[m.job] # rows[m.job]
      <3>1. m.job = l.job /\ TokenMatches(rows'[l.job], l)
        BY <2>1, <2>3 DEF Settled
      <3> QED BY <1>2, <3>1 DEF TokenMatches
    <2> QED BY <2>2, <2>3
  <1>7. HeldRowsRunning'
    <2> SUFFICES ASSUME process = "up", NEW v \in Workers, NEW m \in held'[v],
                        rows'[m.job].status # "absent"
                 PROVE  rows'[m.job].status = "running" /\ TokenMatches(rows'[m.job], m)
      BY DEF HeldRowsRunning
    <2>1. m \in held[v] /\ m.job \in Jobs /\ (v = w => m # l)
      BY <1>0, <1>1
    <2>2. m.job # l.job
      BY <1>0, <2>1 DEF IInv, NoDoubleClaim
    <2>3. rows'[m.job] = rows[m.job]
      BY <2>1, <2>2 DEF Settled
    <2> QED BY <2>1, <2>3 DEF IInv, HeldRowsRunning
  <1>8. AttemptsWithinBudget' /\ AttemptsLeft'
    <2>1. \A j \in Jobs : Budget(rows'[j]) = Budget(rows[j])
      BY BudgetByKey DEF Settled
    <2>2. ASSUME NEW j \in Jobs, rows[j].status # "absent"
          PROVE  Budget(rows[j]) \in Nat /\ interrupts \in Nat
      BY <1>0, <2>2, BudgetPositive DEF IInv, TypeOK, RowsKeyed
    <2>3. ASSUME NEW j \in Jobs
          PROVE  \/ rows'[j] = rows[j]
                 \/ /\ j = l.job /\ rows[j].status # "absent" /\ rows[j].attempts = l.attempts
                    /\ rows'[j].status \in {"done", "failed", "ready"}
                    /\ \/ rows'[j].attempts = l.attempts
                          /\ (rows'[j].status = "ready" => l.attempts < Budget(rows[j]))
                       \/ rows'[j].attempts = l.attempts - 1
      BY DEF Settled, TokenMatches
    <2>4. ASSUME NEW j \in Jobs, rows'[j].status # "absent"
          PROVE  rows'[j].attempts <= Budget(rows'[j]) + interrupts
      BY <1>0, <2>1, <2>2, <2>3, <2>4 DEF IInv, AttemptsWithinBudget
    <2>5. ASSUME NEW j \in Jobs, rows'[j].status = "ready"
          PROVE  rows'[j].attempts < Budget(rows'[j]) + interrupts
      <3>1. CASE rows'[j] = rows[j]
        BY <2>5, <3>1 DEF IInv, AttemptsLeft
      <3>2. CASE rows'[j] # rows[j]
        <4>1. rows[j].status # "absent" /\ rows[j].attempts = l.attempts
          BY <2>3, <3>2
        <4>2. l.attempts <= Budget(rows[j]) + interrupts
          BY <4>1 DEF IInv, AttemptsWithinBudget
        <4> QED BY <1>0, <2>1, <2>2, <2>3, <2>5, <3>2, <4>1, <4>2
      <3> QED BY <3>1, <3>2
    <2> QED BY <2>4, <2>5 DEF AttemptsWithinBudget, AttemptsLeft
  <1> QED BY <1>3, <1>4, <1>5, <1>6, <1>7, <1>8

\* What worker::start and the shutdown hook do to the table: running rows may
\* become ready, all else stays.
Unlocked ==
  /\ rows' \in [Jobs -> Row]
  /\ \A j \in Jobs :
       /\ rows'[j].key = rows[j].key
       /\ rows'[j].attempts = rows[j].attempts /\ rows'[j].started = rows[j].started
       /\ \/ rows'[j].status = rows[j].status
          \/ rows[j].status = "running" /\ rows'[j].status = "ready"

\* Recovery and release do that.
LEMMA UnlockFacts ==
  ASSUME IInv,
         \/ rows' = rows
         \/ rows' = [j \in Jobs |-> RecoveredRow(rows[j])]
         \/ rows' = [j \in Jobs |-> ReleasedRow(rows[j])]
  PROVE  Unlocked
  <1>1. \A j \in Jobs : rows[j] \in Row
    BY DEF IInv, TypeOK
  <1>2. \A j \in Jobs : RecoveredRow(rows[j]) \in Row /\ ReleasedRow(rows[j]) \in Row
    BY <1>1 DEF Row, Status, RecoveredRow, ReleasedRow
  <1>3. rows' \in [Jobs -> Row]
    BY <1>2 DEF IInv, TypeOK
  <1>4. ASSUME NEW j \in Jobs
        PROVE  /\ rows'[j].key = rows[j].key
               /\ rows'[j].attempts = rows[j].attempts /\ rows'[j].started = rows[j].started
               /\ \/ rows'[j].status = rows[j].status
                  \/ rows[j].status = "running" /\ rows'[j].status = "ready"
    <2>1. CASE rows'[j] = rows[j]
      BY <2>1
    <2>2. CASE rows'[j] \in {RecoveredRow(rows[j]), ReleasedRow(rows[j])}
      BY <1>1, <2>2, RecoveryFields
    <2>3. rows'[j] \in {rows[j], RecoveredRow(rows[j]), ReleasedRow(rows[j])}
      OBVIOUS
    <2> QED BY <2>1, <2>2, <2>3
  <1> QED BY <1>3, <1>4 DEF Unlocked

\* A start (when nobody holds a snapshot) and the shutdown hook (after which
\* snapshots outlive their rows' leases) keep the invariant.
LEMMA UnlockStep ==
  ASSUME IInv, Unlocked, UNCHANGED <<held, clock>>,
         \/ process = "down" /\ process' = "up" /\ UNCHANGED interrupts
         \/ process' = "stopping" /\ interrupts' = interrupts + 1
  PROVE  /\ RowsKeyed' /\ OneActivePerKey' /\ TokensBehind' /\ TokensDistinct'
         /\ SettledForGood' /\ HeldRowsRunning' /\ NoDoubleClaim'
         /\ AttemptsWithinBudget' /\ AttemptsLeft'
  <1>0. \A v \in Workers : \A l \in held[v] : l.job \in Jobs
    BY DEF Lease, IInv, TypeOK
  <1>1. RowsKeyed' /\ OneActivePerKey'
    <2>1. \A j \in Jobs : IsActive(rows'[j]) => IsActive(rows[j])
      BY DEF Unlocked, IsActive
    <2>2. DOMAIN rows = Jobs /\ DOMAIN rows' = Jobs
      BY DEF IInv, TypeOK, Unlocked
    <2> QED BY <2>1, <2>2 DEF IInv, Unlocked, RowsKeyed, OneActivePerKey, UniqueActive
  <1>2. TokensBehind' /\ TokensDistinct' /\ SettledForGood'
    BY <1>0 DEF IInv, Unlocked, TokensBehind, TokensDistinct, SettledForGood, TokenMatches
  <1>3. HeldRowsRunning' /\ NoDoubleClaim'
    BY DEF IInv, DownIsIdle, HeldRowsRunning, NoDoubleClaim
  <1>4. AttemptsWithinBudget' /\ AttemptsLeft'
    <2>1. \A j \in Jobs : Budget(rows'[j]) = Budget(rows[j])
      BY BudgetByKey DEF Unlocked
    <2>2. ASSUME NEW j \in Jobs, rows[j].status # "absent"
          PROVE  Budget(rows[j]) \in Nat /\ interrupts \in Nat /\ rows[j].attempts \in Nat
      BY <2>2, BudgetPositive DEF IInv, TypeOK, RowsKeyed, Row
    <2>3. AttemptsWithinBudget'
      BY <2>1, <2>2 DEF IInv, Unlocked, AttemptsWithinBudget
    <2>4. AttemptsLeft'
      BY <2>1, <2>2 DEF IInv, Unlocked, AttemptsWithinBudget, AttemptsLeft
    <2> QED BY <2>3, <2>4
  <1> QED BY <1>1, <1>2, <1>3, <1>4

\* The end of the process takes every snapshot with it and keeps the invariant.
LEMMA EndStep ==
  ASSUME IInv, UNCHANGED <<rows, clock>>, process' = "down", interrupts' = interrupts + 1,
         held' = [w \in Workers |-> {}]
  PROVE  /\ RowsKeyed' /\ OneActivePerKey' /\ TokensBehind' /\ TokensDistinct'
         /\ SettledForGood' /\ HeldRowsRunning' /\ NoDoubleClaim'
         /\ AttemptsWithinBudget' /\ AttemptsLeft'
  <1>1. RowsKeyed' /\ OneActivePerKey'
    BY DEF IInv, RowsKeyed, OneActivePerKey
  <1>2. /\ TokensBehind' /\ TokensDistinct' /\ SettledForGood' /\ HeldRowsRunning'
        /\ NoDoubleClaim'
    BY DEF TokensBehind, TokensDistinct, SettledForGood, HeldRowsRunning, NoDoubleClaim
  <1>3. AttemptsWithinBudget' /\ AttemptsLeft'
    <2>1. ASSUME NEW j \in Jobs, rows[j].status # "absent"
          PROVE  Budget(rows[j]) \in Nat /\ interrupts \in Nat /\ rows[j].attempts \in Nat
      BY <2>1, BudgetPositive DEF IInv, TypeOK, RowsKeyed, Row
    <2> QED BY <2>1 DEF IInv, AttemptsWithinBudget, AttemptsLeft
  <1> QED BY <1>1, <1>2, <1>3

\* Every step of the queue keeps the invariant.
LEMMA NextInvariant == IInv /\ [Next]_vars => IInv'
  <1> SUFFICES ASSUME IInv, [Next]_vars PROVE IInv'
    OBVIOUS
  <1>0. TypeOK /\ DownIsIdle
    BY DEF IInv
  <1>1. ASSUME NEW k \in Keys, Enqueue(k) PROVE IInv'
    <2>1. Refilled(rows)
      BY SweepRefills
    <2>2. Refilled(rows')
      BY <1>0, <1>1, <2>1, InsertRefills DEF Enqueue
    <2>3. \A j \in Jobs : ~Requeued(rows', j)
      <3>1. CASE rows' = rows
        BY <3>1 DEF Requeued
      <3>2. CASE \E i \in FreshIds : rows' = [rows EXCEPT ![i] = NewRow(k)]
        BY <1>0, <3>2 DEF Requeued, FreshIds, TypeOK
      <3> QED BY <1>1, <3>1, <3>2 DEF Enqueue, Inserted
    <2>4. TypeOK' /\ DownIsIdle'
      BY <1>0, <1>1, <2>2 DEF Enqueue, Refilled, TypeOK, DownIsIdle
    <2> QED BY <1>1, <2>2, <2>3, <2>4, RefillStep DEF Enqueue, IInv
  <1>2. CASE DeleteJobs
    <2>1. rows' \in [Jobs -> Row] /\ \A j \in Jobs : rows'[j] = AbsentRow
      BY <1>2 DEF DeleteJobs, AbsentRow, Row, Status
    <2>2. TypeOK' /\ DownIsIdle'
      BY <1>0, <1>2, <2>1 DEF DeleteJobs, TypeOK, DownIsIdle
    <2> QED BY <1>2, <2>1, <2>2, DeleteStep DEF DeleteJobs, IInv
  <1>3. ASSUME NEW j \in Jobs, BecomesDue(j) \/ LeaseExpires(j) PROVE IInv'
    <2>1. rows[j] \in Row
      BY <1>0 DEF TypeOK
    <2>2. PICK q \in Row : /\ rows' = [rows EXCEPT ![j] = q]
                           /\ q.status = rows[j].status /\ q.key = rows[j].key
                           /\ q.attempts = rows[j].attempts /\ q.started = rows[j].started
      <3>1. CASE BecomesDue(j)
        <4> DEFINE q == [rows[j] EXCEPT !.due = TRUE]
        <4>1. q \in Row /\ q.status = rows[j].status /\ q.key = rows[j].key
              /\ q.attempts = rows[j].attempts /\ q.started = rows[j].started
          BY <2>1 DEF Row
        <4>2. rows' = [rows EXCEPT ![j] = q]
          BY <3>1 DEF BecomesDue
        <4> QED BY <4>1, <4>2
      <3>2. CASE LeaseExpires(j)
        <4> DEFINE q == [rows[j] EXCEPT !.expired = TRUE]
        <4>1. q \in Row /\ q.status = rows[j].status /\ q.key = rows[j].key
              /\ q.attempts = rows[j].attempts /\ q.started = rows[j].started
          BY <2>1 DEF Row
        <4>2. rows' = [rows EXCEPT ![j] = q]
          BY <3>2 DEF LeaseExpires
        <4> QED BY <4>1, <4>2
      <3> QED BY <1>3, <3>1, <3>2
    <2>3. rows' \in [Jobs -> Row]
      BY <1>0, <2>2 DEF TypeOK
    <2>4. \A i \in Jobs : /\ rows'[i].status = rows[i].status /\ rows'[i].key = rows[i].key
                          /\ rows'[i].attempts = rows[i].attempts
                          /\ rows'[i].started = rows[i].started
      BY <1>0, <2>2 DEF TypeOK
    <2>5. UNCHANGED <<held, pc, permit, clock, process, interrupts, leaks>>
      BY <1>3 DEF BecomesDue, LeaseExpires
    <2>6. TypeOK' /\ DownIsIdle'
      BY <1>0, <2>3, <2>5 DEF TypeOK, DownIsIdle
    <2> QED BY <1>0, <2>3, <2>4, <2>5, <2>6, QuietStep DEF IInv, TypeOK
  <1>4. CASE ExternalAcquire \/ ExternalRelease \/ UNCHANGED vars
    <2>1. UNCHANGED <<rows, held, pc, clock, process, interrupts, leaks>>
      BY <1>4 DEF ExternalAcquire, ExternalRelease, vars
    <2>2. TypeOK' /\ DownIsIdle'
      BY <1>0, <1>4, <2>1 DEF ExternalAcquire, ExternalRelease, vars, TypeOK, DownIsIdle
    <2> QED BY <1>0, <2>1, <2>2, QuietStep DEF IInv, TypeOK
  <1>5. ASSUME NEW w \in Workers, NEW j \in Jobs, ClaimNext(w, j) PROVE IInv'
    <2>1. rows[j].status = "ready"
      BY <1>5 DEF ClaimNext, NextClaims, Claimable
    <2>2. PICK now \in ClaimTimes :
            /\ clock' = now
            /\ rows' = [rows EXCEPT ![j] = ClaimedRow(rows[j], now)]
            /\ held' = [held EXCEPT ![w] = {LeaseOf(j, ClaimedRow(rows[j], now))}]
      BY <1>5 DEF ClaimNext
    <2>3. rows' = [i \in Jobs |-> IF i \in {j} THEN ClaimedRow(rows[i], now) ELSE rows[i]]
      BY <1>0, <2>2 DEF TypeOK
    <2>4. held' = [held EXCEPT ![w] =
                     {} \cup {LeaseOf(i, ClaimedRow(rows[i], now)) : i \in {j}}]
      BY <2>2
    <2>5. Claimed(w, {j}, now)
      <3>1. /\ {j} \in SUBSET Jobs /\ {} \in SUBSET held[w]
            /\ \A i \in {j} : rows[i].status = "ready"
        BY <2>1
      <3> QED BY ONLY IInv, w \in Workers, <2>2, <2>3, <2>4, <3>1, ClaimFacts
    <2>6. TypeOK' /\ DownIsIdle'
      BY <1>0, <1>5, <2>5 DEF ClaimNext, Claimed, TypeOK, DownIsIdle, Alive
    <2> QED BY <1>5, <2>5, <2>6, ClaimStep DEF ClaimNext, Alive, IInv
  <1>6. ASSUME NEW w \in Workers, ClaimBatch(w) PROVE IInv'
    <2>1. PICK now \in ClaimTimes, batch \in SUBSET ClaimableExtracts(rows) :
            /\ clock' = now
            /\ rows' = [j \in Jobs |-> IF j \in batch THEN ClaimedRow(rows[j], now) ELSE rows[j]]
            /\ held' = [held EXCEPT ![w] =
                          held[w] \cup {LeaseOf(j, ClaimedRow(rows[j], now)) : j \in batch}]
      BY <1>6 DEF ClaimBatch
    <2>2. batch \in SUBSET Jobs /\ \A j \in batch : rows[j].status = "ready"
      BY <1>0 DEF ClaimableExtracts, Claimable, TypeOK
    <2>3. Claimed(w, batch, now)
      BY <2>1, <2>2, ClaimFacts
    <2>4. process # "down"
      BY <1>0, <1>6 DEF ClaimBatch, DownIsIdle
    <2>5. TypeOK' /\ DownIsIdle'
      BY <1>0, <1>6, <2>3, <2>4 DEF ClaimBatch, Claimed, TypeOK, DownIsIdle
    <2> QED BY <1>6, <2>2, <2>3, <2>4, <2>5, ClaimStep DEF ClaimBatch, IInv
  <1>7. ASSUME NEW w \in Workers, StatementFails(w) \/ Handle(w) PROVE IInv'
    <2>1. /\ UNCHANGED <<rows, clock, process, interrupts>>
          /\ held' \in [Workers -> SUBSET Lease]
          /\ \A v \in Workers : held'[v] \subseteq held[v]
      BY <1>0, <1>7 DEF StatementFails, Handle, TypeOK
    <2>2. pc[w] # "gate"
      BY <1>7 DEF StatementFails, Handle
    <2>3. TypeOK' /\ DownIsIdle'
      BY <1>0, <1>7, <2>1, <2>2
        DEF StatementFails, Handle, PermitDropped, TypeOK, DownIsIdle
    <2> QED BY <1>0, <2>1, <2>3, QuietStep DEF IInv, TypeOK
  <1>8. ASSUME NEW w \in Workers, NEW l \in held[w], Settle(w, l) PROVE IInv'
    <2>1. PICK outcome \in Outcomes : rows' = [rows EXCEPT ![l.job] = SettledRow(@, l, outcome)]
      BY <1>8 DEF Settle
    <2>2. Settled(w, l)
      BY <1>8, <2>1, SettleFacts DEF Settle
    <2>3. process # "down"
      BY <1>0, <1>8 DEF DownIsIdle
    <2>4. held' \in [Workers -> SUBSET Lease]
      BY <1>0, <1>8 DEF Settle, TypeOK
    <2>5. TypeOK' /\ DownIsIdle'
      BY <1>0, <1>8, <2>2, <2>3, <2>4 DEF Settle, Settled, TypeOK, DownIsIdle
    <2> QED BY <1>8, <2>2, <2>3, <2>5, SettleStep DEF Settle, IInv
  <1>9. CASE RequeueFailed \/ RetryAllFailed \/ SchedulerTick
    <2>1. PICK after : Refilled(after) /\ Requeue(after)
      <3>1. CASE RequeueFailed
        BY <3>1, SweepRefills DEF RequeueFailed
      <3>2. CASE RetryAllFailed
        BY <3>2, SweepRefills DEF RetryAllFailed
      <3>3. CASE SchedulerTick
        <4>1. PICK k \in Keys : \E after \in Inserted(RequeueTransient(rows), k) : Requeue(after)
          BY <3>3 DEF SchedulerTick
        <4> QED BY <1>0, <4>1, SweepRefills, InsertRefills
      <3> QED BY <1>9, <3>1, <3>2, <3>3
    <2>2. rows' = after /\ clock' \in FreshStamps
      BY <2>1 DEF Requeue, NextStamp
    <2>3. TypeOK' /\ DownIsIdle'
      BY <1>0, <2>1, <2>2 DEF Requeue, Refilled, FreshStamps, TypeOK, DownIsIdle
    <2> QED BY <2>1, <2>2, <2>3, RefillStep DEF Requeue, IInv
  <1>10. CASE Start
    <2>1. Unlocked
      BY <1>10, UnlockFacts DEF Start
    <2>2. TypeOK' /\ DownIsIdle'
      BY <1>0, <1>10, <2>1 DEF Start, Unlocked, TypeOK, DownIsIdle
    <2> QED BY <1>10, <2>1, <2>2, UnlockStep DEF Start, IInv
  <1>11. CASE ReleaseRunningLocks
    <2>1. Unlocked
      BY <1>11, UnlockFacts DEF ReleaseRunningLocks
    <2>2. TypeOK' /\ DownIsIdle'
      BY <1>0, <1>11, <2>1 DEF ReleaseRunningLocks, Unlocked, TypeOK, DownIsIdle
    <2> QED BY <1>11, <2>1, <2>2, UnlockStep DEF ReleaseRunningLocks, IInv
  <1>12. CASE ProcessEnds
    <2>1. TypeOK' /\ DownIsIdle'
      BY <1>0, <1>12 DEF ProcessEnds, TypeOK, DownIsIdle
    <2> QED BY <1>12, <2>1, EndStep DEF ProcessEnds, IInv
  <1> QED BY <1>1, <1>2, <1>3, <1>4, <1>5, <1>6, <1>7, <1>8, <1>9, <1>10, <1>11, <1>12
       DEF Next, WorkerStep

-----------------------------------------------------------------------------
(* The theorems.                                                           *)

\* The invariant holds in every state of every run of the queue.
THEOREM Invariant == Spec => []IInv
  BY InitInvariant, NextInvariant, PTL DEF Spec

\* Type correctness: in particular attempts stay natural numbers, though a
\* deferral subtracts one without a check of its own (mark_deferred).
THEOREM TypeCorrect == Spec => []TypeOK
  <1>1. IInv => TypeOK
    BY DEF IInv
  <1> QED BY <1>1, Invariant, PTL

\* The claim token fences: whatever shutdown hook, recovery, retry, deferral or
\* deletion came between, a row is settled by at most one outstanding snapshot
\* (mark_done, mark_failed_typed, mark_deferred).
THEOREM Fencing == Spec => []OneSettlerPerRow
  <1>1. ASSUME IInv PROVE OneSettlerPerRow
    <2> SUFFICES ASSUME NEW w1 \in Workers, NEW w2 \in Workers,
                        NEW l1 \in held[w1], NEW l2 \in held[w2],
                        l1.job = l2.job,
                        TokenMatches(rows[l1.job], l1), TokenMatches(rows[l2.job], l2)
                 PROVE  w1 = w2 /\ l1 = l2
      BY DEF OneSettlerPerRow
    <2>1. l1.attempts = l2.attempts /\ l1.started = l2.started
      BY DEF TokenMatches
    <2>2. w1 = w2
      BY <1>1, <2>1 DEF IInv, TokensDistinct
    <2>3. l1 \in Lease /\ l2 \in Lease
      BY <1>1 DEF IInv, TypeOK
    <2> QED BY <2>1, <2>2, <2>3 DEF Lease
  <1> QED BY <1>1, Invariant, PTL

\* The dedupe index is never violated: no settlement, recovery, release or retry
\* makes a second active row of a key.
THEOREM Dedupe == Spec => []OneActivePerKey
  <1>1. IInv => OneActivePerKey
    BY DEF IInv
  <1> QED BY <1>1, Invariant, PTL

\* Until the shutdown hook has run, no row is in two workers' hands.
THEOREM ClaimsExclusive == Spec => []NoDoubleClaim
  <1>1. IInv => NoDoubleClaim
    BY DEF IInv
  <1> QED BY <1>1, Invariant, PTL

\* The retry budget bounds a job's attempts but for one more per shutdown or
\* process end: claim_next itself never compares attempts with max_attempts.
THEOREM BudgetBounds == Spec => []AttemptsWithinBudget
  <1>1. IInv => AttemptsWithinBudget
    BY DEF IInv
  <1> QED BY <1>1, Invariant, PTL

\* A done row is never run again, and a failed row leaves `failed` only with a
\* fresh retry budget: no late settlement, recovery or release revives it.
THEOREM TerminalStays == Spec => TerminalIsFinal
  <1> DEFINE Final(j) ==
        /\ rows[j].status = "done" => rows'[j].status \in {"done", "absent"}
        /\ rows[j].status = "failed" =>
             \/ rows'[j].status \in {"failed", "absent"}
             \/ rows'[j].status = "ready" /\ rows'[j].attempts = 0 /\ rows'[j].due
  <1>1. ASSUME IInv, Next PROVE \A j \in Jobs : Final(j)
    <2>0. TypeOK
      BY <1>1 DEF IInv
    <2>1. ASSUME Refilled(rows') PROVE \A j \in Jobs : Final(j)
      BY <2>1 DEF Refilled, Requeued, New, FreshIds
    <2>2. ASSUME NEW k \in Keys, Enqueue(k) PROVE \A j \in Jobs : Final(j)
      <3>1. Refilled(rows)
        BY <1>1, SweepRefills
      <3> QED BY <2>0, <2>1, <2>2, <3>1, InsertRefills DEF Enqueue
    <2>3. CASE DeleteJobs
      BY <2>3 DEF DeleteJobs, AbsentRow
    <2>4. ASSUME NEW i \in Jobs, BecomesDue(i) \/ LeaseExpires(i)
          PROVE  \A j \in Jobs : Final(j)
      <3>1. rows[i].status \notin {"done", "failed"} /\ \A j \in Jobs \ {i} : rows'[j] = rows[j]
        BY <2>0, <2>4 DEF BecomesDue, LeaseExpires, TypeOK
      <3> QED BY <3>1
    <2>5. ASSUME UNCHANGED rows PROVE \A j \in Jobs : Final(j)
      BY <2>5
    <2>6. ASSUME NEW w \in Workers, NEW i \in Jobs, ClaimNext(w, i)
          PROVE  \A j \in Jobs : Final(j)
      <3>1. rows[i].status = "ready" /\ \A j \in Jobs \ {i} : rows'[j] = rows[j]
        BY <2>0, <2>6 DEF ClaimNext, NextClaims, Claimable, TypeOK
      <3> QED BY <3>1
    <2>7. ASSUME NEW w \in Workers, ClaimBatch(w) PROVE \A j \in Jobs : Final(j)
      <3>1. \A j \in Jobs : rows[j].status = "ready" \/ rows'[j] = rows[j]
        BY <2>0, <2>7 DEF ClaimBatch, ClaimableExtracts, Claimable
      <3> QED BY <3>1
    <2>8. ASSUME NEW w \in Workers, NEW l \in held[w], Settle(w, l)
          PROVE  \A j \in Jobs : Final(j)
      <3>1. PICK outcome \in Outcomes : rows' = [rows EXCEPT ![l.job] = SettledRow(@, l, outcome)]
        BY <2>8 DEF Settle
      <3>2. Settled(w, l)
        BY <1>1, <2>8, <3>1, SettleFacts DEF Settle
      <3> QED BY <1>1, <3>2 DEF Settled, IInv, SettledForGood
    <2>9. CASE RequeueFailed \/ RetryAllFailed
      BY <1>1, <2>1, <2>9, SweepRefills DEF RequeueFailed, RetryAllFailed, Requeue
    <2>10. CASE SchedulerTick
      <3>1. PICK k \in Keys : rows' \in Inserted(RequeueTransient(rows), k)
        BY <2>10 DEF SchedulerTick, Requeue
      <3> QED BY <1>1, <2>0, <2>1, <3>1, SweepRefills, InsertRefills
    <2>11. CASE Start \/ ReleaseRunningLocks
      <3>1. Unlocked
        BY <1>1, <2>11, UnlockFacts DEF Start, ReleaseRunningLocks
      <3> QED BY <3>1 DEF Unlocked
    <2> QED BY <1>1, <2>2, <2>3, <2>4, <2>5, <2>6, <2>7, <2>8, <2>9, <2>10, <2>11
         DEF Next, WorkerStep, ExternalAcquire, ExternalRelease, StatementFails, Handle,
             ProcessEnds
  <1>2. IInv /\ [Next]_vars => [\A j \in Jobs : Final(j)]_vars
    BY <1>1
  <1> HIDE DEF Final
  <1>3. Spec => [][\A j \in Jobs : Final(j)]_vars
    BY <1>2, Invariant, PTL DEF Spec
  <1> QED BY <1>3 DEF TerminalIsFinal, Final

\* Why it is serial: a worker whose batch or handler is local LLM-bound work has
\* the permit, from the claim, which needs it free, to the end of its handlers.
LocalWorkKeeps ==
  LocalMemory =>
    /\ \A w \in Workers : pc[w] = "batch" => permit = w
    /\ \A w \in Workers : \A l \in held[w] :
         pc[w] = "handle" /\ rows[l.job].status # "absent" /\ IsLlmBound(Kind(rows[l.job]))
           => permit = w

\* A step leaves the snapshots of v alone, and their rows in place or deleted.
Undisturbed(v) ==
  /\ pc'[v] = pc[v] /\ held'[v] = held[v]
  /\ \A l \in held[v] : rows'[l.job].status # "absent" =>
       rows[l.job].status # "absent" /\ rows'[l.job].key = rows[l.job].key

\* Workers whose snapshots are left alone keep the permit.
LEMMA KeepsStep ==
  ASSUME LocalMemory, LocalWorkKeeps, NEW v \in Workers, Undisturbed(v),
         permit = v => permit' = v
  PROVE  /\ pc'[v] = "batch" => permit' = v
         /\ \A l \in held'[v] :
              pc'[v] = "handle" /\ rows'[l.job].status # "absent"
                /\ IsLlmBound(Kind(rows'[l.job])) => permit' = v
  BY DEF LocalWorkKeeps, Undisturbed, Kind

\* No step lets a local handler run without the permit.
LEMMA LocalWorkKeepsStep == IInv /\ LocalWorkKeeps /\ [Next]_vars => LocalWorkKeeps'
  <1> SUFFICES ASSUME IInv, LocalWorkKeeps, [Next]_vars, LocalMemory PROVE LocalWorkKeeps'
    BY DEF LocalWorkKeeps
  <1>0. TypeOK /\ \A v \in Workers : \A l \in held[v] : l \in Lease /\ l.job \in Jobs
    BY DEF IInv, TypeOK, Lease
  <1>q. ASSUME \A v \in Workers : Undisturbed(v) /\ (permit = v => permit' = v)
        PROVE  LocalWorkKeeps'
    BY <1>q, KeepsStep DEF LocalWorkKeeps
  <1>r. ASSUME Refilled(rows'), UNCHANGED <<held, pc, permit>> PROVE LocalWorkKeeps'
    <2>1. \A v \in Workers : Undisturbed(v)
      BY <1>0, <1>r DEF Undisturbed, Refilled, Requeued, New, FreshIds
    <2> QED BY <1>q, <1>r, <2>1
  <1>1. ASSUME NEW k \in Keys, Enqueue(k) PROVE LocalWorkKeeps'
    <2>1. Refilled(rows)
      BY SweepRefills
    <2>2. Refilled(rows')
      BY <1>0, <1>1, <2>1, InsertRefills DEF Enqueue
    <2> QED BY <1>1, <1>r, <2>2 DEF Enqueue
  <1>2. CASE DeleteJobs
    <2>1. \A v \in Workers : Undisturbed(v)
      BY <1>0, <1>2 DEF DeleteJobs, AbsentRow, Undisturbed
    <2> QED BY <1>2, <1>q, <2>1 DEF DeleteJobs
  <1>3. ASSUME NEW j \in Jobs, BecomesDue(j) \/ LeaseExpires(j) PROVE LocalWorkKeeps'
    <2>1. \A i \in Jobs : rows'[i].status = rows[i].status /\ rows'[i].key = rows[i].key
      BY <1>0, <1>3 DEF BecomesDue, LeaseExpires, TypeOK, Row
    <2>2. UNCHANGED <<held, pc, permit>>
      BY <1>3 DEF BecomesDue, LeaseExpires
    <2>3. \A v \in Workers : Undisturbed(v)
      BY <1>0, <2>1, <2>2 DEF Undisturbed
    <2> QED BY <1>q, <2>2, <2>3
  <1>4. CASE ExternalAcquire \/ ExternalRelease \/ UNCHANGED vars
    <2>1. UNCHANGED <<rows, held, pc>> /\ (permit \in Workers => permit' = permit)
      BY <1>4, PermitAssumption DEF ExternalAcquire, ExternalRelease, vars
    <2>2. \A v \in Workers : Undisturbed(v)
      BY <2>1 DEF Undisturbed
    <2> QED BY <1>q, <2>1, <2>2
  <1>5. ASSUME NEW w \in Workers, NEW j \in Jobs, ClaimNext(w, j) PROVE LocalWorkKeeps'
    <2>1. /\ permit = "free" /\ rows[j].status = "ready"
          /\ permit' = (IF KeepsPermit(Kind(rows[j])) THEN w ELSE permit)
          /\ pc' = [pc EXCEPT ![w] = IF Kind(rows[j]) = "extract_chunk"
                                       THEN "batch" ELSE "handle"]
      BY <1>5 DEF ClaimNext, NextClaims, Claimable
    <2>2. PICK now \in ClaimTimes :
            /\ rows' = [rows EXCEPT ![j] = ClaimedRow(rows[j], now)]
            /\ held' = [held EXCEPT ![w] = {LeaseOf(j, ClaimedRow(rows[j], now))}]
      BY <1>5 DEF ClaimNext
    <2>3. /\ \A i \in Jobs \ {j} : rows'[i] = rows[i]
          /\ rows'[j].key = rows[j].key
      BY <1>0, <2>2 DEF ClaimedRow, TypeOK, Row
    <2>4. \A v \in Workers \ {w} : Undisturbed(v)
      BY <1>0, <2>1, <2>2, <2>3 DEF Undisturbed, TypeOK
    <2>5. \A v \in Workers : permit # v
      BY <2>1, PermitAssumption
    <2>6. /\ pc'[w] = "batch" => permit' = w
          /\ \A l \in held'[w] : IsLlmBound(Kind(rows'[l.job])) => permit' = w
      <3>1. held'[w] = {LeaseOf(j, ClaimedRow(rows[j], now))}
        BY <1>0, <2>2 DEF TypeOK
      <3>2. \A l \in held'[w] : l.job = j
        BY <3>1 DEF LeaseOf
      <3>3. Kind(rows'[j]) = Kind(rows[j])
        BY <2>3 DEF Kind
      <3>4. pc'[w] = "batch" => Kind(rows[j]) = "extract_chunk"
        BY <1>0, <2>1 DEF TypeOK
      <3> QED BY <2>1, <3>2, <3>3, <3>4 DEF KeepsPermit, IsLlmBound
    <2> QED BY <2>4, <2>5, <2>6, KeepsStep DEF LocalWorkKeeps
  <1>6. ASSUME NEW w \in Workers, ClaimBatch(w) PROVE LocalWorkKeeps'
    <2>1. permit' = permit /\ pc[w] = "batch" /\ pc' = [pc EXCEPT ![w] = "handle"]
      BY <1>6 DEF ClaimBatch
    <2>2. permit = w
      BY <2>1 DEF LocalWorkKeeps
    <2>3. PICK now \in ClaimTimes, batch \in SUBSET ClaimableExtracts(rows) :
            /\ rows' = [j \in Jobs |-> IF j \in batch THEN ClaimedRow(rows[j], now) ELSE rows[j]]
            /\ held' = [held EXCEPT ![w] =
                          held[w] \cup {LeaseOf(j, ClaimedRow(rows[j], now)) : j \in batch}]
      BY <1>6 DEF ClaimBatch
    <2>4. \A j \in Jobs : /\ rows'[j].key = rows[j].key
                          /\ rows'[j].status # "absent" => rows[j].status # "absent"
      <3>1. \A j \in batch : rows[j].status = "ready"
        BY DEF ClaimableExtracts, Claimable
      <3> QED BY <1>0, <2>3, <3>1 DEF ClaimedRow, TypeOK, Row
    <2>5. \A v \in Workers \ {w} : Undisturbed(v)
      BY <1>0, <2>1, <2>3, <2>4 DEF Undisturbed, TypeOK
    <2>6. \A v \in Workers \ {w} : permit = v => permit' = v
      BY <2>1
    <2>7. permit' = w
      BY <2>1, <2>2
    <2> QED BY <2>5, <2>6, <2>7, KeepsStep DEF LocalWorkKeeps
  <1>7. ASSUME NEW w \in Workers, StatementFails(w) \/ Handle(w) PROVE LocalWorkKeeps'
    <2>1. /\ UNCHANGED rows /\ permit' = PermitDropped(w)
          /\ \A v \in Workers \ {w} : pc'[v] = pc[v] /\ held'[v] = held[v]
          /\ pc'[w] \in {"gate", "settle"}
      BY <1>0, <1>7 DEF StatementFails, Handle, TypeOK
    <2>2. \A v \in Workers \ {w} : Undisturbed(v) /\ (permit = v => permit' = v)
      BY <2>1 DEF Undisturbed, PermitDropped
    <2> QED BY <2>1, <2>2, KeepsStep DEF LocalWorkKeeps
  <1>8. ASSUME NEW w \in Workers, NEW l \in held[w], Settle(w, l) PROVE LocalWorkKeeps'
    <2>1. PICK outcome \in Outcomes : rows' = [rows EXCEPT ![l.job] = SettledRow(@, l, outcome)]
      BY <1>8 DEF Settle
    <2>2. Settled(w, l)
      BY <1>8, <2>1, SettleFacts DEF Settle
    <2>3. \A j \in Jobs : \/ rows'[j] = rows[j]
                          \/ rows[j].status # "absent" /\ rows'[j].key = rows[j].key
      BY <2>2 DEF Settled
    <2>4. /\ permit' = permit /\ pc'[w] \in {"gate", "settle"}
          /\ \A v \in Workers \ {w} : pc'[v] = pc[v] /\ held'[v] = held[v]
      BY <1>0, <1>8 DEF Settle, TypeOK
    <2>5. \A v \in Workers \ {w} : Undisturbed(v)
      BY <1>0, <2>3, <2>4 DEF Undisturbed
    <2> QED BY <2>4, <2>5, KeepsStep DEF LocalWorkKeeps
  <1>9. CASE RequeueFailed \/ RetryAllFailed \/ SchedulerTick
    <2>1. PICK after : Refilled(after) /\ Requeue(after)
      <3>1. CASE RequeueFailed \/ RetryAllFailed
        BY <3>1, SweepRefills DEF RequeueFailed, RetryAllFailed
      <3>2. CASE SchedulerTick
        <4>1. PICK k \in Keys : \E after \in Inserted(RequeueTransient(rows), k) : Requeue(after)
          BY <3>2 DEF SchedulerTick
        <4> QED BY <1>0, <4>1, SweepRefills, InsertRefills
      <3> QED BY <1>9, <3>1, <3>2
    <2> QED BY <1>r, <2>1 DEF Requeue
  <1>10. CASE Start \/ ReleaseRunningLocks
    <2>1. Unlocked /\ UNCHANGED <<held, pc, permit>>
      BY <1>10, UnlockFacts DEF Start, ReleaseRunningLocks
    <2>2. \A v \in Workers : Undisturbed(v)
      BY <1>0, <2>1 DEF Unlocked, Undisturbed
    <2> QED BY <1>q, <2>1, <2>2
  <1>11. CASE ProcessEnds
    BY <1>11 DEF ProcessEnds, LocalWorkKeeps
  <1> QED BY <1>1, <1>2, <1>3, <1>4, <1>5, <1>6, <1>7, <1>8, <1>9, <1>10, <1>11
       DEF Next, WorkerStep

\* At most one local LLM-bound handler runs at a time, and none beside another
\* user of the slot, however claims, deletions and restarts interleave.
THEOREM OneLocalHandler == Spec => []LocalWorkIsSerial
  <1>1. Init => LocalWorkKeeps
    BY DEF Init, LocalWorkKeeps
  <1>2. LocalWorkKeeps => LocalWorkIsSerial
    BY DEF LocalWorkKeeps, LocalWorkIsSerial
  <1> QED BY <1>1, <1>2, LocalWorkKeepsStep, Invariant, PTL DEF Spec

\* The scheduler's sweep never retries a parked failure, nor does any other step
\* but the user's two retries.
THEOREM ParkedStays == Spec => ParkedWaitsForUser
  <1> DEFINE Parked == \A j \in Jobs :
               rows[j].status = "failed" /\ rows[j].parked /\ rows'[j].status = "ready"
                 => RequeueFailed \/ RetryAllFailed
  <1>1. ASSUME IInv, Next PROVE Parked
    <2>0. TypeOK
      BY <1>1 DEF IInv
    <2> SUFFICES ASSUME NEW j \in Jobs, rows[j].status = "failed", rows[j].parked,
                        rows'[j].status = "ready", ~(RequeueFailed \/ RetryAllFailed)
                 PROVE  FALSE
      OBVIOUS
    <2>1. ASSUME NEW k \in Keys, NEW table, table[j] = rows[j], DOMAIN table = Jobs,
                 rows' \in Inserted(table, k)
          PROVE  FALSE
      BY <2>1 DEF Inserted, FreshIds
    <2>2. ASSUME NEW k \in Keys, Enqueue(k) PROVE FALSE
      BY <2>0, <2>1, <2>2 DEF Enqueue, TypeOK
    <2>3. CASE DeleteJobs
      BY <2>3 DEF DeleteJobs, AbsentRow
    <2>4. ASSUME NEW i \in Jobs, BecomesDue(i) \/ LeaseExpires(i) PROVE FALSE
      BY <2>0, <2>4 DEF BecomesDue, LeaseExpires, TypeOK
    <2>5. CASE UNCHANGED rows
      BY <2>5
    <2>6. ASSUME NEW w \in Workers, NEW i \in Jobs, ClaimNext(w, i) PROVE FALSE
      BY <2>0, <2>6 DEF ClaimNext, NextClaims, Claimable, TypeOK
    <2>7. ASSUME NEW w \in Workers, ClaimBatch(w) PROVE FALSE
      <3>1. rows'[j] = rows[j]
        BY <2>0, <2>7 DEF ClaimBatch, ClaimableExtracts, Claimable
      <3> QED BY <3>1
    <2>8. ASSUME NEW w \in Workers, NEW l \in held[w], Settle(w, l) PROVE FALSE
      <3>1. PICK outcome \in Outcomes : rows' = [rows EXCEPT ![l.job] = SettledRow(@, l, outcome)]
        BY <2>8 DEF Settle
      <3>2. Settled(w, l)
        BY <1>1, <2>8, <3>1, SettleFacts DEF Settle
      <3> QED BY <1>1, <3>2 DEF Settled, IInv, SettledForGood
    <2>9. CASE SchedulerTick
      <3>1. PICK k \in Keys : rows' \in Inserted(RequeueTransient(rows), k)
        BY <2>9 DEF SchedulerTick, Requeue
      <3>2. RequeueTransient(rows)[j] = rows[j] /\ DOMAIN RequeueTransient(rows) = Jobs
        BY <2>0 DEF RequeueTransient, UnlessDuplicate, IsTransientFailed, TypeOK
      <3> QED BY <2>1, <3>1, <3>2
    <2>10. CASE Start \/ ReleaseRunningLocks
      <3>1. Unlocked
        BY <1>1, <2>10, UnlockFacts DEF Start, ReleaseRunningLocks
      <3> QED BY <3>1 DEF Unlocked
    <2> QED BY <1>1, <2>2, <2>3, <2>4, <2>5, <2>6, <2>7, <2>8, <2>9, <2>10
         DEF Next, WorkerStep, ExternalAcquire, ExternalRelease, StatementFails, Handle,
             ProcessEnds
  <1>2. IInv /\ [Next]_vars => [Parked]_vars
    BY <1>1
  <1> HIDE DEF Parked
  <1>3. Spec => [][Parked]_vars
    BY <1>2, Invariant, PTL DEF Spec
  <1> QED BY <1>3 DEF ParkedWaitsForUser, Parked

-----------------------------------------------------------------------------
(* The table implements KeyQueue.                                          *)

\* A worker between two runs of run_once holds nothing, so the claim that starts
\* the next run drops no snapshot.
IdleHoldsNothing == \A w \in Workers : pc[w] = "gate" => held[w] = {}

LEMMA IdleStep == IInv /\ IdleHoldsNothing /\ [Next]_vars => IdleHoldsNothing'
  <1> SUFFICES ASSUME IInv, IdleHoldsNothing, [Next]_vars, NEW v \in Workers, pc'[v] = "gate"
               PROVE  held'[v] = {}
    BY DEF IdleHoldsNothing
  <1>0. TypeOK
    BY DEF IInv
  <1>1. ASSUME UNCHANGED <<pc, held>> PROVE held'[v] = {}
    BY <1>1 DEF IdleHoldsNothing
  <1>2. ASSUME NEW w \in Workers, WorkerStep(w) PROVE held'[v] = {}
    <2>1. CASE v # w
      BY <1>0, <1>2, <2>1 DEF WorkerStep, ClaimNext, ClaimBatch, StatementFails, Handle, Settle,
           TypeOK, IdleHoldsNothing
    <2>2. CASE v = w
      BY <1>0, <1>2, <2>2 DEF WorkerStep, ClaimNext, ClaimBatch, StatementFails, Handle, Settle,
           TypeOK, IdleHoldsNothing
    <2> QED BY <2>1, <2>2
  <1>3. CASE ProcessEnds
    BY <1>3 DEF ProcessEnds
  <1> QED BY <1>1, <1>2, <1>3 DEF Next, vars, Enqueue, DeleteJobs, BecomesDue, LeaseExpires,
       ExternalAcquire, ExternalRelease, RequeueFailed, RetryAllFailed, SchedulerTick, Requeue,
       Start, ReleaseRunningLocks

\* The status a key shows is that of its active row.
LEMMA StatusShown ==
  ASSUME NEW table \in [Jobs -> Row], UniqueActive(table), NEW k \in Keys
  PROVE  /\ \A j \in Jobs : table[j].key = k /\ IsActive(table[j])
                              => StatusOf(table, k) = table[j].status
         /\ StatusOf(table, k) # "none"
              => \E j \in Jobs : /\ table[j].key = k /\ IsActive(table[j])
                                 /\ table[j].status = StatusOf(table, k)
         /\ StatusOf(table, k) \in {"none", "ready", "running"}
  BY DEF StatusOf, ActiveAs, IsActive, UniqueActive

\* A step that keeps every row's status, key, token and parking, or drops snapshots
\* which could settle nothing, is not seen by key.
LEMMA QuietView ==
  ASSUME \A j \in Jobs : /\ rows'[j].status = rows[j].status
                         /\ rows'[j].key = rows[j].key
                         /\ rows'[j].attempts = rows[j].attempts
                         /\ rows'[j].started = rows[j].started
                         /\ rows'[j].parked = rows[j].parked,
         \A w \in Workers : \A l \in held[w] : l.job \in Jobs,
         \A w \in Workers : /\ held'[w] \subseteq held[w]
                            /\ \A l \in held[w] \ held'[w] :
                                 ~(IsActive(rows[l.job]) /\ TokenMatches(rows[l.job], l))
  PROVE  UNCHANGED KeyView!vars
  <1>1. \A k \in Keys : StatusOf(rows', k) = StatusOf(rows, k)
    BY DEF StatusOf, ActiveAs
  <1>2. \A k \in Keys : \A p \in BOOLEAN : FailedRows(rows', k, p) = FailedRows(rows, k, p)
    BY DEF FailedRows
  <1>3. \A w \in Workers : SettledBy(rows', held'[w]) = SettledBy(rows, held[w])
    BY DEF SettledBy, IsActive, TokenMatches
  <1> QED BY <1>1, <1>2, <1>3 DEF KeyView!vars

\* Inserts and requeues, by key: rows that go back find their key free, a row that
\* comes in has a free key, and no worker gains or loses a row.
LEMMA RefillView ==
  ASSUME IInv, Refilled(rows'), UNCHANGED held
  PROVE  /\ \A w \in Workers : SettledBy(rows', held'[w]) = SettledBy(rows, held[w])
         /\ \A k \in Keys : StatusOf(rows', k) \in {"none", "ready", "running"}
         /\ \A j \in Jobs : Requeued(rows', j) =>
              /\ StatusOf(rows, rows[j].key) = "none" /\ StatusOf(rows', rows[j].key) = "ready"
              /\ \A i \in Jobs : Requeued(rows', i) /\ rows[i].key = rows[j].key => i = j
         /\ \A k \in Keys : (\A j \in Jobs : Requeued(rows', j) => rows[j].key # k) =>
              \/ StatusOf(rows', k) = StatusOf(rows, k)
              \/ StatusOf(rows, k) = "none" /\ StatusOf(rows', k) = "ready"
         /\ \A k \in Keys, p \in BOOLEAN :
              FailedRows(rows', k, p) = {j \in FailedRows(rows, k, p) : ~Requeued(rows', j)}
  <1>0. /\ rows \in [Jobs -> Row] /\ UniqueActive(rows)
        /\ rows' \in [Jobs -> Row] /\ UniqueActive(rows')
        /\ \A w \in Workers : \A l \in held[w] :
             l.job \in Jobs /\ l.job \notin FreshIds /\ l.attempts \in Nat \ {0}
    BY DEF IInv, TypeOK, OneActivePerKey, Refilled, FreshIds, Lease
  <1>1. \A j \in Jobs : IsActive(rows[j]) => rows'[j] = rows[j]
    BY DEF Refilled, Requeued, New, FreshIds, IsActive
  <1>2. \A j \in Jobs : IsActive(rows'[j]) /\ rows'[j] # rows[j] =>
          rows'[j].status = "ready" /\ rows'[j].attempts = 0
    BY DEF Refilled, Requeued, New
  <1>3. ASSUME NEW w \in Workers
        PROVE  SettledBy(rows', held'[w]) = SettledBy(rows, held[w])
    <2>1. \A l \in held[w] : IsActive(rows'[l.job]) /\ TokenMatches(rows'[l.job], l)
                               => rows'[l.job] = rows[l.job]
      BY <1>0, <1>2 DEF TokenMatches
    <2> QED BY <1>0, <1>1, <2>1 DEF SettledBy
  <1>4. \A k \in Keys : StatusOf(rows', k) \in {"none", "ready", "running"}
    BY <1>0, StatusShown
  <1>5. ASSUME NEW j \in Jobs, Requeued(rows', j)
        PROVE  /\ StatusOf(rows, rows[j].key) = "none" /\ StatusOf(rows', rows[j].key) = "ready"
               /\ \A i \in Jobs : Requeued(rows', i) /\ rows[i].key = rows[j].key => i = j
    <2>1. rows[j].key \in Keys /\ ~IsActive(rows[j])
      BY <1>5 DEF IInv, RowsKeyed, Requeued, IsActive
    <2>2. IsActive(rows'[j]) /\ rows'[j].key = rows[j].key /\ rows'[j].status = "ready"
      BY <1>5 DEF Requeued, IsActive
    <2>3. \A i \in Jobs : IsActive(rows'[i]) /\ rows'[i].key = rows[j].key => i = j
      BY <1>0, <2>2 DEF UniqueActive
    <2>4. \A i \in Jobs : ~(rows[i].key = rows[j].key /\ IsActive(rows[i]))
      BY <1>1, <2>1, <2>3
    <2>5. StatusOf(rows, rows[j].key) = "none"
      BY <1>0, <2>1, <2>4, StatusShown
    <2>6. StatusOf(rows', rows[j].key) = "ready"
      BY <1>0, <2>1, <2>2, StatusShown
    <2>7. \A i \in Jobs : Requeued(rows', i) => IsActive(rows'[i]) /\ rows'[i].key = rows[i].key
      BY DEF Requeued, IsActive
    <2> QED BY <2>3, <2>5, <2>6, <2>7
  <1>6. ASSUME NEW k \in Keys, \A j \in Jobs : Requeued(rows', j) => rows[j].key # k
        PROVE  \/ StatusOf(rows', k) = StatusOf(rows, k)
               \/ StatusOf(rows, k) = "none" /\ StatusOf(rows', k) = "ready"
    <2>1. CASE \E j \in Jobs : rows[j].key = k /\ IsActive(rows[j])
      BY <1>0, <1>1, <2>1, StatusShown
    <2>2. CASE ~\E j \in Jobs : rows[j].key = k /\ IsActive(rows[j])
      <3>1. StatusOf(rows, k) = "none"
        BY <1>0, <2>2, StatusShown
      <3>2. \A j \in Jobs : rows'[j].key = k /\ IsActive(rows'[j]) => rows'[j].status = "ready"
        BY <1>2, <2>2
      <3>3. StatusOf(rows', k) \in {"none", "ready"}
        BY <1>0, <1>4, <3>2, StatusShown
      <3> QED BY <3>1, <3>3
    <2> QED BY <2>1, <2>2
  <1>7. ASSUME NEW k \in Keys, NEW p \in BOOLEAN
        PROVE  FailedRows(rows', k, p) = {j \in FailedRows(rows, k, p) : ~Requeued(rows', j)}
    BY DEF FailedRows, Refilled, Requeued, New, FreshIds
  <1> QED BY <1>3, <1>4, <1>5, <1>6, <1>7

\* A refill that puts no failed row back enqueues.
LEMMA EnqueueView ==
  ASSUME IInv, Refilled(rows'), UNCHANGED held, \A j \in Jobs : ~Requeued(rows', j)
  PROVE  KeyView!Enqueue
  <1>1. ASSUME NEW k \in Keys, NEW p \in BOOLEAN
        PROVE  FailedRows(rows', k, p) = FailedRows(rows, k, p)
    <2>1. FailedRows(rows', k, p) = {j \in FailedRows(rows, k, p) : ~Requeued(rows', j)}
      BY RefillView
    <2> QED BY <2>1 DEF FailedRows
  <1>2. \A k \in Keys : /\ StatusOf(rows', k) \in {"none", "ready", "running"}
                        /\ \/ StatusOf(rows', k) = StatusOf(rows, k)
                           \/ StatusOf(rows, k) = "none" /\ StatusOf(rows', k) = "ready"
    BY RefillView
  <1>3. \A w \in Workers : SettledBy(rows', held'[w]) = SettledBy(rows, held[w])
    BY RefillView
  <1> QED BY <1>1, <1>2, <1>3 DEF KeyView!Enqueue, KeyView!MayEnter, KeyView!Status

\* A refill that puts back all failed rows, or all that are not parked, requeues.
LEMMA RequeueView ==
  ASSUME IInv, Refilled(rows'), UNCHANGED held, NEW all \in BOOLEAN,
         \A j \in Jobs : Requeued(rows', j) <=>
                           rows[j].status = "failed" /\ (all \/ ~rows[j].parked)
  PROVE  KeyView!Requeue(all)
  <1> DEFINE Back(k) == FailedRows(rows, k, FALSE) \cup (IF all THEN FailedRows(rows, k, TRUE) ELSE {})
  <1>0. \A j \in Jobs : rows[j].parked \in BOOLEAN
    BY DEF IInv, TypeOK, Row
  <1>1. ASSUME NEW k \in Keys
        PROVE  \A j \in Jobs : j \in Back(k) <=> Requeued(rows', j) /\ rows[j].key = k
    BY <1>0 DEF FailedRows
  <1>2. \A k \in Keys : Back(k) \subseteq Jobs
    BY DEF FailedRows
  <1>3. ASSUME NEW k \in Keys, Back(k) # {}
        PROVE  /\ StatusOf(rows, k) = "none" /\ StatusOf(rows', k) = "ready"
               /\ \A i, j \in Back(k) : i = j
    <2>1. PICK j \in Back(k) : TRUE
      BY <1>3
    <2>2. j \in Jobs /\ Requeued(rows', j) /\ rows[j].key = k
      BY <1>1, <1>2, <2>1
    <2>3. /\ StatusOf(rows, rows[j].key) = "none" /\ StatusOf(rows', rows[j].key) = "ready"
          /\ \A i \in Jobs : Requeued(rows', i) /\ rows[i].key = rows[j].key => i = j
      BY <2>2, RefillView
    <2> QED BY <1>1, <1>2, <2>2, <2>3
  <1>4. ASSUME NEW k \in Keys, Back(k) = {}
        PROVE  \/ StatusOf(rows', k) = StatusOf(rows, k)
               \/ StatusOf(rows, k) = "none" /\ StatusOf(rows', k) = "ready"
    <2>1. \A j \in Jobs : Requeued(rows', j) => rows[j].key # k
      BY <1>1, <1>4
    <2> QED BY <2>1, RefillView
  <1>5. ASSUME NEW k \in Keys
        PROVE  /\ FailedRows(rows', k, FALSE) = {}
               /\ FailedRows(rows', k, TRUE) = IF all THEN {} ELSE FailedRows(rows, k, TRUE)
    <2>1. \A p \in BOOLEAN :
            FailedRows(rows', k, p) = {j \in FailedRows(rows, k, p) : ~Requeued(rows', j)}
      BY RefillView
    <2> QED BY <2>1 DEF FailedRows
  <1>6. \A w \in Workers : SettledBy(rows', held'[w]) = SettledBy(rows, held[w])
    BY RefillView
  <1>7. \A k \in Keys : StatusOf(rows', k) \in {"none", "ready", "running"}
    BY RefillView
  <1> QED BY <1>3, <1>4, <1>5, <1>6, <1>7
       DEF KeyView!Requeue, KeyView!MayEnter, KeyView!Status, KeyView!NoneFailed

\* A claim that adds snapshots to what the worker holds takes the keys of its rows:
\* an older snapshot of one of them, if there is one, has fewer attempts than the
\* row has now, and settles it no more.
LEMMA ClaimView ==
  ASSUME IInv, NEW w \in Workers, NEW batch \in SUBSET Jobs, NEW now,
         Claimed(w, batch, now),
         held' = [held EXCEPT ![w] =
                    @ \cup {LeaseOf(j, ClaimedRow(rows[j], now)) : j \in batch}],
         \A j \in batch : rows'[j] = ClaimedRow(rows[j], now),
         \A j \in batch : rows[j].parked = rows'[j].parked
  PROVE  KeyView!Claim(w)
  <1> DEFINE taken == {rows[j].key : j \in batch}
  <1>0. /\ rows \in [Jobs -> Row] /\ UniqueActive(rows)
        /\ rows' \in [Jobs -> Row] /\ UniqueActive(rows')
        /\ \A v \in Workers : \A l \in held[v] :
             l.job \in Jobs /\ l.attempts \in Nat
        /\ \A j \in Jobs : rows[j].attempts \in Nat
    <2>1. UniqueActive(rows')
      BY DEF IInv, TypeOK, Claimed, OneActivePerKey, UniqueActive, IsActive
    <2> QED BY <2>1 DEF IInv, TypeOK, OneActivePerKey, Claimed, Row, Lease
  <1>1. \A j \in batch : /\ j \in Jobs /\ rows[j].key \in Keys
                         /\ IsActive(rows[j]) /\ rows[j].status = "ready"
                         /\ IsActive(rows'[j]) /\ rows'[j].status = "running"
                         /\ rows'[j].key = rows[j].key
    BY DEF Claimed, IInv, RowsKeyed, IsActive
  <1>2. taken \in SUBSET {k \in Keys : StatusOf(rows, k) = "ready"}
    BY <1>0, <1>1, StatusShown
  <1>3. ASSUME NEW k \in Keys
        PROVE  StatusOf(rows', k) = IF k \in taken THEN "running" ELSE StatusOf(rows, k)
    <2>1. CASE k \in taken
      <3>1. PICK j \in batch : rows[j].key = k
        BY <2>1
      <3> QED BY <1>0, <1>1, <2>1, <3>1, StatusShown
    <2>2. CASE k \notin taken
      <3>1. \A j \in Jobs : rows[j].key = k \/ rows'[j].key = k => rows'[j] = rows[j]
        BY <1>1, <2>2 DEF Claimed
      <3> QED BY <2>2, <3>1 DEF StatusOf, ActiveAs
    <2> QED BY <2>1, <2>2
  <1>4. ASSUME NEW v \in Workers, NEW l \in held[v], l.job \in batch
        PROVE  ~TokenMatches(rows'[l.job], l)
    <2> SUFFICES ASSUME TokenMatches(rows'[l.job], l) PROVE FALSE
      OBVIOUS
    <2>1. l.started = clock /\ l.attempts = rows[l.job].attempts + 1
      BY <1>4 DEF TokenMatches, Claimed
    <2>2. l.attempts <= rows[l.job].attempts
      BY <1>4, <2>1 DEF IInv, TokensBehind, Claimed
    <2> QED BY <1>0, <1>1, <1>4, <2>1, <2>2
  <1>5. ASSUME NEW v \in Workers
        PROVE  SettledBy(rows', held'[v]) =
                 IF v = w THEN SettledBy(rows, held[v]) \cup taken
                          ELSE SettledBy(rows, held[v]) \ taken
    <2>1. ASSUME NEW k \in Keys, k \notin taken
          PROVE  k \in SettledBy(rows', held'[v]) <=> k \in SettledBy(rows, held[v])
      <3>1. \A j \in Jobs : rows[j].key = k \/ rows'[j].key = k => rows'[j] = rows[j]
        BY <1>1, <2>1 DEF Claimed
      <3>2. \A l \in held'[v] : l \in held[v] \/ rows'[l.job].key # k
        BY <1>1, <2>1 DEF Claimed
      <3>3. held[v] \subseteq held'[v]
        BY DEF IInv, TypeOK
      <3> QED BY <1>0, <3>1, <3>2, <3>3 DEF SettledBy
    <2>2. ASSUME NEW j \in batch
          PROVE  rows[j].key \in SettledBy(rows', held'[v]) <=> v = w
      <3>1. CASE v = w
        <4> DEFINE l == LeaseOf(j, ClaimedRow(rows[j], now))
        <4>1. l \in held'[v]
          BY <3>1 DEF IInv, TypeOK
        <4>2. l.job = j /\ TokenMatches(rows'[j], l)
          BY DEF LeaseOf, TokenMatches
        <4> QED BY <1>1, <3>1, <4>1, <4>2 DEF SettledBy
      <3>2. CASE v # w
        <4>1. held'[v] = held[v]
          BY <3>2 DEF IInv, TypeOK
        <4>2. ASSUME NEW l \in held[v], rows'[l.job].key = rows[j].key, IsActive(rows'[l.job])
              PROVE  l.job = j
          BY <1>0, <1>1, <4>2 DEF UniqueActive
        <4> QED BY <1>4, <3>2, <4>1, <4>2 DEF SettledBy
      <3> QED BY <3>1, <3>2
    <2>3. /\ SettledBy(rows, held[v]) \subseteq Keys /\ SettledBy(rows', held'[v]) \subseteq Keys
          /\ taken \subseteq Keys
      BY <1>1 DEF SettledBy
    <2>4. \A k \in taken : k \in SettledBy(rows', held'[v]) <=> v = w
      BY <2>2
    <2> HIDE DEF taken
    <2> QED BY <2>1, <2>3, <2>4
  <1>6. \A k \in Keys : \A p \in BOOLEAN : FailedRows(rows', k, p) = FailedRows(rows, k, p)
    BY <1>1 DEF FailedRows, Claimed
  <1> HIDE DEF taken
  <1> QED BY <1>2, <1>3, <1>5, <1>6 DEF KeyView!Claim

\* A settlement whose token matches an active row is its owner's: the row is done,
\* ready again or failed, and no snapshot that is left can settle it.
LEMMA SettleView ==
  ASSUME IInv, NEW w \in Workers, NEW l, Settled(w, l),
         IsActive(rows[l.job]), TokenMatches(rows[l.job], l),
         rows'[l.job].status \in {"done", "failed", "ready"}
  PROVE  \E k \in Keys : KeyView!Finish(w, k) \/ KeyView!PutBack(w, k) \/ KeyView!Fail(w, k)
  <1> DEFINE k == rows[l.job].key
  <1>0. /\ rows \in [Jobs -> Row] /\ UniqueActive(rows) /\ rows' \in [Jobs -> Row]
        /\ \A v \in Workers : \A m \in held[v] :
             m \in Lease /\ m.job \in Jobs /\ m.attempts \in Nat \ {0} /\ m.started \in Stamps
        /\ \A j \in Jobs : rows[j].attempts \in Nat
        /\ l \in Lease /\ l.job \in Jobs /\ l \in held[w]
        /\ l.attempts \in Nat \ {0} /\ l.started \in Stamps
    BY DEF IInv, TypeOK, OneActivePerKey, Settled, Row, Lease
  <1>1. /\ TokenMatches(rows[l.job], l) /\ IsActive(rows[l.job]) /\ k \in Keys
        /\ rows'[l.job].key = k /\ \A j \in Jobs \ {l.job} : rows'[j] = rows[j]
    BY <1>0 DEF Settled, IInv, RowsKeyed, IsActive
  <1>2. ASSUME NEW v \in Workers, NEW m \in held'[v], m.job = l.job
        PROVE  ~TokenMatches(rows[l.job], m) /\ ~TokenMatches(rows'[l.job], m)
    <2>1. m \in held[v] /\ (v = w => m # l)
      BY DEF Settled, IInv, TypeOK
    <2>2. ~(m.attempts = l.attempts /\ m.started = l.started)
      <3> SUFFICES ASSUME m.attempts = l.attempts, m.started = l.started PROVE FALSE
        OBVIOUS
      <3>1. m \in Lease /\ m = l
        BY <1>0, <1>2, <2>1 DEF Lease
      <3>2. v = w
        BY <1>0, <1>2, <2>1 DEF IInv, TokensDistinct
      <3> QED BY <2>1, <3>1, <3>2
    <2>3. m.started # None
      BY <1>0, <2>1, NoneAssumption
    <2> QED BY <1>1, <2>2, <2>3 DEF Settled, TokenMatches
  <1>3. ASSUME NEW v \in Workers, NEW m \in held[v], m.job # l.job, IsActive(rows[m.job])
        PROVE  rows[m.job].key # k
    BY <1>0, <1>1, <1>3 DEF UniqueActive
  <1>4. ASSUME NEW v \in Workers
        PROVE  SettledBy(rows', held'[v]) =
                 IF v = w THEN SettledBy(rows, held[w]) \ {k} ELSE SettledBy(rows, held[v])
    <2>1. ASSUME NEW q \in Keys, q # k
          PROVE  q \in SettledBy(rows', held'[v]) <=> q \in SettledBy(rows, held[v])
      <3>1. \A m \in held[v] : m \in held'[v] \/ m = l
        BY DEF Settled, IInv, TypeOK
      <3>2. \A m \in held'[v] : m \in held[v]
        BY DEF Settled, IInv, TypeOK
      <3>3. ASSUME NEW m \in held[v]
            PROVE  rows'[m.job] = rows[m.job] \/ (rows[m.job].key = k /\ rows'[m.job].key = k)
        <4>1. CASE m.job = l.job
          BY <1>1, <4>1
        <4>2. CASE m.job # l.job
          BY <1>0, <1>1, <4>2
        <4> QED BY <4>1, <4>2
      <3> QED BY <1>1, <2>1, <3>1, <3>2, <3>3 DEF SettledBy
    <2>2. k \notin SettledBy(rows', held'[v])
      <3>1. ASSUME NEW m \in held'[v], rows'[m.job].key = k, IsActive(rows'[m.job])
            PROVE  ~TokenMatches(rows'[m.job], m)
        <4>1. m \in held[v]
          BY DEF Settled, IInv, TypeOK
        <4> QED BY <1>0, <1>1, <1>2, <1>3, <3>1, <4>1
      <3> QED BY <3>1 DEF SettledBy
    <2>3. v # w => k \notin SettledBy(rows, held[v])
      <3>1. ASSUME v # w, NEW m \in held[v], rows[m.job].key = k, IsActive(rows[m.job])
            PROVE  ~TokenMatches(rows[m.job], m)
        <4>1. m \in held'[v]
          BY <3>1 DEF Settled, IInv, TypeOK
        <4> QED BY <1>2, <1>3, <3>1, <4>1
      <3> QED BY <3>1 DEF SettledBy
    <2>4. SettledBy(rows, held[v]) \subseteq Keys /\ SettledBy(rows', held'[v]) \subseteq Keys
      BY DEF SettledBy
    <2> HIDE DEF k
    <2> QED BY <2>1, <2>2, <2>3, <2>4
  <1>5. k \in SettledBy(rows, held[w])
    BY <1>0, <1>1 DEF SettledBy
  <1>6. /\ \A q \in Keys \ {k} : StatusOf(rows', q) = StatusOf(rows, q)
        /\ StatusOf(rows', k) = IF rows'[l.job].status = "ready" THEN "ready" ELSE "none"
    <2>1. \A j \in Jobs : j # l.job => ~(rows'[j].key = k /\ IsActive(rows'[j]))
      BY <1>0, <1>1 DEF UniqueActive
    <2>2. StatusOf(rows', k) = IF rows'[l.job].status = "ready" THEN "ready" ELSE "none"
      BY <1>0, <1>1, <2>1 DEF StatusOf, ActiveAs, IsActive
    <2>3. \A q \in Keys \ {k} : StatusOf(rows', q) = StatusOf(rows, q)
      BY <1>1 DEF StatusOf, ActiveAs
    <2> QED BY <2>2, <2>3
  <1>7. rows[l.job].status # "failed" /\ rows'[l.job].parked \in BOOLEAN
    BY <1>0 DEF IsActive, Row
  <1>8. ASSUME NEW q \in Keys, NEW p \in BOOLEAN
        PROVE  /\ rows'[l.job].status # "failed" => FailedRows(rows', q, p) = FailedRows(rows, q, p)
               /\ rows'[l.job].status = "failed" =>
                    FailedRows(rows', q, p) =
                      IF q = k /\ p = rows'[l.job].parked
                        THEN FailedRows(rows, q, p) \cup {l.job} ELSE FailedRows(rows, q, p)
    BY <1>0, <1>1, <1>7 DEF FailedRows
  <1>9. l.job \in Jobs \ (FailedRows(rows, k, FALSE) \cup FailedRows(rows, k, TRUE))
    BY <1>0, <1>7 DEF FailedRows
  <1> HIDE DEF k
  <1>10. KeyView!LetGo(w, k)
    BY <1>1, <1>4, <1>5 DEF KeyView!LetGo
  <1>11. CASE rows'[l.job].status = "done"
    BY <1>1, <1>6, <1>8, <1>10, <1>11 DEF KeyView!Finish
  <1>12. CASE rows'[l.job].status = "ready"
    BY <1>1, <1>6, <1>8, <1>10, <1>12 DEF KeyView!PutBack
  <1>13. CASE rows'[l.job].status = "failed"
    <2>1. [q \in Keys |-> StatusOf(rows', q)]
            = [[q \in Keys |-> StatusOf(rows, q)] EXCEPT ![k] = "none"]
      BY <1>1, <1>6, <1>13
    <2>2. ASSUME NEW p \in BOOLEAN
          PROVE  [q \in Keys |-> FailedRows(rows', q, p)]
                   = IF p = rows'[l.job].parked
                       THEN [[q \in Keys |-> FailedRows(rows, q, p)] EXCEPT ![k] = @ \cup {l.job}]
                       ELSE [q \in Keys |-> FailedRows(rows, q, p)]
      BY <1>1, <1>8, <1>13
    <2>3. CASE rows'[l.job].parked = FALSE
      BY <1>1, <1>9, <1>10, <2>1, <2>2, <2>3 DEF KeyView!Fail
    <2>4. CASE rows'[l.job].parked = TRUE
      BY <1>1, <1>9, <1>10, <2>1, <2>2, <2>4 DEF KeyView!Fail
    <2> QED BY <1>7, <2>3, <2>4
  <1> QED BY <1>1, <1>7, <1>11, <1>12, <1>13

\* Which failed rows a bulk retry puts back: all it is for, or none.
PutsBack(after, all) ==
  \A j \in Jobs : Requeued(after, j) <=>
                    rows[j].status = "failed" /\ (all \/ ~rows[j].parked)
PutsNoneBack(after) == \A j \in Jobs : ~Requeued(after, j)

LEMMA SweepPutsBack ==
  ASSUME IInv
  PROVE  /\ PutsBack(RequeueAll(rows), TRUE) \/ PutsNoneBack(RequeueAll(rows))
         /\ PutsBack(RetryAll(rows), TRUE) \/ PutsNoneBack(RetryAll(rows))
         /\ PutsBack(RequeueTransient(rows), FALSE) \/ PutsNoneBack(RequeueTransient(rows))
  <1>0. DOMAIN rows = Jobs /\ \A j \in Jobs : rows[j] \in Row
    BY DEF IInv, TypeOK
  <1>1. PutsNoneBack(rows)
    BY DEF PutsNoneBack, Requeued
  <1>2. ASSUME NEW j \in Jobs, rows[j].status = "failed",
               NEW q \in {RequeuedRow(rows[j]), RetriedRow(rows[j])}
        PROVE  q.status = "ready" /\ q.key = rows[j].key /\ q.attempts = 0
                 /\ q.started = None /\ q.due
    BY <1>0, <1>2 DEF RequeuedRow, RetriedRow, Row
  <1>3. PutsBack([j \in Jobs |-> IF IsFailed(rows[j]) THEN RequeuedRow(rows[j]) ELSE rows[j]], TRUE)
    BY <1>2 DEF PutsBack, Requeued, IsFailed
  <1>4. PutsBack([j \in Jobs |-> IF IsFailed(rows[j]) THEN RetriedRow(rows[j]) ELSE rows[j]], TRUE)
    BY <1>2 DEF PutsBack, Requeued, IsFailed
  <1>5. PutsBack([j \in Jobs |-> IF IsTransientFailed(rows[j]) THEN RequeuedRow(rows[j])
                                                               ELSE rows[j]], FALSE)
    BY <1>2 DEF PutsBack, Requeued, IsTransientFailed
  <1> QED BY <1>0, <1>1, <1>3, <1>4, <1>5
       DEF RequeueAll, RetryAll, RequeueTransient, UnlessDuplicate

\* An insert puts no failed row back, and leaves those that go back.
LEMMA InsertPutsBack ==
  ASSUME NEW table \in [Jobs -> Row], NEW k \in Keys, NEW after \in Inserted(table, k),
         NEW j \in Jobs
  PROVE  Requeued(after, j) <=> Requeued(table, j)
  <1>1. CASE after = table
    BY <1>1
  <1>2. CASE \E i \in FreshIds : after = [table EXCEPT ![i] = NewRow(k)]
    <2>1. PICK i \in FreshIds : after = [table EXCEPT ![i] = NewRow(k)]
      BY <1>2
    <2>2. i \in Jobs /\ rows[i].status # "failed"
      BY DEF FreshIds
    <2>3. CASE j = i
      BY <2>2, <2>3 DEF Requeued
    <2>4. CASE j # i
      BY <2>1, <2>4 DEF Requeued
    <2> QED BY <2>3, <2>4
  <1> QED BY <1>1, <1>2 DEF Inserted

\* So a retry requeues, or the unique index has stopped it and it does not.
LEMMA RetryView ==
  ASSUME IInv, UNCHANGED held, NEW all \in BOOLEAN, Refilled(rows'),
         PutsBack(rows', all) \/ PutsNoneBack(rows')
  PROVE  KeyView!Requeue(all) \/ KeyView!Enqueue
  BY RequeueView, EnqueueView DEF PutsBack, PutsNoneBack

\* Emptying the table takes every row and every failure with it.
LEMMA WipeView ==
  ASSUME \A j \in Jobs : rows'[j] = AbsentRow,
         \A w \in Workers : \A l \in held'[w] : l.job \in Jobs
  PROVE  KeyView!Wipe
  <1>1. \A j \in Jobs : rows'[j].status = "absent"
    BY DEF AbsentRow
  <1>2. \A k \in Keys : StatusOf(rows', k) = "none"
    BY <1>1 DEF StatusOf, ActiveAs
  <1>3. \A k \in Keys : \A p \in BOOLEAN : FailedRows(rows', k, p) = {}
    BY <1>1 DEF FailedRows
  <1>4. \A w \in Workers : SettledBy(rows', held'[w]) = {}
    BY <1>1 DEF SettledBy, IsActive
  <1> QED BY <1>2, <1>3, <1>4 DEF KeyView!Wipe, KeyView!NoneOwned, KeyView!NoneFailed

\* Recovery at the start, when nobody holds a snapshot, or the end of the process.
LEMMA RestartView ==
  ASSUME IInv, Unlocked, \A j \in Jobs : rows[j].status # "running" => rows'[j] = rows[j],
         \A w \in Workers : held'[w] = {}
  PROVE  KeyView!Restart
  <1> DEFINE over == {k \in Keys : StatusOf(rows, k) = "running" /\ StatusOf(rows', k) = "ready"}
  <1>0. /\ rows \in [Jobs -> Row] /\ UniqueActive(rows)
        /\ rows' \in [Jobs -> Row] /\ UniqueActive(rows')
        /\ \A j \in Jobs : /\ rows'[j].key = rows[j].key
                           /\ IsActive(rows'[j]) <=> IsActive(rows[j])
                           /\ rows[j].status # "running" => rows'[j] = rows[j]
                           /\ rows[j].status = "running" => rows'[j].status \in {"running", "ready"}
    BY DEF IInv, TypeOK, OneActivePerKey, Unlocked, UniqueActive, IsActive
  <1>1. ASSUME NEW k \in Keys
        PROVE  StatusOf(rows', k) = IF k \in over THEN "ready" ELSE StatusOf(rows, k)
    <2>1. CASE \E j \in Jobs : rows[j].key = k /\ IsActive(rows[j])
      <3>1. PICK j \in Jobs : rows[j].key = k /\ IsActive(rows[j])
        BY <2>1
      <3>2. StatusOf(rows, k) = rows[j].status /\ StatusOf(rows', k) = rows'[j].status
        BY <1>0, <3>1, StatusShown
      <3> QED BY <1>0, <3>1, <3>2 DEF IsActive
    <2>2. CASE ~\E j \in Jobs : rows[j].key = k /\ IsActive(rows[j])
      <3>1. StatusOf(rows, k) = "none" /\ StatusOf(rows', k) = "none"
        BY <1>0, <2>2, StatusShown
      <3> QED BY <3>1
    <2> QED BY <2>1, <2>2
  <1>2. \A k \in Keys : \A p \in BOOLEAN : FailedRows(rows', k, p) = FailedRows(rows, k, p)
    BY <1>0 DEF FailedRows
  <1>3. \A w \in Workers : SettledBy(rows', held'[w]) = {}
    BY DEF SettledBy
  <1>4. over \in SUBSET {k \in Keys : StatusOf(rows, k) = "running"}
    OBVIOUS
  <1> HIDE DEF over
  <1> QED BY <1>1, <1>2, <1>3, <1>4 DEF KeyView!Restart, KeyView!NoneOwned

\* The shutdown hook: the rows are up for a claim and keep their tokens.
LEMMA ReleaseView ==
  ASSUME IInv, Unlocked, rows' = [j \in Jobs |-> ReleasedRow(rows[j])], UNCHANGED held
  PROVE  KeyView!Release
  <1>0. /\ rows \in [Jobs -> Row] /\ UniqueActive(rows)
        /\ rows' \in [Jobs -> Row] /\ UniqueActive(rows')
        /\ \A j \in Jobs : /\ rows'[j].key = rows[j].key
                           /\ IsActive(rows'[j]) <=> IsActive(rows[j])
                           /\ rows[j].status # "running" => rows'[j] = rows[j]
                           /\ rows[j].status = "running" => rows'[j].status = "ready"
                           /\ \A l : TokenMatches(rows'[j], l) <=> TokenMatches(rows[j], l)
    <2>1. rows \in [Jobs -> Row] /\ UniqueActive(rows)
      BY DEF IInv, TypeOK, OneActivePerKey
    <2>2. ASSUME NEW j \in Jobs
          PROVE  /\ rows[j].status # "running" => rows'[j] = rows[j]
                 /\ rows[j].status = "running" => rows'[j].status = "ready"
      <3>1. rows[j] \in Row /\ rows'[j] = ReleasedRow(rows[j])
        BY <2>1
      <3> QED BY <3>1 DEF ReleasedRow, Row
    <2>3. UniqueActive(rows')
      BY <2>1, <2>2 DEF Unlocked, UniqueActive, IsActive
    <2> QED BY <2>1, <2>2, <2>3 DEF Unlocked, IsActive, TokenMatches
  <1>1. ASSUME NEW k \in Keys
        PROVE  StatusOf(rows', k) = IF StatusOf(rows, k) = "running" THEN "ready"
                                                                    ELSE StatusOf(rows, k)
    <2>1. CASE \E j \in Jobs : rows[j].key = k /\ IsActive(rows[j])
      <3>1. PICK j \in Jobs : rows[j].key = k /\ IsActive(rows[j])
        BY <2>1
      <3>2. StatusOf(rows, k) = rows[j].status /\ StatusOf(rows', k) = rows'[j].status
        BY <1>0, <3>1, StatusShown
      <3> QED BY <1>0, <3>1, <3>2 DEF IsActive
    <2>2. CASE ~\E j \in Jobs : rows[j].key = k /\ IsActive(rows[j])
      <3>1. StatusOf(rows, k) = "none" /\ StatusOf(rows', k) = "none"
        BY <1>0, <2>2, StatusShown
      <3> QED BY <3>1
    <2> QED BY <2>1, <2>2
  <1>2. \A k \in Keys : \A p \in BOOLEAN : FailedRows(rows', k, p) = FailedRows(rows, k, p)
    BY <1>0 DEF FailedRows
  <1>3. ASSUME NEW w \in Workers
        PROVE  SettledBy(rows', held'[w]) = SettledBy(rows, held[w])
    <2>1. \A l \in held[w] : l.job \in Jobs
      BY DEF IInv, TypeOK, Lease
    <2> QED BY <1>0, <2>1 DEF SettledBy
  <1> QED BY <1>1, <1>2, <1>3 DEF KeyView!Release

\* Every step of the queue is, by key, a step of KeyQueue or none.
LEMMA StepsActAsKeyQueue ==
  ASSUME IInv, IdleHoldsNothing, Next
  PROVE  KeyView!Next \/ UNCHANGED KeyView!vars
  <1>0. /\ TypeOK /\ DownIsIdle
        /\ \A v \in Workers : \A l \in held[v] : l \in Lease /\ l.job \in Jobs
    BY DEF IInv, TypeOK, Lease
  <1>1. ASSUME NEW k \in Keys, Enqueue(k) PROVE KeyView!Enqueue
    <2>1. Refilled(rows)
      BY SweepRefills
    <2>2. Refilled(rows')
      BY <1>0, <1>1, <2>1, InsertRefills DEF Enqueue
    <2>3. \A j \in Jobs : ~Requeued(rows', j)
      BY <1>0, <1>1, InsertPutsBack DEF Enqueue, TypeOK, Requeued
    <2> QED BY <1>1, <2>2, <2>3, EnqueueView DEF Enqueue
  <1>2. ASSUME DeleteJobs PROVE KeyView!Wipe
    BY <1>0, <1>2, WipeView DEF DeleteJobs
  <1>3. ASSUME NEW j \in Jobs, BecomesDue(j) \/ LeaseExpires(j) PROVE UNCHANGED KeyView!vars
    <2>1. \A i \in Jobs : /\ rows'[i].status = rows[i].status /\ rows'[i].key = rows[i].key
                          /\ rows'[i].attempts = rows[i].attempts
                          /\ rows'[i].started = rows[i].started /\ rows'[i].parked = rows[i].parked
      BY <1>0, <1>3 DEF BecomesDue, LeaseExpires, TypeOK, Row
    <2>2. UNCHANGED held
      BY <1>3 DEF BecomesDue, LeaseExpires
    <2> QED BY <1>0, <2>1, <2>2, QuietView
  <1>4. ASSUME UNCHANGED <<rows, held>> PROVE UNCHANGED KeyView!vars
    BY <1>0, <1>4, QuietView
  <1>5. ASSUME NEW w \in Workers, NEW batch \in SUBSET Jobs, NEW now \in ClaimTimes,
               \A j \in batch : rows[j].status = "ready", clock' = now,
               rows' = [j \in Jobs |-> IF j \in batch THEN ClaimedRow(rows[j], now) ELSE rows[j]],
               held' = [held EXCEPT ![w] =
                          held[w] \cup {LeaseOf(j, ClaimedRow(rows[j], now)) : j \in batch}]
        PROVE  KeyView!Claim(w)
    <2>1. Claimed(w, batch, now)
      <3>1. held[w] \in SUBSET held[w]
        OBVIOUS
      <3> QED BY ONLY IInv, <1>5, <3>1, ClaimFacts
    <2>2. \A j \in batch : rows'[j] = ClaimedRow(rows[j], now)
      BY <1>5
    <2>3. \A j \in batch : rows[j].parked = rows'[j].parked
      <3>1. \A j \in batch : rows[j] \in Row
        BY <1>0 DEF TypeOK
      <3> QED BY <2>2, <3>1 DEF ClaimedRow, Row
    <2> QED BY <1>5, <2>1, <2>2, <2>3, ClaimView
  <1>6. ASSUME NEW w \in Workers, NEW j \in Jobs, ClaimNext(w, j) PROVE KeyView!Claim(w)
    <2>1. rows[j].status = "ready" /\ held[w] = {}
      BY <1>6 DEF ClaimNext, NextClaims, Claimable, IdleHoldsNothing
    <2>2. PICK now \in ClaimTimes :
            /\ clock' = now
            /\ rows' = [rows EXCEPT ![j] = ClaimedRow(rows[j], now)]
            /\ held' = [held EXCEPT ![w] = {LeaseOf(j, ClaimedRow(rows[j], now))}]
      BY <1>6 DEF ClaimNext
    <2>3. rows' = [i \in Jobs |-> IF i \in {j} THEN ClaimedRow(rows[i], now) ELSE rows[i]]
      BY <1>0, <2>2 DEF TypeOK
    <2>4. held' = [held EXCEPT ![w] =
                     held[w] \cup {LeaseOf(i, ClaimedRow(rows[i], now)) : i \in {j}}]
      BY <2>1, <2>2
    <2>5. {j} \in SUBSET Jobs /\ \A i \in {j} : rows[i].status = "ready"
      BY <2>1
    <2> QED BY ONLY <1>5, w \in Workers, <2>2, <2>3, <2>4, <2>5
  <1>7. ASSUME NEW w \in Workers, ClaimBatch(w) PROVE KeyView!Claim(w)
    <2>1. PICK now \in ClaimTimes, batch \in SUBSET ClaimableExtracts(rows) :
            /\ clock' = now
            /\ rows' = [j \in Jobs |-> IF j \in batch THEN ClaimedRow(rows[j], now) ELSE rows[j]]
            /\ held' = [held EXCEPT ![w] =
                          held[w] \cup {LeaseOf(j, ClaimedRow(rows[j], now)) : j \in batch}]
      BY <1>7 DEF ClaimBatch
    <2>2. batch \in SUBSET Jobs /\ \A j \in batch : rows[j].status = "ready"
      BY <1>0 DEF ClaimableExtracts, Claimable, TypeOK
    <2> QED BY ONLY <1>5, w \in Workers, <2>1, <2>2
  <1>8. ASSUME NEW w \in Workers, StatementFails(w) PROVE KeyView!Abandon(w)
    <2>1. UNCHANGED rows /\ held' = [held EXCEPT ![w] = {}]
      BY <1>8 DEF StatementFails
    <2>2. \A v \in Workers : SettledBy(rows', held'[v]) = IF v = w THEN {} ELSE SettledBy(rows, held[v])
      BY <1>0, <2>1 DEF SettledBy, TypeOK
    <2> QED BY <2>1, <2>2 DEF KeyView!Abandon
  <1>9. ASSUME NEW w \in Workers, NEW l \in held[w], Settle(w, l)
        PROVE  KeyView!Next \/ UNCHANGED KeyView!vars
    <2>1. PICK outcome \in Outcomes : rows' = [rows EXCEPT ![l.job] = SettledRow(@, l, outcome)]
      BY <1>9 DEF Settle
    <2>2. held' = [held EXCEPT ![w] = @ \ {l}]
      BY <1>9 DEF Settle
    <2>3. Settled(w, l)
      BY <2>1, <2>2, SettleFacts
    <2>4. l.job \in Jobs /\ rows[l.job] \in Row
            /\ rows'[l.job] = SettledRow(rows[l.job], l, outcome)
      BY <1>0, <2>1 DEF TypeOK
    <2>5. CASE IsActive(rows[l.job]) /\ TokenMatches(rows[l.job], l)
      <3>1. rows'[l.job] = DoneRow(rows[l.job]) \/ rows'[l.job] = DeferredRow(rows[l.job])
              \/ \E u \in BOOLEAN : rows'[l.job] = FailedRow(rows[l.job], l, u)
        BY <2>4, <2>5 DEF SettledRow, IsActive
      <3>2. rows'[l.job].status \in {"done", "failed", "ready"}
        <4>1. l \in Lease
          BY <1>0
        <4>2. \A u \in BOOLEAN : FailedRow(rows[l.job], l, u).status \in {"failed", "ready"}
          BY <2>4, <4>1, SettlementFields
        <4>3. DoneRow(rows[l.job]).status = "done" /\ DeferredRow(rows[l.job]).status = "ready"
          BY <2>4, <4>1, SettlementFields
        <4> QED BY <3>1, <4>2, <4>3
      <3> QED BY <2>3, <2>5, <3>2, SettleView DEF KeyView!Next, KeyView!Works
    <2>6. CASE ~(IsActive(rows[l.job]) /\ TokenMatches(rows[l.job], l))
      <3>1. rows[l.job].status \in {"done", "failed"} => ~TokenMatches(rows[l.job], l)
        BY DEF IInv, SettledForGood
      <3>2. rows'[l.job] = rows[l.job]
        BY <2>4, <2>6, <3>1 DEF SettledRow, IsActive, Row, Status
      <3>3. \A j \in Jobs : rows'[j] = rows[j]
        BY <2>3, <3>2 DEF Settled
      <3>4. \A v \in Workers : /\ held'[v] \subseteq held[v]
                               /\ \A m \in held[v] \ held'[v] : m = l
        BY <1>0, <2>2 DEF TypeOK
      <3> QED BY <1>0, <2>6, <3>3, <3>4, QuietView
    <2> QED BY <2>5, <2>6
  <1>10. ASSUME RequeueFailed \/ RetryAllFailed PROVE KeyView!Requeue(TRUE) \/ KeyView!Enqueue
    <2>1. /\ rows' \in {RequeueAll(rows), RetryAll(rows)} /\ UNCHANGED held
      BY <1>10 DEF RequeueFailed, RetryAllFailed, Requeue
    <2>2. Refilled(rows')
      BY <2>1, SweepRefills
    <2>3. PutsBack(rows', TRUE) \/ PutsNoneBack(rows')
      BY <2>1, SweepPutsBack
    <2> QED BY <2>1, <2>2, <2>3, RetryView
  <1>11. ASSUME SchedulerTick PROVE KeyView!Requeue(FALSE) \/ KeyView!Enqueue
    <2> DEFINE swept == RequeueTransient(rows)
    <2>1. PICK k \in Keys : rows' \in Inserted(swept, k) /\ UNCHANGED held
      BY <1>11 DEF SchedulerTick, Requeue
    <2>2. Refilled(swept) /\ (PutsBack(swept, FALSE) \/ PutsNoneBack(swept))
      BY SweepRefills, SweepPutsBack
    <2> HIDE DEF swept
    <2>3. Refilled(rows') /\ \A j \in Jobs : Requeued(rows', j) <=> Requeued(swept, j)
      BY <1>0, <2>1, <2>2, InsertRefills, InsertPutsBack DEF Refilled
    <2>4. PutsBack(rows', FALSE) \/ PutsNoneBack(rows')
      BY <2>2, <2>3 DEF PutsBack, PutsNoneBack
    <2> QED BY <2>1, <2>3, <2>4, RetryView
  <1>12. ASSUME Start PROVE KeyView!Restart
    <2>1. Unlocked /\ UNCHANGED held /\ \A w \in Workers : held[w] = {}
      BY <1>0, <1>12, UnlockFacts DEF Start, DownIsIdle
    <2>2. \A j \in Jobs : rows[j].status # "running" => rows'[j] = rows[j]
      BY <1>12 DEF Start, RecoveredRow
    <2> QED BY <2>1, <2>2, RestartView
  <1>13. ASSUME ReleaseRunningLocks PROVE KeyView!Release
    <2>1. rows' = [j \in Jobs |-> ReleasedRow(rows[j])] /\ UNCHANGED held
      BY <1>13 DEF ReleaseRunningLocks
    <2> QED BY <2>1, UnlockFacts, ReleaseView
  <1>14. ASSUME ProcessEnds PROVE KeyView!Restart
    <2>1. rows' = rows /\ \A w \in Workers : held'[w] = {}
      BY <1>14 DEF ProcessEnds
    <2>2. Unlocked
      BY <2>1, UnlockFacts
    <2> QED BY <2>1, <2>2, RestartView
  <1>15. ASSUME NEW w \in Workers, Handle(w) PROVE UNCHANGED <<rows, held>>
    BY <1>15 DEF Handle
  <1>16. ASSUME ExternalAcquire \/ ExternalRelease PROVE UNCHANGED <<rows, held>>
    BY <1>16 DEF ExternalAcquire, ExternalRelease
  <1>17. KeyView!Next <=> \/ KeyView!Enqueue
                          \/ KeyView!Requeue(TRUE) \/ KeyView!Requeue(FALSE)
                          \/ \E w \in Workers : KeyView!Claim(w) \/ KeyView!Abandon(w)
                          \/ \E w \in Workers, k \in Keys :
                               KeyView!Finish(w, k) \/ KeyView!PutBack(w, k) \/ KeyView!Fail(w, k)
                          \/ KeyView!Restart \/ KeyView!Wipe \/ KeyView!Release
    BY DEF KeyView!Next, KeyView!Works
  <1>18. ASSUME NEW w \in Workers, WorkerStep(w) PROVE KeyView!Next \/ UNCHANGED KeyView!vars
    BY <1>4, <1>6, <1>7, <1>8, <1>9, <1>15, <1>17, <1>18 DEF WorkerStep
  <1> QED BY <1>1, <1>2, <1>3, <1>4, <1>10, <1>11, <1>12, <1>13, <1>14, <1>16, <1>17, <1>18
       DEF Next

\* The queue implements KeyQueue: whatever its producers, workers, retries, failed
\* statements, shutdowns, crashes and wipes do, by key they only do what KeyQueue
\* allows.  A key gets one active row; a claim takes a ready row, and with it what
\* another worker might still have done to it; a settlement is the owner's and happens
\* once; a bulk requeue takes every row it is for or, stopped by the index, none
\* (store.rs:469-476).
THEOREM ImplementsKeyQueue == Spec => ActsAsKeyQueue
  <1>1. Init => KeyView!Init /\ IdleHoldsNothing
    <2> SUFFICES ASSUME Init PROVE KeyView!Init /\ IdleHoldsNothing
      OBVIOUS
    <2>1. \A j \in Jobs : rows[j].status = "absent"
      BY DEF Init, AbsentRow
    <2>2. \A k \in Keys : StatusOf(rows, k) = "none"
      BY <2>1 DEF StatusOf, ActiveAs
    <2>3. \A k \in Keys : \A p \in BOOLEAN : FailedRows(rows, k, p) = {}
      BY <2>1 DEF FailedRows
    <2>4. \A w \in Workers : SettledBy(rows, held[w]) = {}
      BY DEF Init, SettledBy
    <2> QED BY <2>2, <2>3, <2>4
         DEF KeyView!Init, KeyView!NoneOwned, KeyView!NoneFailed, Init, IdleHoldsNothing
  <1>2. IInv /\ IdleHoldsNothing /\ [Next]_vars => [KeyView!Next]_(KeyView!vars)
    <2>1. IInv /\ UNCHANGED vars => UNCHANGED KeyView!vars
      <3> SUFFICES ASSUME IInv, UNCHANGED vars PROVE UNCHANGED KeyView!vars
        OBVIOUS
      <3>1. \A w \in Workers : \A l \in held[w] : l.job \in Jobs
        BY DEF IInv, TypeOK, Lease
      <3> QED BY <3>1, QuietView DEF vars
    <2> QED BY <2>1, StepsActAsKeyQueue
  <1> QED BY <1>1, <1>2, IdleStep, Invariant, PTL DEF Spec, ActsAsKeyQueue, KeyView!Spec

\* What KeyQueue's users rely on holds of the table: one worker at a time can settle the
\* row of a key, and a row that somebody can settle is active.
THEOREM OneOwnerPerKey == Spec => []KeyView!OneOwner
  <1>1. ASSUME IInv PROVE KeyView!OneOwner
    <2>0. SUFFICES ASSUME NEW v \in Workers, NEW w \in Workers, NEW k,
                          k \in SettledBy(rows, held[v]), k \in SettledBy(rows, held[w])
                   PROVE  k \in Keys /\ v = w /\ StatusOf(rows, k) # "none"
      BY DEF KeyView!OneOwner
    <2>1. PICK l \in held[v], m \in held[w] :
            /\ rows[l.job].key = k /\ IsActive(rows[l.job]) /\ TokenMatches(rows[l.job], l)
            /\ rows[m.job].key = k /\ IsActive(rows[m.job]) /\ TokenMatches(rows[m.job], m)
      BY <2>0 DEF SettledBy
    <2>2. k \in Keys /\ l.job \in Jobs /\ m.job \in Jobs /\ rows \in [Jobs -> Row]
      BY <1>1, <2>0 DEF IInv, TypeOK, Lease, SettledBy
    <2>3. l.job = m.job
      BY <1>1, <2>1, <2>2 DEF IInv, OneActivePerKey, UniqueActive
    <2>4. v = w
      BY <1>1, <2>1, <2>3 DEF IInv, TokensDistinct, TokenMatches
    <2>5. StatusOf(rows, k) # "none"
      BY <1>1, <2>1, <2>2, StatusShown DEF IInv, OneActivePerKey, IsActive
    <2> QED BY <2>2, <2>4, <2>5
  <1> QED BY <1>1, Invariant, PTL

=============================================================================
