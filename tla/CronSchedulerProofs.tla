------------------------ MODULE CronSchedulerProofs -------------------------
(* Proofs about CronScheduler, for every set of jobs, schedules and editors *)
(* and every bound.                                                         *)
EXTENDS CronScheduler, TLAPS

USE DEF bounds, table, Writers, Schedules

-----------------------------------------------------------------------------
(* Types.                                                                  *)

LEMMA InitType == Init => TypeOK
  BY DEF Init, TypeOK, Present, Stages

\* What a statement makes of next_run keeps `due' and `older' relations of rows.
LEMMA NextRunType ==
  ASSUME TypeOK, NEW j \in Jobs, NEW s,
         NextRun(j, s)
  PROVE  /\ due' \subseteq due \cup {j}
         /\ older' \subseteq due' \X due'
  <1> USE DEF TypeOK, Without
  <1>1. CASE InFuture(j)
    BY <1>1 DEF InFuture
  <1>2. CASE SomewhereInPast(j)
    BY <1>2 DEF SomewhereInPast, InPast
  <1> QED  BY <1>1, <1>2 DEF NextRun

LEMMA MovedType ==
  ASSUME TypeOK, NEW j
  PROVE  /\ Moved(j) \in [Writers -> Edit \cup {None}]
         /\ \A w \in Writers :
              /\ Moved(j)[w] = None <=> edit[w] = None
              /\ edit[w] # None => /\ Moved(j)[w].job = edit[w].job
                                   /\ Moved(j)[w].row = edit[w].row
  <1>1. \A w \in Writers : edit[w] # None =>
          /\ edit[w] \in Edit
          /\ [edit[w] EXCEPT !.moved = TRUE] \in Edit
          /\ [edit[w] EXCEPT !.moved = TRUE].job = edit[w].job
          /\ [edit[w] EXCEPT !.moved = TRUE].row = edit[w].row
    BY DEF TypeOK, Edit
  <1> QED  BY <1>1, NoneAssumption DEF TypeOK, Moved

LEMMA WrittenType ==
  ASSUME TypeOK, NEW w \in Writers, edit[w] # None, Written(w)
  PROVE  /\ rows' \in [Jobs -> Row \cup {None}]
         /\ due' \in SUBSET {j \in Jobs : rows'[j] # None} /\ older' \in SUBSET (due' \X due')
         /\ edit' \in [Writers -> Edit \cup {None}]
         /\ fires' \in [Jobs -> Nat]
  <1> DEFINE u == edit[w]
  <1>1. u \in Edit /\ u.job \in Jobs /\ u.row \in Row
    BY DEF TypeOK, Edit
  <1>2. CASE u.job \notin Present
    BY <1>2 DEF Written, TypeOK, Present
  <1>3. CASE u.job \in Present
    <2>1. rows' = [rows EXCEPT ![u.job] = u.row]
      BY <1>3 DEF Written
    <2>2. due' \subseteq due \cup {u.job} /\ older' \subseteq due' \X due'
      <3>1. CASE NextRun(u.job, u.row.of)
        BY <3>1, <1>1, NextRunType
      <3>2. CASE SomewhereInPast(u.job) \/ InFuture(u.job)
        BY <3>2, <1>1 DEF SomewhereInPast, InFuture, InPast, Without, TypeOK
      <3>3. CASE UNCHANGED <<due, older>>
        BY <3>3 DEF TypeOK
      <3> QED  BY <1>3, <3>1, <3>2, <3>3 DEF Written, WritesNextRun
    <2>3. rows' \in [Jobs -> Row \cup {None}]
      BY <2>1, <1>1 DEF TypeOK
    <2>4. due' \in SUBSET {j \in Jobs : rows'[j] # None}
      BY <2>1, <2>2, <1>1, <1>3, NoneAssumption DEF TypeOK, Present
    <2>5. edit' \in [Writers -> Edit \cup {None}]
      BY <1>3, MovedType DEF Written, TypeOK
    <2>6. fires' \in [Jobs -> Nat]
      BY <1>3, <1>1 DEF Written, TypeOK
    <2> QED  BY <2>2, <2>3, <2>4, <2>5, <2>6
  <1> QED  BY <1>2, <1>3

\* A run whose job is being disabled owns the scheduler's call of update_job, and one
\* that is to be rescheduled was not read as a one-shot job.
Settling ==
  \A j \in Jobs :
    /\ batch[j] = "writing" => /\ edit[Scheduler] # None /\ edit[Scheduler].job = j
                               /\ ~edit[Scheduler].row.enabled
    /\ batch[j] = "reschedule" => ~OneShot(snap[j])

LEMMA NextType == TypeOK /\ Settling /\ [Next]_vars => TypeOK'
  <1> SUFFICES ASSUME TypeOK, Settling, [Next]_vars PROVE TypeOK'
    OBVIOUS
  <1> USE DEF TypeOK
  <1>1. CASE Tick
    <2>1. PICK T \in SUBSET Jobs :
            /\ IsPolled(T)
            /\ batch' = [j \in Jobs |-> IF j \in T THEN "queued" ELSE "out"]
            /\ snap' = [j \in Jobs |-> IF j \in T THEN rows[j] ELSE None]
      BY <1>1 DEF Tick, AsRead
    <2>2. T \subseteq Present
      BY <2>1 DEF IsPolled, Runnable
    <2> QED  BY <1>1, <2>1, <2>2 DEF Tick, Stages, Present
  <1>2. CASE Dies
    BY <1>2 DEF Dies, Present, Stages
  <1>3. ASSUME NEW j \in Jobs, Elapse(j) PROVE TypeOK'
    BY <1>3 DEF Elapse, InPast, Without, Present
  <1>4. ASSUME NEW j \in Jobs, Start(j) PROVE TypeOK'
    BY <1>4 DEF Start, Stages, Present
  <1>5. ASSUME NEW j \in Jobs, Ends(j) PROVE TypeOK'
    BY <1>5 DEF Ends, AfterRun, Stages, Present
  <1>6. ASSUME NEW j \in Jobs, Deleted(j), UNCHANGED <<edit, edits, errors, crashes>>,
               Leaves(j) \/ UNCHANGED <<batch, snap>>
        PROVE  TypeOK'
    BY <1>6 DEF Deleted, Leaves, Without, Stages, Present
  <1>7. ASSUME NEW j \in Jobs, DisableOneShot(j) PROVE TypeOK'
    <2>1. CASE /\ j \in Present
               /\ edit' = [edit EXCEPT ![Scheduler] =
                    [job |-> j, row |-> [rows[j] EXCEPT !.enabled = FALSE], new |-> FALSE,
                     wasDue |-> j \in due, moved |-> FALSE]]
               /\ batch' = [batch EXCEPT ![j] = "writing"] /\ UNCHANGED snap
      <3>1. rows[j] \in Row /\ [rows[j] EXCEPT !.enabled = FALSE] \in Row
        BY <2>1 DEF Present, Row
      <3>2. edit' \in [Writers -> Edit \cup {None}]
        BY <3>1, <2>1 DEF Edit
      <3> QED  BY <3>2, <1>7, <2>1 DEF DisableOneShot, Stages, Present
    <2>2. CASE Leaves(j) /\ UNCHANGED edit
      BY <1>7, <2>2 DEF DisableOneShot, Leaves, Stages, Present
    <2> QED  BY <1>7, <2>1, <2>2 DEF DisableOneShot
  <1>8. ASSUME NEW j \in Jobs, Reschedule(j) PROVE TypeOK'
    <2>1. batch' \in [Jobs -> Stages] /\ snap' \in [Jobs -> Row \cup {None}]
      BY <1>8 DEF Reschedule, Leaves, Stages
    <2>2. CASE j \notin Present
      BY <1>8, <2>1, <2>2 DEF Reschedule, Leaves, Present
    <2>3. CASE j \in Present
      <3>1. edit' \in [Writers -> Edit \cup {None}]
        BY <1>8, <2>3, MovedType DEF Reschedule
      <3>2. due' \subseteq due \cup {j} /\ older' \subseteq due' \X due'
        BY <1>8, <2>3, NextRunType DEF Reschedule
      <3>3. snap[j] \in Row /\ rows[j] \in Row
        BY <1>8, <2>3 DEF Reschedule, Present
      <3>4. rows' = [rows EXCEPT ![j].of = snap[j].sched]
        BY <1>8, <2>3 DEF Reschedule
      <3>5. rows' \in [Jobs -> Row \cup {None}] /\ rows'[j] # None
        BY <3>3, <3>4, NoneAssumption DEF Row
      <3>6. due' \in SUBSET {k \in Jobs : rows'[k] # None}
        BY <3>2, <3>4, <3>5 DEF Present
      <3> QED  BY <1>8, <2>1, <2>3, <3>1, <3>2, <3>5, <3>6 DEF Reschedule, Leaves, Present
    <2> QED  BY <2>2, <2>3
  <1>9. ASSUME NEW j \in Jobs, SettleFails(j) PROVE TypeOK'
    BY <1>9 DEF SettleFails, Leaves, Stages, Present
  <1>10. ASSUME NEW j \in Jobs, NEW s \in Schedules, NEW once \in BOOLEAN, AddJob(j, s, once)
         PROVE  TypeOK'
    <2>1. [enabled |-> TRUE, once |-> once, sched |-> s, of |-> s] \in Row
      BY DEF Row
    <2>2. rows' \in [Jobs -> Row \cup {None}]
      BY <1>10, <2>1 DEF AddJob
    <2>3. \A k \in Jobs : rows[k] # None => rows'[k] # None
      BY <1>10, <2>1, NoneAssumption DEF AddJob
    <2> QED  BY <1>10, <2>2, <2>3 DEF AddJob, Present
  <1>11. ASSUME NEW j \in Jobs, NEW e \in Editors, BeginUpdate(e, j) PROVE TypeOK'
    <2>1. PICK new \in BOOLEAN, r \in Row :
            edit' = [edit EXCEPT ![e] = [job |-> j, row |-> r, new |-> new,
                                         wasDue |-> j \in due, moved |-> FALSE]]
      <3>1. Patched(j) \subseteq Row /\ Renewed(j) \subseteq Row
        BY DEF Patched, Renewed
      <3> QED  BY <1>11, <3>1 DEF BeginUpdate
    <2>2. edit' \in [Writers -> Edit \cup {None}]
      BY <2>1 DEF Edit
    <2> QED  BY <1>11, <2>2 DEF BeginUpdate, Present
  <1>12. ASSUME NEW e \in Editors, Update(e) PROVE TypeOK'
    BY <1>12, WrittenType DEF Update, Present
  <1>13. ASSUME NEW j \in Jobs, DisableWrites(j) PROVE TypeOK'
    BY <1>13, WrittenType DEF DisableWrites, Settling, Leaves, Stages, Present
  <1>14. CASE UNCHANGED vars
    BY <1>14 DEF vars, Present
  <1>15. ASSUME NEW j \in Jobs, RemoveOneShot(j) \/ RemoveJob(j) PROVE TypeOK'
    BY <1>6, <1>15 DEF RemoveOneShot, RemoveJob
  <1> QED  BY <1>1, <1>2, <1>3, <1>4, <1>5, <1>7, <1>8, <1>9, <1>10, <1>11, <1>12, <1>13,
              <1>14, <1>15 DEF Next, Settles

LEMMA NextSettling == TypeOK /\ Settling /\ [Next]_vars => Settling'
  <1> SUFFICES ASSUME TypeOK, Settling, [Next]_vars PROVE Settling'
    OBVIOUS
  <1> USE DEF Settling
  \* The batch stays, and the scheduler's own call keeps its job and row.
  <1>1. ASSUME UNCHANGED <<batch, snap>>,
               edit[Scheduler] # None =>
                 /\ edit'[Scheduler] # None /\ edit'[Scheduler].job = edit[Scheduler].job
                 /\ edit'[Scheduler].row = edit[Scheduler].row
        PROVE  Settling'
    BY <1>1 DEF OneShot
  \* A job of the batch leaves it, and another one's call stays as it is.
  <1>2. ASSUME NEW j \in Jobs, Leaves(j),
               \/ batch[j] = "writing"
               \/ /\ edit[Scheduler] # None => edit'[Scheduler] # None
                  /\ edit[Scheduler] # None =>
                       /\ edit'[Scheduler].job = edit[Scheduler].job
                       /\ edit'[Scheduler].row = edit[Scheduler].row
        PROVE  Settling'
    BY <1>2 DEF Leaves, OneShot, TypeOK
  <1>3. CASE Tick
    BY <1>3 DEF Tick, OneShot
  <1>4. CASE Dies
    BY <1>4 DEF Dies, OneShot
  <1>5. ASSUME NEW j \in Jobs,
               \/ Elapse(j) \/ RemoveJob(j)
               \/ \E s \in Schedules, once \in BOOLEAN : AddJob(j, s, once)
        PROVE  Settling'
    BY <1>1, <1>5 DEF Elapse, RemoveJob, AddJob
  <1>6. ASSUME NEW j \in Jobs, Start(j) PROVE Settling'
    BY <1>6 DEF Start, OneShot, TypeOK
  <1>7. ASSUME NEW j \in Jobs, Ends(j) PROVE Settling'
    BY <1>7 DEF Ends, AfterRun, OneShot, TypeOK
  <1>8. ASSUME NEW j \in Jobs, RemoveOneShot(j) PROVE Settling'
    BY <1>2, <1>8 DEF RemoveOneShot
  <1>9. ASSUME NEW j \in Jobs, DisableOneShot(j) PROVE Settling'
    <2>1. CASE /\ j \in Present /\ edit[Scheduler] = None
               /\ edit' = [edit EXCEPT ![Scheduler] =
                    [job |-> j, row |-> [rows[j] EXCEPT !.enabled = FALSE], new |-> FALSE,
                     wasDue |-> j \in due, moved |-> FALSE]]
               /\ batch' = [batch EXCEPT ![j] = "writing"] /\ UNCHANGED snap
      <3>0. rows[j] \in Row
        BY <2>1 DEF Present, TypeOK
      <3>1. [rows[j] EXCEPT !.enabled = FALSE] \in Row
            /\ ~[rows[j] EXCEPT !.enabled = FALSE].enabled
        BY <3>0 DEF Row
      <3>2. edit'[Scheduler] \in Edit /\ edit'[Scheduler].job = j
            /\ edit'[Scheduler].row = [rows[j] EXCEPT !.enabled = FALSE]
        BY <2>1, <3>1 DEF Edit, TypeOK
      <3>3. \A k \in Jobs \ {j} : batch'[k] # "writing"
        BY <2>1 DEF TypeOK
      <3> QED  BY <2>1, <3>1, <3>2, <3>3, NoneAssumption DEF OneShot, TypeOK
    <2>2. CASE Leaves(j) /\ UNCHANGED edit
      BY <1>2, <2>2
    <2> QED  BY <1>9, <2>1, <2>2 DEF DisableOneShot
  <1>10. ASSUME NEW j \in Jobs, Reschedule(j) PROVE Settling'
    BY <1>2, <1>10, MovedType DEF Reschedule
  <1>11. ASSUME NEW j \in Jobs, SettleFails(j) PROVE Settling'
    BY <1>2, <1>11 DEF SettleFails
  <1>12. ASSUME NEW j \in Jobs, NEW e \in Editors, BeginUpdate(e, j) PROVE Settling'
    <2>1. edit'[Scheduler] = edit[Scheduler]
      BY <1>12, CronAssumption DEF BeginUpdate, TypeOK
    <2> QED  BY <1>1, <1>12, <2>1 DEF BeginUpdate
  <1>13. ASSUME NEW e \in Editors, Update(e) PROVE Settling'
    <2>1. edit[Scheduler] # None =>
            /\ edit'[Scheduler] # None /\ edit'[Scheduler].job = edit[Scheduler].job
            /\ edit'[Scheduler].row = edit[Scheduler].row
      BY <1>13, CronAssumption, MovedType DEF Update, Written, TypeOK
    <2> QED  BY <1>1, <1>13, <2>1 DEF Update
  <1>14. ASSUME NEW j \in Jobs, DisableWrites(j) PROVE Settling'
    BY <1>2, <1>14 DEF DisableWrites
  <1>15. CASE UNCHANGED vars
    BY <1>1, <1>15 DEF vars
  <1> QED  BY <1>3, <1>4, <1>5, <1>6, <1>7, <1>8, <1>9, <1>10, <1>11, <1>12, <1>13,
              <1>14, <1>15 DEF Next, Settles

-----------------------------------------------------------------------------
(* How often a one-shot job fires.                                         *)

\* An enabled one-shot job whose run is not under way, and one that is queued, has a
\* firing left: each firing but one has its disturbance.
Fired ==
  \A j \in Jobs :
    /\ j \in Present => j \in used
    /\ j \notin Present => fires[j] = 0
    /\ j \in Present /\ OneShot(rows[j]) =>
         /\ fires[j] <= 1 + Disturbances
         /\ rows[j].enabled /\ ~(j \in InFlight /\ Unchanged(j)) => fires[j] <= Disturbances
         /\ batch[j] = "queued" /\ Unchanged(j) => fires[j] <= Disturbances

LEMMA NextFired == TypeOK /\ Settling /\ Fired /\ [Next]_vars => Fired'
  <1> SUFFICES ASSUME TypeOK, Settling, Fired, [Next]_vars PROVE Fired'
    OBVIOUS
  <1>n. /\ edits \in Nat /\ errors \in Nat /\ crashes \in Nat /\ Disturbances \in Nat
        /\ fires \in [Jobs -> Nat]
    BY DEF TypeOK, Disturbances
  \* One more disturbance pays for any row.
  <1>1. ASSUME Disturbances' = Disturbances + 1,
               \A k \in Jobs : /\ k \in Present' <=> k \in Present
                               /\ fires'[k] = 0 \/ /\ fires'[k] = fires[k]
                                                   /\ OneShot(rows[k])' => OneShot(rows[k]),
               UNCHANGED used
        PROVE  Fired'
    BY <1>n, <1>1 DEF Fired
  <1>2. CASE Tick
    <2>1. PICK T \in SUBSET Jobs :
            /\ IsPolled(T)
            /\ batch' = [j \in Jobs |-> IF j \in T THEN "queued" ELSE "out"]
      BY <1>2 DEF Tick
    <2>2. \A j \in Jobs : batch[j] = "out" /\ (batch'[j] = "queued" => rows[j].enabled)
      BY <1>2, <2>1 DEF Tick, IsPolled, Runnable
    <2>3. Disturbances' = Disturbances
      BY <1>2 DEF Tick, Disturbances
    <2> QED  BY <1>n, <1>2, <2>2, <2>3 DEF Tick, Fired, Present, OneShot, InFlight
  <1>3. CASE Dies
    BY <1>n, <1>1, <1>3 DEF Dies, Disturbances, Present, OneShot
  <1>4. ASSUME NEW j \in Jobs, Elapse(j) PROVE Fired'
    BY <1>4 DEF Elapse, Fired, Disturbances, Present, OneShot, InFlight, Unchanged
  <1>5. ASSUME NEW j \in Jobs, Start(j) PROVE Fired'
    BY <1>n, <1>5 DEF Start, Fired, Disturbances, Present, OneShot, InFlight, Unchanged, TypeOK
  <1>6. ASSUME NEW j \in Jobs, Ends(j) PROVE Fired'
    BY <1>6 DEF Ends, AfterRun, Fired, Disturbances, Present, OneShot, InFlight, Unchanged, TypeOK
  <1>7. ASSUME NEW j \in Jobs, Deleted(j), UNCHANGED bounds,
               Leaves(j) \/ UNCHANGED <<batch, snap>>
        PROVE  Fired'
    BY <1>n, <1>7 DEF Deleted, Leaves, Fired, Disturbances, Present, OneShot, InFlight,
                      Unchanged, TypeOK
  <1>8. ASSUME NEW j \in Jobs, DisableOneShot(j) PROVE Fired'
    BY <1>8 DEF DisableOneShot, Leaves, Fired, Disturbances, Present, OneShot, InFlight,
                Unchanged, TypeOK
  <1>9. ASSUME NEW j \in Jobs, Reschedule(j) PROVE Fired'
    <2>1. \A k \in Jobs :
            /\ k \in Present' <=> k \in Present
            /\ k \in Present => /\ rows'[k].sched = rows[k].sched
                               /\ rows'[k].once = rows[k].once
                               /\ rows'[k].enabled = rows[k].enabled
      <3>1. CASE j \in Present
        <4>1. rows[j] \in Row /\ rows' = [rows EXCEPT ![j].of = snap[j].sched]
          BY <1>9, <3>1 DEF Reschedule, Present, TypeOK
        <4>2. rows'[j] = [rows[j] EXCEPT !.of = snap[j].sched]
          BY <4>1 DEF TypeOK
        <4>3. /\ rows'[j].sched = rows[j].sched /\ rows'[j].once = rows[j].once
              /\ rows'[j].enabled = rows[j].enabled
          BY <4>1, <4>2 DEF Row
        <4>4. snap[j] \in Row
          BY <1>9 DEF Reschedule, TypeOK
        <4>5. rows'[j] \in Row
          BY <4>1, <4>2, <4>4 DEF Row
        <4> QED  BY <3>1, <4>1, <4>3, <4>5, NoneAssumption DEF Present, TypeOK
      <3>2. CASE j \notin Present
        BY <1>9, <3>2 DEF Reschedule, Present
      <3> QED  BY <3>1, <3>2
    <2>2. j \in Present /\ OneShot(rows[j]) => ~Unchanged(j)
      BY <1>9 DEF Reschedule, Settling, Unchanged, OneShot
    <2> QED  BY <1>n, <1>9, <2>1, <2>2 DEF Reschedule, Leaves, Fired, Disturbances, OneShot,
               InFlight, Unchanged, TypeOK
  <1>10. ASSUME NEW j \in Jobs, SettleFails(j) PROVE Fired'
    BY <1>n, <1>1, <1>10 DEF SettleFails, Disturbances, Present, OneShot
  <1>11. ASSUME NEW j \in Jobs, NEW s \in Schedules, NEW once \in BOOLEAN, AddJob(j, s, once)
         PROVE  Fired'
    BY <1>n, <1>11 DEF AddJob, Fired, Disturbances, Present, OneShot, InFlight, Unchanged, TypeOK
  <1>12. ASSUME NEW j \in Jobs, NEW e \in Editors, BeginUpdate(e, j) PROVE Fired'
    BY <1>12 DEF BeginUpdate, Fired, Disturbances, Present, OneShot, InFlight, Unchanged
  \* What the statement of update_job does to the row, and to the history.
  <1>13. ASSUME NEW w \in Writers, edit[w] # None, Written(w)
         PROVE  /\ edit[w].job \in Jobs
                /\ \A k \in Jobs :
                     /\ k \in Present' <=> k \in Present
                     /\ rows'[k] = IF k = edit[w].job /\ k \in Present THEN edit[w].row ELSE rows[k]
                     /\ fires'[k] = 0 \/ /\ fires'[k] = fires[k]
                                         /\ OneShot(rows[k])' => OneShot(rows[k])
    <2> DEFINE u == edit[w]
    <2>1. u \in Edit /\ u.job \in Jobs /\ u.row \in Row
      BY <1>13 DEF TypeOK, Edit
    <2>2. CASE u.job \notin Present
      <3>1. rows' = rows /\ fires' = fires
        BY <1>13, <2>2 DEF Written
      <3>2. ASSUME NEW k \in Jobs
            PROVE  /\ k \in Present' <=> k \in Present
                   /\ OneShot(rows[k])' => OneShot(rows[k])
        BY <3>1 DEF Present, OneShot
      <3> QED  BY <2>1, <2>2, <3>1, <3>2
    <2>3. CASE u.job \in Present
      <3>1. /\ rows' = [rows EXCEPT ![u.job] = u.row]
            /\ fires' = [fires EXCEPT ![u.job] =
                 IF u.row.sched = rows[u.job].sched /\ u.row.once = rows[u.job].once THEN @ ELSE 0]
        BY <1>13, <2>3 DEF Written
      <3>2. ASSUME NEW k \in Jobs, k # u.job
            PROVE  rows'[k] = rows[k] /\ fires'[k] = fires[k]
        BY <3>1, <3>2, <1>n DEF TypeOK
      <3>3. rows'[u.job] = u.row
        BY <2>1, <3>1 DEF TypeOK
      <3>4. \/ fires'[u.job] = 0
            \/ /\ fires'[u.job] = fires[u.job]
               /\ u.row.sched = rows[u.job].sched /\ u.row.once = rows[u.job].once
        BY <1>n, <2>1, <3>1
      <3>5. ASSUME NEW k \in Jobs
            PROVE  /\ k \in Present' <=> k \in Present
                   /\ rows'[k] = IF k = u.job /\ k \in Present THEN u.row ELSE rows[k]
        BY <2>1, <2>3, <3>2, <3>3, NoneAssumption DEF Present
      <3>6. ASSUME NEW k \in Jobs
            PROVE  fires'[k] = 0 \/ /\ fires'[k] = fires[k]
                                    /\ OneShot(rows[k])' => OneShot(rows[k])
        BY <3>2, <3>3, <3>4 DEF OneShot
      <3> QED  BY <2>1, <3>5, <3>6
    <2> QED  BY <2>2, <2>3
  <1>14. ASSUME NEW j \in Jobs, DisableWrites(j) PROVE Fired'
    <2>1. /\ edit[Scheduler] # None /\ edit[Scheduler].job = j /\ ~edit[Scheduler].row.enabled
          /\ Written(Scheduler)
      BY <1>14 DEF DisableWrites, Settling
    <2>2. \A k \in Jobs :
            /\ k \in Present' <=> k \in Present
            /\ rows'[k] = IF k = j /\ k \in Present THEN edit[Scheduler].row ELSE rows[k]
            /\ fires'[k] = 0 \/ /\ fires'[k] = fires[k]
                                /\ OneShot(rows[k])' => OneShot(rows[k])
      BY <1>13, <2>1
    <2>3. Disturbances' = Disturbances /\ UNCHANGED used
      BY <1>14 DEF DisableWrites, Disturbances
    <2>4. /\ batch'[j] = "out"
          /\ \A k \in Jobs \ {j} : batch'[k] = batch[k] /\ snap'[k] = snap[k]
      BY <1>14 DEF DisableWrites, Leaves, TypeOK
    <2>5. fires' \in [Jobs -> Nat]
      BY <2>1, WrittenType
    <2>6. ASSUME NEW k \in Jobs \ {j} PROVE Fired!(k)'
      BY <1>n, <2>2, <2>3, <2>4, <2>5, <2>6 DEF Fired, OneShot, InFlight, Unchanged
    <2>7. Fired!(j)'
      BY <1>n, <2>1, <2>2, <2>3, <2>4, <2>5 DEF Fired, OneShot, InFlight, Unchanged
    <2> QED  BY <2>6, <2>7 DEF Fired
  <1>15. ASSUME NEW e \in Editors, Update(e) PROVE Fired'
    <2>1. Disturbances' = Disturbances + 1 /\ UNCHANGED used
      BY <1>n, <1>15 DEF Update, Disturbances
    <2> QED  BY <1>1, <1>13, <1>15, <2>1 DEF Update
  <1>16. CASE UNCHANGED vars
    BY <1>16 DEF vars, Fired, Disturbances, Present, OneShot, InFlight, Unchanged
  <1> QED  BY <1>2, <1>3, <1>4, <1>5, <1>6, <1>7, <1>8, <1>9, <1>10, <1>11, <1>12,
              <1>14, <1>15, <1>16 DEF Next, Settles, RemoveOneShot, RemoveJob

-----------------------------------------------------------------------------

\* In every reachable state the table, the batch and the calls of update_job fit
\* together: only rows there are are due, a job of the batch has its snapshot.
THEOREM TypeCorrect == Spec => []TypeOK
  <1>1. Init => TypeOK /\ Settling
    BY InitType DEF Init, Settling
  <1>2. TypeOK /\ Settling /\ [Next]_vars => TypeOK' /\ Settling'
    BY NextType, NextSettling
  <1> QED  BY <1>1, <1>2, PTL DEF Spec

\* A job to be deleted after its run fires once, and once more at most for every edit,
\* failed settlement and crash.
THEOREM FiresOnce == Spec => []OneShotFiresOnce
  <1> DEFINE Inv == TypeOK /\ Settling /\ Fired
  <1>1. Init => Inv
    BY InitType DEF Init, Settling, Fired, Present
  <1>2. Inv /\ [Next]_vars => Inv'
    BY NextType, NextSettling, NextFired
  <1>3. Inv => OneShotFiresOnce
    BY DEF Fired, OneShotFiresOnce, Present
  <1> QED  BY <1>1, <1>2, <1>3, PTL DEF Spec
-----------------------------------------------------------------------------
(* The line of the due jobs.                                               *)

\* What gets ahead of j in this step.
Ahead(i, j) == <<i, j>> \in older' \ older

LEMMA WithoutIs ==
  ASSUME TypeOK, NEW k
  PROVE  \A i, j : <<i, j>> \in Without(k) <=> <<i, j>> \in older /\ i # k /\ j # k
  BY DEF Without

\* Leaving the line.
LEMMA LeavesLine ==
  ASSUME TypeOK, DueInLine, NEW k \in Jobs, InFuture(k)
  PROVE  DueInLine' /\ \A i, j : ~Ahead(i, j)
  <1>1. due' = due \ {k} /\ \A i, j : <<i, j>> \in older' <=> <<i, j>> \in older /\ i # k /\ j # k
    BY WithoutIs DEF InFuture
  <1> QED  BY <1>1 DEF DueInLine, Ahead

\* Entering it behind some of its jobs, and all before these.
LEMMA EntersLine ==
  ASSUME TypeOK, DueInLine, NEW k \in Jobs \ due, NEW ahead \in SUBSET due,
         \A p \in older : p[2] \in ahead => p[1] \in ahead,
         InPast(k, ahead)
  PROVE  DueInLine' /\ \A i \in Jobs, j \in due : Ahead(i, j) => i = k /\ j \notin ahead
  <1>1. \A i, j \in due : <<i, j>> \in older /\ j \in ahead => i \in ahead
    OBVIOUS
  <1>2. \A i, j : <<i, j>> \in older => i \in due /\ j \in due
    BY DEF TypeOK
  <1>3. due' = due \cup {k}
    BY DEF InPast
  <1>4. \A i, j : <<i, j>> \in older' <=>
                    \/ <<i, j>> \in older
                    \/ i \in ahead /\ j = k
                    \/ i = k /\ j \in due \ ahead
    BY <1>2, WithoutIs DEF InPast
  <1>5. \A i, j \in due' : i = j \/ <<i, j>> \in older' \/ <<j, i>> \in older'
    BY <1>3, <1>4 DEF DueInLine
  <1>6. \A i, j \in due' : ~(<<i, j>> \in older' /\ <<j, i>> \in older')
    BY <1>2, <1>3, <1>4 DEF DueInLine
  <1>7. ASSUME NEW h \in due', NEW i \in due', NEW j \in due',
               <<h, i>> \in older', <<i, j>> \in older'
        PROVE  <<h, j>> \in older'
    <2>1. CASE h \in due /\ i \in due /\ j \in due
      BY <1>4, <1>7, <2>1 DEF DueInLine
    <2>2. CASE h = k
      <3>1. i \in due \ ahead
        BY <1>2, <1>4, <1>7, <2>2
      <3>2. j \in due /\ <<i, j>> \in older
        BY <1>2, <1>4, <1>7, <3>1
      <3>3. j \notin ahead
        BY <1>1, <3>1, <3>2
      <3> QED  BY <1>4, <2>2, <3>2, <3>3
    <2>3. CASE i = k
      <3>1. h \in ahead /\ j \in due \ ahead
        BY <1>2, <1>4, <1>7, <2>3
      <3>2. h # j /\ <<j, h>> \notin older
        BY <1>1, <3>1
      <3> QED  BY <1>4, <3>1, <3>2 DEF DueInLine
    <2>4. CASE j = k
      <3>1. i \in ahead
        BY <1>2, <1>4, <1>7, <2>4
      <3>2. h \in due /\ <<h, i>> \in older
        BY <1>2, <1>4, <1>7, <3>1
      <3>3. h \in ahead
        BY <1>1, <3>1, <3>2
      <3> QED  BY <1>4, <2>4, <3>3
    <2> QED  BY <1>3, <2>1, <2>2, <2>3, <2>4
  <1>8. DueInLine'
    BY <1>5, <1>6, <1>7 DEF DueInLine
  <1> QED  BY <1>4, <1>8 DEF Ahead

\* Getting a next_run that has passed already.
LEMMA JoinsLine ==
  ASSUME TypeOK, DueInLine, NEW k \in Jobs, SomewhereInPast(k)
  PROVE  DueInLine' /\ \A i \in Jobs, j \in due : Ahead(i, j) => i = k /\ k \notin due
  <1>1. CASE UNCHANGED <<due, older>>
    BY <1>1 DEF DueInLine, Ahead
  <1>2. ASSUME k \notin due, NEW ahead \in SUBSET due,
               \A p \in older : p[2] \in ahead => p[1] \in ahead, InPast(k, ahead)
        PROVE  DueInLine' /\ \A i \in Jobs, j \in due : Ahead(i, j) => i = k /\ k \notin due
    BY <1>2, EntersLine
  <1> QED  BY <1>1, <1>2 DEF SomewhereInPast

\* A call of update_job ends.
LEMMA WritesLine ==
  ASSUME TypeOK, DueInLine, NEW w \in Writers, edit[w] # None, Written(w)
  PROVE  /\ DueInLine' /\ edit'[w] = None
         /\ \A i \in Jobs, j \in due : Ahead(i, j) =>
              i = edit[w].job /\ i \notin due /\ (edit[w].new \/ edit[w].moved)
  <1> DEFINE u == edit[w]
  <1>1. u \in Edit /\ u.job \in Jobs
    BY DEF TypeOK, Edit
  <1>2. edit'[w] = None
    BY MovedType DEF Written, TypeOK
  <1>3. CASE UNCHANGED <<due, older>>
    BY <1>2, <1>3 DEF DueInLine, Ahead
  <1>4. CASE (u.new \/ u.moved) /\ (InFuture(u.job) \/ SomewhereInPast(u.job))
    BY <1>1, <1>2, <1>4, LeavesLine, JoinsLine
  <1>5. \/ UNCHANGED <<due, older>>
        \/ (u.new \/ u.moved) /\ (InFuture(u.job) \/ SomewhereInPast(u.job))
    BY DEF Written, WritesNextRun, NextRun
  <1> QED  BY <1>3, <1>4, <1>5

\* PlacesKept's step.
KeepsPlaces ==
  \A i \in Jobs, j \in due : Ahead(i, j) =>
    /\ i \notin due
    /\ \/ batch[i] = "reschedule" /\ ~snap[i].once /\ snap[i].sched \in AtTimes
       \/ \E w \in Writers : /\ edit[w] # None /\ edit[w].job = i /\ edit'[w] = None
                             /\ edit[w].new \/ edit[w].moved

LEMMA LineStays ==
  ASSUME DueInLine, UNCHANGED <<due, older>>
  PROVE  DueInLine' /\ KeepsPlaces
  BY DEF DueInLine, KeepsPlaces, Ahead

LEMMA NextLine == TypeOK /\ Settling /\ DueInLine /\ [Next]_vars => DueInLine' /\ KeepsPlaces
  <1> SUFFICES ASSUME TypeOK, Settling, DueInLine, [Next]_vars
               PROVE  DueInLine' /\ KeepsPlaces
    OBVIOUS
  <1>1. CASE Tick \/ Dies \/ UNCHANGED vars
    BY <1>1, LineStays DEF Tick, Dies, vars
  <1>2. ASSUME NEW j \in Jobs,
               \/ Start(j) \/ Ends(j) \/ DisableOneShot(j) \/ SettleFails(j)
               \/ \E s \in Schedules, once \in BOOLEAN : AddJob(j, s, once)
               \/ \E e \in Editors : BeginUpdate(e, j)
        PROVE  DueInLine' /\ KeepsPlaces
    BY <1>2, LineStays DEF Start, Ends, DisableOneShot, SettleFails, AddJob, BeginUpdate
  <1>3. ASSUME NEW k \in Jobs, Elapse(k) PROVE DueInLine' /\ KeepsPlaces
    <2>1. k \in Jobs \ due /\ InPast(k, due) /\ \A p \in older : p[1] \in due
      BY <1>3 DEF Elapse, TypeOK
    <2>2. DueInLine' /\ \A i \in Jobs, j \in due : Ahead(i, j) => i = k /\ j \notin due
      BY <2>1, EntersLine
    <2> QED  BY <2>2 DEF KeepsPlaces
  <1>4. ASSUME NEW k \in Jobs, Deleted(k) PROVE DueInLine' /\ KeepsPlaces
    BY <1>4, LeavesLine DEF Deleted, InFuture, KeepsPlaces
  <1>5. ASSUME NEW k \in Jobs, Reschedule(k) PROVE DueInLine' /\ KeepsPlaces
    <2>1. CASE UNCHANGED <<due, older>>
      BY <2>1, LineStays
    <2>2. CASE InFuture(k)
      BY <2>2, LeavesLine DEF KeepsPlaces
    <2>3. CASE snap[k].sched \in passed[k] /\ SomewhereInPast(k)
      <3>1. snap[k].sched \in AtTimes /\ batch[k] = "reschedule" /\ ~snap[k].once
        BY <1>5, <2>3 DEF TypeOK, Settling, Reschedule, OneShot
      <3>2. DueInLine' /\ \A i \in Jobs, j \in due : Ahead(i, j) => i = k /\ k \notin due
        BY <2>3, JoinsLine
      <3> QED  BY <3>1, <3>2 DEF KeepsPlaces
    <2> QED  BY <1>5, <2>1, <2>2, <2>3 DEF Reschedule, NextRun
  <1>6. ASSUME NEW w \in Writers, edit[w] # None, Written(w) PROVE DueInLine' /\ KeepsPlaces
    BY <1>6, WritesLine DEF KeepsPlaces
  <1>7. ASSUME NEW e \in Editors, Update(e) PROVE DueInLine' /\ KeepsPlaces
    BY <1>6, <1>7 DEF Update
  <1>8. ASSUME NEW j \in Jobs, DisableWrites(j) PROVE DueInLine' /\ KeepsPlaces
    BY <1>6, <1>8 DEF DisableWrites, Settling
  <1> QED
    BY <1>1, <1>2, <1>3, <1>4, <1>5, <1>7, <1>8 DEF Next, Settles, RemoveOneShot, RemoveJob

\* The due jobs stand in one line.
THEOREM OneLine == Spec => []DueInLine
  <1> DEFINE Inv == TypeOK /\ Settling /\ DueInLine
  <1>1. Init => Inv
    BY InitType DEF Init, Settling, DueInLine
  <1>2. Inv /\ [Next]_vars => Inv'
    BY NextType, NextSettling, NextLine
  <1> QED  BY <1>1, <1>2, PTL DEF Spec

\* A due job keeps its place in the line, but for jobs of past times and edits.
THEOREM WaitersKeepPlace == Spec => PlacesKept
  <1> DEFINE Inv == TypeOK /\ Settling /\ DueInLine
  <1>1. Init => Inv
    BY InitType DEF Init, Settling, DueInLine
  <1>2. Inv /\ [Next]_vars => Inv'
    BY NextType, NextSettling, NextLine
  <1>3. Inv /\ [Next]_vars => [KeepsPlaces]_vars
    BY NextLine
  <1> HIDE DEF Inv, KeepsPlaces
  <1>4. Spec => [][KeepsPlaces]_vars
    BY <1>1, <1>2, <1>3, PTL DEF Spec
  <1> QED  BY <1>4 DEF PlacesKept, KeepsPlaces, Ahead
=============================================================================
