--------------------------- MODULE CronScheduler ----------------------------
(***************************************************************************)
(* Scheduled jobs (cron/): the rows of cron_jobs, the scheduler loop that   *)
(* runs the due ones from snapshots, and the edits and removals made        *)
(* meanwhile.  The process may die, and a settlement may fail.             *)
(*                                                                         *)
(* A schedule is an absolute time (Schedule::At) or a period (Every, Cron).*)
(* Instants are not numbers: a row's next_run is the schedule it was        *)
(* computed from (`of'), whether it has passed (`due'), and, of two that    *)
(* have, which was first (`older').  A time counts as passed once a row     *)
(* that waited for it has become due.                                       *)
(***************************************************************************)
EXTENDS Integers, FiniteSets

CONSTANTS
  Jobs,           \* ids, each given to one job
  AtTimes,        \* absolute times, by name
  Periods,        \* recurring schedules
  Editors,        \* calls of update_job other than the scheduler's own
  Scheduler,      \* the scheduler's own call of update_job
  None,
  MaxTasks,       \* scheduler.max_tasks, 64 by default
  MaxConcurrent,  \* scheduler.max_concurrent, 4 by default
  MaxEdits, MaxErrors, MaxCrashes,  \* bounds ...
  MaxDisturbances                   \* ... and one on their sum

ASSUME CronAssumption ==
  /\ AtTimes \cap Periods = {}
  /\ Scheduler \notin Editors
  /\ MaxTasks \in Nat \ {0} /\ MaxConcurrent \in Nat \ {0}
  /\ {MaxEdits, MaxErrors, MaxCrashes, MaxDisturbances} \subseteq Nat

Schedules == AtTimes \cup Periods
Writers   == Editors \cup {Scheduler}

\* enabled, delete_after_run, the schedule, and the schedule next_run was computed from.
Row == [enabled : BOOLEAN, once : BOOLEAN, sched : Schedules, of : Schedules]

\* A call of update_job between its read of the row and its UPDATE of all columns;
\* `new': the patch has a schedule; `wasDue': next_run had passed when it was read;
\* `moved': next_run has been written since.
Edit == [job : Jobs, row : Row, new : BOOLEAN, wasDue : BOOLEAN, moved : BOOLEAN]

ASSUME NoneAssumption == None \notin Row /\ None \notin Edit

Stages == {"out", "queued", "running", "remove", "disable", "writing", "reschedule"}

VARIABLES
  rows,         \* the table cron_jobs
  used,         \* ids that have been given out
  due,          \* jobs whose next_run has passed
  older,        \* pairs of due jobs, the first with the earlier next_run
  passed,       \* the absolute times of a job's schedules that have passed
  batch,        \* the scheduler's batch: how far each job is
  snap,         \* ... and the row it was read as
  edit,         \* calls of update_job in progress
  fires,        \* history: scheduled runs of a one-shot job since it became one
  edits, errors, crashes

table  == <<rows, used, due, older, passed>>
bounds == <<edits, errors, crashes>>
vars   == <<table, batch, snap, edit, fires, bounds>>

Present == {j \in Jobs : rows[j] # None}
OneShot(r) == r.once /\ r.sched \in AtTimes

Init ==
  /\ rows = [j \in Jobs |-> None] /\ used = {}
  /\ due = {} /\ older = {} /\ passed = [j \in Jobs |-> {}]
  /\ batch = [j \in Jobs |-> "out"] /\ snap = [j \in Jobs |-> None]
  /\ edit = [w \in Writers |-> None]
  /\ fires = [j \in Jobs |-> 0]
  /\ edits = 0 /\ errors = 0 /\ crashes = 0

-----------------------------------------------------------------------------
(* Time, and what a statement makes of next_run.                           *)

Without(j) == {p \in older : j \notin {p[1], p[2]}}

\* next_run of j lies in the future.
InFuture(j) == due' = due \ {j} /\ older' = Without(j)

\* next_run of j has passed, before those of the due jobs that are not in `ahead'.
InPast(j, ahead) ==
  /\ due' = due \cup {j}
  /\ older' = Without(j) \cup (ahead \X {j}) \cup ({j} \X (due \ (ahead \cup {j})))

\* An instant that has passed already: somewhere among those that have.
SomewhereInPast(j) ==
  \/ j \in due /\ UNCHANGED <<due, older>>
  \/ /\ j \notin due
     /\ \E ahead \in SUBSET due :
          /\ \A p \in older : p[2] \in ahead => p[1] \in ahead
          /\ InPast(j, ahead)

\* next_run_for_schedule: the time itself, gone or not, or the next of the period.
NextRun(j, s) == IF s \in passed[j] THEN SomewhereInPast(j) ELSE InFuture(j)

\* The clock reaches next_run; an edit that has read it will write it back as past.
Elapse(j) ==
  /\ j \in Present \ due
  /\ InPast(j, due)
  /\ passed' = [passed EXCEPT ![j] = @ \cup ({rows[j].of} \cap AtTimes)]
  /\ UNCHANGED <<rows, used, batch, snap, edit, fires, bounds>>

\* Edits of j under way that keep next_run will write back one that was replaced.
Moved(j) == [w \in Writers |-> IF edit[w] # None /\ edit[w].job = j
                                 THEN [edit[w] EXCEPT !.moved = TRUE] ELSE edit[w]]

-----------------------------------------------------------------------------
(* The scheduler loop.                                                     *)

\* due_jobs: the enabled due rows in the order of next_run, MaxTasks at most.
Runnable == {j \in due : rows[j].enabled}
\* Mutant: the order of the query is descending.
M_IsPolled(T) ==
  /\ T \subseteq Runnable
  /\ Cardinality(T) <= MaxTasks
  /\ T # Runnable => Cardinality(T) = MaxTasks
  /\ \A i \in T, j \in Runnable \ T : <<i, j>> \notin older
IsPolled(T) ==
  /\ T \subseteq Runnable
  /\ Cardinality(T) <= MaxTasks
  /\ T # Runnable => Cardinality(T) = MaxTasks
  /\ \A i \in T, j \in Runnable \ T : <<j, i>> \notin older

\* Mutant: the loop keeps the schedule it has parsed for next_run.
M_AsRead(j) == [rows[j] EXCEPT !.sched = rows[j].of]
AsRead(j) == rows[j]

\* The loop awaits the whole batch before the next poll; a poll that fails is nothing.
Tick ==
  /\ \A j \in Jobs : batch[j] = "out"
  /\ \E T \in SUBSET Jobs :
       /\ IsPolled(T)
       /\ batch' = [j \in Jobs |-> IF j \in T THEN "queued" ELSE "out"]
       /\ snap' = [j \in Jobs |-> IF j \in T THEN AsRead(j) ELSE None]
  /\ UNCHANGED <<table, edit, fires, bounds>>

InFlight == {j \in Jobs : batch[j] \notin {"out", "queued"}}

\* The row is still of the schedule that the run was read with.
Unchanged(j) == /\ j \in Present
                /\ rows[j].sched = snap[j].sched /\ rows[j].once = snap[j].once

Start(j) ==
  /\ batch[j] = "queued"
  /\ Cardinality(InFlight) < MaxConcurrent
  /\ batch' = [batch EXCEPT ![j] = "running"]
  /\ fires' = [fires EXCEPT ![j] = IF Unchanged(j) /\ OneShot(snap[j]) THEN @ + 1
                                              ELSE @]
  /\ UNCHANGED <<table, snap, edit, bounds>>

\* Mutant: a failed one-shot job is rescheduled as any other.
M_AfterRun(r, success) == IF OneShot(r) /\ success THEN "remove" ELSE "reschedule"
\* Which settlement follows: is_one_shot_auto_delete, and the run's success.
AfterRun(r, success) ==
  IF OneShot(r) THEN (IF success THEN "remove" ELSE "disable") ELSE "reschedule"

\* The run ends, after its retries, and its result is delivered and recorded.
Ends(j) ==
  /\ batch[j] = "running"
  /\ \E success \in BOOLEAN :
       batch' = [batch EXCEPT ![j] = AfterRun(snap[j], success)]
  /\ UNCHANGED <<table, snap, edit, fires, bounds>>

Leaves(j) == /\ batch' = [batch EXCEPT ![j] = "out"]
             /\ snap' = [snap EXCEPT ![j] = None]

\* DELETE of the row.
Deleted(j) ==
  /\ rows' = [rows EXCEPT ![j] = None]
  /\ due' = due \ {j} /\ older' = Without(j)
  /\ fires' = [fires EXCEPT ![j] = 0]
  /\ UNCHANGED <<used, passed>>

RemoveOneShot(j) ==
  /\ batch[j] = "remove"
  /\ Deleted(j) /\ Leaves(j)
  /\ UNCHANGED <<edit, bounds>>

\* update_job with enabled = false: its read; a row that is gone is an error.
DisableOneShot(j) ==
  /\ batch[j] = "disable"
  /\ \/ /\ j \in Present /\ edit[Scheduler] = None
        /\ edit' = [edit EXCEPT ![Scheduler] =
             [job |-> j, row |-> [rows[j] EXCEPT !.enabled = FALSE], new |-> FALSE,
              wasDue |-> j \in due, moved |-> FALSE]]
        /\ batch' = [batch EXCEPT ![j] = "writing"]
        /\ UNCHANGED snap
     \/ j \notin Present /\ Leaves(j) /\ UNCHANGED edit
  /\ UNCHANGED <<table, fires, bounds>>

\* reschedule_after_run: next_run of the schedule the run was read with.
Reschedule(j) ==
  /\ batch[j] = "reschedule"
  /\ IF j \in Present
       THEN /\ rows' = [rows EXCEPT ![j].of = snap[j].sched]
            /\ NextRun(j, snap[j].sched)
            /\ edit' = Moved(j)
       ELSE UNCHANGED <<rows, due, older, edit>>
  /\ Leaves(j)
  /\ UNCHANGED <<used, passed, fires, bounds>>

\* The statement that settles a run fails, which is logged.
SettleFails(j) ==
  /\ errors < MaxErrors /\ errors' = errors + 1
  /\ batch[j] \in {"remove", "disable", "writing", "reschedule"}
  /\ edit' = IF batch[j] = "writing" THEN [edit EXCEPT ![Scheduler] = None] ELSE edit
  /\ Leaves(j)
  /\ UNCHANGED <<table, fires, edits, crashes>>

-----------------------------------------------------------------------------
(* The user, by RPC or the schedule tool.                                  *)

\* add_shell_job, add_agent_job: validate_schedule wants a time to come.
AddJob(j, s, once) ==
  /\ j \notin used
  /\ used' = used \cup {j}
  /\ rows' = [rows EXCEPT ![j] = [enabled |-> TRUE, once |-> once, sched |-> s, of |-> s]]
  /\ UNCHANGED <<due, older, passed, batch, snap, edit, fires, bounds>>

\* remove_job (cancel, cron.remove, clear_all_jobs); a batch keeps its snapshot.
RemoveJob(j) ==
  /\ j \in Present
  /\ Deleted(j)
  /\ UNCHANGED <<batch, snap, edit, bounds>>

\* update_job: the read, and the patch; a new schedule is a time to come or a period,
\* and only it sets next_run.
UnderWay == Cardinality({e \in Editors : edit[e] # None})
Patched(j) == {r \in Row : r.sched = rows[j].sched /\ r.of = rows[j].of}
Renewed(j) == {r \in Row : r.of = r.sched /\ r.sched \notin passed[j]}

BeginUpdate(e, j) ==
  /\ edit[e] = None /\ j \in Present
  /\ edits + UnderWay < MaxEdits
  /\ \E new \in BOOLEAN : \E r \in (IF new THEN Renewed(j) ELSE Patched(j)) :
       edit' = [edit EXCEPT ![e] = [job |-> j, row |-> r, new |-> new,
                                    wasDue |-> j \in due, moved |-> FALSE]]
  /\ UNCHANGED <<table, batch, snap, fires, bounds>>

\* next_run as update_job writes it: of the new schedule, or what it has read.
WritesNextRun(u) ==
  IF u.new \/ (u.moved /\ u.row.of \in AtTimes) THEN NextRun(u.job, u.row.of)
  ELSE IF u.moved THEN SomewhereInPast(u.job) \/ (~u.wasDue /\ InFuture(u.job))
  ELSE UNCHANGED <<due, older>>

\* The UPDATE writes every column, as read or as patched.
Written(w) ==
  LET u == edit[w] IN
  IF u.job \in Present
    THEN /\ rows' = [rows EXCEPT ![u.job] = u.row]
         /\ WritesNextRun(u)
         /\ fires' = [fires EXCEPT ![u.job] =
              IF u.row.sched = rows[u.job].sched /\ u.row.once = rows[u.job].once THEN @ ELSE 0]
         /\ edit' = [(IF u.new \/ u.moved THEN Moved(u.job) ELSE edit) EXCEPT ![w] = None]
    ELSE /\ edit' = [edit EXCEPT ![w] = None]
         /\ UNCHANGED <<rows, due, older, fires>>

Update(e) ==
  /\ e \in Editors /\ edit[e] # None
  /\ Written(e)
  /\ edits' = edits + 1
  /\ UNCHANGED <<used, passed, batch, snap, errors, crashes>>

DisableWrites(j) ==
  /\ batch[j] = "writing"
  /\ Written(Scheduler)
  /\ Leaves(j)
  /\ UNCHANGED <<used, passed, bounds>>

-----------------------------------------------------------------------------

\* The process ends, in any state, and is started again.
Dies ==
  /\ crashes < MaxCrashes /\ crashes' = crashes + 1
  /\ batch' = [j \in Jobs |-> "out"] /\ snap' = [j \in Jobs |-> None]
  /\ edit' = [w \in Writers |-> None]
  /\ UNCHANGED <<table, fires, edits, errors>>

Settles(j) == \/ RemoveOneShot(j) \/ DisableOneShot(j) \/ DisableWrites(j)
              \/ Reschedule(j) \/ SettleFails(j)

Next ==
  /\ \/ Tick \/ Dies
     \/ \E j \in Jobs :
          \/ Elapse(j) \/ Start(j) \/ Ends(j) \/ Settles(j)
          \/ RemoveJob(j)
          \/ \E s \in Schedules, once \in BOOLEAN : AddJob(j, s, once)
          \/ \E e \in Editors : BeginUpdate(e, j)
     \/ \E e \in Editors : Update(e)
  /\ (edits + UnderWay + errors + crashes)' <= MaxDisturbances

Spec == Init /\ [][Next]_vars

\* The loop polls every few seconds; a run is assumed to return; what has begun in
\* a thread goes on; time passes.
Fairness ==
  /\ WF_vars(Tick)
  /\ \A j \in Jobs : /\ WF_vars(Start(j)) /\ WF_vars(Ends(j))
                     /\ WF_vars(Settles(j)) /\ WF_vars(Elapse(j))
  /\ \A e \in Editors : WF_vars(Update(e))

FairSpec == Spec /\ Fairness

-----------------------------------------------------------------------------
(* Properties.                                                             *)

\* The shape of the state: only rows there are have a next_run that has passed.
TypeOK ==
  /\ rows \in [Jobs -> Row \cup {None}] /\ used \in SUBSET Jobs
  /\ due \in SUBSET Present /\ older \in SUBSET (due \X due)
  /\ passed \in [Jobs -> SUBSET AtTimes]
  /\ batch \in [Jobs -> Stages] /\ snap \in [Jobs -> Row \cup {None}]
  /\ edit \in [Writers -> Edit \cup {None}]
  /\ \A j \in Jobs : batch[j] = "out" <=> snap[j] = None
  /\ fires \in [Jobs -> Nat]
  /\ {edits, errors, crashes} \subseteq Nat

Disturbances == edits + errors + crashes

\* A job to be deleted after its run fires once: it fires again only for an edit that
\* enables it again (or writes its row back over the end of the run), a settlement that
\* failed, or a crash before the settlement, and at most once for each.
OneShotFiresOnce ==
  \A j \in Present : OneShot(rows[j]) => fires[j] <= 1 + Disturbances

\* The due jobs stand in one line, as next_run orders them, through polls, runs that are
\* settled in any order, removals and edits.
DueInLine ==
  /\ \A i, j \in due : i = j \/ <<i, j>> \in older \/ <<j, i>> \in older
  /\ \A i, j \in due : ~(<<i, j>> \in older /\ <<j, i>> \in older)
  /\ \A i, j, k \in due : <<i, j>> \in older /\ <<j, k>> \in older => <<i, k>> \in older

\* A due job keeps its place in the line, which DueIsRun needs: what gets ahead of it is
\* only a job of a past time that is rescheduled after its run, or one that update_job
\* gives a next_run of its patch, or one that was replaced since it was read.
PlacesKept ==
  [][\A i \in Jobs, j \in due : <<i, j>> \in older' \ older =>
       /\ i \notin due
       /\ \/ batch[i] = "reschedule" /\ ~snap[i].once /\ snap[i].sched \in AtTimes
          \/ \E w \in Writers : /\ edit[w] # None /\ edit[w].job = i /\ edit'[w] = None
                                /\ edit[w].new \/ edit[w].moved]_vars

\* Jobs of a time without delete_after_run: once due, every poll runs them again.
LeftOver == {j \in Runnable : rows[j].sched \in AtTimes /\ ~rows[j].once}

\* An enabled job whose next_run has come is run, in its turn, although a poll takes
\* MaxTasks jobs at most: each run puts its job behind those that wait, except the
\* left-over ones, which can fill every poll.
DueIsRun ==
  \A j \in Jobs :
    j \in Present /\ j \in due /\ rows[j].enabled
      ~> j \in InFlight \/ j \notin Runnable \/ Cardinality(LeftOver) >= MaxTasks

\* An edited schedule takes hold, although a run that was read before the edit writes
\* the next_run of the old schedule over it, and so may an edit that overlaps: the next
\* run of an enabled job computes next_run from the schedule of the row.
ScheduleTakesHold ==
  \A j \in Jobs :
    j \in Present /\ rows[j].of # rows[j].sched
      ~> j \notin Present \/ ~rows[j].enabled \/ rows[j].of = rows[j].sched
           \/ Cardinality(LeftOver) >= MaxTasks

\* "One-shot job that runs once at a specific UTC instant" (cron/tools/add.rs:143, of a
\* schedule of kind "at"): such a job is deleted or disabled after it.
OneShotEnds ==
  \A j \in Jobs :
    j \in Present /\ rows[j].enabled /\ rows[j].sched \in AtTimes
      ~> j \notin Present \/ ~rows[j].enabled
=============================================================================
