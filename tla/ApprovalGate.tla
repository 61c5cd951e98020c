---------------------------- MODULE ApprovalGate ----------------------------
(***************************************************************************)
(* The approval gate (openhuman/approval): a tool call with an external    *)
(* effect parks until the user decides or its time is up.  The decision    *)
(* lives twice, in a row of pending_approvals and in the oneshot channel   *)
(* of the parked call, and each SQLite statement or lock is one step.      *)
(*                                                                         *)
(* Request ids and calls are one: a call asks once.  The sender of a       *)
(* channel leaves `waiters` only to send or to be evicted, so the gate's   *)
(* "channel dropped" branch is never taken and is left out.                *)
(***************************************************************************)
EXTENDS Naturals, FiniteSets

CONSTANTS
  Calls,           \* tool calls for which external_effect is true
  Threads,         \* chat threads, where a reply is typed
  Meetings,        \* live meetings, where a reply is spoken
  SurfacesOf,      \* the thread and the meeting each call asks on, if any
  OriginOf,        \* the AgentTurnOrigin of each call's turn
  Tools, ToolOf,   \* the tool each call runs
  None,            \* no call, no decision
  MaxStoreErrors, MaxCrashes  \* bounds

Surfaces == Threads \cup Meetings
Allows == {"cron", "subconscious", "cli"}
Refuses == {"subconscious_tainted", "unknown"}
Parks == {"web_chat", "external_channel"}

ASSUME SurfacesAssumption == SurfacesOf \in [Calls -> SUBSET Surfaces]
ASSUME OriginAssumption == OriginOf \in [Calls -> Allows \cup Refuses \cup Parks]
ASSUME ToolAssumption == ToolOf \in [Calls -> Tools]
ASSUME NoneAssumption == None \notin Calls /\ None \notin {"approve_once", "approve_always", "deny"}
ASSUME BoundsAssumption == MaxStoreErrors \in Nat /\ MaxCrashes \in Nat

Approvals == {"approve_once", "approve_always"}
Decisions == Approvals \cup {"deny"}

VARIABLES
  rows,         \* pending_approvals: "absent", "pending", or the decision
  overdue,      \* rows whose expires_at has passed, to the second
  executed,     \* rows with executed_at
  pc,           \* where each call is
  waiters,      \* calls with a sender in ApprovalGate.waiters
  inbox,        \* the decision sent to each parked call
  delivering,   \* a decision committed to a row and not yet sent
  granting,     \* calls whose "always" decision is being saved
  autoApprove,  \* autonomy.auto_approve, saved and in the live policy
  route,        \* thread_to_request and meeting_to_request
  storeErrors, crashes

vars == <<rows, overdue, executed, pc, waiters, inbox, delivering, granting,
          autoApprove, route, storeErrors, crashes>>
deciders == <<delivering, granting, autoApprove>>
bounds == <<storeErrors, crashes>>

Init ==
  /\ rows = [c \in Calls |-> "absent"]
  /\ overdue = {} /\ executed = {}
  /\ pc = [c \in Calls |-> "new"]
  /\ waiters = {}
  /\ inbox = [c \in Calls |-> None]
  /\ delivering = [c \in Calls |-> None]
  /\ granting = {}
  /\ autoApprove \in SUBSET Tools
  /\ route = [s \in Surfaces |-> None]
  /\ storeErrors = 0 /\ crashes = 0

Goes(c, to) == pc' = [pc EXCEPT ![c] = to]

\* A call to the store that fails.
StoreFails ==
  /\ storeErrors < MaxStoreErrors
  /\ storeErrors' = storeErrors + 1
  /\ UNCHANGED crashes

\* clear_thread and clear_meeting: whatever the surface routes to is dropped.
\* Mutant: a meeting's route is never cleared.
M_Cleared(surfaces) == [s \in Surfaces |-> IF s \in surfaces \cap Threads THEN None ELSE route[s]]
Cleared(surfaces) == [s \in Surfaces |-> IF s \in surfaces THEN None ELSE route[s]]

-----------------------------------------------------------------------------
(* intercept_audited.                                                      *)

\* The allowlist, and origins that are trusted, run unprompted.
Exempt(c) ==
  /\ pc[c] = "new"
  /\ ToolOf[c] \in autoApprove \/ OriginOf[c] \in Allows
  /\ Goes(c, "allowed")
  /\ UNCHANGED <<rows, overdue, executed, waiters, inbox, deciders, route, bounds>>

Reject(c) ==
  /\ pc[c] = "new"
  /\ ToolOf[c] \notin autoApprove /\ OriginOf[c] \in Refuses
  /\ Goes(c, "denied")
  /\ UNCHANGED <<rows, overdue, executed, waiters, inbox, deciders, route, bounds>>

\* The waiter and the routes go first, "so a fast approval_decide cannot mark the
\* request approved while no waiter exists".  Its three maps have a lock each and are one
\* step here: nobody can decide the call before its row is there, so who looks in
\* between finds what he would find before or after.  Mutant: no waiter is registered.
M_Waiting(c) == waiters
Waiting(c) == waiters \cup {c}

Register(c) ==
  /\ pc[c] = "new"
  /\ ToolOf[c] \notin autoApprove /\ OriginOf[c] \in Parks
  /\ waiters' = Waiting(c)
  /\ route' = [s \in Surfaces |-> IF s \in SurfacesOf[c] THEN c ELSE route[s]]
  /\ Goes(c, "registered")
  /\ UNCHANGED <<rows, overdue, executed, inbox, deciders, bounds>>

Persist(c) ==
  /\ pc[c] = "registered"
  /\ rows' = [rows EXCEPT ![c] = "pending"]
  /\ Goes(c, "parked")
  /\ UNCHANGED <<overdue, executed, waiters, inbox, deciders, route, bounds>>

\* The insert fails: the gate denies, and leaves a meeting's route behind.
PersistFails(c) ==
  /\ pc[c] = "registered" /\ StoreFails
  /\ waiters' = waiters \ {c}
  /\ route' = Cleared(SurfacesOf[c] \cap Threads)
  /\ Goes(c, "denied")
  /\ UNCHANGED <<rows, overdue, executed, inbox, deciders>>

\* What a decision means to the call (is_approve).  Mutant: "always" is forgotten.
M_Verdict(d) == IF d = "approve_once" THEN "allowed" ELSE "denied"
Verdict(d) == IF d \in Approvals THEN "allowed" ELSE "denied"

Receive(c) ==
  /\ pc[c] = "parked" /\ inbox[c] # None
  /\ Goes(c, Verdict(inbox[c]))
  /\ route' = Cleared(SurfacesOf[c])
  /\ UNCHANGED <<rows, overdue, executed, waiters, inbox, deciders, bounds>>

Evicted(c) == waiters \ {c}

\* The park window ends: with the row's, or before it in a live meeting.
TimeoutFires(c) ==
  /\ pc[c] = "parked" /\ inbox[c] = None
  /\ c \in overdue \/ SurfacesOf[c] \cap Meetings # {}
  /\ waiters' = Evicted(c)
  /\ Goes(c, "elapsed")
  /\ UNCHANGED <<rows, overdue, executed, inbox, deciders, route, bounds>>

-----------------------------------------------------------------------------
(* The store.                                                              *)

\* expire_stale_with_now.
Expired == [c \in Calls |-> IF rows[c] = "pending" /\ c \in overdue THEN "deny" ELSE rows[c]]

\* store::decide, once stale rows have expired: only a pending row takes the decision.
\* Mutant: a decided row is decided again.
M_Decided(table, c, d) == IF table[c] # "absent" THEN [table EXCEPT ![c] = d] ELSE table
Decided(table, c, d) == IF table[c] = "pending" THEN [table EXCEPT ![c] = d] ELSE table

\* What a store::decide that fails leaves: it stops before its first update, between
\* its updates, or after them, when it reads the row back.
Unfinished(c, d) == {rows, Expired, Decided(Expired, c, d)}

\* list_pending expires stale rows on the way, in the gate's RPC.
ListPending ==
  /\ rows' = Expired
  /\ UNCHANGED <<overdue, executed, pc, waiters, inbox, deciders, route, bounds>>

\* Time passes, for a row that waits for the user and for a call that waits for its row.
BecomesOverdue(c) ==
  /\ rows[c] = "pending" \/ pc[c] = "parked"
  /\ c \notin overdue
  /\ overdue' = overdue \cup {c}
  /\ UNCHANGED <<rows, executed, pc, waiters, inbox, deciders, route, bounds>>

\* After the timeout the gate denies the row, unless it is decided already ...
TimeoutDenies(c) ==
  /\ pc[c] = "elapsed"
  /\ rows' = Decided(Expired, c, "deny")
  /\ IF Expired[c] = "pending"
       THEN Goes(c, "denied") /\ route' = Cleared(SurfacesOf[c])
       ELSE Goes(c, "reread") /\ UNCHANGED route
  /\ UNCHANGED <<overdue, executed, waiters, inbox, deciders, bounds>>

\* ... and then honours the row.  Mutant: the gate denies without a re-read.
M_Honoured(c) == "denied"
Honoured(c) == Verdict(rows[c])

Reread(c) ==
  /\ pc[c] = "reread"
  /\ Goes(c, Honoured(c))
  /\ route' = Cleared(SurfacesOf[c])
  /\ UNCHANGED <<rows, overdue, executed, waiters, inbox, deciders, bounds>>

\* Either call fails, and the tool call is denied whatever the row says.
TimeoutStoreFails(c) ==
  /\ pc[c] \in {"elapsed", "reread"} /\ StoreFails
  /\ rows' \in IF pc[c] = "elapsed" THEN Unfinished(c, "deny") ELSE {rows}
  /\ Goes(c, "denied")
  /\ route' = Cleared(SurfacesOf[c])
  /\ UNCHANGED <<overdue, executed, waiters, inbox, deciders>>

-----------------------------------------------------------------------------
(* ApprovalGate::decide: the row first, then the parked call.              *)

Decide(c, d) ==
  /\ rows[c] # "absent"
  /\ rows' = Decided(Expired, c, d)
  /\ delivering' = IF Expired[c] = "pending" THEN [delivering EXCEPT ![c] = d] ELSE delivering
  /\ UNCHANGED <<overdue, executed, pc, waiters, inbox, granting, autoApprove, route, bounds>>

\* The store fails, and the caller gets the error: nobody tells the parked call,
\* even of a decision that was committed.
DecideFails(c) ==
  /\ rows[c] # "absent" /\ StoreFails
  /\ \E d \in Decisions : rows' \in Unfinished(c, d)
  /\ UNCHANGED <<overdue, executed, pc, waiters, inbox, deciders, route>>

\* approval_decide: any row of the list, those of earlier launches included.
DecideByRpc(c) == \E d \in Decisions : Decide(c, d)

\* A typed or a spoken yes or no goes to the call its surface routes to.
DecideByReply(s) ==
  /\ route[s] # None
  /\ \E d \in {"approve_once", "deny"} : Decide(route[s], d)

\* The sender is taken and used; the receiver may be gone.
Deliver(c) ==
  LET d == delivering[c]
  IN  /\ d # None
      /\ delivering' = [delivering EXCEPT ![c] = None]
      /\ waiters' = waiters \ {c}
      /\ inbox' = IF c \in waiters /\ pc[c] = "parked" THEN [inbox EXCEPT ![c] = d] ELSE inbox
      /\ granting' = IF d = "approve_always" THEN granting \cup {c} ELSE granting
      /\ UNCHANGED <<rows, overdue, executed, pc, autoApprove, route, bounds>>

\* add_auto_approve_tool, which may fail without failing the decision.
SaveAlways(c) ==
  /\ c \in granting
  /\ granting' = granting \ {c}
  /\ \/ autoApprove' = autoApprove \cup {ToolOf[c]} /\ UNCHANGED bounds
     \/ StoreFails /\ UNCHANGED autoApprove
  /\ UNCHANGED <<rows, overdue, executed, pc, waiters, inbox, delivering, route>>

-----------------------------------------------------------------------------
(* The caller of the gate (agent/harness/engine/tools.rs).                 *)

Execute(c) ==
  /\ pc[c] = "allowed"
  /\ Goes(c, "running")
  /\ UNCHANGED <<rows, overdue, executed, waiters, inbox, deciders, route, bounds>>

\* The tool returns; record_execution stamps a decided row, or fails.
Finish(c) ==
  /\ pc[c] = "running"
  /\ Goes(c, "finished")
  /\ \/ /\ executed' = IF rows[c] \in Decisions THEN executed \cup {c} ELSE executed
        /\ UNCHANGED bounds
     \/ rows[c] # "absent" /\ StoreFails /\ UNCHANGED executed
  /\ UNCHANGED <<rows, overdue, waiters, inbox, deciders, route>>

\* The turn is interrupted or cancelled at an await: its future is dropped, and
\* nothing else is told.
Cancel(c) ==
  /\ pc[c] \in {"parked", "running"}
  /\ Goes(c, IF pc[c] = "parked" THEN "gone" ELSE "cut")
  /\ inbox' = [inbox EXCEPT ![c] = None]
  /\ UNCHANGED <<rows, overdue, executed, waiters, deciders, route, bounds>>

\* The process dies and starts again: rows and allowlist are what is left.
Crash ==
  /\ crashes < MaxCrashes
  /\ crashes' = crashes + 1
  /\ pc' = [c \in Calls |->
              CASE pc[c] \in {"registered", "parked", "elapsed", "reread"} -> "gone"
                [] pc[c] = "allowed" -> "unrun"
                [] pc[c] = "running" -> "cut"
                [] OTHER -> pc[c]]
  /\ waiters' = {} /\ granting' = {}
  /\ inbox' = [c \in Calls |-> None]
  /\ delivering' = [c \in Calls |-> None]
  /\ route' = [s \in Surfaces |-> None]
  /\ UNCHANGED <<rows, overdue, executed, autoApprove, storeErrors>>

Turn(c) ==
  \/ Exempt(c) \/ Reject(c) \/ Register(c)
  \/ Persist(c) \/ PersistFails(c)
  \/ Receive(c) \/ TimeoutFires(c)
  \/ TimeoutDenies(c) \/ Reread(c) \/ TimeoutStoreFails(c)
  \/ Execute(c) \/ Finish(c)

Next ==
  \/ \E c \in Calls : Turn(c) \/ BecomesOverdue(c) \/ DecideByRpc(c) \/ DecideFails(c) \/ Deliver(c)
                        \/ SaveAlways(c) \/ Cancel(c)
  \/ \E s \in Surfaces : DecideByReply(s)
  \/ ListPending
  \/ Crash

Spec == Init /\ [][Next]_vars

\* Calls and the decision in progress go on, and time passes; nothing makes a
\* user decide, a turn be cancelled, or the process die.
Fairness == \A c \in Calls : WF_vars(Turn(c)) /\ WF_vars(BecomesOverdue(c)) /\ WF_vars(Deliver(c))

FairSpec == Spec /\ Fairness

-----------------------------------------------------------------------------
(* Properties.                                                             *)

\* The shape of the state; a sender is kept only for a call that can still use
\* it, or whose turn was cancelled.
TypeOK ==
  /\ rows \in [Calls -> {"absent", "pending"} \cup Decisions]
  /\ overdue \subseteq Calls /\ executed \subseteq Calls /\ granting \subseteq Calls
  /\ pc \in [Calls -> {"new", "registered", "parked", "elapsed", "reread", "allowed",
                       "denied", "running", "finished", "gone", "unrun", "cut"}]
  /\ waiters \subseteq {c \in Calls : pc[c] \in {"registered", "parked", "gone"}}
  /\ inbox \in [Calls -> Decisions \cup {None}]
  /\ delivering \in [Calls -> Decisions \cup {None}]
  /\ autoApprove \subseteq Tools
  /\ route \in [Surfaces -> Calls \cup {None}]
  /\ storeErrors \in 0..MaxStoreErrors /\ crashes \in 0..MaxCrashes

\* The ruling on a call is the row's decision; calls that ran unprompted have
\* one without a row.
Ruling(c) ==
  CASE rows[c] \in Approvals -> "granted"
    [] rows[c] = "deny" -> "refused"
    [] rows[c] = "absent" /\ pc[c] \in {"allowed", "running", "finished", "unrun", "cut"} -> "granted"
    [] OTHER -> "open"

Fate(c) ==
  CASE pc[c] \in {"running", "finished", "cut"} -> "acted"
    [] pc[c] \in {"denied", "gone", "unrun"} -> "dropped"
    [] OTHER -> "waiting"

\* The gate keeps the promise of Consent: no external effect without a ruling for
\* it, at most one, and rulings stand, whatever races, fails or restarts.
Promise == INSTANCE Consent WITH
  ruling <- [c \in Calls |-> Ruling(c)],
  fate   <- [c \in Calls |-> Fate(c)]
KeepsPromise == Promise!Spec

\* A parked call whose row is approved gets the approval: it is in the channel, or
\* the task that committed it still has it and the channel's sender is there.  (A
\* decision the store committed and then failed to read back reaches no one.)
ApprovalReachesCall ==
  \A c \in Calls : pc[c] = "parked" /\ rows[c] \in Approvals =>
    \/ inbox[c] = rows[c]
    \/ delivering[c] = rows[c] /\ c \in waiters
    \/ storeErrors > 0

\* Why the two copies of a decision agree: a call's row is there exactly while and
\* after it is parked, and lets it run only if it is approved ...
RowFollowsCall ==
  \A c \in Calls :
    /\ pc[c] \in {"new", "registered"} => rows[c] = "absent"
    /\ pc[c] \in {"parked", "elapsed"} => rows[c] # "absent"
    /\ pc[c] = "reread" => rows[c] \in Decisions
    /\ pc[c] \in {"allowed", "running", "finished", "unrun", "cut"} =>
         rows[c] \in Approvals \cup {"absent"}

\* ... a decision on its way, or in the channel, is the row's ...
DecisionsAgree ==
  \A c \in Calls : /\ delivering[c] # None => delivering[c] = rows[c]
                   /\ inbox[c] # None => inbox[c] = rows[c]

\* ... and as long as a call can be decided its waiter is there, and is used once.
WaiterIsReady ==
  \A c \in Calls :
    /\ pc[c] = "registered" \/ (pc[c] = "parked" /\ rows[c] = "pending") => c \in waiters
    /\ inbox[c] # None => c \notin waiters

\* The inductive invariant of the gate.
IInv == TypeOK /\ RowFollowsCall /\ DecisionsAgree /\ WaiterIsReady /\ ApprovalReachesCall

\* "without a re-read we'd return Deny here while the durable audit row says
\* Approved" (gate.rs:583-584): a call the gate turns away has no row, or a row
\* that says deny, unless the store failed.
DenialsAgree ==
  [][\A c \in Calls : pc[c] # "denied" /\ pc'[c] = "denied" /\ storeErrors' = storeErrors
       => rows'[c] \in {"absent", "deny"}]_vars

\* An approval of a parked call is acted on, although timeouts race it: the call
\* runs, unless its turn is cancelled, the process dies or the store fails.
ApprovedIsActedOn ==
  \A c \in Calls :
    pc[c] = "parked" /\ rows[c] \in Approvals ~>
      pc[c] \in {"running", "finished", "gone", "unrun", "cut"} \/ storeErrors > 0

\* A call that is out of the gate and that its surface still leads to: its turn was
\* cancelled, or, in a meeting, its insert failed and there is no row to decide.
LeftBehind(c, s) == pc[c] = "gone" \/ (pc[c] = "denied" /\ s \in Meetings /\ rows[c] = "absent")

\* A yes or no goes to "the approval currently parked" on its surface (gate.rs:725-733):
\* to a call that asked there and still waits, or to one left behind, but never to a
\* call that has its answer, whatever other calls cleared or wrote over.
RoutesKnown ==
  \A s \in Surfaces : route[s] # None =>
    LET c == route[s]
    IN  /\ s \in SurfacesOf[c]
        /\ pc[c] \in {"registered", "parked", "elapsed", "reread"} \/ LeftBehind(c, s)
=============================================================================
