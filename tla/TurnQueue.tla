----------------------------- MODULE TurnQueue -----------------------------
(***************************************************************************)
(* The chat turns of one thread: start_chat with its five queue modes, the *)
(* run queue that a running turn drains, interruption, cancellation and    *)
(* the follow-ups a finished turn dispatches.  Threads do not share        *)
(* anything here, so one of them is modelled.                              *)
(*                                                                         *)
(* A request is one call of start_chat; if it becomes a turn, the turn     *)
(* carries its id.  Each section under the IN_FLIGHT (PARALLEL_IN_FLIGHT,  *)
(* run queue) lock is one step, and the steps of different calls and turns *)
(* interleave.                                                             *)
(***************************************************************************)
EXTENDS Naturals, FiniteSets

CONSTANTS Requests,        \* calls of start_chat
          ModesOf,         \* queue modes a request may be sent with
          None,
          MaxCancels       \* bound: calls of cancel_chat and queue_clear

ASSUME RequestsFinite == IsFiniteSet(Requests) /\ None \notin Requests
ModeNames == {"interrupt", "steer", "followup", "collect", "parallel"}
ASSUME ModesKnown == ModesOf \in [Requests -> SUBSET ModeNames] /\ None \notin ModeNames
ASSUME BoundIsNat == MaxCancels \in Nat

VARIABLES
  call,        \* how far start_chat is with a request, or the queue with its message
  mode,        \* its queue_mode
  task,        \* the turn's task
  token,       \* its CancellationToken is cancelled
  inFlight,    \* IN_FLIGHT's entry for the thread
  parallel,    \* PARALLEL_IN_FLIGHT
  queue,       \* the RunQueue of each turn; a message's mode is its lane
  reported,    \* terminal events published for a request
  canceller,   \* cancel_chat is between its two locks
  stopped,     \* the primary turn it has cancelled so far
  cancels,
  displaced,   \* history: entries overwritten by, or added after, another's
  late         \* history: turns that had their result when cancelled

vars == <<call, mode, task, token, inFlight, parallel, queue, reported,
          canceller, stopped, cancels, displaced, late>>

Taken   == {"injected", "cleared"}
Started == {"fresh", "spawned", "accepted"}
Running == {"boundary", "collects", "model"}
Alive   == Running \cup {"answered", "delivered"}
Lanes   == {"steer", "followup", "collect"}

Lane(t, lane) == {m \in queue[t] : mode[m] = lane}

Move(messages, to) == [m \in Requests |-> IF m \in messages THEN to ELSE call[m]]

TypeOK ==
  /\ call \in [Requests -> {"none", "again", "queued", "routed"} \cup Taken \cup Started]
  /\ mode \in [Requests -> ModeNames \cup {None}]
  /\ task \in [Requests -> {"none", "ended"} \cup Alive]
  /\ token \in [Requests -> BOOLEAN]
  /\ inFlight \in Requests \cup {None}
  /\ parallel \in SUBSET Requests
  /\ queue \in [Requests -> SUBSET Requests]
  /\ reported \in [Requests -> SUBSET {"result", "cancelled"}]
  /\ canceller \in BOOLEAN
  /\ stopped \in SUBSET Requests
  /\ cancels \in 0..MaxCancels
  /\ displaced \in SUBSET Requests
  /\ late \in SUBSET Requests

Init ==
  /\ call = [r \in Requests |-> "none"]
  /\ mode = [r \in Requests |-> None]
  /\ task = [r \in Requests |-> "none"]
  /\ token = [r \in Requests |-> FALSE]
  /\ inFlight = None
  /\ parallel = {}
  /\ queue = [r \in Requests |-> {}]
  /\ reported = [r \in Requests |-> {}]
  /\ canceller = FALSE
  /\ stopped = {}
  /\ cancels = 0
  /\ displaced = {}
  /\ late = {}

-----------------------------------------------------------------------------
(* Cancelling a set of turns: their tokens, nothing else.                  *)

CancelTokens(turns) ==
  /\ token' = [r \in Requests |-> token[r] \/ r \in turns]
  /\ late' = late \cup {r \in Requests : r \in turns /\ task[r] \notin Running}

Entry == {inFlight} \ {None}

(* A call of start_chat: a client's, or that of a dispatched follow-up.    *)
(* Messages that validation or the prompt guard turns away never get here. *)
Arrives(r, m) ==
  /\ \/ call[r] = "none"
     \/ call[r] = "again" /\ m = mode[r]
  /\ mode' = [mode EXCEPT ![r] = m]

(* A yes or no while the approval gate has a route for the thread decides  *)
(* that approval; the message goes no further.                             *)
RouteReply(r, m) ==
  /\ Arrives(r, m)
  /\ call' = [call EXCEPT ![r] = "routed"]
  /\ UNCHANGED <<task, token, inFlight, parallel, queue, reported, canceller,
                 stopped, cancels, displaced, late>>

(* A steer, follow-up or collect joins the queue of the turn in flight.    *)
Enqueue(r, m) ==
  /\ m \in Lanes
  /\ inFlight # None
  /\ Arrives(r, m)
  /\ queue' = [queue EXCEPT ![inFlight] = @ \cup {r}]
  /\ call' = [call EXCEPT ![r] = "queued"]
  /\ UNCHANGED <<task, token, inFlight, parallel, reported, canceller, stopped,
                 cancels, displaced, late>>

(* Or finds none in flight, gives the lock back and goes on to start one.  *)
FindsIdle(r, m) ==
  /\ m \in Lanes
  /\ inFlight = None
  /\ Arrives(r, m)
  /\ call' = [call EXCEPT ![r] = "fresh"]
  /\ UNCHANGED <<task, token, inFlight, parallel, queue, reported, canceller,
                 stopped, cancels, displaced, late>>

(* Takes the entry out, cancels its turn and says so; then, without the    *)
(* lock, spawns the turn of its own.                                       *)
Replace(r, m) ==
  /\ \/ call[r] = "fresh" /\ UNCHANGED mode
     \/ m = "interrupt" /\ Arrives(r, m)
  /\ CancelTokens(Entry)
  /\ reported' = [t \in Requests |->
                    IF t \in Entry THEN reported[t] \cup {"cancelled"} ELSE reported[t]]
  /\ inFlight' = None
  /\ task' = [task EXCEPT ![r] = "boundary"]
  /\ call' = [call EXCEPT ![r] = "spawned"]
  /\ UNCHANGED <<parallel, queue, canceller, stopped, cancels,
                 displaced>>

(* The entry goes in under a second lock, over whatever is there by now.   *)
Register(r) ==
  /\ call[r] = "spawned"
  /\ mode[r] # "parallel"
  /\ inFlight' = r
  /\ call' = [call EXCEPT ![r] = "accepted"]
  /\ displaced' = displaced \cup Entry \cup {t \in {r} : task[t] = "ended"}
  /\ UNCHANGED <<mode, task, token, parallel, queue, reported, canceller,
                 stopped, cancels, late>>

(* spawn_parallel_turn, likewise in two steps.                             *)
SpawnParallel(r, m) ==
  /\ m = "parallel"
  /\ Arrives(r, m)
  /\ task' = [task EXCEPT ![r] = "boundary"]
  /\ call' = [call EXCEPT ![r] = "spawned"]
  /\ UNCHANGED <<token, inFlight, parallel, queue, reported,
                 canceller, stopped, cancels, displaced, late>>

RegisterParallel(r) ==
  /\ call[r] = "spawned"
  /\ mode[r] = "parallel"
  /\ parallel' = parallel \cup {r}
  /\ call' = [call EXCEPT ![r] = "accepted"]
  /\ displaced' = displaced \cup {t \in {r} : task[t] = "ended"}
  /\ UNCHANGED <<mode, task, token, inFlight, queue, reported, canceller,
                 stopped, cancels, late>>

-----------------------------------------------------------------------------
(* The turn's task.  The select is biased: a cancelled turn makes no       *)
(* further step of its own.                                                *)

\* Mutant: the select does not look at the token.
M_Goes(r) == TRUE
Goes(r) == ~token[r]

\* Mutant: the lane is copied instead of taken.
M_Without(r, messages) == queue
Without(r, messages) == [queue EXCEPT ![r] = @ \ messages]

(* Iteration boundary of the engine: poll, then take the steers, then the  *)
(* collects, each under the run queue's lock.                              *)
DrainSteers(r) ==
  /\ task[r] = "boundary"
  /\ Goes(r)
  /\ LET pending == Lane(r, "steer") \cup Lane(r, "collect")
         steers  == Lane(r, "steer")
     IN  /\ task' = [task EXCEPT ![r] = IF pending = {} THEN "model" ELSE "collects"]
         /\ queue' = Without(r, steers)
         /\ call' = Move(steers, "injected")
  /\ UNCHANGED <<mode, token, inFlight, parallel, reported,
                 canceller, stopped, cancels, displaced, late>>

DrainCollects(r) ==
  /\ task[r] = "collects"
  /\ Goes(r)
  /\ task' = [task EXCEPT ![r] = "model"]
  /\ queue' = Without(r, Lane(r, "collect"))
  /\ call' = Move(Lane(r, "collect"), "injected")
  /\ UNCHANGED <<mode, token, inFlight, parallel, reported,
                 canceller, stopped, cancels, displaced, late>>

(* The model asked for tools; they ran; back to the boundary.              *)
NextIteration(r) ==
  /\ task[r] = "model"
  /\ Goes(r)
  /\ task' = [task EXCEPT ![r] = "boundary"]
  /\ UNCHANGED <<call, mode, token, inFlight, parallel, queue, reported, canceller,
                 stopped, cancels, displaced, late>>

(* run_chat_task returns: an answer, or an error at any of its awaits.     *)
Finish(r) ==
  /\ task[r] \in Running
  /\ Goes(r)
  /\ task' = [task EXCEPT ![r] = "answered"]
  /\ UNCHANGED <<call, mode, token, inFlight, parallel, queue, reported,
                 canceller, stopped, cancels, displaced, late>>

(* deliver_response, which sleeps between segments, or chat_error.         *)
Deliver(r) ==
  /\ task[r] = "answered"
  /\ task' = [task EXCEPT ![r] = "delivered"]
  /\ reported' = [reported EXCEPT ![r] = @ \cup {"result"}]
  /\ UNCHANGED <<call, mode, token, inFlight, parallel, queue, canceller,
                 stopped, cancels, displaced, late>>

\* Mutant: the entry goes without its follow-ups.
M_Followups(r) == {}
Followups(r) == Lane(r, "followup")

(* The end of a primary turn.  If the entry is its own, its follow-ups     *)
(* leave the queue under the lock, and each goes through start_chat again  *)
(* in a task of its own; otherwise whatever is in its queue stays there.   *)
End(r) ==
  /\ task[r] = "delivered"
  /\ mode[r] # "parallel"
  /\ task' = [task EXCEPT ![r] = "ended"]
  /\ IF inFlight = r
       THEN /\ inFlight' = None
            /\ queue' = Without(r, Followups(r))
            /\ call' = Move(Followups(r), "again")
       ELSE UNCHANGED <<inFlight, queue, call>>
  /\ UNCHANGED <<mode, token, parallel, reported, canceller, stopped,
                 cancels, displaced, late>>

EndParallel(r) ==
  /\ task[r] = "delivered"
  /\ mode[r] = "parallel"
  /\ task' = [task EXCEPT ![r] = "ended"]
  /\ parallel' = parallel \ {r}
  /\ UNCHANGED <<call, mode, token, inFlight, queue, reported, canceller,
                 stopped, cancels, displaced, late>>

\* Mutant: the clean-up removes whatever entry is there.
M_Released(r) == None
Released(r) == IF inFlight = r THEN None ELSE inFlight

(* A cancelled turn's future is dropped; the task releases what it holds.  *)
Unwind(r) ==
  /\ task[r] \in Running
  /\ token[r]
  /\ task' = [task EXCEPT ![r] = "ended"]
  /\ inFlight' = Released(r)
  /\ parallel' = parallel \ {r}
  /\ UNCHANGED <<call, mode, token, queue, reported, canceller, stopped,
                 cancels, displaced, late>>

(* The backstop: five seconds after the cancellation the task is aborted.  *)
Abort(r) ==
  /\ task[r] \in Alive
  /\ token[r]
  /\ task' = [task EXCEPT ![r] = "ended"]
  /\ UNCHANGED <<call, mode, token, inFlight, parallel, queue, reported,
                 canceller, stopped, cancels, displaced, late>>

-----------------------------------------------------------------------------
(* cancel_chat: the primary under one lock, the parallel turns under the   *)
(* other, then the events.                                                 *)
CancelPrimary ==
  /\ ~canceller
  /\ cancels < MaxCancels
  /\ cancels' = cancels + 1
  /\ CancelTokens(Entry)
  /\ canceller' = TRUE
  /\ stopped' = Entry
  /\ inFlight' = None
  /\ UNCHANGED <<call, mode, task, parallel, queue, reported, displaced>>

\* Mutant: only the primary turn's client is told.
M_Stopped == stopped
Stopped == stopped \cup parallel

CancelParallels ==
  /\ canceller
  /\ CancelTokens(parallel)
  /\ parallel' = {}
  /\ reported' = [t \in Requests |-> IF t \in Stopped
                                       THEN reported[t] \cup {"cancelled"} ELSE reported[t]]
  /\ canceller' = FALSE
  /\ stopped' = {}
  /\ UNCHANGED <<call, mode, task, inFlight, queue, cancels, displaced>>

(* channel_web_queue_clear.                                                *)
ClearQueue ==
  /\ inFlight # None
  /\ cancels < MaxCancels
  /\ cancels' = cancels + 1
  /\ call' = Move(queue[inFlight], "cleared")
  /\ queue' = [queue EXCEPT ![inFlight] = {}]
  /\ UNCHANGED <<mode, task, token, inFlight, parallel, reported,
                 canceller, stopped, displaced, late>>

-----------------------------------------------------------------------------

StartStep(r, m) ==
  \/ Enqueue(r, m) \/ FindsIdle(r, m) \/ Replace(r, m) \/ Register(r)
  \/ SpawnParallel(r, m) \/ RegisterParallel(r)

TurnStep(r) ==
  \/ DrainSteers(r) \/ DrainCollects(r) \/ NextIteration(r) \/ Finish(r)
  \/ Deliver(r) \/ End(r) \/ EndParallel(r) \/ Unwind(r)

Next ==
  \/ \E r \in Requests :
       \/ \E m \in ModesOf[r] : RouteReply(r, m) \/ StartStep(r, m)
       \/ TurnStep(r)
       \/ Abort(r)
  \/ CancelPrimary
  \/ CancelParallels
  \/ ClearQueue

(* The runtime polls every task that can go on.  run_chat_task returns     *)
(* some time: it makes at most max_iterations rounds.  Nobody has to call  *)
(* start_chat, cancel or clear, and a reply need not find an approval.     *)
Fairness ==
  /\ \A r \in Requests :
       /\ WF_vars(call[r] # "none" /\ \E m \in ModesOf[r] : StartStep(r, m))
       /\ WF_vars(TurnStep(r))
       /\ WF_vars(Finish(r))
  /\ WF_vars(CancelParallels)

Spec == Init /\ [][Next]_vars /\ Fairness

-----------------------------------------------------------------------------
(* Every accepted turn that is still going and was not told to stop is in  *)
(* one of the two tables, so cancel_chat reaches it: no turn's clean-up    *)
(* takes another's entry.  The exception is an entry that a concurrent     *)
(* start_chat wrote over.                                                  *)
LiveTurnsAreReachable ==
  \A r \in Requests :
    call[r] = "accepted" /\ task[r] \in Alive /\ ~token[r] /\ r \notin displaced
      => r \in Entry \cup parallel

(* A follow-up is left behind in the queue of an ended turn only if the    *)
(* turn was cancelled, or its entry was written over or written too late.  *)
OnlyDisplacedStrand ==
  \A t \in Requests :
    task[t] = "ended" /\ Lane(t, "followup") # {} => token[t] \/ t \in displaced

(* A message is in one place: in one queue, before a model, cleared, or a  *)
(* turn of its own; nothing is answered twice.                             *)
HandledOnce ==
  \A m \in Requests :
    /\ \A t1, t2 \in Requests : m \in queue[t1] \cap queue[t2] => t1 = t2
    /\ call[m] = "queued" <=> \E t \in Requests : m \in queue[t]
    /\ task[m] # "none" => call[m] \in {"spawned", "accepted"}

(* A client that was told its turn is cancelled gets a result all the same *)
(* only if the turn had its result when it was cancelled.                  *)
CancelledStaysQuiet ==
  \A r \in Requests : reported[r] = {"result", "cancelled"} => r \in late

(* Every turn that starts ends in a terminal event: whoever waits for one  *)
(* (agentbox, the inbound channels) is answered.                           *)
EveryTurnReports ==
  \A r \in Requests : task[r] # "none" ~> reported[r] # {}

(* A queued follow-up gets a turn, or is a reply to an approval, unless    *)
(* the user cleared it or the turn it waits for was cancelled or lost its  *)
(* entry.                                                                  *)
FollowupRuns ==
  \A m \in Requests :
    call[m] = "queued" /\ mode[m] = "followup" ~>
      \/ call[m] \in {"accepted", "routed", "cleared"}
      \/ \E t \in Requests : m \in queue[t] /\ (token[t] \/ t \in displaced)
=============================================================================
