-------------------------- MODULE TurnQueueProofs --------------------------
(***************************************************************************)
(* Safety of TurnQueue for any number of requests.                         *)
(***************************************************************************)
EXTENDS TurnQueue, TLAPS

(* A turn's task starts when its call spawns it, and the two tables hold   *)
(* registered turns of their own kind.                                     *)
TablesHoldTurns ==
  \A r \in Requests :
    /\ task[r] # "none" <=> call[r] \in {"spawned", "accepted"}
    /\ inFlight = r => call[r] = "accepted" /\ mode[r] # "parallel"
    /\ r \in parallel => call[r] = "accepted" /\ mode[r] = "parallel"
    /\ mode[r] = None <=> call[r] = "none"

(* Whoever cancels a turn has taken its entry out before.                  *)
CancelledHasNoEntry ==
  \A r \in Requests :
    token[r] => call[r] = "accepted" /\ r \notin Entry \cup parallel

(* Only a primary turn that was registered gets messages, and a message    *)
(* waits in one queue.                                                     *)
QueuesOfPrimaries ==
  \A t \in Requests : queue[t] # {} => call[t] = "accepted" /\ mode[t] # "parallel"

QueuedOnce ==
  \A m \in Requests :
    /\ \A t1, t2 \in Requests : m \in queue[t1] /\ m \in queue[t2] => t1 = t2
    /\ call[m] = "queued" <=> \E t \in Requests : m \in queue[t]

(* An entry whose task has ended was registered too late.                  *)
StaleIsDisplaced ==
  \A t \in Requests : inFlight = t /\ task[t] = "ended" => t \in displaced

(* What a client was told agrees with the turn.                            *)
ReportsAgree ==
  /\ stopped \subseteq {r \in Requests : token[r]}
  /\ \A r \in Requests :
       /\ "cancelled" \in reported[r] => token[r]
       /\ "result" \in reported[r] => task[r] \in {"delivered", "ended"}
       /\ token[r] /\ r \notin late =>
            task[r] \in Running \cup {"ended"} /\ "result" \notin reported[r]

IInv ==
  /\ TypeOK
  /\ TablesHoldTurns
  /\ CancelledHasNoEntry
  /\ QueuesOfPrimaries
  /\ QueuedOnce
  /\ StaleIsDisplaced
  /\ ReportsAgree
  /\ LiveTurnsAreReachable
  /\ OnlyDisplacedStrand
(* Every step keeps the types of the state (the maps and tables above).     *)
LEMMA TypeOKStep == IInv /\ [Next]_vars => TypeOK'
<1> SUFFICES ASSUME IInv, [Next]_vars PROVE TypeOK'
  OBVIOUS
<1>1. ASSUME NEW r \in Requests, NEW m \in ModesOf[r], RouteReply(r, m) PROVE TypeOK'
  BY <1>1, RequestsFinite, ModesKnown DEF IInv, TypeOK, RouteReply, Arrives, Taken, Started,
     Running, Alive, Lanes, ModeNames, Entry, Lane
<1>2. ASSUME NEW r \in Requests, NEW m \in ModesOf[r], Enqueue(r, m) PROVE TypeOK'
  BY <1>2, RequestsFinite, ModesKnown DEF IInv, TypeOK, Enqueue, Arrives, Taken, Started,
     Running, Alive, Lanes, ModeNames, Entry, Lane
<1>3. ASSUME NEW r \in Requests, NEW m \in ModesOf[r], FindsIdle(r, m) PROVE TypeOK'
  BY <1>3, RequestsFinite, ModesKnown DEF IInv, TypeOK, FindsIdle, Arrives, Taken, Started,
     Running, Alive, Lanes, ModeNames, Entry, Lane
<1>4. ASSUME NEW r \in Requests, NEW m \in ModesOf[r], Replace(r, m) PROVE TypeOK'
  BY <1>4, RequestsFinite, ModesKnown DEF IInv, TypeOK, Replace, Arrives, CancelTokens, Entry,
     Taken, Started, Running, Alive, Lanes, ModeNames, Lane
<1>5. ASSUME NEW r \in Requests, Register(r) PROVE TypeOK'
  BY <1>5, RequestsFinite DEF IInv, TypeOK, Register, Entry, Taken, Started, Running, Alive,
     Lanes, ModeNames, Lane
<1>6. ASSUME NEW r \in Requests, NEW m \in ModesOf[r], SpawnParallel(r, m) PROVE TypeOK'
  BY <1>6, RequestsFinite, ModesKnown DEF IInv, TypeOK, SpawnParallel, Arrives, Taken, Started,
     Running, Alive, Lanes, ModeNames, Entry, Lane
<1>7. ASSUME NEW r \in Requests, RegisterParallel(r) PROVE TypeOK'
  BY <1>7, RequestsFinite DEF IInv, TypeOK, RegisterParallel, Taken, Started, Running, Alive,
     Lanes, ModeNames, Entry, Lane
<1>8. ASSUME NEW r \in Requests, DrainSteers(r) PROVE TypeOK'
  BY <1>8, RequestsFinite DEF IInv, TypeOK, DrainSteers, Goes, Without, Move, Lane, Taken,
     Started, Running, Alive, Lanes, ModeNames, Entry
<1>9. ASSUME NEW r \in Requests, DrainCollects(r) PROVE TypeOK'
  BY <1>9, RequestsFinite DEF IInv, TypeOK, DrainCollects, Goes, Without, Move, Lane, Taken,
     Started, Running, Alive, Lanes, ModeNames, Entry
<1>10. ASSUME NEW r \in Requests, NextIteration(r) PROVE TypeOK'
  BY <1>10, RequestsFinite DEF IInv, TypeOK, NextIteration, Goes, Taken, Started, Running, Alive,
     Lanes, ModeNames, Entry, Lane
<1>11. ASSUME NEW r \in Requests, Finish(r) PROVE TypeOK'
  BY <1>11, RequestsFinite DEF IInv, TypeOK, Finish, Goes, Taken, Started, Running, Alive, Lanes,
     ModeNames, Entry, Lane
<1>12. ASSUME NEW r \in Requests, Deliver(r) PROVE TypeOK'
  BY <1>12, RequestsFinite DEF IInv, TypeOK, Deliver, Taken, Started, Running, Alive, Lanes,
     ModeNames, Entry, Lane
<1>13. ASSUME NEW r \in Requests, End(r) PROVE TypeOK'
  BY <1>13, RequestsFinite DEF IInv, TypeOK, End, Without, Followups, Move, Lane, Taken, Started,
     Running, Alive, Lanes, ModeNames, Entry
<1>14. ASSUME NEW r \in Requests, EndParallel(r) PROVE TypeOK'
  BY <1>14, RequestsFinite DEF IInv, TypeOK, EndParallel, Taken, Started, Running, Alive, Lanes,
     ModeNames, Entry, Lane
<1>15. ASSUME NEW r \in Requests, Unwind(r) PROVE TypeOK'
  BY <1>15, RequestsFinite DEF IInv, TypeOK, Unwind, Released, Taken, Started, Running, Alive,
     Lanes, ModeNames, Entry, Lane
<1>16. ASSUME NEW r \in Requests, Abort(r) PROVE TypeOK'
  BY <1>16, RequestsFinite DEF IInv, TypeOK, Abort, Taken, Started, Running, Alive, Lanes,
     ModeNames, Entry, Lane
<1>17. CASE CancelPrimary
  BY <1>17, RequestsFinite, BoundIsNat DEF IInv, TypeOK, CancelPrimary, CancelTokens, Entry,
     Taken, Started, Running, Alive, Lanes, ModeNames, Lane
<1>18. CASE CancelParallels
  BY <1>18, RequestsFinite DEF IInv, TypeOK, CancelParallels, CancelTokens, Stopped, Taken,
     Started, Running, Alive, Lanes, ModeNames, Entry, Lane
<1>19. CASE ClearQueue
  BY <1>19, RequestsFinite, BoundIsNat DEF IInv, TypeOK, ClearQueue, Move, Taken, Started,
     Running, Alive, Lanes, ModeNames, Entry, Lane
<1>20. CASE UNCHANGED vars
  BY <1>20 DEF IInv, TypeOK, vars, Entry, Lane
<1> QED
  BY <1>1, <1>2, <1>3, <1>4, <1>5, <1>6, <1>7, <1>8, <1>9, <1>10,
     <1>11, <1>12, <1>13, <1>14, <1>15, <1>16, <1>17, <1>18, <1>19, <1>20
     DEF Next, StartStep, TurnStep

(* Every step keeps the two tables to registered turns of their own kind.   *)
LEMMA TablesHoldTurnsStep == IInv /\ [Next]_vars => TablesHoldTurns'
<1> SUFFICES ASSUME IInv, [Next]_vars PROVE TablesHoldTurns'
  OBVIOUS
<1>1. ASSUME NEW r \in Requests, NEW m \in ModesOf[r], RouteReply(r, m) PROVE TablesHoldTurns'
  <2>1. call[r] \in {"none", "again"} /\ m # None
    BY <1>1, ModesKnown DEF RouteReply, Arrives, ModeNames
  <2>2. UNCHANGED <<task, inFlight, parallel>> /\ mode' = [mode EXCEPT ![r] = m]
        /\ call' = [call EXCEPT ![r] = "routed"]
    BY <1>1 DEF RouteReply, Arrives
  <2> QED
    BY <2>1, <2>2 DEF IInv, TablesHoldTurns, TypeOK
<1>2. ASSUME NEW r \in Requests, NEW m \in ModesOf[r], Enqueue(r, m) PROVE TablesHoldTurns'
  BY <1>2, RequestsFinite, ModesKnown DEF IInv, QueuedOnce, QueuesOfPrimaries, TablesHoldTurns,
     TypeOK, Enqueue, Arrives, Taken, Started, Running, Alive, Lanes, ModeNames, Entry, Lane
<1>3. ASSUME NEW r \in Requests, NEW m \in ModesOf[r], FindsIdle(r, m) PROVE TablesHoldTurns'
  BY <1>3, RequestsFinite, ModesKnown DEF IInv, QueuedOnce, QueuesOfPrimaries, TablesHoldTurns,
     TypeOK, FindsIdle, Arrives, Taken, Started, Running, Alive, Lanes, ModeNames, Entry, Lane
<1>4. ASSUME NEW r \in Requests, NEW m \in ModesOf[r], Replace(r, m) PROVE TablesHoldTurns'
  BY <1>4, RequestsFinite, ModesKnown DEF IInv, QueuedOnce, QueuesOfPrimaries, TablesHoldTurns,
     TypeOK, Replace, Arrives, CancelTokens, Entry, Taken, Started, Running, Alive, Lanes,
     ModeNames, Lane
<1>5. ASSUME NEW r \in Requests, Register(r) PROVE TablesHoldTurns'
  BY <1>5, RequestsFinite DEF IInv, QueuedOnce, QueuesOfPrimaries, TablesHoldTurns, TypeOK,
     Register, Entry, Taken, Started, Running, Alive, Lanes, ModeNames, Lane
<1>6. ASSUME NEW r \in Requests, NEW m \in ModesOf[r], SpawnParallel(r, m) PROVE TablesHoldTurns'
  BY <1>6, RequestsFinite, ModesKnown DEF IInv, QueuedOnce, QueuesOfPrimaries, TablesHoldTurns,
     TypeOK, SpawnParallel, Arrives, Taken, Started, Running, Alive, Lanes, ModeNames, Entry, Lane
<1>7. ASSUME NEW r \in Requests, RegisterParallel(r) PROVE TablesHoldTurns'
  BY <1>7, RequestsFinite DEF IInv, QueuedOnce, QueuesOfPrimaries, TablesHoldTurns, TypeOK,
     RegisterParallel, Taken, Started, Running, Alive, Lanes, ModeNames, Entry, Lane
<1>8. ASSUME NEW r \in Requests, DrainSteers(r) PROVE TablesHoldTurns'
  BY <1>8, RequestsFinite DEF IInv, QueuedOnce, QueuesOfPrimaries, TablesHoldTurns, TypeOK,
     DrainSteers, Goes, Without, Move, Lane, Taken, Started, Running, Alive, Lanes, ModeNames,
     Entry
<1>9. ASSUME NEW r \in Requests, DrainCollects(r) PROVE TablesHoldTurns'
  BY <1>9, RequestsFinite DEF IInv, QueuedOnce, QueuesOfPrimaries, TablesHoldTurns, TypeOK,
     DrainCollects, Goes, Without, Move, Lane, Taken, Started, Running, Alive, Lanes, ModeNames,
     Entry
<1>10. ASSUME NEW r \in Requests, NextIteration(r) PROVE TablesHoldTurns'
  BY <1>10, RequestsFinite DEF IInv, QueuedOnce, QueuesOfPrimaries, TablesHoldTurns, TypeOK,
     NextIteration, Goes, Taken, Started, Running, Alive, Lanes, ModeNames, Entry, Lane
<1>11. ASSUME NEW r \in Requests, Finish(r) PROVE TablesHoldTurns'
  BY <1>11, RequestsFinite DEF IInv, QueuedOnce, QueuesOfPrimaries, TablesHoldTurns, TypeOK,
     Finish, Goes, Taken, Started, Running, Alive, Lanes, ModeNames, Entry, Lane
<1>12. ASSUME NEW r \in Requests, Deliver(r) PROVE TablesHoldTurns'
  BY <1>12, RequestsFinite DEF IInv, QueuedOnce, QueuesOfPrimaries, TablesHoldTurns, TypeOK,
     Deliver, Taken, Started, Running, Alive, Lanes, ModeNames, Entry, Lane
<1>13. ASSUME NEW r \in Requests, End(r) PROVE TablesHoldTurns'
  BY <1>13, RequestsFinite DEF IInv, QueuedOnce, QueuesOfPrimaries, TablesHoldTurns, TypeOK, End,
     Without, Followups, Move, Lane, Taken, Started, Running, Alive, Lanes, ModeNames, Entry
<1>14. ASSUME NEW r \in Requests, EndParallel(r) PROVE TablesHoldTurns'
  BY <1>14, RequestsFinite DEF IInv, QueuedOnce, QueuesOfPrimaries, TablesHoldTurns, TypeOK,
     EndParallel, Taken, Started, Running, Alive, Lanes, ModeNames, Entry, Lane
<1>15. ASSUME NEW r \in Requests, Unwind(r) PROVE TablesHoldTurns'
  BY <1>15, RequestsFinite DEF IInv, QueuedOnce, QueuesOfPrimaries, TablesHoldTurns, TypeOK,
     Unwind, Released, Taken, Started, Running, Alive, Lanes, ModeNames, Entry, Lane
<1>16. ASSUME NEW r \in Requests, Abort(r) PROVE TablesHoldTurns'
  BY <1>16, RequestsFinite DEF IInv, QueuedOnce, QueuesOfPrimaries, TablesHoldTurns, TypeOK,
     Abort, Taken, Started, Running, Alive, Lanes, ModeNames, Entry, Lane
<1>17. CASE CancelPrimary
  BY <1>17, RequestsFinite DEF IInv, QueuedOnce, QueuesOfPrimaries, TablesHoldTurns, TypeOK,
     CancelPrimary, CancelTokens, Entry, Taken, Started, Running, Alive, Lanes, ModeNames, Lane
<1>18. CASE CancelParallels
  BY <1>18, RequestsFinite DEF IInv, QueuedOnce, QueuesOfPrimaries, TablesHoldTurns, TypeOK,
     CancelParallels, CancelTokens, Stopped, Taken, Started, Running, Alive, Lanes, ModeNames,
     Entry, Lane
<1>19. CASE ClearQueue
  BY <1>19, RequestsFinite DEF IInv, QueuedOnce, QueuesOfPrimaries, TablesHoldTurns, TypeOK,
     ClearQueue, Move, Taken, Started, Running, Alive, Lanes, ModeNames, Entry, Lane
<1>20. CASE UNCHANGED vars
  BY <1>20 DEF IInv, QueuedOnce, QueuesOfPrimaries, TablesHoldTurns, TypeOK, vars, Entry, Lane
<1> QED
  BY <1>1, <1>2, <1>3, <1>4, <1>5, <1>6, <1>7, <1>8, <1>9, <1>10,
     <1>11, <1>12, <1>13, <1>14, <1>15, <1>16, <1>17, <1>18, <1>19, <1>20
     DEF Next, StartStep, TurnStep

(* cancel_chat, start_chat: a token is cancelled only as its entry goes.    *)
LEMMA CancelledHasNoEntryStep == IInv /\ [Next]_vars => CancelledHasNoEntry'
<1> SUFFICES ASSUME IInv, [Next]_vars PROVE CancelledHasNoEntry'
  OBVIOUS
<1>1. ASSUME NEW r \in Requests, NEW m \in ModesOf[r], RouteReply(r, m) PROVE CancelledHasNoEntry'
  BY <1>1, RequestsFinite, ModesKnown DEF IInv, CancelledHasNoEntry, QueuedOnce, TablesHoldTurns,
     TypeOK, RouteReply, Arrives, Taken, Started, Running, Alive, Lanes, ModeNames, Entry, Lane
<1>2. ASSUME NEW r \in Requests, NEW m \in ModesOf[r], Enqueue(r, m) PROVE CancelledHasNoEntry'
  BY <1>2, RequestsFinite, ModesKnown DEF IInv, CancelledHasNoEntry, QueuedOnce, TablesHoldTurns,
     TypeOK, Enqueue, Arrives, Taken, Started, Running, Alive, Lanes, ModeNames, Entry, Lane
<1>3. ASSUME NEW r \in Requests, NEW m \in ModesOf[r], FindsIdle(r, m) PROVE CancelledHasNoEntry'
  BY <1>3, RequestsFinite, ModesKnown DEF IInv, CancelledHasNoEntry, QueuedOnce, TablesHoldTurns,
     TypeOK, FindsIdle, Arrives, Taken, Started, Running, Alive, Lanes, ModeNames, Entry, Lane
<1>4. ASSUME NEW r \in Requests, NEW m \in ModesOf[r], Replace(r, m) PROVE CancelledHasNoEntry'
  BY <1>4, RequestsFinite, ModesKnown DEF IInv, CancelledHasNoEntry, QueuedOnce, TablesHoldTurns,
     TypeOK, Replace, Arrives, CancelTokens, Entry, Taken, Started, Running, Alive, Lanes,
     ModeNames, Lane
<1>5. ASSUME NEW r \in Requests, Register(r) PROVE CancelledHasNoEntry'
  BY <1>5, RequestsFinite DEF IInv, CancelledHasNoEntry, QueuedOnce, TablesHoldTurns, TypeOK,
     Register, Entry, Taken, Started, Running, Alive, Lanes, ModeNames, Lane
<1>6. ASSUME NEW r \in Requests, NEW m \in ModesOf[r], SpawnParallel(r, m) PROVE CancelledHasNoEntry'
  BY <1>6, RequestsFinite, ModesKnown DEF IInv, CancelledHasNoEntry, QueuedOnce, TablesHoldTurns,
     TypeOK, SpawnParallel, Arrives, Taken, Started, Running, Alive, Lanes, ModeNames, Entry, Lane
<1>7. ASSUME NEW r \in Requests, RegisterParallel(r) PROVE CancelledHasNoEntry'
  BY <1>7, RequestsFinite DEF IInv, CancelledHasNoEntry, QueuedOnce, TablesHoldTurns, TypeOK,
     RegisterParallel, Taken, Started, Running, Alive, Lanes, ModeNames, Entry, Lane
<1>8. ASSUME NEW r \in Requests, DrainSteers(r) PROVE CancelledHasNoEntry'
  BY <1>8, RequestsFinite DEF IInv, CancelledHasNoEntry, QueuedOnce, TablesHoldTurns, TypeOK,
     DrainSteers, Goes, Without, Move, Lane, Taken, Started, Running, Alive, Lanes, ModeNames,
     Entry
<1>9. ASSUME NEW r \in Requests, DrainCollects(r) PROVE CancelledHasNoEntry'
  BY <1>9, RequestsFinite DEF IInv, CancelledHasNoEntry, QueuedOnce, TablesHoldTurns, TypeOK,
     DrainCollects, Goes, Without, Move, Lane, Taken, Started, Running, Alive, Lanes, ModeNames,
     Entry
<1>10. ASSUME NEW r \in Requests, NextIteration(r) PROVE CancelledHasNoEntry'
  BY <1>10, RequestsFinite DEF IInv, CancelledHasNoEntry, QueuedOnce, TablesHoldTurns, TypeOK,
     NextIteration, Goes, Taken, Started, Running, Alive, Lanes, ModeNames, Entry, Lane
<1>11. ASSUME NEW r \in Requests, Finish(r) PROVE CancelledHasNoEntry'
  BY <1>11, RequestsFinite DEF IInv, CancelledHasNoEntry, QueuedOnce, TablesHoldTurns, TypeOK,
     Finish, Goes, Taken, Started, Running, Alive, Lanes, ModeNames, Entry, Lane
<1>12. ASSUME NEW r \in Requests, Deliver(r) PROVE CancelledHasNoEntry'
  BY <1>12, RequestsFinite DEF IInv, CancelledHasNoEntry, QueuedOnce, TablesHoldTurns, TypeOK,
     Deliver, Taken, Started, Running, Alive, Lanes, ModeNames, Entry, Lane
<1>13. ASSUME NEW r \in Requests, End(r) PROVE CancelledHasNoEntry'
  BY <1>13, RequestsFinite DEF IInv, CancelledHasNoEntry, QueuedOnce, TablesHoldTurns, TypeOK,
     End, Without, Followups, Move, Lane, Taken, Started, Running, Alive, Lanes, ModeNames, Entry
<1>14. ASSUME NEW r \in Requests, EndParallel(r) PROVE CancelledHasNoEntry'
  BY <1>14, RequestsFinite DEF IInv, CancelledHasNoEntry, QueuedOnce, TablesHoldTurns, TypeOK,
     EndParallel, Taken, Started, Running, Alive, Lanes, ModeNames, Entry, Lane
<1>15. ASSUME NEW r \in Requests, Unwind(r) PROVE CancelledHasNoEntry'
  BY <1>15, RequestsFinite DEF IInv, CancelledHasNoEntry, QueuedOnce, TablesHoldTurns, TypeOK,
     Unwind, Released, Taken, Started, Running, Alive, Lanes, ModeNames, Entry, Lane
<1>16. ASSUME NEW r \in Requests, Abort(r) PROVE CancelledHasNoEntry'
  BY <1>16, RequestsFinite DEF IInv, CancelledHasNoEntry, QueuedOnce, TablesHoldTurns, TypeOK,
     Abort, Taken, Started, Running, Alive, Lanes, ModeNames, Entry, Lane
<1>17. CASE CancelPrimary
  BY <1>17, RequestsFinite DEF IInv, CancelledHasNoEntry, QueuedOnce, TablesHoldTurns, TypeOK,
     CancelPrimary, CancelTokens, Entry, Taken, Started, Running, Alive, Lanes, ModeNames, Lane
<1>18. CASE CancelParallels
  BY <1>18, RequestsFinite DEF IInv, CancelledHasNoEntry, QueuedOnce, TablesHoldTurns, TypeOK,
     CancelParallels, CancelTokens, Stopped, Taken, Started, Running, Alive, Lanes, ModeNames,
     Entry, Lane
<1>19. CASE ClearQueue
  BY <1>19, RequestsFinite DEF IInv, CancelledHasNoEntry, QueuedOnce, TablesHoldTurns, TypeOK,
     ClearQueue, Move, Taken, Started, Running, Alive, Lanes, ModeNames, Entry, Lane
<1>20. CASE UNCHANGED vars
  BY <1>20 DEF IInv, CancelledHasNoEntry, QueuedOnce, TablesHoldTurns, TypeOK, vars, Entry, Lane
<1> QED
  BY <1>1, <1>2, <1>3, <1>4, <1>5, <1>6, <1>7, <1>8, <1>9, <1>10,
     <1>11, <1>12, <1>13, <1>14, <1>15, <1>16, <1>17, <1>18, <1>19, <1>20
     DEF Next, StartStep, TurnStep

(* Enqueue pushes onto the entry's queue only, that of a registered primary. *)
LEMMA QueuesOfPrimariesStep == IInv /\ [Next]_vars => QueuesOfPrimaries'
<1> SUFFICES ASSUME IInv, [Next]_vars PROVE QueuesOfPrimaries'
  OBVIOUS
<1>1. ASSUME NEW r \in Requests, NEW m \in ModesOf[r], RouteReply(r, m) PROVE QueuesOfPrimaries'
  BY <1>1, RequestsFinite, ModesKnown DEF IInv, QueuedOnce, QueuesOfPrimaries, TablesHoldTurns,
     TypeOK, RouteReply, Arrives, Taken, Started, Running, Alive, Lanes, ModeNames, Entry, Lane
<1>2. ASSUME NEW r \in Requests, NEW m \in ModesOf[r], Enqueue(r, m) PROVE QueuesOfPrimaries'
  BY <1>2, RequestsFinite, ModesKnown DEF IInv, QueuedOnce, QueuesOfPrimaries, TablesHoldTurns,
     TypeOK, Enqueue, Arrives, Taken, Started, Running, Alive, Lanes, ModeNames, Entry, Lane
<1>3. ASSUME NEW r \in Requests, NEW m \in ModesOf[r], FindsIdle(r, m) PROVE QueuesOfPrimaries'
  BY <1>3, RequestsFinite, ModesKnown DEF IInv, QueuedOnce, QueuesOfPrimaries, TablesHoldTurns,
     TypeOK, FindsIdle, Arrives, Taken, Started, Running, Alive, Lanes, ModeNames, Entry, Lane
<1>4. ASSUME NEW r \in Requests, NEW m \in ModesOf[r], Replace(r, m) PROVE QueuesOfPrimaries'
  BY <1>4, RequestsFinite, ModesKnown DEF IInv, QueuedOnce, QueuesOfPrimaries, TablesHoldTurns,
     TypeOK, Replace, Arrives, CancelTokens, Entry, Taken, Started, Running, Alive, Lanes,
     ModeNames, Lane
<1>5. ASSUME NEW r \in Requests, Register(r) PROVE QueuesOfPrimaries'
  BY <1>5, RequestsFinite DEF IInv, QueuedOnce, QueuesOfPrimaries, TablesHoldTurns, TypeOK,
     Register, Entry, Taken, Started, Running, Alive, Lanes, ModeNames, Lane
<1>6. ASSUME NEW r \in Requests, NEW m \in ModesOf[r], SpawnParallel(r, m) PROVE QueuesOfPrimaries'
  BY <1>6, RequestsFinite, ModesKnown DEF IInv, QueuedOnce, QueuesOfPrimaries, TablesHoldTurns,
     TypeOK, SpawnParallel, Arrives, Taken, Started, Running, Alive, Lanes, ModeNames, Entry, Lane
<1>7. ASSUME NEW r \in Requests, RegisterParallel(r) PROVE QueuesOfPrimaries'
  BY <1>7, RequestsFinite DEF IInv, QueuedOnce, QueuesOfPrimaries, TablesHoldTurns, TypeOK,
     RegisterParallel, Taken, Started, Running, Alive, Lanes, ModeNames, Entry, Lane
<1>8. ASSUME NEW r \in Requests, DrainSteers(r) PROVE QueuesOfPrimaries'
  BY <1>8, RequestsFinite DEF IInv, QueuedOnce, QueuesOfPrimaries, TablesHoldTurns, TypeOK,
     DrainSteers, Goes, Without, Move, Lane, Taken, Started, Running, Alive, Lanes, ModeNames,
     Entry
<1>9. ASSUME NEW r \in Requests, DrainCollects(r) PROVE QueuesOfPrimaries'
  BY <1>9, RequestsFinite DEF IInv, QueuedOnce, QueuesOfPrimaries, TablesHoldTurns, TypeOK,
     DrainCollects, Goes, Without, Move, Lane, Taken, Started, Running, Alive, Lanes, ModeNames,
     Entry
<1>10. ASSUME NEW r \in Requests, NextIteration(r) PROVE QueuesOfPrimaries'
  BY <1>10, RequestsFinite DEF IInv, QueuedOnce, QueuesOfPrimaries, TablesHoldTurns, TypeOK,
     NextIteration, Goes, Taken, Started, Running, Alive, Lanes, ModeNames, Entry, Lane
<1>11. ASSUME NEW r \in Requests, Finish(r) PROVE QueuesOfPrimaries'
  BY <1>11, RequestsFinite DEF IInv, QueuedOnce, QueuesOfPrimaries, TablesHoldTurns, TypeOK,
     Finish, Goes, Taken, Started, Running, Alive, Lanes, ModeNames, Entry, Lane
<1>12. ASSUME NEW r \in Requests, Deliver(r) PROVE QueuesOfPrimaries'
  BY <1>12, RequestsFinite DEF IInv, QueuedOnce, QueuesOfPrimaries, TablesHoldTurns, TypeOK,
     Deliver, Taken, Started, Running, Alive, Lanes, ModeNames, Entry, Lane
<1>13. ASSUME NEW r \in Requests, End(r) PROVE QueuesOfPrimaries'
  BY <1>13, RequestsFinite DEF IInv, QueuedOnce, QueuesOfPrimaries, TablesHoldTurns, TypeOK, End,
     Without, Followups, Move, Lane, Taken, Started, Running, Alive, Lanes, ModeNames, Entry
<1>14. ASSUME NEW r \in Requests, EndParallel(r) PROVE QueuesOfPrimaries'
  BY <1>14, RequestsFinite DEF IInv, QueuedOnce, QueuesOfPrimaries, TablesHoldTurns, TypeOK,
     EndParallel, Taken, Started, Running, Alive, Lanes, ModeNames, Entry, Lane
<1>15. ASSUME NEW r \in Requests, Unwind(r) PROVE QueuesOfPrimaries'
  BY <1>15, RequestsFinite DEF IInv, QueuedOnce, QueuesOfPrimaries, TablesHoldTurns, TypeOK,
     Unwind, Released, Taken, Started, Running, Alive, Lanes, ModeNames, Entry, Lane
<1>16. ASSUME NEW r \in Requests, Abort(r) PROVE QueuesOfPrimaries'
  BY <1>16, RequestsFinite DEF IInv, QueuedOnce, QueuesOfPrimaries, TablesHoldTurns, TypeOK,
     Abort, Taken, Started, Running, Alive, Lanes, ModeNames, Entry, Lane
<1>17. CASE CancelPrimary
  BY <1>17, RequestsFinite DEF IInv, QueuedOnce, QueuesOfPrimaries, TablesHoldTurns, TypeOK,
     CancelPrimary, CancelTokens, Entry, Taken, Started, Running, Alive, Lanes, ModeNames, Lane
<1>18. CASE CancelParallels
  BY <1>18, RequestsFinite DEF IInv, QueuedOnce, QueuesOfPrimaries, TablesHoldTurns, TypeOK,
     CancelParallels, CancelTokens, Stopped, Taken, Started, Running, Alive, Lanes, ModeNames,
     Entry, Lane
<1>19. CASE ClearQueue
  BY <1>19, RequestsFinite DEF IInv, QueuedOnce, QueuesOfPrimaries, TablesHoldTurns, TypeOK,
     ClearQueue, Move, Taken, Started, Running, Alive, Lanes, ModeNames, Entry, Lane
<1>20. CASE UNCHANGED vars
  BY <1>20 DEF IInv, QueuedOnce, QueuesOfPrimaries, TablesHoldTurns, TypeOK, vars, Entry, Lane
<1> QED
  BY <1>1, <1>2, <1>3, <1>4, <1>5, <1>6, <1>7, <1>8, <1>9, <1>10,
     <1>11, <1>12, <1>13, <1>14, <1>15, <1>16, <1>17, <1>18, <1>19, <1>20
     DEF Next, StartStep, TurnStep

(* push and the drains leave a message in one queue at most.               *)
LEMMA QueuedOnceStep == IInv /\ [Next]_vars => QueuedOnce'
<1> SUFFICES ASSUME IInv, [Next]_vars PROVE QueuedOnce'
  OBVIOUS
<1>1. ASSUME NEW r \in Requests, NEW m \in ModesOf[r], RouteReply(r, m) PROVE QueuedOnce'
  BY <1>1, RequestsFinite, ModesKnown DEF IInv, QueuedOnce, TablesHoldTurns, TypeOK, RouteReply,
     Arrives, Taken, Started, Running, Alive, Lanes, ModeNames, Entry, Lane
<1>2. ASSUME NEW r \in Requests, NEW m \in ModesOf[r], Enqueue(r, m) PROVE QueuedOnce'
  BY <1>2, RequestsFinite, ModesKnown DEF IInv, QueuedOnce, TablesHoldTurns, TypeOK, Enqueue,
     Arrives, Taken, Started, Running, Alive, Lanes, ModeNames, Entry, Lane
<1>3. ASSUME NEW r \in Requests, NEW m \in ModesOf[r], FindsIdle(r, m) PROVE QueuedOnce'
  BY <1>3, RequestsFinite, ModesKnown DEF IInv, QueuedOnce, TablesHoldTurns, TypeOK, FindsIdle,
     Arrives, Taken, Started, Running, Alive, Lanes, ModeNames, Entry, Lane
<1>4. ASSUME NEW r \in Requests, NEW m \in ModesOf[r], Replace(r, m) PROVE QueuedOnce'
  BY <1>4, RequestsFinite, ModesKnown DEF IInv, QueuedOnce, TablesHoldTurns, TypeOK, Replace,
     Arrives, CancelTokens, Entry, Taken, Started, Running, Alive, Lanes, ModeNames, Lane
<1>5. ASSUME NEW r \in Requests, Register(r) PROVE QueuedOnce'
  BY <1>5, RequestsFinite DEF IInv, QueuedOnce, TablesHoldTurns, TypeOK, Register, Entry, Taken,
     Started, Running, Alive, Lanes, ModeNames, Lane
<1>6. ASSUME NEW r \in Requests, NEW m \in ModesOf[r], SpawnParallel(r, m) PROVE QueuedOnce'
  BY <1>6, RequestsFinite, ModesKnown DEF IInv, QueuedOnce, TablesHoldTurns, TypeOK,
     SpawnParallel, Arrives, Taken, Started, Running, Alive, Lanes, ModeNames, Entry, Lane
<1>7. ASSUME NEW r \in Requests, RegisterParallel(r) PROVE QueuedOnce'
  BY <1>7, RequestsFinite DEF IInv, QueuedOnce, TablesHoldTurns, TypeOK, RegisterParallel, Taken,
     Started, Running, Alive, Lanes, ModeNames, Entry, Lane
<1>8. ASSUME NEW r \in Requests, DrainSteers(r) PROVE QueuedOnce'
  BY <1>8, RequestsFinite DEF IInv, QueuedOnce, TablesHoldTurns, TypeOK, DrainSteers, Goes,
     Without, Move, Lane, Taken, Started, Running, Alive, Lanes, ModeNames, Entry
<1>9. ASSUME NEW r \in Requests, DrainCollects(r) PROVE QueuedOnce'
  BY <1>9, RequestsFinite DEF IInv, QueuedOnce, TablesHoldTurns, TypeOK, DrainCollects, Goes,
     Without, Move, Lane, Taken, Started, Running, Alive, Lanes, ModeNames, Entry
<1>10. ASSUME NEW r \in Requests, NextIteration(r) PROVE QueuedOnce'
  BY <1>10, RequestsFinite DEF IInv, QueuedOnce, TablesHoldTurns, TypeOK, NextIteration, Goes,
     Taken, Started, Running, Alive, Lanes, ModeNames, Entry, Lane
<1>11. ASSUME NEW r \in Requests, Finish(r) PROVE QueuedOnce'
  BY <1>11, RequestsFinite DEF IInv, QueuedOnce, TablesHoldTurns, TypeOK, Finish, Goes, Taken,
     Started, Running, Alive, Lanes, ModeNames, Entry, Lane
<1>12. ASSUME NEW r \in Requests, Deliver(r) PROVE QueuedOnce'
  BY <1>12, RequestsFinite DEF IInv, QueuedOnce, TablesHoldTurns, TypeOK, Deliver, Taken,
     Started, Running, Alive, Lanes, ModeNames, Entry, Lane
<1>13. ASSUME NEW r \in Requests, End(r) PROVE QueuedOnce'
  <2>1. CASE inFlight = r
    <3> DEFINE F == {x \in queue[r] : mode[x] = "followup"}
    <3>1. /\ queue' = [queue EXCEPT ![r] = queue[r] \ F]
          /\ call' = [x \in Requests |-> IF x \in F THEN "again" ELSE call[x]]
      BY <1>13, <2>1 DEF End, Without, Followups, Move, Lane
    <3>2. F \subseteq queue[r]
      OBVIOUS
    <3> HIDE DEF F
    <3>3. \A t \in Requests : queue'[t] = IF t = r THEN queue[r] \ F ELSE queue[t]
      BY <3>1 DEF IInv, TypeOK
    <3>4. ASSUME NEW x \in Requests
          PROVE  call'[x] = "queued" <=> \E t \in Requests : x \in queue'[t]
      <4>1. CASE x \in F
        <5>1. \A t \in Requests : x \in queue[t] => t = r
          BY <3>2, <4>1 DEF IInv, QueuedOnce
        <5>2. call'[x] = "again"
          BY <3>1, <4>1
        <5> QED
          BY <3>3, <4>1, <5>1, <5>2
      <4>2. CASE x \notin F
        <5>1. call'[x] = call[x]
          BY <3>1, <4>2
        <5>2. \A t \in Requests : x \in queue'[t] <=> x \in queue[t]
          BY <3>3, <4>2
        <5> QED
          BY <5>1, <5>2 DEF IInv, QueuedOnce
      <4> QED
        BY <4>1, <4>2
    <3>5. ASSUME NEW x \in Requests, NEW t1 \in Requests, NEW t2 \in Requests,
                 x \in queue'[t1], x \in queue'[t2]
          PROVE  t1 = t2
      <4>1. x \in queue[t1] /\ x \in queue[t2]
        BY <3>3, <3>5
      <4> QED
        BY <4>1 DEF IInv, QueuedOnce
    <3> QED
      BY <3>4, <3>5 DEF QueuedOnce
  <2>2. CASE inFlight # r
    BY <1>13, <2>2 DEF End, IInv, QueuedOnce
  <2> QED
    BY <2>1, <2>2
<1>14. ASSUME NEW r \in Requests, EndParallel(r) PROVE QueuedOnce'
  BY <1>14, RequestsFinite DEF IInv, QueuedOnce, TablesHoldTurns, TypeOK, EndParallel, Taken,
     Started, Running, Alive, Lanes, ModeNames, Entry, Lane
<1>15. ASSUME NEW r \in Requests, Unwind(r) PROVE QueuedOnce'
  BY <1>15, RequestsFinite DEF IInv, QueuedOnce, TablesHoldTurns, TypeOK, Unwind, Released,
     Taken, Started, Running, Alive, Lanes, ModeNames, Entry, Lane
<1>16. ASSUME NEW r \in Requests, Abort(r) PROVE QueuedOnce'
  BY <1>16, RequestsFinite DEF IInv, QueuedOnce, TablesHoldTurns, TypeOK, Abort, Taken, Started,
     Running, Alive, Lanes, ModeNames, Entry, Lane
<1>17. CASE CancelPrimary
  BY <1>17, RequestsFinite DEF IInv, QueuedOnce, TablesHoldTurns, TypeOK, CancelPrimary,
     CancelTokens, Entry, Taken, Started, Running, Alive, Lanes, ModeNames, Lane
<1>18. CASE CancelParallels
  BY <1>18, RequestsFinite DEF IInv, QueuedOnce, TablesHoldTurns, TypeOK, CancelParallels,
     CancelTokens, Stopped, Taken, Started, Running, Alive, Lanes, ModeNames, Entry, Lane
<1>19. CASE ClearQueue
  BY <1>19, RequestsFinite DEF IInv, QueuedOnce, TablesHoldTurns, TypeOK, ClearQueue, Move,
     Taken, Started, Running, Alive, Lanes, ModeNames, Entry, Lane
<1>20. CASE UNCHANGED vars
  BY <1>20 DEF IInv, QueuedOnce, TablesHoldTurns, TypeOK, vars, Entry, Lane
<1> QED
  BY <1>1, <1>2, <1>3, <1>4, <1>5, <1>6, <1>7, <1>8, <1>9, <1>10,
     <1>11, <1>12, <1>13, <1>14, <1>15, <1>16, <1>17, <1>18, <1>19, <1>20
     DEF Next, StartStep, TurnStep

(* A task that ends takes its entry with it, if it was there by then.      *)
LEMMA StaleIsDisplacedStep == IInv /\ [Next]_vars => StaleIsDisplaced'
<1> SUFFICES ASSUME IInv, [Next]_vars PROVE StaleIsDisplaced'
  OBVIOUS
<1>1. ASSUME NEW r \in Requests, NEW m \in ModesOf[r], RouteReply(r, m) PROVE StaleIsDisplaced'
  BY <1>1, RequestsFinite, ModesKnown DEF IInv, CancelledHasNoEntry, StaleIsDisplaced,
     TablesHoldTurns, TypeOK, RouteReply, Arrives, Taken, Started, Running, Alive, Lanes,
     ModeNames, Entry, Lane
<1>2. ASSUME NEW r \in Requests, NEW m \in ModesOf[r], Enqueue(r, m) PROVE StaleIsDisplaced'
  BY <1>2, RequestsFinite, ModesKnown DEF IInv, CancelledHasNoEntry, StaleIsDisplaced,
     TablesHoldTurns, TypeOK, Enqueue, Arrives, Taken, Started, Running, Alive, Lanes, ModeNames,
     Entry, Lane
<1>3. ASSUME NEW r \in Requests, NEW m \in ModesOf[r], FindsIdle(r, m) PROVE StaleIsDisplaced'
  BY <1>3, RequestsFinite, ModesKnown DEF IInv, CancelledHasNoEntry, StaleIsDisplaced,
     TablesHoldTurns, TypeOK, FindsIdle, Arrives, Taken, Started, Running, Alive, Lanes,
     ModeNames, Entry, Lane
<1>4. ASSUME NEW r \in Requests, NEW m \in ModesOf[r], Replace(r, m) PROVE StaleIsDisplaced'
  BY <1>4, RequestsFinite, ModesKnown DEF IInv, CancelledHasNoEntry, StaleIsDisplaced,
     TablesHoldTurns, TypeOK, Replace, Arrives, CancelTokens, Entry, Taken, Started, Running,
     Alive, Lanes, ModeNames, Lane
<1>5. ASSUME NEW r \in Requests, Register(r) PROVE StaleIsDisplaced'
  BY <1>5, RequestsFinite DEF IInv, CancelledHasNoEntry, StaleIsDisplaced, TablesHoldTurns,
     TypeOK, Register, Entry, Taken, Started, Running, Alive, Lanes, ModeNames, Lane
<1>6. ASSUME NEW r \in Requests, NEW m \in ModesOf[r], SpawnParallel(r, m) PROVE StaleIsDisplaced'
  BY <1>6, RequestsFinite, ModesKnown DEF IInv, CancelledHasNoEntry, StaleIsDisplaced,
     TablesHoldTurns, TypeOK, SpawnParallel, Arrives, Taken, Started, Running, Alive, Lanes,
     ModeNames, Entry, Lane
<1>7. ASSUME NEW r \in Requests, RegisterParallel(r) PROVE StaleIsDisplaced'
  BY <1>7, RequestsFinite DEF IInv, CancelledHasNoEntry, StaleIsDisplaced, TablesHoldTurns,
     TypeOK, RegisterParallel, Taken, Started, Running, Alive, Lanes, ModeNames, Entry, Lane
<1>8. ASSUME NEW r \in Requests, DrainSteers(r) PROVE StaleIsDisplaced'
  BY <1>8, RequestsFinite DEF IInv, CancelledHasNoEntry, StaleIsDisplaced, TablesHoldTurns,
     TypeOK, DrainSteers, Goes, Without, Move, Lane, Taken, Started, Running, Alive, Lanes,
     ModeNames, Entry
<1>9. ASSUME NEW r \in Requests, DrainCollects(r) PROVE StaleIsDisplaced'
  BY <1>9, RequestsFinite DEF IInv, CancelledHasNoEntry, StaleIsDisplaced, TablesHoldTurns,
     TypeOK, DrainCollects, Goes, Without, Move, Lane, Taken, Started, Running, Alive, Lanes,
     ModeNames, Entry
<1>10. ASSUME NEW r \in Requests, NextIteration(r) PROVE StaleIsDisplaced'
  BY <1>10, RequestsFinite DEF IInv, CancelledHasNoEntry, StaleIsDisplaced, TablesHoldTurns,
     TypeOK, NextIteration, Goes, Taken, Started, Running, Alive, Lanes, ModeNames, Entry, Lane
<1>11. ASSUME NEW r \in Requests, Finish(r) PROVE StaleIsDisplaced'
  BY <1>11, RequestsFinite DEF IInv, CancelledHasNoEntry, StaleIsDisplaced, TablesHoldTurns,
     TypeOK, Finish, Goes, Taken, Started, Running, Alive, Lanes, ModeNames, Entry, Lane
<1>12. ASSUME NEW r \in Requests, Deliver(r) PROVE StaleIsDisplaced'
  BY <1>12, RequestsFinite DEF IInv, CancelledHasNoEntry, StaleIsDisplaced, TablesHoldTurns,
     TypeOK, Deliver, Taken, Started, Running, Alive, Lanes, ModeNames, Entry, Lane
<1>13. ASSUME NEW r \in Requests, End(r) PROVE StaleIsDisplaced'
  BY <1>13, RequestsFinite DEF IInv, CancelledHasNoEntry, StaleIsDisplaced, TablesHoldTurns,
     TypeOK, End, Without, Followups, Move, Lane, Taken, Started, Running, Alive, Lanes,
     ModeNames, Entry
<1>14. ASSUME NEW r \in Requests, EndParallel(r) PROVE StaleIsDisplaced'
  BY <1>14, RequestsFinite DEF IInv, CancelledHasNoEntry, StaleIsDisplaced, TablesHoldTurns,
     TypeOK, EndParallel, Taken, Started, Running, Alive, Lanes, ModeNames, Entry, Lane
<1>15. ASSUME NEW r \in Requests, Unwind(r) PROVE StaleIsDisplaced'
  BY <1>15, RequestsFinite DEF IInv, CancelledHasNoEntry, StaleIsDisplaced, TablesHoldTurns,
     TypeOK, Unwind, Released, Taken, Started, Running, Alive, Lanes, ModeNames, Entry, Lane
<1>16. ASSUME NEW r \in Requests, Abort(r) PROVE StaleIsDisplaced'
  BY <1>16, RequestsFinite DEF IInv, CancelledHasNoEntry, StaleIsDisplaced, TablesHoldTurns,
     TypeOK, Abort, Taken, Started, Running, Alive, Lanes, ModeNames, Entry, Lane
<1>17. CASE CancelPrimary
  BY <1>17, RequestsFinite DEF IInv, CancelledHasNoEntry, StaleIsDisplaced, TablesHoldTurns,
     TypeOK, CancelPrimary, CancelTokens, Entry, Taken, Started, Running, Alive, Lanes,
     ModeNames, Lane
<1>18. CASE CancelParallels
  BY <1>18, RequestsFinite DEF IInv, CancelledHasNoEntry, StaleIsDisplaced, TablesHoldTurns,
     TypeOK, CancelParallels, CancelTokens, Stopped, Taken, Started, Running, Alive, Lanes,
     ModeNames, Entry, Lane
<1>19. CASE ClearQueue
  BY <1>19, RequestsFinite DEF IInv, CancelledHasNoEntry, StaleIsDisplaced, TablesHoldTurns,
     TypeOK, ClearQueue, Move, Taken, Started, Running, Alive, Lanes, ModeNames, Entry, Lane
<1>20. CASE UNCHANGED vars
  BY <1>20 DEF IInv, CancelledHasNoEntry, StaleIsDisplaced, TablesHoldTurns, TypeOK, vars, Entry, Lane
<1> QED
  BY <1>1, <1>2, <1>3, <1>4, <1>5, <1>6, <1>7, <1>8, <1>9, <1>10,
     <1>11, <1>12, <1>13, <1>14, <1>15, <1>16, <1>17, <1>18, <1>19, <1>20
     DEF Next, StartStep, TurnStep

(* The events published for a turn agree with its token and its task.      *)
LEMMA ReportsAgreeStep == IInv /\ [Next]_vars => ReportsAgree'
<1> SUFFICES ASSUME IInv, [Next]_vars PROVE ReportsAgree'
  OBVIOUS
<1>1. ASSUME NEW r \in Requests, NEW m \in ModesOf[r], RouteReply(r, m) PROVE ReportsAgree'
  BY <1>1, RequestsFinite, ModesKnown DEF IInv, CancelledHasNoEntry, ReportsAgree,
     TablesHoldTurns, TypeOK, RouteReply, Arrives, Taken, Started, Running, Alive, Lanes,
     ModeNames, Entry, Lane
<1>2. ASSUME NEW r \in Requests, NEW m \in ModesOf[r], Enqueue(r, m) PROVE ReportsAgree'
  BY <1>2, RequestsFinite, ModesKnown DEF IInv, CancelledHasNoEntry, ReportsAgree,
     TablesHoldTurns, TypeOK, Enqueue, Arrives, Taken, Started, Running, Alive, Lanes, ModeNames,
     Entry, Lane
<1>3. ASSUME NEW r \in Requests, NEW m \in ModesOf[r], FindsIdle(r, m) PROVE ReportsAgree'
  BY <1>3, RequestsFinite, ModesKnown DEF IInv, CancelledHasNoEntry, ReportsAgree,
     TablesHoldTurns, TypeOK, FindsIdle, Arrives, Taken, Started, Running, Alive, Lanes,
     ModeNames, Entry, Lane
<1>4. ASSUME NEW r \in Requests, NEW m \in ModesOf[r], Replace(r, m) PROVE ReportsAgree'
  <2>1. /\ token' = [t \in Requests |-> token[t] \/ t \in Entry]
        /\ late' = late \cup {t \in Requests : t \in Entry /\ task[t] \notin Running}
        /\ reported' = [t \in Requests |-> IF t \in Entry THEN reported[t] \cup {"cancelled"}
                                                           ELSE reported[t]]
        /\ task' = [task EXCEPT ![r] = "boundary"]
        /\ UNCHANGED stopped
    BY <1>4 DEF Replace, CancelTokens
  <2>2. call[r] \in {"none", "again", "fresh"}
    BY <1>4 DEF Replace, Arrives
  <2>3. task[r] = "none" /\ ~token[r] /\ r \notin Entry
    BY <2>2 DEF IInv, TypeOK, TablesHoldTurns, CancelledHasNoEntry, Entry
  <2>4. "result" \notin reported[r] /\ "cancelled" \notin reported[r]
    BY <2>3 DEF IInv, ReportsAgree
  <2>5. ASSUME NEW t \in Requests
        PROVE  /\ "cancelled" \in reported'[t] => token'[t]
               /\ "result" \in reported'[t] => task'[t] \in {"delivered", "ended"}
               /\ token'[t] /\ t \notin late' =>
                    task'[t] \in Running \cup {"ended"} /\ "result" \notin reported'[t]
    <3>1. CASE t = r
      BY <2>1, <2>3, <2>4, <3>1 DEF IInv, TypeOK
    <3>2. CASE t # r
      BY <2>1, <3>2 DEF IInv, TypeOK, ReportsAgree, Running
    <3> QED
      BY <3>1, <3>2
  <2> QED
    BY <2>1, <2>5 DEF IInv, TypeOK, ReportsAgree
<1>5. ASSUME NEW r \in Requests, Register(r) PROVE ReportsAgree'
  BY <1>5, RequestsFinite DEF IInv, CancelledHasNoEntry, ReportsAgree, TablesHoldTurns, TypeOK,
     Register, Entry, Taken, Started, Running, Alive, Lanes, ModeNames, Lane
<1>6. ASSUME NEW r \in Requests, NEW m \in ModesOf[r], SpawnParallel(r, m) PROVE ReportsAgree'
  BY <1>6, RequestsFinite, ModesKnown DEF IInv, CancelledHasNoEntry, ReportsAgree,
     TablesHoldTurns, TypeOK, SpawnParallel, Arrives, Taken, Started, Running, Alive, Lanes,
     ModeNames, Entry, Lane
<1>7. ASSUME NEW r \in Requests, RegisterParallel(r) PROVE ReportsAgree'
  BY <1>7, RequestsFinite DEF IInv, CancelledHasNoEntry, ReportsAgree, TablesHoldTurns, TypeOK,
     RegisterParallel, Taken, Started, Running, Alive, Lanes, ModeNames, Entry, Lane
<1>8. ASSUME NEW r \in Requests, DrainSteers(r) PROVE ReportsAgree'
  BY <1>8, RequestsFinite DEF IInv, CancelledHasNoEntry, ReportsAgree, TablesHoldTurns, TypeOK,
     DrainSteers, Goes, Without, Move, Lane, Taken, Started, Running, Alive, Lanes, ModeNames,
     Entry
<1>9. ASSUME NEW r \in Requests, DrainCollects(r) PROVE ReportsAgree'
  BY <1>9, RequestsFinite DEF IInv, CancelledHasNoEntry, ReportsAgree, TablesHoldTurns, TypeOK,
     DrainCollects, Goes, Without, Move, Lane, Taken, Started, Running, Alive, Lanes, ModeNames,
     Entry
<1>10. ASSUME NEW r \in Requests, NextIteration(r) PROVE ReportsAgree'
  BY <1>10, RequestsFinite DEF IInv, CancelledHasNoEntry, ReportsAgree, TablesHoldTurns, TypeOK,
     NextIteration, Goes, Taken, Started, Running, Alive, Lanes, ModeNames, Entry, Lane
<1>11. ASSUME NEW r \in Requests, Finish(r) PROVE ReportsAgree'
  BY <1>11, RequestsFinite DEF IInv, CancelledHasNoEntry, ReportsAgree, TablesHoldTurns, TypeOK,
     Finish, Goes, Taken, Started, Running, Alive, Lanes, ModeNames, Entry, Lane
<1>12. ASSUME NEW r \in Requests, Deliver(r) PROVE ReportsAgree'
  BY <1>12, RequestsFinite DEF IInv, CancelledHasNoEntry, ReportsAgree, TablesHoldTurns, TypeOK,
     Deliver, Taken, Started, Running, Alive, Lanes, ModeNames, Entry, Lane
<1>13. ASSUME NEW r \in Requests, End(r) PROVE ReportsAgree'
  BY <1>13, RequestsFinite DEF IInv, CancelledHasNoEntry, ReportsAgree, TablesHoldTurns, TypeOK,
     End, Without, Followups, Move, Lane, Taken, Started, Running, Alive, Lanes, ModeNames, Entry
<1>14. ASSUME NEW r \in Requests, EndParallel(r) PROVE ReportsAgree'
  BY <1>14, RequestsFinite DEF IInv, CancelledHasNoEntry, ReportsAgree, TablesHoldTurns, TypeOK,
     EndParallel, Taken, Started, Running, Alive, Lanes, ModeNames, Entry, Lane
<1>15. ASSUME NEW r \in Requests, Unwind(r) PROVE ReportsAgree'
  BY <1>15, RequestsFinite DEF IInv, CancelledHasNoEntry, ReportsAgree, TablesHoldTurns, TypeOK,
     Unwind, Released, Taken, Started, Running, Alive, Lanes, ModeNames, Entry, Lane
<1>16. ASSUME NEW r \in Requests, Abort(r) PROVE ReportsAgree'
  BY <1>16, RequestsFinite DEF IInv, CancelledHasNoEntry, ReportsAgree, TablesHoldTurns, TypeOK,
     Abort, Taken, Started, Running, Alive, Lanes, ModeNames, Entry, Lane
<1>17. CASE CancelPrimary
  BY <1>17, RequestsFinite DEF IInv, CancelledHasNoEntry, ReportsAgree, TablesHoldTurns, TypeOK,
     CancelPrimary, CancelTokens, Entry, Taken, Started, Running, Alive, Lanes, ModeNames, Lane
<1>18. CASE CancelParallels
  BY <1>18, RequestsFinite DEF IInv, CancelledHasNoEntry, ReportsAgree, TablesHoldTurns, TypeOK,
     CancelParallels, CancelTokens, Stopped, Taken, Started, Running, Alive, Lanes, ModeNames,
     Entry, Lane
<1>19. CASE ClearQueue
  BY <1>19, RequestsFinite DEF IInv, CancelledHasNoEntry, ReportsAgree, TablesHoldTurns, TypeOK,
     ClearQueue, Move, Taken, Started, Running, Alive, Lanes, ModeNames, Entry, Lane
<1>20. CASE UNCHANGED vars
  BY <1>20 DEF IInv, CancelledHasNoEntry, ReportsAgree, TablesHoldTurns, TypeOK, vars, Entry, Lane
<1> QED
  BY <1>1, <1>2, <1>3, <1>4, <1>5, <1>6, <1>7, <1>8, <1>9, <1>10,
     <1>11, <1>12, <1>13, <1>14, <1>15, <1>16, <1>17, <1>18, <1>19, <1>20
     DEF Next, StartStep, TurnStep

(* No step takes a live turn out of both tables without cancelling it.     *)
LEMMA LiveTurnsAreReachableStep == IInv /\ [Next]_vars => LiveTurnsAreReachable'
<1> SUFFICES ASSUME IInv, [Next]_vars PROVE LiveTurnsAreReachable'
  OBVIOUS
<1>1. ASSUME NEW r \in Requests, NEW m \in ModesOf[r], RouteReply(r, m) PROVE LiveTurnsAreReachable'
  BY <1>1, RequestsFinite, ModesKnown DEF IInv, CancelledHasNoEntry, LiveTurnsAreReachable,
     QueuedOnce, TablesHoldTurns, TypeOK, RouteReply, Arrives, Taken, Started, Running, Alive,
     Lanes, ModeNames, Entry, Lane
<1>2. ASSUME NEW r \in Requests, NEW m \in ModesOf[r], Enqueue(r, m) PROVE LiveTurnsAreReachable'
  BY <1>2, RequestsFinite, ModesKnown DEF IInv, CancelledHasNoEntry, LiveTurnsAreReachable,
     QueuedOnce, TablesHoldTurns, TypeOK, Enqueue, Arrives, Taken, Started, Running, Alive,
     Lanes, ModeNames, Entry, Lane
<1>3. ASSUME NEW r \in Requests, NEW m \in ModesOf[r], FindsIdle(r, m) PROVE LiveTurnsAreReachable'
  BY <1>3, RequestsFinite, ModesKnown DEF IInv, CancelledHasNoEntry, LiveTurnsAreReachable,
     QueuedOnce, TablesHoldTurns, TypeOK, FindsIdle, Arrives, Taken, Started, Running, Alive,
     Lanes, ModeNames, Entry, Lane
<1>4. ASSUME NEW r \in Requests, NEW m \in ModesOf[r], Replace(r, m) PROVE LiveTurnsAreReachable'
  <2>1. /\ token' = [t \in Requests |-> token[t] \/ t \in Entry]
        /\ inFlight' = None /\ UNCHANGED <<parallel, displaced>>
        /\ task' = [task EXCEPT ![r] = "boundary"]
        /\ call' = [call EXCEPT ![r] = "spawned"]
    BY <1>4 DEF Replace, CancelTokens
  <2> SUFFICES ASSUME NEW t \in Requests,
                      call'[t] = "accepted", task'[t] \in Alive, ~token'[t], t \notin displaced
               PROVE  t \in parallel
    BY <2>1 DEF LiveTurnsAreReachable, Entry
  <2>2. t # r
    BY <2>1 DEF IInv, TypeOK
  <2> QED
    BY <2>1, <2>2 DEF IInv, TypeOK, LiveTurnsAreReachable
<1>5. ASSUME NEW r \in Requests, Register(r) PROVE LiveTurnsAreReachable'
  BY <1>5, RequestsFinite DEF IInv, CancelledHasNoEntry, LiveTurnsAreReachable, QueuedOnce,
     TablesHoldTurns, TypeOK, Register, Entry, Taken, Started, Running, Alive, Lanes, ModeNames,
     Lane
<1>6. ASSUME NEW r \in Requests, NEW m \in ModesOf[r], SpawnParallel(r, m) PROVE LiveTurnsAreReachable'
  BY <1>6, RequestsFinite, ModesKnown DEF IInv, CancelledHasNoEntry, LiveTurnsAreReachable,
     QueuedOnce, TablesHoldTurns, TypeOK, SpawnParallel, Arrives, Taken, Started, Running, Alive,
     Lanes, ModeNames, Entry, Lane
<1>7. ASSUME NEW r \in Requests, RegisterParallel(r) PROVE LiveTurnsAreReachable'
  BY <1>7, RequestsFinite DEF IInv, CancelledHasNoEntry, LiveTurnsAreReachable, QueuedOnce,
     TablesHoldTurns, TypeOK, RegisterParallel, Taken, Started, Running, Alive, Lanes, ModeNames,
     Entry, Lane
<1>8. ASSUME NEW r \in Requests, DrainSteers(r) PROVE LiveTurnsAreReachable'
  BY <1>8, RequestsFinite DEF IInv, CancelledHasNoEntry, LiveTurnsAreReachable, QueuedOnce,
     TablesHoldTurns, TypeOK, DrainSteers, Goes, Without, Move, Lane, Taken, Started, Running,
     Alive, Lanes, ModeNames, Entry
<1>9. ASSUME NEW r \in Requests, DrainCollects(r) PROVE LiveTurnsAreReachable'
  BY <1>9, RequestsFinite DEF IInv, CancelledHasNoEntry, LiveTurnsAreReachable, QueuedOnce,
     TablesHoldTurns, TypeOK, DrainCollects, Goes, Without, Move, Lane, Taken, Started, Running,
     Alive, Lanes, ModeNames, Entry
<1>10. ASSUME NEW r \in Requests, NextIteration(r) PROVE LiveTurnsAreReachable'
  BY <1>10, RequestsFinite DEF IInv, CancelledHasNoEntry, LiveTurnsAreReachable, QueuedOnce,
     TablesHoldTurns, TypeOK, NextIteration, Goes, Taken, Started, Running, Alive, Lanes,
     ModeNames, Entry, Lane
<1>11. ASSUME NEW r \in Requests, Finish(r) PROVE LiveTurnsAreReachable'
  BY <1>11, RequestsFinite DEF IInv, CancelledHasNoEntry, LiveTurnsAreReachable, QueuedOnce,
     TablesHoldTurns, TypeOK, Finish, Goes, Taken, Started, Running, Alive, Lanes, ModeNames,
     Entry, Lane
<1>12. ASSUME NEW r \in Requests, Deliver(r) PROVE LiveTurnsAreReachable'
  BY <1>12, RequestsFinite DEF IInv, CancelledHasNoEntry, LiveTurnsAreReachable, QueuedOnce,
     TablesHoldTurns, TypeOK, Deliver, Taken, Started, Running, Alive, Lanes, ModeNames, Entry,
     Lane
<1>13. ASSUME NEW r \in Requests, End(r) PROVE LiveTurnsAreReachable'
  BY <1>13, RequestsFinite DEF IInv, CancelledHasNoEntry, LiveTurnsAreReachable, QueuedOnce,
     TablesHoldTurns, TypeOK, End, Without, Followups, Move, Lane, Taken, Started, Running,
     Alive, Lanes, ModeNames, Entry
<1>14. ASSUME NEW r \in Requests, EndParallel(r) PROVE LiveTurnsAreReachable'
  BY <1>14, RequestsFinite DEF IInv, CancelledHasNoEntry, LiveTurnsAreReachable, QueuedOnce,
     TablesHoldTurns, TypeOK, EndParallel, Taken, Started, Running, Alive, Lanes, ModeNames,
     Entry, Lane
<1>15. ASSUME NEW r \in Requests, Unwind(r) PROVE LiveTurnsAreReachable'
  BY <1>15, RequestsFinite DEF IInv, CancelledHasNoEntry, LiveTurnsAreReachable, QueuedOnce,
     TablesHoldTurns, TypeOK, Unwind, Released, Taken, Started, Running, Alive, Lanes, ModeNames,
     Entry, Lane
<1>16. ASSUME NEW r \in Requests, Abort(r) PROVE LiveTurnsAreReachable'
  BY <1>16, RequestsFinite DEF IInv, CancelledHasNoEntry, LiveTurnsAreReachable, QueuedOnce,
     TablesHoldTurns, TypeOK, Abort, Taken, Started, Running, Alive, Lanes, ModeNames, Entry, Lane
<1>17. CASE CancelPrimary
  BY <1>17, RequestsFinite DEF IInv, CancelledHasNoEntry, LiveTurnsAreReachable, QueuedOnce,
     TablesHoldTurns, TypeOK, CancelPrimary, CancelTokens, Entry, Taken, Started, Running, Alive,
     Lanes, ModeNames, Lane
<1>18. CASE CancelParallels
  BY <1>18, RequestsFinite DEF IInv, CancelledHasNoEntry, LiveTurnsAreReachable, QueuedOnce,
     TablesHoldTurns, TypeOK, CancelParallels, CancelTokens, Stopped, Taken, Started, Running,
     Alive, Lanes, ModeNames, Entry, Lane
<1>19. CASE ClearQueue
  BY <1>19, RequestsFinite DEF IInv, CancelledHasNoEntry, LiveTurnsAreReachable, QueuedOnce,
     TablesHoldTurns, TypeOK, ClearQueue, Move, Taken, Started, Running, Alive, Lanes, ModeNames,
     Entry, Lane
<1>20. CASE UNCHANGED vars
  BY <1>20 DEF IInv, CancelledHasNoEntry, LiveTurnsAreReachable, QueuedOnce, TablesHoldTurns, TypeOK, vars, Entry, Lane
<1> QED
  BY <1>1, <1>2, <1>3, <1>4, <1>5, <1>6, <1>7, <1>8, <1>9, <1>10,
     <1>11, <1>12, <1>13, <1>14, <1>15, <1>16, <1>17, <1>18, <1>19, <1>20
     DEF Next, StartStep, TurnStep

(* A turn that ends with its entry takes its follow-ups out of the queue.  *)
LEMMA OnlyDisplacedStrandStep == IInv /\ [Next]_vars => OnlyDisplacedStrand'
<1> SUFFICES ASSUME IInv, [Next]_vars PROVE OnlyDisplacedStrand'
  OBVIOUS
<1>1. ASSUME NEW r \in Requests, NEW m \in ModesOf[r], RouteReply(r, m) PROVE OnlyDisplacedStrand'
  BY <1>1, RequestsFinite, ModesKnown DEF IInv, CancelledHasNoEntry, LiveTurnsAreReachable,
     OnlyDisplacedStrand, QueuedOnce, QueuesOfPrimaries, StaleIsDisplaced, TablesHoldTurns,
     TypeOK, RouteReply, Arrives, Taken, Started, Running, Alive, Lanes, ModeNames, Entry, Lane
<1>2. ASSUME NEW r \in Requests, NEW m \in ModesOf[r], Enqueue(r, m) PROVE OnlyDisplacedStrand'
  BY <1>2, RequestsFinite, ModesKnown DEF IInv, CancelledHasNoEntry, LiveTurnsAreReachable,
     OnlyDisplacedStrand, QueuedOnce, QueuesOfPrimaries, StaleIsDisplaced, TablesHoldTurns,
     TypeOK, Enqueue, Arrives, Taken, Started, Running, Alive, Lanes, ModeNames, Entry, Lane
<1>3. ASSUME NEW r \in Requests, NEW m \in ModesOf[r], FindsIdle(r, m) PROVE OnlyDisplacedStrand'
  BY <1>3, RequestsFinite, ModesKnown DEF IInv, CancelledHasNoEntry, LiveTurnsAreReachable,
     OnlyDisplacedStrand, QueuedOnce, QueuesOfPrimaries, StaleIsDisplaced, TablesHoldTurns,
     TypeOK, FindsIdle, Arrives, Taken, Started, Running, Alive, Lanes, ModeNames, Entry, Lane
<1>4. ASSUME NEW r \in Requests, NEW m \in ModesOf[r], Replace(r, m) PROVE OnlyDisplacedStrand'
  BY <1>4, RequestsFinite, ModesKnown DEF IInv, CancelledHasNoEntry, LiveTurnsAreReachable,
     OnlyDisplacedStrand, QueuedOnce, QueuesOfPrimaries, StaleIsDisplaced, TablesHoldTurns,
     TypeOK, Replace, Arrives, CancelTokens, Entry, Taken, Started, Running, Alive, Lanes,
     ModeNames, Lane
<1>5. ASSUME NEW r \in Requests, Register(r) PROVE OnlyDisplacedStrand'
  BY <1>5, RequestsFinite DEF IInv, CancelledHasNoEntry, LiveTurnsAreReachable,
     OnlyDisplacedStrand, QueuedOnce, QueuesOfPrimaries, StaleIsDisplaced, TablesHoldTurns,
     TypeOK, Register, Entry, Taken, Started, Running, Alive, Lanes, ModeNames, Lane
<1>6. ASSUME NEW r \in Requests, NEW m \in ModesOf[r], SpawnParallel(r, m) PROVE OnlyDisplacedStrand'
  BY <1>6, RequestsFinite, ModesKnown DEF IInv, CancelledHasNoEntry, LiveTurnsAreReachable,
     OnlyDisplacedStrand, QueuedOnce, QueuesOfPrimaries, StaleIsDisplaced, TablesHoldTurns,
     TypeOK, SpawnParallel, Arrives, Taken, Started, Running, Alive, Lanes, ModeNames, Entry, Lane
<1>7. ASSUME NEW r \in Requests, RegisterParallel(r) PROVE OnlyDisplacedStrand'
  BY <1>7, RequestsFinite DEF IInv, CancelledHasNoEntry, LiveTurnsAreReachable,
     OnlyDisplacedStrand, QueuedOnce, QueuesOfPrimaries, StaleIsDisplaced, TablesHoldTurns,
     TypeOK, RegisterParallel, Taken, Started, Running, Alive, Lanes, ModeNames, Entry, Lane
<1>8. ASSUME NEW r \in Requests, DrainSteers(r) PROVE OnlyDisplacedStrand'
  BY <1>8, RequestsFinite DEF IInv, CancelledHasNoEntry, LiveTurnsAreReachable,
     OnlyDisplacedStrand, QueuedOnce, QueuesOfPrimaries, StaleIsDisplaced, TablesHoldTurns,
     TypeOK, DrainSteers, Goes, Without, Move, Lane, Taken, Started, Running, Alive, Lanes,
     ModeNames, Entry
<1>9. ASSUME NEW r \in Requests, DrainCollects(r) PROVE OnlyDisplacedStrand'
  BY <1>9, RequestsFinite DEF IInv, CancelledHasNoEntry, LiveTurnsAreReachable,
     OnlyDisplacedStrand, QueuedOnce, QueuesOfPrimaries, StaleIsDisplaced, TablesHoldTurns,
     TypeOK, DrainCollects, Goes, Without, Move, Lane, Taken, Started, Running, Alive, Lanes,
     ModeNames, Entry
<1>10. ASSUME NEW r \in Requests, NextIteration(r) PROVE OnlyDisplacedStrand'
  BY <1>10, RequestsFinite DEF IInv, CancelledHasNoEntry, LiveTurnsAreReachable,
     OnlyDisplacedStrand, QueuedOnce, QueuesOfPrimaries, StaleIsDisplaced, TablesHoldTurns,
     TypeOK, NextIteration, Goes, Taken, Started, Running, Alive, Lanes, ModeNames, Entry, Lane
<1>11. ASSUME NEW r \in Requests, Finish(r) PROVE OnlyDisplacedStrand'
  BY <1>11, RequestsFinite DEF IInv, CancelledHasNoEntry, LiveTurnsAreReachable,
     OnlyDisplacedStrand, QueuedOnce, QueuesOfPrimaries, StaleIsDisplaced, TablesHoldTurns,
     TypeOK, Finish, Goes, Taken, Started, Running, Alive, Lanes, ModeNames, Entry, Lane
<1>12. ASSUME NEW r \in Requests, Deliver(r) PROVE OnlyDisplacedStrand'
  BY <1>12, RequestsFinite DEF IInv, CancelledHasNoEntry, LiveTurnsAreReachable,
     OnlyDisplacedStrand, QueuedOnce, QueuesOfPrimaries, StaleIsDisplaced, TablesHoldTurns,
     TypeOK, Deliver, Taken, Started, Running, Alive, Lanes, ModeNames, Entry, Lane
<1>13. ASSUME NEW r \in Requests, End(r) PROVE OnlyDisplacedStrand'
  BY <1>13, RequestsFinite DEF IInv, CancelledHasNoEntry, LiveTurnsAreReachable,
     OnlyDisplacedStrand, QueuedOnce, QueuesOfPrimaries, StaleIsDisplaced, TablesHoldTurns,
     TypeOK, End, Without, Followups, Move, Lane, Taken, Started, Running, Alive, Lanes,
     ModeNames, Entry
<1>14. ASSUME NEW r \in Requests, EndParallel(r) PROVE OnlyDisplacedStrand'
  BY <1>14, RequestsFinite DEF IInv, CancelledHasNoEntry, LiveTurnsAreReachable,
     OnlyDisplacedStrand, QueuedOnce, QueuesOfPrimaries, StaleIsDisplaced, TablesHoldTurns,
     TypeOK, EndParallel, Taken, Started, Running, Alive, Lanes, ModeNames, Entry, Lane
<1>15. ASSUME NEW r \in Requests, Unwind(r) PROVE OnlyDisplacedStrand'
  BY <1>15, RequestsFinite DEF IInv, CancelledHasNoEntry, LiveTurnsAreReachable,
     OnlyDisplacedStrand, QueuedOnce, QueuesOfPrimaries, StaleIsDisplaced, TablesHoldTurns,
     TypeOK, Unwind, Released, Taken, Started, Running, Alive, Lanes, ModeNames, Entry, Lane
<1>16. ASSUME NEW r \in Requests, Abort(r) PROVE OnlyDisplacedStrand'
  BY <1>16, RequestsFinite DEF IInv, CancelledHasNoEntry, LiveTurnsAreReachable,
     OnlyDisplacedStrand, QueuedOnce, QueuesOfPrimaries, StaleIsDisplaced, TablesHoldTurns,
     TypeOK, Abort, Taken, Started, Running, Alive, Lanes, ModeNames, Entry, Lane
<1>17. CASE CancelPrimary
  BY <1>17, RequestsFinite DEF IInv, CancelledHasNoEntry, LiveTurnsAreReachable,
     OnlyDisplacedStrand, QueuedOnce, QueuesOfPrimaries, StaleIsDisplaced, TablesHoldTurns,
     TypeOK, CancelPrimary, CancelTokens, Entry, Taken, Started, Running, Alive, Lanes,
     ModeNames, Lane
<1>18. CASE CancelParallels
  BY <1>18, RequestsFinite DEF IInv, CancelledHasNoEntry, LiveTurnsAreReachable,
     OnlyDisplacedStrand, QueuedOnce, QueuesOfPrimaries, StaleIsDisplaced, TablesHoldTurns,
     TypeOK, CancelParallels, CancelTokens, Stopped, Taken, Started, Running, Alive, Lanes,
     ModeNames, Entry, Lane
<1>19. CASE ClearQueue
  BY <1>19, RequestsFinite DEF IInv, CancelledHasNoEntry, LiveTurnsAreReachable,
     OnlyDisplacedStrand, QueuedOnce, QueuesOfPrimaries, StaleIsDisplaced, TablesHoldTurns,
     TypeOK, ClearQueue, Move, Taken, Started, Running, Alive, Lanes, ModeNames, Entry, Lane
<1>20. CASE UNCHANGED vars
  BY <1>20 DEF IInv, CancelledHasNoEntry, LiveTurnsAreReachable, OnlyDisplacedStrand, QueuedOnce, QueuesOfPrimaries, StaleIsDisplaced, TablesHoldTurns, TypeOK, vars, Entry, Lane
<1> QED
  BY <1>1, <1>2, <1>3, <1>4, <1>5, <1>6, <1>7, <1>8, <1>9, <1>10,
     <1>11, <1>12, <1>13, <1>14, <1>15, <1>16, <1>17, <1>18, <1>19, <1>20
     DEF Next, StartStep, TurnStep
(* The empty thread satisfies the invariant.                                *)
LEMMA InitHolds == Init => IInv
<1> SUFFICES ASSUME Init PROVE IInv
  OBVIOUS
<1>1. TypeOK
  <2>1. cancels \in 0..MaxCancels
    BY BoundIsNat DEF Init
  <2>2. /\ parallel \in SUBSET Requests /\ stopped \in SUBSET Requests
        /\ displaced \in SUBSET Requests /\ late \in SUBSET Requests
    BY DEF Init
  <2>3. /\ queue \in [Requests -> SUBSET Requests]
        /\ reported \in [Requests -> SUBSET {"result", "cancelled"}]
    BY DEF Init
  <2> QED
    BY <2>1, <2>2, <2>3 DEF Init, TypeOK
<1>2. TablesHoldTurns /\ CancelledHasNoEntry
  BY RequestsFinite DEF Init, TablesHoldTurns, CancelledHasNoEntry, Entry, Started
<1>3. QueuesOfPrimaries /\ QueuedOnce
  BY DEF Init, QueuesOfPrimaries, QueuedOnce
<1>4. StaleIsDisplaced /\ ReportsAgree
  BY RequestsFinite DEF Init, StaleIsDisplaced, ReportsAgree
<1>5. LiveTurnsAreReachable /\ OnlyDisplacedStrand
  BY DEF Init, LiveTurnsAreReachable, OnlyDisplacedStrand, Alive, Running, Lane
<1> QED
  BY <1>1, <1>2, <1>3, <1>4, <1>5 DEF IInv

(* start_chat, the turns' tasks, cancel_chat and queue_clear keep the       *)
(* invariant, in every interleaving of their locked sections.               *)
THEOREM Invariant == Spec => []IInv
<1>1. IInv /\ [Next]_vars => IInv'
  BY TypeOKStep, TablesHoldTurnsStep, CancelledHasNoEntryStep, QueuesOfPrimariesStep,
     QueuedOnceStep, StaleIsDisplacedStep, ReportsAgreeStep, LiveTurnsAreReachableStep,
     OnlyDisplacedStrandStep DEF IInv
<1> QED
  BY InitHolds, <1>1, PTL DEF Spec

(* The state of a thread's turns keeps its types.                           *)
THEOREM TypeCorrect == Spec => []TypeOK
<1>1. IInv => TypeOK
  BY DEF IInv
<1> QED
  BY Invariant, <1>1, PTL

(* cancel_chat reaches every accepted turn that still runs, unless a        *)
(* concurrent start_chat wrote over its entry.                              *)
THEOREM NoTurnEscapes == Spec => []LiveTurnsAreReachable
<1>1. IInv => LiveTurnsAreReachable
  BY DEF IInv
<1> QED
  BY Invariant, <1>1, PTL

(* A turn that ends of its own accord with its entry leaves no follow-up.   *)
THEOREM NoFollowupStrands == Spec => []OnlyDisplacedStrand
<1>1. IInv => OnlyDisplacedStrand
  BY DEF IInv
<1> QED
  BY Invariant, <1>1, PTL

(* A message is never both queued and answered, nor in two queues.          *)
THEOREM EachMessageOnce == Spec => []HandledOnce
<1>1. IInv => HandledOnce
  BY DEF IInv, QueuedOnce, TablesHoldTurns, TypeOK, HandledOnce
<1> QED
  BY Invariant, <1>1, PTL

(* "cancelled" and a result for one turn: only if it was delivering.        *)
THEOREM NoResultAfterCancel == Spec => []CancelledStaysQuiet
<1>1. IInv => CancelledStaysQuiet
  BY DEF IInv, ReportsAgree, CancelledStaysQuiet
<1> QED
  BY Invariant, <1>1, PTL
=============================================================================
