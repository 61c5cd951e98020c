------------------------- MODULE ApprovalGateProofs -------------------------
(***************************************************************************)
(* Theorems about ApprovalGate, for any calls, threads, meetings, origins  *)
(* and tools, and any number of store errors and crashes.                  *)
(***************************************************************************)
EXTENDS ApprovalGate, TLAPS

-----------------------------------------------------------------------------
(* What a statement of the store does to the table.                        *)

\* Stale rows become denials, and nothing else changes.
LEMMA ExpiryDenies ==
  ASSUME TypeOK, NEW k \in Calls
  PROVE  /\ Expired[k] = rows[k] \/ (rows[k] = "pending" /\ Expired[k] = "deny")
         /\ Expired \in [Calls -> {"absent", "pending"} \cup Decisions]
  BY DEF TypeOK, Expired, Decisions

\* A decision on c leaves the rows that are not pending alone; a row that changes
\* is denied by its time limit, or is c's.
LEMMA DecisionAdvances ==
  ASSUME TypeOK, NEW c \in Calls, NEW d \in Decisions
  PROVE  /\ Decided(Expired, c, d) \in [Calls -> {"absent", "pending"} \cup Decisions]
         /\ Expired[c] = "pending" => rows[c] = "pending" /\ Decided(Expired, c, d)[c] = d
         /\ Expired[c] # "pending" => Decided(Expired, c, d) = Expired
         /\ \A k \in Calls \ {c} : Decided(Expired, c, d)[k] = Expired[k]
  <1>1. Expired \in [Calls -> {"absent", "pending"} \cup Decisions]
    BY ExpiryDenies
  <1>2. Expired[c] = "pending" => rows[c] = "pending"
    BY ExpiryDenies
  <1> QED BY <1>1, <1>2 DEF Decided

\* A decision that fails leaves each row as it was, expired, or decided as asked.
LEMMA UnfinishedAdvances ==
  ASSUME TypeOK, NEW c \in Calls, NEW d \in Decisions, NEW t \in Unfinished(c, d)
  PROVE  /\ t \in [Calls -> {"absent", "pending"} \cup Decisions]
         /\ \A k \in Calls \ {c} : t[k] = rows[k] \/ (rows[k] = "pending" /\ t[k] = "deny")
         /\ t[c] = rows[c] \/ (rows[c] = "pending" /\ t[c] \in {d, "deny"})
  <1>1. CASE t = rows
    BY <1>1 DEF TypeOK
  <1>2. CASE t = Expired
    BY <1>2, ExpiryDenies
  <1>3. CASE t = Decided(Expired, c, d)
    BY <1>3, ExpiryDenies, DecisionAdvances
  <1> QED BY <1>1, <1>2, <1>3 DEF Unfinished

\* None is no decision.
LEMMA NoneIsNoDecision == None \notin Decisions
  BY NoneAssumption DEF Decisions, Approvals

-----------------------------------------------------------------------------
(* The inductive invariant.                                                *)

\* The invariant holds before any call asks.
LEMMA InitInvariant == Init => IInv
  <1> SUFFICES ASSUME Init PROVE IInv
    OBVIOUS
  <1>1. TypeOK
    BY BoundsAssumption DEF Init, TypeOK
  <1> QED BY <1>1 DEF Init, IInv, RowFollowsCall, DecisionsAgree, WaiterIsReady, ApprovalReachesCall

\* Every step of a call keeps the invariant.
LEMMA TurnInvariant ==
  ASSUME IInv, NEW c \in Calls, Turn(c)
  PROVE  IInv'
  <1> USE DEF IInv
  <1>1. CASE Exempt(c) \/ Reject(c) \/ Execute(c)
    BY <1>1 DEF Exempt, Reject, Execute, Goes, deciders, bounds, TypeOK, RowFollowsCall,
         DecisionsAgree, WaiterIsReady, ApprovalReachesCall
  <1>2. CASE Register(c)
    BY <1>2 DEF Register, Waiting, Goes, deciders, bounds, TypeOK, RowFollowsCall, Decisions,
         Approvals,
         DecisionsAgree, WaiterIsReady, ApprovalReachesCall
  <1>3. CASE Persist(c)
    BY <1>3, NoneIsNoDecision DEF Persist, Goes, deciders, bounds, TypeOK, RowFollowsCall,
         Decisions, Approvals,
         DecisionsAgree, WaiterIsReady, ApprovalReachesCall
  <1>4. CASE PersistFails(c)
    BY <1>4, BoundsAssumption DEF PersistFails, StoreFails, Cleared, Goes, deciders, bounds,
         TypeOK, RowFollowsCall,
         DecisionsAgree, WaiterIsReady, ApprovalReachesCall
  <1>5. CASE Receive(c)
    BY <1>5 DEF Receive, Verdict, Cleared, Goes, deciders, bounds, TypeOK, RowFollowsCall,
         DecisionsAgree, WaiterIsReady, ApprovalReachesCall
  <1>6. CASE TimeoutFires(c)
    BY <1>6 DEF TimeoutFires, Evicted, Goes, deciders, bounds, TypeOK, RowFollowsCall,
         DecisionsAgree, WaiterIsReady, ApprovalReachesCall
  <1>7. CASE TimeoutDenies(c)
    <2>1. /\ \A k \in Calls \ {c} : rows'[k] = Expired[k]
          /\ pc[c] = "elapsed" /\ rows[c] # "absent" /\ c \notin waiters
      BY <1>7, DecisionAdvances DEF TimeoutDenies, TypeOK, RowFollowsCall, Decisions
    <2>2. rows'[c] \in Decisions
      BY <1>7, <2>1, DecisionAdvances, ExpiryDenies DEF TimeoutDenies, TypeOK, Decisions
    <2>a. rows' \in [Calls -> {"absent", "pending"} \cup Decisions]
      BY <1>7, DecisionAdvances DEF TimeoutDenies, Decisions
    <2>b. route' \in [Surfaces -> Calls \cup {None}]
      BY <1>7 DEF TimeoutDenies, Cleared, TypeOK
    <2>3. TypeOK'
      BY <1>7, <2>1, <2>a, <2>b DEF TimeoutDenies, TypeOK, Goes, deciders, bounds
    <2>4. \A k \in Calls : rows[k] # "pending" => rows'[k] = rows[k]
      BY <1>7, <2>1, DecisionAdvances, ExpiryDenies DEF TimeoutDenies, Decisions
    <2>5. \A k \in Calls : rows'[k] = rows[k] \/ (rows[k] = "pending" /\ rows'[k] = "deny")
      BY <1>7, <2>1, DecisionAdvances, ExpiryDenies DEF TimeoutDenies, Decisions
    <2> QED BY <1>7, <2>1, <2>2, <2>3, <2>4, <2>5, NoneIsNoDecision DEF TimeoutDenies, Goes,
         deciders, bounds, RowFollowsCall,
         DecisionsAgree, WaiterIsReady, ApprovalReachesCall, TypeOK, Decisions, Approvals
  <1>8. CASE Reread(c)
    BY <1>8 DEF Reread, Honoured, Verdict, Cleared, Goes, deciders, bounds, TypeOK, RowFollowsCall,
         DecisionsAgree, WaiterIsReady, ApprovalReachesCall
  <1>9. CASE TimeoutStoreFails(c)
    <2>1. /\ rows' \in [Calls -> {"absent", "pending"} \cup Decisions]
          /\ \A k \in Calls : rows'[k] = rows[k] \/ (rows[k] = "pending" /\ rows'[k] = "deny")
      BY <1>9, UnfinishedAdvances DEF TimeoutStoreFails, TypeOK, Decisions
    <2>2. route' \in [Surfaces -> Calls \cup {None}] /\ storeErrors' \in 0..MaxStoreErrors
      BY <1>9, BoundsAssumption DEF TimeoutStoreFails, StoreFails, Cleared, TypeOK
    <2>3. TypeOK'
      BY <1>9, <2>1, <2>2 DEF TimeoutStoreFails, StoreFails, TypeOK, Goes, deciders
    <2>4. storeErrors' > 0
      BY <1>9, <2>2 DEF TimeoutStoreFails, StoreFails, TypeOK
    <2> QED BY <1>9, <2>1, <2>3, <2>4, NoneIsNoDecision DEF TimeoutStoreFails, Goes, deciders,
         RowFollowsCall, DecisionsAgree, WaiterIsReady, ApprovalReachesCall, TypeOK, Decisions,
         Approvals
  <1>10. CASE Finish(c)
    BY <1>10, BoundsAssumption DEF Finish, StoreFails, Goes, deciders, bounds, TypeOK,
         RowFollowsCall,
         DecisionsAgree, WaiterIsReady, ApprovalReachesCall
  <1> QED BY <1>1, <1>2, <1>3, <1>4, <1>5, <1>6, <1>7, <1>8, <1>9, <1>10 DEF Turn

\* A statement of the store that moves rows from pending to a decision, and hands
\* what it decided to a task that delivers it, or fails, keeps the invariant.
LEMMA TableInvariant ==
  ASSUME IInv, NEW c \in Calls, NEW d \in Decisions,
         rows' \in [Calls -> {"absent", "pending"} \cup Decisions],
         \A k \in Calls \ {c} : rows'[k] = rows[k] \/ (rows[k] = "pending" /\ rows'[k] = "deny"),
         \/ /\ rows[c] = "pending" /\ rows'[c] = d
            /\ delivering' = [delivering EXCEPT ![c] = d]
         \/ /\ rows'[c] = rows[c] \/ (rows[c] = "pending" /\ rows'[c] = "deny")
            /\ delivering' = delivering
         \/ /\ rows[c] = "pending" /\ rows'[c] = d /\ storeErrors' > 0
            /\ delivering' = delivering,
         storeErrors' \in storeErrors..MaxStoreErrors,
         UNCHANGED <<overdue, executed, pc, waiters, inbox, granting, autoApprove, route, crashes>>
  PROVE  IInv'
  <1> USE DEF IInv
  <1>1. TypeOK'
    BY DEF TypeOK
  <1>2. RowFollowsCall'
    BY DEF RowFollowsCall, TypeOK, Decisions, Approvals
  <1>3. DecisionsAgree'
    BY NoneIsNoDecision DEF DecisionsAgree, TypeOK, Decisions, Approvals
  <1>4. WaiterIsReady' /\ ApprovalReachesCall'
    BY NoneIsNoDecision DEF WaiterIsReady, ApprovalReachesCall, DecisionsAgree, TypeOK,
         Decisions, Approvals
  <1> QED BY <1>1, <1>2, <1>3, <1>4

\* Every step keeps the invariant.
LEMMA StepInvariant == IInv /\ [Next]_vars => IInv'
  <1> SUFFICES ASSUME IInv, [Next]_vars PROVE IInv'
    OBVIOUS
  <1>0. TypeOK
    BY DEF IInv
  <1>1. ASSUME NEW c \in Calls, Turn(c) PROVE IInv'
    BY <1>1, TurnInvariant
  <1>2. ASSUME NEW c \in Calls, BecomesOverdue(c) PROVE IInv'
    BY <1>2 DEF IInv, BecomesOverdue, deciders, bounds, TypeOK, RowFollowsCall, DecisionsAgree,
         WaiterIsReady, ApprovalReachesCall
  <1>3. ASSUME NEW c \in Calls, NEW d \in Decisions, Decide(c, d) PROVE IInv'
    <2>1. /\ rows' \in [Calls -> {"absent", "pending"} \cup Decisions]
          /\ \A k \in Calls \ {c} : rows'[k] = Expired[k]
      BY <1>0, <1>3, DecisionAdvances DEF Decide
    <2>2. \/ Expired[c] = "pending" /\ rows[c] = "pending" /\ rows'[c] = d
             /\ delivering' = [delivering EXCEPT ![c] = d]
          \/ rows'[c] = Expired[c] /\ delivering' = delivering
      BY <1>0, <1>3, DecisionAdvances DEF Decide
    <2>3. \A k \in Calls : Expired[k] = rows[k] \/ (rows[k] = "pending" /\ Expired[k] = "deny")
      BY <1>0, ExpiryDenies
    <2>4. storeErrors' \in storeErrors..MaxStoreErrors
      BY <1>0, <1>3, BoundsAssumption DEF Decide, bounds, TypeOK
    <2> QED BY <1>3, <2>1, <2>2, <2>3, <2>4, TableInvariant DEF Decide, bounds
  <1>4. ASSUME NEW c \in Calls, Deliver(c) PROVE IInv'
    BY <1>4, NoneIsNoDecision DEF IInv, Deliver, bounds, TypeOK, RowFollowsCall, DecisionsAgree,
         Decisions, Approvals,
         WaiterIsReady, ApprovalReachesCall
  <1>5. ASSUME NEW c \in Calls, SaveAlways(c) PROVE IInv'
    BY <1>5, ToolAssumption, BoundsAssumption DEF IInv, SaveAlways, StoreFails, bounds, TypeOK,
         RowFollowsCall, DecisionsAgree, WaiterIsReady, ApprovalReachesCall
  <1>6. ASSUME NEW c \in Calls, Cancel(c) PROVE IInv'
    BY <1>6 DEF IInv, Cancel, Goes, deciders, bounds, TypeOK, RowFollowsCall, DecisionsAgree,
         WaiterIsReady, ApprovalReachesCall
  <1>7. CASE ListPending
    <2>1. \A k \in Calls : rows'[k] = rows[k] \/ (rows[k] = "pending" /\ rows'[k] = "deny")
      BY <1>0, <1>7, ExpiryDenies DEF ListPending
    <2> QED BY <1>0, <1>7, <2>1, NoneIsNoDecision DEF ListPending, Expired, IInv, deciders,
         bounds, TypeOK,
         RowFollowsCall, DecisionsAgree, WaiterIsReady, ApprovalReachesCall, Decisions, Approvals
  <1>8. CASE Crash
    BY <1>8, BoundsAssumption, NoneIsNoDecision DEF IInv, Crash, TypeOK, RowFollowsCall,
         DecisionsAgree,
         WaiterIsReady, ApprovalReachesCall
  <1>9. ASSUME NEW s \in Surfaces, DecideByReply(s) PROVE IInv'
    <2>1. route[s] \in Calls /\ \E d \in Decisions : Decide(route[s], d)
      BY <1>0, <1>9 DEF DecideByReply, TypeOK, Decisions, Approvals
    <2> QED BY <1>3, <2>1
  <1>11. ASSUME NEW c \in Calls, DecideFails(c) PROVE IInv'
    <2>1. PICK d \in Decisions : rows' \in Unfinished(c, d)
      BY <1>11 DEF DecideFails
    <2>2. storeErrors' \in storeErrors..MaxStoreErrors /\ storeErrors' > 0
      BY <1>0, <1>11, BoundsAssumption DEF DecideFails, StoreFails, TypeOK
    <2>3. /\ rows' \in [Calls -> {"absent", "pending"} \cup Decisions]
          /\ \A k \in Calls \ {c} : rows'[k] = rows[k] \/ (rows[k] = "pending" /\ rows'[k] = "deny")
          /\ rows'[c] = rows[c] \/ (rows[c] = "pending" /\ rows'[c] \in {d, "deny"})
      BY <1>0, <2>1, UnfinishedAdvances
    <2> QED BY <1>11, <2>2, <2>3, TableInvariant DEF DecideFails, StoreFails, deciders
  <1>10. CASE UNCHANGED vars
    BY <1>10 DEF vars, IInv, TypeOK, RowFollowsCall, DecisionsAgree, WaiterIsReady,
         ApprovalReachesCall
  <1> QED BY <1>1, <1>2, <1>3, <1>4, <1>5, <1>6, <1>7, <1>8, <1>9, <1>10, <1>11
       DEF Next, DecideByRpc

\* The inductive invariant of the gate holds in every reachable state.
THEOREM Invariant == Spec => []IInv
  BY InitInvariant, StepInvariant, PTL DEF Spec

\* Rows, calls, channels and routes stay well typed, and no sender outlives its use.
THEOREM TypeCorrect == Spec => []TypeOK
  BY Invariant, PTL DEF IInv

\* However a decision, its delivery and the timeout interleave, a parked call whose
\* row is approved has the approval in its channel or still to come.
THEOREM ApprovalsArrive == Spec => []ApprovalReachesCall
  BY Invariant, PTL DEF IInv

-----------------------------------------------------------------------------
(* A call is turned away only with its row.                                *)

\* While the store works, a call that is denied has no row or a row that says deny:
\* the timeout never denies a call that the audit trail calls approved.
THEOREM DeniedByItsRow == Spec => DenialsAgree
  <1> DEFINE Agrees(c) ==
        pc[c] # "denied" /\ pc'[c] = "denied" /\ storeErrors' = storeErrors
          => rows'[c] \in {"absent", "deny"}
  <1>1. ASSUME IInv, Next PROVE \A c \in Calls : Agrees(c)
    <2>0. TypeOK
      BY <1>1 DEF IInv
    <2>1. ASSUME NEW k \in Calls, pc' = pc \/ Crash PROVE Agrees(k)
      BY <2>1 DEF Crash
    <2>2. ASSUME NEW c \in Calls, Turn(c), NEW k \in Calls PROVE Agrees(k)
      <3>1. CASE Exempt(c) \/ Register(c) \/ Persist(c) \/ TimeoutFires(c) \/ Execute(c) \/ Finish(c)
        BY <2>0, <3>1 DEF Exempt, Register, Persist, TimeoutFires, Execute, Finish, Goes, TypeOK
      <3>2. CASE Reject(c)
        BY <1>1, <2>0, <3>2 DEF Reject, Goes, TypeOK, IInv, RowFollowsCall
      <3>3. CASE PersistFails(c) \/ TimeoutStoreFails(c)
        BY <2>0, <3>3, BoundsAssumption DEF PersistFails, TimeoutStoreFails, StoreFails, TypeOK
      <3>4. CASE Receive(c)
        BY <1>1, <2>0, <3>4 DEF Receive, Verdict, Goes, TypeOK, IInv, DecisionsAgree, Decisions
      <3>5. CASE TimeoutDenies(c)
        BY <2>0, <3>5, DecisionAdvances DEF TimeoutDenies, Goes, TypeOK, Decisions
      <3>6. CASE Reread(c)
        BY <1>1, <2>0, <3>6 DEF Reread, Honoured, Verdict, Goes, TypeOK, IInv, RowFollowsCall,
         Decisions
      <3> QED BY <2>2, <3>1, <3>2, <3>3, <3>4, <3>5, <3>6 DEF Turn
    <2>3. ASSUME NEW c \in Calls, Cancel(c), NEW k \in Calls PROVE Agrees(k)
      BY <2>0, <2>3 DEF Cancel, Goes, TypeOK
    <2> QED BY <1>1, <2>1, <2>2, <2>3 DEF Next, BecomesOverdue, DecideByRpc, Deliver, SaveAlways,
         DecideByReply, Decide, DecideFails, ListPending
  <1>2. IInv /\ [Next]_vars => [\A c \in Calls : Agrees(c)]_vars
    BY <1>1
  <1> HIDE DEF Agrees
  <1>3. Spec => [][\A c \in Calls : Agrees(c)]_vars
    BY <1>2, Invariant, PTL DEF Spec
  <1> QED BY <1>3 DEF DenialsAgree, Agrees

-----------------------------------------------------------------------------
(* The gate implements Consent.                                            *)

\* Where a call is once the gate has let it go.
LetGo == {"allowed", "running", "finished", "unrun", "cut"}

\* A decided row keeps its decision, only a registered call gets a row, and a call
\* that was let go stays so.
LEMMA RowsStand ==
  ASSUME IInv, [Next]_vars, NEW k \in Calls
  PROVE  /\ rows[k] # "pending" => rows'[k] = rows[k] \/ pc[k] = "registered"
         /\ pc[k] \in LetGo => pc'[k] \in LetGo
  <1>0. TypeOK /\ Expired[k] = (IF rows[k] = "pending" /\ k \in overdue THEN "deny" ELSE rows[k])
    BY DEF IInv, Expired
  <1>1. ASSUME NEW c \in Calls,
         Exempt(c) \/ Reject(c) \/ Register(c) \/ PersistFails(c) \/ Receive(c)
                 \/ TimeoutFires(c) \/ Reread(c) \/ Execute(c) \/ Finish(c) \/ Cancel(c)
        PROVE  rows' = rows /\ (pc[k] \in LetGo => pc'[k] \in LetGo)
    BY <1>0, <1>1 DEF Exempt, Reject, Register, PersistFails, Receive, TimeoutFires, Reread,
         Execute, Finish, Cancel, Goes, TypeOK, LetGo
  <1>2. ASSUME NEW c \in Calls, Persist(c)
        PROVE  (rows'[k] = rows[k] \/ pc[k] = "registered") /\ (pc[k] \in LetGo => pc'[k] \in LetGo)
    BY <1>0, <1>2 DEF Persist, Goes, TypeOK, LetGo
  <1>3. ASSUME NEW c \in Calls, TimeoutDenies(c)
        PROVE  (rows[k] # "pending" => rows'[k] = rows[k]) /\ (pc[k] \in LetGo => pc'[k] \in LetGo)
    <2>1. pc[k] \in LetGo => pc'[k] \in LetGo
      BY <1>0, <1>3 DEF TimeoutDenies, Goes, TypeOK, LetGo
    <2>2. rows[k] # "pending" => rows'[k] = rows[k]
      BY <1>0, <1>3, DecisionAdvances DEF TimeoutDenies, Decisions
    <2> QED BY <2>1, <2>2
  <1>4. ASSUME NEW c \in Calls, NEW d \in Decisions, Decide(c, d)
        PROVE  (rows[k] # "pending" => rows'[k] = rows[k]) /\ pc' = pc
    BY <1>0, <1>4, DecisionAdvances DEF Decide
  <1>5. ASSUME NEW s \in Surfaces, DecideByReply(s)
        PROVE  (rows[k] # "pending" => rows'[k] = rows[k]) /\ pc' = pc
    <2>1. route[s] \in Calls /\ \E d \in Decisions : Decide(route[s], d)
      BY <1>0, <1>5 DEF DecideByReply, TypeOK, Decisions, Approvals
    <2> QED BY <1>4, <2>1
  <1>6. CASE ListPending
    BY <1>0, <1>6 DEF ListPending
  <1>7. CASE Crash
    BY <1>0, <1>7 DEF Crash, LetGo
  <1>8. ASSUME NEW c \in Calls, BecomesOverdue(c) \/ Deliver(c) \/ SaveAlways(c)
        PROVE  UNCHANGED <<rows, pc>>
    BY <1>8 DEF BecomesOverdue, Deliver, SaveAlways
  <1>9. ASSUME NEW c \in Calls, TimeoutStoreFails(c)
        PROVE  (rows[k] # "pending" => rows'[k] = rows[k]) /\ (pc[k] \in LetGo => pc'[k] \in LetGo)
    <2>1. rows[k] # "pending" => rows'[k] = rows[k]
      BY <1>0, <1>9, UnfinishedAdvances DEF TimeoutStoreFails, Decisions
    <2>2. pc[k] \in LetGo => pc'[k] \in LetGo
      BY <1>0, <1>9 DEF TimeoutStoreFails, Goes, TypeOK, LetGo
    <2> QED BY <2>1, <2>2
  <1>10. ASSUME NEW c \in Calls, DecideFails(c)
         PROVE  (rows[k] # "pending" => rows'[k] = rows[k]) /\ pc' = pc
    BY <1>0, <1>10, UnfinishedAdvances DEF DecideFails
  <1> QED BY <1>1, <1>2, <1>3, <1>4, <1>5, <1>6, <1>7, <1>8, <1>9, <1>10 DEF Next, Turn,
         DecideByRpc, vars

\* A ruling, once made, stands.
LEMMA RulingsStand ==
  ASSUME IInv, [Next]_vars, NEW k \in Calls, Ruling(k) # "open"
  PROVE  Ruling(k)' = Ruling(k)
  <1>1. rows[k] \in Decisions \/ (rows[k] = "absent" /\ pc[k] \in LetGo)
    BY DEF Ruling, LetGo, Decisions
  <1>2. rows'[k] = rows[k]
    BY <1>1, RowsStand DEF IInv, RowFollowsCall, LetGo, Decisions, Approvals
  <1>3. rows[k] = "absent" => pc'[k] \in LetGo
    BY <1>1, RowsStand DEF Decisions, Approvals
  <1> QED BY <1>1, <1>2, <1>3 DEF Ruling, LetGo, Decisions, Approvals

\* A step in which calls are at most turned away is a step of Consent.
LEMMA DropStep ==
  ASSUME \A k \in Calls : Ruling(k) # "open" => Ruling(k)' = Ruling(k),
         \A k \in Calls : Fate(k)' = Fate(k) \/ (Fate(k) = "waiting" /\ Fate(k)' = "dropped")
  PROVE  Promise!Next
  <1> DEFINE turned == {k \in Calls : Fate(k) = "waiting" /\ Fate(k)' = "dropped"}
  <1>1. [k \in Calls |-> Fate(k)]' = [k \in Calls |-> IF k \in turned THEN "dropped" ELSE Fate(k)]
    OBVIOUS
  <1>2. turned \in SUBSET {k \in Calls : [c \in Calls |-> Fate(c)][k] = "waiting"}
    OBVIOUS
  <1>3. Promise!Rules
    BY DEF Promise!Rules, Ruling
  <1> QED BY <1>1, <1>2, <1>3 DEF Promise!Next, Promise!Drop

\* Only Execute makes a call act; every other step at most turns calls away.
LEMMA FatesDrop ==
  ASSUME IInv, [Next]_vars, \A c \in Calls : ~Execute(c), NEW k \in Calls
  PROVE  Fate(k)' = Fate(k) \/ (Fate(k) = "waiting" /\ Fate(k)' = "dropped")
  <1>0. TypeOK
    BY DEF IInv
  <1>1. ASSUME NEW c \in Calls, Turn(c)
        PROVE  Fate(k)' = Fate(k) \/ (Fate(k) = "waiting" /\ Fate(k)' = "dropped")
    <2>1. CASE Exempt(c) \/ Reject(c) \/ Register(c) \/ Persist(c) \/ PersistFails(c)
      BY <1>0, <2>1 DEF Exempt, Reject, Register, Persist, PersistFails, Goes, TypeOK, Fate
    <2>2. CASE Receive(c) \/ TimeoutFires(c) \/ Reread(c) \/ TimeoutStoreFails(c) \/ Finish(c)
      BY <1>0, <2>2 DEF Receive, Verdict, Honoured, TimeoutFires, Reread, TimeoutStoreFails, Finish,
           Goes, TypeOK, Fate
    <2>3. CASE TimeoutDenies(c)
      BY <1>0, <2>3 DEF TimeoutDenies, Goes, TypeOK, Fate
    <2> QED BY <1>1, <2>1, <2>2, <2>3 DEF Turn
  <1>2. ASSUME NEW c \in Calls, Cancel(c)
        PROVE  Fate(k)' = Fate(k) \/ (Fate(k) = "waiting" /\ Fate(k)' = "dropped")
    BY <1>0, <1>2 DEF Cancel, Goes, TypeOK, Fate
  <1>3. CASE Crash
    BY <1>0, <1>3 DEF Crash, TypeOK, Fate
  <1>4. CASE UNCHANGED pc
    BY <1>4 DEF Fate
  <1> QED BY <1>1, <1>2, <1>3, <1>4 DEF Next, vars, BecomesOverdue, DecideByRpc, Deliver,
         SaveAlways,
         DecideByReply, Decide, DecideFails, ListPending

\* A call runs on a ruling in its favour.
LEMMA ActStep ==
  ASSUME IInv, [Next]_vars, NEW c \in Calls, Execute(c)
  PROVE  Promise!Act(c)
  <1>0. TypeOK /\ pc[c] = "allowed" /\ pc' = [pc EXCEPT ![c] = "running"] /\ rows' = rows
    BY DEF IInv, Execute, Goes
  <1>1. Ruling(c) = "granted" /\ Fate(c) = "waiting"
    BY <1>0 DEF IInv, RowFollowsCall, Ruling, Fate, Approvals
  <1>2. \A k \in Calls : Ruling(k)' = Ruling(k)
    BY <1>0 DEF TypeOK, Ruling
  <1>3. \A k \in Calls : Fate(k)' = IF k = c THEN "acted" ELSE Fate(k)
    BY <1>0 DEF TypeOK, Fate
  <1>4. [k \in Calls |-> Fate(k)]' = [[k \in Calls |-> Fate(k)] EXCEPT ![c] = "acted"]
    BY <1>3
  <1>5. [k \in Calls |-> Ruling(k)]' = [k \in Calls |-> Ruling(k)]
    BY <1>2
  <1> QED BY <1>1, <1>4, <1>5 DEF Promise!Act

\* The gate keeps its promise: no external effect without a ruling in its favour,
\* at most one effect, and no ruling is ever changed.
THEOREM GateKeepsPromise == Spec => KeepsPromise
  <1>1. Init => Promise!Init
    BY DEF Init, Promise!Init, Ruling, Fate, Decisions, Approvals
  <1>2. IInv /\ [Next]_vars => [Promise!Next]_(Promise!vars)
    <2> SUFFICES ASSUME IInv, [Next]_vars PROVE Promise!Next
      OBVIOUS
    <2>1. CASE \E c \in Calls : Execute(c)
      BY <2>1, ActStep DEF Promise!Next
    <2>2. CASE \A c \in Calls : ~Execute(c)
      BY <2>2, DropStep, RulingsStand, FatesDrop
    <2> QED BY <2>1, <2>2
  <1> QED BY <1>1, <1>2, Invariant, PTL DEF Spec, KeepsPromise, Promise!Spec

-----------------------------------------------------------------------------
(* Routes lead to calls that asked.                                        *)

\* A step that writes over no route but to drop it, and after which each call that is
\* still routed to waits or is left behind, keeps the routes known.
LEMMA RoutesKept ==
  ASSUME TypeOK, RoutesKnown, NEW c \in Calls,
         \A k \in Calls \ {c} : pc'[k] = pc[k],
         \A k \in Calls : pc[k] = "denied" /\ rows[k] = "absent" => rows'[k] = "absent",
         \/ route' = route /\ pc'[c] = pc[c]
         \/ route' = route /\ pc'[c] \in {"registered", "parked", "elapsed", "reread", "gone"}
         \/ route' = Cleared(SurfacesOf[c])
  PROVE  RoutesKnown'
  <1> SUFFICES ASSUME NEW s \in Surfaces, route'[s] # None
               PROVE  /\ s \in SurfacesOf[route'[s]]
                      /\ \/ pc'[route'[s]] \in {"registered", "parked", "elapsed", "reread"}
                         \/ LeftBehind(route[s], s)'
    BY DEF RoutesKnown
  <1>1. route'[s] = route[s] /\ route[s] \in Calls
    BY DEF Cleared, TypeOK
  <1>2. /\ s \in SurfacesOf[route[s]]
        /\ pc[route[s]] \in {"registered", "parked", "elapsed", "reread"} \/ LeftBehind(route[s], s)
    BY <1>1 DEF RoutesKnown
  <1>3. CASE pc'[route[s]] = pc[route[s]]
    BY <1>1, <1>2, <1>3 DEF LeftBehind
  <1>4. CASE route[s] = c /\ route' = route /\ pc'[c] \in {"registered", "parked", "elapsed", "reread", "gone"}
    BY <1>1, <1>2, <1>4 DEF LeftBehind
  <1>5. CASE route[s] = c /\ route' = Cleared(SurfacesOf[c])
    BY <1>1, <1>2, <1>5 DEF Cleared
  <1> QED BY <1>1, <1>3, <1>4, <1>5

\* Every step keeps the routes known.
LEMMA RoutesStep ==
  ASSUME IInv, RoutesKnown, [Next]_vars
  PROVE  RoutesKnown'
  <1>0. TypeOK /\ RowFollowsCall
    BY DEF IInv
  <1>r. \A k \in Calls : pc[k] = "denied" /\ rows[k] = "absent" => rows'[k] = "absent"
    BY RowsStand
  <1>1. ASSUME NEW c \in Calls, Exempt(c) \/ Reject(c) \/ Execute(c) \/ Finish(c)
        PROVE  RoutesKnown'
    <2>1. /\ UNCHANGED <<rows, route>> /\ pc[c] \in {"new", "allowed", "running"}
          /\ \A k \in Calls \ {c} : pc'[k] = pc[k]
      BY <1>0, <1>1 DEF Exempt, Reject, Execute, Finish, Goes, TypeOK
    <2> QED BY <1>0, <2>1 DEF RoutesKnown, LeftBehind, TypeOK
  <1>2. ASSUME NEW c \in Calls, Register(c) PROVE RoutesKnown'
    <2>1. /\ UNCHANGED rows /\ pc'[c] = "registered" /\ pc[c] = "new"
          /\ \A k \in Calls \ {c} : pc'[k] = pc[k]
          /\ \A s \in Surfaces : route'[s] = IF s \in SurfacesOf[c] THEN c ELSE route[s]
      BY <1>0, <1>2 DEF Register, Goes, TypeOK
    <2> QED BY <1>0, <2>1 DEF RoutesKnown, LeftBehind, TypeOK
  <1>3. ASSUME NEW c \in Calls, Persist(c) \/ TimeoutFires(c) \/ Cancel(c) PROVE RoutesKnown'
    <2>1. CASE Cancel(c) /\ pc[c] = "running"
      <3>1. UNCHANGED <<rows, route>> /\ \A k \in Calls \ {c} : pc'[k] = pc[k]
        BY <1>0, <2>1 DEF Cancel, Goes, TypeOK
      <3> QED BY <1>0, <2>1, <3>1 DEF RoutesKnown, LeftBehind, TypeOK
    <2>2. CASE ~(Cancel(c) /\ pc[c] = "running")
      <3>1. /\ route' = route /\ pc'[c] \in {"parked", "elapsed", "gone"}
            /\ \A k \in Calls \ {c} : pc'[k] = pc[k]
        BY <1>0, <1>3, <2>2 DEF Persist, TimeoutFires, Cancel, Goes, TypeOK
      <3> QED BY <1>0, <1>r, <3>1, RoutesKept
    <2> QED BY <2>1, <2>2
  <1>4. ASSUME NEW c \in Calls, PersistFails(c) PROVE RoutesKnown'
    <2>1. /\ UNCHANGED rows /\ rows[c] = "absent" /\ pc'[c] = "denied"
          /\ \A k \in Calls \ {c} : pc'[k] = pc[k]
          /\ \A s \in Surfaces : route'[s] = IF s \in SurfacesOf[c] \cap Threads THEN None ELSE route[s]
      BY <1>0, <1>4 DEF PersistFails, Cleared, Goes, TypeOK, RowFollowsCall
    <2>2. SurfacesOf[c] \subseteq Threads \cup Meetings
      BY SurfacesAssumption DEF Surfaces
    <2> QED BY <1>0, <2>1, <2>2 DEF RoutesKnown, LeftBehind, TypeOK
  <1>5. ASSUME NEW c \in Calls,
               Receive(c) \/ TimeoutDenies(c) \/ Reread(c) \/ TimeoutStoreFails(c)
        PROVE  RoutesKnown'
    <2>1. /\ \A k \in Calls \ {c} : pc'[k] = pc[k]
          /\ \/ route' = Cleared(SurfacesOf[c])
             \/ route' = route /\ pc'[c] = "reread"
      BY <1>0, <1>5 DEF Receive, TimeoutDenies, Reread, TimeoutStoreFails, Goes, TypeOK
    <2> QED BY <1>0, <1>r, <2>1, RoutesKept
  <1>6. CASE Crash
    BY <1>6 DEF Crash, RoutesKnown
  <1>7. CASE UNCHANGED <<pc, route>>
    BY <1>0, <1>r, <1>7 DEF RoutesKnown, LeftBehind, TypeOK
  <1> QED BY <1>1, <1>2, <1>3, <1>4, <1>5, <1>6, <1>7 DEF Next, Turn, BecomesOverdue, DecideByRpc,
       DecideFails, Deliver, SaveAlways, DecideByReply, Decide, ListPending, vars

\* A reply on a thread or in a meeting is never applied to a call that has its answer,
\* nor to one that asked elsewhere: what a surface leads to asked there, and waits, or
\* lost its turn (gate.rs:536) or, in a meeting, its insert (gate.rs:474-476).
THEOREM RepliesFindAskers == Spec => []RoutesKnown
  <1>1. Init => RoutesKnown
    BY DEF Init, RoutesKnown
  <1>2. IInv /\ RoutesKnown /\ [Next]_vars => RoutesKnown'
    BY RoutesStep
  <1> QED BY <1>1, <1>2, Invariant, PTL DEF Spec
=============================================================================
