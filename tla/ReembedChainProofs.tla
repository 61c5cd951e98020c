------------------------- MODULE ReembedChainProofs -------------------------
(***************************************************************************)
(* Safety of ReembedChain for any chunks, summaries, signatures and batch  *)
(* size, and any number of disturbances.                                   *)
(***************************************************************************)
EXTENDS ReembedChain, FiniteSetTheorems, TLAPS

(* A worker that calls ensure_reembed_backfill has admitted its chunk, its  *)
(* extract job is not over, and it asks about the loaded signature.         *)
CallersUnderWay ==
  /\ \A c \in Chunks : ensure[c] # None \/ c \in raising => extract[c] = "admitted"
  /\ \A a \in raising : ensure[a] = None
  /\ \A a \in Callers \ {Rpc} : ensure[a] \in {None, loaded}

(* The stale check ends every other chain before it has a batch.            *)
OnlyLoadedWorks ==
  \A s \in Signatures : stage[s] \in {"embed", "write", "defer", "fail"} => s = loaded

(* UncoveredIsPursued, from the enqueue on.                                 *)
HandedOver ==
  \A c \in Chunks :
    c \in Uncovered(loaded) /\ (extract[c] = "done" \/ c \in raising)
      => Pursued \/ c \in missed

(* The batch in hand is of the loaded chain, and nothing else covers it.   *)
BatchUncovered == batch \cap (vectors[loaded] \cup skipped[loaded]) = {}

IInv ==
  /\ TypeOK
  /\ CallersUnderWay
  /\ OnlyLoadedWorks
  /\ CoverageIsReal
  /\ BatchUncovered
  /\ HandedOver
  /\ FlagStandsForBatch

(* Every step keeps the types, and runs and running rows together.         *)
LEMMA TypeOKStep == IInv /\ [Next]_vars => TypeOK'
<1> SUFFICES ASSUME IInv, [Next]_vars PROVE TypeOK'
  OBVIOUS
<1>1. ASSUME NEW c \in Chunks, Ingest(c) PROVE TypeOK'
  BY <1>1, ItemsApart, SignaturesNamed, CallersApart, BoundIsNat DEF IInv, TypeOK, Ingest,
     Uncovered, Items, Callers, config, data, calls, chain
<1>2. ASSUME NEW c \in Chunks, Extract(c) PROVE TypeOK'
  BY <1>2, ItemsApart, SignaturesNamed, CallersApart, BoundIsNat DEF IInv, TypeOK, Extract,
     Uncovered, Items, Callers, config, data, calls, chain
<1>3. ASSUME NEW m \in Summaries, Seal(m) PROVE TypeOK'
  BY <1>3, ItemsApart, SignaturesNamed, CallersApart, BoundIsNat DEF IInv, TypeOK, Seal,
     Uncovered, Items, Callers, config, data, calls, chain
<1>4. ASSUME NEW i \in Items, Delete(i) PROVE TypeOK'
  BY <1>4, ItemsApart, SignaturesNamed, CallersApart, BoundIsNat DEF IInv, TypeOK, Delete,
     Erased, Uncovered, Items, Callers, config, data, calls, chain
<1>5. ASSUME NEW a \in Callers, Probe(a) PROVE TypeOK'
  BY <1>5, ItemsApart, SignaturesNamed, CallersApart, BoundIsNat DEF IInv, TypeOK, Probe,
     SignatureOf, Over, Uncovered, Items, Callers, config, data, calls, chain
<1>6. ASSUME NEW a \in Callers, Enqueue(a) PROVE TypeOK'
  BY <1>6, ItemsApart, SignaturesNamed, CallersApart, BoundIsNat DEF IInv, TypeOK, Enqueue,
     Inserted, Suppressed, LeftBehind, Uncovered, Items, Callers, config, data, calls, chain
<1>7. ASSUME NEW a \in Callers, RaiseFlag(a) PROVE TypeOK'
  BY <1>7, ItemsApart, SignaturesNamed, CallersApart, BoundIsNat DEF IInv, TypeOK, RaiseFlag,
     Over, Uncovered, Items, Callers, config, data, calls, chain
<1>8. ASSUME NEW s \in Signatures, ChangeSettings(s) PROVE TypeOK'
  BY <1>8, ItemsApart, SignaturesNamed, CallersApart, BoundIsNat DEF IInv, TypeOK,
     ChangeSettings, Uncovered, Items, Callers, config, data, calls, chain
<1>9. ASSUME NEW s \in Signatures, Claim(s) PROVE TypeOK'
  BY <1>9, ItemsApart, SignaturesNamed, CallersApart, BoundIsNat DEF IInv, TypeOK, Claim,
     Uncovered, Items, Callers, config, data, calls, chain
<1>10. ASSUME NEW s \in Signatures, EndStale(s) PROVE TypeOK'
  BY <1>10, ItemsApart, SignaturesNamed, CallersApart, BoundIsNat DEF IInv, TypeOK, EndStale,
     StaleFlag, Uncovered, Items, Callers, config, data, calls, chain
<1>11. ASSUME NEW s \in Signatures, ReadWorklist(s) PROVE TypeOK'
  BY <1>11, ItemsApart, SignaturesNamed, CallersApart, BoundIsNat DEF IInv, TypeOK,
     ReadWorklist, Batches, Uncovered, Items, Callers, config, data, calls, chain
<1>12. ASSUME NEW s \in Signatures, NoProvider(s) PROVE TypeOK'
  BY <1>12, ItemsApart, SignaturesNamed, CallersApart, BoundIsNat DEF IInv, TypeOK, NoProvider,
     Uncovered, Items, Callers, config, data, calls, chain
<1>13. ASSUME NEW s \in Signatures, Embed(s) PROVE TypeOK'
  BY <1>13, ItemsApart, SignaturesNamed, CallersApart, BoundIsNat DEF IInv, TypeOK, Embed,
     Refusals, GiveUp, Tombstones, Uncovered, Items, Callers, config, data, calls, chain
<1>14. ASSUME NEW s \in Signatures, EmbedFails(s) PROVE TypeOK'
  BY <1>14, ItemsApart, SignaturesNamed, CallersApart, BoundIsNat DEF IInv, TypeOK, EmbedFails,
     Refusals, GiveUp, Tombstones, Uncovered, Items, Callers, config, data, calls, chain
<1>15. ASSUME NEW s \in Signatures, Write(s) PROVE TypeOK'
  BY <1>15, ItemsApart, SignaturesNamed, CallersApart, BoundIsNat DEF IInv, TypeOK, Write,
     Writable, Uncovered, Items, Callers, config, data, calls, chain
<1>16. ASSUME NEW s \in Signatures, Settle(s) PROVE TypeOK'
  BY <1>16, ItemsApart, SignaturesNamed, CallersApart, BoundIsNat DEF IInv, TypeOK, Settle,
     Uncovered, Items, Callers, config, data, calls, chain
<1>17. CASE Sweep
  BY <1>17, ItemsApart, SignaturesNamed, CallersApart, BoundIsNat DEF IInv, TypeOK, Sweep,
     Suppressed, Uncovered, Items, Callers, config, data, calls, chain
<1>18. CASE SignOut
  <2>1. usable' \in BOOLEAN
    BY <1>18 DEF SignOut
  <2>2. disturbances' \in 0..MaxDisturbances
    BY <1>18, BoundIsNat DEF IInv, TypeOK, SignOut
  <2>3. UNCHANGED <<saved, loaded, data, calls, chain>>
    BY <1>18 DEF SignOut
  <2> QED
    BY <2>1, <2>2, <2>3 DEF IInv, TypeOK, data, calls, chain
<1>19. CASE SignIn
  BY <1>19, ItemsApart, SignaturesNamed, CallersApart, BoundIsNat DEF IInv, TypeOK, SignIn,
     Uncovered, Items, Callers, config, data, calls, chain
<1>20. CASE Restart
  <2>1. disturbances' \in 0..MaxDisturbances
    BY <1>20, BoundIsNat DEF IInv, TypeOK, Restart
  <2>2. flag' \in BOOLEAN /\ usable' \in BOOLEAN
    BY <1>20 DEF IInv, TypeOK, Restart
  <2>3. /\ row' \in [Signatures -> {"none", "ready", "running"}]
        /\ stage' = [s \in Signatures |-> "idle"]
        /\ \A s \in Signatures : row'[s] # "running"
    BY <1>20 DEF IInv, TypeOK, Restart, Recovered
  <2>4. /\ ensure' \in [Callers -> Signatures \cup {None}] /\ raising' \subseteq Callers
        /\ extract' \in [Chunks -> {"none", "due", "admitted", "done"}]
    BY <1>20 DEF IInv, TypeOK, Restart
  <2>5. /\ saved' \in Signatures /\ loaded' \in Signatures
        /\ batch' \subseteq Items /\ missed' \subseteq Items
    BY <1>20 DEF IInv, TypeOK, Restart, Uncovered
  <2>6. UNCHANGED <<data, failed>>
    BY <1>20 DEF Restart
  <2> QED
    BY <2>1, <2>2, <2>3, <2>4, <2>5, <2>6 DEF IInv, TypeOK, data
<1>21. CASE UNCHANGED vars
  BY <1>21 DEF IInv, TypeOK, vars, Uncovered, Items, Callers, config, data, calls, chain
<1> QED
  BY <1>1, <1>2, <1>3, <1>4, <1>5, <1>6, <1>7, <1>8, <1>9, <1>10, <1>11, <1>12, <1>13, <1>14,
     <1>15, <1>16, <1>17, <1>18, <1>19, <1>20, <1>21 DEF Next, RunStep, EnsureStep

(* A worker ends its extract job after its call of ensure_reembed_backfill. *)
LEMMA CallersUnderWayStep == IInv /\ [Next]_vars => CallersUnderWay'
<1> SUFFICES ASSUME IInv, [Next]_vars PROVE CallersUnderWay'
  OBVIOUS
<1>1. ASSUME NEW c \in Chunks, Ingest(c) PROVE CallersUnderWay'
  BY <1>1, ItemsApart, SignaturesNamed, CallersApart DEF IInv, TypeOK, CallersUnderWay, Ingest,
     Uncovered, Items, Callers, config, data, calls, chain
<1>2. ASSUME NEW c \in Chunks, Extract(c) PROVE CallersUnderWay'
  BY <1>2, ItemsApart, SignaturesNamed, CallersApart DEF IInv, TypeOK, CallersUnderWay,
     Extract, Uncovered, Items, Callers, config, data, calls, chain
<1>3. ASSUME NEW m \in Summaries, Seal(m) PROVE CallersUnderWay'
  BY <1>3, ItemsApart, SignaturesNamed, CallersApart DEF IInv, TypeOK, CallersUnderWay, Seal,
     Uncovered, Items, Callers, config, data, calls, chain
<1>4. ASSUME NEW i \in Items, Delete(i) PROVE CallersUnderWay'
  BY <1>4, ItemsApart, SignaturesNamed, CallersApart DEF IInv, TypeOK, CallersUnderWay, Delete,
     Erased, Uncovered, Items, Callers, config, data, calls, chain
<1>5. ASSUME NEW a \in Callers, Probe(a) PROVE CallersUnderWay'
  BY <1>5, ItemsApart, SignaturesNamed, CallersApart DEF IInv, TypeOK, CallersUnderWay, Probe,
     SignatureOf, Over, Uncovered, Items, Callers, config, data, calls, chain
<1>6. ASSUME NEW a \in Callers, Enqueue(a) PROVE CallersUnderWay'
  BY <1>6, ItemsApart, SignaturesNamed, CallersApart DEF IInv, TypeOK, CallersUnderWay,
     Enqueue, Inserted, Suppressed, LeftBehind, Uncovered, Items, Callers, config, data, calls,
     chain
<1>7. ASSUME NEW a \in Callers, RaiseFlag(a) PROVE CallersUnderWay'
  BY <1>7, ItemsApart, SignaturesNamed, CallersApart DEF IInv, TypeOK, CallersUnderWay,
     RaiseFlag, Over, Uncovered, Items, Callers, config, data, calls, chain
<1>8. ASSUME NEW s \in Signatures, ChangeSettings(s) PROVE CallersUnderWay'
  BY <1>8, ItemsApart, SignaturesNamed, CallersApart DEF IInv, TypeOK, CallersUnderWay,
     ChangeSettings, Uncovered, Items, Callers, config, data, calls, chain
<1>9. ASSUME NEW s \in Signatures, Claim(s) PROVE CallersUnderWay'
  BY <1>9, ItemsApart, SignaturesNamed, CallersApart DEF IInv, TypeOK, CallersUnderWay, Claim,
     Uncovered, Items, Callers, config, data, calls, chain
<1>10. ASSUME NEW s \in Signatures, EndStale(s) PROVE CallersUnderWay'
  BY <1>10, ItemsApart, SignaturesNamed, CallersApart DEF IInv, TypeOK, CallersUnderWay,
     EndStale, StaleFlag, Uncovered, Items, Callers, config, data, calls, chain
<1>11. ASSUME NEW s \in Signatures, ReadWorklist(s) PROVE CallersUnderWay'
  BY <1>11, ItemsApart, SignaturesNamed, CallersApart DEF IInv, TypeOK, CallersUnderWay,
     ReadWorklist, Batches, Uncovered, Items, Callers, config, data, calls, chain
<1>12. ASSUME NEW s \in Signatures, NoProvider(s) PROVE CallersUnderWay'
  BY <1>12, ItemsApart, SignaturesNamed, CallersApart DEF IInv, TypeOK, CallersUnderWay,
     NoProvider, Uncovered, Items, Callers, config, data, calls, chain
<1>13. ASSUME NEW s \in Signatures, Embed(s) PROVE CallersUnderWay'
  BY <1>13, ItemsApart, SignaturesNamed, CallersApart DEF IInv, TypeOK, CallersUnderWay, Embed,
     Refusals, GiveUp, Tombstones, Uncovered, Items, Callers, config, data, calls, chain
<1>14. ASSUME NEW s \in Signatures, EmbedFails(s) PROVE CallersUnderWay'
  BY <1>14, ItemsApart, SignaturesNamed, CallersApart DEF IInv, TypeOK, CallersUnderWay,
     EmbedFails, Refusals, GiveUp, Tombstones, Uncovered, Items, Callers, config, data, calls,
     chain
<1>15. ASSUME NEW s \in Signatures, Write(s) PROVE CallersUnderWay'
  BY <1>15, ItemsApart, SignaturesNamed, CallersApart DEF IInv, TypeOK, CallersUnderWay, Write,
     Writable, Uncovered, Items, Callers, config, data, calls, chain
<1>16. ASSUME NEW s \in Signatures, Settle(s) PROVE CallersUnderWay'
  BY <1>16, ItemsApart, SignaturesNamed, CallersApart DEF IInv, TypeOK, CallersUnderWay,
     Settle, Uncovered, Items, Callers, config, data, calls, chain
<1>17. CASE Sweep
  BY <1>17, ItemsApart, SignaturesNamed, CallersApart DEF IInv, TypeOK, CallersUnderWay,
     Sweep, Suppressed, Uncovered, Items, Callers, config, data, calls, chain
<1>18. CASE SignOut
  BY <1>18, ItemsApart, SignaturesNamed, CallersApart DEF IInv, TypeOK, CallersUnderWay,
     SignOut, Uncovered, Items, Callers, config, data, calls, chain
<1>19. CASE SignIn
  BY <1>19, ItemsApart, SignaturesNamed, CallersApart DEF IInv, TypeOK, CallersUnderWay,
     SignIn, Uncovered, Items, Callers, config, data, calls, chain
<1>20. CASE Restart
  BY <1>20, ItemsApart, SignaturesNamed, CallersApart DEF IInv, TypeOK, CallersUnderWay,
     Restart, Recovered, Uncovered, Items, Callers, config, data, calls, chain
<1>21. CASE UNCHANGED vars
  BY <1>21 DEF IInv, TypeOK, CallersUnderWay, vars, Uncovered, Items, Callers, config, data,
     calls, chain
<1> QED
  BY <1>1, <1>2, <1>3, <1>4, <1>5, <1>6, <1>7, <1>8, <1>9, <1>10, <1>11, <1>12, <1>13, <1>14,
     <1>15, <1>16, <1>17, <1>18, <1>19, <1>20, <1>21 DEF Next, RunStep, EnsureStep

(* Only the chain of the loaded signature gets past the stale check.       *)
LEMMA OnlyLoadedWorksStep == IInv /\ [Next]_vars => OnlyLoadedWorks'
<1> SUFFICES ASSUME IInv, [Next]_vars PROVE OnlyLoadedWorks'
  OBVIOUS
<1>1. ASSUME NEW c \in Chunks, Ingest(c) PROVE OnlyLoadedWorks'
  BY <1>1, ItemsApart, SignaturesNamed, CallersApart DEF IInv, TypeOK, OnlyLoadedWorks, Ingest,
     Uncovered, Items, Callers, config, data, calls, chain
<1>2. ASSUME NEW c \in Chunks, Extract(c) PROVE OnlyLoadedWorks'
  BY <1>2, ItemsApart, SignaturesNamed, CallersApart DEF IInv, TypeOK, OnlyLoadedWorks,
     Extract, Uncovered, Items, Callers, config, data, calls, chain
<1>3. ASSUME NEW m \in Summaries, Seal(m) PROVE OnlyLoadedWorks'
  BY <1>3, ItemsApart, SignaturesNamed, CallersApart DEF IInv, TypeOK, OnlyLoadedWorks, Seal,
     Uncovered, Items, Callers, config, data, calls, chain
<1>4. ASSUME NEW i \in Items, Delete(i) PROVE OnlyLoadedWorks'
  BY <1>4, ItemsApart, SignaturesNamed, CallersApart DEF IInv, TypeOK, OnlyLoadedWorks, Delete,
     Erased, Uncovered, Items, Callers, config, data, calls, chain
<1>5. ASSUME NEW a \in Callers, Probe(a) PROVE OnlyLoadedWorks'
  BY <1>5, ItemsApart, SignaturesNamed, CallersApart DEF IInv, TypeOK, OnlyLoadedWorks, Probe,
     SignatureOf, Over, Uncovered, Items, Callers, config, data, calls, chain
<1>6. ASSUME NEW a \in Callers, Enqueue(a) PROVE OnlyLoadedWorks'
  BY <1>6, ItemsApart, SignaturesNamed, CallersApart DEF IInv, TypeOK, OnlyLoadedWorks,
     Enqueue, Inserted, Suppressed, LeftBehind, Uncovered, Items, Callers, config, data, calls,
     chain
<1>7. ASSUME NEW a \in Callers, RaiseFlag(a) PROVE OnlyLoadedWorks'
  BY <1>7, ItemsApart, SignaturesNamed, CallersApart DEF IInv, TypeOK, OnlyLoadedWorks,
     RaiseFlag, Over, Uncovered, Items, Callers, config, data, calls, chain
<1>8. ASSUME NEW s \in Signatures, ChangeSettings(s) PROVE OnlyLoadedWorks'
  BY <1>8, ItemsApart, SignaturesNamed, CallersApart DEF IInv, TypeOK, OnlyLoadedWorks,
     ChangeSettings, Uncovered, Items, Callers, config, data, calls, chain
<1>9. ASSUME NEW s \in Signatures, Claim(s) PROVE OnlyLoadedWorks'
  BY <1>9, ItemsApart, SignaturesNamed, CallersApart DEF IInv, TypeOK, OnlyLoadedWorks, Claim,
     Uncovered, Items, Callers, config, data, calls, chain
<1>10. ASSUME NEW s \in Signatures, EndStale(s) PROVE OnlyLoadedWorks'
  BY <1>10, ItemsApart, SignaturesNamed, CallersApart DEF IInv, TypeOK, OnlyLoadedWorks,
     EndStale, StaleFlag, Uncovered, Items, Callers, config, data, calls, chain
<1>11. ASSUME NEW s \in Signatures, ReadWorklist(s) PROVE OnlyLoadedWorks'
  BY <1>11, ItemsApart, SignaturesNamed, CallersApart DEF IInv, TypeOK, OnlyLoadedWorks,
     ReadWorklist, Batches, Uncovered, Items, Callers, config, data, calls, chain
<1>12. ASSUME NEW s \in Signatures, NoProvider(s) PROVE OnlyLoadedWorks'
  BY <1>12, ItemsApart, SignaturesNamed, CallersApart DEF IInv, TypeOK, OnlyLoadedWorks,
     NoProvider, Uncovered, Items, Callers, config, data, calls, chain
<1>13. ASSUME NEW s \in Signatures, Embed(s) PROVE OnlyLoadedWorks'
  BY <1>13, ItemsApart, SignaturesNamed, CallersApart DEF IInv, TypeOK, OnlyLoadedWorks, Embed,
     Refusals, GiveUp, Tombstones, Uncovered, Items, Callers, config, data, calls, chain
<1>14. ASSUME NEW s \in Signatures, EmbedFails(s) PROVE OnlyLoadedWorks'
  BY <1>14, ItemsApart, SignaturesNamed, CallersApart DEF IInv, TypeOK, OnlyLoadedWorks,
     EmbedFails, Refusals, GiveUp, Tombstones, Uncovered, Items, Callers, config, data, calls,
     chain
<1>15. ASSUME NEW s \in Signatures, Write(s) PROVE OnlyLoadedWorks'
  BY <1>15, ItemsApart, SignaturesNamed, CallersApart DEF IInv, TypeOK, OnlyLoadedWorks, Write,
     Writable, Uncovered, Items, Callers, config, data, calls, chain
<1>16. ASSUME NEW s \in Signatures, Settle(s) PROVE OnlyLoadedWorks'
  BY <1>16, ItemsApart, SignaturesNamed, CallersApart DEF IInv, TypeOK, OnlyLoadedWorks,
     Settle, Uncovered, Items, Callers, config, data, calls, chain
<1>17. CASE Sweep
  BY <1>17, ItemsApart, SignaturesNamed, CallersApart DEF IInv, TypeOK, OnlyLoadedWorks,
     Sweep, Suppressed, Uncovered, Items, Callers, config, data, calls, chain
<1>18. CASE SignOut
  BY <1>18, ItemsApart, SignaturesNamed, CallersApart DEF IInv, TypeOK, OnlyLoadedWorks,
     SignOut, Uncovered, Items, Callers, config, data, calls, chain
<1>19. CASE SignIn
  BY <1>19, ItemsApart, SignaturesNamed, CallersApart DEF IInv, TypeOK, OnlyLoadedWorks,
     SignIn, Uncovered, Items, Callers, config, data, calls, chain
<1>20. CASE Restart
  BY <1>20, ItemsApart, SignaturesNamed, CallersApart DEF IInv, TypeOK, OnlyLoadedWorks,
     Restart, Recovered, Uncovered, Items, Callers, config, data, calls, chain
<1>21. CASE UNCHANGED vars
  BY <1>21 DEF IInv, TypeOK, OnlyLoadedWorks, vars, Uncovered, Items, Callers, config, data,
     calls, chain
<1> QED
  BY <1>1, <1>2, <1>3, <1>4, <1>5, <1>6, <1>7, <1>8, <1>9, <1>10, <1>11, <1>12, <1>13, <1>14,
     <1>15, <1>16, <1>17, <1>18, <1>19, <1>20, <1>21 DEF Next, RunStep, EnsureStep

(* A batch is what nothing covers, and the chain takes what it covers out.  *)
LEMMA BatchUncoveredStep == IInv /\ [Next]_vars => BatchUncovered'
<1> SUFFICES ASSUME IInv, [Next]_vars PROVE BatchUncovered'
  OBVIOUS
<1>1. ASSUME NEW c \in Chunks, Ingest(c) PROVE BatchUncovered'
  BY <1>1, ItemsApart, SignaturesNamed, CallersApart DEF IInv, TypeOK, OnlyLoadedWorks,
     BatchUncovered, Ingest, Uncovered, Items, Callers, config, data, calls, chain
<1>2. ASSUME NEW c \in Chunks, Extract(c) PROVE BatchUncovered'
  BY <1>2, ItemsApart, SignaturesNamed, CallersApart DEF IInv, TypeOK, OnlyLoadedWorks,
     BatchUncovered, Extract, Uncovered, Items, Callers, config, data, calls, chain
<1>3. ASSUME NEW m \in Summaries, Seal(m) PROVE BatchUncovered'
  BY <1>3, ItemsApart, SignaturesNamed, CallersApart DEF IInv, TypeOK, OnlyLoadedWorks,
     BatchUncovered, Seal, Uncovered, Items, Callers, config, data, calls, chain
<1>4. ASSUME NEW i \in Items, Delete(i) PROVE BatchUncovered'
  BY <1>4, ItemsApart, SignaturesNamed, CallersApart DEF IInv, TypeOK, OnlyLoadedWorks,
     BatchUncovered, Delete, Erased, Uncovered, Items, Callers, config, data, calls, chain
<1>5. ASSUME NEW a \in Callers, Probe(a) PROVE BatchUncovered'
  BY <1>5, ItemsApart, SignaturesNamed, CallersApart DEF IInv, TypeOK, OnlyLoadedWorks,
     BatchUncovered, Probe, SignatureOf, Over, Uncovered, Items, Callers, config, data,
     calls, chain
<1>6. ASSUME NEW a \in Callers, Enqueue(a) PROVE BatchUncovered'
  BY <1>6, ItemsApart, SignaturesNamed, CallersApart DEF IInv, TypeOK, OnlyLoadedWorks,
     BatchUncovered, Enqueue, Inserted, Suppressed, LeftBehind, Uncovered, Items, Callers,
     config, data, calls, chain
<1>7. ASSUME NEW a \in Callers, RaiseFlag(a) PROVE BatchUncovered'
  BY <1>7, ItemsApart, SignaturesNamed, CallersApart DEF IInv, TypeOK, OnlyLoadedWorks,
     BatchUncovered, RaiseFlag, Over, Uncovered, Items, Callers, config, data, calls,
     chain
<1>8. ASSUME NEW s \in Signatures, ChangeSettings(s) PROVE BatchUncovered'
  BY <1>8, ItemsApart, SignaturesNamed, CallersApart DEF IInv, TypeOK, OnlyLoadedWorks,
     BatchUncovered, ChangeSettings, Uncovered, Items, Callers, config, data, calls, chain
<1>9. ASSUME NEW s \in Signatures, Claim(s) PROVE BatchUncovered'
  BY <1>9, ItemsApart, SignaturesNamed, CallersApart DEF IInv, TypeOK, OnlyLoadedWorks,
     BatchUncovered, Claim, Uncovered, Items, Callers, config, data, calls, chain
<1>10. ASSUME NEW s \in Signatures, EndStale(s) PROVE BatchUncovered'
  BY <1>10, ItemsApart, SignaturesNamed, CallersApart DEF IInv, TypeOK, OnlyLoadedWorks,
     BatchUncovered, EndStale, StaleFlag, Uncovered, Items, Callers, config, data, calls,
     chain
<1>11. ASSUME NEW s \in Signatures, ReadWorklist(s) PROVE BatchUncovered'
  BY <1>11, ItemsApart, SignaturesNamed, CallersApart DEF IInv, TypeOK, OnlyLoadedWorks,
     BatchUncovered, ReadWorklist, Batches, Uncovered, Items, Callers, config, data,
     calls, chain
<1>12. ASSUME NEW s \in Signatures, NoProvider(s) PROVE BatchUncovered'
  BY <1>12, ItemsApart, SignaturesNamed, CallersApart DEF IInv, TypeOK, OnlyLoadedWorks,
     BatchUncovered, NoProvider, Uncovered, Items, Callers, config, data, calls, chain
<1>13. ASSUME NEW s \in Signatures, Embed(s) PROVE BatchUncovered'
  BY <1>13, ItemsApart, SignaturesNamed, CallersApart DEF IInv, TypeOK, OnlyLoadedWorks,
     BatchUncovered, Embed, Refusals, GiveUp, Tombstones, Uncovered, Items, Callers, config, data,
     calls, chain
<1>14. ASSUME NEW s \in Signatures, EmbedFails(s) PROVE BatchUncovered'
  BY <1>14, ItemsApart, SignaturesNamed, CallersApart DEF IInv, TypeOK, OnlyLoadedWorks,
     BatchUncovered, EmbedFails, Refusals, GiveUp, Tombstones, Uncovered, Items, Callers, config,
     data, calls, chain
<1>15. ASSUME NEW s \in Signatures, Write(s) PROVE BatchUncovered'
  BY <1>15, ItemsApart, SignaturesNamed, CallersApart DEF IInv, TypeOK, OnlyLoadedWorks,
     BatchUncovered, Write, Writable, Uncovered, Items, Callers, config, data, calls,
     chain
<1>16. ASSUME NEW s \in Signatures, Settle(s) PROVE BatchUncovered'
  BY <1>16, ItemsApart, SignaturesNamed, CallersApart DEF IInv, TypeOK, OnlyLoadedWorks,
     BatchUncovered, Settle, Uncovered, Items, Callers, config, data, calls, chain
<1>17. CASE Sweep
  BY <1>17, ItemsApart, SignaturesNamed, CallersApart DEF IInv, TypeOK, OnlyLoadedWorks,
     BatchUncovered, Sweep, Suppressed, Uncovered, Items, Callers, config, data, calls,
     chain
<1>18. CASE SignOut
  BY <1>18, ItemsApart, SignaturesNamed, CallersApart DEF IInv, TypeOK, OnlyLoadedWorks,
     BatchUncovered, SignOut, Uncovered, Items, Callers, config, data, calls, chain
<1>19. CASE SignIn
  BY <1>19, ItemsApart, SignaturesNamed, CallersApart DEF IInv, TypeOK, OnlyLoadedWorks,
     BatchUncovered, SignIn, Uncovered, Items, Callers, config, data, calls, chain
<1>20. CASE Restart
  BY <1>20, ItemsApart, SignaturesNamed, CallersApart DEF IInv, TypeOK, OnlyLoadedWorks,
     BatchUncovered, Restart, Recovered, Uncovered, Items, Callers, config, data, calls,
     chain
<1>21. CASE UNCHANGED vars
  BY <1>21 DEF IInv, TypeOK, OnlyLoadedWorks, BatchUncovered, vars, Uncovered, Items,
     Callers, config, data, calls, chain
<1> QED
  BY <1>1, <1>2, <1>3, <1>4, <1>5, <1>6, <1>7, <1>8, <1>9, <1>10, <1>11, <1>12, <1>13,
     <1>14, <1>15, <1>16, <1>17, <1>18, <1>19, <1>20, <1>21 DEF Next, RunStep, EnsureStep

(* Giving items of the batch up marks none that has a vector.               *)
LEMMA GivenUpIsReal ==
  ASSUME IInv, NEW s \in Signatures, batch \cap vectors[s] = {},
         NEW items \in SUBSET batch, NEW refusal \in SUBSET batch,
         GiveUp(s, items, refusal), UNCHANGED <<present, vectors>>
  PROVE  CoverageIsReal'
<1> DEFINE new == Tombstones(items, refusal)
<1>1. /\ new \subseteq batch \cap present
      /\ new \subseteq Unembeddable \cup (refusal \cap present)
  BY DEF Tombstones
<1>2. /\ skipped'[s] = skipped[s] \cup new
      /\ refused'[s] = refused[s] \cup (refusal \cap present)
      /\ \A x \in Signatures \ {s} : skipped'[x] = skipped[x] /\ refused'[x] = refused[x]
  BY DEF GiveUp, IInv, TypeOK
<1> HIDE DEF new
<1>3. ASSUME NEW x \in Signatures
      PROVE  /\ vectors'[x] \cup skipped'[x] \subseteq present'
             /\ vectors'[x] \cap skipped'[x] = {}
             /\ skipped'[x] \subseteq Unembeddable \cup refused'[x]
  <2>1. /\ vectors[x] \cup skipped[x] \subseteq present
        /\ vectors[x] \cap skipped[x] = {}
        /\ skipped[x] \subseteq Unembeddable \cup refused[x]
    BY DEF IInv, CoverageIsReal
  <2>2. CASE x = s
    BY <1>1, <1>2, <2>1, <2>2
  <2>3. CASE x # s
    BY <1>2, <2>1, <2>3
  <2> QED
    BY <2>2, <2>3
<1> QED
  BY <1>3 DEF CoverageIsReal

(* The cascades keep up with deletions, and the batch's write with both.    *)
LEMMA CoverageIsRealStep == IInv /\ [Next]_vars => CoverageIsReal'
<1> SUFFICES ASSUME IInv, [Next]_vars PROVE CoverageIsReal'
  OBVIOUS
<1>1. ASSUME NEW c \in Chunks, Ingest(c) PROVE CoverageIsReal'
  BY <1>1, ItemsApart, SignaturesNamed, CallersApart DEF IInv, TypeOK, CoverageIsReal, Ingest,
     Uncovered, Items, Callers, config, data, calls, chain
<1>2. ASSUME NEW c \in Chunks, Extract(c) PROVE CoverageIsReal'
  BY <1>2, ItemsApart, SignaturesNamed, CallersApart DEF IInv, TypeOK, CoverageIsReal, Extract,
     Uncovered, Items, Callers, config, data, calls, chain
<1>3. ASSUME NEW m \in Summaries, Seal(m) PROVE CoverageIsReal'
  BY <1>3, ItemsApart, SignaturesNamed, CallersApart DEF IInv, TypeOK, CoverageIsReal, Seal,
     Uncovered, Items, Callers, config, data, calls, chain
<1>4. ASSUME NEW i \in Items, Delete(i) PROVE CoverageIsReal'
  BY <1>4, ItemsApart, SignaturesNamed, CallersApart DEF IInv, TypeOK, CoverageIsReal, Delete,
     Erased, Uncovered, Items, Callers, config, data, calls, chain
<1>5. ASSUME NEW a \in Callers, Probe(a) PROVE CoverageIsReal'
  BY <1>5, ItemsApart, SignaturesNamed, CallersApart DEF IInv, TypeOK, CoverageIsReal, Probe,
     SignatureOf, Over, Uncovered, Items, Callers, config, data, calls, chain
<1>6. ASSUME NEW a \in Callers, Enqueue(a) PROVE CoverageIsReal'
  BY <1>6, ItemsApart, SignaturesNamed, CallersApart DEF IInv, TypeOK, CoverageIsReal, Enqueue,
     Inserted, Suppressed, LeftBehind, Uncovered, Items, Callers, config, data, calls, chain
<1>7. ASSUME NEW a \in Callers, RaiseFlag(a) PROVE CoverageIsReal'
  BY <1>7, ItemsApart, SignaturesNamed, CallersApart DEF IInv, TypeOK, CoverageIsReal,
     RaiseFlag, Over, Uncovered, Items, Callers, config, data, calls, chain
<1>8. ASSUME NEW s \in Signatures, ChangeSettings(s) PROVE CoverageIsReal'
  BY <1>8, ItemsApart, SignaturesNamed, CallersApart DEF IInv, TypeOK, CoverageIsReal,
     ChangeSettings, Uncovered, Items, Callers, config, data, calls, chain
<1>9. ASSUME NEW s \in Signatures, Claim(s) PROVE CoverageIsReal'
  BY <1>9, ItemsApart, SignaturesNamed, CallersApart DEF IInv, TypeOK, CoverageIsReal, Claim,
     Uncovered, Items, Callers, config, data, calls, chain
<1>10. ASSUME NEW s \in Signatures, EndStale(s) PROVE CoverageIsReal'
  BY <1>10, ItemsApart, SignaturesNamed, CallersApart DEF IInv, TypeOK, CoverageIsReal,
     EndStale, StaleFlag, Uncovered, Items, Callers, config, data, calls, chain
<1>11. ASSUME NEW s \in Signatures, ReadWorklist(s) PROVE CoverageIsReal'
  BY <1>11, ItemsApart, SignaturesNamed, CallersApart DEF IInv, TypeOK, CoverageIsReal,
     ReadWorklist, Batches, Uncovered, Items, Callers, config, data, calls, chain
<1>12. ASSUME NEW s \in Signatures, NoProvider(s) PROVE CoverageIsReal'
  BY <1>12, ItemsApart, SignaturesNamed, CallersApart DEF IInv, TypeOK, CoverageIsReal,
     NoProvider, Uncovered, Items, Callers, config, data, calls, chain
<1>13. ASSUME NEW s \in Signatures, Embed(s) PROVE CoverageIsReal'
  <2>1. PICK refusal \in SUBSET (batch \ Unembeddable) : GiveUp(s, batch, refusal)
    BY <1>13 DEF Embed, Refusals
  <2>2. s = loaded /\ batch \cap vectors[s] = {}
    BY <1>13 DEF IInv, OnlyLoadedWorks, BatchUncovered, Embed
  <2>3. UNCHANGED <<present, vectors>>
    BY <1>13 DEF Embed
  <2> QED
    BY <2>1, <2>2, <2>3, GivenUpIsReal
<1>14. ASSUME NEW s \in Signatures, EmbedFails(s) PROVE CoverageIsReal'
  <2>1. PICK items \in SUBSET batch, refusal \in SUBSET batch : GiveUp(s, items, refusal)
    BY <1>14 DEF EmbedFails, Refusals
  <2>2. s = loaded /\ batch \cap vectors[s] = {}
    BY <1>14 DEF IInv, OnlyLoadedWorks, BatchUncovered, EmbedFails
  <2>3. UNCHANGED <<present, vectors>>
    BY <1>14 DEF EmbedFails
  <2> QED
    BY <2>1, <2>2, <2>3, GivenUpIsReal
<1>15. ASSUME NEW s \in Signatures, Write(s) PROVE CoverageIsReal'
  <2>1. UNCHANGED <<present, skipped, refused>>
    BY <1>15 DEF Write
  <2>2. CASE UNCHANGED vectors
    BY <2>1, <2>2 DEF IInv, CoverageIsReal
  <2>3. CASE batch \subseteq present /\ vectors' = [vectors EXCEPT ![s] = @ \cup batch]
    <3>1. batch \cap skipped[s] = {}
      BY <1>15 DEF IInv, OnlyLoadedWorks, BatchUncovered, Write
    <3>2. /\ vectors'[s] = vectors[s] \cup batch
          /\ \A x \in Signatures \ {s} : vectors'[x] = vectors[x]
      BY <2>3 DEF IInv, TypeOK
    <3> QED
      BY <2>1, <2>3, <3>1, <3>2 DEF IInv, CoverageIsReal
  <2> QED
    BY <1>15, <2>2, <2>3 DEF Write, Writable
<1>16. ASSUME NEW s \in Signatures, Settle(s) PROVE CoverageIsReal'
  BY <1>16, ItemsApart, SignaturesNamed, CallersApart DEF IInv, TypeOK, CoverageIsReal, Settle,
     Uncovered, Items, Callers, config, data, calls, chain
<1>17. CASE Sweep
  BY <1>17, ItemsApart, SignaturesNamed, CallersApart DEF IInv, TypeOK, CoverageIsReal,
     Sweep, Suppressed, Uncovered, Items, Callers, config, data, calls, chain
<1>18. CASE SignOut
  BY <1>18, ItemsApart, SignaturesNamed, CallersApart DEF IInv, TypeOK, CoverageIsReal,
     SignOut, Uncovered, Items, Callers, config, data, calls, chain
<1>19. CASE SignIn
  BY <1>19, ItemsApart, SignaturesNamed, CallersApart DEF IInv, TypeOK, CoverageIsReal, SignIn,
     Uncovered, Items, Callers, config, data, calls, chain
<1>20. CASE Restart
  BY <1>20, ItemsApart, SignaturesNamed, CallersApart DEF IInv, TypeOK, CoverageIsReal,
     Restart, Recovered, Uncovered, Items, Callers, config, data, calls, chain
<1>21. CASE UNCHANGED vars
  BY <1>21 DEF IInv, TypeOK, CoverageIsReal, vars, Uncovered, Items, Callers, config, data,
     calls, chain
<1> QED
  BY <1>1, <1>2, <1>3, <1>4, <1>5, <1>6, <1>7, <1>8, <1>9, <1>10, <1>11, <1>12, <1>13, <1>14,
     <1>15, <1>16, <1>17, <1>18, <1>19, <1>20, <1>21 DEF Next, RunStep, EnsureStep

(* What the chain was told about stays on a row, or is named in `missed`.   *)
LEMMA HandedOverStep == IInv /\ [Next]_vars => HandedOver'
<1> SUFFICES ASSUME IInv, [Next]_vars PROVE HandedOver'
  OBVIOUS
<1>1. ASSUME NEW c \in Chunks, Ingest(c) PROVE HandedOver'
  BY <1>1, ItemsApart, SignaturesNamed, CallersApart DEF IInv, TypeOK, CallersUnderWay,
     HandedOver, OnlyLoadedWorks, Ingest, Uncovered, Items, Callers, config, data, calls,
     chain, Pursued
<1>2. ASSUME NEW c \in Chunks, Extract(c) PROVE HandedOver'
  BY <1>2, ItemsApart, SignaturesNamed, CallersApart DEF IInv, TypeOK, CallersUnderWay,
     HandedOver, OnlyLoadedWorks, Extract, Uncovered, Items, Callers, config, data, calls,
     chain, Pursued
<1>3. ASSUME NEW m \in Summaries, Seal(m) PROVE HandedOver'
  BY <1>3, ItemsApart, SignaturesNamed, CallersApart DEF IInv, TypeOK, CallersUnderWay,
     HandedOver, OnlyLoadedWorks, Seal, Uncovered, Items, Callers, config, data, calls, chain,
     Pursued
<1>4. ASSUME NEW i \in Items, Delete(i) PROVE HandedOver'
  BY <1>4, ItemsApart, SignaturesNamed, CallersApart DEF IInv, TypeOK, CallersUnderWay,
     HandedOver, OnlyLoadedWorks, Delete, Erased, Uncovered, Items, Callers, config, data,
     calls, chain, Pursued
<1>5. ASSUME NEW a \in Callers, Probe(a) PROVE HandedOver'
  BY <1>5, ItemsApart, SignaturesNamed, CallersApart DEF IInv, TypeOK, CallersUnderWay,
     HandedOver, OnlyLoadedWorks, Probe, SignatureOf, Over, Uncovered, Items, Callers, config,
     data, calls, chain, Pursued
<1>6. ASSUME NEW a \in Callers, Enqueue(a) PROVE HandedOver'
  <2>1. UNCHANGED <<loaded, present, vectors, skipped, extract, failed, stage>>
        /\ raising' = raising \cup {a}
    BY <1>6 DEF Enqueue, config, data
  <2>2. CASE ensure[a] # loaded
    <3>1. missed' = missed /\ row'[loaded] = row[loaded]
      BY <1>6, <2>2 DEF Enqueue, Inserted, IInv, TypeOK
    <3>2. a \notin Chunks
      BY <1>6, <2>2, CallersApart DEF Enqueue, IInv, CallersUnderWay, Callers
    <3> QED
      BY <2>1, <3>1, <3>2 DEF IInv, HandedOver, Pursued, Uncovered
  <2>3. CASE ensure[a] = loaded
    <3>1. row'[loaded] # "none" /\ missed' = LeftBehind(loaded)
      BY <1>6, <2>3 DEF Enqueue, Inserted, Suppressed, IInv, TypeOK
    <3>2. stage[loaded] = "end" => missed' = Uncovered(loaded)
      BY <3>1 DEF LeftBehind, Suppressed, IInv, TypeOK
    <3> QED
      BY <2>1, <3>1, <3>2 DEF HandedOver, Pursued, Uncovered
  <2> QED
    BY <2>2, <2>3
<1>7. ASSUME NEW a \in Callers, RaiseFlag(a) PROVE HandedOver'
  BY <1>7, ItemsApart, SignaturesNamed, CallersApart DEF IInv, TypeOK, CallersUnderWay,
     HandedOver, OnlyLoadedWorks, RaiseFlag, Over, Uncovered, Items, Callers, config, data,
     calls, chain, Pursued
<1>8. ASSUME NEW s \in Signatures, ChangeSettings(s) PROVE HandedOver'
  BY <1>8, ItemsApart, SignaturesNamed, CallersApart DEF IInv, TypeOK, CallersUnderWay,
     HandedOver, OnlyLoadedWorks, ChangeSettings, Uncovered, Items, Callers, config, data,
     calls, chain, Pursued
<1>9. ASSUME NEW s \in Signatures, Claim(s) PROVE HandedOver'
  BY <1>9, ItemsApart, SignaturesNamed, CallersApart DEF IInv, TypeOK, CallersUnderWay,
     HandedOver, OnlyLoadedWorks, Claim, Uncovered, Items, Callers, config, data, calls, chain,
     Pursued
<1>10. ASSUME NEW s \in Signatures, EndStale(s) PROVE HandedOver'
  BY <1>10, ItemsApart, SignaturesNamed, CallersApart DEF IInv, TypeOK, CallersUnderWay,
     HandedOver, OnlyLoadedWorks, EndStale, StaleFlag, Uncovered, Items, Callers, config, data,
     calls, chain, Pursued
<1>11. ASSUME NEW s \in Signatures, ReadWorklist(s) PROVE HandedOver'
  <2>1. batch' = {} => Uncovered(s) = {}
    BY <1>11, BatchPositive, FS_EmptySet DEF ReadWorklist, Batches
  <2>2. s = loaded /\ row[s] = "running"
    BY <1>11 DEF ReadWorklist, IInv, TypeOK
  <2>3. /\ batch' # {} => stage'[s] = "embed"
        /\ UNCHANGED <<config, data, calls, row, failed, missed>>
    BY <1>11 DEF ReadWorklist, IInv, TypeOK
  <2> QED
    BY <2>1, <2>2, <2>3 DEF HandedOver, Pursued, Uncovered, config, data, calls
<1>12. ASSUME NEW s \in Signatures, NoProvider(s) PROVE HandedOver'
  BY <1>12, ItemsApart, SignaturesNamed, CallersApart DEF IInv, TypeOK, CallersUnderWay,
     HandedOver, OnlyLoadedWorks, NoProvider, Uncovered, Items, Callers, config, data, calls,
     chain, Pursued
<1>13. ASSUME NEW s \in Signatures, Embed(s) PROVE HandedOver'
  BY <1>13, ItemsApart, SignaturesNamed, CallersApart DEF IInv, TypeOK, CallersUnderWay,
     HandedOver, OnlyLoadedWorks, Embed, Refusals, GiveUp, Tombstones, Uncovered, Items,
     Callers, config, data,
     calls, chain, Pursued
<1>14. ASSUME NEW s \in Signatures, EmbedFails(s) PROVE HandedOver'
  BY <1>14, ItemsApart, SignaturesNamed, CallersApart DEF IInv, TypeOK, CallersUnderWay,
     HandedOver, OnlyLoadedWorks, EmbedFails, Refusals, GiveUp, Tombstones, Uncovered, Items,
     Callers, config,
     data, calls, chain, Pursued
<1>15. ASSUME NEW s \in Signatures, Write(s) PROVE HandedOver'
  BY <1>15, ItemsApart, SignaturesNamed, CallersApart DEF IInv, TypeOK, CallersUnderWay,
     HandedOver, OnlyLoadedWorks, Write, Writable, Uncovered, Items, Callers, config, data,
     calls, chain, Pursued
<1>16. ASSUME NEW s \in Signatures, Settle(s) PROVE HandedOver'
  BY <1>16, ItemsApart, SignaturesNamed, CallersApart DEF IInv, TypeOK, CallersUnderWay,
     HandedOver, OnlyLoadedWorks, Settle, Uncovered, Items, Callers, config, data, calls,
     chain, Pursued
<1>17. CASE Sweep
  BY <1>17, ItemsApart, SignaturesNamed, CallersApart DEF IInv, TypeOK, CallersUnderWay,
     HandedOver, OnlyLoadedWorks, Sweep, Suppressed, Uncovered, Items, Callers, config,
     data, calls, chain, Pursued
<1>18. CASE SignOut
  BY <1>18, ItemsApart, SignaturesNamed, CallersApart DEF IInv, TypeOK, CallersUnderWay,
     HandedOver, OnlyLoadedWorks, SignOut, Uncovered, Items, Callers, config, data, calls,
     chain, Pursued
<1>19. CASE SignIn
  BY <1>19, ItemsApart, SignaturesNamed, CallersApart DEF IInv, TypeOK, CallersUnderWay,
     HandedOver, OnlyLoadedWorks, SignIn, Uncovered, Items, Callers, config, data, calls,
     chain, Pursued
<1>20. CASE Restart
  BY <1>20, ItemsApart, SignaturesNamed, CallersApart DEF IInv, TypeOK, CallersUnderWay,
     HandedOver, OnlyLoadedWorks, Restart, Recovered, Uncovered, Items, Callers, config, data,
     calls, chain, Pursued
<1>21. CASE UNCHANGED vars
  BY <1>21 DEF IInv, TypeOK, CallersUnderWay, HandedOver, OnlyLoadedWorks, vars, Uncovered,
     Items, Callers, config, data, calls, chain, Pursued
<1> QED
  BY <1>1, <1>2, <1>3, <1>4, <1>5, <1>6, <1>7, <1>8, <1>9, <1>10, <1>11, <1>12, <1>13, <1>14,
     <1>15, <1>16, <1>17, <1>18, <1>19, <1>20, <1>21 DEF Next, RunStep, EnsureStep

(* No step takes the flag down under a batch.                              *)
LEMMA FlagStandsForBatchStep == IInv /\ [Next]_vars => FlagStandsForBatch'
<1> SUFFICES ASSUME IInv, [Next]_vars PROVE FlagStandsForBatch'
  OBVIOUS
<1>1. ASSUME NEW c \in Chunks, Ingest(c) PROVE FlagStandsForBatch'
  BY <1>1, ItemsApart, SignaturesNamed, CallersApart DEF IInv, TypeOK, OnlyLoadedWorks,
     FlagStandsForBatch, Ingest, Uncovered, Items, Callers, config, data, calls, chain
<1>2. ASSUME NEW c \in Chunks, Extract(c) PROVE FlagStandsForBatch'
  BY <1>2, ItemsApart, SignaturesNamed, CallersApart DEF IInv, TypeOK, OnlyLoadedWorks,
     FlagStandsForBatch, Extract, Uncovered, Items, Callers, config, data, calls, chain
<1>3. ASSUME NEW m \in Summaries, Seal(m) PROVE FlagStandsForBatch'
  BY <1>3, ItemsApart, SignaturesNamed, CallersApart DEF IInv, TypeOK, OnlyLoadedWorks,
     FlagStandsForBatch, Seal, Uncovered, Items, Callers, config, data, calls, chain
<1>4. ASSUME NEW i \in Items, Delete(i) PROVE FlagStandsForBatch'
  BY <1>4, ItemsApart, SignaturesNamed, CallersApart DEF IInv, TypeOK, OnlyLoadedWorks,
     FlagStandsForBatch, Delete, Erased, Uncovered, Items, Callers, config, data, calls, chain
<1>5. ASSUME NEW a \in Callers, Probe(a) PROVE FlagStandsForBatch'
  BY <1>5, ItemsApart, SignaturesNamed, CallersApart DEF IInv, TypeOK, OnlyLoadedWorks,
     FlagStandsForBatch, Probe, SignatureOf, Over, Uncovered, Items, Callers, config, data,
     calls, chain
<1>6. ASSUME NEW a \in Callers, Enqueue(a) PROVE FlagStandsForBatch'
  BY <1>6, ItemsApart, SignaturesNamed, CallersApart DEF IInv, TypeOK, OnlyLoadedWorks,
     FlagStandsForBatch, Enqueue, Inserted, Suppressed, LeftBehind, Uncovered, Items, Callers,
     config, data, calls, chain
<1>7. ASSUME NEW a \in Callers, RaiseFlag(a) PROVE FlagStandsForBatch'
  BY <1>7, ItemsApart, SignaturesNamed, CallersApart DEF IInv, TypeOK, OnlyLoadedWorks,
     FlagStandsForBatch, RaiseFlag, Over, Uncovered, Items, Callers, config, data, calls, chain
<1>8. ASSUME NEW s \in Signatures, ChangeSettings(s) PROVE FlagStandsForBatch'
  BY <1>8, ItemsApart, SignaturesNamed, CallersApart DEF IInv, TypeOK, OnlyLoadedWorks,
     FlagStandsForBatch, ChangeSettings, Uncovered, Items, Callers, config, data, calls, chain
<1>9. ASSUME NEW s \in Signatures, Claim(s) PROVE FlagStandsForBatch'
  BY <1>9, ItemsApart, SignaturesNamed, CallersApart DEF IInv, TypeOK, OnlyLoadedWorks,
     FlagStandsForBatch, Claim, Uncovered, Items, Callers, config, data, calls, chain
<1>10. ASSUME NEW s \in Signatures, EndStale(s) PROVE FlagStandsForBatch'
  BY <1>10, ItemsApart, SignaturesNamed, CallersApart DEF IInv, TypeOK, OnlyLoadedWorks,
     FlagStandsForBatch, EndStale, StaleFlag, Uncovered, Items, Callers, config, data, calls,
     chain
<1>11. ASSUME NEW s \in Signatures, ReadWorklist(s) PROVE FlagStandsForBatch'
  BY <1>11, ItemsApart, SignaturesNamed, CallersApart DEF IInv, TypeOK, OnlyLoadedWorks,
     FlagStandsForBatch, ReadWorklist, Batches, Uncovered, Items, Callers, config, data, calls,
     chain
<1>12. ASSUME NEW s \in Signatures, NoProvider(s) PROVE FlagStandsForBatch'
  BY <1>12, ItemsApart, SignaturesNamed, CallersApart DEF IInv, TypeOK, OnlyLoadedWorks,
     FlagStandsForBatch, NoProvider, Uncovered, Items, Callers, config, data, calls, chain
<1>13. ASSUME NEW s \in Signatures, Embed(s) PROVE FlagStandsForBatch'
  BY <1>13, ItemsApart, SignaturesNamed, CallersApart DEF IInv, TypeOK, OnlyLoadedWorks,
     FlagStandsForBatch, Embed, Refusals, GiveUp, Tombstones, Uncovered, Items, Callers,
     config, data, calls,
     chain
<1>14. ASSUME NEW s \in Signatures, EmbedFails(s) PROVE FlagStandsForBatch'
  BY <1>14, ItemsApart, SignaturesNamed, CallersApart DEF IInv, TypeOK, OnlyLoadedWorks,
     FlagStandsForBatch, EmbedFails, Refusals, GiveUp, Tombstones, Uncovered, Items, Callers,
     config, data,
     calls, chain
<1>15. ASSUME NEW s \in Signatures, Write(s) PROVE FlagStandsForBatch'
  BY <1>15, ItemsApart, SignaturesNamed, CallersApart DEF IInv, TypeOK, OnlyLoadedWorks,
     FlagStandsForBatch, Write, Writable, Uncovered, Items, Callers, config, data, calls, chain
<1>16. ASSUME NEW s \in Signatures, Settle(s) PROVE FlagStandsForBatch'
  BY <1>16, ItemsApart, SignaturesNamed, CallersApart DEF IInv, TypeOK, OnlyLoadedWorks,
     FlagStandsForBatch, Settle, Uncovered, Items, Callers, config, data, calls, chain
<1>17. CASE Sweep
  BY <1>17, ItemsApart, SignaturesNamed, CallersApart DEF IInv, TypeOK, OnlyLoadedWorks,
     FlagStandsForBatch, Sweep, Suppressed, Uncovered, Items, Callers, config, data, calls,
     chain
<1>18. CASE SignOut
  BY <1>18, ItemsApart, SignaturesNamed, CallersApart DEF IInv, TypeOK, OnlyLoadedWorks,
     FlagStandsForBatch, SignOut, Uncovered, Items, Callers, config, data, calls, chain
<1>19. CASE SignIn
  BY <1>19, ItemsApart, SignaturesNamed, CallersApart DEF IInv, TypeOK, OnlyLoadedWorks,
     FlagStandsForBatch, SignIn, Uncovered, Items, Callers, config, data, calls, chain
<1>20. CASE Restart
  BY <1>20, ItemsApart, SignaturesNamed, CallersApart DEF IInv, TypeOK, OnlyLoadedWorks,
     FlagStandsForBatch, Restart, Recovered, Uncovered, Items, Callers, config, data, calls,
     chain
<1>21. CASE UNCHANGED vars
  BY <1>21 DEF IInv, TypeOK, OnlyLoadedWorks, FlagStandsForBatch, vars, Uncovered, Items,
     Callers, config, data, calls, chain
<1> QED
  BY <1>1, <1>2, <1>3, <1>4, <1>5, <1>6, <1>7, <1>8, <1>9, <1>10, <1>11, <1>12, <1>13, <1>14,
     <1>15, <1>16, <1>17, <1>18, <1>19, <1>20, <1>21 DEF Next, RunStep, EnsureStep

(* The inductive invariant of the chain's specification.                    *)
THEOREM Invariant == Spec => []IInv
<1>1. Init => IInv
  <2> SUFFICES ASSUME Init PROVE IInv
    OBVIOUS
  <2>0. usable \in BOOLEAN /\ flag \in BOOLEAN
    BY DEF Init
  <2>1. disturbances \in 0..MaxDisturbances
    BY BoundIsNat DEF Init
  <2>2. TypeOK
    <3>1. saved \in Signatures /\ loaded \in Signatures /\ present \subseteq Items
      BY SignaturesNamed DEF Init
    <3>2. /\ vectors \in [Signatures -> SUBSET Items] /\ skipped \in [Signatures -> SUBSET Items]
          /\ refused \in [Signatures -> SUBSET Items]
          /\ failed \in [Signatures -> Nat] /\ ensure \in [Callers -> Signatures \cup {None}]
      BY DEF Init
    <3>3. /\ extract \in [Chunks -> {"none", "due", "admitted", "done"}]
          /\ row \in [Signatures -> {"none", "ready", "running"}]
          /\ stage \in [Signatures ->
                {"idle", "read", "embed", "write", "defer", "fail", "end"}]
          /\ \A s \in Signatures : row[s] = "running" <=> stage[s] # "idle"
      BY DEF Init
    <3>4. raising \subseteq Callers /\ batch \subseteq Items /\ missed \subseteq Items
      BY DEF Init
    <3> QED
      BY <2>0, <2>1, <3>1, <3>2, <3>3, <3>4 DEF TypeOK
  <2>3. CallersUnderWay /\ OnlyLoadedWorks /\ HandedOver
    BY SignaturesNamed, CallersApart
       DEF Init, CallersUnderWay, OnlyLoadedWorks, HandedOver, Uncovered, Callers
  <2>4. CoverageIsReal /\ BatchUncovered /\ FlagStandsForBatch
    BY SignaturesNamed DEF Init, CoverageIsReal, BatchUncovered, FlagStandsForBatch
  <2> QED
    BY <2>2, <2>3, <2>4 DEF IInv
<1>2. IInv /\ [Next]_vars => IInv'
  BY TypeOKStep, CallersUnderWayStep, OnlyLoadedWorksStep, BatchUncoveredStep,
     CoverageIsRealStep, HandedOverStep, FlagStandsForBatchStep DEF IInv
<1> QED
  BY <1>1, <1>2, PTL DEF Spec

(* Every reachable state has the types of the tables and maps, and a row is *)
(* running exactly while a worker runs it.                                  *)
THEOREM TypeCorrect == Spec => []TypeOK
<1>1. IInv => TypeOK
  BY DEF IInv
<1> QED
  BY <1>1, Invariant, PTL

(* Whatever is deleted, ingested or sealed under a batch, vectors and       *)
(* tombstones are those of items that exist, no item has both, and only an  *)
(* unembeddable or a refused item has a tombstone.                          *)
THEOREM CoverageCorrect == Spec => []CoverageIsReal
<1>1. IInv => CoverageIsReal
  BY DEF IInv
<1> QED
  BY <1>1, Invariant, PTL

(* An uncovered chunk the chain was told about is on a live row, behind a   *)
(* failed row, or one of the named exceptions.                              *)
THEOREM NothingForgotten == Spec => []UncoveredIsPursued
<1>1. IInv => UncoveredIsPursued
  BY DEF IInv, HandedOver, UncoveredIsPursued
<1> QED
  BY <1>1, Invariant, PTL

(* BACKFILL_IN_PROGRESS is up while the loaded chain has a batch in hand.   *)
THEOREM FlagCorrect == Spec => []FlagStandsForBatch
<1>1. IInv => FlagStandsForBatch
  BY DEF IInv
<1> QED
  BY <1>1, Invariant, PTL

-----------------------------------------------------------------------------
(* The chains use their queue as KeyQueue says.                            *)

(* Steps that leave the rows and who runs them alone.                       *)
LEMMA RowsUnseen ==
  ASSUME UNCHANGED <<row, failed>>,
         \A s \in Signatures : stage'[s] # "idle" <=> stage[s] # "idle"
  PROVE  UNCHANGED KeyView!vars
<1>1. [s \in Signatures |-> {x \in {s} : stage'[s] # "idle"}] =
        [s \in Signatures |-> {x \in {s} : stage[s] # "idle"}]
  OBVIOUS
<1> QED
  BY <1>1 DEF KeyView!vars

(* A claim, and each way a run settles its row.                             *)
LEMMA ClaimTakes ==
  ASSUME TypeOK, NEW s \in Signatures, Claim(s)
  PROVE  KeyView!Claim(s)
<1>1. /\ row[s] = "ready" /\ stage[s] = "idle" /\ stage'[s] # "idle"
      /\ \A x \in Signatures \ {s} : stage'[x] = stage[x]
      /\ row' = [row EXCEPT ![s] = "running"] /\ failed' = failed
  BY DEF Claim, TypeOK
<1> DEFINE taken == {s}
<1>2. taken \in SUBSET {x \in Signatures : row[x] = "ready"}
  BY <1>1
<1>3. row' = [x \in Signatures |-> IF x \in taken THEN "running" ELSE row[x]]
  BY <1>1 DEF TypeOK
<1>4. \A v \in Signatures :
        {x \in {v} : stage'[v] # "idle"} =
          IF v = s THEN {x \in {v} : stage[v] # "idle"} \cup taken
          ELSE {x \in {v} : stage[v] # "idle"} \ taken
  BY <1>1
<1> HIDE DEF taken
<1> QED
  BY <1>1, <1>2, <1>3, <1>4 DEF KeyView!Claim

LEMMA SettleSettles ==
  ASSUME TypeOK, NEW s \in Signatures, Settle(s)
  PROVE  KeyView!Finish(s, s) \/ KeyView!PutBack(s, s) \/ KeyView!Fail(s, s)
<1>1. /\ stage[s] # "idle" /\ stage'[s] = "idle"
      /\ \A x \in Signatures \ {s} : stage'[x] = stage[x]
  BY DEF Settle, TypeOK
<1>2. \A v \in Signatures :
        {x \in {v} : stage'[v] # "idle"} =
          IF v = s THEN {x \in {v} : stage[v] # "idle"} \ {s} ELSE {x \in {v} : stage[v] # "idle"}
  BY <1>1
<1>3. KeyView!LetGo(s, s)
  BY <1>1, <1>2 DEF KeyView!LetGo
<1>4. CASE row' = [row EXCEPT ![s] = "none"] /\ UNCHANGED failed
  BY <1>3, <1>4 DEF KeyView!Finish
<1>5. CASE row' = [row EXCEPT ![s] = "ready"] /\ UNCHANGED failed
  BY <1>3, <1>5 DEF KeyView!PutBack
<1>6. CASE row' = [row EXCEPT ![s] = "none"] /\ failed' = [failed EXCEPT ![s] = @ + 1]
  <2> DEFINE i == failed[s] + 1
             rows == [x \in Signatures |-> 1..failed[x]]
  <2>1. failed[s] \in Nat /\ failed'[s] = i /\ \A x \in Signatures \ {s} : failed'[x] = failed[x]
    BY <1>6 DEF TypeOK
  <2>2. 1..i = 1..failed[s] \cup {i} /\ i \in Nat \ {0} /\ i \notin 1..failed[s]
    BY <2>1
  <2>3. [x \in Signatures |-> 1..failed'[x]] = [rows EXCEPT ![s] = rows[s] \cup {i}]
    BY <2>1, <2>2
  <2>4. i \in (Nat \ {0}) \ (rows[s] \cup [x \in Signatures |-> {}][s])
    BY <2>2
  <2> HIDE DEF i
  <2> QED
    BY <1>3, <1>6, <2>3, <2>4 DEF KeyView!Fail
<1> QED
  BY <1>4, <1>5, <1>6 DEF Settle

LEMMA SweepRequeues ==
  ASSUME TypeOK, Sweep
  PROVE  KeyView!Requeue(FALSE)
<1> DEFINE swept == {s \in Signatures : failed[s] > 0}
<1>1. /\ \A s \in swept : failed[s] = 1 /\ row[s] = "none"
      /\ row' = [s \in Signatures |-> IF s \in swept THEN "ready" ELSE row[s]]
      /\ failed' = [s \in Signatures |-> 0] /\ stage' = stage
  BY DEF Sweep, Suppressed, chain
<1>2. \A s \in Signatures : failed[s] \in Nat
  BY DEF TypeOK
<1>3. \A s \in Signatures : 1..failed[s] # {} <=> s \in swept
  BY <1>2
<1>4. \A s \in swept : s \in Signatures /\ \A i, j \in 1..failed[s] : i = j
  BY <1>1
<1>5. row' \in [Signatures -> KeyView!Status]
  BY <1>1 DEF TypeOK, KeyView!Status
<1>6. [s \in Signatures |-> 1..failed'[s]] = KeyView!NoneFailed
  BY <1>1 DEF KeyView!NoneFailed
<1> HIDE DEF swept
<1> QED
  BY <1>1, <1>3, <1>4, <1>5, <1>6 DEF KeyView!Requeue, KeyView!MayEnter

LEMMA EnqueueEnters ==
  ASSUME TypeOK, NEW a \in Callers, Enqueue(a)
  PROVE  KeyView!Enqueue
BY DEF TypeOK, Enqueue, Inserted, Suppressed, KeyView!Enqueue, KeyView!MayEnter, KeyView!Status

(* After a restart every running row is ready again.                        *)
LEMMA RestartRestarts ==
  ASSUME TypeOK, Restart
  PROVE  KeyView!Restart
<1>1. /\ stage' = [s \in Signatures |-> "idle"] /\ failed' = failed
      /\ row' = [s \in Signatures |-> Recovered(s)]
  BY DEF Restart
<1> DEFINE over == {s \in Signatures : row[s] = "running"}
<1>2. row' = [s \in Signatures |-> IF s \in over THEN "ready" ELSE row[s]]
  BY <1>1 DEF Recovered
<1>3. over \in SUBSET {s \in Signatures : row[s] = "running"}
  OBVIOUS
<1>4. \A s \in Signatures : {x \in {s} : stage'[s] # "idle"} = {}
  BY <1>1
<1> HIDE DEF over
<1> QED
  BY <1>1, <1>2, <1>3, <1>4 DEF KeyView!Restart, KeyView!NoneOwned

(* The chains' rows move as KeyQueue says.                                  *)
THEOREM ChainsUse == Spec => ChainsUseKeyQueue
<1>1. Init => KeyView!Init
  BY DEF Init, KeyView!Init, KeyView!NoneFailed, KeyView!NoneOwned
<1>2. IInv /\ [Next]_vars => [KeyView!Works]_(KeyView!vars)
  <2> SUFFICES ASSUME IInv, [Next]_vars
               PROVE  KeyView!Works \/ UNCHANGED KeyView!vars
    OBVIOUS
  <2>0. TypeOK
    BY DEF IInv
  <2>1. ASSUME NEW a \in Callers, Enqueue(a) PROVE KeyView!Works
    BY <2>0, <2>1, EnqueueEnters DEF KeyView!Works
  <2>2. ASSUME NEW s \in Signatures, Claim(s) PROVE KeyView!Works
    BY <2>0, <2>2, ClaimTakes DEF KeyView!Works
  <2>3. ASSUME NEW s \in Signatures, Settle(s) PROVE KeyView!Works
    BY <2>0, <2>3, SettleSettles, Zenon DEF KeyView!Works
  <2>4. CASE Sweep
    BY <2>0, <2>4, SweepRequeues DEF KeyView!Works
  <2>5. CASE Restart
    BY <2>0, <2>5, RestartRestarts DEF KeyView!Works
  <2>6. ASSUME UNCHANGED <<row, failed, stage>> PROVE UNCHANGED KeyView!vars
    BY <2>6, RowsUnseen
  <2>7. ASSUME NEW s \in Signatures,
               EndStale(s) \/ ReadWorklist(s) \/ NoProvider(s) \/ Embed(s) \/ EmbedFails(s) \/
               Write(s)
        PROVE  UNCHANGED KeyView!vars
    <3>1. UNCHANGED <<row, failed>>
      BY <2>7 DEF EndStale, ReadWorklist, NoProvider, Embed, EmbedFails, Write
    <3>2. /\ stage[s] # "idle" /\ stage'[s] # "idle"
          /\ \A x \in Signatures \ {s} : stage'[x] = stage[x]
      BY <2>0, <2>7 DEF TypeOK, EndStale, ReadWorklist, NoProvider, Embed, EmbedFails, Write
    <3> QED
      BY <3>1, <3>2, RowsUnseen
  <2>8. ASSUME \/ \E c \in Chunks : Ingest(c) \/ Extract(c)
               \/ \E m \in Summaries : Seal(m)
               \/ \E i \in Items : Delete(i)
               \/ \E a \in Callers : Probe(a) \/ RaiseFlag(a)
               \/ \E s \in Signatures : ChangeSettings(s)
               \/ SignOut \/ SignIn \/ UNCHANGED vars
        PROVE  UNCHANGED <<row, failed, stage>>
    BY <2>8 DEF Ingest, Extract, Seal, Delete, Probe, RaiseFlag, ChangeSettings, SignOut,
       SignIn, vars, chain
  <2> QED
    BY <2>1, <2>2, <2>3, <2>4, <2>5, <2>6, <2>7, <2>8 DEF Next, EnsureStep, RunStep
<1> QED
  BY <1>1, <1>2, Invariant, PTL DEF Spec, ChainsUseKeyQueue, KeyView!SteadySpec
=============================================================================
