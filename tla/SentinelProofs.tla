--------------------------- MODULE SentinelProofs ---------------------------
(***************************************************************************)
(* Theorems about Sentinel, for any sets of intents and workers: its type  *)
(* correctness, the ledger invariants its runs check, and the latch.       *)
(*                                                                         *)
(* NothingForgotten is not inductive as it stands: a thread pops what it   *)
(* holds in cur, so a proof has to know that an exit was accepted for it,  *)
(* and that a sweep's copy of the book lists only accepted entries.        *)
(* ThreadInv says that of every place a thread can be in.                  *)
(***************************************************************************)
EXTENDS Sentinel, TLAPS

\* The initial state satisfies the inductive invariant.
LEMMA InitIInv == Init => IInv
<1> SUFFICES ASSUME Init PROVE IInv
  OBVIOUS
<1> USE DEF Init, Threads
<1>1. TypeOK
  BY DEF TypeOK, Places
<1>2. ThreadInv
  BY SentinelAssumption DEF ThreadInv
<1>3. NothingForgotten /\ OrdersBacked
  BY DEF NothingForgotten, OrdersBacked
<1>4. QED
  BY <1>1, <1>2, <1>3 DEF IInv

\* Every step keeps every variable in its type.
LEMMA TypeStep == TypeOK /\ ThreadInv /\ [Next]_vars => TypeOK'
<1> SUFFICES ASSUME TypeOK, ThreadInv, [Next]_vars PROVE TypeOK'
  OBVIOUS
<1> USE DEF TypeOK, Threads, Places, requestVars, exchangeVars, clockVars
<1>1. CASE Heartbeat \/ ClearDeadman \/ LeaseLapses \/ BellRings
  BY <1>1 DEF Heartbeat, ClearDeadman, LeaseLapses, BellRings
<1>2. CASE FireDeadman
  BY <1>2 DEF FireDeadman
<1>3. CASE Restart
  BY <1>3 DEF Restart
<1>4. ASSUME NEW t \in Workers, NEW i \in Intents, AcceptOpen(t, i) \/ AcceptClose(t, i)
      PROVE  TypeOK'
  BY <1>4 DEF AcceptOpen, AcceptClose
<1>5. ASSUME NEW i \in Intents, AcceptPaperOpen(i) \/ AcceptPaperClose(i)
      PROVE  TypeOK'
  BY <1>5 DEF AcceptPaperOpen, AcceptPaperClose
<1>6. ASSUME NEW t \in Threads, ThreadStep(t)
      PROVE  TypeOK'
  <2>1. CASE OpenRefused(t)
    BY <2>1 DEF OpenRefused, Return
  <2>2. CASE OpenAccepted(t)
    BY <2>2 DEF OpenAccepted, ThreadInv
  <2>3. CASE OpenAnswerLost(t)
    BY <2>3, SentinelAssumption DEF OpenAnswerLost, Return, ThreadInv
  <2>4. CASE RecordPosition(t)
    BY <2>4 DEF RecordPosition, Return, ThreadInv
  <2>5. CASE CloseUnknown(t)
    BY <2>5, SentinelAssumption DEF CloseUnknown, Return
  <2>6. CASE CloseKnown(t)
    BY <2>6 DEF CloseKnown
  <2>7. CASE DropPaper(t)
    BY <2>7 DEF DropPaper
  <2>8. CASE ReachBroker(t)
    BY <2>8 DEF ReachBroker
  <2>9. CASE BrokerUnreachable(t)
    BY <2>9, SentinelAssumption DEF BrokerUnreachable
  <2>10. ASSUME NEW i \in Intents, ExitAccepted(t, i)
         PROVE  TypeOK'
    BY <2>10 DEF ExitAccepted
  <2>11. ASSUME NEW i \in Intents, ExitFailed(t, i)
         PROVE  TypeOK'
    BY <2>11, SentinelAssumption DEF ExitFailed
  <2>12. CASE PopPosition(t)
    BY <2>12 DEF PopPosition
  <2>13. CASE FlattenReturns(t)
    BY <2>13 DEF FlattenReturns, Return
  <2>14. QED
    BY <1>6, <2>1, <2>2, <2>3, <2>4, <2>5, <2>6, <2>7, <2>8, <2>9, <2>10, <2>11,
       <2>12, <2>13 DEF ThreadStep
<1>7. CASE UNCHANGED vars
  BY <1>7 DEF vars
<1>8. QED
  BY <1>1, <1>2, <1>3, <1>4, <1>5, <1>6, <1>7 DEF Next

\* Every step keeps what a thread's place says, and the ledger invariants.
LEMMA LedgerStep ==
    IInv /\ [Next]_vars => ThreadInv' /\ NothingForgotten' /\ OrdersBacked'
<1> SUFFICES ASSUME IInv, [Next]_vars
             PROVE  ThreadInv' /\ NothingForgotten' /\ OrdersBacked'
  OBVIOUS
<1> USE SentinelAssumption
    DEF IInv, TypeOK, ThreadInv, NothingForgotten, OrdersBacked, Recording, Threads,
        requestVars, exchangeVars, clockVars
<1>1. CASE Heartbeat \/ ClearDeadman \/ LeaseLapses \/ BellRings
  BY <1>1 DEF Heartbeat, ClearDeadman, LeaseLapses, BellRings
<1>2. CASE FireDeadman
  BY <1>2 DEF FireDeadman
<1>3. CASE Restart
  BY <1>3 DEF Restart
<1>4. ASSUME NEW t \in Workers, NEW i \in Intents, AcceptOpen(t, i) \/ AcceptClose(t, i)
      PROVE  ThreadInv' /\ NothingForgotten' /\ OrdersBacked'
  BY <1>4 DEF AcceptOpen, AcceptClose
<1>5. ASSUME NEW i \in Intents, AcceptPaperOpen(i) \/ AcceptPaperClose(i)
      PROVE  ThreadInv' /\ NothingForgotten' /\ OrdersBacked'
  BY <1>5 DEF AcceptPaperOpen, AcceptPaperClose
<1>6. ASSUME NEW t \in Threads, ThreadStep(t)
      PROVE  ThreadInv' /\ NothingForgotten' /\ OrdersBacked'
  <2>1. CASE OpenRefused(t)
    BY <2>1 DEF OpenRefused, Return
  <2>2. CASE OpenAccepted(t)
    BY <2>2 DEF OpenAccepted
  <2>3. CASE OpenAnswerLost(t)
    BY <2>3 DEF OpenAnswerLost, Return
  <2>4. CASE RecordPosition(t)
    BY <2>4 DEF RecordPosition, Return
  <2>5. CASE CloseUnknown(t)
    BY <2>5 DEF CloseUnknown, Return
  <2>6. CASE CloseKnown(t)
    BY <2>6 DEF CloseKnown
  <2>7. CASE DropPaper(t)
    BY <2>7 DEF DropPaper
  <2>8. CASE ReachBroker(t)
    BY <2>8 DEF ReachBroker
  <2>9. CASE BrokerUnreachable(t)
    BY <2>9 DEF BrokerUnreachable
  <2>10. ASSUME NEW i \in Intents, ExitAccepted(t, i)
         PROVE  ThreadInv' /\ NothingForgotten' /\ OrdersBacked'
    BY <2>10 DEF ExitAccepted
  <2>11. ASSUME NEW i \in Intents, ExitFailed(t, i)
         PROVE  ThreadInv' /\ NothingForgotten' /\ OrdersBacked'
    BY <2>11 DEF ExitFailed
  <2>12. CASE PopPosition(t)
    BY <2>12 DEF PopPosition
  <2>13. CASE FlattenReturns(t)
    BY <2>13 DEF FlattenReturns, Return
  <2>14. QED
    BY <1>6, <2>1, <2>2, <2>3, <2>4, <2>5, <2>6, <2>7, <2>8, <2>9, <2>10, <2>11,
       <2>12, <2>13 DEF ThreadStep
<1>7. CASE UNCHANGED vars
  BY <1>7 DEF vars
<1>8. QED
  BY <1>1, <1>2, <1>3, <1>4, <1>5, <1>6, <1>7 DEF Next

\* The inductive invariant holds in every state of every behaviour.
LEMMA Inductive == Spec => []IInv
<1>1. IInv /\ [Next]_vars => IInv'
  BY TypeStep, LedgerStep DEF IInv
<1>2. QED
  BY <1>1, InitIInv, PTL DEF Spec

\* Type correctness: no handler or thread step puts a variable outside its type
\* (a missing order id, a thread left without its target).
THEOREM TypeCorrect == Spec => []TypeOK
<1>1. IInv => TypeOK
  BY DEF IInv
<1>2. QED
  BY <1>1, Inductive, PTL

\* No accepted entry is silently dropped (main.py _place, _flatten_all), however
\* many requests and flattens overlap.
THEOREM LedgerComplete == Spec => []NothingForgotten
<1>1. IInv => NothingForgotten
  BY DEF IInv
<1>2. QED
  BY <1>1, Inductive, PTL

\* Exits and book entries only for accepted entries, and none in a rehearsal.
THEOREM LedgerSound == Spec => []OrdersBacked
<1>1. IInv => OrdersBacked
  BY DEF IInv
<1>2. QED
  BY <1>1, Inductive, PTL

\* A CLOSE that reports its position gone reports one an exit was accepted for.
THEOREM CloseTruth == Spec => []CloseIsTruthful
<1>1. IInv => CloseIsTruthful
  BY DEF IInv, ThreadInv, CloseIsTruthful
<1>2. QED
  BY <1>1, Inductive, PTL

\* A latched sentinel's book only shrinks once the opens in flight are done.
THEOREM LatchHolds == Spec => LatchedBookOnlyShrinks
<1>1. IInv /\ [Next]_vars => [Quiet /\ fired' => Quiet' /\ book' \subseteq book]_vars
  <2> SUFFICES ASSUME IInv, Next, Quiet, fired'
               PROVE  Quiet' /\ book' \subseteq book
    BY DEF vars
  <2> USE DEF IInv, TypeOK, Threads, Quiet, requestVars, exchangeVars, clockVars
  <2>1. CASE Heartbeat \/ ClearDeadman \/ FireDeadman \/ LeaseLapses \/ BellRings \/ Restart
    BY <2>1 DEF Heartbeat, ClearDeadman, FireDeadman, LeaseLapses, BellRings, Restart
  <2>2. CASE \E t \in Workers, i \in Intents : AcceptOpen(t, i) \/ AcceptClose(t, i)
    BY <2>2 DEF AcceptOpen, AcceptClose
  <2>3. CASE \E i \in Intents : AcceptPaperOpen(i) \/ AcceptPaperClose(i)
    BY <2>3 DEF AcceptPaperOpen, AcceptPaperClose
  <2>4. ASSUME NEW t \in Threads, ThreadStep(t)
        PROVE  Quiet' /\ book' \subseteq book
    BY <2>4 DEF ThreadStep, OpenRefused, OpenAccepted, OpenAnswerLost, RecordPosition,
       CloseUnknown, CloseKnown, DropPaper, ReachBroker, BrokerUnreachable,
       ExitAccepted, ExitFailed, PopPosition, FlattenReturns, Return
  <2>5. QED
    BY <2>1, <2>2, <2>3, <2>4 DEF Next
<1>2. QED
  BY <1>1, Inductive, PTL DEF Spec, LatchedBookOnlyShrinks
=============================================================================
