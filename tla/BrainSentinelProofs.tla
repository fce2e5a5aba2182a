------------------------ MODULE BrainSentinelProofs ------------------------
(***************************************************************************)
(* Theorems about BrainSentinel, for any symbols, decisions, cap and       *)
(* number of faults: type correctness, and that a rehearsal of the live    *)
(* loop never holds a symbol twice but for an open that overtook a restart.*)
(***************************************************************************)
EXTENDS BrainSentinel, TLAPS

\* The initial state satisfies the inductive invariant.
LEMMA InitIInv == Init => IInv
<1> SUFFICES ASSUME Init PROVE IInv
  OBVIOUS
<1> USE BrainAssumption DEF Init, Empty
<1>1. TypeOK
  BY DEF TypeOK
<1>2. LoopInv /\ RequestInv
  BY DEF LoopInv, RequestInv
<1>3. BookInv /\ HeldOnce
  BY DEF BookInv, HeldOnce
<1>4. QED
  BY <1>1, <1>2, <1>3 DEF IInv

\* Every step keeps every variable in its type.
LEMMA TypeStep == TypeOK /\ LoopInv /\ RequestInv /\ [Next]_vars => TypeOK'
<1> SUFFICES ASSUME TypeOK, LoopInv, RequestInv, [Next]_vars PROVE TypeOK'
  OBVIOUS
<1> USE BrainAssumption
    DEF TypeOK, modeVars, runnerVars, loopVars, callVars, sentinelVars, Requests
<1>1. CASE StartCycle \/ ExitsDone \/ Decline
  BY <1>1 DEF StartCycle, ExitsDone, Decline
<1>2. ASSUME NEW r \in Symbols, Begin(r) PROVE TypeOK'
  BY <1>2 DEF Begin, Empty
<1>3. ASSUME NEW r \in Symbols, StartTick(r) PROVE TypeOK'
  BY <1>3 DEF StartTick, Due
<1>4. ASSUME NEW s \in Symbols, SendClose(s) PROVE TypeOK'
  BY <1>4 DEF SendClose
<1>5. ASSUME NEW d \in Decisions, Submit(d) PROVE TypeOK'
  BY <1>5 DEF Submit
<1>6. CASE Opened
  BY <1>6 DEF Opened, Resume, LoopInv
<1>7. CASE Closed
  BY <1>7 DEF Closed, Resume, LoopInv
<1>8. CASE Refused
  BY <1>8 DEF Refused, Resume
<1>9. CASE Land
  BY <1>9 DEF Land, Outcomes, LoopInv
<1>10. CASE GiveUp
  BY <1>10 DEF GiveUp, Resume, LoopInv
<1>11. ASSUME NEW m \in stray, LandStray(m) \/ DropStray(m) PROVE TypeOK'
  BY <1>11 DEF LandStray, DropStray, Outcomes, RequestInv
<1>12. ASSUME NEW s \in Symbols, SpotMoves(s) PROVE TypeOK'
  BY <1>12 DEF SpotMoves
<1>13. CASE HourPasses \/ Night
  BY <1>13 DEF HourPasses, Night, CloseNears, Bell, NextMorning, Listed
<1>14. CASE BrainRestart
  BY <1>14 DEF BrainRestart, Empty
<1>15. CASE SentinelRestart \/ DeadmanFires \/ ClearDeadman
  <2>1. CASE DeadmanFires
    <3>1. held' \subseteq held
      BY <2>1 DEF DeadmanFires
    <3>2. QED
      BY <2>1, <3>1 DEF DeadmanFires
  <2>2. CASE SentinelRestart
    <3>1. held' \subseteq Decisions
      BY <2>2 DEF SentinelRestart
    <3>2. faults' \in 0 .. MaxFaults
      BY <2>2 DEF SentinelRestart
    <3>3. fired' \in BOOLEAN
      BY <2>2 DEF SentinelRestart
    <3>4. QED
      BY <2>2, <3>1, <3>2, <3>3 DEF SentinelRestart
  <2>3. CASE ClearDeadman
    BY <2>3 DEF ClearDeadman
  <2>4. QED
    BY <1>15, <2>1, <2>2, <2>3
<1>16. CASE UNCHANGED vars
  BY <1>16 DEF vars
<1>17. QED
  BY <1>1, <1>2, <1>3, <1>4, <1>5, <1>6, <1>7, <1>8, <1>9, <1>10, <1>11, <1>12, <1>13,
     <1>14, <1>15, <1>16 DEF Next, LoopStep

\* Every step keeps the call in step with the loop.
LEMMA LoopInvStep == TypeOK /\ LoopInv /\ [Next]_vars => LoopInv'
<1> SUFFICES ASSUME TypeOK, LoopInv, [Next]_vars PROVE LoopInv'
  OBVIOUS
<1> USE BrainAssumption
    DEF TypeOK, LoopInv, modeVars, runnerVars, loopVars, callVars, sentinelVars, Requests
<1>1. CASE StartCycle \/ ExitsDone \/ Decline
  BY <1>1 DEF StartCycle, ExitsDone, Decline
<1>2. ASSUME NEW r \in Symbols, Begin(r) PROVE LoopInv'
  BY <1>2 DEF Begin, Empty
<1>3. ASSUME NEW r \in Symbols, StartTick(r) PROVE LoopInv'
  BY <1>3 DEF StartTick
<1>4. ASSUME NEW s \in Symbols, SendClose(s) PROVE LoopInv'
  BY <1>4 DEF SendClose
<1>5. ASSUME NEW d \in Decisions, Submit(d) PROVE LoopInv'
  BY <1>5 DEF Submit, Blocked
<1>6. CASE Opened
  BY <1>6 DEF Opened, Resume
<1>7. CASE Closed
  BY <1>7 DEF Closed, Resume
<1>8. CASE Refused
  BY <1>8 DEF Refused, Resume
<1>9. CASE Land
  BY <1>9 DEF Land, Outcomes
<1>10. CASE GiveUp
  BY <1>10 DEF GiveUp, Resume
<1>11. ASSUME NEW m \in stray, LandStray(m) \/ DropStray(m) PROVE LoopInv'
  BY <1>11 DEF LandStray, DropStray, Outcomes
<1>12. ASSUME NEW s \in Symbols, SpotMoves(s) PROVE LoopInv'
  BY <1>12 DEF SpotMoves
<1>13. CASE HourPasses \/ Night
  BY <1>13 DEF HourPasses, Night, CloseNears, Bell, NextMorning
<1>14. CASE BrainRestart
  BY <1>14 DEF BrainRestart, Empty
<1>15. CASE SentinelRestart
  BY <1>15 DEF SentinelRestart
<1>16. CASE DeadmanFires
  BY <1>16 DEF DeadmanFires
<1>17. CASE ClearDeadman
  BY <1>17 DEF ClearDeadman
<1>18. CASE UNCHANGED vars
  BY <1>18 DEF vars
<1>19. QED
  BY <1>1, <1>2, <1>3, <1>4, <1>5, <1>6, <1>7, <1>8, <1>9, <1>10, <1>11, <1>12, <1>13,
     <1>14, <1>15, <1>16, <1>17, <1>18 DEF Next, LoopStep

\* Every step keeps what is known of requests that were not acted on.
LEMMA RequestInvStep == TypeOK /\ LoopInv /\ RequestInv /\ [Next]_vars => RequestInv'
<1> SUFFICES ASSUME TypeOK, LoopInv, RequestInv, [Next]_vars PROVE RequestInv'
  OBVIOUS
<1> USE BrainAssumption
    DEF TypeOK, LoopInv, RequestInv, modeVars, runnerVars, loopVars, callVars, sentinelVars,
        Requests
<1>1. CASE StartCycle \/ ExitsDone \/ Decline
  BY <1>1 DEF StartCycle, ExitsDone, Decline
<1>2. ASSUME NEW r \in Symbols, Begin(r) PROVE RequestInv'
  BY <1>2 DEF Begin, Empty
<1>3. ASSUME NEW r \in Symbols, StartTick(r) PROVE RequestInv'
  BY <1>3 DEF StartTick
<1>4. ASSUME NEW s \in Symbols, SendClose(s) PROVE RequestInv'
  BY <1>4 DEF SendClose
<1>5. ASSUME NEW d \in Decisions, Submit(d) PROVE RequestInv'
  BY <1>5 DEF Submit, Blocked
<1>6. CASE Opened
  BY <1>6 DEF Opened, Resume
<1>7. CASE Closed
  BY <1>7 DEF Closed, Resume
<1>8. CASE Refused
  BY <1>8 DEF Refused, Resume
<1>9. CASE Land
  BY <1>9 DEF Land, Outcomes
<1>10. CASE GiveUp
  BY <1>10 DEF GiveUp, Resume
<1>11. ASSUME NEW m \in stray, LandStray(m) \/ DropStray(m) PROVE RequestInv'
  BY <1>11 DEF LandStray, DropStray, Outcomes
<1>12. ASSUME NEW s \in Symbols, SpotMoves(s) PROVE RequestInv'
  BY <1>12 DEF SpotMoves
<1>13. CASE HourPasses \/ Night
  BY <1>13 DEF HourPasses, Night, CloseNears, Bell, NextMorning
<1>14. CASE BrainRestart
  BY <1>14 DEF BrainRestart, Empty
<1>15. CASE SentinelRestart
  BY <1>15 DEF SentinelRestart
<1>16. CASE DeadmanFires
  BY <1>16 DEF DeadmanFires
<1>17. CASE ClearDeadman
  BY <1>17 DEF ClearDeadman
<1>18. CASE UNCHANGED vars
  BY <1>18 DEF vars
<1>19. QED
  BY <1>1, <1>2, <1>3, <1>4, <1>5, <1>6, <1>7, <1>8, <1>9, <1>10, <1>11, <1>12, <1>13,
     <1>14, <1>15, <1>16, <1>17, <1>18 DEF Next, LoopStep

\* No step changes what is armed or which loop runs.
LEMMA ModeStep == [Next]_vars => tick' = tick /\ armed' = armed
<1> USE DEF modeVars
<1> QED
  BY DEF Next, LoopStep, Night, vars, StartCycle, Begin, StartTick, SendClose, ExitsDone,
     Decline, Submit, Opened, Closed, Refused, Land, GiveUp, LandStray, DropStray, SpotMoves,
     HourPasses, CloseNears, Bell, NextMorning, BrainRestart, SentinelRestart, DeadmanFires,
     ClearDeadman

\* In a rehearsal of the live loop, every step keeps the runners' books level
\* with the sentinel's, and so no symbol is entered twice.
LEMMA BookStep == IInv /\ Rehearsal /\ [Next]_vars => BookInv' /\ HeldOnce'
<1> SUFFICES ASSUME IInv, Rehearsal, [Next]_vars PROVE BookInv' /\ HeldOnce'
  OBVIOUS
<1> USE BrainAssumption
    DEF IInv, TypeOK, LoopInv, RequestInv, BookInv, HeldOnce, Rehearsal, Timely, Held,
        Opening, modeVars, runnerVars, loopVars, callVars, sentinelVars, Requests
<1>1. CASE StartCycle \/ ExitsDone \/ Decline
  BY <1>1 DEF StartCycle, ExitsDone, Decline
<1>2. ASSUME NEW r \in Symbols, Begin(r) PROVE BookInv' /\ HeldOnce'
  BY <1>2 DEF Begin, Empty, Adopts
<1>3. ASSUME NEW r \in Symbols, StartTick(r) PROVE BookInv' /\ HeldOnce'
  BY <1>3 DEF StartTick
<1>4. ASSUME NEW s \in Symbols, SendClose(s) PROVE BookInv' /\ HeldOnce'
  BY <1>4 DEF SendClose
<1>5. ASSUME NEW d \in Decisions, Submit(d) PROVE BookInv' /\ HeldOnce'
  BY <1>5 DEF Submit, Blocked
<1>6. CASE Opened
  BY <1>6 DEF Opened, Resume
<1>7. CASE Closed
  BY <1>7 DEF Closed, Resume
<1>8. CASE Refused
  BY <1>8 DEF Refused, Resume
<1>9. CASE Land
  BY <1>9 DEF Land, Outcomes
<1>10. CASE GiveUp
  BY <1>10 DEF GiveUp, Resume
<1>11. ASSUME NEW m \in stray, LandStray(m) \/ DropStray(m) PROVE BookInv' /\ HeldOnce'
  <2>1. CASE DropStray(m)
    BY <2>1 DEF DropStray
  <2>2. CASE LandStray(m)
    <3>1. m.type = "OPEN" /\ m.id \in Decisions /\ owner[m.id] = m.sym
      OBVIOUS
    <3>2. CASE held' = held
      BY <2>2, <3>1, <3>2 DEF LandStray
    <3>3. CASE held' = held \cup {m.id} /\ book[m.sym][m.sym] # m.id
      <4>1. \A s : Timely(s)' \subseteq Timely(s)
        BY <2>2, <3>1, <3>3 DEF LandStray
      <4>2. BookInv'
        <5>1. \A s \in begun' \ unreconciled' :
                 book'[s][s] = None => \A d \in Timely(s)' : Opening(s)' /\ call'.id = d
          BY <2>2, <4>1 DEF LandStray
        <5>2. \A n \in stray' : book'[n.sym][n.sym] = n.id => Timely(n.sym)' = {}
          BY <2>2, <4>1 DEF LandStray
        <5>3. QED
          BY <5>1, <5>2
      <4>3. HeldOnce'
        <5>1. m.id \in overtaken' /\ overtaken \subseteq overtaken' /\ owner' = owner
          BY <2>2, <3>1, <3>3 DEF LandStray
        <5>2. QED
          BY <3>3, <5>1
      <4>4. QED
        BY <4>2, <4>3
    <3>4. CASE held' = held \cup {m.id} /\ book[m.sym][m.sym] = m.id
      <4>1. Timely(m.sym) = {}
        BY <3>4
      <4>2. \A n \in stray' : book[n.sym][n.sym] = n.id => n.sym # m.sym
        BY <2>2, <3>1, <3>4 DEF LandStray
      <4>3. \A s \in Symbols : s # m.sym => Timely(s)' \subseteq Timely(s)
        BY <2>2, <3>1, <3>4 DEF LandStray
      <4>4. BookInv'
        BY <2>2, <3>1, <3>4, <4>1, <4>2, <4>3 DEF LandStray
      <4>5. HeldOnce'
        BY <2>2, <3>1, <3>4, <4>1 DEF LandStray
      <4>6. QED
        BY <4>4, <4>5
    <3>5. QED
      BY <2>2, <3>1, <3>2, <3>3, <3>4 DEF LandStray, Outcomes
  <2>3. QED
    BY <1>11, <2>1, <2>2
<1>12. ASSUME NEW s \in Symbols, SpotMoves(s) PROVE BookInv' /\ HeldOnce'
  BY <1>12 DEF SpotMoves
<1>13. CASE HourPasses \/ Night
  BY <1>13 DEF HourPasses, Night, CloseNears, Bell, NextMorning
<1>14. CASE BrainRestart
  BY <1>14 DEF BrainRestart, Empty
<1>15. CASE SentinelRestart
  BY <1>15 DEF SentinelRestart
<1>16. CASE DeadmanFires
  BY <1>16 DEF DeadmanFires
<1>17. CASE ClearDeadman
  BY <1>17 DEF ClearDeadman
<1>18. CASE UNCHANGED vars
  BY <1>18 DEF vars
<1>19. QED
  BY <1>1, <1>2, <1>3, <1>4, <1>5, <1>6, <1>7, <1>8, <1>9, <1>10, <1>11, <1>12, <1>13,
     <1>14, <1>15, <1>16, <1>17, <1>18 DEF Next, LoopStep

\* The inductive invariant holds in every state of every behaviour.
LEMMA Inductive == Spec => []IInv
<1>1. IInv /\ [Next]_vars => IInv'
  BY TypeStep, LoopInvStep, RequestInvStep, BookStep, ModeStep DEF IInv, Rehearsal
<1>2. QED
  BY <1>1, InitIInv, PTL DEF Spec

\* Type correctness: no answer, timeout or restart, in whatever order, takes the
\* loop or its books out of their types.
THEOREM TypeCorrect == Spec => []TypeOK
<1>1. IInv => TypeOK
  BY DEF IInv
<1>2. QED
  BY <1>1, Inductive, PTL

\* A rehearsal of the live loop holds a symbol twice only when an open landed
\* after its runner had restarted and reconciled without it.
THEOREM NoReentry == Spec => []RehearsalHoldsOnce
<1>1. IInv => RehearsalHoldsOnce
  BY DEF IInv, Rehearsal, RehearsalHoldsOnce
<1>2. QED
  BY <1>1, Inductive, PTL

\* A position gets into a book by an answer, or by way of the sentinel's book.
LEMMA KnownStep ==
    IInv /\ KnownInv /\ CloseInv /\ [Next]_vars => KnownInv'
<1> SUFFICES ASSUME IInv, KnownInv, CloseInv, [Next]_vars PROVE KnownInv'
  OBVIOUS
<1> USE BrainAssumption
    DEF IInv, TypeOK, LoopInv, RequestInv, KnownInv, CloseInv, Known, modeVars, runnerVars,
        loopVars, callVars, sentinelVars, Requests
<1>1. CASE StartCycle \/ ExitsDone \/ Decline
  BY <1>1 DEF StartCycle, ExitsDone, Decline
<1>2. ASSUME NEW r \in Symbols, Begin(r) PROVE KnownInv'
  BY <1>2 DEF Begin, Empty, Adopts, Held
<1>3. ASSUME NEW r \in Symbols, StartTick(r) PROVE KnownInv'
  BY <1>3 DEF StartTick
<1>4. ASSUME NEW s \in Symbols, SendClose(s) PROVE KnownInv'
  BY <1>4 DEF SendClose
<1>5. ASSUME NEW d \in Decisions, Submit(d) PROVE KnownInv'
  BY <1>5 DEF Submit, Blocked
<1>6. CASE Opened
  BY <1>6 DEF Opened, Resume
<1>7. CASE Closed
  BY <1>7 DEF Closed, Resume
<1>8. CASE Refused
  BY <1>8 DEF Refused, Resume
<1>9. CASE Land
  BY <1>9 DEF Land, Outcomes
<1>10. CASE GiveUp
  BY <1>10 DEF GiveUp, Resume
<1>11. ASSUME NEW m \in stray, LandStray(m) PROVE KnownInv'
  BY <1>11 DEF LandStray, Outcomes
<1>12. ASSUME NEW m \in stray, DropStray(m) PROVE KnownInv'
  BY <1>12 DEF DropStray
<1>13. ASSUME NEW s \in Symbols, SpotMoves(s) PROVE KnownInv'
  BY <1>13 DEF SpotMoves
<1>14. CASE HourPasses \/ Night
  BY <1>14 DEF HourPasses, Night, CloseNears, Bell, NextMorning
<1>15. CASE BrainRestart
  BY <1>15 DEF BrainRestart, Empty
<1>16. CASE SentinelRestart
  BY <1>16 DEF SentinelRestart
<1>17. CASE DeadmanFires
  BY <1>17 DEF DeadmanFires
<1>18. CASE ClearDeadman
  BY <1>18 DEF ClearDeadman
<1>19. CASE UNCHANGED vars
  BY <1>19 DEF vars
<1>20. QED
  BY <1>1, <1>2, <1>3, <1>4, <1>5, <1>6, <1>7, <1>8, <1>9, <1>10, <1>11, <1>12, <1>13,
     <1>14, <1>15, <1>16, <1>17, <1>18, <1>19 DEF Next, LoopStep

\* While a CLOSE is out, its runner's book stays as it is.
LEMMA CloseStep ==
    IInv /\ KnownInv /\ CloseInv /\ [Next]_vars => CloseInv'
<1> SUFFICES ASSUME IInv, KnownInv, CloseInv, [Next]_vars PROVE CloseInv'
  OBVIOUS
<1> USE BrainAssumption
    DEF IInv, TypeOK, LoopInv, RequestInv, KnownInv, CloseInv, Known, modeVars, runnerVars,
        loopVars, callVars, sentinelVars, Requests
<1>1. CASE StartCycle \/ ExitsDone \/ Decline
  BY <1>1 DEF StartCycle, ExitsDone, Decline
<1>2. ASSUME NEW r \in Symbols, Begin(r) PROVE CloseInv'
  BY <1>2 DEF Begin, Empty, Adopts, Held
<1>3. ASSUME NEW r \in Symbols, StartTick(r) PROVE CloseInv'
  BY <1>3 DEF StartTick
<1>4. ASSUME NEW s \in Symbols, SendClose(s) PROVE CloseInv'
  BY <1>4 DEF SendClose
<1>5. ASSUME NEW d \in Decisions, Submit(d) PROVE CloseInv'
  BY <1>5 DEF Submit, Blocked
<1>6. CASE Opened
  BY <1>6 DEF Opened, Resume
<1>7. CASE Closed
  BY <1>7 DEF Closed, Resume
<1>8. CASE Refused
  BY <1>8 DEF Refused, Resume
<1>9. CASE Land
  BY <1>9 DEF Land, Outcomes
<1>10. CASE GiveUp
  BY <1>10 DEF GiveUp, Resume
<1>11. ASSUME NEW m \in stray, LandStray(m) PROVE CloseInv'
  BY <1>11 DEF LandStray, Outcomes
<1>12. ASSUME NEW m \in stray, DropStray(m) PROVE CloseInv'
  BY <1>12 DEF DropStray
<1>13. ASSUME NEW s \in Symbols, SpotMoves(s) PROVE CloseInv'
  BY <1>13 DEF SpotMoves
<1>14. CASE HourPasses \/ Night
  BY <1>14 DEF HourPasses, Night, CloseNears, Bell, NextMorning
<1>15. CASE BrainRestart
  BY <1>15 DEF BrainRestart, Empty
<1>16. CASE SentinelRestart
  BY <1>16 DEF SentinelRestart
<1>17. CASE DeadmanFires
  BY <1>17 DEF DeadmanFires
<1>18. CASE ClearDeadman
  BY <1>18 DEF ClearDeadman
<1>19. CASE UNCHANGED vars
  BY <1>19 DEF vars
<1>20. QED
  BY <1>1, <1>2, <1>3, <1>4, <1>5, <1>6, <1>7, <1>8, <1>9, <1>10, <1>11, <1>12, <1>13,
     <1>14, <1>15, <1>16, <1>17, <1>18, <1>19 DEF Next, LoopStep

\* Within a session a runner drops a position it knows the id of only when the
\* sentinel no longer holds it, whatever was lost, delayed or restarted.
THEOREM DropIsClose == Spec => DroppedIsClosed
<1>1. Init => IInv /\ KnownInv /\ CloseInv
  BY InitIInv, BrainAssumption DEF Init, Empty, KnownInv, CloseInv, Known
<1>2. IInv /\ [Next]_vars => IInv'
  BY TypeStep, LoopInvStep, RequestInvStep, BookStep, ModeStep DEF IInv, Rehearsal
<1>3. IInv /\ CloseInv /\ [Next]_vars => [DropsTheClosed]_vars
  <2> SUFFICES ASSUME IInv, CloseInv, Next, NEW r \in Symbols, NEW s \in Symbols,
                      r \in begun, r \in begun', Known(r, s), book'[r][s] = None
               PROVE  book[r][s] \notin held'
    BY DEF DropsTheClosed, Known
  <2>1. Closed /\ r = turn /\ s = call.sym
    <3> USE BrainAssumption
        DEF IInv, TypeOK, LoopInv, RequestInv, Known, runnerVars, Requests
    <3>1. CASE LoopStep
      BY <3>1
      DEF LoopStep, StartCycle, Begin, StartTick, SendClose, ExitsDone, Decline, Submit,
          Opened, Closed, Refused
    <3>2. CASE Land \/ GiveUp
      BY <3>2 DEF Land, GiveUp
    <3>3. CASE \E m \in stray : LandStray(m) \/ DropStray(m)
      BY <3>3 DEF LandStray, DropStray
    <3>4. CASE HourPasses \/ Night \/ \E x \in Symbols : SpotMoves(x)
      BY <3>4 DEF HourPasses, Night, CloseNears, Bell, NextMorning, SpotMoves
    <3>5. CASE BrainRestart \/ SentinelRestart \/ DeadmanFires \/ ClearDeadman
      BY <3>5 DEF BrainRestart, SentinelRestart, DeadmanFires, ClearDeadman
    <3> QED
      BY <3>1, <3>2, <3>3, <3>4, <3>5 DEF Next
  <2> QED
    BY <2>1 DEF Closed, CloseInv, sentinelVars
<1>4. QED
  BY <1>1, <1>2, <1>3, KnownStep, CloseStep, PTL DEF Spec, DroppedIsClosed
=============================================================================
