---------------------------- MODULE ComboProofs ----------------------------
(***************************************************************************)
(* Theorems about Combo, for any combos, legs, capital and bounds: its     *)
(* types, that a rule is armed only on a leg that filled, and that the two *)
(* ticks implement the life a combo is promised (ComboLife).               *)
(***************************************************************************)
EXTENDS Combo, TLAPS

LEMMA ComboParts ==
    /\ NoCombo \notin Combos /\ Test \notin Combos /\ Test # NoCombo /\ TestLeg \in Legs
    /\ Combos \subseteq Keys /\ Test \in Keys /\ NoCombo \notin Keys
  BY ComboAssumption DEF Keys

(***************************************************************************)
(* The inductive invariant.                                                *)
(***************************************************************************)
Types ==
    /\ at \in [Threads -> Places]
    /\ cur \in [Threads -> Keys \cup {NoCombo}]
    /\ left \in [Threads -> SUBSET Legs]
    /\ todo \subseteq Combos
    /\ used \subseteq Keys
    /\ placed \subseteq Legs
    /\ ruleIds \in [Combos -> SUBSET Legs]
    /\ open \subseteq Combos
    /\ order \in [Keys -> [Legs -> {"none", "resting", "filled"}]]
    /\ rule \in [Keys -> [Legs -> {"none", "armed", "fired"}]]
    /\ squared \in [Keys -> [Legs -> Nat]]

\* Which combo a thread has in hand: the entry tick one that is used and not
\* yet in the book, the position tick one of the book it no longer has to visit.
Ledger ==
    /\ at["entry"] \in {"idle", "pick", "order", "fills", "arm", "book", "revert"}
    /\ at["position"] \in {"idle", "next", "close", "cancel", "square", "release", "drop"}
    /\ at["test"] \in {"idle", "fills", "arm"}
    /\ IF at["entry"] \in {"idle", "pick"} THEN cur["entry"] = NoCombo
       ELSE cur["entry"] \in Combos /\ cur["entry"] \in used /\ cur["entry"] \notin open
    /\ IF at["position"] \in {"idle", "next"} THEN cur["position"] = NoCombo
       ELSE cur["position"] \in open /\ cur["position"] \notin todo
    /\ todo \subseteq open
    /\ open \subseteq used

\* A leg is squared off by the thread that leaves its combo, and then no longer
\* among those it has left.
Squares ==
    /\ \A k \in Keys, l \in Legs : squared[k][l] \in {0, 1}
    /\ \A c \in Combos, l \in Legs : c \notin used => squared[c][l] = 0
    /\ at["entry"] \in {"order", "fills", "arm", "book"} =>
          \A l \in Legs : squared[cur["entry"]][l] = 0
    /\ at["entry"] = "revert" => \A l \in left["entry"] : squared[cur["entry"]][l] = 0
    /\ \A c \in open, l \in Legs :
          c # cur["position"] \/ at["position"] \in {"close", "cancel"} => squared[c][l] = 0
    /\ at["position"] = "square" =>
          \A l \in left["position"] : squared[cur["position"]][l] = 0

\* An order is placed only on a leg that has none, a rule only where the trade
\* book had the leg; neither is left behind on a key that is not used.
Rules ==
    /\ ArmedOnlyFilled
    /\ \A k \in Keys, l \in Legs : k \notin used => order[k][l] = "none"
    /\ at["entry"] = "order" => \A l \in left["entry"] : order[cur["entry"]][l] = "none"
    /\ at["entry"] = "arm" => \A l \in left["entry"] : order[cur["entry"]][l] = "filled"
    /\ at["test"] = "arm" => order[Test][TestLeg] = "filled"

ComboInv == Types /\ Ledger /\ Squares /\ Rules

\* What the calls and the moves between places do, whatever was there before.
LEMMA OrderPlaces ==
    ASSUME Types, NEW k \in Keys, NEW l \in Legs, NEW id, Order(k, l, id)
    PROVE  /\ order' \in [Keys -> [Legs -> {"none", "resting", "filled"}]]
           /\ \A m \in Keys : m # k => order'[m] = order[m]
           /\ \A n \in Legs : n # l => order'[k][n] = order[k][n]
<1>1. CASE order' = order
  BY <1>1 DEF Types
<1>2. ASSUME NEW s \in {"resting", "filled"}, order' = [order EXCEPT ![k][l] = s]
      PROVE  /\ order' \in [Keys -> [Legs -> {"none", "resting", "filled"}]]
             /\ \A m \in Keys : m # k => order'[m] = order[m]
             /\ \A n \in Legs : n # l => order'[k][n] = order[k][n]
  BY <1>2 DEF Types
<1> QED
  BY <1>1, <1>2 DEF Order

LEMMA SquareCounts ==
    ASSUME Types, NEW k \in Keys, NEW l \in Legs, Square(k, l)
    PROVE  /\ squared' \in [Keys -> [Legs -> Nat]]
           /\ \/ squared' = squared
              \/ squared'[k][l] = squared[k][l] + 1
           /\ \A m \in Keys : m # k => squared'[m] = squared[m]
           /\ \A n \in Legs : n # l => squared'[k][n] = squared[k][n]
<1>1. CASE squared' = squared
  BY <1>1 DEF Types
<1>2. CASE squared' = [squared EXCEPT ![k][l] = @ + 1]
  BY <1>2 DEF Types
<1> QED
  BY <1>1, <1>2 DEF Square

LEMMA RuleArmed ==
    ASSUME Types, NEW k \in Keys, NEW l \in Legs, NEW id, CreateRule(k, l, id)
    PROVE  /\ rule' \in [Keys -> [Legs -> {"none", "armed", "fired"}]]
           /\ \A m \in Keys : m # k => rule'[m] = rule[m]
           /\ \A n \in Legs : n # l => rule'[k][n] = rule[k][n]
<1>1. CASE rule' = rule
  BY <1>1 DEF Types
<1>2. CASE rule' = [rule EXCEPT ![k][l] = "armed"]
  BY <1>2 DEF Types
<1> QED
  BY <1>1, <1>2 DEF CreateRule

LEMMA RuleCancelled ==
    ASSUME Types, NEW k \in Combos, NEW l \in Legs, CancelRule(k, l)
    PROVE  /\ rule' \in [Keys -> [Legs -> {"none", "armed", "fired"}]]
           /\ ruleIds' \in [Combos -> SUBSET Legs]
           /\ \A m \in Keys, n \in Legs : rule'[m][n] \in {rule[m][n], "none"}
<1>1. ruleIds' \in [Combos -> SUBSET Legs]
  BY DEF CancelRule, Types
<1>2. CASE rule' = rule
  BY <1>1, <1>2 DEF Types
<1>3. CASE rule' = [rule EXCEPT ![k][l] = "none"]
  BY <1>1, <1>3, ComboParts DEF Types
<1> QED
  BY <1>2, <1>3 DEF CancelRule

LEMMA TreatedMoves ==
    ASSUME Types, NEW t \in Threads, NEW l \in Legs, NEW place \in Places,
           NEW legs \in SUBSET Legs, Treated(t, l, place, legs)
    PROVE  /\ at' \in [Threads -> Places] /\ cur' = cur
           /\ left' \in [Threads -> SUBSET Legs]
           /\ \A u \in Threads : u # t => at'[u] = at[u] /\ left'[u] = left[u]
           /\ \/ at'[t] = place /\ left'[t] = legs
              \/ at'[t] = at[t] /\ left'[t] = left[t] \ {l}
<1>1. CASE left[t] = {l}
  BY <1>1 DEF Treated, Go, Types
<1>2. CASE left[t] # {l}
  <2>1. /\ at' = [at EXCEPT ![t] = at[t]]
        /\ cur' = [cur EXCEPT ![t] = cur[t]]
        /\ left' = [left EXCEPT ![t] = left[t] \ {l}]
    BY <1>2 DEF Treated, Go
  <2>2. at' = at /\ cur' = cur
    BY <2>1 DEF Types
  <2>3. left[t] \ {l} \in SUBSET Legs
    BY DEF Types
  <2> QED
    BY <2>1, <2>2, <2>3 DEF Types
<1> QED
  BY <1>1, <1>2

LEMMA TypesKept ==
    ASSUME Types, Ledger, [ComboNext]_comboVars PROVE Types'
<1>1. CASE EntryTick
  BY <1>1, ComboParts
  DEF EntryTick, Go, threadVars, bookVars, exchangeVars, Types, Ledger, Threads, Places
<1>2. CASE NoMore
  BY <1>2, ComboParts
  DEF NoMore, Go, bookVars, riskVars, exchangeVars, Types, Ledger, Threads, Places
<1>3. CASE ReadFills
  BY <1>3, ComboParts
  DEF ReadFills, Filled, GiveUp, Go, riskVars, exchangeVars, Types, Ledger, Threads,
      Places
<1>4. CASE BookCombo
  BY <1>4, ComboParts
  DEF BookCombo, Go, bookVars, exchangeVars, Types, Ledger, Threads, Places
<1>5. ASSUME NEW c \in Combos, Pick(c) PROVE Types'
  BY <1>5, ComboParts
  DEF Pick, Go, riskVars, exchangeVars, Types, Ledger, Threads, Places
<1>6. ASSUME NEW l \in Legs, PlaceLeg(l) PROVE Types'
  BY <1>6, OrderPlaces, TreatedMoves, ComboParts
  DEF PlaceLeg, GiveUp, Go, riskVars, Types, Ledger, Threads, Places
<1>7. ASSUME NEW l \in Legs, ArmLeg(l) PROVE Types'
  BY <1>7, RuleArmed, TreatedMoves, ComboParts
  DEF ArmLeg, riskVars, Types, Ledger, Threads, Places
<1>8. ASSUME NEW l \in Legs, RevertLeg(l) PROVE Types'
  BY <1>8, SquareCounts, ComboParts
  DEF RevertLeg, Go, bookVars, riskVars, Types, Ledger, Threads, Places
<1>9. CASE PositionTick
  BY <1>9, ComboParts
  DEF PositionTick, Go, bookVars, riskVars, exchangeVars, Types, Ledger, Threads, Places
<1>10. CASE CloseCombo
  BY <1>10, ComboParts
  DEF CloseCombo, Go, bookVars, riskVars, exchangeVars, Types, Ledger, Threads, Places
<1>11. CASE ReadMargin
  BY <1>11, ComboParts
  DEF ReadMargin, Go, bookVars, riskVars, exchangeVars, Types, Ledger, Threads, Places
<1>12. CASE DropCombo
  BY <1>12, ComboParts
  DEF DropCombo, Dropped, NextOr, Go, exchangeVars, Types, Ledger, Threads, Places
<1>13. ASSUME NEW c \in Combos, StayIn(c) PROVE Types'
  BY <1>13, ComboParts
  DEF StayIn, NextOr, Go, bookVars, riskVars, exchangeVars, Types, Ledger, Threads,
      Places
<1>14. ASSUME NEW c \in Combos, NEW d \in {-1, 1}, Leave(c, d) PROVE Types'
  BY <1>14, ComboParts
  DEF Leave, Go, bookVars, exchangeVars, Types, Ledger, Threads, Places
<1>15. ASSUME NEW l \in Legs, CancelLeg(l) PROVE Types'
  BY <1>15, RuleCancelled, TreatedMoves, ComboParts
  DEF CancelLeg, riskVars, Types, Ledger, Threads, Places
<1>16. ASSUME NEW l \in Legs, CloseLeg(l) PROVE Types'
  BY <1>16, SquareCounts, TreatedMoves, ComboParts
  DEF CloseLeg, bookVars, riskVars, Types, Ledger, Threads, Places
<1>17. CASE PlaceTest
  BY <1>17, ComboParts
  DEF PlaceTest, Go, riskVars, Types, Ledger, Threads, Places
<1>18. CASE WaitForFill
  BY <1>18, ComboParts
  DEF WaitForFill, Go, bookVars, riskVars, exchangeVars, Types, Ledger, Threads, Places
<1>19. CASE ArmTest
  BY <1>19, RuleArmed, ComboParts
  DEF ArmTest, Go, bookVars, riskVars, Types, Ledger, Threads, Places
<1>20. ASSUME NEW k \in Keys, NEW l \in Legs, FillResting(k, l) PROVE Types'
  BY <1>20, ComboParts
  DEF FillResting, threadVars, bookVars, riskVars, Types, Ledger, Threads, Places
<1>21. ASSUME NEW k \in Keys, NEW l \in Legs, FireRule(k, l) PROVE Types'
  BY <1>21, ComboParts
  DEF FireRule, threadVars, bookVars, riskVars, Types, Ledger, Threads, Places
<1>22. CASE DropSession
  BY <1>22, ComboParts
  DEF DropSession, threadVars, bookVars, riskVars, exchangeVars, Types, Ledger, Threads,
      Places
<1>23. CASE NewDay
  BY <1>23, ComboParts
  DEF NewDay, threadVars, bookVars, exchangeVars, Types, Ledger, Threads, Places
<1>24. CASE ComboRestart
  BY <1>24, ComboParts
  DEF ComboRestart, exchangeVars, Types, Ledger, Threads, Places
<1>25. ASSUME NEW b \in BOOLEAN, SetKilled(b) PROVE Types'
  BY <1>25, ComboParts
  DEF SetKilled, threadVars, bookVars, exchangeVars, Types, Ledger, Threads, Places
<1>26. CASE UNCHANGED comboVars
  BY <1>26, ComboParts
  DEF comboVars, threadVars, bookVars, riskVars, exchangeVars, Types, Ledger, Threads,
      Places
<1> QED
  BY <1>1, <1>2, <1>3, <1>4, <1>5, <1>6, <1>7, <1>8, <1>9, <1>10, <1>11, <1>12, <1>13,
     <1>14, <1>15, <1>16, <1>17, <1>18, <1>19, <1>20, <1>21, <1>22, <1>23, <1>24, <1>25,
     <1>26 DEF ComboNext

LEMMA LedgerKept ==
    ASSUME Types, Ledger, [ComboNext]_comboVars PROVE Ledger'
<1>1. CASE EntryTick
  BY <1>1, ComboParts
  DEF EntryTick, Go, threadVars, bookVars, Types, Ledger, Threads, Places
<1>2. CASE NoMore
  BY <1>2, ComboParts
  DEF NoMore, Go, bookVars, riskVars, Types, Ledger, Threads, Places
<1>3. CASE ReadFills
  BY <1>3, ComboParts
  DEF ReadFills, GiveUp, Go, riskVars, Types, Ledger, Threads, Places
<1>4. CASE BookCombo
  BY <1>4, ComboParts
  DEF BookCombo, Go, bookVars, Types, Ledger, Threads, Places
<1>5. ASSUME NEW c \in Combos, Pick(c) PROVE Ledger'
  BY <1>5, ComboParts
  DEF Pick, Go, riskVars, Types, Ledger, Threads, Places
<1>6. ASSUME NEW l \in Legs, PlaceLeg(l) PROVE Ledger'
  BY <1>6, TreatedMoves, ComboParts
  DEF PlaceLeg, GiveUp, Go, riskVars, Types, Ledger, Threads, Places
<1>7. ASSUME NEW l \in Legs, ArmLeg(l) PROVE Ledger'
  BY <1>7, TreatedMoves, ComboParts
  DEF ArmLeg, riskVars, Types, Ledger, Threads, Places
<1>8. ASSUME NEW l \in Legs, RevertLeg(l) PROVE Ledger'
  BY <1>8, ComboParts
  DEF RevertLeg, Go, bookVars, riskVars, Types, Ledger, Threads, Places
<1>9. CASE PositionTick
  BY <1>9, ComboParts
  DEF PositionTick, Go, bookVars, riskVars, Types, Ledger, Threads, Places
<1>10. CASE CloseCombo
  BY <1>10, ComboParts
  DEF CloseCombo, Go, bookVars, riskVars, Types, Ledger, Threads, Places
<1>11. CASE ReadMargin
  BY <1>11, ComboParts
  DEF ReadMargin, Go, bookVars, riskVars, Types, Ledger, Threads, Places
<1>12. CASE DropCombo
  BY <1>12, ComboParts
  DEF DropCombo, Dropped, NextOr, Go, Types, Ledger, Threads, Places
<1>13. ASSUME NEW c \in Combos, StayIn(c) PROVE Ledger'
  BY <1>13, ComboParts
  DEF StayIn, NextOr, Go, bookVars, riskVars, Types, Ledger, Threads, Places
<1>14. ASSUME NEW c \in Combos, NEW d \in {-1, 1}, Leave(c, d) PROVE Ledger'
  BY <1>14, ComboParts
  DEF Leave, Go, bookVars, Types, Ledger, Threads, Places
<1>15. ASSUME NEW l \in Legs, CancelLeg(l) PROVE Ledger'
  BY <1>15, TreatedMoves, ComboParts
  DEF CancelLeg, riskVars, Types, Ledger, Threads, Places
<1>16. ASSUME NEW l \in Legs, CloseLeg(l) PROVE Ledger'
  BY <1>16, TreatedMoves, ComboParts
  DEF CloseLeg, bookVars, riskVars, Types, Ledger, Threads, Places
<1>17. CASE PlaceTest
  BY <1>17, ComboParts
  DEF PlaceTest, Go, riskVars, Types, Ledger, Threads, Places
<1>18. CASE WaitForFill
  BY <1>18, ComboParts
  DEF WaitForFill, Go, bookVars, riskVars, Types, Ledger, Threads, Places
<1>19. CASE ArmTest
  BY <1>19, ComboParts
  DEF ArmTest, Go, bookVars, riskVars, Types, Ledger, Threads, Places
<1>20. ASSUME NEW k \in Keys, NEW l \in Legs, FillResting(k, l) PROVE Ledger'
  BY <1>20, ComboParts
  DEF FillResting, threadVars, bookVars, riskVars, Types, Ledger, Threads, Places
<1>21. ASSUME NEW k \in Keys, NEW l \in Legs, FireRule(k, l) PROVE Ledger'
  BY <1>21, ComboParts
  DEF FireRule, threadVars, bookVars, riskVars, Types, Ledger, Threads, Places
<1>22. CASE DropSession
  BY <1>22, ComboParts
  DEF DropSession, threadVars, bookVars, riskVars, Types, Ledger, Threads, Places
<1>23. CASE NewDay
  BY <1>23, ComboParts
  DEF NewDay, threadVars, bookVars, Types, Ledger, Threads, Places
<1>24. CASE ComboRestart
  BY <1>24, ComboParts
  DEF ComboRestart, Types, Ledger, Threads, Places
<1>25. ASSUME NEW b \in BOOLEAN, SetKilled(b) PROVE Ledger'
  BY <1>25, ComboParts
  DEF SetKilled, threadVars, bookVars, Types, Ledger, Threads, Places
<1>26. CASE UNCHANGED comboVars
  BY <1>26, ComboParts
  DEF comboVars, threadVars, bookVars, riskVars, comboVars, Types, Ledger, Threads,
      Places
<1> QED
  BY <1>1, <1>2, <1>3, <1>4, <1>5, <1>6, <1>7, <1>8, <1>9, <1>10, <1>11, <1>12, <1>13,
     <1>14, <1>15, <1>16, <1>17, <1>18, <1>19, <1>20, <1>21, <1>22, <1>23, <1>24, <1>25,
     <1>26 DEF ComboNext

LEMMA SquaresKept ==
    ASSUME Types, Ledger, Squares, [ComboNext]_comboVars PROVE Squares'
<1>1. CASE EntryTick
  BY <1>1, ComboParts
  DEF EntryTick, Go, threadVars, bookVars, exchangeVars, Types, Ledger, Squares,
      Threads, Places
<1>2. CASE NoMore
  BY <1>2, ComboParts
  DEF NoMore, Go, bookVars, riskVars, exchangeVars, Types, Ledger, Squares, Threads,
      Places
<1>3. CASE ReadFills
  BY <1>3, ComboParts
  DEF ReadFills, GiveUp, Go, riskVars, exchangeVars, Types, Ledger, Squares, Threads,
      Places
<1>4. CASE BookCombo
  BY <1>4, ComboParts
  DEF BookCombo, Go, bookVars, exchangeVars, Types, Ledger, Squares, Threads, Places
<1>5. ASSUME NEW c \in Combos, Pick(c) PROVE Squares'
  BY <1>5, ComboParts
  DEF Pick, Go, riskVars, exchangeVars, Types, Ledger, Squares, Threads, Places
<1>6. ASSUME NEW l \in Legs, PlaceLeg(l) PROVE Squares'
  BY <1>6, TreatedMoves, ComboParts
  DEF PlaceLeg, GiveUp, Go, riskVars, Types, Ledger, Squares, Threads, Places
<1>7. ASSUME NEW l \in Legs, ArmLeg(l) PROVE Squares'
  BY <1>7, TreatedMoves, ComboParts
  DEF ArmLeg, riskVars, Types, Ledger, Squares, Threads, Places
<1>8. ASSUME NEW l \in Legs, RevertLeg(l) PROVE Squares'
  <2> DEFINE c == cur["entry"]
  <2>1. /\ c \in Combos /\ c \in Keys /\ c \in used /\ c \notin open
        /\ at["entry"] = "revert" /\ l \in left["entry"] /\ l \in Legs /\ Square(c, l)
    BY <1>8, ComboParts DEF RevertLeg, Ledger
  <2>2. squared[c][l] = 0
    BY <2>1 DEF Squares
  <2>3. /\ squared'[c][l] \in {0, 1}
        /\ \A m \in Keys : m # c => squared'[m] = squared[m]
        /\ \A n \in Legs : n # l => squared'[c][n] = squared[c][n]
    <3>1. \/ squared' = squared
          \/ squared'[c][l] = squared[c][l] + 1
      BY <2>1, SquareCounts
    <3> QED
      BY <3>1, <2>1, <2>2, SquareCounts
  <2>4. /\ used' = used /\ open' = open
        /\ at'["position"] = at["position"] /\ cur'["position"] = cur["position"]
        /\ left'["position"] = left["position"]
        /\ \/ at'["entry"] = "pick"
           \/ /\ at'["entry"] = "revert" /\ cur'["entry"] = c
              /\ left'["entry"] = left["entry"] \ {l}
    BY <1>8, <2>1 DEF RevertLeg, Go, bookVars, riskVars, Types, Threads
  <2>5. \A k \in Keys, n \in Legs : squared'[k][n] \in {0, 1}
    BY <2>1, <2>3 DEF Squares
  <2>6. \A d \in Combos, n \in Legs : d \notin used' => squared'[d][n] = 0
    BY <2>1, <2>3, <2>4, ComboParts DEF Squares
  <2>7. /\ at'["entry"] \notin {"order", "fills", "arm", "book"}
        /\ at'["entry"] = "revert" =>
              \A n \in left'["entry"] : squared'[cur'["entry"]][n] = 0
    BY <2>1, <2>3, <2>4 DEF Squares, Types, Threads
  <2>8. \A d \in open' : d \in Keys /\ d # c /\ squared'[d] = squared[d]
    BY <2>1, <2>3, <2>4, ComboParts DEF Types
  <2>9. at["position"] = "square" => squared'[cur["position"]] = squared[cur["position"]]
    BY <2>4, <2>8 DEF Ledger
  <2> QED
    BY <2>4, <2>5, <2>6, <2>7, <2>8, <2>9 DEF Squares
<1>9. CASE PositionTick
  BY <1>9, ComboParts
  DEF PositionTick, Go, bookVars, riskVars, exchangeVars, Types, Ledger, Squares,
      Threads, Places
<1>10. CASE CloseCombo
  BY <1>10, ComboParts
  DEF CloseCombo, Go, bookVars, riskVars, exchangeVars, Types, Ledger, Squares, Threads,
      Places
<1>11. CASE ReadMargin
  BY <1>11, ComboParts
  DEF ReadMargin, Go, bookVars, riskVars, exchangeVars, Types, Ledger, Squares, Threads,
      Places
<1>12. CASE DropCombo
  BY <1>12, ComboParts
  DEF DropCombo, Dropped, NextOr, Go, exchangeVars, Types, Ledger, Squares, Threads,
      Places
<1>13. ASSUME NEW c \in Combos, StayIn(c) PROVE Squares'
  BY <1>13, ComboParts
  DEF StayIn, NextOr, Go, bookVars, riskVars, exchangeVars, Types, Ledger, Squares,
      Threads, Places
<1>14. ASSUME NEW c \in Combos, NEW d \in {-1, 1}, Leave(c, d) PROVE Squares'
  BY <1>14, ComboParts
  DEF Leave, Go, bookVars, exchangeVars, Types, Ledger, Squares, Threads, Places
<1>15. ASSUME NEW l \in Legs, CancelLeg(l) PROVE Squares'
  BY <1>15, TreatedMoves, ComboParts
  DEF CancelLeg, riskVars, Types, Ledger, Squares, Threads, Places
<1>16. ASSUME NEW l \in Legs, CloseLeg(l) PROVE Squares'
  <2> DEFINE c == cur["position"]
  <2>1. /\ c \in Combos /\ c \in Keys /\ c \in used /\ c \in open
        /\ at["position"] = "square" /\ l \in left["position"] /\ l \in Legs /\ Square(c, l)
    BY <1>16, ComboParts DEF CloseLeg, Ledger, Types
  <2>2. squared[c][l] = 0
    BY <2>1 DEF Squares
  <2>3. /\ squared'[c][l] \in {0, 1}
        /\ \A m \in Keys : m # c => squared'[m] = squared[m]
        /\ \A n \in Legs : n # l => squared'[c][n] = squared[c][n]
    <3>1. \/ squared' = squared
          \/ squared'[c][l] = squared[c][l] + 1
      BY <2>1, SquareCounts
    <3> QED
      BY <3>1, <2>1, <2>2, SquareCounts
  <2>4. /\ used' = used /\ open' = open /\ cur' = cur
        /\ at'["entry"] = at["entry"] /\ left'["entry"] = left["entry"]
        /\ \/ at'["position"] = "release"
           \/ /\ at'["position"] = "square"
              /\ left'["position"] = left["position"] \ {l}
    BY <1>16, <2>1, TreatedMoves DEF CloseLeg, bookVars, riskVars, Types, Threads, Places
  <2>5. \A k \in Keys, n \in Legs : squared'[k][n] \in {0, 1}
    BY <2>1, <2>3 DEF Squares
  <2>6. \A d \in Combos, n \in Legs : d \notin used' => squared'[d][n] = 0
    BY <2>1, <2>3, <2>4, ComboParts DEF Squares
  <2>7. /\ at'["position"] \notin {"close", "cancel"}
        /\ at'["position"] = "square" =>
              \A n \in left'["position"] : squared'[cur'["position"]][n] = 0
    BY <2>1, <2>3, <2>4 DEF Squares, Types, Threads
  <2>8. \A d \in open' : d \in Keys /\ (d # c => squared'[d] = squared[d])
    BY <2>1, <2>3, <2>4, ComboParts DEF Types
  <2>9. at["entry"] \in {"order", "fills", "arm", "book", "revert"} =>
            squared'[cur["entry"]] = squared[cur["entry"]]
    BY <2>1, <2>3, ComboParts DEF Ledger
  <2> QED
    BY <2>4, <2>5, <2>6, <2>7, <2>8, <2>9 DEF Squares
<1>17. CASE PlaceTest
  BY <1>17, ComboParts
  DEF PlaceTest, Go, riskVars, Types, Ledger, Squares, Threads, Places
<1>18. CASE WaitForFill
  BY <1>18, ComboParts
  DEF WaitForFill, Go, bookVars, riskVars, exchangeVars, Types, Ledger, Squares,
      Threads, Places
<1>19. CASE ArmTest
  BY <1>19, ComboParts
  DEF ArmTest, Go, bookVars, riskVars, Types, Ledger, Squares, Threads, Places
<1>20. ASSUME NEW k \in Keys, NEW l \in Legs, FillResting(k, l) PROVE Squares'
  BY <1>20, ComboParts
  DEF FillResting, threadVars, bookVars, riskVars, Types, Ledger, Squares, Threads,
      Places
<1>21. ASSUME NEW k \in Keys, NEW l \in Legs, FireRule(k, l) PROVE Squares'
  BY <1>21, ComboParts
  DEF FireRule, threadVars, bookVars, riskVars, Types, Ledger, Squares, Threads, Places
<1>22. CASE DropSession
  BY <1>22, ComboParts
  DEF DropSession, threadVars, bookVars, riskVars, exchangeVars, Types, Ledger, Squares,
      Threads, Places
<1>23. CASE NewDay
  BY <1>23, ComboParts
  DEF NewDay, threadVars, bookVars, exchangeVars, Types, Ledger, Squares, Threads,
      Places
<1>24. CASE ComboRestart
  BY <1>24, ComboParts
  DEF ComboRestart, exchangeVars, Types, Ledger, Squares, Threads, Places
<1>25. ASSUME NEW b \in BOOLEAN, SetKilled(b) PROVE Squares'
  BY <1>25, ComboParts
  DEF SetKilled, threadVars, bookVars, exchangeVars, Types, Ledger, Squares, Threads,
      Places
<1>26. CASE UNCHANGED comboVars
  BY <1>26, ComboParts
  DEF comboVars, threadVars, bookVars, riskVars, exchangeVars, comboVars, Types, Ledger,
      Squares, Threads, Places
<1> QED
  BY <1>1, <1>2, <1>3, <1>4, <1>5, <1>6, <1>7, <1>8, <1>9, <1>10, <1>11, <1>12, <1>13,
     <1>14, <1>15, <1>16, <1>17, <1>18, <1>19, <1>20, <1>21, <1>22, <1>23, <1>24, <1>25,
     <1>26 DEF ComboNext

LEMMA RulesKept ==
    ASSUME Types, Ledger, Rules, [ComboNext]_comboVars PROVE Rules'
<1>1. CASE EntryTick
  BY <1>1, ComboParts
  DEF EntryTick, Go, threadVars, bookVars, exchangeVars, Types, Ledger, Rules,
      ArmedOnlyFilled, Threads, Places
<1>2. CASE NoMore
  BY <1>2, ComboParts
  DEF NoMore, Go, bookVars, riskVars, exchangeVars, Types, Ledger, Rules,
      ArmedOnlyFilled, Threads, Places
<1>3. CASE ReadFills
  BY <1>3, ComboParts
  DEF ReadFills, Filled, GiveUp, Go, riskVars, exchangeVars, Types, Ledger, Rules,
      ArmedOnlyFilled, Threads, Places
<1>4. CASE BookCombo
  BY <1>4, ComboParts
  DEF BookCombo, Go, bookVars, exchangeVars, Types, Ledger, Rules, ArmedOnlyFilled,
      Threads, Places
<1>5. ASSUME NEW c \in Combos, Pick(c) PROVE Rules'
  BY <1>5, ComboParts
  DEF Pick, Go, riskVars, exchangeVars, Types, Ledger, Rules, ArmedOnlyFilled, Threads,
      Places
<1>6. ASSUME NEW l \in Legs, PlaceLeg(l) PROVE Rules'
  <2> DEFINE c == cur["entry"]
  <2>1. /\ c \in Combos /\ c \in Keys /\ c \in used /\ c # Test
        /\ at["entry"] = "order" /\ l \in left["entry"] /\ l \in Legs
        /\ rule' = rule /\ used' = used
    BY <1>6, ComboParts DEF PlaceLeg, Ledger
  <2>2. order[c][l] = "none" /\ rule[c][l] = "none"
    BY <2>1 DEF Rules, ArmedOnlyFilled
  <2>3. /\ \A m \in Keys : m # c => order'[m] = order[m]
        /\ \A n \in Legs : n # l => order'[c][n] = order[c][n]
    BY <1>6, <2>1, OrderPlaces DEF PlaceLeg
  <2>4. /\ at'["test"] = at["test"]
        /\ \/ at'["entry"] \in {"pick", "revert", "fills"}
           \/ /\ at'["entry"] = "order" /\ cur'["entry"] = c
              /\ left'["entry"] = left["entry"] \ {l}
    BY <1>6, <2>1, TreatedMoves DEF PlaceLeg, GiveUp, Go, Types, Threads, Places
  <2>5. ArmedOnlyFilled'
    BY <2>1, <2>2, <2>3 DEF Rules, ArmedOnlyFilled
  <2>6. \A k \in Keys, n \in Legs : k \notin used' => order'[k][n] = "none"
    BY <2>1, <2>3 DEF Rules
  <2>7. /\ at'["entry"] # "arm"
        /\ at'["entry"] = "order" =>
              \A n \in left'["entry"] : order'[cur'["entry"]][n] = "none"
    BY <2>1, <2>3, <2>4 DEF Rules, Types, Threads
  <2>8. at'["test"] = "arm" => order'[Test][TestLeg] = "filled"
    BY <2>1, <2>3, <2>4, ComboParts DEF Rules
  <2> QED
    BY <2>5, <2>6, <2>7, <2>8 DEF Rules
<1>7. ASSUME NEW l \in Legs, ArmLeg(l) PROVE Rules'
  <2> DEFINE c == cur["entry"]
  <2>1. /\ c \in Combos /\ c \in Keys /\ at["entry"] = "arm"
        /\ l \in left["entry"] /\ l \in Legs /\ order' = order /\ used' = used
    BY <1>7, ComboParts DEF ArmLeg, Ledger
  <2>2. order[c][l] = "filled"
    BY <2>1 DEF Rules
  <2>3. /\ \A m \in Keys : m # c => rule'[m] = rule[m]
        /\ \A n \in Legs : n # l => rule'[c][n] = rule[c][n]
    BY <1>7, <2>1, RuleArmed DEF ArmLeg
  <2>4. /\ cur' = cur /\ at'["test"] = at["test"]
        /\ \/ at'["entry"] = "book"
           \/ at'["entry"] = "arm" /\ left'["entry"] = left["entry"] \ {l}
    BY <1>7, <2>1, TreatedMoves DEF ArmLeg, Threads, Places
  <2>5. ArmedOnlyFilled'
    BY <2>1, <2>2, <2>3 DEF Rules, ArmedOnlyFilled
  <2> QED
    BY <2>1, <2>4, <2>5 DEF Rules
<1>8. ASSUME NEW l \in Legs, RevertLeg(l) PROVE Rules'
  BY <1>8, ComboParts
  DEF RevertLeg, Go, bookVars, riskVars, Types, Ledger, Rules, ArmedOnlyFilled, Threads,
      Places
<1>9. CASE PositionTick
  BY <1>9, ComboParts
  DEF PositionTick, Go, bookVars, riskVars, exchangeVars, Types, Ledger, Rules,
      ArmedOnlyFilled, Threads, Places
<1>10. CASE CloseCombo
  BY <1>10, ComboParts
  DEF CloseCombo, Go, bookVars, riskVars, exchangeVars, Types, Ledger, Rules,
      ArmedOnlyFilled, Threads, Places
<1>11. CASE ReadMargin
  BY <1>11, ComboParts
  DEF ReadMargin, Go, bookVars, riskVars, exchangeVars, Types, Ledger, Rules,
      ArmedOnlyFilled, Threads, Places
<1>12. CASE DropCombo
  BY <1>12, ComboParts
  DEF DropCombo, Dropped, NextOr, Go, exchangeVars, Types, Ledger, Rules,
      ArmedOnlyFilled, Threads, Places
<1>13. ASSUME NEW c \in Combos, StayIn(c) PROVE Rules'
  BY <1>13, ComboParts
  DEF StayIn, NextOr, Go, bookVars, riskVars, exchangeVars, Types, Ledger, Rules,
      ArmedOnlyFilled, Threads, Places
<1>14. ASSUME NEW c \in Combos, NEW d \in {-1, 1}, Leave(c, d) PROVE Rules'
  BY <1>14, ComboParts
  DEF Leave, Go, bookVars, exchangeVars, Types, Ledger, Rules, ArmedOnlyFilled, Threads,
      Places
<1>15. ASSUME NEW l \in Legs, CancelLeg(l) PROVE Rules'
  BY <1>15, RuleCancelled, TreatedMoves, ComboParts
  DEF CancelLeg, riskVars, Types, Ledger, Rules, ArmedOnlyFilled, Threads, Places
<1>16. ASSUME NEW l \in Legs, CloseLeg(l) PROVE Rules'
  BY <1>16, TreatedMoves, ComboParts
  DEF CloseLeg, bookVars, riskVars, Types, Ledger, Rules, ArmedOnlyFilled, Threads,
      Places
<1>17. CASE PlaceTest
  BY <1>17, ComboParts
  DEF PlaceTest, Go, riskVars, Types, Ledger, Rules, ArmedOnlyFilled, Threads, Places
<1>18. CASE WaitForFill
  BY <1>18, ComboParts
  DEF WaitForFill, Go, bookVars, riskVars, exchangeVars, Types, Ledger, Rules,
      ArmedOnlyFilled, Threads, Places
<1>19. CASE ArmTest
  <2>1. /\ order[Test][TestLeg] = "filled" /\ order' = order /\ used' = used
        /\ Test \in Keys /\ TestLeg \in Legs
    BY <1>19, ComboParts DEF ArmTest, Rules, bookVars
  <2>2. /\ \A m \in Keys : m # Test => rule'[m] = rule[m]
        /\ \A n \in Legs : n # TestLeg => rule'[Test][n] = rule[Test][n]
    BY <1>19, <2>1, RuleArmed DEF ArmTest
  <2>3. /\ at'["test"] = "idle"
        /\ at'["entry"] = at["entry"] /\ cur'["entry"] = cur["entry"]
        /\ left'["entry"] = left["entry"]
    BY <1>19 DEF ArmTest, Go, Types, Threads
  <2>4. ArmedOnlyFilled'
    BY <2>1, <2>2 DEF Rules, ArmedOnlyFilled
  <2> QED
    BY <2>1, <2>3, <2>4 DEF Rules
<1>20. ASSUME NEW k \in Keys, NEW l \in Legs, FillResting(k, l) PROVE Rules'
  BY <1>20, ComboParts
  DEF FillResting, threadVars, bookVars, riskVars, Types, Ledger, Rules,
      ArmedOnlyFilled, Threads, Places
<1>21. ASSUME NEW k \in Keys, NEW l \in Legs, FireRule(k, l) PROVE Rules'
  BY <1>21, ComboParts
  DEF FireRule, threadVars, bookVars, riskVars, Types, Ledger, Rules, ArmedOnlyFilled,
      Threads, Places
<1>22. CASE DropSession
  BY <1>22, ComboParts
  DEF DropSession, threadVars, bookVars, riskVars, exchangeVars, Types, Ledger, Rules,
      ArmedOnlyFilled, Threads, Places
<1>23. CASE NewDay
  BY <1>23, ComboParts
  DEF NewDay, threadVars, bookVars, exchangeVars, Types, Ledger, Rules, ArmedOnlyFilled,
      Threads, Places
<1>24. CASE ComboRestart
  BY <1>24, ComboParts
  DEF ComboRestart, exchangeVars, Types, Ledger, Rules, ArmedOnlyFilled, Threads, Places
<1>25. ASSUME NEW b \in BOOLEAN, SetKilled(b) PROVE Rules'
  BY <1>25, ComboParts
  DEF SetKilled, threadVars, bookVars, exchangeVars, Types, Ledger, Rules,
      ArmedOnlyFilled, Threads, Places
<1>26. CASE UNCHANGED comboVars
  BY <1>26, ComboParts
  DEF comboVars, threadVars, bookVars, riskVars, exchangeVars, comboVars, Types, Ledger,
      Rules, ArmedOnlyFilled, Threads, Places
<1> QED
  BY <1>1, <1>2, <1>3, <1>4, <1>5, <1>6, <1>7, <1>8, <1>9, <1>10, <1>11, <1>12, <1>13,
     <1>14, <1>15, <1>16, <1>17, <1>18, <1>19, <1>20, <1>21, <1>22, <1>23, <1>24, <1>25,
     <1>26 DEF ComboNext

\* The invariant is inductive: what a thread has in hand, which legs are squared
\* off and which have a rule stay as they are said to be.
THEOREM ComboInvariant == ComboSpec => []ComboInv
<1>1. ComboInit => ComboInv
  <2> SUFFICES ASSUME ComboInit PROVE ComboInv
    OBVIOUS
  <2>1. Types
    BY ComboParts DEF ComboInit, Types, Everywhere, Threads, Places
  <2>2. Ledger
    BY DEF ComboInit, Ledger, Threads
  <2>3. Squares
    BY ComboParts DEF ComboInit, Squares, Everywhere, Threads
  <2>4. Rules
    BY ComboParts DEF ComboInit, Rules, ArmedOnlyFilled, Everywhere, Threads
  <2> QED
    BY <2>1, <2>2, <2>3, <2>4 DEF ComboInv
<1>2. ComboInv /\ [ComboNext]_comboVars => ComboInv'
  BY TypesKept, LedgerKept, SquaresKept, RulesKept DEF ComboInv
<1> QED
  BY <1>1, <1>2, PTL DEF ComboSpec

\* A rule is armed only on a leg whose entry has filled, whatever is lost,
\* raised or late, and whichever thread armed it.
THEOREM ArmedOnlyFilledTheorem == ComboSpec => []ArmedOnlyFilled
<1>1. ComboInv => ArmedOnlyFilled
  BY DEF ComboInv, Rules
<1> QED
  BY <1>1, ComboInvariant, PTL

---------------------------------------------------------------------------
(* The refinement of ComboLife *)

\* Nothing a stage depends on has changed.
LEMMA SameStages ==
    ASSUME \A c \in Combos : c \in used' <=> c \in used,
           open' = open,
           cur'["entry"] = cur["entry"], cur'["position"] = cur["position"],
           at'["entry"] = "revert" <=> at["entry"] = "revert"
    PROVE  \A c \in Combos : Stage(c)' = Stage(c)
  BY DEF Stage

LEMMA LifeStutters ==
    ASSUME \A c \in Combos : Stage(c)' = Stage(c), squared' = squared
    PROVE  UNCHANGED Life!lifeVars
  BY DEF Life!lifeVars

\* One combo has moved to another stage.
LEMMA LifeMoves ==
    ASSUME NEW c \in Combos, NEW from, NEW to,
           Stage(c) \in from, Stage(c)' = to,
           \A d \in Combos : d # c => Stage(d)' = Stage(d), squared' = squared
    PROVE  Life!Move(c, from, to)
  BY DEF Life!Move

\* What a stage is, for a combo in the entry tick's hands, for one in the
\* position tick's, and for the others.
LEMMA StageOfEntry ==
    ASSUME Ledger, cur["entry"] \in Combos
    PROVE  /\ at["entry"] = "revert" => Stage(cur["entry"]) = "leaving"
           /\ at["entry"] # "revert" => Stage(cur["entry"]) = "entering"
  BY ComboParts DEF Ledger, Stage

LEMMA StageOfPosition ==
    ASSUME Types, Ledger, cur["position"] \in Combos
    PROVE  /\ Stage(cur["position"]) = "leaving"
           /\ cur["position"] # cur["entry"] /\ cur["position"] \in used
  BY ComboParts DEF Types, Ledger, Stage

\* A leg of a combo that is being left was squared off for the first time.
LEMMA SquaredOnce ==
    ASSUME Types, NEW c \in Combos, NEW l \in Legs,
           Stage(c) = "leaving", squared[c][l] = 0,
           squared' = [squared EXCEPT ![c][l] = @ + 1],
           \A d \in Combos : d # c => Stage(d)' = Stage(d),
           Stage(c)' \in {"leaving", "gone"}
    PROVE  Life!SquareOff(c, l)
<1> DEFINE s == [d \in Combos |-> Stage(d)]
           q == [d \in Combos |-> squared[d]]
<1>1. s[c] = "leaving" /\ q[c][l] = 0
  OBVIOUS
<1>2. q' = [q EXCEPT ![c][l] = 1]
  <2>1. squared' = [squared EXCEPT ![c] = [@ EXCEPT ![l] = 1]]
    BY ComboParts DEF Types
  <2>2. \A d \in Combos :
            squared'[d] = IF d = c THEN [squared[c] EXCEPT ![l] = 1] ELSE squared[d]
    BY <2>1, ComboParts DEF Types
  <2> QED
    BY <2>2
<1>3. s' \in {s, [s EXCEPT ![c] = "gone"]}
  OBVIOUS
<1> QED
  BY <1>1, <1>2, <1>3 DEF Life!SquareOff

\* Every step is a step of the life of one combo, of all at a restart, or none.
LEMMA LifeStep ==
    ASSUME ComboInv, [ComboNext]_comboVars
    PROVE  [Life!LifeNext]_(Life!lifeVars)
<1> USE DEF ComboInv
<1>0. Types' /\ Ledger'
  BY TypesKept, LedgerKept
<1>1. CASE
        \/ EntryTick \/ NoMore \/ PositionTick \/ CloseCombo \/ ReadMargin
        \/ WaitForFill \/ ArmTest \/ DropSession \/ NewDay \/ UNCHANGED comboVars
  <2>1. /\ used' = used /\ open' = open /\ squared' = squared
        /\ cur'["entry"] = cur["entry"]
        /\ at'["entry"] = "revert" <=> at["entry"] = "revert"
    BY <1>1, ComboParts
    DEF EntryTick, NoMore, PositionTick, CloseCombo, ReadMargin, WaitForFill, ArmTest,
        DropSession, NewDay, Go, comboVars, threadVars, bookVars, riskVars, exchangeVars,
        Types, Ledger, Threads
  <2>2. cur'["position"] = cur["position"]
    BY <1>1, ComboParts
    DEF EntryTick, NoMore, PositionTick, CloseCombo, ReadMargin, WaitForFill, ArmTest,
        DropSession, NewDay, Go, comboVars, threadVars, bookVars, riskVars, exchangeVars,
        Types, Ledger, Threads
  <2> QED
    BY <2>1, <2>2, SameStages, LifeStutters
<1>2. CASE PlaceTest
  <2>1. /\ \A c \in Combos : c \in used' <=> c \in used
        /\ open' = open /\ squared' = squared
        /\ cur'["entry"] = cur["entry"] /\ cur'["position"] = cur["position"]
        /\ at'["entry"] = "revert" <=> at["entry"] = "revert"
    BY <1>2, ComboParts DEF PlaceTest, Go, riskVars, Types, Threads
  <2> QED
    BY <2>1, SameStages, LifeStutters
<1>3. ASSUME NEW k \in Keys, NEW l \in Legs, FillResting(k, l) \/ FireRule(k, l)
      PROVE  UNCHANGED Life!lifeVars
  <2>1. UNCHANGED <<used, open, squared, cur, at>>
    BY <1>3 DEF FillResting, FireRule, threadVars, bookVars, riskVars
  <2> QED
    BY <2>1, SameStages, LifeStutters
<1>4. ASSUME NEW b \in BOOLEAN, SetKilled(b) PROVE UNCHANGED Life!lifeVars
  <2>1. UNCHANGED <<used, open, squared, cur, at>>
    BY <1>4 DEF SetKilled, threadVars, bookVars, exchangeVars
  <2> QED
    BY <2>1, SameStages, LifeStutters
<1>5. ASSUME NEW l \in Legs, ArmLeg(l) \/ CancelLeg(l) PROVE UNCHANGED Life!lifeVars
  <2>1. /\ UNCHANGED <<used, open, squared>>
        /\ cur' = cur
        /\ at'["entry"] = "revert" <=> at["entry"] = "revert"
    BY <1>5, TreatedMoves
    DEF ArmLeg, CancelLeg, bookVars, riskVars, Types, Ledger, Threads, Places
  <2> QED
    BY <2>1, SameStages, LifeStutters
<1>6. ASSUME NEW c \in Combos, StayIn(c) PROVE UNCHANGED Life!lifeVars
  <2>1. /\ UNCHANGED <<used, open, squared>>
        /\ cur'["entry"] = cur["entry"] /\ cur'["position"] = cur["position"]
        /\ at'["entry"] = at["entry"]
    BY <1>6 DEF StayIn, Go, bookVars, riskVars, exchangeVars, Types, Ledger, Threads
  <2> QED
    BY <2>1, SameStages, LifeStutters
<1>7. ASSUME NEW c \in Combos, Pick(c) PROVE Life!Enter(c)
  <2>1. /\ c \notin used /\ used' = used \cup {c} /\ open' = open /\ squared' = squared
        /\ cur["entry"] = NoCombo /\ cur'["entry"] = c /\ at'["entry"] = "order"
        /\ cur'["position"] = cur["position"]
    BY <1>7 DEF Pick, Go, riskVars, exchangeVars, Types, Ledger, Threads
  <2>2. Stage(c) \in {"new"} /\ Stage(c)' = "entering"
    BY <2>1 DEF Stage
  <2>3. \A d \in Combos : d # c => Stage(d)' = Stage(d)
    BY <2>1, ComboParts DEF Stage
  <2> QED
    BY <2>1, <2>2, <2>3, LifeMoves DEF Life!Enter
<1>8. ASSUME \/ ReadFills
             \/ \E l \in Legs : PlaceLeg(l)
      PROVE  \/ UNCHANGED Life!lifeVars
             \/ \E c \in Combos : Life!Leave(c) \/ Life!Finish(c)
  <2>0. PICK c \in Combos : c = cur["entry"]
    BY <1>8, ComboParts DEF ReadFills, PlaceLeg, Ledger, Types
  <2>1. /\ c \in used /\ c \notin open /\ at["entry"] # "revert"
        /\ UNCHANGED <<used, open, squared>>
        /\ cur'["position"] = cur["position"]
    BY <1>8, <2>0, ComboParts, TreatedMoves
    DEF ReadFills, PlaceLeg, GiveUp, Go, riskVars, exchangeVars, Types, Ledger, Threads, Places
  <2>2. \/ cur'["entry"] = c
        \/ cur'["entry"] = NoCombo /\ at'["entry"] # "revert"
    BY <1>8, <2>0, TreatedMoves
    DEF ReadFills, PlaceLeg, GiveUp, Go, Types, Threads, Places
  <2>3. /\ c # cur["position"] /\ Stage(c) = "entering"
    BY <2>0, <2>1, ComboParts, StageOfEntry DEF Ledger
  <2>4. \A d \in Combos : d # c => Stage(d)' = Stage(d)
    BY <2>0, <2>1, <2>2, ComboParts DEF Stage
  <2>5. CASE cur'["entry"] = c /\ at'["entry"] # "revert"
    BY <2>0, <2>1, <2>5, SameStages, LifeStutters
  <2>6. CASE cur'["entry"] = c /\ at'["entry"] = "revert"
    <3>1. Stage(c)' = "leaving"
      BY <2>0, <2>1, <2>6 DEF Stage
    <3>2. Life!Leave(c)
      BY <2>0, <2>1, <2>3, <2>4, <3>1, LifeMoves DEF Life!Leave
    <3> QED
      BY <2>0, <2>1, <3>2
  <2>7. CASE cur'["entry"] = NoCombo
    <3>1. Stage(c)' = "gone"
      BY <2>0, <2>1, <2>3, <2>7, ComboParts DEF Stage
    <3>2. Life!Finish(c)
      BY <2>0, <2>1, <2>3, <2>4, <3>1, LifeMoves DEF Life!Finish
    <3> QED
      BY <2>0, <2>1, <3>2
  <2> QED
    BY <2>2, <2>5, <2>6, <2>7
<1>9. CASE BookCombo
  <2>0. PICK c \in Combos : c = cur["entry"]
    BY <1>9, ComboParts DEF BookCombo, Ledger, Types
  <2>1. /\ c \in used /\ c # cur["position"] /\ at["entry"] = "book"
        /\ UNCHANGED <<used, squared>> /\ open' = open \cup {c}
        /\ cur'["entry"] = NoCombo /\ at'["entry"] # "revert"
        /\ cur'["position"] = cur["position"]
    BY <1>9, <2>0, ComboParts
    DEF BookCombo, Go, bookVars, exchangeVars, Types, Ledger, Threads
  <2>2. Stage(c) = "entering" /\ Stage(c)' = "open"
    BY <2>0, <2>1, ComboParts DEF Stage
  <2>3. \A d \in Combos : d # c => Stage(d)' = Stage(d)
    BY <2>0, <2>1, ComboParts DEF Stage
  <2>4. Life!Hold(c)
    BY <2>0, <2>1, <2>2, <2>3, LifeMoves DEF Life!Hold
  <2> QED
    BY <2>0, <2>1, <2>4 DEF Life!LifeNext
<1>10. ASSUME NEW c \in Combos, NEW d \in {-1, 1}, Leave(c, d) PROVE Life!Leave(c)
  <2>1. /\ c \in open /\ c \in used /\ cur["position"] = NoCombo /\ cur'["position"] = c
        /\ UNCHANGED <<used, open, squared>>
        /\ cur'["entry"] = cur["entry"] /\ at'["entry"] = at["entry"]
        /\ c # cur["entry"]
    BY <1>10, ComboParts
    DEF Leave, Go, bookVars, exchangeVars, Types, Ledger, Threads
  <2>2. Stage(c) = "open" /\ Stage(c)' = "leaving"
    BY <2>1, ComboParts DEF Stage
  <2>3. \A e \in Combos : e # c => Stage(e)' = Stage(e)
    BY <2>1, ComboParts DEF Stage
  <2> QED
    BY <2>1, <2>2, <2>3, LifeMoves DEF Life!Leave
<1>11. CASE DropCombo
  <2>0. PICK c \in Combos : c = cur["position"]
    BY <1>11, ComboParts DEF DropCombo, Ledger, Types
  <2>1. /\ c \in open /\ at["position"] = "drop"
        /\ UNCHANGED <<used, squared>> /\ open' = open \ {c}
        /\ cur'["entry"] = cur["entry"] /\ at'["entry"] = at["entry"]
        /\ cur'["position"] = NoCombo
    BY <1>11, <2>0, ComboParts
    DEF DropCombo, Dropped, Go, exchangeVars, Types, Ledger, Threads
  <2>2. Stage(c) = "leaving" /\ c # cur["entry"] /\ c \in used
    BY <2>0, <2>1, StageOfPosition
  <2>3. Stage(c)' = "gone"
    BY <2>0, <2>1, <2>2, ComboParts DEF Stage
  <2>4. \A d \in Combos : d # c => Stage(d)' = Stage(d)
    BY <2>0, <2>1, ComboParts DEF Stage
  <2>5. Life!Finish(c)
    BY <2>0, <2>1, <2>2, <2>3, <2>4, LifeMoves DEF Life!Finish
  <2> QED
    BY <2>0, <2>1, <2>5 DEF Life!LifeNext
<1>12. ASSUME NEW l \in Legs, RevertLeg(l)
       PROVE  \/ UNCHANGED Life!lifeVars
              \/ \E c \in Combos : Life!Finish(c) \/ Life!SquareOff(c, l)
  <2>0. PICK c \in Combos : c = cur["entry"]
    BY <1>12, ComboParts DEF RevertLeg, Ledger, Types
  <2>1. /\ c \in Keys /\ c \in used /\ c \notin open /\ at["entry"] = "revert"
        /\ UNCHANGED <<used, open>> /\ cur'["position"] = cur["position"]
        /\ squared[c][l] = 0
    BY <1>12, <2>0, ComboParts
    DEF RevertLeg, Go, bookVars, riskVars, Types, Ledger, Squares, Threads
  <2>2. \/ cur'["entry"] = c /\ at'["entry"] = "revert"
        \/ cur'["entry"] = NoCombo /\ at'["entry"] # "revert"
    BY <1>12, <2>0 DEF RevertLeg, Go, Types, Threads
  <2>3. Stage(c) = "leaving" /\ c # cur["position"]
    BY <2>0, <2>1, ComboParts, StageOfEntry DEF Ledger
  <2>4. \A d \in Combos : d # c => Stage(d)' = Stage(d)
    BY <2>0, <2>1, <2>2, ComboParts DEF Stage
  <2>5. Stage(c)' \in {"leaving", "gone"}
    BY <2>0, <2>1, <2>2, <2>3, ComboParts DEF Stage
  <2>6. CASE squared' = squared
    <3>1. CASE Stage(c)' = "leaving"
      BY <2>3, <2>4, <2>6, <3>1, LifeStutters
    <3>2. CASE Stage(c)' = "gone"
      BY <2>0, <2>1, <2>3, <2>4, <2>6, <3>2, LifeMoves DEF Life!Finish
    <3> QED
      BY <2>0, <2>1, <2>5, <3>1, <3>2
  <2>7. CASE squared' = [squared EXCEPT ![c][l] = @ + 1]
    <3>1. Life!SquareOff(c, l)
      BY <2>0, <2>1, <2>3, <2>4, <2>5, <2>7, SquaredOnce
    <3> QED
      BY <2>0, <2>1, <3>1
  <2> QED
    BY <1>12, <2>0, <2>6, <2>7 DEF RevertLeg, Square
<1>13. ASSUME NEW l \in Legs, CloseLeg(l)
       PROVE  \/ UNCHANGED Life!lifeVars
              \/ \E c \in Combos : Life!SquareOff(c, l)
  <2>0. PICK c \in Combos : c = cur["position"]
    BY <1>13, ComboParts DEF CloseLeg, Ledger, Types
  <2>1. /\ c \in Keys /\ at["position"] = "square"
        /\ UNCHANGED <<used, open>>
        /\ squared[c][l] = 0
    BY <1>13, <2>0, ComboParts DEF CloseLeg, bookVars, riskVars, Types, Ledger, Squares
  <2>2. cur' = cur /\ at'["entry"] = at["entry"]
    BY <1>13, <2>0, TreatedMoves DEF CloseLeg, Types, Threads, Places
  <2>3. Stage(c) = "leaving"
    BY <2>0, <2>1, StageOfPosition
  <2>4. \A d \in Combos : Stage(d)' = Stage(d)
    BY <2>0, <2>1, <2>2, SameStages
  <2>5. CASE squared' = squared
    BY <2>4, <2>5, LifeStutters
  <2>6. CASE squared' = [squared EXCEPT ![c][l] = @ + 1]
    <3>1. Life!SquareOff(c, l)
      BY <2>0, <2>1, <2>3, <2>4, <2>6, SquaredOnce
    <3> QED
      BY <2>0, <2>1, <3>1
  <2> QED
    BY <1>13, <2>0, <2>5, <2>6 DEF CloseLeg, Square
<1>14. CASE ComboRestart
  <2>1. /\ UNCHANGED <<used, squared>> /\ open' = {}
        /\ cur'["entry"] = NoCombo /\ cur'["position"] = NoCombo
    BY <1>14 DEF ComboRestart, exchangeVars, Threads
  <2>2. \A c \in Combos : Stage(c)' = IF Stage(c) = "new" THEN "new" ELSE "gone"
    BY <2>1, ComboParts DEF Stage
  <2>3. Life!Forget
    BY <2>1, <2>2 DEF Life!Forget
  <2> QED
    BY <2>3 DEF Life!LifeNext
<1> QED
  BY <1>1, <1>2, <1>3, <1>4, <1>5, <1>6, <1>7, <1>8, <1>9, <1>10, <1>11, <1>12, <1>13, <1>14
  DEF ComboNext, Life!LifeNext

\* The two ticks, the broker's wrapper, its failures and a restart implement the
\* life of a combo: an attempt is made once, and each leg squared off at most once.
THEOREM LivesOnceTheorem == ComboSpec => LivesOnce
<1>1. ComboInit => Life!LifeInit
  BY ComboParts DEF ComboInit, Life!LifeInit, Stage, Everywhere
<1>2. ComboInv /\ [ComboNext]_comboVars => [Life!LifeNext]_(Life!lifeVars)
  BY LifeStep
<1> QED
  BY <1>1, <1>2, ComboInvariant, PTL DEF ComboSpec, LivesOnce, Life!LifeSpec

---------------------------------------------------------------------------
(* Types *)

LEMMA Amounts ==
    /\ MarginOf \in [Combos -> Nat] /\ Capital \in Nat
    /\ KillLoss \in Nat /\ MaxLoss \in Nat /\ MaxEvents \in Nat
  BY ComboAssumption

Flags == session \in BOOLEAN /\ killed \in BOOLEAN

Numbers ==
    /\ margin \in Nat /\ read \in Nat /\ loss \in Int
    /\ events \in 0 .. MaxEvents

LEMMA ReleasedIsNat ==
    ASSUME NEW c \in Combos, read \in Nat PROVE Released(c) \in Nat
<1>1. MarginOf[c] \in Nat
  BY Amounts
<1>2. CASE read >= MarginOf[c]
  <2>1. /\ read - MarginOf[c] \in {0, read - MarginOf[c]}
        /\ \A y \in {0, read - MarginOf[c]} : read - MarginOf[c] >= y
    BY <1>1, <1>2
  <2>2. /\ Released(c) \in {0, read - MarginOf[c]}
    BY <2>1 DEF Released, Max
  <2> QED
    BY <1>1, <1>2, <2>2
<1>3. CASE read < MarginOf[c]
  <2>1. /\ 0 \in {0, read - MarginOf[c]}
        /\ \A y \in {0, read - MarginOf[c]} : 0 >= y
    BY <1>1, <1>3
  <2>2. \A x \in {0, read - MarginOf[c]} :
            (\A y \in {0, read - MarginOf[c]} : x >= y) => x = 0
    BY <1>1, <1>3
  <2>3. Released(c) = 0
    BY <2>1, <2>2 DEF Released, Max
  <2> QED
    BY <2>3
<1> QED
  BY <1>1, <1>2, <1>3

LEMMA FlagsKept ==
    ASSUME Flags, [ComboNext]_comboVars PROVE Flags'
<1>1. session' \in BOOLEAN
  BY DEF ComboNext, EntryTick, NoMore, ReadFills, BookCombo, Pick, PlaceLeg, ArmLeg,
      RevertLeg, PositionTick, CloseCombo, ReadMargin, DropCombo, StayIn, Leave,
      CancelLeg, CloseLeg, PlaceTest, WaitForFill, ArmTest, FillResting, FireRule,
      DropSession, NewDay, ComboRestart, SetKilled, comboVars, Login, CreateRule,
      CancelRule, Flags
<1>2. killed' \in BOOLEAN
  BY DEF ComboNext, EntryTick, NoMore, ReadFills, BookCombo, Pick, PlaceLeg, ArmLeg,
      RevertLeg, PositionTick, CloseCombo, ReadMargin, DropCombo, StayIn, Leave,
      CancelLeg, CloseLeg, PlaceTest, WaitForFill, ArmTest, FillResting, FireRule,
      DropSession, NewDay, ComboRestart, SetKilled, comboVars, Tripped, Flags, riskVars
<1> QED
  BY <1>1, <1>2 DEF Flags

LEMMA EventsKept ==
    ASSUME events \in 0 .. MaxEvents, [ComboNext]_comboVars PROVE events' \in 0 .. MaxEvents
<1>1. events' = events \/ Happens
  BY DEF ComboNext, EntryTick, NoMore, ReadFills, BookCombo, Pick, PlaceLeg, ArmLeg,
      RevertLeg, PositionTick, CloseCombo, ReadMargin, DropCombo, StayIn, Leave,
      CancelLeg, CloseLeg, PlaceTest, WaitForFill, ArmTest, FillResting, FireRule,
      DropSession, NewDay, ComboRestart, SetKilled, comboVars, Well, Order, Square,
      CreateRule, CancelRule
<1> QED
  BY <1>1, Amounts DEF Happens

LEMMA NumbersKept ==
    ASSUME Types, Ledger, Numbers, [ComboNext]_comboVars PROVE Numbers'
<1>1. events' \in 0 .. MaxEvents
  BY EventsKept DEF Numbers
<1>2. CASE EntryTick \/ NoMore \/ ReadFills \/ \E c \in Combos : Pick(c)
  BY <1>1, <1>2 DEF EntryTick, NoMore, ReadFills, Pick, threadVars, riskVars, Numbers
<1>3. ASSUME NEW l \in Legs,
             PlaceLeg(l) \/ ArmLeg(l) \/ RevertLeg(l) \/ CancelLeg(l) \/ CloseLeg(l)
      PROVE  Numbers'
  BY <1>1, <1>3 DEF PlaceLeg, ArmLeg, RevertLeg, CancelLeg, CloseLeg, riskVars, Numbers
<1>4. CASE BookCombo
  <2>1. margin + MarginOf[cur["entry"]] \in Nat
    BY <1>4, Amounts DEF BookCombo, Ledger, Numbers
  <2> QED
    BY <1>1, <1>4, <2>1 DEF BookCombo, Numbers
<1>5. CASE PositionTick \/ CloseCombo \/ ReadMargin \/ \E c \in Combos : StayIn(c)
  BY <1>1, <1>5 DEF PositionTick, CloseCombo, ReadMargin, StayIn, riskVars, Numbers
<1>6. ASSUME NEW c \in Combos, NEW d \in {-1, 1}, Leave(c, d) PROVE Numbers'
  BY <1>1, <1>6 DEF Leave, Numbers
<1>7. CASE DropCombo
  <2>1. Released(cur["position"]) \in Nat
    BY <1>7, ReleasedIsNat DEF DropCombo, Ledger, Types, Numbers
  <2> QED
    BY <1>1, <1>7, <2>1 DEF DropCombo, Numbers
<1>8. CASE PlaceTest \/ WaitForFill \/ ArmTest \/ DropSession \/ NewDay \/ ComboRestart
  BY <1>1, <1>8
  DEF PlaceTest, WaitForFill, ArmTest, DropSession, NewDay, ComboRestart, threadVars,
      riskVars,
      Numbers
<1>9. ASSUME NEW k \in Keys, NEW l \in Legs, FillResting(k, l) \/ FireRule(k, l) PROVE Numbers'
  BY <1>1, <1>9 DEF FillResting, FireRule, threadVars, riskVars, Numbers
<1>10. ASSUME NEW b \in BOOLEAN, SetKilled(b) PROVE Numbers'
  BY <1>1, <1>10 DEF SetKilled, threadVars, Numbers
<1>11. CASE UNCHANGED comboVars
  BY <1>11 DEF comboVars, threadVars, riskVars, Numbers
<1> QED
  BY <1>2, <1>3, <1>4, <1>5, <1>6, <1>7, <1>8, <1>9, <1>10, <1>11 DEF ComboNext

\* Every variable keeps its type; no leg is squared off more often than once.
THEOREM ComboTypeCorrect == ComboSpec => []ComboTypeOK
<1>1. ComboInit => Flags /\ Numbers
  <2>1. ComboInit => Flags
    BY DEF ComboInit, Flags
  <2>2. ComboInit => Numbers
    BY Amounts DEF ComboInit, Numbers
  <2> QED
    BY <2>1, <2>2
<1>2. ComboInv /\ Flags /\ Numbers /\ [ComboNext]_comboVars => (Flags /\ Numbers)'
  BY FlagsKept, NumbersKept DEF ComboInv
<1>3. ComboInv /\ Flags /\ Numbers => ComboTypeOK
  <2> SUFFICES ASSUME ComboInv, Flags, Numbers PROVE ComboTypeOK
    OBVIOUS
  <2>1. squared \in [Keys -> [Legs -> 0 .. 2]]
    <3>1. \A k \in Keys : squared[k] \in [Legs -> Nat]
      BY DEF ComboInv, Types
    <3>2. \A k \in Keys, l \in Legs : squared[k][l] \in 0 .. 2
      BY DEF ComboInv, Squares
    <3>3. \A k \in Keys : squared[k] \in [Legs -> 0 .. 2]
      BY <3>1, <3>2
    <3> QED
      BY <3>3 DEF ComboInv, Types
  <2> QED
    BY <2>1 DEF ComboInv, Types, Flags, Numbers, ComboTypeOK
<1> QED
  BY <1>1, <1>2, <1>3, ComboInvariant, PTL DEF ComboSpec
============================================================================
