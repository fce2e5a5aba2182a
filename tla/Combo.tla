------------------------------- MODULE Combo -------------------------------
(***************************************************************************)
(* Combos of option legs at Angel One: the broker wrapper                  *)
(* (nse/broker/angel_broker.py), the two ticks of the NSE runner that use  *)
(* it (nse/execution/nse_runner.py), its risk limits (nse/risk.py) and the *)
(* GTT calls of data/angel_fetcher.py.                                     *)
(*                                                                         *)
(* The entry and the position tick run in the scheduler's pool, each at    *)
(* most once at a time; the test endpoint places a single order from a     *)
(* thread of the server.  They share the fetcher's session, which any      *)
(* other thread may drop, so that a call on it raises.                     *)
(*                                                                         *)
(* The exchange is external: an accepted LIMIT order may rest before it    *)
(* fills, a MARKET order fills, a GTT rule stays armed until it fires or   *)
(* is cancelled, and the answer to a call may be lost.  The runner is      *)
(* modelled with a strategy registered, the state it is kept for; signals, *)
(* quotes, market hours and exit reasons come at any time.                 *)
(***************************************************************************)
EXTENDS Integers, FiniteSets, FiniteSetsExt

CONSTANTS
    Combos,      \* position ids; each is used once
    Test,        \* the test endpoint's order
    Legs,        \* the legs of a combo
    TestLeg,     \* the one leg of the test order
    NoCombo,
    MarginOf,    \* what the margin API answers for a combo
    Capital,     \* TOTAL_CAPITAL_INR
    KillLoss,    \* the day's loss beyond which entries stop
    MaxLoss,     \* bound: the day's loss
    MaxEvents    \* bound: steps of the rest of the world, and test orders

ASSUME ComboAssumption ==
    /\ NoCombo \notin Combos /\ Test \notin Combos /\ Test # NoCombo
    /\ TestLeg \in Legs
    /\ MarginOf \in [Combos -> Nat] /\ Capital \in Nat
    /\ KillLoss \in Nat /\ MaxLoss \in Nat /\ MaxEvents \in Nat

Threads == {"entry", "position", "test"}
Places == {"idle", "pick", "order", "fills", "arm", "book", "revert",
           "next", "close", "cancel", "square", "release", "drop"}

VARIABLES
    session,    \* the fetcher holds an api object
    at, cur, left, \* where a thread is, its combo, the legs it has not treated
    todo,       \* the position tick's copy of the keys
    read,       \* _MARGIN_USED_INR as the position tick read it
    used,       \* position ids handed out
    placed,     \* filled_legs of place_combo: the legs with an order id
    ruleIds,    \* ruleIds[c]: legs of an open combo with a gtt_rule_id
    open,       \* _OPEN_POSITIONS
    margin,     \* _MARGIN_USED_INR
    killed, loss,  \* _KILLED, and the day's loss
    order, rule, squared,  \* exchange: entry orders, rules, square-offs
    events      \* bounded by MaxEvents

threadVars == <<at, cur, left, todo, read>>
bookVars == <<used, placed, ruleIds>>
riskVars == <<open, margin, killed, loss>>
exchangeVars == <<order, rule, squared>>
comboVars == <<session, threadVars, bookVars, riskVars, exchangeVars, events>>

Keys == Combos \cup {Test}
Everywhere(x) == [k \in Keys |-> [l \in Legs |-> x]]

ComboTypeOK ==
    /\ session \in BOOLEAN
    /\ at \in [Threads -> Places]
    /\ cur \in [Threads -> Keys \cup {NoCombo}]
    /\ left \in [Threads -> SUBSET Legs]
    /\ todo \subseteq Combos /\ read \in Nat
    /\ used \subseteq Keys
    /\ placed \subseteq Legs
    /\ ruleIds \in [Combos -> SUBSET Legs]
    /\ open \subseteq Combos /\ margin \in Nat
    /\ killed \in BOOLEAN /\ loss \in Int
    /\ order \in [Keys -> [Legs -> {"none", "resting", "filled"}]]
    /\ rule \in [Keys -> [Legs -> {"none", "armed", "fired"}]]
    /\ squared \in [Keys -> [Legs -> 0 .. 2]]
    /\ events \in 0 .. MaxEvents

ComboInit ==
    /\ session = FALSE
    /\ at = [t \in Threads |-> "idle"]
    /\ cur = [t \in Threads |-> NoCombo]
    /\ left = [t \in Threads |-> {}]
    /\ todo = {} /\ read = 0 /\ used = {}
    /\ placed = {} /\ ruleIds = [c \in Combos |-> {}]
    /\ open = {} /\ margin = 0 /\ killed = FALSE /\ loss = 0
    /\ order = Everywhere("none") /\ rule = Everywhere("none") /\ squared = Everywhere(0)
    /\ events = 0

Go(t, place, k, legs) ==
    /\ at' = [at EXCEPT ![t] = place]
    /\ cur' = [cur EXCEPT ![t] = k]
    /\ left' = [left EXCEPT ![t] = legs]

\* Thread t has treated leg l; after the last it goes on to place.
Treated(t, l, place, legs) ==
    IF left[t] = {l} THEN Go(t, place, cur[t], legs)
    ELSE Go(t, at[t], cur[t], left[t] \ {l})

Available == Capital - margin

\* One more of the events that are bounded; a step that goes well is not one.
Happens == events < MaxEvents /\ events' = events + 1
Well(ok) == IF ok THEN UNCHANGED events ELSE Happens

\* _ensure_logged_in: it can only fail when there is no session.
Login(ok) ==
    /\ session' = (session \/ ok)
    /\ ok \/ ~session

(***************************************************************************)
(* Calls that reach the exchange, and what the caller learns of them.      *)
(***************************************************************************)
\* placeOrder for an entry, answered with an order id or not; it raises
\* without a session, and an unanswered order may have been accepted.
Order(k, l, id) ==
    /\ \/ ~id /\ UNCHANGED order
       \/ session /\ \E s \in {"resting", "filled"} : order' = [order EXCEPT ![k][l] = s]
    /\ Well(id \/ ~session)

\* A MARKET order against leg l; its outcome is not looked at.
Square(k, l) ==
    \/ session /\ squared' = [squared EXCEPT ![k][l] = @ + 1] /\ UNCHANGED events
    \/ UNCHANGED squared /\ Well(~session)

\* Fault: a leg that is not in the trade book counts as filled at its limit.
EveryPlaced(k, legs) == legs

\* _attach_fill_prices: the legs whose order the trade book lists.
Filled(k, legs) == {l \in legs : order[k][l] = "filled"}

\* gtt_create_rule: the rule is armed or not, its id comes back or not.
CreateRule(k, l, id) ==
    /\ \E ok \in BOOLEAN : Login(ok)
    /\ \/ ~id /\ UNCHANGED rule
       \/ session' /\ rule' = [rule EXCEPT ![k][l] = "armed"]
    /\ Well(id)

\* gtt_cancel_rule: the id is dropped only if the exchange said it accepted.
CancelRule(k, l) ==
    \E in, ok \in BOOLEAN :
        /\ Login(in)
        /\ ok => session' /\ rule[k][l] # "fired"
        /\ \/ ~ok /\ UNCHANGED rule
           \/ session' /\ rule[k][l] = "armed" /\ rule' = [rule EXCEPT ![k][l] = "none"]
           \/ ok /\ rule[k][l] = "none" /\ UNCHANGED rule
        /\ ruleIds' = [ruleIds EXCEPT ![k] = IF ok THEN @ \ {l} ELSE @]
        /\ Well(ok \/ rule[k][l] = "fired")

(***************************************************************************)
(* The entry tick, with place_combo.                                       *)
(***************************************************************************)
\* check_kill_switch latches the switch when the day has lost too much.
Tripped == killed \/ loss > KillLoss

EntryTick ==
    /\ at["entry"] = "idle"
    /\ IF Tripped \/ Available <= 0
       THEN UNCHANGED threadVars ELSE Go("entry", "pick", NoCombo, {}) /\ UNCHANGED <<todo, read>>
    /\ killed' = Tripped
    /\ UNCHANGED <<session, bookVars, open, margin, loss, exchangeVars, events>>

\* The next signal in the order of strength; one that does not fit, or whose
\* place_combo finds no session or no quote, is passed over.
Pick(c) ==
    /\ at["entry"] = "pick" /\ c \notin used /\ MarginOf[c] <= Available
    /\ used' = used \cup {c}
    /\ session' = TRUE
    /\ Go("entry", "order", c, Legs)
    /\ UNCHANGED <<todo, read, placed, ruleIds, riskVars, exchangeVars, events>>

NoMore ==
    /\ at["entry"] = "pick"
    /\ Go("entry", "idle", NoCombo, {})
    /\ UNCHANGED <<session, todo, read, bookVars, riskVars, exchangeVars, events>>

\* place_combo gives the combo up: a revert of what it placed, then the next.
GiveUp ==
    IF placed = {} THEN Go("entry", "pick", NoCombo, {})
    ELSE Go("entry", "revert", cur["entry"], placed)

PlaceLeg(l) ==
    LET c == cur["entry"] IN
    /\ at["entry"] = "order" /\ l \in left["entry"]
    /\ \E id \in BOOLEAN :
          /\ Order(c, l, id)
          /\ IF id THEN Treated("entry", l, "fills", {}) /\ placed' = placed \cup {l}
             ELSE GiveUp /\ placed' = {}
    /\ UNCHANGED <<session, todo, read, used, ruleIds, riskVars, rule, squared>>

\* The trade book, or nothing of it; attaching the brackets may then raise
\* before the first of them.
ReadFills ==
    LET c == cur["entry"] IN
    /\ at["entry"] = "fills"
    /\ \E in, ok, raises \in BOOLEAN :
          LET confirmed == IF ok THEN Filled(c, placed) ELSE {} IN
          /\ Login(in) /\ (ok => session')
          /\ IF raises THEN GiveUp
             ELSE Go("entry", IF confirmed = {} THEN "book" ELSE "arm", c, confirmed)
          /\ Well(ok /\ ~raises)
    /\ placed' = {}
    /\ UNCHANGED <<todo, read, used, ruleIds, riskVars, exchangeVars>>

ArmLeg(l) ==
    /\ at["entry"] = "arm" /\ l \in left["entry"]
    /\ \E id \in BOOLEAN :
          /\ CreateRule(cur["entry"], l, id)
          /\ ruleIds' = [ruleIds EXCEPT ![cur["entry"]] = IF id THEN @ \cup {l} ELSE @]
    /\ Treated("entry", l, "book", {})
    /\ UNCHANGED <<todo, read, used, placed, riskVars, order, squared>>

BookCombo ==
    LET c == cur["entry"] IN
    /\ at["entry"] = "book"
    /\ margin' = margin + MarginOf[c]
    /\ open' = open \cup {c}
    /\ Go("entry", IF Capital - margin' <= 0 THEN "idle" ELSE "pick", NoCombo, {})
    /\ UNCHANGED <<session, todo, read, bookVars, killed, loss, exchangeVars, events>>

\* _revert_partial_combo squares off every leg it has an order id of.
RevertLeg(l) ==
    /\ at["entry"] = "revert" /\ l \in left["entry"]
    /\ Square(cur["entry"], l)
    /\ IF left["entry"] = {l} THEN Go("entry", "pick", NoCombo, {})
       ELSE Go("entry", "revert", cur["entry"], left["entry"] \ {l})
    /\ UNCHANGED <<session, todo, read, bookVars, riskVars, order, rule>>

(***************************************************************************)
(* The position tick, with close_combo.                                    *)
(***************************************************************************)
PositionTick ==
    /\ at["position"] = "idle" /\ open # {}
    /\ todo' = open
    /\ Go("position", "next", NoCombo, {})
    /\ UNCHANGED <<session, read, bookVars, riskVars, exchangeVars, events>>

NextOr(rest) == IF rest = {} THEN "idle" ELSE "next"

\* Its venue is shut, there is no spot, or no reason to leave.
StayIn(c) ==
    /\ at["position"] = "next" /\ c \in todo
    /\ todo' = todo \ {c}
    /\ Go("position", NextOr(todo'), NoCombo, {})
    /\ UNCHANGED <<session, read, bookVars, riskVars, exchangeVars, events>>

\* A reason to leave: the P&L is booked before the exit is tried.
Leave(c, d) ==
    /\ at["position"] = "next" /\ c \in todo
    /\ todo' = todo \ {c}
    /\ loss + d \in -MaxLoss .. MaxLoss
    /\ loss' = loss + d
    /\ Go("position", "close", c, {})
    /\ UNCHANGED <<session, read, bookVars, open, margin, killed, exchangeVars, events>>

\* close_combo does nothing without a session.
CloseCombo ==
    LET c == cur["position"] IN
    /\ at["position"] = "close"
    /\ \E ok \in BOOLEAN :
          /\ Login(ok)
          /\ IF ~session' THEN Go("position", "release", c, {})
             ELSE IF ruleIds[c] = {} THEN Go("position", "square", c, Legs)
             ELSE Go("position", "cancel", c, ruleIds[c])
          /\ Well(ok)
    /\ UNCHANGED <<todo, read, bookVars, riskVars, exchangeVars>>

CancelLeg(l) ==
    LET c == cur["position"] IN
    /\ at["position"] = "cancel" /\ l \in left["position"]
    /\ CancelRule(c, l)
    /\ Treated("position", l, "square", Legs)
    /\ UNCHANGED <<todo, read, used, placed, riskVars, order, squared>>

CloseLeg(l) ==
    /\ at["position"] = "square" /\ l \in left["position"]
    /\ Square(cur["position"], l)
    /\ Treated("position", l, "release", {})
    /\ UNCHANGED <<session, todo, read, bookVars, riskVars, order, rule>>

\* The margin is read, and written after another call: an entry in between is
\* overwritten.
ReadMargin ==
    /\ at["position"] = "release"
    /\ read' = margin
    /\ Go("position", "drop", cur["position"], {})
    /\ UNCHANGED <<session, todo, bookVars, riskVars, exchangeVars, events>>

Released(c) == Max({0, read - MarginOf[c]})

\* Fault: a combo whose exit may have failed stays in the book.
DropIfSquared(c) == IF \A l \in Legs : squared[c][l] > 0 THEN open \ {c} ELSE open

Dropped(c) == open \ {c}

DropCombo ==
    LET c == cur["position"] IN
    /\ at["position"] = "drop"
    /\ margin' = Released(c)
    /\ read' = 0
    /\ open' = Dropped(c)
    /\ ruleIds' = [ruleIds EXCEPT ![c] = {}]
    /\ Go("position", NextOr(todo), NoCombo, {})
    /\ UNCHANGED <<session, todo, used, placed, killed, loss, exchangeVars, events>>

(***************************************************************************)
(* place_single_order with a bracket, as the test endpoint calls it.       *)
(***************************************************************************)
PlaceTest ==
    /\ at["test"] = "idle" /\ Test \notin used
    /\ Happens
    /\ used' = used \cup {Test}
    /\ session' = TRUE
    /\ \E s \in {"none", "resting", "filled"}, id \in BOOLEAN :
          /\ id => s # "none"
          /\ order' = [order EXCEPT ![Test][TestLeg] = s]
          /\ IF id THEN Go("test", "fills", Test, {TestLeg}) ELSE Go("test", "idle", NoCombo, {})
    /\ UNCHANGED <<todo, read, placed, ruleIds, riskVars, rule, squared>>

\* _wait_for_fill polls the trade book until its deadline.
WaitForFill ==
    /\ at["test"] = "fills"
    /\ \E ok \in BOOLEAN : Login(ok)
    /\ \/ session' /\ order[Test][TestLeg] = "filled" /\ Go("test", "arm", Test, {TestLeg})
       \/ Go("test", "idle", NoCombo, {})
    /\ UNCHANGED <<todo, read, bookVars, riskVars, exchangeVars, events>>

ArmTest ==
    /\ at["test"] = "arm"
    /\ \E id \in BOOLEAN : CreateRule(Test, TestLeg, id)
    /\ Go("test", "idle", NoCombo, {})
    /\ UNCHANGED <<todo, read, bookVars, riskVars, order, squared>>

(***************************************************************************)
(* The rest of the world.                                                  *)
(***************************************************************************)
FillResting(k, l) ==
    /\ Happens /\ order[k][l] = "resting"
    /\ order' = [order EXCEPT ![k][l] = "filled"]
    /\ UNCHANGED <<session, threadVars, bookVars, riskVars, rule, squared>>

FireRule(k, l) ==
    /\ Happens /\ rule[k][l] = "armed"
    /\ rule' = [rule EXCEPT ![k][l] = "fired"]
    /\ UNCHANGED <<session, threadVars, bookVars, riskVars, order, squared>>

\* Another thread invalidates the token.
DropSession ==
    /\ Happens /\ session /\ session' = FALSE
    /\ UNCHANGED <<threadVars, bookVars, riskVars, exchangeVars>>

\* The kill and unkill endpoints.
SetKilled(b) ==
    /\ Happens /\ killed # b /\ killed' = b
    /\ UNCHANGED <<session, threadVars, bookVars, open, margin, loss, exchangeVars>>

\* A new UTC date resets the day's P&L, and not the switch.
NewDay ==
    /\ Happens /\ loss # 0 /\ loss' = 0
    /\ UNCHANGED <<session, threadVars, bookVars, open, margin, killed, exchangeVars>>

\* The process dies and starts again: all of this was in memory.
ComboRestart ==
    /\ Happens
    /\ session' = FALSE
    /\ at' = [t \in Threads |-> "idle"]
    /\ cur' = [t \in Threads |-> NoCombo]
    /\ left' = [t \in Threads |-> {}]
    /\ todo' = {} /\ read' = 0
    /\ placed' = {} /\ ruleIds' = [c \in Combos |-> {}]
    /\ open' = {} /\ margin' = 0 /\ killed' = FALSE /\ loss' = 0
    /\ UNCHANGED <<used, exchangeVars>>

ComboNext ==
    \/ EntryTick \/ NoMore \/ ReadFills \/ BookCombo
    \/ \E c \in Combos : Pick(c)
    \/ \E l \in Legs : PlaceLeg(l) \/ ArmLeg(l) \/ RevertLeg(l)
    \/ PositionTick \/ CloseCombo \/ ReadMargin \/ DropCombo
    \/ \E c \in Combos : StayIn(c) \/ \E d \in {-1, 1} : Leave(c, d)
    \/ \E l \in Legs : CancelLeg(l) \/ CloseLeg(l)
    \/ PlaceTest \/ WaitForFill \/ ArmTest
    \/ \E k \in Keys, l \in Legs : FillResting(k, l) \/ FireRule(k, l)
    \/ DropSession \/ NewDay \/ ComboRestart
    \/ \E b \in BOOLEAN : SetKilled(b)

ComboSpec == ComboInit /\ [][ComboNext]_comboVars

(***************************************************************************)
(* Properties.                                                             *)
(***************************************************************************)
\* A rule is armed only on a leg whose entry has filled: on any other it would
\* open a naked position when it fires (angel_broker.py:360).
ArmedOnlyFilled ==
    \A k \in Keys, l \in Legs : rule[k][l] # "none" => order[k][l] = "filled"

\* Where a combo is in the life it is promised.
Stage(c) ==
    IF c \notin used THEN "new"
    ELSE IF c = cur["entry"] THEN IF at["entry"] = "revert" THEN "leaving" ELSE "entering"
    ELSE IF c = cur["position"] THEN "leaving"
    ELSE IF c \in open THEN "open" ELSE "gone"

Life == INSTANCE ComboLife
    WITH stage <- [c \in Combos |-> Stage(c)], squared <- [c \in Combos |-> squared[c]]

\* The two ticks, the broker and the failures between them implement the life
\* of a combo: its legs are squared off at most once each, and only while the
\* one attempt at it is being left.
LivesOnce == Life!LifeSpec

\* What the books say is deployed stays within the budget, "the maximum capital
\* the bot may deploy across all NSE symbols at any one time" (nse/config.py):
\* not true of the code, where a release of margin can overwrite a deployment.
CapitalKept == MapThenSumSet(LAMBDA c : MarginOf[c], open) <= Capital
=============================================================================
