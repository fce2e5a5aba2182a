------------------------------- MODULE Charts -------------------------------
(***************************************************************************)
(* Trading a liquidity sweep off the chart (core/chart): swings and the    *)
(* levels they make (structure.py), the sweeps of them (sweep.py), the     *)
(* setup at the last bar (setup.py), what became of every past sweep       *)
(* (outcomes.py), how much to risk on a setup (risk_model.py) and the      *)
(* position that risks it (sizing.py).                                     *)
(*                                                                         *)
(* The chart grows by a closed bar at a time.  What the code reports is    *)
(* computed over the whole frame each time, and kept here as state, so     *)
(* that a property can compare it with what was reported a bar earlier.    *)
(* One frame serves as both timeframes, which label_sweeps allows.         *)
(*                                                                         *)
(* Prices, ranges and the ATR are whole ticks.  Headroom is in hundredths, *)
(* the width of a stop and the margin in millionths, fractions of capital  *)
(* in basis points.  A quotient is rounded down, but for the ones of       *)
(* Ceil, where nothing would be left of a small one.                       *)
(***************************************************************************)
EXTENDS Integers, Sequences, FiniteSets, FiniteSetsExt

CONSTANTS
    Candles,         \* bars [high, low, close] that may close next
    SwingLookback,   \* SWING_LOOKBACK, 5
    AtrSpan,         \* span of the ATR's average, 14
    StructureBars,   \* bars read_structure needs, lookback * 2 + 15
    SweepBars,       \* bars find_sweeps needs, 40
    LabelBars,       \* bars label_sweeps needs, 60
    MaxLevelAge,     \* MAX_LEVEL_AGE_BARS, 120
    MaxToResolve,    \* MAX_BARS_TO_RESOLVE, 48
    StructureWindow, \* STRUCTURE_WINDOW_BARS, 300
    HitRates,        \* percentages a probability model may answer
    LastBar          \* bound: bars of a chart

ASSUME ChartsAssumption ==
    /\ \A b \in Candles : /\ {b.high, b.low, b.close} \subseteq Nat \ {0}
                          /\ b.low <= b.close /\ b.close <= b.high
    /\ {SwingLookback, AtrSpan, MaxToResolve, StructureWindow} \subseteq Nat \ {0}
    /\ {StructureBars, SweepBars, LabelBars, MaxLevelAge, LastBar} \subseteq Nat
    /\ HitRates \subseteq 0 .. 100

VARIABLES
    chart,           \* the closed bars
    reported,        \* find_sweeps of it
    labelled,        \* label_sweeps of it
    offered          \* find_setup of it: at most one
chartVars == <<chart, reported, labelled, offered>>

Size(x) == IF x < 0 THEN -x ELSE x
Ceil(a, b) == -((-a) \div b)

(***************************************************************************)
(* structure.py                                                            *)
(***************************************************************************)
TrueRange(b, k) ==
    LET prev == b[Max({k - 1, 1})].close
    IN  Max({b[k].high - b[k].low, Size(b[k].high - prev), Size(b[k].low - prev)})

\* The ATR as it stood at bar k of a frame.
Atr(b, k) ==
    LET a[j \in 1 .. k] == IF j = 1 THEN TrueRange(b, 1)
                           ELSE ((AtrSpan - 1) * a[j - 1] + 2 * TrueRange(b, j)) \div (AtrSpan + 1)
    IN  IF Len(b) < 2 THEN 0 ELSE a[k]

Around(k) == k - SwingLookback .. k + SwingLookback
Centres(b) == SwingLookback + 1 .. Len(b) - SwingLookback
SwingHighs(b) == {k \in Centres(b) : \A j \in Around(k) : b[j].high <= b[k].high}
SwingLows(b)  == {k \in Centres(b) : \A j \in Around(k) : b[k].low <= b[j].low}

\* Swings chained while each is within half an ATR of the next; two make a level.
Levels(price, atr) ==
    LET prices == {price[k] : k \in DOMAIN price}
        apart(p) == \A q \in prices : q < p => 2 * (p - q) > atr
        group(s) == {k \in DOMAIN price : /\ s <= price[k]
                                          /\ \A t \in prices : s < t /\ t <= price[k] => ~ apart(t)}
    IN  {SumFunctionOnSet(price, group(s)) \div Cardinality(group(s)) :
            s \in {s \in prices : apart(s) /\ Cardinality(group(s)) >= 2}}

\* Of the last two swings of each side; 0 is "ranging".
TrendOf(b) ==
    LET lastTwo(S) == {k \in S : Cardinality({j \in S : j > k}) < 2}
        rise(S, price(_)) == price(Max(lastTwo(S))) - price(Min(lastTwo(S)))
        up   == rise(SwingHighs(b), LAMBDA k : b[k].high)
        down == rise(SwingLows(b), LAMBDA k : b[k].low)
    IN  IF Cardinality(SwingHighs(b)) < 2 \/ Cardinality(SwingLows(b)) < 2 THEN 0
        ELSE IF up > 0 /\ down > 0 THEN 1
        ELSE IF up < 0 /\ down < 0 THEN -1 ELSE 0

Readable(b) == Len(b) >= StructureBars /\ Len(b) > 0 /\ Atr(b, Len(b)) > 0

\* Both kinds: a level is support or resistance by where the price is now.
LevelsOf(b) ==
    Levels([k \in SwingHighs(b) |-> b[k].high], Atr(b, Len(b)))
    \cup Levels([k \in SwingLows(b) |-> b[k].low], Atr(b, Len(b)))

(***************************************************************************)
(* sweep.py.  A sweep of lows is bullish; a sweep of highs is its mirror.  *)
(***************************************************************************)
AtrOfFrame(b, i) == Atr(b, Len(b))
AtrAt(b, i) == Atr(b, i)

\* The last bar whose swing was confirmed by bar i.
ConfirmedBy(i) == i - SwingLookback

\* How far bar i reached beyond the level, closed back inside, and its range.
Beyond(b, i, d, level) == IF d > 0 THEN level - b[i].low ELSE b[i].high - level
Back(b, i, d, level)   == IF d > 0 THEN b[i].close - level ELSE level - b[i].close
Rejection(b, i, d)     == IF d > 0 THEN b[i].close - b[i].low ELSE b[i].high - b[i].close

LevelAt(b, j, d) == IF d > 0 THEN b[j].low ELSE b[j].high
Swings(b, d) == IF d > 0 THEN SwingLows(b) ELSE SwingHighs(b)

\* The swings whose level bar i sweeps.
Swept(b, i, d) ==
    {j \in Swings(b, d) :
        LET pierce == Beyond(b, i, d, LevelAt(b, j, d))
            atr == AtrAt(b, i)
        IN  /\ atr > 0 /\ j <= ConfirmedBy(i) /\ i - j <= MaxLevelAge
            /\ pierce > 0 /\ 5 * atr <= 100 * pierce /\ 100 * pierce <= 120 * atr
            /\ Back(b, i, d, LevelAt(b, j, d)) > 0
            /\ 100 * Rejection(b, i, d) >= 66 * (b[i].high - b[i].low)}

\* A bar sweeps the latest of them, once to a side.
SweepOf(b, i, d) ==
    [bar |-> i, side |-> d, level |-> LevelAt(b, Max(Swept(b, i, d)), d), atr |-> AtrAt(b, i),
     wick |-> IF d > 0 THEN b[i].low ELSE b[i].high, entry |-> b[i].close]

Sweeps(b) ==
    IF Len(b) < SweepBars THEN {}
    ELSE UNION {{SweepOf(b, i, d) : d \in {d \in {1, -1} : Swept(b, i, d) # {}}} :
                   i \in 2 * SwingLookback + 1 .. Len(b)}

\* Beyond the wick, not at the level.
StopAtLevel(s) == s.level
StopOf(s) == s.wick - s.side * Ceil(15 * s.atr, 100)

\* The last of the list, in which a bar's bullish sweep comes before its bearish one.
LatestSweep(b, within) ==
    {s \in Sweeps(b) : /\ \A t \in Sweeps(b) : t.bar < s.bar \/ (t.bar = s.bar /\ s.side <= t.side)
                       /\ Len(b) - s.bar <= within}

(***************************************************************************)
(* setup.py, and the same filters in outcomes.py                           *)
(***************************************************************************)
\* The trade a sweep makes on a structure: at most one.
TradeOn(s, b) ==
    LET risk == Size(s.entry - StopOf(s))
        ahead == {v \in LevelsOf(b) : s.side * (v - s.entry) > 0}
        near == {v \in ahead : \A u \in ahead : Size(v - s.entry) <= Size(u - s.entry)}
    IN  {[sweep |-> s, entry |-> s.entry, stop |-> StopOf(s), target |-> v] :
            v \in {v \in near : /\ Readable(b) /\ risk > 0
                                /\ 10 * risk <= 16 * Atr(b, Len(b))
                                /\ 10 * Size(v - s.entry) >= 12 * risk}}

\* find_setup: the trend must not be against it; within_bars is 1.
Setup(b) == UNION {TradeOn(s, b) : s \in {s \in LatestSweep(b, 1) : s.side * TrendOf(b) >= 0}}

(***************************************************************************)
(* outcomes.py                                                             *)
(***************************************************************************)
HitsTarget(b, j, t) == IF t.sweep.side > 0 THEN b[j].high >= t.target ELSE b[j].low <= t.target
HitsStop(b, j, t)   == IF t.sweep.side > 0 THEN b[j].low <= t.stop ELSE b[j].high >= t.stop

\* _walk_forward: a bar that touches both is a stop.
Resolved(b, t) ==
    LET ends == {j \in t.sweep.bar + 1 .. Min({t.sweep.bar + MaxToResolve, Len(b)}) :
                    HitsTarget(b, j, t) \/ HitsStop(b, j, t)}
    IN  CASE ends = {} -> "timeout"
          [] ends # {} /\ HitsStop(b, Min(ends), t) -> "stop"
          [] OTHER -> "target"

\* The structure at a sweep is the window that ends with its bar.
WindowAtEnd(b, i) == SubSeq(b, Max({1, Len(b) + 1 - StructureWindow}), Len(b))
WindowAt(b, i) == SubSeq(b, Max({1, i + 1 - StructureWindow}), i)

Labelled(b) ==
    IF Len(b) < LabelBars THEN {}
    ELSE {[trade |-> t, resolved |-> Resolved(b, t)] :
            t \in UNION {TradeOn(s, WindowAt(b, s.bar)) : s \in {s \in Sweeps(b) : s.bar <= Len(b) - 2}}}

(***************************************************************************)
(* risk_model.py, in percent and basis points; 0 is "do not take it"       *)
(***************************************************************************)
KellyOf(p, t) == \* 100 * reward * the full Kelly fraction
    p * Size(t.target - t.entry) - (100 - p) * Size(t.entry - t.stop)
Quarter(p, t) == (25 * KellyOf(p, t)) \div Size(t.target - t.entry)

RiskUncapped(p, t) == IF KellyOf(p, t) <= 0 \/ Quarter(p, t) < 50 THEN 0 ELSE Quarter(p, t)
RiskFraction(p, t) ==
    IF KellyOf(p, t) <= 0 \/ Quarter(p, t) < 50 THEN 0 ELSE Min({Quarter(p, t), 500})

(***************************************************************************)
(* sizing.py, for a leveraged venue and a capital of one                   *)
(***************************************************************************)
\* stop_distance over entry.
StopWidth(t) == Ceil(1000000 * Size(t.entry - t.stop), t.entry)

\* Margin over notional, the inverse of the leverage, which is at most 20.
MarginOf(f, t) == Max({Ceil(10000 * StopWidth(t), f), 50000})

\* Stops between the entry and the liquidation price, which the maintenance margin brings
\* nearer.
HeadroomOf(f, t) == (100 * (MarginOf(f, t) - 2500)) \div StopWidth(t)

\* Lost if the stop fills at its price.
LossOf(f, t) == (10000 * StopWidth(t)) \div MarginOf(f, t)

(***************************************************************************)
(* The chart grows by a bar.                                               *)
(***************************************************************************)
ChartsInit == chart = <<>> /\ reported = {} /\ labelled = {} /\ offered = {}

BarCloses(bar) ==
    /\ Len(chart) < LastBar
    /\ chart' = Append(chart, bar)
    /\ reported' = Sweeps(chart')
    /\ labelled' = Labelled(chart')
    /\ offered' = Setup(chart')

ChartsNext == \E bar \in Candles : BarCloses(bar)
ChartsSpec == ChartsInit /\ [][ChartsNext]_chartVars

(***************************************************************************)
(* Properties.                                                             *)
(***************************************************************************)
\* What the chart has said, later bars do not change: a sweep stays reported with the same
\* level, volatility and stop, and a trade stays labelled with the same target and, once it
\* reached its target or its stop, the same outcome.  A swing read before its confirmation,
\* an average over the whole frame or levels of a later window would each repaint the
\* past, and the hit rate measured on it (sweep.py and outcomes.py: "lookahead").
NothingRedrawn ==
    [][/\ reported \subseteq reported'
       /\ \A o \in labelled : \E n \in labelled' :
            /\ n.trade = o.trade
            /\ o.resolved # "timeout" => n.resolved = o.resolved]_chartVars

\* A setup offered and sized from any probability loses at most a twentieth of the capital
\* at its stop, has its stop behind the wick of the sweep, and 19 stops to its liquidation:
\* no gap through the stop ends the account.
StopComesFirst ==
    \A t \in offered, p \in HitRates :
        LET f == RiskFraction(p, t) IN
        f > 0 => /\ LossOf(f, t) <= 500 /\ HeadroomOf(f, t) >= 1900
                 /\ t.sweep.side * (t.sweep.wick - t.stop) > 0

(***************************************************************************)
(* Not true of the code.                                                   *)
(***************************************************************************)
\* risk_model.py: a cap of 0.05 "keeps liquidation at least 20 stop-distances away at any
\* stop width".  The maintenance margin comes off first, so it is 19 at the tightest.
TwentyStopsAway ==
    \A t \in offered, p \in HitRates : RiskFraction(p, t) > 0 => HeadroomOf(RiskFraction(p, t), t) >= 2000

\* find_setup: "One setup from the latest bar".  With within_bars = 1 the sweep may be a bar
\* old, and the bar since may have gone through its stop or its target.
OfferIsOpen == \A t \in offered : Resolved(chart, t) = "timeout"
=============================================================================
