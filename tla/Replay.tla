------------------------------- MODULE Replay -------------------------------
(***************************************************************************)
(* A lens replayed over one archived session: what it is shown at each     *)
(* minute (nse/backtest/replay.py), what the market did next and what is   *)
(* left of that as an edge (nse/backtest/lens_harness.py), what buying the *)
(* option it points at would have done (nse/backtest/options_harness.py),  *)
(* and the same walk over a perpetual's bars (core/backtest/              *)
(* crypto_replay.py).                                                      *)
(*                                                                         *)
(* The session grows by a minute at a time, and everything else is a       *)
(* function of it, computed over the whole of it as the code does: so a    *)
(* property can say what the minutes to come must not change.  A minute is *)
(* the index, the sides whose contract at the money could be traded, and   *)
(* the lens's verdict, which may be anything; costs, spreads and the       *)
(* statistics of significance are left out.                                *)
(***************************************************************************)
EXTENDS Integers, Sequences, FiniteSets, SequencesExt, FiniteSetsExt

CONSTANTS
    Spots,          \* levels of the index
    BarMinutes,     \* bar_minutes
    Every,          \* every_minutes, every_bars
    Horizon,        \* horizon_minutes, hold_minutes, horizon_bars
    WindowBars,     \* WINDOW_BARS of the crypto replay
    Drifts,         \* moves added to every minute alike
    LastMinute      \* bound: minutes of a session

ASSUME ReplayAssumption ==
    /\ Spots \subseteq Nat \ {0} /\ Drifts \subseteq Int
    /\ {BarMinutes, Every, Horizon, WindowBars} \subseteq Nat \ {0} /\ LastMinute \in Nat

Sides == {"CE", "PE"}
Directions == {-1, 0, 1}       \* 0: neutral, or it abstains

VARIABLES
    archive,        \* the minutes of the archive's file, as far as they go
    study           \* which of the harnesses it is for
replayVars == <<archive, study>>

ReplayInit == archive = <<>> /\ study \in {"entry", "option"}

\* The entry test reads no premium, and a premium's path is not the index's.
Minute(spot, traded, verdict) ==
    /\ Len(archive) < LastMinute
    /\ study = "entry" => traded = {}
    /\ study = "option" => spot = Min(Spots)
    /\ archive' = Append(archive, [spot |-> spot, traded |-> traded, verdict |-> verdict])
    /\ UNCHANGED study

ReplayNext == \E spot \in Spots, traded \in SUBSET Sides, verdict \in Directions : Minute(spot, traded, verdict)

ReplaySpec == ReplayInit /\ [][ReplayNext]_replayVars

(***************************************************************************)
(* snapshots_for_day.                                                      *)
(***************************************************************************)
\* The minutes at which there is a decision.
Grid(day) == {i \in 1 .. Len(day) : (i - 1) % Every = 0}

\* The bars of the whole day, each by the minutes that are in it; a bar is labelled by
\* its first minute.
Labels(day) == {i \in 1 .. Len(day) : (i - 1) % BarMinutes = 0}
Bar(day, label) ==
    LET within == label .. Min({label + BarMinutes - 1, Len(day)})
        spots == {day[i].spot : i \in within}
    IN [label |-> label, open |-> day[label].spot, close |-> day[Max(within)].spot,
        high |-> Max(spots), low |-> Min(spots)]

\* Fault: a bar counts from its label.
ClosedByLabel(day, i) == {label \in Labels(day) : label <= i}

\* A bar is closed when its last minute is over.
Closed(day, i) == {label \in Labels(day) : label + BarMinutes <= i}

\* What a lens is shown at minute i.
Shown(day, i) == [spot |-> day[i].spot, bars |-> {Bar(day, label) : label \in Closed(day, i)}]

(***************************************************************************)
(* replay_lens and measure_entry.                                          *)
(***************************************************************************)
\* _forward_spot: the first decision minute a horizon later, of the same session, or none.
NextSpot(day, i) ==
    LET later == {j \in Grid(day) : j >= i + Horizon}
    IN IF later = {} THEN {} ELSE {Min(later)}

\* How far the index went, had every horizon moved by d more.
Moved(day, i, d) == {day[j].spot - day[i].spot + d : j \in NextSpot(day, i)}

\* Fault: the size of the move, as the crypto replay has it.
RawUnsigned(day, i, d) == {IF m < 0 THEN -m ELSE m : m \in Moved(day, i, d)}

\* raw_move_bps, which has a sign.
Raw(day, i, d) == Moved(day, i, d)

\* An observation counts if the lens took a side and the session goes on long enough.
Observed(day) == {i \in Grid(day) : day[i].verdict # 0 /\ NextSpot(day, i) # {}}

Signed(day, i, d) == {day[i].verdict * m : m \in Moved(day, i, d)}

The(S) == CHOOSE x \in S : TRUE

\* edge_bps, times the square of n: the lens's mean return, less what its mix of long
\* and short would have had blindly.
Edge(day, d) ==
    LET obs == Observed(day)
        n == Cardinality(obs)
        long == Cardinality({i \in obs : day[i].verdict > 0})
        signed == [i \in obs |-> The(Signed(day, i, d))]
        raw == [i \in obs |-> The(Raw(day, i, d))]
    IN n * SumFunctionOnSet(signed, obs) - (2 * long - n) * SumFunctionOnSet(raw, obs)

(***************************************************************************)
(* options_harness.                                                        *)
(***************************************************************************)
Bought(direction) == IF direction > 0 THEN "CE" ELSE "PE"
Tradeable(day, i, side) == side \in day[i].traded

\* _resolve_exit: the minutes up to the horizon, or to the end of the session, and the
\* last of them at which the contract could be sold, if there is one.
Exits(day, i, side) ==
    LET due == {j \in Grid(day) : j >= i + Horizon}
        last == IF due = {} THEN Len(day) ELSE Min(due)
        sold == {j \in Grid(day) : i < j /\ j <= last /\ Tradeable(day, j, side)}
    IN IF sold = {} THEN {}
       ELSE {[at |-> Max(sold),
              reason |-> IF due = {} THEN "session_end"
                         ELSE IF Max(sold) = last THEN "horizon" ELSE "vanished_at_horizon"]}

Entry(day, i) == day[i].verdict # 0 /\ Tradeable(day, i, Bought(day[i].verdict))

Trade(day, i, exit) ==
    [entry |-> i, exit |-> exit.at, side |-> Bought(day[i].verdict), reason |-> exit.reason]

\* Fault: a new signal does not wait for the open trade.
TakeAlways(day, book, i) ==
    LET exits == Exits(day, i, Bought(day[i].verdict))
    IN IF ~Entry(day, i) \/ exits = {} THEN book
       ELSE Append(book, Trade(day, i, The(exits)))

\* One decision minute of run: a signal is ignored while a trade is open, and one that
\* never could be sold leaves no trade.
Take(day, book, i) ==
    LET exits == Exits(day, i, Bought(day[i].verdict))
    IN IF book # <<>> /\ i < Last(book).exit THEN book
       ELSE IF ~Entry(day, i) \/ exits = {} THEN book
       ELSE Append(book, Trade(day, i, The(exits)))

\* The book of a run, and what it was up to a minute.
Trades(day) ==
    LET book[i \in 0 .. Len(day)] ==
            IF i = 0 THEN <<>>
            ELSE IF i \in Grid(day) THEN Take(day, book[i - 1], i) ELSE book[i - 1]
    IN  book[Len(day)]

(***************************************************************************)
(* The crypto replay, where a minute of the session stands for a bar.      *)
(***************************************************************************)
CryptoGrid(day) == {i \in WindowBars .. Len(day) - Horizon : (i - WindowBars) % Every = 0}
CryptoShown(day, i) == {<<j, day[j].spot>> : j \in i - WindowBars + 1 .. i}

CryptoEdge(day, d) ==
    LET obs == {i \in CryptoGrid(day) : day[i].verdict # 0}
        n == Cardinality(obs)
        long == Cardinality({i \in obs : day[i].verdict > 0})
        move(i) == day[i + Horizon].spot - day[i].spot + d
        signed == [i \in obs |-> day[i].verdict * move(i)]
        raw == [i \in obs |-> IF move(i) < 0 THEN -move(i) ELSE move(i)]
    IN n * SumFunctionOnSet(signed, obs) - (2 * long - n) * SumFunctionOnSet(raw, obs)

(***************************************************************************)
(* Properties.                                                             *)
(***************************************************************************)
\* "handing a lens the full day's bars would be lookahead of the most flattering kind"
\* (snapshots_for_day): whatever minutes follow, what a lens was shown at a decision,
\* and the return it was given for it, stay what they were.
NothingRepaints ==
    [][/\ \A i \in Grid(archive) : Shown(archive', i) = Shown(archive, i)
       /\ \A i \in Observed(archive) : Signed(archive', i, 0) = Signed(archive, i, 0)
       /\ \A i \in CryptoGrid(archive) : CryptoShown(archive', i) = CryptoShown(archive, i)]_archive

\* "so what survives is the timing, not the drift" (lens_harness): a market that moves
\* by the same amount more, or less, in every horizon leaves the edge of every lens as
\* it is, whatever its mix of long and short.
DriftIsNotEdge ==
    study = "entry" => \A d \in Drifts : Edge(archive, d) = Edge(archive, 0)

\* A trade is one the day allowed: bought and sold when the contract traded, the sale
\* after the purchase and not past the horizon, and no two trades at the same time
\* ("a real book with a single unit of capital", options_harness.run), although the
\* horizon, the end of the session and the contract that vanishes are found by
\* looking ahead.
TradesArePossible ==
    LET trades == Trades(archive) IN
    study = "option" => \A k \in 1 .. Len(trades) :
        LET t == trades[k] IN
        /\ t.entry < t.exit
        /\ Tradeable(archive, t.entry, t.side) /\ Tradeable(archive, t.exit, t.side)
        /\ \A j \in Grid(archive) : t.entry + Horizon <= j => t.exit <= j
        /\ k > 1 => trades[k - 1].exit <= t.entry

\* "It is never silently dropped" (options_harness): a contract that vanishes.  The
\* code does not keep this: one that is not quoted again after the purchase leaves no
\* trade, and frees the book for the next signal.
EveryPurchaseCounts ==
    \A i \in Grid(archive) :
        study = "option" /\ Entry(archive, i) /\ i < Len(archive) =>
            \E k \in 1 .. Len(Trades(archive)) :
                Trades(archive)[k].entry <= i /\ i <= Trades(archive)[k].exit

\* "exactly as the NSE harness does, so measure_entry's baseline arithmetic is
\* unchanged" (crypto_replay.replay_lens).  The code does not keep this: the raw move it
\* hands over has lost its sign, so that a lens that is always long has an edge of its
\* own, which is never above zero.
DriftIsNotCryptoEdge ==
    study = "entry" => \A d \in Drifts : CryptoEdge(archive, d) = CryptoEdge(archive, 0)
=============================================================================
