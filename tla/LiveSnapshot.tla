--------------------------- MODULE LiveSnapshot ---------------------------
(***************************************************************************)
(* What one process puts together as a live observation                    *)
(* (nse/snapshot.py: build_live), cycle after cycle, day after day, for    *)
(* each of its symbols (nse/execution/live_session.py sleeps through the   *)
(* night and does not restart).  Three caches of the module outlive the    *)
(* call: the bars of the session, the bars before it, and the open         *)
(* interest that changes are measured from.                                *)
(*                                                                         *)
(* A frame of bars is named by its sessions; the values in it, and the     *)
(* spot, the expiry, VIX and the quotes, are left out.  A level of open    *)
(* interest is named by the day it was observed.                           *)
(***************************************************************************)
EXTENDS Integers, FiniteSets

CONSTANTS
    Symbols,          \* the symbols of the process
    ChainContracts,   \* the contracts of a symbol's ladder
    Lookback,         \* sessions that fetch_historical_df asks for
    LastDay,          \* bound: the days of a behaviour are Lookback + 1 .. LastDay
    MaxRestarts       \* bound

ASSUME LiveSnapshotAssumption ==
    /\ Lookback \in Nat \ {0} /\ LastDay \in Nat /\ LastDay > Lookback
    /\ MaxRestarts \in Nat

SessionDays == (Lookback + 1) .. LastDay
NoSession == 0
NotRead == {NoSession}
NoKey == <<NoSession, "none">>
NoSnap == [symbol |-> "none"]

VARIABLES
    day, warm,        \* the date; the session has three bars or more
    sessionBars,      \* _bars_cache: per symbol the session whose bars it holds
    young,            \* symbols whose bars are within their time to live
    priorBars,        \* _prior_cache: per symbol today's entry, a set of sessions
    oiKey, oiBase,    \* _oi_baseline: its one key, and what is under it
    snap,             \* what the last build_live returned
    watched,          \* history: contracts of a full chain, today and in this process
    restarts          \* bounded by MaxRestarts

clock == <<day, warm, restarts>>
caches == <<sessionBars, young, priorBars, oiKey, oiBase>>
snapshotVars == <<clock, caches, snap, watched>>

Empty == [c \in {} |-> NoSession]

Cold ==
    /\ sessionBars = [s \in Symbols |-> NoSession] /\ young = {}
    /\ priorBars = [s \in Symbols |-> NotRead]
    /\ oiKey = NoKey /\ oiBase = Empty
    /\ snap = NoSnap /\ watched = [s \in Symbols |-> {}]

SnapshotInit == day = Lookback + 1 /\ warm \in BOOLEAN /\ restarts = 0 /\ Cold

(***************************************************************************)
(* The parts of build_live.                                                *)
(***************************************************************************)
\* _cached_bars, with whether the fetch succeeds: today's frame, or the last good
\* one, whatever its day.  fetch_intraday_df has nothing to give before the third bar.
Bars(s, fetched) ==
    IF s \in young THEN sessionBars[s]
    ELSE IF fetched /\ warm THEN day
    ELSE sessionBars[s]

\* Fault: nothing is cut off.
BeforeAnything(bars) == day + 1

\* The rows strictly before the first of the session's bars, or before today.
Before(bars) == IF bars = NoSession THEN day ELSE bars

\* _cached_prior_bars: once a day, and a fetch that failed is the day's answer too.
Prior(s, bars, fetched) ==
    IF priorBars[s] # NotRead THEN priorBars[s]
    ELSE IF fetched THEN {d \in (day - Lookback) .. day : d < Before(bars)}
    ELSE {}

\* _attach_oi_change first drops every key but its own, another symbol's too.
Base(s) == IF oiKey = <<day, s>> THEN oiBase ELSE Empty

\* The first observation of a contract is its baseline; it has no change yet.
Grown(s, chain) ==
    [c \in DOMAIN Base(s) \cup chain |-> IF c \in DOMAIN Base(s) THEN Base(s)[c] ELSE day]
Changes(s, chain) == [c \in DOMAIN Base(s) \cap chain |-> Base(s)[c]]

(***************************************************************************)
(* build_live, in one thread: get_snapshot finds quotes with their open    *)
(* interest, or falls back to prices alone; either fetch of bars can fail. *)
(***************************************************************************)
Build(s, chain, full, gotBars, gotPrior) ==
    LET bars == Bars(s, gotBars)
        prior == Prior(s, bars, gotPrior)
    IN
    /\ sessionBars' = [sessionBars EXCEPT ![s] = bars]
    /\ young' = IF gotBars /\ warm THEN young \cup {s} ELSE young
    /\ priorBars' = [priorBars EXCEPT ![s] = prior]
    /\ IF full
       THEN /\ oiKey' = <<day, s>> /\ oiBase' = Grown(s, chain)
            /\ watched' = [watched EXCEPT ![s] = @ \cup chain]
       ELSE UNCHANGED <<oiKey, oiBase, watched>>
    /\ snap' = [symbol |-> s, day |-> day, bars |-> bars, prior |-> prior,
                change |-> IF full THEN Changes(s, chain) ELSE Empty,
                known |-> IF full THEN chain \cap watched[s] ELSE {}]
    /\ UNCHANGED clock

\* No spot, no expiry, no contract quoted at all, or an exception.
Unreadable == snap # NoSnap /\ snap' = NoSnap /\ UNCHANGED <<clock, caches, watched>>

(***************************************************************************)
(* Time.                                                                   *)
(***************************************************************************)
Age == young # {} /\ young' = {} /\ UNCHANGED <<clock, sessionBars, priorBars, oiKey, oiBase, snap, watched>>

ThirdBar == ~warm /\ warm' = TRUE /\ UNCHANGED <<day, restarts, caches, snap, watched>>

\* The night is longer than any time to live; _prior_cache has no entry for the new day.
NextDay ==
    /\ day < LastDay /\ day' = day + 1 /\ warm' = FALSE
    /\ young' = {} /\ priorBars' = [s \in Symbols |-> NotRead]
    /\ watched' = [s \in Symbols |-> {}] /\ snap' = NoSnap
    /\ UNCHANGED <<sessionBars, oiKey, oiBase, restarts>>

Restart ==
    /\ restarts < MaxRestarts /\ restarts' = restarts + 1
    /\ sessionBars' = [s \in Symbols |-> NoSession] /\ young' = {}
    /\ priorBars' = [s \in Symbols |-> NotRead]
    /\ oiKey' = NoKey /\ oiBase' = Empty
    /\ snap' = NoSnap /\ watched' = [s \in Symbols |-> {}]
    /\ UNCHANGED <<day, warm>>

SnapshotNext ==
    \/ \E s \in Symbols, chain \in SUBSET ChainContracts \ {{}}, full, gotBars, gotPrior \in BOOLEAN :
            Build(s, chain, full, gotBars, gotPrior)
    \/ Unreadable \/ Age \/ ThirdBar \/ NextDay \/ Restart

SnapshotSpec == SnapshotInit /\ [][SnapshotNext]_snapshotVars

(***************************************************************************)
(* Properties.                                                             *)
(***************************************************************************)
\* "letting those rows through would duplicate the session's own bars inside
\* prior_bars" (_cached_prior_bars): the prior bars are kept for a day and the
\* session's are not, so the two are cut at different times.  What a snapshot holds
\* of the one is never of the other: no bar is counted twice, by whichever failed
\* fetch, stale frame or restart.
NothingCountedTwice ==
    snap # NoSnap => snap.bars \notin snap.prior /\ snap.day \notin snap.prior

\* "so a stale baseline never leaks into a new session" (_attach_oi_change): a change
\* of open interest is one since a level of the snapshot's own day.
ChangeIsTodays ==
    snap # NoSnap => \A c \in DOMAIN snap.change : snap.change[c] = snap.day

\* What a snapshot puts together is of one session.
OneSession == NothingCountedTwice /\ ChangeIsTodays

\* The field is left absent "for the first observation of each contract"
\* (_attach_oi_change): a contract this process has watched today has a change.
BuildIsMeasured ==
    snap # NoSnap => snap.known \subseteq DOMAIN snap.change

\* "The previous session's bars" (_cached_prior_bars).  The code does not keep this: a
\* process that slept through the night is served yesterday's bars as the session's
\* until the third bar, and cuts the prior bars at yesterday's first, for the whole day.
PriorIsLastSession ==
    snap # NoSnap /\ snap.prior # {} => snap.day - 1 \in snap.prior
=============================================================================
