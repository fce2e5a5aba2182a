------------------------------ MODULE Shadows ------------------------------
(***************************************************************************)
(* What the bot would have earned: a trade that the exchange refused is    *)
(* kept as a shadow (core/execution/crypto_runner.py), opened by the entry *)
(* tick, managed by the position tick and read by the dashboard            *)
(* (api/routes_crypto.py), each on a thread of its own and without a lock. *)
(*                                                                         *)
(* Every signal here is one that the exchange refused; CryptoRunner models *)
(* those that it takes.  A move is in units of a stop.                     *)
(***************************************************************************)
EXTENDS Integers, SequencesExt

CONSTANTS
    Marks,          \* the marks, as whole moves from a base that is large against them
    StopLoss, Target, TrailPeak, Giveback, \* the dials of a decision
    PureSltp,       \* EXIT_REGIME = "pure_sltp"
    MaxShadows,     \* _MAX_SHADOW_TRADES
    MaxSignals      \* bound: signals refused

ASSUME ShadowsAssumption ==
    /\ Marks # {} /\ Marks \subseteq Int
    /\ {StopLoss, Target, TrailPeak, Giveback, MaxShadows, MaxSignals} \subseteq Nat \ {0}
    /\ PureSltp \in BOOLEAN

Ids == 1 .. MaxSignals
NoTrade == 0

VARIABLES
    mark,       \* the perpetual's
    trade,      \* [Ids -> the fields of a shadow]
    signals,    \* shadows made
    ring,       \* _SHADOW_TRADES
    managed,    \* _SHADOW_POSITIONS
    entering,   \* where _open_shadow_trade is
    toVisit,    \* what the loop of _manage_shadow_positions has left
    closing,    \* the shadow it is closing
    stopped,     \* _KILLED
    page        \* whether the last snapshot showed a bot that is killed

shadowVars == <<mark, trade, signals, ring, managed, entering, toVisit, closing, stopped, page>>

NoShadow == [side |-> 1, entry |-> 0, status |-> "none", peak |-> 0, booked |-> FALSE]
Unread == FALSE

ShadowsInit ==
    /\ mark \in Marks /\ trade = [id \in Ids |-> NoShadow] /\ signals = 0
    /\ ring = <<>> /\ managed = {} /\ entering = "idle" /\ toVisit = {} /\ closing = NoTrade
    /\ stopped = FALSE /\ page = Unread

---------------------------------------------------------------------------
(* tick_entry_decisions and _open_shadow_trade *)

StartTick ==
    /\ entering = "idle" /\ ~stopped /\ entering' = "tick"
    /\ UNCHANGED <<mark, trade, signals, ring, managed, toVisit, closing, stopped, page>>

EndTick ==
    /\ entering = "tick" /\ entering' = "idle"
    /\ UNCHANGED <<mark, trade, signals, ring, managed, toVisit, closing, stopped, page>>

Refused(side) ==
    /\ entering = "tick" /\ signals < MaxSignals
    /\ signals' = signals + 1 /\ entering' = "index"
    /\ trade' = [trade EXCEPT ![signals + 1] =
                    [side |-> side, entry |-> mark, status |-> "open", peak |-> 0, booked |-> FALSE]]
    /\ ring' = Append(ring, signals + 1)
    /\ UNCHANGED <<mark, managed, toVisit, closing, stopped, page>>

Index ==
    /\ entering = "index" /\ entering' = "cut"
    /\ managed' = managed \cup {signals}
    /\ UNCHANGED <<mark, trade, signals, ring, toVisit, closing, stopped, page>>

Cut ==
    /\ entering = "cut" /\ entering' = "drop"
    /\ ring' = IF Len(ring) > MaxShadows THEN Tail(ring) ELSE ring
    /\ UNCHANGED <<mark, trade, signals, managed, toVisit, closing, stopped, page>>

\* Fault: what fell out of the ring stays among the open ones.
KeepFallen ==
    /\ entering = "drop" /\ entering' = "tick"
    /\ UNCHANGED <<mark, trade, signals, ring, managed, toVisit, closing, stopped, page>>

DropFallen ==
    /\ entering = "drop" /\ entering' = "tick"
    /\ managed' = managed \cap ToSet(ring)
    /\ UNCHANGED <<mark, trade, signals, ring, toVisit, closing, stopped, page>>

---------------------------------------------------------------------------
(* _manage_shadow_positions, in the position tick *)

StartVisits ==
    /\ toVisit = {} /\ closing = NoTrade /\ managed # {}
    /\ toVisit' = managed
    /\ UNCHANGED <<mark, trade, signals, ring, managed, entering, closing, stopped, page>>

Move(t) == t.side * (mark - t.entry)
Peak(t) == IF Move(t) > t.peak THEN Move(t) ELSE t.peak

Ends(t) ==
    \/ Move(t) <= -StopLoss
    \/ PureSltp /\ Move(t) >= Target
    \/ ~PureSltp /\ Peak(t) >= TrailPeak /\ Peak(t) - Move(t) > Giveback

\* No mark: the shadow is left for the next tick.
NoMark(id) ==
    /\ id \in toVisit /\ closing = NoTrade /\ toVisit' = toVisit \ {id}
    /\ UNCHANGED <<mark, trade, signals, ring, managed, entering, closing, stopped, page>>

Stays(id) ==
    /\ id \in toVisit /\ closing = NoTrade /\ ~Ends(trade[id])
    /\ toVisit' = toVisit \ {id}
    /\ trade' = [trade EXCEPT ![id].peak = Peak(trade[id])]
    /\ UNCHANGED <<mark, signals, ring, managed, entering, closing, stopped, page>>

\* status is set first; max_hold may end any shadow.
ClosesShadow(id) ==
    /\ id \in toVisit /\ closing = NoTrade
    /\ toVisit' = toVisit \ {id} /\ closing' = id
    /\ trade' = [trade EXCEPT ![id].status = "closed", ![id].peak = Peak(trade[id])]
    /\ UNCHANGED <<mark, signals, ring, managed, entering, stopped, page>>

\* pnl_pct, of the move that ended it.
Booked ==
    /\ closing # NoTrade /\ closing' = NoTrade
    /\ trade' = [trade EXCEPT ![closing].booked = TRUE]
    /\ managed' = managed \ {closing}
    /\ UNCHANGED <<mark, signals, ring, entering, toVisit, stopped, page>>

MarkMoves ==
    /\ mark' \in Marks \ {mark}
    /\ UNCHANGED <<trade, signals, ring, managed, entering, toVisit, closing, stopped, page>>

---------------------------------------------------------------------------
(* manual_kill, and the dashboard's snapshot *)

ManualKill ==
    /\ ~stopped /\ stopped' = TRUE
    /\ UNCHANGED <<mark, trade, signals, ring, managed, entering, toVisit, closing, page>>

\* _shadow_summary; it raises where a closed shadow has no pnl_pct yet.
Raises == \E id \in ToSet(ring) : trade[id].status = "closed" /\ ~trade[id].booked

\* _portfolio_snapshot: whatever get_state raises gives the defaults.
Portfolio == IF Raises THEN Unread ELSE stopped

ShowSnapshot ==
    /\ page' = Portfolio
    /\ UNCHANGED <<mark, trade, signals, ring, managed, entering, toVisit, closing, stopped>>

ShadowsNext ==
    \/ StartTick
    \/ EndTick
    \/ \E side \in {-1, 1} : Refused(side)
    \/ Index
    \/ Cut
    \/ DropFallen
    \/ StartVisits
    \/ \E id \in Ids : NoMark(id) \/ Stays(id) \/ ClosesShadow(id)
    \/ Booked
    \/ MarkMoves
    \/ ManualKill
    \/ ShowSnapshot

ShadowsSpec == ShadowsInit /\ [][ShadowsNext]_shadowVars

---------------------------------------------------------------------------
(* Properties *)

\* The dashboard's shadows and the ones the position tick manages stay the same ones, however
\* the entry tick, the position tick and the ring's bound interleave: between two signals,
\* every open shadow of the ring is managed, and nothing is managed that the ring has dropped
\* or that is closed, but for the one being closed right now.
ShadowsManaged ==
    entering \in {"idle", "tick"} =>
        /\ managed \subseteq ToSet(ring)
        /\ \A id \in ToSet(ring) :
            /\ trade[id].status = "open" => id \in managed
            /\ trade[id].status = "closed" => id \notin managed \/ id = closing

\* After a kill the page says so.  Not so: a snapshot taken between a shadow's status and its
\* pnl_pct raises, and the page shows the defaults, a bot that is not killed.
KillIsShown == [][stopped /\ page' # page => page']_shadowVars
=============================================================================
