----------------------------- MODULE Heartbeats -----------------------------
(***************************************************************************)
(* The dead man's switch, in seconds: the thread that beats                *)
(* (_start_heartbeat of nse/execution/live_session.py, through             *)
(* sentinel_client.py) and the loop that watches for silence               *)
(* (sentinel/main.py).  Sentinel has the latch and the flatten; here is    *)
(* when it is pulled.                                                      *)
(*                                                                         *)
(* Both loops run on time: a wait ends in the second it is over.           *)
(***************************************************************************)
EXTENDS Integers

CONSTANTS
    Interval,   \* HEARTBEAT_INTERVAL_SEC
    Timeout,    \* REQUEST_TIMEOUT_SEC
    Deadman,    \* DEADMAN_TIMEOUT_SEC
    CheckEvery, \* DEADMAN_CHECK_INTERVAL_SEC
    Latency     \* what a beat takes that is not late

ASSUME HeartbeatsAssumption ==
    /\ {Interval, Timeout, Deadman, CheckEvery} \subseteq Nat \ {0}
    /\ Latency \in Nat /\ Latency <= Timeout

VARIABLES
    beat,        \* the thread: "sleep", "sent", "arrived" and accepted, "gone" with its process
    waited,      \* seconds since it woke, or since it sent
    stray,       \* one that was given up on may still arrive
    late,        \* beats in a row that were late, lost or refused, up to Many
    silence,     \* since last_heartbeat, up to Deadman + 1; Unheard: zero
    latched,     \* deadman_fired
    holding,     \* STATE.positions is not empty
    marketHours, \* _market_open()
    watch,       \* the watching loop: "sleep", or "flatten"
    sinceCheck,  \* seconds it has slept
    overdue      \* seconds since when it should have fired

beatVars == <<beat, waited, stray, late>>
switchVars == <<silence, latched, holding, marketHours, watch, sinceCheck, overdue>>
heartbeatVars == <<beatVars, switchVars>>

Many == 2
Unheard == Deadman + 2
Awaiting == {"sent", "arrived"}

HeartbeatInit ==
    /\ beat = "gone" /\ waited = 0 /\ stray = FALSE /\ late = Many
    /\ silence = Unheard /\ latched = FALSE /\ holding = FALSE /\ marketHours \in BOOLEAN
    /\ watch = "sleep" /\ sinceCheck = 0 /\ overdue = 0

LateBy(n) == IF late + n > Many THEN Many ELSE late + n

---------------------------------------------------------------------------
(* beat *)

\* Fault: a beat as seldom as the window allows.
BeatOnDecision == Deadman

BeatEvery == Interval

SendBeat ==
    /\ beat = "sleep" /\ waited = BeatEvery
    /\ beat' = "sent" /\ waited' = 0
    /\ UNCHANGED <<stray, late, switchVars>>

\* POST /heartbeat, verified; the latch does not stop it.
BeatArrives ==
    /\ beat = "sent"
    /\ beat' = "arrived" /\ silence' = 0 /\ overdue' = 0
    /\ UNCHANGED <<waited, stray, late, latched, holding, marketHours, watch, sinceCheck>>

BeatAnswered ==
    /\ beat = "arrived"
    /\ beat' = "sleep" /\ waited' = 0
    /\ late' = IF waited <= Latency THEN 0 ELSE LateBy(1)
    /\ UNCHANGED <<stray, switchVars>>

\* No connection, no proper answer, a refused envelope; or none within the timeout.
BeatFails ==
    /\ beat \in Awaiting
    /\ beat' = "sleep" /\ waited' = 0
    /\ stray' = (stray \/ (beat = "sent" /\ waited = Timeout))
    /\ late' = LateBy(1)
    /\ UNCHANGED switchVars

StrayArrives ==
    /\ stray /\ stray' = FALSE /\ silence' = 0 /\ overdue' = 0
    /\ UNCHANGED <<beat, waited, late, latched, holding, marketHours, watch, sinceCheck>>

\* A process that is gone misses its beats.
BrainDies ==
    /\ beat # "gone"
    /\ beat' = "gone" /\ waited' = 0 /\ late' = Many
    /\ UNCHANGED <<stray, switchVars>>

BrainStarts ==
    /\ beat = "gone"
    /\ beat' = "sent" /\ waited' = 0
    /\ UNCHANGED <<stray, late, switchVars>>

---------------------------------------------------------------------------
(* _deadman_loop *)

Exposed == holding /\ marketHours /\ silence \notin {Unheard} \cup 0 .. Deadman

Fires ==
    /\ watch = "sleep" /\ sinceCheck = CheckEvery
    /\ ~latched /\ Exposed
    /\ latched' = TRUE /\ watch' = "flatten" /\ sinceCheck' = 0 /\ overdue' = 0
    /\ UNCHANGED <<beatVars, silence, holding, marketHours>>

NotNow ==
    /\ watch = "sleep" /\ sinceCheck = CheckEvery
    /\ latched \/ ~Exposed
    /\ sinceCheck' = 0
    /\ UNCHANGED <<beatVars, silence, latched, holding, marketHours, watch, overdue>>

\* The loop waits for the flatten; what it could not exit stays.
FlattenEnds ==
    /\ watch = "flatten" /\ watch' = "sleep" /\ sinceCheck' = 0
    /\ holding' \in {holding, FALSE}
    /\ UNCHANGED <<beatVars, silence, latched, marketHours, overdue>>

BookChanges ==
    /\ holding' = ~holding /\ overdue' = 0
    /\ UNCHANGED <<beatVars, silence, latched, marketHours, watch, sinceCheck>>

Bell ==
    /\ marketHours' = ~marketHours /\ overdue' = 0
    /\ UNCHANGED <<beatVars, silence, latched, holding, watch, sinceCheck>>

ClearLatch ==
    /\ latched /\ latched' = FALSE
    /\ UNCHANGED <<beatVars, silence, holding, marketHours, watch, sinceCheck, overdue>>

SentinelDies ==
    /\ silence' = Unheard /\ latched' = FALSE /\ holding' = FALSE
    /\ watch' = "sleep" /\ sinceCheck' = 0 /\ overdue' = 0
    /\ UNCHANGED <<beatVars, marketHours>>

---------------------------------------------------------------------------
(* Time *)

Second ==
    /\ beat = "sleep" => waited < BeatEvery
    /\ beat \in Awaiting => waited < Timeout
    /\ watch = "sleep" => sinceCheck < CheckEvery
    /\ waited' = IF beat = "gone" THEN 0 ELSE waited + 1
    /\ sinceCheck' = IF watch = "sleep" THEN sinceCheck + 1 ELSE 0
    /\ silence' = IF silence > Deadman THEN silence ELSE silence + 1
    /\ overdue' = IF watch = "sleep" /\ ~latched /\ Exposed THEN overdue + 1 ELSE 0
    /\ UNCHANGED <<beat, stray, late, latched, holding, marketHours, watch>>

HeartbeatNext ==
    \/ SendBeat
    \/ BeatArrives
    \/ BeatAnswered
    \/ BeatFails
    \/ StrayArrives
    \/ BrainDies
    \/ BrainStarts
    \/ Fires
    \/ NotNow
    \/ FlattenEnds
    \/ BookChanges
    \/ Bell
    \/ ClearLatch
    \/ SentinelDies
    \/ Second

HeartbeatSpec == HeartbeatInit /\ [][HeartbeatNext]_heartbeatVars

---------------------------------------------------------------------------
(* Properties *)

\* The beats that are missing now: those in a row, and the one that is late already.
Missing == LateBy(IF beat \in Awaiting /\ waited > Latency THEN 1 ELSE 0)

\* One beat that is lost, refused, or as late as it can be never pulls the switch, if the
\* others are answered within Latency seconds and two intervals, a timeout and two of those
\* fit into the window ("long enough to ride out a blip").
OneMissIsSpared ==
    2 * Interval + Timeout + 2 * Latency <= Deadman =>
        (silence = Deadman + 1 => Missing = Many)

\* The switch is pulled at the next look: it is never due for longer than the loop sleeps.
DarkIsNoticed == overdue <= CheckEvery

\* The switch spares a brain that missed one beat, and is pulled in time on one that is gone.
SwitchIsTrue == OneMissIsSpared /\ DarkIsNoticed
=============================================================================
