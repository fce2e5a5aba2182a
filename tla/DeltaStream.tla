---------------------------- MODULE DeltaStream ----------------------------
(***************************************************************************)
(* The mark of the perpetual: the thread that keeps Delta's socket open    *)
(* (core/ws/delta_stream.py) and the reader that falls back to REST, and   *)
(* to what REST answered last (DeltaCryptoBroker.get_perp_mark).           *)
(*                                                                         *)
(* Waiting for n seconds is a count of n ticks; the socket's own pings and *)
(* the frames other than a mark are left out.                              *)
(***************************************************************************)
EXTENDS Integers

CONSTANTS
    DelayMax,     \* RECONNECT_BACKOFF_MAX
    StaleSeconds, \* STALE_SECONDS, in ticks
    CacheTtl,     \* _PERP_CACHE_TTL, in ticks
    MaxOutages    \* bound: sockets lost or refused, messages unsent, calls failed, stops

ASSUME DeltaStreamAssumption ==
    {DelayMax, StaleSeconds, CacheTtl, MaxOutages} \subseteq Nat \ {0}

VARIABLES
    runner,     \* where the thread of _run_loop is
    stopping,   \* _stop_event
    delay, left,        \* the backoff; what is left of the wait
    up,         \* _connected
    asked,      \* this socket's subscription was sent
    markAge,    \* age of the mark in _marks; StaleSeconds + 1: older, or none
    cacheAge,   \* the same of _perp_cache
    read,       \* the age of the mark the last reader got; Missing: none
    outages     \* bounded by MaxOutages

threadVars == <<runner, stopping, delay, left, up, asked>>
deltaVars == <<threadVars, markAge, cacheAge, read, outages>>

Missing == 99

DeltaInit ==
    /\ runner = "none" /\ stopping = FALSE /\ delay = 1 /\ left = 0
    /\ up = FALSE /\ asked = FALSE
    /\ markAge = StaleSeconds + 1 /\ cacheAge = CacheTtl + 1 /\ read = 0
    /\ outages = 0

Outage == outages < MaxOutages /\ outages' = outages + 1

Doubled == IF 2 * delay > DelayMax THEN DelayMax ELSE 2 * delay

---------------------------------------------------------------------------
(* start, stop, and the thread *)

\* A thread that is alive is left alone, even one that is about to stop.
Start ==
    /\ runner \in {"none", "ended"}
    /\ runner' = "connecting" /\ stopping' = FALSE /\ delay' = 1
    /\ UNCHANGED <<left, up, asked, markAge, cacheAge, read, outages>>

Stop ==
    /\ runner \notin {"none", "ended"} /\ ~stopping /\ Outage
    /\ stopping' = TRUE
    /\ UNCHANGED <<runner, delay, left, up, asked, markAge, cacheAge, read>>

\* on_open: the flag, then the subscription; if that is not sent it is only logged.
Opens ==
    /\ runner = "connecting" /\ runner' = "open" /\ up' = TRUE
    /\ \/ asked' = TRUE /\ UNCHANGED outages
       \/ asked' = FALSE /\ Outage
    /\ UNCHANGED <<stopping, delay, left, markAge, cacheAge, read>>

\* run_forever returned, or raised: the loop waits, and doubles what it waits next.
Lost ==
    /\ runner \in {"connecting", "open"}
    /\ stopping \/ Outage
    /\ stopping => UNCHANGED outages
    /\ up' = FALSE /\ asked' = FALSE
    /\ IF stopping
       THEN runner' = "ended" /\ UNCHANGED <<delay, left>>
       ELSE runner' = "waiting" /\ left' = delay /\ delay' = Doubled
    /\ UNCHANGED <<stopping, markAge, cacheAge, read>>

\* _stop_event.wait returns early when it is set.
Wakes ==
    /\ runner = "waiting" /\ (left = 0 \/ stopping)
    /\ runner' = IF stopping THEN "ended" ELSE "connecting"
    /\ left' = 0
    /\ UNCHANGED <<stopping, delay, up, asked, markAge, cacheAge, read, outages>>

\* on_message
Mark ==
    /\ runner = "open" /\ asked /\ markAge # 0 /\ markAge' = 0
    /\ UNCHANGED <<threadVars, cacheAge, read, outages>>

Older(age, most) == IF age > most THEN age ELSE age + 1

Tick ==
    /\ left > 0 \/ markAge <= StaleSeconds \/ cacheAge <= CacheTtl
    /\ left' = IF left = 0 THEN 0 ELSE left - 1
    /\ markAge' = Older(markAge, StaleSeconds) /\ cacheAge' = Older(cacheAge, CacheTtl)
    /\ UNCHANGED <<runner, stopping, delay, up, asked, read, outages>>

---------------------------------------------------------------------------
(* get_perp_mark *)

ReadStream ==
    /\ markAge <= StaleSeconds /\ read' = markAge
    /\ UNCHANGED <<threadVars, markAge, cacheAge, outages>>

ReadCache ==
    /\ markAge > StaleSeconds /\ cacheAge < CacheTtl /\ read' = cacheAge
    /\ UNCHANGED <<threadVars, markAge, cacheAge, outages>>

ReadRest ==
    /\ markAge > StaleSeconds /\ cacheAge >= CacheTtl
    /\ \/ read' = 0 /\ cacheAge' = 0 /\ UNCHANGED outages
       \/ read' = Missing /\ Outage /\ UNCHANGED cacheAge
    /\ UNCHANGED <<threadVars, markAge>>

LoopGoes == Opens \/ Wakes

DeltaNext ==
    \/ Start
    \/ Stop
    \/ Opens
    \/ Lost
    \/ Wakes
    \/ Mark
    \/ Tick
    \/ ReadStream
    \/ ReadCache
    \/ ReadRest

---------------------------------------------------------------------------
(* Properties *)

\* A stream that nobody stopped comes back, after every lost socket, every refused connection
\* and every wait ("Auto-reconnects on drop with exponential backoff").
StreamReopens == (runner = "waiting") ~> (runner = "open" \/ stopping)

\* What was open starts the next wait from one second ("successful connection - reset backoff
\* on next iteration").  Not so: _connected is cleared before it is looked at, and only looked
\* at when the loop was left, so that the delay only grows.
BackoffForgets == [][runner = "open" /\ runner' = "waiting" => left' = 1]_deltaVars

\* An open stream gives marks.  Not so: on_open returns when its subscription is not sent, and
\* nothing asks again while the socket stays open; readers live on REST.
OpenStreamFlows == (runner = "open") ~> (asked \/ runner # "open")
=============================================================================
