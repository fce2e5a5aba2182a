--------------------------- MODULE BrainSentinel ---------------------------
(***************************************************************************)
(* The brain tier's session loop (nse/execution/live_session.py), its      *)
(* runners (options_runner.py), one per symbol, and the call to the        *)
(* sentinel (sentinel_client.py) that each entry and exit goes through.    *)
(*                                                                         *)
(* The loop is sequential: at most one call is outstanding.  The call can  *)
(* time out, and then the request may have been lost, may have been acted  *)
(* on with its answer lost, or may still be on its way (stray).  Of the    *)
(* sentinel only the outcome of a request matters here: its position book, *)
(* the answer, and whether its latch refuses (module Sentinel has the      *)
(* rest).  A decision stands for its intent and for the position id the    *)
(* sentinel files it under.                                                *)
(*                                                                         *)
(* Left out: journals, statistics and the outcome written for attribution. *)
(* The conditions that only ever refuse an entry and depend on market data *)
(* (the council, a stale snapshot, 09:30, an unquoted strike, the premium  *)
(* floor, the size) are the choice in Decline.                             *)
(***************************************************************************)
EXTENDS Integers, FiniteSets

CONSTANTS
    Symbols,     \* the symbols traded; a runner is named by its symbol
    Decisions,   \* decisions the council may execute
    None,
    Cap,         \* MAX_CONCURRENT_POSITIONS
    Ticks,       \* which ticks to consider: "on_snapshot", "live_session"
    Armings,     \* which settings of SENTINEL_LIVE_ORDERS to consider
    MaxFaults    \* bound: timeouts, restarts and dead-man firings in one behaviour

ASSUME BrainAssumption ==
    /\ None \notin Symbols \cup Decisions
    /\ Cap \in Nat /\ MaxFaults \in Nat
    /\ Ticks \subseteq {"on_snapshot", "live_session"} /\ Ticks # {}
    /\ Armings \subseteq BOOLEAN /\ Armings # {}

VARIABLES
    tick,          \* OptionsRunner.on_snapshot, or the body of live_session.run
    armed,         \* the sentinel's LIVE_ORDERS
    phase,         \* "open", "closing" (the last 10 minutes), "shut"
    begun,         \* runners whose session is today's
    book,          \* book[r][s]: runner r's open_positions, by symbol
    unknown,       \* runners whose own entry has position_id "INDETERMINATE"
    unreconciled,  \* runners whose reconcile failed
    frozen,        \* runners whose symbol has not moved since their last decision
    left,          \* symbols this cycle of the loop has still to visit
    turn,          \* the runner being run, or None
    pc,            \* "idle", "exits" (manage_exits) or "entry"
    todo,          \* the exits manage_exits has still to send
    call,          \* the outstanding request, or None
    reply,         \* "waiting", "ok" or "no"
    stray,         \* requests given up on that are still on their way
    held,          \* the sentinel's positions
    fired,         \* the sentinel's latch
    owner,         \* owner[d]: the symbol decision d was submitted for, or None
    aged,          \* positions past HOLD_MINUTES
    overtaken,     \* history: opens that landed after their runner had lost track of them
    faults         \* faults still to come

modeVars == <<tick, armed>>
runnerVars == <<begun, book, unknown, unreconciled, frozen>>
loopVars == <<left, turn, pc, todo>>
callVars == <<call, reply, stray>>
sentinelVars == <<held, fired>>
vars == <<modeVars, phase, runnerVars, loopVars, callVars, sentinelVars, owner, aged,
          overtaken, faults>>

Empty == [s \in Symbols |-> None]
Held(s) == {d \in held : owner[d] = s}
Requests == [type : {"OPEN", "CLOSE"}, sym : Symbols, id : Decisions \cup {None}]

Init ==
    /\ tick \in Ticks /\ armed \in Armings
    /\ phase \in {"open", "closing", "shut"}
    /\ begun = {} /\ unknown = {} /\ unreconciled = {} /\ frozen = {}
    /\ book = [r \in Symbols |-> Empty]
    /\ left = {} /\ turn = None /\ pc = "idle" /\ todo = {}
    /\ call = None /\ reply = "waiting" /\ stray = {}
    /\ held = {} /\ fired = FALSE
    /\ owner = [d \in Decisions |-> None]
    /\ aged = {} /\ overtaken = {}
    /\ faults \in 0 .. MaxFaults

---------------------------------------------------------------------------
(* The session loop *)

\* A cycle starts while any symbol's market is open.
StartCycle ==
    /\ pc = "idle" /\ left = {}
    /\ phase # "shut"
    /\ left' = Symbols
    /\ UNCHANGED <<modeVars, phase, runnerVars, turn, pc, todo, callVars, sentinelVars,
                   owner, aged, overtaken, faults>>

\* The book reconcile builds: it is keyed by symbol, so of several positions in
\* one symbol it keeps one.
Adopts(b) ==
    \A s \in Symbols : IF Held(s) = {} THEN b[s] = None ELSE b[s] \in Held(s)

\* Fault: a new session starts from an empty book.
BeginBlank(r) ==
    /\ pc = "idle" /\ left # {} /\ r \notin begun
    /\ begun' = begun \cup {r}
    /\ book' = [book EXCEPT ![r] = Empty]
    /\ unknown' = unknown \ {r}
    /\ frozen' = frozen \ {r}
    /\ UNCHANGED <<modeVars, phase, unreconciled, loopVars, callVars, sentinelVars, owner,
                   aged, overtaken, faults>>

\* begin_session: a new RunnerState, then reconcile.
Begin(r) ==
    /\ pc = "idle" /\ left # {} /\ r \notin begun
    /\ begun' = begun \cup {r}
    /\ unknown' = unknown \ {r}
    /\ frozen' = frozen \ {r}
    /\ \/ /\ \E b \in [Symbols -> held \cup {None}] :
                Adopts(b) /\ book' = [book EXCEPT ![r] = b]
          /\ unreconciled' = unreconciled \ {r}
          /\ UNCHANGED faults
       \/ /\ faults > 0
          /\ faults' = faults - 1
          /\ book' = [book EXCEPT ![r] = Empty]
          /\ unreconciled' = unreconciled \cup {r}
    /\ UNCHANGED <<modeVars, phase, loopVars, callVars, sentinelVars, owner, aged, overtaken>>

\* What manage_exits closes: everything near the close, else what is past its horizon.
Due(r) == {s \in Symbols : book[r][s] # None /\ (phase = "closing" \/ book[r][s] \in aged)}

\* One symbol of the cycle.  Only on_snapshot runs manage_exits.
StartTick(r) ==
    /\ pc = "idle" /\ begun = Symbols
    /\ r \in left
    /\ left' = left \ {r}
    /\ turn' = r
    /\ pc' = "exits"
    /\ todo' = IF tick = "on_snapshot" THEN Due(r) ELSE {}
    /\ UNCHANGED <<modeVars, phase, runnerVars, callVars, sentinelVars, owner, aged,
                   overtaken, faults>>

\* manage_exits: close_position(pos["position_id"]).
SendClose(s) ==
    /\ pc = "exits" /\ call = None
    /\ s \in todo
    /\ LET id == IF s = turn /\ turn \in unknown THEN None ELSE book[turn][s]
       IN call' = [type |-> "CLOSE", sym |-> s, id |-> id]
    /\ UNCHANGED <<modeVars, phase, runnerVars, loopVars, reply, stray, sentinelVars,
                   owner, aged, overtaken, faults>>

ExitsDone ==
    /\ pc = "exits" /\ call = None /\ todo = {}
    /\ pc' = "entry"
    /\ UNCHANGED <<modeVars, phase, runnerVars, left, turn, todo, callVars, sentinelVars,
                   owner, aged, overtaken, faults>>

\* Fault: an unanswered intent does not occupy its symbol.
BlockedUnlessIndeterminate(r) ==
    \/ r \in frozen \/ r \in unreconciled
    \/ book[r][r] # None /\ r \notin unknown
    \/ Cardinality({s \in Symbols : book[r][s] # None}) >= Cap

\* _blocked, as far as it depends on the runner's own state.
Blocked(r) ==
    \/ r \in frozen
    \/ r \in unreconciled
    \/ book[r][r] # None
    \/ Cardinality({s \in Symbols : book[r][s] # None}) >= Cap

\* The council does not execute, or one of the refusals that depend on data:
\* those inside _submit have already noted the spot they decided on.
Decline ==
    /\ pc = "entry" /\ call = None
    /\ \/ UNCHANGED frozen
       \/ ~Blocked(turn) /\ frozen' = frozen \cup {turn}
    /\ turn' = None /\ pc' = "idle"
    /\ UNCHANGED <<modeVars, phase, begun, book, unknown, unreconciled, left, todo, callVars,
                   sentinelVars, owner, aged, overtaken, faults>>

\* _submit: one intent.
Submit(d) ==
    /\ pc = "entry" /\ call = None
    /\ ~Blocked(turn)
    /\ owner[d] = None
    /\ owner' = [owner EXCEPT ![d] = turn]
    /\ frozen' = frozen \cup {turn}
    /\ call' = [type |-> "OPEN", sym |-> turn, id |-> d]
    /\ UNCHANGED <<modeVars, phase, begun, book, unknown, unreconciled, loopVars, reply,
                   stray, sentinelVars, aged, overtaken, faults>>

---------------------------------------------------------------------------
(* The sentinel *)

\* What it may do with request m: its book afterwards and its answer.  Armed,
\* the broker may refuse an entry, a CLOSE sweeps the whole book, and any of
\* the exits of that sweep may fail.
Outcomes(m) ==
    IF fired THEN {<<held, "no">>}
    ELSE IF m.type = "OPEN"
    THEN {<<held \cup {m.id}, "ok">>} \cup (IF armed THEN {<<held, "no">>} ELSE {})
    ELSE IF ~armed THEN {<<held \ {m.id}, "ok">>}
    ELSE IF m.id \notin held THEN {<<held, "no">>}
    ELSE {<<kept, IF m.id \in kept THEN "no" ELSE "ok">> : kept \in SUBSET held}

Land ==
    /\ call # None /\ reply = "waiting"
    /\ \E o \in Outcomes(call) : held' = o[1] /\ reply' = o[2]
    /\ UNCHANGED <<modeVars, phase, runnerVars, loopVars, call, stray, fired, owner, aged,
                   overtaken, faults>>

\* A request the brain gave up on arrives after all.
LandStray(m) ==
    /\ m \in stray
    /\ stray' = stray \ {m}
    /\ \E o \in Outcomes(m) :
        /\ held' = o[1]
        /\ overtaken' = IF /\ m.type = "OPEN" /\ m.id \in o[1]
                           /\ book[m.sym][m.sym] # m.id
                        THEN overtaken \cup {m.id} ELSE overtaken
    /\ UNCHANGED <<modeVars, phase, runnerVars, loopVars, call, reply, fired, owner, aged,
                   faults>>

\* It never arrives, or arrives older than 30s and is refused as stale.
DropStray(m) ==
    /\ m \in stray
    /\ stray' = stray \ {m}
    /\ UNCHANGED <<modeVars, phase, runnerVars, loopVars, call, reply, sentinelVars, owner,
                   aged, overtaken, faults>>

---------------------------------------------------------------------------
(* The answer *)

\* After an OPEN the tick is over; after a CLOSE the next exit follows.
Resume ==
    /\ call' = None /\ reply' = "waiting"
    /\ IF call.type = "OPEN"
       THEN turn' = None /\ pc' = "idle" /\ UNCHANGED todo
       ELSE todo' = todo \ {call.sym} /\ UNCHANGED <<turn, pc>>

\* resp.ok for an OPEN.  The answer has a position_id only when the sentinel
\* is not armed: _place returns none, and then the book stays as it is.
Opened ==
    /\ call # None /\ call.type = "OPEN" /\ reply = "ok"
    /\ book' = IF armed THEN book ELSE [book EXCEPT ![turn][turn] = call.id]
    /\ Resume
    /\ UNCHANGED <<modeVars, phase, begun, unknown, unreconciled, frozen, left, stray,
                   sentinelVars, owner, aged, overtaken, faults>>

\* resp.ok for a CLOSE: the entry is popped.
Closed ==
    /\ call # None /\ call.type = "CLOSE" /\ reply = "ok"
    /\ book' = [book EXCEPT ![turn][call.sym] = None]
    /\ unknown' = unknown \ ({turn} \cap {call.sym})
    /\ Resume
    /\ UNCHANGED <<modeVars, phase, begun, unreconciled, frozen, left, stray, sentinelVars,
                   owner, aged, overtaken, faults>>

\* A definite refusal changes nothing but the error count.
Refused ==
    /\ call # None /\ reply = "no"
    /\ Resume
    /\ UNCHANGED <<modeVars, phase, runnerVars, left, stray, sentinelVars, owner, aged,
                   overtaken, faults>>

\* Fault: an unanswered close is taken for done.
GiveUpAndForget ==
    /\ call # None
    /\ faults > 0
    /\ faults' = faults - 1
    /\ stray' = IF reply = "waiting" THEN stray \cup {call} ELSE stray
    /\ IF call.type = "OPEN"
       THEN /\ book' = [book EXCEPT ![turn][turn] = call.id]
            /\ unknown' = unknown \cup {turn}
       ELSE /\ book' = [book EXCEPT ![turn][call.sym] = None]
            /\ UNCHANGED unknown
    /\ Resume
    /\ UNCHANGED <<modeVars, phase, begun, unreconciled, frozen, left, sentinelVars, owner,
                   aged, overtaken>>

\* resp.indeterminate: no answer within 8s.  An unanswered OPEN occupies its
\* symbol; an unanswered CLOSE keeps its entry.
GiveUp ==
    /\ call # None
    /\ faults > 0
    /\ faults' = faults - 1
    /\ stray' = IF reply = "waiting" THEN stray \cup {call} ELSE stray
    /\ IF call.type = "OPEN"
       THEN /\ book' = [book EXCEPT ![turn][turn] = call.id]
            /\ unknown' = unknown \cup {turn}
       ELSE UNCHANGED <<book, unknown>>
    /\ Resume
    /\ UNCHANGED <<modeVars, phase, begun, unreconciled, frozen, left, sentinelVars, owner,
                   aged, overtaken>>

---------------------------------------------------------------------------
(* Time, the market, and processes that die *)

SpotMoves(s) ==
    /\ s \in frozen
    /\ frozen' = frozen \ {s}
    /\ UNCHANGED <<modeVars, phase, begun, book, unknown, unreconciled, loopVars, callVars,
                   sentinelVars, owner, aged, overtaken, faults>>

\* Everything a runner or the sentinel lists.
Listed == (held \cup {book[r][s] : r \in Symbols, s \in Symbols}) \ {None}

HourPasses ==
    /\ aged' = aged \cup Listed
    /\ UNCHANGED <<modeVars, phase, runnerVars, loopVars, callVars, sentinelVars, owner,
                   overtaken, faults>>

CloseNears ==
    /\ phase = "open"
    /\ phase' = "closing"
    /\ UNCHANGED <<modeVars, runnerVars, loopVars, callVars, sentinelVars, owner, aged,
                   overtaken, faults>>

Bell ==
    /\ phase = "closing"
    /\ phase' = "shut"
    /\ UNCHANGED <<modeVars, runnerVars, loopVars, callVars, sentinelVars, owner, aged,
                   overtaken, faults>>

\* The night is longer than a cycle, a request's age bound and the horizon.
NextMorning ==
    /\ phase = "shut" /\ pc = "idle" /\ left = {}
    /\ phase' = "open"
    /\ begun' = {}
    /\ stray' = {}
    /\ aged' = aged \cup Listed
    /\ UNCHANGED <<modeVars, book, unknown, unreconciled, frozen, loopVars, call, reply,
                   sentinelVars, owner, overtaken, faults>>

\* The council's container is restarted: everything in memory is gone.
BrainRestart ==
    /\ faults > 0
    /\ faults' = faults - 1
    /\ begun' = {} /\ unknown' = {} /\ unreconciled' = {} /\ frozen' = {}
    /\ book' = [r \in Symbols |-> Empty]
    /\ left' = {} /\ turn' = None /\ pc' = "idle" /\ todo' = {}
    /\ call' = None /\ reply' = "waiting"
    /\ stray' = IF call # None /\ reply = "waiting" THEN stray \cup {call} ELSE stray
    /\ UNCHANGED <<modeVars, phase, sentinelVars, owner, aged, overtaken>>

SentinelRestart ==
    /\ faults > 0
    /\ faults' = faults - 1
    /\ held' = {} /\ fired' = FALSE
    /\ UNCHANGED <<modeVars, phase, runnerVars, loopVars, callVars, owner, aged, overtaken>>

\* The heartbeat is lost for 30s.
DeadmanFires ==
    /\ phase # "shut" /\ held # {} /\ ~fired
    /\ faults > 0
    /\ faults' = faults - 1
    /\ fired' = TRUE
    /\ IF armed THEN held' \in SUBSET held ELSE held' = {}
    /\ UNCHANGED <<modeVars, phase, runnerVars, loopVars, callVars, owner, aged, overtaken>>

ClearDeadman ==
    /\ fired
    /\ fired' = FALSE
    /\ UNCHANGED <<modeVars, phase, runnerVars, loopVars, callVars, held, owner, aged,
                   overtaken, faults>>

LoopStep ==
    \/ StartCycle
    \/ \E r \in Symbols : Begin(r) \/ StartTick(r)
    \/ \E s \in Symbols : SendClose(s)
    \/ ExitsDone \/ Decline
    \/ \E d \in Decisions : Submit(d)
    \/ Opened \/ Closed \/ Refused

Night == CloseNears \/ Bell \/ NextMorning

Next ==
    \/ LoopStep
    \/ Land \/ GiveUp
    \/ \E m \in stray : LandStray(m) \/ DropStray(m)
    \/ \E s \in Symbols : SpotMoves(s)
    \/ HourPasses
    \/ Night
    \/ BrainRestart \/ SentinelRestart \/ DeadmanFires \/ ClearDeadman

Spec == Init /\ [][Next]_vars

\* The loop keeps running and looks at the clock every minute, so it does not
\* sleep through market after open market; a request that is neither lost nor
\* given up on is served; and days pass.
FairSpec ==
    /\ Spec
    /\ WF_vars(LoopStep)
    /\ SF_vars(StartCycle)
    /\ WF_vars(Land)
    /\ WF_vars(CloseNears) /\ WF_vars(Bell) /\ WF_vars(NextMorning)

---------------------------------------------------------------------------
(* Properties *)

\* Every variable has its type.
TypeOK ==
    /\ tick \in Ticks /\ armed \in Armings
    /\ phase \in {"open", "closing", "shut"}
    /\ begun \subseteq Symbols /\ unknown \subseteq Symbols
    /\ unreconciled \subseteq Symbols /\ frozen \subseteq Symbols
    /\ book \in [Symbols -> [Symbols -> Decisions \cup {None}]]
    /\ left \subseteq Symbols /\ todo \subseteq Symbols
    /\ turn \in Symbols \cup {None} /\ (turn = None <=> pc = "idle")
    /\ pc \in {"idle", "exits", "entry"}
    /\ call \in Requests \cup {None} /\ reply \in {"waiting", "ok", "no"}
    /\ stray \subseteq Requests
    /\ held \subseteq Decisions /\ fired \in BOOLEAN
    /\ owner \in [Decisions -> Symbols \cup {None}]
    /\ aged \subseteq Decisions /\ overtaken \subseteq Decisions
    /\ faults \in 0 .. MaxFaults

\* A symbol is not entered twice: of two positions the sentinel holds in one
\* symbol, one is an open that landed after its runner had restarted and
\* reconciled without it.
HeldOnce ==
    \A d, e \in held : owner[d] = owner[e] /\ d # e => {d, e} \cap overtaken # {}

\* HeldOnce for a rehearsal of the loop that runs live.
RehearsalHoldsOnce == ~armed /\ tick = "live_session" => HeldOnce

\* What a step takes out of the book of a runner in its session, and the
\* runner knows the id of, the sentinel no longer holds.
DropsTheClosed ==
    \A r, s \in Symbols :
        /\ r \in begun /\ r \in begun'
        /\ book[r][s] # None /\ book'[r][s] = None
        /\ ~(s = r /\ r \in unknown)
        => book[r][s] \notin held'

\* Within a session a runner forgets a position it knows the id of only when the
\* sentinel no longer holds it, whatever was lost, delayed or restarted.
DroppedIsClosed == [][DropsTheClosed]_vars

\* "Position exits at the measured horizon": once nothing fails any more, a
\* position past it is closed, also one whose id the brain had lost and one it
\* had never been told of, as later sessions adopt what the sentinel holds.
HorizonExits ==
    \A d \in Decisions :
        (tick = "on_snapshot" /\ ~armed /\ faults = 0 /\ d \in held /\ d \in aged)
            ~> (d \notin held)

\* "Forgetting a position we may still hold is how a flat book turns out to be
\* short one leg": DroppedIsClosed, for unanswered opens too.
ForgetsNothing ==
    [][\A r, s \in Symbols :
        r \in begun /\ r \in begun' /\ book[r][s] # None /\ book'[r][s] = None
        => book[r][s] \notin held']_vars

\* HorizonExits for the loop that runs live, in a world where nothing fails.
EveryPositionExits ==
    \A d \in Decisions : (d \in held /\ d \in aged) ~> (d \notin held)

---------------------------------------------------------------------------
(* The inductive invariant of BrainSentinelProofs *)

Opening(s) == call # None /\ call.type = "OPEN" /\ call.sym = s
Rehearsal == ~armed /\ tick = "live_session"

\* Where the loop is says which call can be outstanding, and whose.
LoopInv ==
    /\ pc # "idle" => begun = Symbols
    /\ call # None => pc # "idle" /\ call.sym \in Symbols
    /\ call = None => reply = "waiting"
    /\ call # None /\ call.type = "OPEN" =>
          /\ call.sym = turn /\ call.id \in Decisions /\ owner[call.id] = turn
          /\ book[turn][turn] = None /\ turn \notin unreconciled

\* A request that was not acted on left no position, and no two requests on
\* their way are for one decision.
RequestInv ==
    /\ tick = "live_session" =>
          /\ todo = {} /\ (call # None => call.type = "OPEN")
          /\ \A m \in stray : m.type = "OPEN"
    /\ \A d \in held : owner[d] # None
    /\ \A m \in stray : m.type = "OPEN" =>
          /\ m.id \in Decisions /\ owner[m.id] = m.sym /\ m.id \notin held
          /\ call # None /\ call.type = "OPEN" => call.id # m.id
    /\ call # None /\ call.type = "OPEN" /\ reply # "ok" => call.id \notin held

\* Positions of s that landed in time.
Timely(s) == Held(s) \ overtaken

\* A runner whose book is current and empty has no position but the one it is
\* opening; one whose unanswered open is still on its way has none at all.
BookInv ==
    /\ \A s \in begun \ unreconciled :
          book[s][s] = None => \A d \in Timely(s) : Opening(s) /\ call.id = d
    /\ \A m \in stray : book[m.sym][m.sym] = m.id => Timely(m.sym) = {}

IInv == TypeOK /\ LoopInv /\ RequestInv /\ (Rehearsal => BookInv /\ HeldOnce)

\* What runner r lists for s is a position whose id it knows.
Known(r, s) == book[r][s] # None /\ ~(s = r /\ r \in unknown)

\* A position whose id a runner knows has landed: no request for it is on its
\* way any more that could put it back after it was closed.
KnownInv ==
    \A r, s \in Symbols :
        /\ book[r][s] # None => owner[book[r][s]] # None
        /\ Known(r, s) =>
              /\ \A m \in stray : m.type = "OPEN" => m.id # book[r][s]
              /\ call # None /\ call.type = "OPEN" => call.id # book[r][s]

\* A CLOSE is of what its runner lists, and one that was answered "ok" has left
\* nothing of it.
CloseInv ==
    call # None /\ call.type = "CLOSE" =>
        /\ pc = "exits"
        /\ Known(turn, call.sym) =>
              /\ call.id = book[turn][call.sym]
              /\ reply = "ok" => call.id \notin held
=============================================================================
