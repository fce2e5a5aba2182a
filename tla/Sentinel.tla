------------------------------ MODULE Sentinel ------------------------------
(***************************************************************************)
(* The execution sentinel (sentinel/main.py): the process that owns the    *)
(* order API, its in-memory position book, and the dead-man's switch that  *)
(* flattens the book when the brain stops sending heartbeats.              *)
(*                                                                         *)
(* Request handlers and the watch loop run on one asyncio loop, so each is *)
(* one action.  Orders are placed by functions handed to asyncio.to_thread *)
(* (_place, _flatten_all): those run beside the loop and beside each       *)
(* other, so every broker call and every write of the book is its own      *)
(* step.  The exchange is external: it accepts or refuses an order and may *)
(* lose the answer of one it accepted.  No code here reads a fill, so      *)
(* fills are left out: a position is its accepted orders.                  *)
(*                                                                         *)
(* An OPEN intent stands for its decision, for the order id the broker     *)
(* returns for it and so for the position's key in the book.  Envelope     *)
(* verification (sentinel/auth.py) is the subject of SignedIntents; here   *)
(* it is why an intent is submitted at most once.                          *)
(***************************************************************************)
EXTENDS Integers, FiniteSets

CONSTANTS
    Intents,     \* the OPEN intents the brain tier may send
    Workers,     \* threads of the executor that serve /intent
    Deadman,     \* the thread the watch loop awaits while it flattens
    None,
    MaxOutages   \* bound: broker failures in one behaviour

ASSUME SentinelAssumption ==
    /\ None \notin Intents
    /\ Deadman \notin Workers
    /\ MaxOutages \in Nat

Threads == Workers \cup {Deadman}

VARIABLES
    live,        \* LIVE_ORDERS, read once when the module is imported
    marketOpen,  \* what _market_open() returns
    lease,       \* last_heartbeat: "never" heard, "fresh", or "lapsed" (over 30s old)
    fired,       \* deadman_fired, the latch
    book,        \* keys of STATE.positions
    used,        \* intents already submitted
    at,          \* at[t]: where thread t is
    target,      \* target[t]: the intent or position id the request names
    todo,        \* todo[t]: what is left of the flatten's list(STATE.positions.items())
    cur,         \* cur[t]: the position whose exit the broker has just accepted
    entered,     \* exchange: intents whose entry order was accepted
    exits,       \* exchange: how many exit orders were accepted for each position
    lost,        \* history: positions whose record was lost with the process or the answer
    outages      \* broker failures still to come

requestVars == <<at, target, todo, cur>>
exchangeVars == <<entered, exits>>
clockVars == <<live, marketOpen, lease>>
vars == <<clockVars, fired, book, used, requestVars, exchangeVars, lost, outages>>

Places == {"idle", "resolve", "record", "close", "flatten", "reach", "sweep", "pop"}

Init ==
    /\ live \in BOOLEAN
    /\ marketOpen \in BOOLEAN
    /\ lease = "never"
    /\ fired = FALSE
    /\ book = {}
    /\ used = {}
    /\ at = [t \in Threads |-> "idle"]
    /\ target = [t \in Threads |-> None]
    /\ todo = [t \in Threads |-> {}]
    /\ cur = [t \in Threads |-> None]
    /\ entered = {}
    /\ exits = [i \in Intents |-> 0]
    /\ lost = {}
    /\ outages \in 0 .. MaxOutages

---------------------------------------------------------------------------
(* Requests on the event loop *)

\* POST /heartbeat with a valid envelope; the latch does not stop it.
Heartbeat ==
    /\ lease' = "fresh"
    /\ UNCHANGED <<live, marketOpen, fired, book, used, requestVars, exchangeVars,
                   lost, outages>>

\* Fault: the latch is not consulted.
AcceptWhileLatched(t, i) ==
    /\ live /\ i \notin used /\ at[t] = "idle"
    /\ used' = used \cup {i}
    /\ at' = [at EXCEPT ![t] = "resolve"]
    /\ target' = [target EXCEPT ![t] = i]
    /\ UNCHANGED <<clockVars, fired, book, todo, cur, exchangeVars, lost, outages>>

\* POST /intent, OPEN, armed: counted as accepted and handed to a worker.
AcceptOpen(t, i) ==
    /\ live /\ ~fired
    /\ i \notin used
    /\ at[t] = "idle"
    /\ used' = used \cup {i}
    /\ at' = [at EXCEPT ![t] = "resolve"]
    /\ target' = [target EXCEPT ![t] = i]
    /\ UNCHANGED <<clockVars, fired, book, todo, cur, exchangeVars, lost, outages>>

\* POST /intent, CLOSE, armed.  The position id is whatever the brain names.
AcceptClose(t, i) ==
    /\ live /\ ~fired
    /\ at[t] = "idle"
    /\ at' = [at EXCEPT ![t] = "close"]
    /\ target' = [target EXCEPT ![t] = i]
    /\ UNCHANGED <<clockVars, fired, book, used, todo, cur, exchangeVars, lost, outages>>

\* POST /intent, OPEN, not armed: a paper position is registered at once.
AcceptPaperOpen(i) ==
    /\ ~live /\ ~fired
    /\ i \notin used
    /\ used' = used \cup {i}
    /\ book' = book \cup {i}
    /\ UNCHANGED <<clockVars, fired, requestVars, exchangeVars, lost, outages>>

\* POST /intent, CLOSE, not armed: only the named position is dropped.
AcceptPaperClose(i) ==
    /\ ~live /\ ~fired
    /\ i \in book
    /\ book' = book \ {i}
    /\ UNCHANGED <<clockVars, fired, used, requestVars, exchangeVars, lost, outages>>

\* POST /deadman/clear: the human reset.
ClearDeadman ==
    /\ fired
    /\ fired' = FALSE
    /\ UNCHANGED <<clockVars, book, used, requestVars, exchangeVars, lost, outages>>

\* _deadman_loop past every `continue`: latch first, then flatten in a thread
\* the loop awaits.
FireDeadman ==
    /\ at[Deadman] = "idle"
    /\ ~fired
    /\ book # {}
    /\ marketOpen
    /\ lease = "lapsed"
    /\ fired' = TRUE
    /\ at' = [at EXCEPT ![Deadman] = "flatten"]
    /\ UNCHANGED <<clockVars, book, used, target, todo, cur, exchangeVars, lost, outages>>

---------------------------------------------------------------------------
(* _place, in a worker *)

Return(t) ==
    /\ at' = [at EXCEPT ![t] = "idle"]
    /\ target' = [target EXCEPT ![t] = None]

\* Fault: the position is written without looking at the broker's status.
RecordUnchecked(t) ==
    /\ at[t] = "resolve"
    /\ book' = book \cup {target[t]}
    /\ Return(t)
    /\ UNCHANGED <<clockVars, fired, used, todo, cur, exchangeVars, lost, outages>>

\* No expiry, no contract, no login, no order id, or an exception before the
\* broker took the order: the answer is not ok and nothing was ordered.
OpenRefused(t) ==
    /\ at[t] = "resolve"
    /\ Return(t)
    /\ UNCHANGED <<clockVars, fired, book, used, todo, cur, exchangeVars, lost, outages>>

\* placeOrder returned an order id.
OpenAccepted(t) ==
    /\ at[t] = "resolve"
    /\ entered' = entered \cup {target[t]}
    /\ at' = [at EXCEPT ![t] = "record"]
    /\ UNCHANGED <<clockVars, fired, book, used, target, todo, cur, exits, lost, outages>>

\* placeOrder raised although the order landed: the exception leaves _place.
OpenAnswerLost(t) ==
    /\ at[t] = "resolve"
    /\ outages > 0
    /\ outages' = outages - 1
    /\ entered' = entered \cup {target[t]}
    /\ lost' = lost \cup {target[t]}
    /\ Return(t)
    /\ UNCHANGED <<clockVars, fired, book, used, todo, cur, exits>>

\* The order of i was accepted and the thread has not yet written the book.
Recording(i) == \E t \in Threads : at[t] = "record" /\ target[t] = i

\* STATE.positions[order_id] = {...}; return.
RecordPosition(t) ==
    /\ at[t] = "record"
    /\ book' = book \cup {target[t]}
    /\ Return(t)
    /\ UNCHANGED <<clockVars, fired, used, todo, cur, exchangeVars, lost, outages>>

\* CLOSE of a position the book does not hold, or a broker object that cannot
\* be built: an error, and nothing is flattened.
CloseUnknown(t) ==
    /\ at[t] = "close"
    /\ \/ target[t] \notin book /\ UNCHANGED outages
       \/ outages > 0 /\ outages' = outages - 1
    /\ Return(t)
    /\ UNCHANGED <<clockVars, fired, book, used, todo, cur, exchangeVars, lost>>

\* CLOSE of a position the book holds: the whole book is flattened.
CloseKnown(t) ==
    /\ at[t] = "close"
    /\ target[t] \in book
    /\ at' = [at EXCEPT ![t] = "flatten"]
    /\ UNCHANGED <<clockVars, fired, book, used, target, todo, cur, exchangeVars, lost,
                   outages>>

---------------------------------------------------------------------------
(* _flatten_all, in a worker (CLOSE) or in the dead-man's thread *)

\* The first loop drops paper positions without touching a broker.
DropPaper(t) ==
    /\ at[t] = "flatten"
    /\ book' = IF live THEN book ELSE {}
    /\ at' = [at EXCEPT ![t] = "reach"]
    /\ UNCHANGED <<clockVars, fired, used, target, todo, cur, exchangeVars, lost, outages>>

\* Fault: only the position the request names is swept.
SweepTargetOnly(t) ==
    /\ at[t] = "reach"
    /\ at' = [at EXCEPT ![t] = "sweep"]
    /\ todo' = [todo EXCEPT ![t] = book \cap {target[t]}]
    /\ UNCHANGED <<clockVars, fired, book, used, target, cur, exchangeVars, lost, outages>>

\* The broker answers: the second loop runs over a copy of the book.
ReachBroker(t) ==
    /\ at[t] = "reach"
    /\ at' = [at EXCEPT ![t] = "sweep"]
    /\ todo' = [todo EXCEPT ![t] = book]
    /\ UNCHANGED <<clockVars, fired, book, used, target, cur, exchangeVars, lost, outages>>

\* Fault: the book is emptied although nothing was ordered.
ClearUnreachable(t) ==
    /\ at[t] = "reach"
    /\ book' = {}
    /\ at' = [at EXCEPT ![t] = "sweep"]
    /\ UNCHANGED <<clockVars, fired, used, target, todo, cur, exchangeVars, lost, outages>>

\* The broker cannot be constructed: return with every position still open.
BrokerUnreachable(t) ==
    /\ at[t] = "reach"
    /\ book # {}
    /\ outages > 0
    /\ outages' = outages - 1
    /\ at' = [at EXCEPT ![t] = "sweep"]
    /\ UNCHANGED <<clockVars, fired, book, used, target, todo, cur, exchangeVars, lost>>

\* The exit order of one position is accepted.  The exchange has no paper
\* instrument, so an exit of a paper position is never accepted.
ExitAccepted(t, i) ==
    /\ at[t] = "sweep"
    /\ i \in todo[t]
    /\ live
    /\ exits' = [exits EXCEPT ![i] = @ + 1]
    /\ cur' = [cur EXCEPT ![t] = i]
    /\ at' = [at EXCEPT ![t] = "pop"]
    /\ UNCHANGED <<clockVars, fired, book, used, target, todo, entered, lost, outages>>

\* Fault: the position is popped whatever the broker answered.
ForgetOnFailure(t, i) ==
    /\ at[t] = "sweep" /\ i \in todo[t]
    /\ book' = book \ {i}
    /\ todo' = [todo EXCEPT ![t] = @ \ {i}]
    /\ UNCHANGED <<clockVars, fired, used, at, target, cur, exchangeVars, lost, outages>>

\* status False or an exception: the position stays in the book and the loop
\* goes on.  When only the answer was lost, the exit order is live.
ExitFailed(t, i) ==
    /\ at[t] = "sweep"
    /\ i \in todo[t]
    /\ live => outages > 0
    /\ outages' = IF live THEN outages - 1 ELSE outages
    /\ \/ UNCHANGED exits
       \/ live /\ exits' = [exits EXCEPT ![i] = @ + 1]
    /\ todo' = [todo EXCEPT ![t] = @ \ {i}]
    /\ UNCHANGED <<clockVars, fired, book, used, at, target, cur, entered, lost>>

\* if res.get("status"): STATE.positions.pop(pid, None)
PopPosition(t) ==
    /\ at[t] = "pop"
    /\ book' = book \ {cur[t]}
    /\ todo' = [todo EXCEPT ![t] = @ \ {cur[t]}]
    /\ cur' = [cur EXCEPT ![t] = None]
    /\ at' = [at EXCEPT ![t] = "sweep"]
    /\ UNCHANGED <<clockVars, fired, used, target, exchangeVars, lost, outages>>

\* _flatten_all returns.  A CLOSE answers ok iff its position has left the
\* book; the watch loop resumes its one-second wait.
FlattenReturns(t) ==
    /\ at[t] = "sweep"
    /\ todo[t] = {}
    /\ Return(t)
    /\ UNCHANGED <<clockVars, fired, book, used, todo, cur, exchangeVars, lost, outages>>

ThreadStep(t) ==
    \/ OpenRefused(t) \/ OpenAccepted(t) \/ OpenAnswerLost(t) \/ RecordPosition(t)
    \/ CloseUnknown(t) \/ CloseKnown(t)
    \/ DropPaper(t) \/ ReachBroker(t) \/ BrokerUnreachable(t)
    \/ \E i \in Intents : ExitAccepted(t, i) \/ ExitFailed(t, i)
    \/ PopPosition(t) \/ FlattenReturns(t)

---------------------------------------------------------------------------
(* The environment *)

\* More than DEADMAN_TIMEOUT_SEC pass without a heartbeat.
LeaseLapses ==
    /\ lease = "fresh"
    /\ lease' = "lapsed"
    /\ UNCHANGED <<live, marketOpen, fired, book, used, requestVars, exchangeVars, lost,
                   outages>>

BellRings ==
    /\ marketOpen' = ~marketOpen
    /\ UNCHANGED <<live, lease, fired, book, used, requestVars, exchangeVars, lost, outages>>

\* The process dies and its supervisor starts it again: State() is built anew,
\* and the orders already at the exchange stay there.
Restart ==
    /\ lost' = lost \cup book \cup {i \in Intents : Recording(i)}
    /\ lease' = "never"
    /\ fired' = FALSE
    /\ book' = {}
    /\ at' = [t \in Threads |-> "idle"]
    /\ target' = [t \in Threads |-> None]
    /\ todo' = [t \in Threads |-> {}]
    /\ cur' = [t \in Threads |-> None]
    /\ UNCHANGED <<live, marketOpen, used, exchangeVars, outages>>

Next ==
    \/ Heartbeat
    \/ \E t \in Workers, i \in Intents : AcceptOpen(t, i) \/ AcceptClose(t, i)
    \/ \E i \in Intents : AcceptPaperOpen(i) \/ AcceptPaperClose(i)
    \/ ClearDeadman
    \/ FireDeadman
    \/ \E t \in Threads : ThreadStep(t)
    \/ LeaseLapses
    \/ BellRings
    \/ Restart

Spec == Init /\ [][Next]_vars

\* The event loop keeps polling and every thread the executor runs makes
\* progress; nothing is assumed of the brain, the broker or the market.
FairSpec ==
    /\ Spec
    /\ WF_vars(FireDeadman)
    /\ \A t \in Threads : WF_vars(ThreadStep(t))

---------------------------------------------------------------------------
(* Properties *)

\* Every variable has its type.
TypeOK ==
    /\ live \in BOOLEAN /\ marketOpen \in BOOLEAN /\ fired \in BOOLEAN
    /\ lease \in {"never", "fresh", "lapsed"}
    /\ book \subseteq Intents /\ used \subseteq Intents /\ lost \subseteq Intents
    /\ entered \subseteq Intents
    /\ exits \in [Intents -> Nat]
    /\ at \in [Threads -> Places]
    /\ target \in [Threads -> Intents \cup {None}]
    /\ cur \in [Threads -> Intents \cup {None}]
    /\ todo \in [Threads -> SUBSET Intents]
    /\ outages \in 0 .. MaxOutages

\* A position the exchange may hold is never silently dropped: it is in the
\* book, or the thread that ordered it is about to write it there, or an exit
\* for it was accepted, or its record went with the process or with the
\* broker's answer.  Overlapping opens, closes and dead-man flattens keep this
\* although each works on its own copy of the book.
NothingForgotten ==
    \A i \in Intents :
        i \in entered => i \in book \/ Recording(i) \/ exits[i] > 0 \/ i \in lost

\* The book and the exit orders speak of orders that exist: an exit is only
\* ever sent for an accepted entry, an armed book lists only accepted entries,
\* and a rehearsal (not armed) orders nothing at all.
OrdersBacked ==
    \A i \in Intents :
        /\ exits[i] > 0 => i \in entered
        /\ live /\ i \in book => i \in entered
        /\ i \in entered => live

\* A CLOSE that answers ok (its position has left the book when the flatten it
\* ran is done) answers for a position an exit was accepted for, whichever of
\* the threads sweeping the book sent it.
CloseIsTruthful ==
    \A t \in Workers :
        at[t] = "sweep" /\ target[t] \notin book => exits[target[t]] > 0

\* Latched, with no open left in flight.
Quiet == fired /\ \A t \in Threads : at[t] \notin {"resolve", "record"}

\* "A flapping connection must not produce a flapping book": once the latch is
\* set and the opens accepted before it are done, no heartbeat, intent or
\* thread makes the book grow or starts an open, until a human clears the
\* latch or the process restarts.
LatchedBookOnlyShrinks == [][Quiet /\ fired' => Quiet' /\ book' \subseteq book]_vars

\* What the book holds when the switch fires leaves it, however the sweep
\* interleaves with closes, opens and heartbeats, if no broker call fails.
DeadmanFlattens ==
    \A i \in Intents :
        (at[Deadman] = "flatten" /\ i \in book /\ outages = 0) ~> (i \notin book)

\* _flatten_all closes a position; it does not sell it twice (main.py:128).
AtMostOneExit == \A i \in Intents : exits[i] <= 1

Unattended(i) == live /\ marketOpen /\ lease = "lapsed" /\ i \in book

\* "If the brain stops sending heartbeats during market hours while a position
\* is open, the sentinel flattens" (main.py:9).
UnattendedIsFlattened == \A i \in Intents : Unattended(i) ~> ~Unattended(i)

---------------------------------------------------------------------------
(* The inductive invariant of SentinelProofs *)

\* What a thread's place in the code says of the position it works on.
ThreadInv ==
    /\ \A t \in Workers :
        /\ at[t] # "idle" => live /\ target[t] \in Intents
        /\ at[t] = "record" => target[t] \in entered
        /\ at[t] \in {"flatten", "reach", "sweep", "pop"} =>
              target[t] \in book \/ exits[target[t]] > 0
    /\ at[Deadman] \in {"idle", "flatten", "reach", "sweep", "pop"}
    /\ \A t \in Threads :
        /\ at[t] = "pop" => live /\ cur[t] \in Intents /\ exits[cur[t]] > 0
        /\ live => todo[t] \subseteq entered

IInv == TypeOK /\ ThreadInv /\ NothingForgotten /\ OrdersBacked
=============================================================================
