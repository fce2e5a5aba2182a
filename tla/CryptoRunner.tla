---------------------------- MODULE CryptoRunner ----------------------------
(***************************************************************************)
(* The crypto runner (core/execution/crypto_runner.py) and the positions   *)
(* it holds at the exchange through core/brokers/delta_crypto.py.          *)
(*                                                                         *)
(* Four threads share _OPEN_POSITIONS without a lock: the scheduler runs   *)
(* the management, entry and reconcile ticks in its pool, each at most     *)
(* once at a time, and the kill endpoint runs in the server's.  Each loops *)
(* over a copy and calls the broker in between, so every broker call, and  *)
(* every access to the book after one, is a step of its own.  A position   *)
(* is an object: a thread that copied the book refers to it even when the  *)
(* book no longer does.                                                    *)
(*                                                                         *)
(* The exchange is external: it nets the orders of a symbol, executes a    *)
(* reduce-only order up to the position it finds, and keeps one bracket    *)
(* per symbol until it fires or is cancelled.  A call may fail, and what   *)
(* it asked for may have been done all the same, an entry even twice.      *)
(*                                                                         *)
(* Each strategy trades a symbol of its own and stands for it; an entry is *)
(* for one contract.  Left out: paper mode, the trail_partial exit regime, *)
(* shadow trades, journals and prices; a loss, a signal and an exit come   *)
(* at any time.                                                            *)
(***************************************************************************)
EXTENDS Integers, FiniteSets

CONSTANTS
    Strategies,  \* the registered strategies
    Positions,   \* names of position objects; one nothing refers to is reused
    Sides,       \* the sides of the decisions
    None,
    MaxNet,      \* bound: contracts the exchange lets a symbol hold
    MaxEvents    \* bound: entries, faults, kills and restarts together

ASSUME CryptoAssumption ==
    /\ None \notin Strategies /\ None \notin Positions
    /\ Sides \subseteq {"buy", "sell"}
    /\ MaxNet \in Nat \ {0} /\ MaxEvents \in Nat

Threads == {"manage", "entry", "reconcile", "kill"}
Places == {"idle", "next", "order", "record", "arm", "attach", "cancel", "close",
           "remove", "list", "clear", "delete", "claim", "replace"}

VARIABLES
    slot,      \* _OPEN_POSITIONS, by strategy
    heap,      \* the fields of each object; safe is pos["bracket"]["ok"]
    due,       \* objects older than MAX_HOLD_MINUTES
    killed,    \* _KILLED
    up,        \* the jobs are scheduled: startup has reconciled, or tried to
    at,        \* at[t]: where thread t is
    todo,      \* todo[t]: the rest of its loop, strategies with their objects
    cur,       \* cur[t]: the one it works on
    leaving,   \* to_remove of the management tick
    bet,       \* the side of the entry being ordered
    answer,    \* answer[t]: what place_bracket told t
    seen,      \* the positions the reconcile tick read from the exchange
    net,       \* exchange: net[s], signed contracts
    armed,     \* exchange: the side armed[s] protects, 0 without a bracket
    entries,   \* decisions so far
    faults,    \* failures so far
    kills,     \* emergency stops so far
    restarts   \* restarts so far

runVars == <<killed, up, entries, kills, restarts>>
passVars == <<leaving, bet, answer, seen>>
exchangeVars == <<net, armed, faults>>
vars == <<slot, heap, due, killed, up, at, todo, cur, leaving, bet, answer, seen,
          net, armed, entries, faults, kills, restarts>>

Abs(n) == IF n < 0 THEN -n ELSE n
Sign(n) == IF n > 0 THEN 1 ELSE IF n < 0 THEN -1 ELSE 0
Least(a, b) == IF a < b THEN a ELSE b

Objects == [side : {1, -1}, size : 1 .. MaxNet, safe : BOOLEAN]
Blank == [side |-> 1, size |-> 1, safe |-> FALSE]
Nobody == <<None, None>>
Book == {<<s, slot[s]>> : s \in {r \in Strategies : slot[r] # None}}

\* Objects something still refers to.
Held == {slot[s] : s \in Strategies} \cup {cur[t][2] : t \in Threads}
        \cup UNION {{x[2] : x \in todo[t]} : t \in Threads}
        \cup {x[2] : x \in leaving}

\* The objects after a step, with those nothing refers to any more gone, and
\* the age of those nothing will look at.
Keep(objects) ==
    /\ heap' = [p \in Positions |-> IF p \in Held' THEN objects[p] ELSE Blank]
    /\ due' = due \cap ({slot'[s] : s \in Strategies} \cup {x[2] : x \in todo'["manage"]})

Go(t, place) == at' = [at EXCEPT ![t] = place]
Turn(t, place, who) == Go(t, place) /\ cur' = [cur EXCEPT ![t] = who]

\* Thread t starts a loop over items; it takes x from it and goes on to place.
Start(t, items) ==
    /\ todo' = [todo EXCEPT ![t] = items]
    /\ Go(t, IF items = {} THEN "idle" ELSE "next")
Take(t, x, place) ==
    /\ at[t] = "next" /\ x \in todo[t]
    /\ todo' = [todo EXCEPT ![t] = @ \ {x}]
    /\ Turn(t, place, x)

\* The item thread t is at is done with: the next, or the end of its tick; the
\* management tick then still removes what it closed, in leaving'.
Again(t) ==
    Turn(t, IF todo'[t] # {} THEN "next"
            ELSE IF t = "manage" /\ leaving' # {} THEN "remove" ELSE "idle", Nobody)

\* Thread t leaves item x of its loop alone.
Skip(t, x) ==
    /\ at[t] = "next" /\ x \in todo[t]
    /\ todo' = [todo EXCEPT ![t] = @ \ {x}]
    /\ Again(t)

\* Thread t gives up: an exception ends its tick.
Abort(t) ==
    /\ Turn(t, "idle", Nobody)
    /\ todo' = [todo EXCEPT ![t] = {}]

Init ==
    /\ slot = [s \in Strategies |-> None]
    /\ heap = [p \in Positions |-> Blank] /\ due = {}
    /\ killed = FALSE /\ up = FALSE
    /\ at = [t \in Threads |-> "idle"]
    /\ todo = [t \in Threads |-> {}]
    /\ cur = [t \in Threads |-> Nobody]
    /\ leaving = {} /\ bet = 1
    /\ answer = [t \in Threads |-> FALSE]
    /\ seen = [s \in Strategies |-> 0]
    /\ net = [s \in Strategies |-> 0]
    /\ armed = [s \in Strategies |-> 0]
    /\ entries = 0 /\ faults = 0 /\ kills = 0 /\ restarts = 0

\* Another of the events that are bounded.
MayHappen == entries + faults + kills + restarts < MaxEvents

(***************************************************************************)
(* Broker calls.                                                           *)
(***************************************************************************)
\* A call is answered after n attempts at it, or is not.
Fails == MayHappen /\ faults' = faults + 1
Attempts(n) == IF n = 1 THEN UNCHANGED faults ELSE Fails

Fill(s, d, n) ==
    /\ Abs(net[s] + d * n) <= MaxNet
    /\ net' = [net EXCEPT ![s] = @ + d * n]

\* Fault: an exit that is not reduce-only.
ClosableInFull(s, p) == heap[p].size

\* What a reduce-only order against object p can close.
Closable(s, p) == Least(heap[p].side * net[s], heap[p].size)
Reduce(s, p) == Fill(s, -heap[p].side, Closable(s, p))

\* place_bracket answers ok, or does not and may have done it.
PlaceBracket(s, side, ok) ==
    LET attach == Sign(net[s]) = side /\ armed[s] = 0
        done == armed' = [armed EXCEPT ![s] = side]
    IN \/ attach /\ ok /\ done /\ UNCHANGED faults
       \/ ~attach /\ ~ok /\ UNCHANGED <<armed, faults>>
       \/ Fails /\ ~ok /\ (UNCHANGED armed \/ (attach /\ done))

CancelBracket(s) ==
    LET done == armed' = [armed EXCEPT ![s] = 0]
    IN \/ done /\ UNCHANGED faults
       \/ Fails /\ (done \/ UNCHANGED armed)

(***************************************************************************)
(* The entry tick (tick_entry_decisions).                                  *)
(***************************************************************************)
\* Fault: the daily loss is tested, the flag it has set is not.
StartUnlessLoss(loss) ==
    /\ up /\ at["entry"] = "idle"
    /\ killed' = (killed \/ loss)
    /\ IF loss THEN UNCHANGED <<at, todo>>
                ELSE Start("entry", {<<s, None>> : s \in Strategies})
    /\ UNCHANGED <<slot, heap, due, up, entries, kills, restarts, cur, passVars, exchangeVars>>

\* The kill switch is read once, here; a day's loss may set it.
StartEntries(loss) ==
    /\ up /\ at["entry"] = "idle"
    /\ killed' = (killed \/ loss)
    /\ IF killed' THEN UNCHANGED <<at, todo>>
                  ELSE Start("entry", {<<s, None>> : s \in Strategies})
    /\ UNCHANGED <<slot, heap, due, up, entries, kills, restarts, cur, passVars, exchangeVars>>

\* Strategy s has a position, or no decision that comes to an order.
PassOver(s) ==
    /\ UNCHANGED leaving
    /\ Skip("entry", <<s, None>>)
    /\ UNCHANGED <<slot, heap, due, runVars, bet, answer, seen, exchangeVars>>

Decide(s, d) ==
    /\ Take("entry", <<s, None>>, "order")
    /\ slot[s] = None
    /\ MayHappen /\ entries' = entries + 1
    /\ bet' = IF d = "buy" THEN 1 ELSE -1
    /\ UNCHANGED <<slot, heap, due, killed, up, kills, restarts, leaving, answer, seen, exchangeVars>>

EntryOrdered ==
    LET s == cur["entry"][1]
        Accepted == \E n \in 1 .. 2 : Attempts(n) /\ Fill(s, bet, n)
        Refused == UNCHANGED <<net, faults>>
        Lost == Fails /\ Fill(s, bet, 1)
    IN /\ at["entry"] = "order"
       /\ UNCHANGED todo
       /\ \/ Accepted /\ Go("entry", "record") /\ UNCHANGED cur
          \/ (Refused \/ Lost) /\ Again("entry")
       /\ UNCHANGED <<slot, heap, due, runVars, passVars, armed>>

\* A new object is the position of strategy s, with no bracket yet.
Record(s, side, size) ==
    LET free == Positions \ Held
        p == CHOOSE q \in free : TRUE
    IN /\ free # {}
       /\ slot' = [slot EXCEPT ![s] = p]
       /\ Keep([heap EXCEPT ![p] = [side |-> side, size |-> size, safe |-> FALSE]])

EntryRecorded ==
    /\ at["entry"] = "record"
    /\ Go("entry", "arm")
    /\ UNCHANGED cur /\ UNCHANGED todo /\ UNCHANGED passVars
    /\ Record(cur["entry"][1], bet, 1)
    /\ UNCHANGED <<runVars, exchangeVars>>

Armed(t, side) ==
    /\ at[t] = "arm"
    /\ \E ok \in BOOLEAN :
          PlaceBracket(cur[t][1], side, ok) /\ answer' = [answer EXCEPT ![t] = ok]
    /\ Go(t, "attach")
    /\ UNCHANGED <<slot, heap, due, runVars, todo, cur, leaving, bet, seen, net>>

EntryArmed == Armed("entry", bet)

\* _OPEN_POSITIONS[name]["bracket"] = br: whatever object is there by now, and
\* a KeyError when there is none.
Attached(t) ==
    LET s == cur[t][1]
    IN /\ at[t] = "attach"
       /\ UNCHANGED slot /\ UNCHANGED leaving
       /\ IF slot[s] = None
             THEN Abort(t) /\ Keep(heap)
             ELSE /\ UNCHANGED todo
                  /\ IF t = "entry" THEN Again(t) ELSE Turn(t, "next", Nobody)
                  /\ Keep([heap EXCEPT ![slot[s]].safe = answer[t]])
       /\ answer' = [answer EXCEPT ![t] = FALSE]
       /\ UNCHANGED <<runVars, bet, seen, exchangeVars>>

EntryAttached == Attached("entry")

(***************************************************************************)
(* The management tick (tick_position_management, _manage_open_position)   *)
(* and the emergency stop (manual_kill).  They close positions alike.      *)
(***************************************************************************)
StartManage ==
    /\ up /\ at["manage"] = "idle" /\ Book # {}
    /\ Start("manage", Book)
    /\ UNCHANGED <<slot, heap, due, runVars, cur, passVars, exchangeVars>>

Kill ==
    /\ up /\ at["kill"] = "idle"
    /\ killed' = TRUE
    /\ MayHappen /\ kills' = kills + 1
    /\ Start("kill", Book)
    /\ UNCHANGED <<slot, heap, due, up, entries, restarts, cur, passVars, exchangeVars>>

\* Fault: the bracket is cancelled before the exit is decided.
HoldUnarmed(x) ==
    /\ UNCHANGED passVars
    /\ Skip("manage", x)
    /\ IF x[2] \in due THEN Fails ELSE UNCHANGED faults
    /\ armed' = [armed EXCEPT ![x[1]] = 0]
    /\ UNCHANGED <<slot, runVars, net>> /\ Keep(heap)

\* Fault: the maximal holding time is not looked at.
HoldOn(x) ==
    /\ UNCHANGED passVars
    /\ Skip("manage", x)
    /\ UNCHANGED <<slot, runVars, exchangeVars>> /\ Keep(heap)

\* No reason to exit x, or no mark to tell: only a failure delays one that is due.
Hold(x) ==
    /\ UNCHANGED passVars
    /\ Skip("manage", x)
    /\ IF x[2] \in due THEN Fails ELSE UNCHANGED faults
    /\ UNCHANGED <<slot, runVars, net, armed>> /\ Keep(heap)

\* The bracket goes before the position does, if one is recorded.
Exit(t, x) ==
    /\ Take(t, x, IF heap[x[2]].safe THEN "cancel" ELSE "close")
    /\ UNCHANGED <<slot, heap, due, runVars, passVars, exchangeVars>>

\* The exit goes on whether or not the bracket could be cancelled.
BracketDropped(t, place, place2) ==
    /\ at[t] = place
    /\ CancelBracket(cur[t][1])
    /\ Go(t, place2)
    /\ UNCHANGED <<slot, heap, due, runVars, todo, cur, passVars, net>>

ExitCancelled(t) == BracketDropped(t, "cancel", "close")

ExitRefused(t) ==
    LET x == cur[t]
    IN /\ at[t] = "close"
       /\ \/ Closable(x[1], x[2]) <= 0 /\ UNCHANGED <<net, faults>>
          \/ Fails /\ UNCHANGED net
          \/ Fails /\ Closable(x[1], x[2]) > 0 /\ Reduce(x[1], x[2])
       /\ UNCHANGED <<todo, passVars>>
       /\ Again(t)
       /\ UNCHANGED <<slot, runVars, armed>> /\ Keep(heap)

ExitFilled(t) ==
    LET x == cur[t]
    IN /\ at[t] = "close" /\ Closable(x[1], x[2]) > 0
       /\ Reduce(x[1], x[2])
       /\ UNCHANGED todo
       /\ IF t = "manage"
             THEN leaving' = leaving \cup {x} /\ Again(t)
             ELSE Go(t, "remove") /\ UNCHANGED <<cur, leaving>>
       /\ UNCHANGED <<slot, heap, due, runVars, bet, answer, seen, armed, faults>>

\* After its loop the management tick removes what it closed: del by name,
\* whatever object is there.  The KeyError of one that is gone ends the tick.
Removed(x) ==
    /\ at["manage"] = "remove" /\ x \in leaving
    /\ slot' = [slot EXCEPT ![x[1]] = None]
    /\ leaving' = IF slot[x[1]] = None THEN {} ELSE leaving \ {x}
    /\ Go("manage", IF leaving' = {} THEN "idle" ELSE "remove")
    /\ UNCHANGED <<runVars, todo, cur, bet, answer, seen, exchangeVars>> /\ Keep(heap)

\* The stop catches the KeyError of each.
KillRemoved ==
    /\ at["kill"] = "remove"
    /\ slot' = [slot EXCEPT ![cur["kill"][1]] = None]
    /\ UNCHANGED <<todo, passVars>>
    /\ Again("kill")
    /\ UNCHANGED <<runVars, exchangeVars>> /\ Keep(heap)

(***************************************************************************)
(* The reconcile tick (tick_reconcile, reconcile_positions), which startup *)
(* also runs before it schedules the jobs.                                 *)
(***************************************************************************)
\* The positions are read from the exchange, or they are left alone.
ReadExchange ==
    /\ at["reconcile"] = "idle"
    /\ \/ seen' = net /\ Go("reconcile", "list") /\ UNCHANGED <<up, faults>>
       \/ Fails /\ up' = TRUE /\ UNCHANGED <<seen, at>>
    /\ UNCHANGED <<slot, heap, due, killed, entries, kills, restarts, todo, cur, leaving, bet, answer,
                   net, armed>>

\* Fault: what is live is not looked for in the book.
ListTracked ==
    /\ at["reconcile"] = "list"
    /\ todo' = [todo EXCEPT !["reconcile"] = Book]
    /\ Go("reconcile", "next")
    /\ UNCHANGED <<slot, heap, due, runVars, cur, passVars, exchangeVars>>

\* Two loops: over the book as it is now, then over the positions read before.
ListBook ==
    /\ at["reconcile"] = "list"
    /\ todo' = [todo EXCEPT !["reconcile"] =
                  Book \cup {<<s, None>> : s \in {r \in Strategies : seen[r] # 0}}]
    /\ Go("reconcile", "next")
    /\ UNCHANGED <<slot, heap, due, runVars, cur, passVars, exchangeVars>>

SeenOn(s, p) == Sign(seen[s]) = heap[p].side

\* Fault: what the exchange does not list is left alone.
AgreesOrFlat(x) ==
    /\ at["reconcile"] = "next" /\ x \in todo["reconcile"]
    /\ SeenOn(x[1], x[2]) \/ seen[x[1]] = 0
    /\ todo' = [todo EXCEPT !["reconcile"] = @ \ {x}]
    /\ UNCHANGED <<slot, runVars, at, cur, passVars, exchangeVars>> /\ Keep(heap)

Agrees(x) ==
    /\ at["reconcile"] = "next" /\ x \in todo["reconcile"]
    /\ SeenOn(x[1], x[2])
    /\ todo' = [todo EXCEPT !["reconcile"] = @ \ {x}]
    /\ UNCHANGED <<slot, runVars, at, cur, passVars, exchangeVars>> /\ Keep(heap)

IsGone(x) ==
    /\ Take("reconcile", x, "clear")
    /\ ~SeenOn(x[1], x[2])
    /\ UNCHANGED <<slot, heap, due, runVars, passVars, exchangeVars>>

GoneCleared == BracketDropped("reconcile", "clear", "delete")

\* del _OPEN_POSITIONS[name]; a KeyError ends the tick.
GoneDeleted ==
    LET s == cur["reconcile"][1]
    IN /\ at["reconcile"] = "delete"
       /\ slot' = [slot EXCEPT ![s] = None]
       /\ IF slot[s] = None
             THEN Abort("reconcile") /\ seen' = [r \in Strategies |-> 0]
             ELSE Turn("reconcile", "next", Nobody) /\ UNCHANGED <<todo, seen>>
       /\ UNCHANGED <<runVars, leaving, bet, answer, exchangeVars>> /\ Keep(heap)

DropsDone == \A x \in todo["reconcile"] : x[2] = None

\* A live position is looked for in the book, and adopted a call later.
IsTracked(s) ==
    /\ at["reconcile"] = "next" /\ DropsDone /\ <<s, None>> \in todo["reconcile"]
    /\ slot[s] # None
    /\ todo' = [todo EXCEPT !["reconcile"] = @ \ {<<s, None>>}]
    /\ UNCHANGED <<slot, heap, due, runVars, at, cur, passVars, exchangeVars>>

IsUntracked(s) ==
    /\ Take("reconcile", <<s, None>>, "claim") /\ DropsDone
    /\ slot[s] = None
    /\ UNCHANGED <<slot, heap, due, runVars, passVars, exchangeVars>>

Claimed ==
    LET s == cur["reconcile"][1]
    IN /\ at["reconcile"] = "claim"
       /\ Go("reconcile", "replace")
       /\ UNCHANGED cur /\ UNCHANGED todo /\ UNCHANGED passVars
       /\ Record(s, Sign(seen[s]), Abs(seen[s]))
       /\ UNCHANGED <<runVars, exchangeVars>>

ClaimCleared == BracketDropped("reconcile", "replace", "arm")
ClaimArmed == Armed("reconcile", Sign(seen[cur["reconcile"][1]]))
ClaimAttached == Attached("reconcile")

Confirmed(s, p) == slot[s] = p /\ SeenOn(s, p)

\* What is on the side it was seen on takes the size it was seen with.
Resized ==
    /\ at["reconcile"] = "next" /\ todo["reconcile"] = {}
    /\ heap' = [p \in Positions |->
                  IF \E s \in Strategies : Confirmed(s, p)
                    THEN [heap[p] EXCEPT !.size = Abs(seen[CHOOSE s \in Strategies : Confirmed(s, p)])]
                    ELSE heap[p]]
    /\ Go("reconcile", "idle")
    /\ up' = TRUE
    /\ seen' = [s \in Strategies |-> 0]
    /\ UNCHANGED <<slot, due, killed, entries, kills, restarts, todo, cur, leaving, bet, answer, exchangeVars>>

(***************************************************************************)
(* What the program does not decide.                                       *)
(***************************************************************************)
\* A bracket closes the position it protects; one that has outlived its
\* position, if the market comes its way, opens another.
BracketFires(s) ==
    /\ armed[s] # 0
    /\ \/ Sign(net[s]) = armed[s] /\ Fill(s, -armed[s], Abs(net[s])) /\ UNCHANGED faults
       \/ Sign(net[s]) # armed[s] /\ Fails /\ Fill(s, -armed[s], 1)
    /\ armed' = [armed EXCEPT ![s] = 0]
    /\ UNCHANGED <<slot, heap, due, runVars, todo, at, cur, passVars>>

\* The clock passes MAX_HOLD_MINUTES for the position in slot s.
Ages(s) ==
    /\ slot[s] # None /\ slot[s] \notin due
    /\ due' = due \cup {slot[s]}
    /\ UNCHANGED <<slot, heap, runVars, todo, at, cur, passVars, exchangeVars>>

\* A restart loses everything in memory, the kill switch included.
Restart ==
    /\ MayHappen /\ restarts' = restarts + 1
    /\ killed' = FALSE /\ up' = FALSE
    /\ slot' = [s \in Strategies |-> None]
    /\ heap' = [p \in Positions |-> Blank] /\ due' = {}
    /\ at' = [t \in Threads |-> "idle"]
    /\ todo' = [t \in Threads |-> {}]
    /\ cur' = [t \in Threads |-> Nobody]
    /\ leaving' = {} /\ bet' = 1
    /\ answer' = [t \in Threads |-> FALSE]
    /\ seen' = [s \in Strategies |-> 0]
    /\ UNCHANGED <<entries, kills, exchangeVars>>

Pairs == Strategies \X Positions

Entry ==
    \/ \E loss \in BOOLEAN : StartEntries(loss)
    \/ \E s \in Strategies : PassOver(s) \/ \E d \in Sides : Decide(s, d)
    \/ EntryOrdered \/ EntryRecorded \/ EntryArmed \/ EntryAttached

Manage ==
    \/ StartManage
    \/ \E x \in Pairs : Hold(x) \/ Exit("manage", x) \/ Removed(x)
    \/ ExitCancelled("manage") \/ ExitRefused("manage") \/ ExitFilled("manage")

Stop ==
    \/ Kill
    \/ \E x \in Pairs : Exit("kill", x)
    \/ ExitCancelled("kill") \/ ExitRefused("kill") \/ ExitFilled("kill")
    \/ KillRemoved

Reconcile ==
    \/ ReadExchange \/ ListBook
    \/ \E x \in Pairs : Agrees(x) \/ IsGone(x)
    \/ GoneCleared \/ GoneDeleted
    \/ \E s \in Strategies : IsTracked(s) \/ IsUntracked(s)
    \/ Claimed \/ ClaimCleared \/ ClaimArmed \/ ClaimAttached \/ Resized

Environment ==
    \/ \E s \in Strategies : BracketFires(s) \/ Ages(s)
    \/ Restart

Next == Entry \/ Manage \/ Stop \/ Reconcile \/ Environment

Spec == Init /\ [][Next]_vars

(***************************************************************************)
(* The scheduler fires each tick again, and a thread that has started goes *)
(* on; nothing makes anyone press kill.  The clock ages every position.    *)
(***************************************************************************)
FairSpec ==
    /\ Spec
    /\ WF_vars(Entry) /\ WF_vars(Manage) /\ WF_vars(Reconcile)
    /\ WF_vars(Stop /\ at["kill"] # "idle")
    /\ \A s \in Strategies : WF_vars(Ages(s))

(***************************************************************************)
(* Properties.                                                             *)
(***************************************************************************)
TypeOK ==
    /\ slot \in [Strategies -> Positions \cup {None}]
    /\ heap \in [Positions -> Objects]
    /\ due \subseteq Positions
    /\ killed \in BOOLEAN /\ up \in BOOLEAN
    /\ at \in [Threads -> Places]
    /\ todo \in [Threads -> SUBSET (Strategies \X (Positions \cup {None}))]
    /\ cur \in [Threads -> (Strategies \cup {None}) \X (Positions \cup {None})]
    /\ leaving \subseteq Pairs /\ bet \in {1, -1}
    /\ answer \in [Threads -> BOOLEAN]
    /\ seen \in [Strategies -> -MaxNet .. MaxNet]
    /\ net \in [Strategies -> -MaxNet .. MaxNet]
    /\ armed \in [Strategies -> {-1, 0, 1}]
    /\ {entries, faults, kills, restarts} \subseteq 0 .. MaxEvents

\* The book and the exchange agree on which side strategy s is.
OnSide(s) == slot[s] # None /\ heap[slot[s]].side = Sign(net[s])

\* No thread is in the middle of something with strategy s.
AtRest(s) ==
    /\ \A t \in Threads : cur[t][1] # s
    /\ \A x \in leaving : x[1] # s

\* The entry tick has the book to itself whenever it runs.
EntryAlone == at["entry"] # "idle" => \A t \in Threads \ {"entry"} : at[t] = "idle"

\* While no call fails: a symbol that is flat has no bracket left that "could re-open
\* one on the next trigger" (_manage_open_position); a position in the book is the one
\* the exchange has, with its bracket armed and on record, or is gone.
Coherent ==
    \A s \in Strategies : faults = 0 /\ AtRest(s) =>
        /\ net[s] = 0 => armed[s] = 0
        /\ slot[s] # None /\ net[s] # 0 =>
              /\ OnSide(s) /\ heap[slot[s]].size = Abs(net[s])
              /\ armed[s] = Sign(net[s]) /\ heap[slot[s]].safe

\* "The position is no longer defenceless if this process dies": however management,
\* reconciliation, stops, restarts and firing brackets interleave, every position and
\* every bracket at rest are as they should be, unless an entry tick overlapped another
\* thread.  One lock around the entry tick would keep the promise that the code breaks.
ProtectedUnlessOverlapped == []EntryAlone => []Coherent

\* The same without the proviso.  The code does not keep this: an exit that has read the
\* book before a bracket fired cancels the bracket of the position entered since.
AtRestProtected ==
    \A s \in Strategies : faults = 0 /\ AtRest(s) /\ OnSide(s) => armed[s] # 0

\* An exit never opens a position or turns it round, however stale the object it
\* exits: a position grows only by the order of an entry tick, or by a bracket
\* that has outlived its position.
Opens(s) == net'[s] # 0 /\ (Abs(net'[s]) > Abs(net[s]) \/ Sign(net'[s]) # Sign(net[s]))
Outlived(s) == armed[s] # 0 /\ Sign(net[s]) # armed[s]
ExitsNeverOpen ==
    [][\A s \in Strategies :
          Opens(s) => (at["entry"] = "order" /\ cur["entry"][1] = s) \/ Outlived(s)]_vars

\* "Halts new entries": after a stop or the day's loss limit, once the entry tick
\* under way is through, no order of the runner opens anything until a restart.
KillHalts ==
    [][killed /\ killed' /\ at["entry"] = "idle"
          => /\ at'["entry"] = "idle"
             /\ \A s \in Strategies : Opens(s) => Outlived(s)]_vars

\* Book and exchange come together again: a position the book does not know, of an entry
\* whose answer was lost, dropped by a race or left by a restart, is adopted or ends; and
\* one the exchange no longer has, or has on the other side, leaves the book.
Agreed(s) == IF slot[s] = None THEN net[s] = 0 ELSE OnSide(s)
BookConverges == \A s \in Strategies : ~Agreed(s) ~> Agreed(s)

\* What is live after a stop ends all the same: what the stop missed is adopted,
\* and the management tick goes on closing what is due.
KilledPositionsEnd ==
    \A s \in Strategies : killed /\ net[s] # 0 ~> net[s] = 0 \/ ~killed

\* "Closed at the exchange (bracket or manual)": what reconciliation drops is gone.
ReconciledIsGone ==
    [][\A s \in Strategies :
          at["reconcile"] = "delete" /\ at'["reconcile"] = "next" /\ cur["reconcile"][1] = s
          => ~OnSide(s)]_vars

---------------------------------------------------------------------------
(* The inductive invariant of CryptoRunnerProofs *)

Busy == {"order", "record", "arm", "attach", "clear", "delete", "claim", "replace"}
Claiming == {"claim", "replace", "arm", "attach"}

\* What a thread's place says of what it has in hand.
LoopInv ==
    /\ \A t \in Threads : at[t] \in Busy => cur[t][1] \in Strategies
    /\ \A t \in {"manage", "kill"} :
         /\ todo[t] \subseteq Pairs
         /\ at[t] \in {"cancel", "close"} => cur[t] \in Pairs
    /\ at["kill"] = "remove" => cur["kill"] \in Pairs
    /\ \A s \in Strategies : <<s, None>> \in todo["reconcile"] => seen[s] # 0
    /\ at["reconcile"] \in {"idle", "list"} => todo["reconcile"] = {}
    /\ at["reconcile"] \in Claiming => seen[cur["reconcile"][1]] # 0
    /\ \A t \in {"entry", "reconcile"} : at[t] \notin {"cancel", "close", "remove"}
    /\ at["entry"] \notin {"clear", "delete", "claim", "replace"}

IInv == TypeOK /\ LoopInv

\* What an idle thread, or one between two items, has left of its tick.
RestInv ==
    /\ \A t \in Threads : at[t] \in {"idle", "list", "next"} => cur[t] = Nobody
    /\ \A t \in Threads : at[t] = "idle" => todo[t] = {}
    /\ at["manage"] = "remove" => cur["manage"] = Nobody /\ todo["manage"] = {}
    /\ leaving # {} => at["manage"] # "idle"
    /\ at["reconcile"] \in Claiming => cur["reconcile"][2] = None /\ DropsDone
    /\ ~up => \A t \in Threads \ {"reconcile"} : at[t] = "idle"

\* Thread t has x, a strategy with its position, in its loop or in hand.
Holds(t, x) == x \in todo[t] \/ x = cur[t]

\* A thread that will close the position of s, or arm it.
SeenTo(s) ==
    \/ \E t \in {"manage", "kill"} : at[t] = "close" /\ cur[t][1] = s
    \/ \E t \in {"entry", "reconcile"} : at[t] \in {"replace", "arm", "attach"} /\ cur[t][1] = s

\* The book and the exchange, strategy by strategy.
BookInv ==
    /\ \A s \in Strategies : armed[s] \in {0, Sign(net[s])}
    /\ \A s, r \in Strategies : slot[s] = slot[r] /\ slot[s] # None => s = r
    /\ \A t \in Threads \ {"entry"}, x \in Pairs :
          Holds(t, x) /\ net[x[1]] # 0 => slot[x[1]] = x[2]
    /\ \A s \in Strategies : slot[s] # None /\ net[s] # 0 =>
          /\ OnSide(s) /\ heap[slot[s]].size = Abs(net[s])
          /\ SeenTo(s) \/ (armed[s] = Sign(net[s]) /\ heap[slot[s]].safe)
    /\ \A s \in Strategies : slot[s] = None /\ net[s] # 0 =>
          ~up \/ (at["entry"] = "record" /\ cur["entry"][1] = s)

\* The exits: what is being removed is closed, and nothing is closed before its bracket
\* is cancelled.
ExitInv ==
    /\ \A t \in {"manage", "kill"} :
          at[t] = "close" => net[cur[t][1]] = 0 \/ armed[cur[t][1]] = 0
    /\ at["kill"] = "remove" => net[cur["kill"][1]] = 0
    /\ \A x \in leaving : net[x[1]] = 0

\* The reconcile tick: what it read is still there or has been closed since, and what it
\* has not found in the book it will still adopt.
ReconcileInv ==
    LET s == cur["reconcile"][1] IN
    /\ at["reconcile"] # "idle" => \A r \in Strategies : net[r] \in {0, seen[r]}
    /\ at["reconcile"] \notin {"idle", "list"} =>
          \A r \in Strategies : slot[r] = None /\ net[r] # 0 =>
              <<r, None>> \in todo["reconcile"] \/ (at["reconcile"] \in Claiming /\ s = r)
    /\ at["reconcile"] \in {"clear", "delete"} => net[s] = 0
    /\ at["reconcile"] \in Claiming /\ net[s] # 0 => ~up
    /\ at["reconcile"] = "arm" /\ net[s] # 0 => armed[s] = 0
    /\ at["reconcile"] = "attach" /\ net[s] # 0 => armed[s] = Sign(net[s]) /\ answer["reconcile"]
    /\ at["reconcile"] \in {"replace", "arm", "attach"} /\ net[s] # 0 => slot[s] # None

\* The entry tick, step by step.
EntryInv ==
    LET s == cur["entry"][1] IN
    /\ at["entry"] = "order" => slot[s] = None /\ net[s] = 0
    /\ at["entry"] = "record" => slot[s] = None /\ net[s] = bet /\ armed[s] = 0
    /\ at["entry"] = "arm" => slot[s] # None /\ net[s] = bet /\ armed[s] = 0
    /\ at["entry"] = "attach" =>
          /\ slot[s] # None
          /\ net[s] # 0 => armed[s] = Sign(net[s]) /\ answer["entry"]

TradeInv == BookInv /\ ExitInv /\ ReconcileInv /\ EntryInv

\* What holds as long as no entry tick overlaps another thread.
ApartInv == RestInv /\ (faults = 0 => TradeInv)
=============================================================================
