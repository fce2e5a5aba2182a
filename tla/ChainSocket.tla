---------------------------- MODULE ChainSocket ----------------------------
(***************************************************************************)
(* The option chain on a screen: the payload built ten times a second      *)
(* (api/routes_nse.py, build_chain_payload), the socket that sends what of *)
(* it changed (api/server.py, nse_chain_websocket), and the page that      *)
(* merges what it is sent (OptionChain.tsx).                               *)
(*                                                                         *)
(* Of a contract's quote only the open interest is kept, of the Greeks     *)
(* nothing.  The thread of another page, on another symbol, shares the     *)
(* cache of expiries, without a lock.                                      *)
(***************************************************************************)
EXTENDS Integers, FiniteSetsExt, Functions

CONSTANTS
    Quotes,      \* [ce, pe : Nat]: open interest of a strike's call and put
    Moneys,      \* the strikes the money can be at, in steps
    Wing,        \* strikes, on each side of the money
    ExpiryEvery, \* days between expiries
    MaxOccurs   \* bound: moves of the market and failures

ASSUME ChainSocketAssumption ==
    /\ Quotes # {} /\ Quotes \subseteq [ce : Nat, pe : Nat]
    /\ Moneys # {} /\ Moneys \subseteq Int
    /\ {Wing, MaxOccurs} \subseteq Nat /\ ExpiryEvery \in Nat \ {0}

Around(money) == (money - Wing) .. (money + Wing)
Strikes == UNION {Around(money) : money \in Moneys}

Never == 0      \* no expiry; the stream has nothing fresh; no key
Nothing == <<>> \* no rows

VARIABLES
    today, money, quote,    \* the date, the strike at the money, [Strikes -> Quotes]
    streamedAround,         \* the fresh ladder of the stream's frame
    cached,                 \* _expiry_cache: the day of this symbol's key, and its value
    socket,                 \* where the socket's loop is
    aim, key, expiry,       \* what its build has found
    payload,                \* what its build returned
    lastSent, first,        \* last_rows with last_header; first
    screen,                 \* the page's chain
    banner,                 \* its error
    occurred                \* bounded by MaxOccurs

board == <<today, money, quote, streamedAround>>
building == <<aim, key, expiry>>
chainVars == <<board, cached, socket, building, payload, lastSent, first, screen, banner, occurred>>

Blank == [header |-> Nothing, rows |-> Nothing]

Occurs == occurred < MaxOccurs /\ occurred' = occurred + 1

NextExpiry(d) == d + ((-d) % ExpiryEvery)

ChainInit ==
    /\ today = 1 /\ money \in Moneys /\ quote \in [Strikes -> Quotes]
    /\ streamedAround = Never
    /\ cached = [key |-> Never, value |-> Never]
    /\ socket = "off" /\ aim = Never /\ key = Never /\ expiry = Never
    /\ payload = Blank /\ lastSent = Blank /\ first = TRUE /\ screen = Blank /\ banner = FALSE
    /\ occurred = 0

---------------------------------------------------------------------------
(* build_chain_payload *)

\* An error frame, whatever went wrong; the chain stays on the screen.
Fail ==
    /\ socket' = "build" /\ banner' = TRUE
    /\ aim' = Never /\ key' = Never /\ expiry' = Never
    /\ UNCHANGED <<board, payload, lastSent, first, screen>>

\* The spot of the stream, or a call; the strike it makes the money.
Spot ==
    /\ socket = "build"
    /\ socket' = "look" /\ aim' = money /\ key' = today
    /\ UNCHANGED <<board, cached, expiry, payload, lastSent, first, screen, banner, occurred>>

Found == cached.key = key

Look ==
    /\ socket = "look"
    /\ IF Found THEN socket' = "read" /\ UNCHANGED cached
       ELSE socket' = "resolve" /\ cached' = [key |-> Never, value |-> Never]
    /\ UNCHANGED <<board, building, payload, lastSent, first, screen, banner, occurred>>

\* The instrument master, or an empty list if its download failed; None is stored too.
Resolve ==
    /\ socket = "resolve" /\ socket' = "read"
    /\ \/ cached' = [key |-> key, value |-> NextExpiry(today)] /\ UNCHANGED occurred
       \/ cached' = [key |-> key, value |-> Never] /\ Occurs
    /\ UNCHANGED <<board, building, payload, lastSent, first, screen, banner>>

\* Another thread may have cleared the cache since.
Read ==
    /\ socket = "read" /\ Found /\ cached.value # Never
    /\ socket' = "chain" /\ expiry' = cached.value
    /\ UNCHANGED <<board, cached, aim, key, payload, lastSent, first, screen, banner, occurred>>

ReadFails ==
    /\ socket = "read" /\ (~Found \/ cached.value = Never)
    /\ Fail /\ UNCHANGED <<cached, occurred>>

\* A call that raises, answers nothing, or takes more than fifteen seconds.
CallFails ==
    /\ socket \in {"build", "resolve", "chain"}
    /\ Fail /\ Occurs /\ UNCHANGED cached

\* Open interest per strike: the stream's, the REST snapshot's, in which one side may be
\* missing, or, if both are, the prices without open interest.
Frames ==
    IF streamedAround # Never
    THEN {[source |-> "ws", oi |-> [k \in Around(streamedAround) |-> quote[k]]]}
    ELSE {[source |-> "rest",
           oi |-> [k \in Around(aim) |-> [ce |-> IF "ce" \in sides THEN quote[k].ce ELSE 0,
                                          pe |-> IF "pe" \in sides THEN quote[k].pe ELSE 0]]]
            : sides \in SUBSET {"ce", "pe"}}

Sign(n) == IF n > 0 THEN 1 ELSE IF n < 0 THEN -1 ELSE 0

\* What writers pay out at an expiry at the strike `at`.
PaidOut(rows, at) ==
    MapThenSumSet(LAMBDA k : IF k < at THEN (at - k) * rows[k].ce ELSE (k - at) * rows[k].pe,
                  DOMAIN rows)

\* The lowest of the strikes at which they pay least.
MaxPain(rows) ==
    IF Cardinality(DOMAIN rows) < 3 THEN Never
    ELSE Min({at \in DOMAIN rows : \A other \in DOMAIN rows : PaidOut(rows, at) <= PaidOut(rows, other)})

Payload(frame) ==
    LET rows == [k \in DOMAIN frame.oi \cap Around(aim) |->
                    [money |-> Sign(k - aim), ce |-> frame.oi[k].ce, pe |-> frame.oi[k].pe]]
    IN  [rows |-> rows,
         header |-> [atm |-> aim, expiry |-> expiry, source |-> frame.source,
                     ce_oi |-> MapThenSumSet(LAMBDA k : rows[k].ce, DOMAIN rows),
                     pe_oi |-> MapThenSumSet(LAMBDA k : rows[k].pe, DOMAIN rows),
                     max_pain |-> MaxPain(rows)]]

Chain ==
    /\ socket = "chain" /\ socket' = "push"
    /\ \E frame \in Frames : payload' = Payload(frame)
    /\ UNCHANGED <<board, cached, building, lastSent, first, screen, banner, occurred>>

---------------------------------------------------------------------------
(* nse_chain_websocket, and the page *)

\* Fault: a row has changed if its numbers have.
ChangedNumbers ==
    {k \in DOMAIN payload.rows :
        \/ k \notin DOMAIN lastSent.rows
        \/ [lastSent.rows[k] EXCEPT !.money = 0] # [payload.rows[k] EXCEPT !.money = 0]}

Changed ==
    {k \in DOMAIN payload.rows :
        k \notin DOMAIN lastSent.rows \/ lastSent.rows[k] # payload.rows[k]}

\* setChain: a patch is merged by strike.
Merged ==
    [header |-> payload.header,
     rows |-> [k \in DOMAIN screen.rows \cup Changed |->
                  IF k \in Changed THEN payload.rows[k] ELSE screen.rows[k]]]

Differs == Changed # {} \/ payload.header # lastSent.header

Push ==
    /\ socket = "push" /\ socket' = "build"
    /\ screen' = IF first THEN payload ELSE IF Differs THEN Merged ELSE screen
    /\ banner' = (banner /\ ~first /\ ~Differs)
    /\ lastSent' = payload /\ first' = FALSE
    /\ payload' = Blank /\ aim' = Never /\ key' = Never /\ expiry' = Never
    /\ UNCHANGED <<board, cached, occurred>>

\* The page connects, three seconds after it lost a connection; ensure_subscribed runs once,
\* and may fail.
Connect ==
    /\ socket = "off" /\ socket' = "build"
    /\ lastSent' = Blank /\ first' = TRUE /\ banner' = FALSE
    /\ streamedAround' \in {streamedAround, money}
    /\ UNCHANGED <<today, money, quote, cached, building, payload, screen, occurred>>

Disconnect ==
    /\ socket \in {"build", "push"} /\ Occurs
    /\ socket' = "off" /\ payload' = Blank /\ aim' = Never /\ key' = Never /\ expiry' = Never
    /\ UNCHANGED <<board, cached, lastSent, first, screen, banner>>

---------------------------------------------------------------------------
(* The market, the stream, the day, and the other page *)

MarketMoves ==
    /\ Occurs
    /\ \/ money' \in Moneys \ {money} /\ UNCHANGED quote
       \/ \E k \in Strikes, q \in Quotes : quote' = [quote EXCEPT ![k] = q] /\ q # quote[k]
          /\ UNCHANGED money
    /\ UNCHANGED <<today, streamedAround, cached, socket, building, payload, lastSent, first,
                   screen, banner>>

StreamFallsSilent ==
    /\ streamedAround # Never /\ Occurs /\ streamedAround' = Never
    /\ UNCHANGED <<today, money, quote, cached, socket, building, payload, lastSent, first,
                   screen, banner>>

Midnight ==
    /\ Occurs /\ today' = today + 1
    /\ UNCHANGED <<money, quote, streamedAround, cached, socket, building, payload, lastSent,
                   first, screen, banner>>

\* The other symbol's key is not in the cache: it clears it.
OtherPage ==
    /\ cached.key # Never /\ cached' = [key |-> Never, value |-> Never]
    /\ UNCHANGED <<board, socket, building, payload, lastSent, first, screen, banner, occurred>>

Building == Spot \/ Look \/ Resolve \/ Read \/ ReadFails \/ CallFails \/ Chain

ChainNext ==
    \/ Building
    \/ Push
    \/ Connect
    \/ Disconnect
    \/ MarketMoves
    \/ StreamFallsSilent
    \/ Midnight
    \/ OtherPage

ChainSpec == ChainInit /\ [][ChainNext]_chainVars

---------------------------------------------------------------------------
(* Properties *)

\* What the last build found of a strike is on the screen, with its header.
ShownIsBuilt ==
    ~first => /\ screen.header = lastSent.header
              /\ \A k \in DOMAIN lastSent.rows : screen.rows[k] = lastSent.rows[k]

\* A chain is never built of an expiry that is over.
ExpiryIsLive == socket \in {"chain", "push"} => expiry >= key

\* The screen follows the chain through every order of pushed differences, failed builds and
\* reconnections ("anything that changed goes out immediately"; "re-resolves after a rollover
\* rather than serving an expired contract into the next session"): whatever the last build
\* found of a strike is what the page shows of it, the place of the strike with regard to the
\* money and the totals included, and no chain is built of an expiry that is over.
ScreenIsCurrent == ShownIsBuilt /\ ExpiryIsLive

\* No strike is on the screen that the last build did not find.  Not so: a page drops no
\* strike that left the window, and shows its last quote until it reconnects.
NothingVanished == ~first => DOMAIN screen.rows = DOMAIN lastSent.rows
=============================================================================
