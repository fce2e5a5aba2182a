---------------------------- MODULE AngelStream ----------------------------
(***************************************************************************)
(* The socket that streams one symbol's option ladder                      *)
(* (nse/ws/angel_stream.py): the registry of contracts, which               *)
(* ensure_subscribed keeps around the money, and the run loop, which       *)
(* subscribes the registry anew on every socket it opens.                  *)
(*                                                                         *)
(* Callers of ensure_subscribed hold a lock of their own, so one of them   *)
(* is enough; it runs against the loop's thread, and the two share the     *)
(* flag _connected and the socket object without a lock.  Ticks are left   *)
(* out: a subscribed contract is one whose ticks arrive.  Nothing in the   *)
(* repository calls clear or stop.                                         *)
(***************************************************************************)
EXTENDS Integers, FiniteSets

CONSTANTS
    Atms,                   \* the strikes the money can be at, in steps
    StrikesAround,          \* strikes_around
    MaxTokens,              \* MAX_TOKENS_PER_SESSION
    MaxExpiry, MaxLosses    \* bounds: expiries; sockets lost, messages unsent

ASSUME AngelStreamAssumption ==
    /\ Atms \subseteq Nat \ {0} /\ Atms # {}
    /\ {StrikesAround, MaxTokens, MaxExpiry} \subseteq Nat \ {0}
    /\ \A a \in Atms : a > StrikesAround
    /\ MaxLosses \in Nat

NoAtm == 0

VARIABLES
    atm, expiry,        \* the strike at the money, the nearest expiry
    registry,           \* _contracts
    registeredAtm,      \* _registered_atm[symbol]
    connected,          \* _connected
    loop,               \* where the run loop's thread is
    subscribed,         \* what the open socket delivers
    unsent,             \* a subscription of this socket was not sent
    step, list,         \* where ensure_subscribed is, and its contracts
    aim,                \* the strike it took for the money
    listing,            \* what on_open is about to subscribe
    losses              \* bounded by MaxLosses

market == <<atm, expiry>>
ensuring == <<step, list, aim>>
looping == <<loop, listing>>
streamVars == <<market, registry, registeredAtm, connected, subscribed, unsent,
                ensuring, looping, losses>>

\* The index has no strike and no expiry.
Index == [strike |-> 0, expiry |-> 0]
Ladder(a, e) == {Index} \cup [strike : (a - StrikesAround) .. (a + StrikesAround), expiry : {e}]
Contracts == UNION {Ladder(a, e) : a \in Atms, e \in 1 .. MaxExpiry}

Up == {"opened", "listed", "open"}       \* the socket delivers, and accepts messages

StreamTypeOK ==
    /\ atm \in Atms /\ expiry \in 1 .. MaxExpiry
    /\ registry \subseteq Contracts /\ Cardinality(registry) <= MaxTokens
    /\ registeredAtm \in Atms \cup {NoAtm} /\ aim \in Atms \cup {NoAtm}
    /\ connected \in BOOLEAN /\ unsent \in BOOLEAN
    /\ loop \in {"off", "waiting", "opening", "lost"} \cup Up
    /\ subscribed \subseteq Contracts /\ (loop \notin Up => subscribed = {})
    /\ step \in {"idle", "register", "look", "tokens", "send", "mark"}
    /\ list \subseteq Contracts /\ listing \subseteq Contracts
    /\ losses \in 0 .. MaxLosses

StreamInit ==
    /\ atm \in Atms /\ expiry = 1
    /\ registry = {} /\ registeredAtm = NoAtm
    /\ connected = FALSE /\ loop = "off" /\ subscribed = {} /\ unsent = FALSE
    /\ step = "idle" /\ list = {} /\ aim = NoAtm /\ listing = {} /\ losses = 0

Loss == losses < MaxLosses /\ losses' = losses + 1

(***************************************************************************)
(* ensure_subscribed.                                                      *)
(***************************************************************************)
\* It compares the strike alone, and is done if the money has not moved.
Resolve ==
    /\ step = "idle" /\ registeredAtm # atm
    /\ step' = "register" /\ aim' = atm /\ list' = Ladder(atm, expiry)
    /\ UNCHANGED <<market, registry, registeredAtm, connected, subscribed, unsent, looping, losses>>

\* In the order of their strikes, up to the first that is new and has no room.
Accepted(contracts) ==
    {c \in contracts :
        Cardinality({d \in contracts \ registry : d.strike <= c.strike})
            <= MaxTokens - Cardinality(registry)}

Register ==
    /\ step = "register"
    /\ registry' = registry \cup Accepted(list)
    /\ step' = IF Accepted(list) = {} THEN "mark" ELSE "look"
    /\ list' = {}
    /\ UNCHANGED <<market, aim, registeredAtm, connected, subscribed, unsent, looping, losses>>

\* Fault: the flag is set when on_open is done, and not first.
LookLate ==
    /\ step = "look"
    /\ step' = IF connected /\ loop \in {"open", "lost"} THEN "tokens" ELSE "mark"
    /\ UNCHANGED <<market, list, aim, registry, registeredAtm, connected, subscribed, unsent,
                   looping, losses>>

\* The flag is read after the contracts are in, and not under their lock.
Look ==
    /\ step = "look"
    /\ step' = IF connected THEN "tokens" ELSE "mark"
    /\ UNCHANGED <<market, list, aim, registry, registeredAtm, connected, subscribed, unsent,
                   looping, losses>>

TokenList ==
    /\ step = "tokens" /\ step' = "send" /\ list' = registry
    /\ UNCHANGED <<market, aim, registry, registeredAtm, connected, subscribed, unsent,
                   looping, losses>>

\* A socket that is not up raises, which is only logged; so is a message that an
\* open socket does not send.
Send(sent) ==
    /\ step = "send" /\ step' = "mark" /\ list' = {}
    /\ IF loop \notin Up
       THEN sent /\ UNCHANGED <<subscribed, unsent, losses>>
       ELSE IF sent
       THEN subscribed' = subscribed \cup list /\ unsent' = FALSE /\ UNCHANGED losses
       ELSE Loss /\ unsent' = TRUE /\ UNCHANGED subscribed
    /\ UNCHANGED <<market, aim, registry, registeredAtm, connected, looping>>

\* The ladder counts as registered, even if the budget cut it short.
Mark ==
    /\ step = "mark" /\ step' = "idle" /\ registeredAtm' = aim /\ aim' = NoAtm
    /\ loop' = IF ~connected /\ loop = "off" THEN "waiting" ELSE loop
    /\ UNCHANGED <<market, list, registry, connected, subscribed, unsent, listing, losses>>

(***************************************************************************)
(* _run_loop and its callbacks, on one thread.                             *)
(***************************************************************************)
NewSocket ==
    /\ loop = "waiting" /\ loop' = "opening"
    /\ UNCHANGED <<market, registry, registeredAtm, connected, subscribed, unsent,
                   ensuring, listing, losses>>

NotOpened ==
    /\ loop = "opening" /\ loop' = "waiting"
    /\ UNCHANGED <<market, registry, registeredAtm, connected, subscribed, unsent,
                   ensuring, listing, losses>>

\* _on_open: the flag first ...
OnOpen ==
    /\ loop = "opening" /\ loop' = "opened"
    /\ connected' = TRUE /\ unsent' = FALSE
    /\ UNCHANGED <<market, registry, registeredAtm, subscribed, ensuring, listing, losses>>

\* ... then the registry, whatever is in it by then.
OnOpenList ==
    /\ loop = "opened" /\ loop' = "listed"
    /\ listing' = registry
    /\ UNCHANGED <<market, registry, registeredAtm, connected, subscribed, unsent,
                   ensuring, losses>>

OnOpenSend(sent) ==
    /\ loop = "listed" /\ loop' = "open" /\ listing' = {}
    /\ IF sent
       THEN subscribed' = subscribed \cup listing /\ UNCHANGED <<unsent, losses>>
       ELSE Loss /\ unsent' = TRUE /\ UNCHANGED subscribed
    /\ UNCHANGED <<market, registry, registeredAtm, connected, ensuring>>

\* The socket is gone before anybody is told.
LoseSocket ==
    /\ loop \in Up /\ loop' = "lost" /\ Loss
    /\ subscribed' = {} /\ listing' = {}
    /\ UNCHANGED <<market, registry, registeredAtm, connected, unsent, ensuring>>

OnClose ==
    /\ loop = "lost" /\ loop' = "waiting" /\ connected' = FALSE
    /\ UNCHANGED <<market, registry, registeredAtm, subscribed, unsent, ensuring, listing, losses>>

(***************************************************************************)
(* The market.                                                             *)
(***************************************************************************)
MoneyMoves(a) ==
    /\ a # atm /\ atm' = a
    /\ UNCHANGED <<expiry, registry, registeredAtm, connected, subscribed, unsent,
                   ensuring, looping, losses>>

Rollover ==
    /\ expiry < MaxExpiry /\ expiry' = expiry + 1
    /\ UNCHANGED <<atm, registry, registeredAtm, connected, subscribed, unsent,
                   ensuring, looping, losses>>

StreamNext ==
    \/ Resolve \/ Register \/ Look \/ TokenList \/ Mark
    \/ NewSocket \/ NotOpened \/ OnOpen \/ OnOpenList \/ LoseSocket \/ OnClose
    \/ \E sent \in BOOLEAN : Send(sent) \/ OnOpenSend(sent)
    \/ \E a \in Atms : MoneyMoves(a)
    \/ Rollover

StreamSpec == StreamInit /\ [][StreamNext]_streamVars

(***************************************************************************)
(* Properties.                                                             *)
(***************************************************************************)
\* "On every reconnect the socket resubscribes from this registry": whatever socket
\* is open, and whoever registered while it opened or closed, a contract that is in
\* the registry is subscribed once both threads have done their step, unless the
\* socket failed to send.  Neither thread holds a lock over flag and registry.
RegisteredIsSubscribed ==
    loop = "open" /\ step = "idle" /\ ~unsent => registry \subseteq subscribed

\* clear is for "expiry rollover" (AngelStream.clear).  Nothing calls it, and the
\* code does not keep this: where the money has not moved, ensure_subscribed calls a
\* ladder of an expiry that is over done.
LadderIsCurrent ==
    step = "idle" /\ registeredAtm = atm /\ Cardinality(registry) < MaxTokens =>
        Ladder(atm, expiry) \subseteq registry
=============================================================================
