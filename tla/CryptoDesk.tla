----------------------------- MODULE CryptoDesk -----------------------------
(***************************************************************************)
(* What an operator sets from the crypto dashboard (api/routes_crypto.py): *)
(* the toggles of strategies and instruments (core/strategy_toggles.py),   *)
(* which the entry tick reads twice, and the settings in .env; and the     *)
(* wallet it shows, behind a cache that the heartbeat empties              *)
(* (core/brokers/delta_crypto.py).                                         *)
(*                                                                         *)
(* The same page shows the shadows (Shadows), which share no state with    *)
(* this.  No strategy is registered today; the toggles are modelled for    *)
(* one that trades one instrument.  Requests run on a pool of threads.     *)
(***************************************************************************)
EXTENDS Integers, FiniteSets, Shadows

CONSTANTS
    Strategies,
    SettingKeys,        \* _MANAGED_SETTINGS, of those that a request can get wrong
    OkTtl,       \* _BAL_CACHE_TTL, in ticks
    ErrorTtl,    \* the cool-down after a failed call, in ticks
    MaxSets      \* bound: requests, failures and heartbeats

ASSUME CryptoDeskAssumption ==
    /\ {OkTtl, ErrorTtl} \subseteq Nat \ {0} /\ MaxSets \in Nat

VARIABLES
    file,        \* strategy_toggles.json: [Strategies -> [enabled, instrument : BOOLEAN]]
    acked,       \* what the last request about each flag was answered
    forgotten,   \* a request failed to load the file, and went on from the defaults
    tick,        \* the entry tick: the strategy and where it is
    settings,    \* .env: [SettingKeys -> the number of the request that set it]
    answer,      \* of the last request about the settings: "none", "ok", "400"
    wallet,      \* _bal_cache: "empty", "value", "error"
    walletAge,   \* its age
    sets         \* bounded by MaxSets

deskVars == <<file, acked, forgotten, tick, settings, answer, wallet, walletAge, sets>>

Flags == {"enabled", "instrument"}
Defaults == [s \in Strategies |-> [f \in Flags |-> TRUE]]
NoTick == [strategy |-> "none", at |-> "idle"]

DeskInit ==
    /\ file = Defaults /\ acked = Defaults /\ forgotten = FALSE
    /\ tick = NoTick
    /\ settings = [k \in SettingKeys |-> 0] /\ answer = "none"
    /\ wallet = "empty" /\ walletAge = 0 /\ sets = 0

Counted == sets < MaxSets /\ sets' = sets + 1

---------------------------------------------------------------------------
(* strategy_toggles *)

\* _load: the file, or the defaults when it cannot be read.
Loads == {file, Defaults}

Flagged(data, s, f, on) == [data EXCEPT ![s][f] = on]

\* Load, change and replace are under one lock; a file that cannot be written raises, and
\* leaves the old one.
Toggle(s, f, on) ==
    /\ Counted
    /\ \E data \in Loads :
        /\ file' = Flagged(data, s, f, on)
        /\ forgotten' = (forgotten \/ data # file)
    /\ acked' = [acked EXCEPT ![s][f] = on]
    /\ UNCHANGED <<tick, settings, answer, wallet, walletAge>>

ToggleFails ==
    /\ Counted
    /\ UNCHANGED <<file, acked, forgotten, tick, settings, answer, wallet, walletAge>>

\* is_strategy_enabled, before the strategy decides.
AskStrategy(s) ==
    /\ tick.at = "idle"
    /\ \E data \in Loads :
        /\ data[s]["enabled"]
        /\ tick' = [strategy |-> s, at |-> "decided"]
    /\ UNCHANGED <<file, acked, forgotten, settings, answer, wallet, walletAge, sets>>

\* is_instrument_enabled, after it: the file is read for the strategy, and again.
AskInstrument ==
    /\ tick.at = "decided"
    /\ \E data \in Loads :
        /\ data[tick.strategy]["enabled"]
        /\ tick' = [tick EXCEPT !.at = "instrument"]
    /\ UNCHANGED <<file, acked, forgotten, settings, answer, wallet, walletAge, sets>>

Enters ==
    /\ tick.at = "instrument"
    /\ \E data \in Loads :
        /\ data[tick.strategy]["instrument"]
        /\ tick' = [tick EXCEPT !.at = "entered"]
    /\ UNCHANGED <<file, acked, forgotten, settings, answer, wallet, walletAge, sets>>

\* A flag is off, the strategy has nothing to say, or the order is out.
TickEnds ==
    /\ tick.at # "idle" /\ tick' = NoTick
    /\ UNCHANGED <<file, acked, forgotten, settings, answer, wallet, walletAge, sets>>

---------------------------------------------------------------------------
(* update_crypto_settings *)

\* Key by key: what is right is written, what is wrong is reported at the end.
SetSettings(right, wrong) ==
    /\ Counted
    /\ settings' = [k \in SettingKeys |-> IF k \in right THEN sets' ELSE settings[k]]
    /\ answer' = IF wrong = {} THEN "ok" ELSE "400"
    /\ UNCHANGED <<file, acked, forgotten, tick, wallet, walletAge>>

---------------------------------------------------------------------------
(* get_wallet_breakdown *)

WalletHit == \/ wallet = "value" /\ walletAge < OkTtl
             \/ wallet = "error" /\ walletAge < ErrorTtl

\* A wallet with nothing in it is an answer that is not kept.
AskWallet ==
    /\ ~WalletHit
    /\ \/ wallet' = "value" /\ walletAge' = 0 /\ UNCHANGED sets
       \/ UNCHANGED <<wallet, walletAge, sets>>
       \/ wallet' = "error" /\ walletAge' = 0 /\ Counted
    /\ UNCHANGED <<file, acked, forgotten, tick, settings, answer>>

\* _wallet_heartbeat empties the cache, the cool-down with it, and asks.
Heartbeat ==
    /\ wallet # "empty" /\ Counted /\ wallet' = "empty" /\ walletAge' = 0
    /\ UNCHANGED <<file, acked, forgotten, tick, settings, answer>>

WalletAges ==
    /\ wallet # "empty" /\ walletAge < ErrorTtl /\ walletAge' = walletAge + 1
    /\ UNCHANGED <<file, acked, forgotten, tick, settings, answer, wallet, sets>>

DeskNext ==
    \/ \E s \in Strategies, f \in Flags, on \in BOOLEAN : Toggle(s, f, on)
    \/ ToggleFails
    \/ \E s \in Strategies : AskStrategy(s)
    \/ AskInstrument
    \/ Enters
    \/ TickEnds
    \/ \E right, wrong \in SUBSET SettingKeys : right \cap wrong = {} /\ SetSettings(right, wrong)
    \/ AskWallet
    \/ Heartbeat
    \/ WalletAges

DeskSpec == DeskInit /\ [][DeskNext]_deskVars

---------------------------------------------------------------------------
(* Properties *)

\* A flag stays as the last request about it left it, whatever is set of the other flags
\* meanwhile and by whom, as long as no load of the file fails.
TogglesKept == ~forgotten => file = acked

\* What the page shows as set and as open is so: every disabled strategy stays disabled, and
\* every open shadow is managed.
DeskIsTrue == TogglesKept /\ ShadowsManaged

\* A flag stays whatever fails.  Not so: a request whose load fails writes back the
\* defaults with its own change, which enables everything else that was disabled ("Disabling
\* is explicit").
TogglesAlwaysKept == file = acked

\* A strategy enters only what is enabled.  Not so: a read that fails gives the defaults, and a
\* toggle may fall between the reads of a tick.
EntersTheEnabled ==
    tick.at = "entered" => \A f \in Flags : file[tick.strategy][f]

\* A request that is refused changes nothing.  Not so: what was right of it is written.
RefusedChangesNothing == [][answer' = "400" /\ sets' # sets => settings' = settings]_deskVars

---------------------------------------------------------------------------
(* _contracts_for_notional *)

Least(a, b) == IF a < b THEN a ELSE b

\* The contracts for a budget at a price: size is what the bot believes a contract to be.
Contracts(budget, price, size, cap, multiple) ==
    LET wanted == Least(cap, budget \div (size * price))
    IN  IF wanted * size * price > multiple * budget
        THEN (multiple * budget) \div (size * price) ELSE wanted

\* The order is worth at most a multiple of the budget "even if CONTRACT_SIZE_BY_ASSET is wrong
\* for a symbol".  Not so: both sides of the comparison use the size that is believed, so that
\* the ceiling never binds, and only the cap of contracts does.
CeilingHolds(budget, price, size, cap, multiple, trueSize) ==
    Contracts(budget, price, size, cap, multiple) * trueSize * price <= multiple * budget
=============================================================================
