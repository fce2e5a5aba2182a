----------------------------- MODULE Collector -----------------------------
(***************************************************************************)
(* One symbol's option-chain collector through a trading day               *)
(* (scripts/collect_option_snapshots.py): the process that logs in, waits  *)
(* for the open and takes a snapshot of each expiry every few minutes, and *)
(* the shell loop of docker-compose.yml that starts it again.              *)
(*                                                                         *)
(* It is one thread, so what the market and the broker do shows in what    *)
(* its calls return: each call can fail, MaxFaults times in all.  A        *)
(* contract list is named by what it was built from; quotes, Greeks, rows  *)
(* and the counters of the summary are left out.                           *)
(***************************************************************************)
EXTENDS Integers

CONSTANTS
    Strikes,       \* the strikes the money can be at, in steps
    Expiries,      \* --expiries
    MaxFaults      \* bound: calls that fail, and crashes

ASSUME CollectorAssumption ==
    Strikes \subseteq Nat \ {0} /\ Expiries \in Nat \ {0} /\ MaxFaults \in Nat

NoStrike == 0

VARIABLES
    at,            \* where the process is
    money,         \* the strike at the money
    due,           \* the last health check is ten minutes old
    known,         \* expiries: none yet, listed in the instrument master, or guessed
    ladder,        \* token_maps holds contracts
    lastAtm,       \* last_atm
    k,             \* the expiry whose turn it is
    taken,         \* a snapshot has been written in this pass of the loop
    summary,       \* the last row of the summary
    faults         \* bounded by MaxFaults

ladderVars == <<known, ladder, lastAtm>>
collectorVars == <<at, money, due, ladderVars, k, taken, summary, faults>>

Fault == faults < MaxFaults /\ faults' = faults + 1
Works == UNCHANGED faults

CollectorTypeOK ==
    /\ at \in {"down", "login", "wait", "top", "spot", "ladder", "snap", "sleep", "ended"}
    /\ money \in Strikes /\ lastAtm \in Strikes \cup {NoStrike}
    /\ {due, ladder, taken} \subseteq BOOLEAN
    /\ known \in {"none", "listed", "guessed"}
    /\ k \in 1 .. Expiries /\ faults \in 0 .. MaxFaults
    /\ summary \in {"none", "LOGIN_FAILED", "collected"}

CollectorInit ==
    /\ at = "login" /\ money \in Strikes /\ due = FALSE
    /\ known = "none" /\ ladder = FALSE /\ lastAtm = NoStrike
    /\ k = 1 /\ taken = FALSE /\ summary = "none" /\ faults = 0

\* What follows a fresh login: contracts are to be built anew.
DropLadder == ladder' = FALSE /\ lastAtm' = NoStrike /\ UNCHANGED known

(***************************************************************************)
(* Start and end.                                                          *)
(***************************************************************************)
\* fresh_login, all its attempts; without it the process writes a row and exits.
LogIn ==
    /\ at = "login"
    /\ \/ Works /\ at' = "wait" /\ UNCHANGED summary
       \/ Fault /\ at' = "down" /\ summary' = "LOGIN_FAILED"
    /\ UNCHANGED <<money, due, ladderVars, k, taken>>

OpenMarket == at = "wait" /\ at' = "top" /\ UNCHANGED <<money, due, ladderVars, k, taken, summary, faults>>

\* After the bell, or before it if the process starts too late.
Close ==
    /\ at \in {"wait", "top"} /\ at' = "ended" /\ summary' = "collected"
    /\ UNCHANGED <<money, due, ladderVars, k, taken, faults>>

Crash ==
    /\ at \notin {"down", "ended"} /\ Fault /\ at' = "down"
    /\ UNCHANGED <<money, due, ladderVars, k, taken, summary>>

\* Fault: the container ends with its process.
StayDown == at = "down" /\ UNCHANGED collectorVars

\* The shell loop of the container, within its hours.
StartAgain ==
    /\ at = "down" /\ at' = "login"
    /\ due' = FALSE /\ k' = 1 /\ taken' = FALSE
    /\ known' = "none" /\ ladder' = FALSE /\ lastAtm' = NoStrike
    /\ UNCHANGED <<money, summary, faults>>

(***************************************************************************)
(* One pass of the loop.                                                   *)
(***************************************************************************)
\* The health check, when it is due: a session found dead is replaced, or the pass
\* begins again after a minute.
Health ==
    /\ at = "top" /\ taken' = FALSE
    /\ \/ ~due /\ at' = "spot" /\ Works /\ UNCHANGED <<due, ladderVars>>
       \/ due /\ at' = "spot" /\ Works /\ due' = FALSE /\ UNCHANGED ladderVars
       \/ due /\ at' = "spot" /\ Fault /\ due' = FALSE /\ DropLadder
       \/ due /\ at' = "top" /\ Fault /\ UNCHANGED <<due, ladderVars>>
    /\ UNCHANGED <<money, k, summary>>

\* The spot; without it the pass begins again after half a minute.
Spot ==
    /\ at = "spot"
    /\ \/ at' = "ladder" /\ Works
       \/ at' = "top" /\ Fault
    /\ UNCHANGED <<money, due, ladderVars, k, taken, summary>>

\* near_expiries: without an instrument master, a date a week ahead.
Listed == \/ known = "none" /\ known' = "listed" /\ Works
          \/ known = "none" /\ known' = "guessed" /\ Fault
          \/ known # "none" /\ UNCHANGED <<known, faults>>

\* The expiries are read once.  build_tokens, when the money is another strike than
\* it was, finds no contract of an expiry that nobody listed.
Rebuild ==
    /\ at = "ladder" /\ at' = "snap" /\ k' = 1
    /\ Listed
    /\ IF lastAtm # money
       THEN ladder' = (known' = "listed") /\ lastAtm' = money
       ELSE UNCHANGED <<ladder, lastAtm>>
    /\ UNCHANGED <<money, due, taken, summary>>

NextExpiry == IF k < Expiries THEN k' = k + 1 /\ at' = "snap" ELSE k' = 1 /\ at' = "sleep"

\* take_snapshot for one expiry, if it has contracts: it is written, or it fails; after
\* an authentication error the login is fresh, and so will be the contracts, or it is not.
Snap ==
    /\ at = "snap" /\ NextExpiry
    /\ \/ ladder /\ Works /\ taken' = TRUE /\ UNCHANGED ladderVars
       \/ ladder /\ Fault /\ UNCHANGED <<taken, ladderVars>>
       \/ ladder /\ Fault /\ UNCHANGED taken /\ DropLadder
       \/ ~ladder /\ Works /\ UNCHANGED <<taken, ladderVars>>
    /\ UNCHANGED <<money, due, summary>>

NextTick == at = "sleep" /\ at' = "top" /\ UNCHANGED <<money, due, ladderVars, k, taken, summary, faults>>

HealthDue == ~due /\ due' = TRUE /\ UNCHANGED <<at, money, ladderVars, k, taken, summary, faults>>

MoneyGoes(s) == s # money /\ money' = s /\ UNCHANGED <<at, due, ladderVars, k, taken, summary, faults>>

Goes == LogIn \/ OpenMarket \/ StartAgain \/ Health \/ Spot \/ Rebuild \/ Snap \/ NextTick

CollectorNext == Goes \/ Close \/ Crash \/ HealthDue \/ \E s \in Strikes : MoneyGoes(s)

\* The process runs and is started again; nothing says that the market closes.
CollectorFairness == WF_collectorVars(Goes)

CollectorSpec == CollectorInit /\ [][CollectorNext]_collectorVars /\ CollectorFairness

(***************************************************************************)
(* Properties.                                                             *)
(***************************************************************************)
\* "Auto re-login on AG8001 auth errors during the day" (the script's first lines):
\* whatever calls fail, in whatever order and at whichever expiry, snapshots are taken
\* again while the market is open, once the expiries come from an instrument master.
CollectsAgain == []<>(taken \/ at = "ended" \/ known = "guessed")

\* "Three things that make this not fail silently".  The code does not keep this: the
\* guess of near_expiries is kept for the day and has no contract, so that one failed
\* download of the master leaves the whole day without a row and without an error.
NeverSilent == []<>(taken \/ at = "ended")
=============================================================================
