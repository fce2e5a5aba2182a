# A specification of the AI trading system

TLA+ models of the order path, the risk loops, the decision procedure, the feeds, what is
learnt from the day and what an operator sees of this repository; the TLC configurations
that check them on small instances; and proofs, checked by the TLA+ proof system, of what
holds for every instance. Line numbers are those of the commit the models were written
from; `PROJECT.json` maps every definition to the lines it stands for, and lists the runs,
mutants, findings, theorems and hazards.

| module | models | run | theorems |
|---|---|---|---|
| `Sentinel` | `sentinel/main.py` | `sentinel`, `sentinel_exits` | `SentinelProofs` (5) |
| `BrainSentinel` | `nse/execution/options_runner.py`, `live_session.py`, `sentinel_client.py` | `brain`, `brain_reentry` | `BrainSentinelProofs` (3) |
| `Council` | `nse/council.py`, the `_deliberate` rules of `nse/lenses/` | `council` | `CouncilProofs` (4) |
| `CryptoRunner` | `core/execution/crypto_runner.py`, `core/brokers/delta_crypto.py` | `crypto`, `crypto_drops` | `CryptoRunnerProofs` (4) |
| `LensBrain` | `nse/brain.py`, `nse/lenses/bootstrap.py` | `learning` | `LearningProofs` (2) |
| `DayJournal` | `nse/journal.py`, `nse/selftune.py`, sessions of the runner, `core/mongo.py` | `learning` | `LearningProofs` (2) |
| `AngelStream` | `nse/ws/angel_stream.py` | `learning` | `LearningProofs` (1) |
| `LiveSnapshot` | `nse/snapshot.py` | `learning`, `live_build` | `LearningProofs` (1) |
| `Replay` | `nse/backtest/`, `core/backtest/crypto_replay.py` | `learning` | `LearningProofs` (3) |
| `Charts` | `core/chart/` | `learning` | `LearningProofs` (2) |
| `CandleArchive` | `core/chart/ohlc.py`, `delta_exchange/fetch_*.py` | `learning` | `FeedsProofs` (1) |
| `AngelSession` | `data/angel_fetcher.py` | `feeds` | `FeedsProofs` (2) |
| `Collector` | `scripts/collect_option_snapshots.py` | `feeds` | |
| `DeltaStream` | `core/ws/delta_stream.py` | `feeds` | |
| `SignedIntents` | `sentinel/auth.py` | `operations` | `OperationsProofs` (4) |
| `Combo`, `ComboLife` | `nse/broker/angel_broker.py`, `nse/execution/nse_runner.py`, `nse/risk.py` | `operations` | `ComboProofs` (3) |
| `Heartbeats` | the beat of `live_session.py`, the watch loop of `sentinel/main.py` | `operations` | `OperationsProofs` (1) |
| `BrainGuard` | `docker/brain_guard.py`, `docker/preflight.py` | `operations`, `guard` | `OperationsProofs` (1) |
| `ChainSocket` | `api/server.py`, `api/routes_nse.py`, the page that merges | `operations` | `OperationsProofs` (1) |
| `Shadows`, `CryptoDesk` | shadow trades, `api/routes_crypto.py`, `core/strategy_toggles.py` | `operations` | `OperationsProofs` (1) |
| `StatusBoard` | the panel of `api/routes_nse.py`, `docker/preflight.py` | `operations` | `OperationsProofs` (1) |

`MCSentinel`, `MCBrainSentinel`, `MCCouncil` and `MCCryptoRunner` extend one module for TLC.
`MCLearning`, `MCFeeds` and `MCOperations` extend several that share no state: a variable
`topic`, set once, says which of them a behaviour is about, so that their states add up and do
not multiply. A definition that nothing uses, commented "Fault:" or standing beside another
of the same kind (`EndBelowStart` beside `ArchiveEnd`), is a plausible mistake in the code that
the other translates; `PROJECT.json` ("mutants") pairs each with the property that detects it.

    tlc -config MCSentinel.cfg MCSentinel
    tlapm SentinelProofs.tla

## 1. The system

Two programs trade. The options program is split in two hosts: the *brain tier* (data,
lenses, council, runner) decides, the *execution sentinel* alone owns the broker's order
API, and signed envelopes go from one to the other. The crypto program is one process
with a scheduler whose jobs trade at Delta Exchange directly.

    angel_fetcher, angel_stream -> snapshot -> lenses -> council -> options_runner
        -> sentinel_client --HTTP--> sentinel -> Angel broker
    delta_stream -> crypto_runner (entry | manage | reconcile | kill) -> Delta broker
    decisions -> Mongo (journal, brains, gate) -> dashboard (api/), next session
    collectors, archives -> files -> back-tests

### Components, their state, what is hard, what makes them correct

**Execution sentinel** (`sentinel/main.py`): `STATE.positions`, `last_heartbeat`,
`deadman_fired`, all in memory. Handlers run on one event loop, but `_place` and
`_flatten_all` run in threads beside it and beside each other, without a lock. Hard:
overlapping flattens over private copies, an OPEN in flight when the switch fires, a broker
whose answer is lost, a restart with an empty book. Correct: no accepted order is forgotten,
exits and book entries are backed by orders, CLOSE tells the truth, a latched book only
shrinks, the switch empties what it found.

**Intent envelopes** (`sentinel/auth.py`): the nonce cache. Hard: two clocks, a sweep by
age, copies that are repeated, delayed or damaged. Correct: an envelope is accepted once,
a damaged copy uses nothing up, a prompt envelope passes.

**Sentinel client and heartbeat** (`nse/execution/sentinel_client.py`,
`live_session._start_heartbeat`): stateless calls and a thread that beats. Hard: time-outs,
where a request may have been lost, executed or be on its way; a beat that takes longer than
the interval. Correct: the switch spares a blip and is pulled on a brain that is gone.

**Options runner and live session**: per symbol `open_positions`, the day of the session,
the last spot, a flag that reconciliation failed. Hard: rebuilding the book after a restart
from the sentinel's, answers that differ between rehearsal and armed, an unanswered OPEN.
Correct: a symbol is held once, a position is dropped only when closed and exited in the end.

**Council** and the rules by which lenses react to each other: stateless but for weights and
gate. Hard: that a second round which only lowers confidences gives a decision that trades
less. Correct: round 1 lowers only, a trade goes the way of a lens with weight, and the others
may doubt it, or doubt whoever doubts it, but not confirm it.

**Lens brains, self-tuning, journal** (`nse/brain.py`, `nse/lenses/bootstrap.py`,
`nse/selftune.py`, `nse/journal.py`): documents in Mongo, read, changed and written whole by
several processes. Hard: a seed racing a review, a failed read taken for a fresh brain, a
restart in mid-day, a replay against the same database, a gate of another release. Correct:
votes are earned, suspensions have evidence, the gate stays in its band, yesterday is live.

**Crypto runner, Delta broker**: `_OPEN_POSITIONS`, `_KILLED`, the day's P&L, in memory;
brackets and positions at the exchange. Three scheduler jobs and the kill endpoint change the
book without a lock. Correct: tracked positions keep a bracket (they do while no entry tick
overlaps another thread, and not otherwise), no exit opens, a stop halts
entries, book and exchange converge. Beside it a ring of shadow trades, three threads on it.

**Angel combos and NSE runner**: multi-leg orders, polls, the revert of a partial combo, GTT
rules; two ticks sharing book and margin. Hard: one leg failing, a fill after the poll gave
up, a lost answer. Correct: a combo is booked and left once, a rule is armed on fills only.
`ENABLE_NSE_RUNNER` is off and no strategy is registered; the model is of what it then does.

**Data session and streams** (`data/angel_fetcher.py`, `nse/ws/angel_stream.py`,
`core/ws/delta_stream.py`): one login shared by all threads and, through `.env`, by all
containers; reconnect loops; a registry of contracts. Hard: late failures of calls that began
with an older session, failed logins and saves, registrations while a socket opens. Correct:
TOTP logins are bounded, the session and the sockets come back, what is registered arrives.

**Snapshots, charts, replays, archives** (`nse/snapshot.py`, `core/chart/`, `nse/backtest/`,
`delta_exchange/`): caches that outlive the day; pure functions of a growing past; files that
are pulled once. Hard: mixing days and symbols, looking ahead, page boundaries. Correct: a
snapshot is of one session, the past is not redrawn, edges are not drift, no bar is skipped.

**Dashboard, toggles, guard** (`api/`, `core/strategy_toggles.py`, `docker/`): a chain pushed
as differences, a status panel, flags in a file, a check of imports before the council starts.
Hard: what is shown is built in several threads from what other processes last wrote. Correct:
the screen follows the chain, silence shows, a flag stays as set, no forbidden module unseen.

Not modelled: see section 5.

## 2. The models

### Sentinel
One action per handler, since a handler runs on the loop without an `await` before it
returns or hands a function to `asyncio.to_thread`: `Heartbeat`, `AcceptOpen`,
`AcceptClose`, their rehearsal forms `AcceptPaperOpen` and `AcceptPaperClose`
(`LIVE_ORDERS` off), `ClearDeadman`, `FireDeadman`. A thread walks through the places of
`_place` (an OPEN: `resolve`, `record`; a CLOSE: `close`) and `_flatten_all` (`flatten`,
`reach`, `sweep`, `pop`): each broker call and each access of the book is a step. `book` is the
keys of `STATE.positions`, `todo[t]` the copy thread `t` iterates over. An intent stands for
its order id and position key. `entered` and `exits` are the exchange, external: it accepts,
refuses, or accepts and loses the answer. The history variable `lost` holds positions whose
record went with the process or the answer: from there no code here could recover it.
`used` carries what `SignedIntents` shows, that an intent is submitted once.

### BrainSentinel
The loop's steps (`StartCycle`, the reconcile of a session's begin, `manage_exits`,
`_blocked` and `_submit`) and the one outstanding `call`, which `Land`s (the sentinel acts),
is answered, or is given up on. One given up on may have been lost, have landed with its
answer lost, or be in `stray` and land later. `tick` is which of the two loop bodies runs:
`OptionsRunner.on_snapshot`, or the copy of it inside `live_session.run`, which leaves
`manage_exits` out. `armed` is the sentinel's `LIVE_ORDERS`: the answer to an OPEN has a
`position_id` only when it is off. The sentinel is reduced to its book, its latch and its
answers. `Decline` stands for all the refusals that depend on market data. `overtaken`, a
history variable, marks an OPEN that landed after its runner had restarted or reconciled
without it.

### Council
`Poll` gives every lens a reading of its kind (round 0) and applies its `_deliberate` rule
(round 1) to the others' round 0; `Settle` is `_resolve`: the lead by weight times
confidence (ties by seat), the gate, the objections, the vote bar. The nonlinear parts are
kept: confidences are whole hundred-thousandths, cuts are the code's factors rounded down,
an objection halves. A lens that raises in round 1 keeps its round 0 reading
(`safe_deliberate`), in round 0 abstains.

### CryptoRunner
Four threads over `slot` (`_OPEN_POSITIONS`): entry, manage, reconcile, kill. A position is
an object of `heap`, because a thread that copied the book goes on with the object although
the book no longer has it; objects nothing refers to are reset and reused. Each broker call
and each access of the book after one is a step; loops take their items in any order. The
exchange (`net`, `armed`) is external: it nets a symbol's orders, executes a reduce-only
order up to the position it finds, keeps one bracket per symbol. Any call may fail, done or
not; an entry order may be executed twice, because `_request` repeats a POST after a
timeout. `Restart` loses all memory, the kill switch with it. The dictionary of strategies is
empty at this commit, so the runner is inert until one is registered; the model is of what it
then does. An order in flight at a crash and the broker's 15 s position cache (read only by
the 30 s reconcile) are left out. One kill runs at a time.

### SignedIntents, Heartbeats
`verify` in the cases it can end in (`Accept`, `RefuseUnfresh`, `RefuseReplay`,
`RefuseDamaged`); a copy can arrive at any time, any number of times. `now` is the sentinel's
clock, a stamp is at most `MaxSkew` from it. The sweep of the cache is part of the step that
looks a nonce up. HMAC is external. `Heartbeats` has the clock of the dead man's switch: the
thread's waits, a beat that arrives within `Latency`, times out after `Timeout` or is refused, the
pauses of a brain that stops, hangs or sleeps outside market hours, and the watch loop.

### Combo, ComboLife
The two ticks of the NSE runner with the test order's thread, a step per broker call:
entry orders leg by leg, polls, rules, the revert, the close. An accepted LIMIT order may rest
before it fills, a rule stays armed until it fires or is cancelled, any answer may be lost, and
any other thread may drop the shared session so that a call raises. `ComboLife` is the
abstract specification: an attempt is entered once, held, left, and each leg is squared off at
most once and only while the combo is being left. `Combo` refines it by the mapping `Stage`
(`LivesOnce == Life!LifeSpec`).

### AngelSession, Collector, DeltaStream
`AngelSession` has the threads that share one `AngelFetcher` (quotes, candles, LTP, VIX, a
forced login), with the lock only `_ensure_logged_in` takes, the cool-down after a failed
login, the body or exception by which each kind of call detects a dead session, the tokens in
`.env` that another container overwrites, and the stream's thread that reads them there. A
token is a number, those of TOTP logins counted. `Collector` is one symbol's day: login,
waiting for the bell, the instrument master, expiry by expiry, re-login on three kinds of
failure, and the shell loop that starts it again. `DeltaStream` is `_run_loop` with its
back-off, the callbacks of the socket, and the reader that falls back to REST and to a cache.

### AngelStream, LiveSnapshot
`ensure_subscribed` (flag, registry, budget, last ATM) against the thread that opens,
resubscribes and closes. `LiveSnapshot` names frames of bars by their sessions and a level of
open interest by the day it was observed, and keeps the three caches that outlive `build_live`.

### LensBrain, DayJournal
`LensBrain` reads, changes and writes one lens's document from two processes, the daily review
and an operator's seed, with failing reads and writes; the review scores the window of trades,
promotes, strikes, suspends, retires and reinstates. `DayJournal` has two processes, a live
session and a replay against the same database: begin, journal, restart, end, the gate with
its evidence and its band, and a database handle that a process gives up for good.

### Replay, Charts, CandleArchive
The session, and the chart, grow by a bar; everything else is a function of it, computed over
the whole as the code does, so that a property can say what later bars must not change.
`CandleArchive` pulls one contract's bars with each of the four pagers: where a page starts,
which of its bars the exchange's limit lets through, where the next page ends, what a failed
call or a killed process leaves in the file, and which file is pulled again.

### BrainGuard, ChainSocket, Shadows, CryptoDesk, StatusBoard
`BrainGuard` runs the guard's three steps over a graph of imports: a build is what importing
each module loads, and a module that cannot be imported leaves a part of that behind.
`ChainSocket` builds a payload in the server's steps (spot, expiry by a cache that another
viewer's thread empties, chain), sends what differs, and merges it in the page. `Shadows` has
the ring of shadow trades and its three threads. `CryptoDesk` has the toggles' file between
requests of a pool of threads and a strategy's two reads of it, the settings and the wallet's
cache. `StatusBoard` lets minutes pass over the decisions in Mongo and computes the panel.

## 3. What the runs show

Bounds are named in the modules and set in the `.cfg` files. Runs of several components check
each property in the behaviours that are about it; in the others it is true at rest.

**`sentinel`** (2 intents, 1 worker beside the dead-man's thread, 1 failure; 45,300 states).
`NothingForgotten`: an accepted entry is in the book, about to be written there, exited, or
lost with process or answer. `OrdersBacked`: exits and armed book entries are of accepted
entries; a rehearsal orders nothing. `CloseIsTruthful`: a CLOSE answers ok only if an exit
was accepted. `LatchedBookOnlyShrinks`: latched, with no open in flight, the book never
grows and no open starts. `DeadmanFlattens`: what is in the book when the switch fires
leaves it, if no call fails. Two intents give a flatten a first and a second item between
which another thread can act; the two threads are one flatten beside one request.

**`brain`** (2 symbols, 2 decisions, cap 2, 1 fault, both ticks, armed or not; 1,108,414
states). `RehearsalHoldsOnce`: a rehearsal of the live loop holds a symbol twice only if an
OPEN overtook a restart. `DroppedIsClosed`: within a session a runner drops a position whose
id it knows only when the sentinel no longer holds it. `HorizonExits`: under `on_snapshot`
every rehearsed position past its horizon is closed, forgotten and unknown ones included.
Two symbols make the runners see each other's positions, which reconcile adopts and a CLOSE
flattens; two decisions allow a symbol to be entered twice.

**`council`** (7 lenses with their rules, three of them weighted, 1 crash; 283,286 states).
`RoundOneOnlyLowers`; `BackedByWeight`: a trade goes the way a weighted lens read the
snapshot on its own; `PeersNeverConfirm`: hold the deliberation again with a lens that does
not lead abstaining from the poll, so that neither round 1 nor `_resolve` hears it. If the trade
is lost, that lens had not agreed it into being: in round 1 it had doubted an objector, or a
voice that outweighs the lead, and cut it or stood it down. So a lens without weight *can* cause
a trade. With volume_oi long at 0.9, ict_smc short at 0.32 and a thin liquidity, ict_smc falls
to 0.24, below the objection floor, and the trade is made; without liquidity the objection
stands and it is not. The property says that this is the only way. Its exception is greeks and
smile, each of which takes the other's abstention for a doubt of its own. Without any one of
its disjuncts TLC finds the property violated; greeks is weighted for the last of them. A low and a high reading per side lie on the two
sides of each threshold after each cut. The lenses not on this roster keep the default rule,
which changes nothing in round 1.

**`crypto`** (1 strategy that sells, 3 objects, positions up to 2 contracts, 2 events of
entries, failures, kills and restarts; 361,040 states, with liveness).
`ProtectedUnlessOverlapped`: as long as no entry tick overlaps another thread and no call
fails, a position no thread is working on is the one the exchange has, with its bracket armed
and on record, and a flat symbol has no bracket left that could open one. `ExitsNeverOpen`,
`KillHalts`. `BookConverges`: book and exchange agree again after whatever parted them.
`KilledPositionsEnd`: what is live after a stop ends. Two events reach a lost answer after an
entry, a kill or a restart during one, an entry executed twice, and a bracket that outlives
its position. The strategy sells, because a negative net distinguishes sizes from signed
sizes; three objects are as many as are held at once here, a fourth adds no state. With both
sides liveness takes longer than a run should; what is safety is proved for them too.

**`learning`** (1,453,427 states, seven components).
`VoteIsEarned`: a lens votes with more than the cap of probation only after twice a promotion's
sample; `SuspendedOnEvidence`: a review benches a lens only if a trade it backed or let pass did
worse than one it opposed or did not back (three trades, one strike before a suspension, one fault).
`GateInBand`: the gate in force is within the band of the release that runs, whatever another
release stored; `YesterdayIsLive`: what a session reads as yesterday is the last live journal
before it (three days, one mishap, two bootstrap values).
`RegisteredIsSubscribed`: an open socket was asked for all the registry holds, unless it failed
to send (a ladder of three strikes, three places of the money, a budget that two ladders
exceed). `OneSession`: no bar counts both as the session's and as prior, and a change of open
interest is one of the snapshot's day (two symbols, five days, a restart, nights slept through).
`DriftIsNotEdge`: adding the same drift to every horizon changes no lens's edge;
`TradesArePossible`: a replayed option trade is bought and sold when its contract traded, one at
a time; `NothingRepaints`: no later minute changes what a lens was shown or the return it was
given (five minutes of a session, horizon 2). `NothingRedrawn`: no later bar changes a sweep
that was reported or a trade that was resolved; `StopComesFirst`: a setup sized from any hit rate
loses at most a twentieth at its stop and has 19 stops to its liquidation (seven bars with
swings, sweeps of both sides, a target and a bar that touches both; prices are whole ticks, and
a quotient that would vanish is rounded up).
`ArchiveIsWhole`: a file made without a failure has every bar of its contract, and only a
skipped chunk of Angel's leaves a hole. The window's very first bar is excepted: where the
exchange's limit is the page, full pages that end on it leave it over (nine bars in pages of
two, the limit equal to the page and above it, two failures, all contracts that begin and end
within the window).

**`feeds`** (467,886 states, with liveness).
`TotpSpared`: a process makes no more TOTP logins than one, one per expired token and one per
mishap, however late failures of other threads drop the session. `ConnectionsHeal`:
`SessionHeals`, the session in place is in the end one that Angel accepts, of the day's date;
`StreamReturns`, the Angel stream opens again unless `.env` holds a dead token; `StreamReopens`,
Delta's socket opens again after every outage. `SnapshotsGoOn`: the collector takes snapshots
again after any three failed calls or crashes. Two callers and the stream with two events
(expiry, failed login, failed save, another container, restart) let one thread's late failure
meet another's fresh login; three outages let the wait reach its ceiling.

**`operations`** (1,007,050 states, eight components).
`AcceptedOnce`, `PromptIsAccepted` (two envelopes, age bound 2, skew 1, a horizon of more than
twice the cache's lifetime; with skew equal to the age bound TLC finds an envelope accepted
twice). `ArmedOnlyFilled`: a rule is armed only on a leg that filled; `LivesOnce`: `Combo`
implements `ComboLife` (two combos of two legs, one event of a failure, lost answer or restart).
`SwitchIsTrue`: the switch spares a brain that misses one beat, and an overdue one is pulled
at the loop's next look (the code's 5, 8 and 30 s in units of five). `OnlyTheRunnerLeaks`: a
build the guard starts has a forbidden module loaded only by way of the runner (or, in
preflight, of the client) (eight builds of six modules). `ScreenIsCurrent`: the page shows of
every strike what the last build found of it, and no chain is of an expiry that is over (three
strikes, three changes, midnight, failures, reconnection). `DeskIsTrue`: as long as no load
fails, every flag is as its last request left it, and an open shadow is managed or pushed out
(two strategies, three requests; a ring of two, three signals). `SilenceShows`: the panel is
not green over a silent council, a latched or absent sentinel, an absent database or a council
without weight (two symbols, two troubles).

### Disagreements with what the repository says

| run | what TLC finds |
|---|---|
| `sentinel_exits` | Two overlapping flattens (a CLOSE and the switch, or two CLOSEs) both order the exit of one position: "close every open position" sells it twice. |
| `brain_reentry` | Armed, the answer to an OPEN has no `position_id`, so the runner does not record it and enters the symbol again. |
| `crypto_drops` | A reconcile tick that read the exchange before an entry was executed takes the new position for closed: it cancels its bracket and drops it. |
| `live_build` | With two symbols in one process, each observation drops the other's open-interest baseline: no contract ever has a change. |
| `guard` | The guard's first step imports the runner, and with its package the broker, before the copy its second step compares with. |

None needs a failing call. That of `crypto_drops` needs an entry tick that overlaps another
thread: `ProtectedUnlessOverlapped` says that one lock around it would be enough.
`PROJECT.json` ("findings") quotes the line each contradicts.

More properties are stated in the modules, under "Not true of the code" or with a comment that
says so, which TLC refutes; no run is spent on them:

- `Sentinel.UnattendedIsFlattened`: an OPEN in flight when the switch fires is recorded after
  the sweep, and the latch keeps the loop from sweeping again.
- `BrainSentinel.EveryPositionExits`: the live loop never calls `manage_exits`.
  `ForgetsNothing`: a rehearsing sentinel answers ok to the CLOSE of an id it never had.
- `Council.LessUnlessSilenced`'s complement `BindingTradesLess`: round 1 can silence an objector,
  so that binding it executes a trade that round 0 refused, although no confidence rose.
- `CryptoRunner.AtRestProtected` (with both sides): an exit that copied the book before the first
  position's bracket fired cancels the bracket of the position entered since, on the other side.
- `Charts.TwentyStopsAway`: 19, as the maintenance margin comes off. `OfferIsOpen`: with
  `within_bars` 1 a setup may be a bar old and already stopped.
- `LensBrain.TradesAreScored`: `journal_decision` writes `round0` and `round1`, the score reads
  `verdicts`. `LiveRecordKept`: a seed after a failed read overwrites a live record.
- `DayJournal.RegimeFromClosed`: the percentile of the day's range filters neither source nor date.
- `AngelStream.LadderIsCurrent`: nothing calls `clear` at a rollover.
  `LiveSnapshot.PriorIsLastSession`: a process that slept serves yesterday's bars until the
  third bar of the morning, and a prior cut at yesterday's first bar for the day.
- `Replay.EveryPurchaseCounts`: a contract not quoted again after the purchase leaves no trade.
  `DriftIsNotCryptoEdge`: `crypto_replay` takes the absolute move.
- `CandleArchive.ExpiredIsArchived`: a contract settled more than a page before the window's end
  answers the first page with no rows, which ends the pull. `CutShortIsPulledAgain`: a file cut
  short by a failure counts as complete from then on.
- `Collector.NeverSilent`: the guess of `near_expiries` after a failed download has no contract
  and is kept for the day, with neither rows nor errors.
- `DeltaStream.BackoffForgets`, `OpenStreamFlows`: the back-off only grows; a subscription that
  was not sent is not sent again while the socket stays open.
- `Combo.CapitalKept`: the position tick reads the margin and writes the difference back
  (`nse_runner.py:272`): an entry in between is forgotten, and more is deployed than the budget.
- `ChainSocket.NothingVanished`: a page drops no strike that left the window.
- `Shadows.KillIsShown`, `CryptoDesk.TogglesAlwaysKept`, `EntersTheEnabled`,
  `RefusedChangesNothing`, `CeilingHolds`: a summary read between a shadow's status and its
  profit raises, and the page shows the defaults, a bot not killed; a failed load writes the
  defaults back; a toggle falls between the two reads of a tick; a refused request has written
  what was right of it; both sides of the ceiling on notional use the contract size it guards.
- `StatusBoard.FeedGreenMeansTicking`, `StalledSymbolShows`, `ExecutedWasSent`, `QuietIsGreen`,
  `KillHalts`, `ReadyIsAccepted`: decisions go on with a frozen spot; the age is of the newest decision
  of any symbol; an execution is journalled before it is sent; at the open the newest decision is
  yesterday's; the kill switch is a variable of the dashboard's process; the secret preflight
  checks is its own host's.

### Fairness
Safety needs none. `Sentinel.FairSpec`: weak fairness of the watch loop's check and of each
thread's steps (an executor runs its threads; a broker call returns or times out); none of
requests, the broker or the market. `BrainSentinel.FairSpec`: weak fairness of the loop's
steps, of a request that is neither lost nor given up on, and of the clock; strong fairness of
`StartCycle`, as the loop looks at the clock each minute and does not sleep through every open
market, which a closing market otherwise disables again and again. `CryptoRunner.FairSpec`:
weak fairness of the scheduled ticks (the scheduler fires them again), of a stop that has
begun, and of the ageing of a position; none that anyone presses kill, that a bracket fires or
that an entry is decided. With several strategies, a reconcile tick that ends in a `KeyError`
on one of them could always end before another in an adversarial order of its loop; the
dictionary's insertion order that excludes this is not modelled, so the liveness of `crypto` is
stated with one. `MCFeeds.Fairness`, for the behaviours about each component: weak fairness of
each thread's steps (a call returns), of the passing of the cool-down and of a save another
container has begun; of the collector's next step, its shell loop included; of Delta's thread
and of the seconds it waits for. Expiries, failures, outages and ticks are not fair: they are
bounded events, so liveness says that the system recovers once they are over.

## 4. What is proved

For all values of the constants that satisfy the modules' `ASSUME`s. Each proof has the
form `Init => IInv`, `IInv /\ [Next]_vars => IInv'`, `IInv => Property`, with the inductive
invariant checked by TLC before it was proved. The theorems of a component speak of its own
specification, of which the behaviours of the combined runs are instances.

**SentinelProofs**: `TypeCorrect`, `LedgerComplete` (NothingForgotten), `LedgerSound`
(OrdersBacked), `CloseTruth` (CloseIsTruthful), `LatchHolds` (LatchedBookOnlyShrinks), for
any intents, workers and failures. `IInv` adds `ThreadInv`, what a thread's place says of its
position: about to record means entered, about to pop means an exit was accepted, what a
flatten has copied was entered. Without it a pop could remove something never exited.

**BrainSentinelProofs**: `TypeCorrect`; `NoReentry` (RehearsalHoldsOnce) for any symbols, cap
and faults. `IInv` adds where the loop can have a call outstanding (`LoopInv`), that a
request not acted on left no position (`RequestInv`), and, in a rehearsal, that a reconciled
runner with an empty book has no position but the one it is opening (`BookInv`). `DropIsClose`
(DroppedIsClosed), under both ticks, armed or not: a known position has landed, so that no
late OPEN brings it back (`KnownInv`), and a CLOSE that is out is of what the book lists
(`CloseInv`).

**CouncilProofs**: `TypeCorrect`, `DeliberationIsMonotone` (RoundOneOnlyLowers) and
`WeightDecides` (BackedByWeight), for every roster, weights and readings. The lemmas show
each lens's factors to be fractions and a fraction of a confidence to be no larger.
`PeersOnlyDoubt` (PeersNeverConfirm) compares two deliberations: when a lens abstains no other
lens's cut grows (`KeptGrows`, but for greeks and smile), so the lead leans as it did and no
less surely (`LeadHeard`), and such a lead loses only to a lens that is louder without the
silent one, as fewer objections never raise the bar (`OnlyTheLouderStop`). That 2^n grows with n would be an induction;
`FewerAskLess` reads it off the cardinality of power sets, which the library has as a theorem.

**CryptoRunnerProofs**: `TypeCorrect`, `NoExitOpens` (ExitsNeverOpen), `StopHaltsEntries`
(KillHalts), for any strategies, objects and bounds. `IInv` adds what a thread's place says
of what it has in hand: an exit is of an object, what is adopted was seen with a size
(otherwise an object of size 0 would enter the book). `NoExitOpens` follows because the
amount of an exit is at most what is left on its side (`ReduceNeverOpens`), so staleness
does not matter; `StopHaltsEntries` from it, and from `KilledStaysIdle`. `LockSuffices`
(ProtectedUnlessOverlapped), the largest proof here: under `EntryAlone` the invariant `ApartInv`
is inductive. `RestInv` says what idle threads have left; `BookInv` that a bracket is on the
side of its position, that what a thread copied is in the book as long as the position is open,
and that an unprotected one is being `SeenTo`; `ExitInv` that nothing is closed before its
bracket is cancelled; `ReconcileInv` that what the tick read is still there or has been closed
since; `EntryInv` what the entry tick has reached. The proviso is what `BookInv` fails without:
a copy of the book would survive the position it was made of and meet its successor.

**FeedsProofs**: `LoginsAreSpared` (TotpSpared), `OneLogsIn`, for any threads and events. A
login is paid for long before it is made, so `LoginsPaidFor` adds those that are due: every one
made or due, but the first, is paid for by an expiry or a mishap. One is due at most, as who
comes to log in holds the lock (`LockHeld`); an expiry does not pay twice, because a token
of another container dies before it is saved only if that container has begun to (`TheirsLater`).
`ArchiveIsWholeTheorem`, for any page, limit, contract and failures: what was pulled is all there is
above the page's end (`PagesMeet`), so it is whole when the pull ends (`PulledIsWhole`) and
so is the file (`FileIsWhole`). The first attempt failed, and TLC with one bar more in the
window showed why: the exception for the window's first bar, which `Whole` states.

**LearningProofs**: `OneSessionTheorem` (what is kept of the prior
bars is before the session's bars that are kept, and of days before today; a baseline is of its
key's day);
`RegisteredIsSubscribedTheorem` (the flag is up whenever the socket is; between the
registration of a contract and the message for it, one of the two threads is about to send the
registry, and the invariant says at which step); `GateInBandTheorem` (whatever is stored or
fitted is clamped to the band of the release that reads it); `YesterdayIsLiveTheorem` (the journal a session is
given is the greatest day below its own that is not a replay's); `VoteIsEarnedTheorem` (no copy of the
document, stored or in a process's hands, counts more trades than were closed and voted on, and
one that votes in full counts twice the sample; a seed gives probation at most);
`SuspendedOnEvidenceTheorem` (two means of which one is lower have a member that is lower than
a member: were no trade evidence, the means could not be apart. It needs `SuspendBelow <= 0`,
which the code's -100 meets: a lens without a blocked trade is judged against nothing).
Of back-tests and charts: `DriftIsNotEdgeTheorem` (the drift adds as much to what the signals
earned as to the mean taken off it), `TradesArePossibleTheorem` (of the run's book at each minute),
`NothingRepaintsTheorem` (what is shown at a minute mentions minutes up to it only, and a return
is given when its horizon has passed), `NothingRedrawnTheorem` (a closed bar stands, so do the
swings and the average range at it, so does a sweep), `StopComesFirstTheorem` (`CanBeSized` is what
holds of every offer; the rest is arithmetic). These rest on inductions the prover cannot
take from the library, whose theorems have an operator as a parameter. They are stated here over
sets: a set of naturals that contains 0 and each successor is all of them (`UpTo`, `StepByStep`), a
set of subsets that is closed under adding an element has all finite ones (`BySubsets`), from
which sums over finite sets and minima follow.

**OperationsProofs**: of envelopes, `EnvelopesTyped`, with no assumption on the clocks; `AtMostOnce`
(AcceptedOnce), `NoNonceBurned` (a remembered nonce belongs to an accepted envelope) and
`PromptPasses` (PromptIsAccepted) under `SkewBelowAge` (`MaxSkew < MaxAge`), which the code
does not enforce and hosts with synchronised clocks meet (the age bound is 30 s). The
invariant adds `Guarded`: an accepted envelope is remembered or stale. A nonce is filed at
`seenAt >= stamp - MaxSkew` and swept `2 * MaxAge` later, when its envelope is stale: that is
the reason for the factor two. Of the rest: `SwitchIsTrueTheorem`, for all times, under the
slack it states; `OnlyTheRunnerLeaksTheorem`, for every graph of imports; `SilenceShowsTheorem`;
`ScreenIsCurrentTheorem`, for any strikes and changes (what the page shows of a strike is what
was last sent of it, and what differs is always sent); `DeskIsTrueTheorem` (what is managed is of
the ring, and an open shadow of the ring is managed, whichever thread closes or pushes it out).

**ComboProofs**: `ComboTypeCorrect`; `ArmedOnlyFilledTheorem`; `LivesOnceTheorem`, that `Combo`
implements `ComboLife` under `Stage` for any combos and legs, every action a step of one
combo's life, `Forget` or a stutter. `ComboInv` adds what the two ticks have in hand (`Ledger`: the
entry tick a combo that is used and not in the book, the position tick one of the book it does
not visit again), that a leg still to be treated is not squared off (`Squares`), and that it has no order, or
is filled, where its place says so (`Rules`). Without `Ledger` a combo could be left by both ticks.

Every invariant and action property of the passing runs has its theorem. Only model-checked:
liveness (`DeadmanFlattens`, `HorizonExits`, `BookConverges`,
`KilledPositionsEnd`, `ConnectionsHeal`, `SnapshotsGoOn`; fairness and ENABLED are beyond the
prover here), and the counterexamples of section 3.

## 5. Known limits of the models, and what is not modelled

Order path
- The brain's market is open, closing or shut, one for all symbols; the loop's use of the
  union of NSE's and BSE's hours is a listed hazard without a property.
- After one failed reconcile the runner enters nothing for the rest of the session
  (`options_runner.py:254`): modelled, and as designed no property is stated of it.
- The body of an HTTP error taken for an empty book (`sentinel_client.py:99`), and an exit sent
  without a limit when its quote is missing (`sentinel/main.py:159`), are not modelled.
- A restart of the sentinel empties the nonce cache (`main.py:79`): `AcceptedOnce` speaks of one
  run of the process.
- Fills are not modelled in `Sentinel`: no code there reads one. A position is its orders.
- "Six beats of headroom" (`sentinel_client.py:34-36`) are two if the beats time out: 8 s each,
  and 5 s of sleep. `SwitchIsTrue` needs `2 * Interval + Timeout + 2 * Latency <= Deadman`.
- The revert reverses every leg ordered, filled or not (`angel_broker.py:441`): modelled, and
  as the code means it no property is stated of it. Its cancelling of rules is unreachable.
- A position adopted by reconcile has no entry premium, so its outcome is not recorded
  (`options_runner.py:305`): in `LensBrain` such a trade closes without a score.
- A lens suspended by errors in SHADOW has no trade to be reinstated by (`brain.py:320`).

Learning
- Nothing calls `review`, `record_verdict`, `compute_attribution` or `retune_gate` at this
  commit, and the live council's weights are a fixed table (`options_runner.py:567`); the models
  are of what these do when called once a day. `end_session` passes no outcomes.
- A mid-day restart overwrites the morning's journal, and a replay of a session its live one.
- `find_setup` vetoes a trade against the trend, `label_sweeps` does not; nothing imports the
  sizing, risk and setup modules.

Feeds
- `.env` is truncated and rewritten by several containers and by the dashboard without a lock;
  `AngelSession` has the lost update, not a torn file.
- Some calls never look for a dead session in the body (`tradeBook`, margin, RMS), some drop
  raised errors; an invalidated token also clears the cool-down, which is 120 s where comments
  say ten minutes. `_candle_data` of VIX asks for fixed tokens.
- The fields of a tick, the instrument caches and the branch without credentials are left out,
  as is the collector's future (its token is sought among options and never found).
- `fetch_delta` and `fetch_angel` ignore `days` once a cache exists and never refresh it.

Dashboard
- VIX, Greeks and premiums are left out of `ChainSocket`. Settings apply after a restart.
- The error banner of a chain stays until something else changes.

Not modelled: how lenses read the market (`_evaluate`), implied volatility, Greeks, smiles and
profiles (`nse/quant`, `nse/lenses`): floating point without protocol state, of which the
council sees a verdict; `core/ipc.py`, whose flag files nothing writes; `core/bot_runner.py`,
which hosts the scheduler; the API's login; read-only routes; study scripts that read files
and print; the discovery and moneyness filters of the archive; the paper mode and the
`trail_partial` regime of the crypto runner; `core/risk_management.py`, constants only.

## 6. Plan

What came first decides which orders exist; then what is learnt, fed and shown. What is left:

1. `BrainSentinel`: hours per symbol; an abstract ledger of one
   position per symbol, and the rehearsed loop shown to implement it.
2. `CryptoRunner`: an abstract book that the locked runner implements; P&L booked per close and
   the daily loss computed from it; several strategies with the dictionary's order.
3. `Combo`: the margin the two ticks share, and what the close of a combo left behind.
4. `Sentinel`: the abstract ledger of an order, entered once and exited, that `LedgerSound` and
   `LedgerComplete` imply, as a refinement.
5. `AngelSession`: the torn `.env`.
