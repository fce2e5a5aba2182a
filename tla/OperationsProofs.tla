-------------------------- MODULE OperationsProofs --------------------------
(***************************************************************************)
(* Theorems about the parts of the plant that MCOperations checks, each of *)
(* them on its own, for any value of its constants: the dead man's switch, *)
(* the guard of a build, the toggles, the shadows, the panel, the socket   *)
(* of the option chain and the envelopes between the two tiers.            *)
(***************************************************************************)
EXTENDS SignedIntents, Heartbeats, BrainGuard, CryptoDesk, Shadows, StatusBoard,
        ChainSocket, TLAPS, WellFoundedInduction

---------------------------------------------------------------------------
(* Heartbeats *)

LEMMA Seconds ==
    /\ Interval \in Nat /\ Timeout \in Nat /\ Deadman \in Nat /\ CheckEvery \in Nat
    /\ Latency \in Nat /\ Latency <= Timeout
    /\ Interval > 0 /\ Timeout > 0 /\ Deadman > 0 /\ CheckEvery > 0
  BY HeartbeatsAssumption

BeatTypeOK ==
    /\ beat \in {"sleep", "sent", "arrived", "gone"} /\ waited \in Nat
    /\ late \in 0 .. Many
    /\ silence \in 0 .. Unheard

\* A wait is over when it is.
InTime ==
    /\ beat = "sleep" => waited <= Interval
    /\ beat \in Awaiting => waited <= Timeout
    /\ beat = "gone" => late = Many

\* How old the last beat that was accepted can be: none missing, or one.
Bounded ==
    silence # Unheard =>
        /\ beat = "arrived" => silence <= waited
        /\ beat = "sleep" /\ late = 0 => silence <= Latency + waited
        /\ beat = "sleep" /\ late = 1 => silence <= Latency + Interval + Timeout + waited
        /\ beat = "sent" /\ late = 0 => silence <= Latency + Interval + waited
        /\ beat = "sent" /\ late = 1 => silence <= Latency + 2 * Interval + Timeout + waited

BeatInv == BeatTypeOK /\ InTime /\ Bounded

LEMMA BeatInvariant == HeartbeatSpec => []BeatInv
<1>1. HeartbeatInit => BeatInv
  BY Seconds
  DEF HeartbeatInit, BeatInv, BeatTypeOK, InTime, Bounded, Many, Unheard, Awaiting
<1>2. BeatInv /\ [HeartbeatNext]_heartbeatVars => BeatInv'
  <2> SUFFICES ASSUME BeatInv, [HeartbeatNext]_heartbeatVars PROVE BeatInv'
    OBVIOUS
  <2> USE Seconds DEF BeatInv, BeatTypeOK, InTime, Bounded, Many, Unheard, Awaiting
  <2>1. CASE SendBeat
    BY <2>1 DEF SendBeat, BeatEvery, switchVars
  <2>2. CASE BeatArrives
    BY <2>2 DEF BeatArrives
  <2>3. CASE BeatAnswered
    BY <2>3 DEF BeatAnswered, LateBy, switchVars
  <2>4. CASE BeatFails
    BY <2>4 DEF BeatFails, LateBy, switchVars
  <2>5. CASE StrayArrives
    BY <2>5 DEF StrayArrives
  <2>6. CASE BrainDies
    BY <2>6 DEF BrainDies, switchVars
  <2>7. CASE BrainStarts
    BY <2>7 DEF BrainStarts, switchVars
  <2>8. CASE Fires \/ NotNow \/ FlattenEnds \/ BookChanges \/ Bell \/ ClearLatch
    BY <2>8 DEF Fires, NotNow, FlattenEnds, BookChanges, Bell, ClearLatch, beatVars
  <2>9. CASE SentinelDies
    BY <2>9 DEF SentinelDies, beatVars
  <2>10. CASE Second
    BY <2>10 DEF Second, BeatEvery
  <2>11. CASE UNCHANGED heartbeatVars
    BY <2>11 DEF heartbeatVars, beatVars, switchVars
  <2>12. QED
    BY <2>1, <2>2, <2>3, <2>4, <2>5, <2>6, <2>7, <2>8, <2>9, <2>10, <2>11 DEF HeartbeatNext
<1>3. QED
  BY <1>1, <1>2, PTL DEF HeartbeatSpec

\* The loop that watches: what is overdue is due, and has been since its last look.
WatchInv ==
    /\ overdue \in Nat /\ sinceCheck \in 0 .. CheckEvery
    /\ silence \in 0 .. Unheard
    /\ overdue <= sinceCheck
    /\ overdue > 0 => watch = "sleep" /\ ~latched /\ Exposed

LEMMA WatchInvariant == HeartbeatSpec => []WatchInv
<1>1. HeartbeatInit => WatchInv
  BY Seconds DEF HeartbeatInit, WatchInv, Unheard
<1>2. WatchInv /\ [HeartbeatNext]_heartbeatVars => WatchInv'
  <2> SUFFICES ASSUME WatchInv, [HeartbeatNext]_heartbeatVars PROVE WatchInv'
    OBVIOUS
  <2> USE Seconds DEF WatchInv, Exposed, Unheard
  <2>1. CASE SendBeat \/ BeatAnswered \/ BeatFails \/ BrainDies \/ BrainStarts
    BY <2>1 DEF SendBeat, BeatAnswered, BeatFails, BrainDies, BrainStarts, switchVars
  <2>2. CASE BeatArrives \/ StrayArrives
    BY <2>2 DEF BeatArrives, StrayArrives
  <2>3. CASE Fires \/ NotNow
    BY <2>3 DEF Fires, NotNow
  <2>4. CASE BookChanges \/ Bell \/ ClearLatch
    BY <2>4 DEF BookChanges, Bell, ClearLatch
  <2>5. CASE SentinelDies
    BY <2>5 DEF SentinelDies
  <2>6. CASE Second
    BY <2>6 DEF Second
  <2>7. CASE UNCHANGED heartbeatVars
    BY <2>7 DEF heartbeatVars, switchVars
  <2>8. CASE FlattenEnds
    <3>1. watch = "flatten" /\ sinceCheck' = 0 /\ overdue' = overdue /\ silence' = silence
      BY <2>8 DEF FlattenEnds
    <3>2. overdue = 0
      BY <3>1
    <3>3. QED
      BY <3>1, <3>2
  <2>9. QED
    BY <2>1, <2>2, <2>3, <2>4, <2>5, <2>6, <2>7, <2>8 DEF HeartbeatNext
<1>3. QED
  BY <1>1, <1>2, PTL DEF HeartbeatSpec

\* The switch spares a brain that missed one beat, whatever beats and answers take within
\* their bounds, and is pulled at the next look on one that is gone: for every interval,
\* timeout and window.
THEOREM SwitchIsTrueTheorem == HeartbeatSpec => []SwitchIsTrue
<1>1. BeatInv => OneMissIsSpared
  BY Seconds
  DEF BeatInv, BeatTypeOK, InTime, Bounded, OneMissIsSpared, Missing, LateBy, Many, Unheard, Awaiting
<1>2. WatchInv => DarkIsNoticed
  BY Seconds DEF WatchInv, DarkIsNoticed
<1>3. QED
  BY <1>1, <1>2, BeatInvariant, WatchInvariant, PTL DEF SwitchIsTrue

---------------------------------------------------------------------------
(* BrainGuard *)

\* What is loaded before the copy of step 2 came with the runner, or with the client.
Early == Reached(Runner) \cup (IF duty = "preflight" THEN Reached(Client) ELSE {})

GuardInv ==
    /\ stage \in {"static", "snapshot"} => sysModules \subseteq Early
    /\ stage \notin {"static", "snapshot"} => before \subseteq Early
    /\ stage \in {"judge", "started"} /\ complaints = {} =>
           (sysModules \ before) \cap Forbidden = {}
    /\ stage = "started" => complaints = {}

LEMMA ImportedLoads ==
    ASSUME NEW m, NEW loaded \in Imported(m)
    PROVE loaded \subseteq sysModules \cup Reached(m)
  BY DEF Imported

LEMMA GuardInvariant == GuardSpec => []GuardInv
<1>1. GuardInit => GuardInv
  BY DEF GuardInit, GuardInv, Early
<1>2. GuardInv /\ [GuardNext]_guardVars => GuardInv'
  <2> SUFFICES ASSUME GuardInv, [GuardNext]_guardVars PROVE GuardInv'
    OBVIOUS
  <2> USE DEF GuardInv, Early
  <2>1. CASE StaticCheck
    <3>1. sysModules' \subseteq sysModules \cup Reached(Runner)
      BY <2>1, ImportedLoads DEF StaticCheck
    <3>2. stage = "static" /\ stage' = "snapshot" /\ UNCHANGED <<build, duty>>
      BY <2>1 DEF StaticCheck
    <3>3. QED
      BY <3>1, <3>2 DEF Reached
  <2>2. CASE Snapshot
    BY <2>2 DEF Snapshot, Reached
  <2>3. ASSUME NEW m \in Modules, ImportBrain(m) PROVE GuardInv'
    BY <2>3 DEF ImportBrain, Reached
  <2>4. CASE Compared
    <3>1. complaints' = {} => Leaked = {}
      BY <2>4 DEF Compared
    <3>2. QED
      BY <2>4, <3>1 DEF Compared, Leaked, Reached
  <2>5. CASE Judge
    <3>1. complaints' = {} => complaints = {}
      BY <2>5 DEF Judge
    <3>2. QED
      BY <2>5, <3>1 DEF Judge, Reached
  <2>6. CASE UNCHANGED guardVars
    BY <2>6 DEF guardVars, Reached
  <2>7. QED
    BY <2>1, <2>2, <2>3, <2>4, <2>5, <2>6 DEF GuardNext
<1>3. QED
  BY <1>1, <1>2, PTL DEF GuardSpec

\* In a process that the guard let start, what can place an order came with the runner, or
\* with the client under preflight: for every build, whatever fails to be imported.
THEOREM OnlyTheRunnerLeaksTheorem == GuardSpec => []OnlyTheRunnerLeaks
<1>1. GuardInv => OnlyTheRunnerLeaks
  BY DEF GuardInv, Early, OnlyTheRunnerLeaks
<1>2. QED
  BY <1>1, GuardInvariant, PTL

---------------------------------------------------------------------------
(* CryptoDesk *)

LEMMA FlagsStay == DeskSpec => []TogglesKept
<1>1. DeskInit => TogglesKept
  BY DEF DeskInit, TogglesKept
<1>2. TogglesKept /\ [DeskNext]_deskVars => TogglesKept'
  <2> SUFFICES ASSUME TogglesKept, [DeskNext]_deskVars PROVE TogglesKept'
    OBVIOUS
  <2>1. ASSUME NEW s, NEW f, NEW on, Toggle(s, f, on) PROVE TogglesKept'
    <3>1. PICK data \in Loads :
              file' = Flagged(data, s, f, on) /\ forgotten' = (forgotten \/ data # file)
      BY <2>1 DEF Toggle
    <3>2. SUFFICES ASSUME ~forgotten' PROVE file' = acked'
      BY DEF TogglesKept
    <3>3. data = file /\ file = acked
      BY <3>1, <3>2 DEF TogglesKept
    <3>4. QED
      BY <2>1, <3>1, <3>3 DEF Toggle, Flagged
  <2>2. CASE \/ ToggleFails \/ AskInstrument \/ Enters \/ TickEnds
             \/ AskWallet \/ Heartbeat \/ WalletAges
    BY <2>2 DEF ToggleFails, AskInstrument, Enters, TickEnds, AskWallet, Heartbeat, WalletAges,
                TogglesKept
  <2>3. ASSUME NEW s, AskStrategy(s) PROVE TogglesKept'
    BY <2>3 DEF AskStrategy, TogglesKept
  <2>4. ASSUME NEW right, NEW wrong, SetSettings(right, wrong) PROVE TogglesKept'
    BY <2>4 DEF SetSettings, TogglesKept
  <2>5. CASE UNCHANGED deskVars
    BY <2>5 DEF deskVars, TogglesKept
  <2>6. QED
    BY <2>1, <2>2, <2>3, <2>4, <2>5 DEF DeskNext
<1>3. QED
  BY <1>1, <1>2, PTL DEF DeskSpec

---------------------------------------------------------------------------
(* StatusBoard *)

\* A set of naturals that is not empty has a least element.
LEMMA LeastAge ==
    ASSUME NEW T, T \subseteq Nat, T # {}
    PROVE \E n \in T : \A k \in T : n <= k
<1>1. PICK n \in T : \A k \in T : ~ (<<k, n>> \in OpToRel(<, Nat))
  BY NatLessThanWellFounded, WFMin
<1>2. \A k \in T : k \in Nat /\ n \in Nat /\ ~(k < n)
  BY <1>1 DEF OpToRel
<1>3. QED
  BY <1>2

\* No decision is newer than the council's silence.
AgeInv ==
    /\ silent \in 0 .. OldAge
    /\ doc \in [TradedSymbols -> [age : 0 .. Unseen, executed : BOOLEAN, moved : BOOLEAN]]
    /\ \A s \in TradedSymbols : silent <= doc[s].age
    /\ sentinel \in {"down", "up", "latched"}

LEMMA Ages == OldAge \in Nat /\ Unseen = OldAge + 1 /\ WarnAge \in Nat /\ WarnAge < OldAge
  BY StatusBoardAssumption DEF OldAge, Unseen

LEMMA AgeInvariant == StatusSpec => []AgeInv
<1>1. StatusInit => AgeInv
  BY Ages DEF StatusInit, AgeInv, NoDoc
<1>2. AgeInv /\ [StatusNext]_statusVars => AgeInv'
  <2> SUFFICES ASSUME AgeInv, [StatusNext]_statusVars PROVE AgeInv'
    OBVIOUS
  <2> USE Ages DEF AgeInv
  <2>1. ASSUME NEW s \in TradedSymbols, NEW executed \in BOOLEAN, Decide(s, executed)
        PROVE AgeInv'
    BY <2>1 DEF Decide, plant
  <2>2. ASSUME NEW s \in TradedSymbols, NoSnapshot(s) PROVE AgeInv'
    BY <2>2 DEF NoSnapshot, plant
  <2>3. CASE Minute
    BY <2>3 DEF Minute, plant
  <2>4. CASE MarketOpens \/ MarketCloses
    BY <2>4 DEF MarketOpens, MarketCloses, plant
  <2>5. CASE Stalls
    BY <2>5 DEF Stalls, plant
  <2>6. CASE Breaks
    BY <2>6 DEF Breaks, council
  <2>7. CASE SwitchKill
    BY <2>7 DEF SwitchKill, council
  <2>8. CASE UNCHANGED statusVars
    BY <2>8 DEF statusVars, council, plant
  <2>9. QED
    BY <2>1, <2>2, <2>3, <2>4, <2>5, <2>6, <2>7, <2>8 DEF StatusNext
<1>3. QED
  BY <1>1, <1>2, PTL DEF StatusSpec

\* The panel is green over no silence, dead sentinel, dead database or powerless council, for
\* any symbols and any thresholds in that order.
THEOREM SilenceShowsTheorem == StatusSpec => []SilenceShows
<1>1. AgeInv => SilenceShows
  <2> SUFFICES ASSUME AgeInv, Overall = "ok"
               PROVE /\ trading => silent < WarnAge
                     /\ sentinel = "up" /\ mongo /\ weighted
    BY DEF SilenceShows
  <2>1. {"fail", "warn"} \cap (Checks \cup SentinelChecks \cup LensChecks) = {}
    BY DEF Overall, Worst
  <2>2. mongo
    BY <2>1 DEF Checks
  <2>3. weighted
    BY <2>1, <2>2 DEF LensChecks
  <2>4. sentinel = "up"
    BY <2>1 DEF SentinelChecks, AgeInv
  <2>5. ASSUME trading PROVE silent < WarnAge
    <3>1. DecidingState \notin {"fail", "warn"}
      BY <2>1, <2>2 DEF Checks
    <3>2. Newest.age < WarnAge
      BY <2>5, <3>1 DEF DecidingState
    <3>3. Newest \in {doc[s] : s \in TradedSymbols}
      <4> DEFINE T == {doc[s].age : s \in TradedSymbols}
      <4>1. T \subseteq Nat /\ T # {}
        BY Ages, StatusBoardAssumption DEF AgeInv
      <4>2. PICK n \in T : \A k \in T : n <= k
        BY <4>1, LeastAge
      <4>3. \E d \in {doc[s] : s \in TradedSymbols} :
                \A s \in TradedSymbols : d.age <= doc[s].age
        BY <4>2
      <4>4. QED
        BY <4>3 DEF Newest
    <3>4. PICK s \in TradedSymbols : Newest = doc[s]
      BY <3>3
    <3>5. silent <= doc[s].age /\ silent \in Nat /\ doc[s].age \in Nat
      BY Ages DEF AgeInv
    <3>6. QED
      BY <3>2, <3>4, <3>5, Ages
  <2>6. QED
    BY <2>2, <2>3, <2>4, <2>5
<1>2. QED
  BY <1>1, AgeInvariant, PTL

---------------------------------------------------------------------------
(* ChainSocket *)

LEMMA NextExpiryIsNotOver ==
    ASSUME NEW d \in Nat
    PROVE NextExpiry(d) \in Nat /\ NextExpiry(d) >= d
<1>1. ExpiryEvery \in Nat /\ ExpiryEvery > 0
  BY ChainSocketAssumption
<1>2. (-d) % ExpiryEvery \in Nat
  BY <1>1
<1>3. QED
  BY <1>2 DEF NextExpiry

\* What is cached under a day is no expiry that was over that day.
ExpiryInv ==
    /\ today \in Nat /\ today > 0
    /\ cached \in [key : Nat, value : Nat]
    /\ cached.key <= today
    /\ cached.value # Never => cached.value >= cached.key
    /\ key \in Nat /\ expiry \in Nat
    /\ key <= today
    /\ ExpiryIsLive

LEMMA ExpiryInvariant == ChainSpec => []ExpiryInv
<1>1. ChainInit => ExpiryInv
  BY DEF ChainInit, ExpiryInv, ExpiryIsLive, Never
<1>2. ExpiryInv /\ [ChainNext]_chainVars => ExpiryInv'
  <2> SUFFICES ASSUME ExpiryInv, [ChainNext]_chainVars PROVE ExpiryInv'
    OBVIOUS
  <2> USE DEF ExpiryInv, ExpiryIsLive, Never
  <2>1. CASE Spot
    BY <2>1 DEF Spot, board
  <2>2. CASE Look
    BY <2>2 DEF Look, board, building
  <2>3. CASE Resolve
    <3>1. cached' \in {[key |-> key, value |-> NextExpiry(today)], [key |-> key, value |-> Never]}
      BY <2>3 DEF Resolve
    <3>2. NextExpiry(today) \in Nat /\ NextExpiry(today) >= today
      BY NextExpiryIsNotOver
    <3>3. cached' \in [key : Nat, value : Nat] /\ cached'.key = key
          /\ cached'.value \in {NextExpiry(today), Never}
      BY <3>1, <3>2
    <3>4. UNCHANGED <<today, key, expiry>> /\ socket' = "read"
      BY <2>3 DEF Resolve, board, building
    <3>5. QED
      BY <3>2, <3>3, <3>4
  <2>4. CASE Read
    BY <2>4 DEF Read, Found, board
  <2>5. CASE ReadFails
    BY <2>5 DEF ReadFails, Fail, board
  <2>6. CASE CallFails
    BY <2>6 DEF CallFails, Fail, board
  <2>7. CASE Chain
    BY <2>7 DEF Chain, board, building
  <2>8. CASE Push
    BY <2>8 DEF Push, board
  <2>9. CASE Connect
    BY <2>9 DEF Connect, building
  <2>10. CASE Disconnect
    BY <2>10 DEF Disconnect, board
  <2>11. CASE MarketMoves
    BY <2>11 DEF MarketMoves, building
  <2>12. CASE StreamFallsSilent
    BY <2>12 DEF StreamFallsSilent, building
  <2>13. CASE Midnight
    BY <2>13 DEF Midnight, building
  <2>14. CASE OtherPage
    BY <2>14 DEF OtherPage, board, building
  <2>15. CASE UNCHANGED chainVars
    BY <2>15 DEF chainVars, board, building
  <2>16. QED
    BY <2>1, <2>2, <2>3, <2>4, <2>5, <2>6, <2>7, <2>8, <2>9, <2>10, <2>11, <2>12, <2>13, <2>14,
       <2>15 DEF ChainNext, Building
<1>3. QED
  BY <1>1, <1>2, PTL DEF ChainSpec

\* No strike that was sent is missing on the screen: a patch has something to be merged into.
ShownInv ==
    /\ ShownIsBuilt
    /\ ~first => DOMAIN lastSent.rows \subseteq DOMAIN screen.rows

LEMMA ShownInvariant == ChainSpec => []ShownInv
<1>1. ChainInit => ShownInv
  BY DEF ChainInit, ShownInv, ShownIsBuilt
<1>2. ShownInv /\ [ChainNext]_chainVars => ShownInv'
  <2> SUFFICES ASSUME ShownInv, [ChainNext]_chainVars PROVE ShownInv'
    OBVIOUS
  <2>1. CASE Push
    <3>1. lastSent' = payload /\ first' = FALSE
      BY <2>1 DEF Push
    <3>2. CASE first
      BY <2>1, <3>1, <3>2 DEF Push, ShownInv, ShownIsBuilt
    <3>3. CASE ~first /\ Differs
      <4>1. screen' = Merged
        BY <2>1, <3>3 DEF Push
      <4>2. screen'.header = payload.header
            /\ DOMAIN screen'.rows = DOMAIN screen.rows \cup Changed
            /\ \A k \in DOMAIN screen.rows \cup Changed :
                  screen'.rows[k] = IF k \in Changed THEN payload.rows[k] ELSE screen.rows[k]
        BY <4>1 DEF Merged
      <4>3. \A k \in DOMAIN payload.rows \ Changed :
                k \in DOMAIN lastSent.rows /\ lastSent.rows[k] = payload.rows[k]
        BY DEF Changed
      <4>4. \A k \in DOMAIN payload.rows \ Changed :
                k \in DOMAIN screen.rows /\ screen.rows[k] = payload.rows[k]
        BY <3>3, <4>3 DEF ShownInv, ShownIsBuilt
      <4>5. QED
        BY <3>1, <4>2, <4>4 DEF ShownInv, ShownIsBuilt
    <3>4. CASE ~first /\ ~Differs
      <4>1. screen' = screen
        BY <2>1, <3>4 DEF Push
      <4>2. payload.header = lastSent.header
            /\ \A k \in DOMAIN payload.rows :
                  k \in DOMAIN lastSent.rows /\ lastSent.rows[k] = payload.rows[k]
        BY <3>4 DEF Differs, Changed
      <4>3. QED
        BY <3>1, <3>4, <4>1, <4>2 DEF ShownInv, ShownIsBuilt
    <3>5. QED
      BY <3>2, <3>3, <3>4
  <2>2. CASE Connect
    BY <2>2 DEF Connect, ShownInv, ShownIsBuilt
  <2>3. CASE UNCHANGED <<screen, lastSent, first>>
    BY <2>3 DEF ShownInv, ShownIsBuilt
  <2>4. CASE Building
    BY <2>3, <2>4 DEF Building, Spot, Look, Resolve, Read, ReadFails, CallFails, Fail, Chain
  <2>5. CASE \/ Disconnect \/ MarketMoves \/ StreamFallsSilent \/ Midnight \/ OtherPage
             \/ UNCHANGED chainVars
    BY <2>3, <2>5 DEF Disconnect, MarketMoves, StreamFallsSilent, Midnight, OtherPage, chainVars
  <2>6. QED
    BY <2>1, <2>2, <2>4, <2>5 DEF ChainNext
<1>3. QED
  BY <1>1, <1>2, PTL DEF ChainSpec

\* The screen is what the pushed differences say, and no chain is of an expiry that is over: for
\* any quotes, window and calendar.
THEOREM ScreenIsCurrentTheorem == ChainSpec => []ScreenIsCurrent
<1>1. ExpiryInv /\ ShownInv => ScreenIsCurrent
  BY DEF ExpiryInv, ShownInv, ScreenIsCurrent
<1>2. QED
  BY <1>1, ExpiryInvariant, ShownInvariant, PTL

---------------------------------------------------------------------------
(* Shadows *)

\* What is in a sequence that grows at its end, or loses its head.
LEMMA RingFacts ==
    ASSUME NEW S, NEW q \in Seq(S), NEW x \in S
    PROVE /\ Append(q, x) \in Seq(S) /\ ToSet(Append(q, x)) = ToSet(q) \cup {x}
          /\ q # <<>> => Tail(q) \in Seq(S) /\ ToSet(Tail(q)) \subseteq ToSet(q)
<1>1. Append(q, x) \in Seq(S) /\ Len(Append(q, x)) = Len(q) + 1
      /\ \A i \in 1 .. Len(q) : Append(q, x)[i] = q[i]
      /\ Append(q, x)[Len(q) + 1] = x
  OBVIOUS
<1>2. ToSet(Append(q, x)) = ToSet(q) \cup {x}
  BY <1>1 DEF ToSet
<1>3. ASSUME q # <<>> PROVE Tail(q) \in Seq(S) /\ ToSet(Tail(q)) \subseteq ToSet(q)
  <2>1. Tail(q) \in Seq(S) /\ Len(Tail(q)) = Len(q) - 1 /\ Len(q) \in Nat
        /\ \A i \in 1 .. Len(Tail(q)) : Tail(q)[i] = q[i + 1]
    BY <1>3
  <2>2. QED
    BY <2>1 DEF ToSet
<1>4. QED
  BY <1>1, <1>2, <1>3

Shadow ==
    [side : {-1, 1}, entry : Int, status : {"none", "open", "closed"}, peak : Int, booked : BOOLEAN]

ShadowTypeOK ==
    /\ mark \in Int /\ signals \in 0 .. MaxSignals
    /\ trade \in [Ids -> Shadow]
    /\ ring \in Seq(Ids) /\ managed \subseteq Ids /\ toVisit \subseteq Ids
    /\ closing \in Ids \cup {NoTrade}
    /\ entering \in {"idle", "tick", "index", "cut", "drop"}

IsOpen(id) == trade[id].status = "open"

\* What is managed or to be visited is open, but for what is being closed; what is open in the
\* ring is managed, but for what is not yet in the index; and between signals the ring holds
\* whatever is managed.
ShadowInv ==
    /\ ShadowTypeOK
    /\ \A id \in managed : id <= signals /\ (IsOpen(id) \/ id = closing)
    /\ \A id \in toVisit : id <= signals /\ IsOpen(id)
    /\ closing # NoTrade => closing <= signals /\ trade[closing].status = "closed"
    /\ \A id \in ToSet(ring) : IsOpen(id) => id \in managed \/ (entering = "index" /\ id = signals)
    /\ entering = "index" =>
           /\ signals \in Ids /\ IsOpen(signals) /\ signals \in ToSet(ring)
           /\ signals \notin managed \cup toVisit
    /\ entering # "drop" => managed \subseteq ToSet(ring)

LEMMA ShadowBounds == MaxSignals \in Nat /\ Marks \subseteq Int /\ Ids \subseteq Nat \ {0}
  BY ShadowsAssumption DEF Ids

LEMMA RingIsOfIds ==
    ASSUME ring \in Seq(Ids)
    PROVE ToSet(ring) \subseteq Ids
  BY DEF ToSet

LEMMA PeakIsWhole ==
    ASSUME NEW t \in Shadow, mark \in Int
    PROVE Move(t) \in Int /\ Peak(t) \in Int
<1>1. t.side \in {-1, 1} /\ t.entry \in Int /\ t.peak \in Int
  BY DEF Shadow
<1>2. Move(t) \in {mark - t.entry, -(mark - t.entry)}
  BY <1>1 DEF Move
<1>3. QED
  BY <1>1, <1>2 DEF Peak

LEMMA ShadowInvariant == ShadowsSpec => []ShadowInv
<1>1. ShadowsInit => ShadowInv
  <2> SUFFICES ASSUME ShadowsInit PROVE ShadowInv
    OBVIOUS
  <2>1. NoShadow \in Shadow
    BY DEF NoShadow, Shadow
  <2>2. ToSet(<<>>) = {}
    BY DEF ToSet
  <2>3. QED
    BY <2>1, <2>2, ShadowBounds DEF ShadowsInit, ShadowInv, ShadowTypeOK, NoTrade
<1>2. ShadowInv /\ [ShadowsNext]_shadowVars => ShadowInv'
  <2> SUFFICES ASSUME ShadowInv, [ShadowsNext]_shadowVars PROVE ShadowInv'
    OBVIOUS
  <2> USE ShadowBounds
  <2>0. ToSet(ring) \subseteq Ids
    BY RingIsOfIds DEF ShadowInv, ShadowTypeOK
  <2>1. CASE StartTick \/ EndTick
    BY <2>1 DEF StartTick, EndTick, ShadowInv, ShadowTypeOK, IsOpen
  <2>2. ASSUME NEW side \in {-1, 1}, Refused(side) PROVE ShadowInv'
    <3> DEFINE new == [side |-> side, entry |-> mark, status |-> "open", peak |-> 0, booked |-> FALSE]
    <3>1. signals + 1 \in Ids /\ signals' = signals + 1
      BY <2>2 DEF Refused, Ids, ShadowInv, ShadowTypeOK
    <3>2. new \in Shadow /\ new.status = "open"
      <4>1. mark \in Int
        BY DEF ShadowInv, ShadowTypeOK
      <4>2. QED
        BY <4>1 DEF Shadow
    <3>3. trade' = [trade EXCEPT ![signals + 1] = new]
      BY <2>2 DEF Refused
    <3>4. ring' \in Seq(Ids) /\ ToSet(ring') = ToSet(ring) \cup {signals + 1}
      BY <2>2, <3>1, RingFacts DEF Refused, ShadowInv, ShadowTypeOK
    <3>5. UNCHANGED <<mark, managed, toVisit, closing>> /\ entering = "tick" /\ entering' = "index"
      BY <2>2 DEF Refused
    <3>6. /\ trade' \in [Ids -> Shadow] /\ trade'[signals + 1].status = "open"
          /\ \A id \in Ids : id # signals + 1 => trade'[id] = trade[id]
      BY <3>1, <3>2, <3>3 DEF ShadowInv, ShadowTypeOK
    <3>7. ShadowTypeOK'
      BY <3>1, <3>4, <3>5, <3>6 DEF ShadowInv, ShadowTypeOK, Ids
    <3>8. signals + 1 \notin managed /\ signals + 1 \notin toVisit /\ closing # signals + 1
      BY DEF ShadowInv, ShadowTypeOK, NoTrade
    <3> HIDE DEF new
    <3>9. \A id \in managed \cup toVisit \cup ToSet(ring) :
              id \in Ids /\ (id # signals + 1 => IsOpen(id)' = IsOpen(id))
      BY <2>0, <3>6 DEF IsOpen, ShadowInv, ShadowTypeOK
    <3>10. /\ \A id \in managed' : id <= signals' /\ (IsOpen(id)' \/ id = closing')
           /\ \A id \in toVisit' : id <= signals' /\ IsOpen(id)'
      BY <3>1, <3>5, <3>8, <3>9 DEF ShadowInv, ShadowTypeOK
    <3>11. closing' # NoTrade => closing' <= signals' /\ trade'[closing'].status = "closed"
      BY <3>1, <3>5, <3>6, <3>8 DEF ShadowInv, ShadowTypeOK, NoTrade
    <3>12. IsOpen(signals)'
      BY <3>1, <3>6 DEF IsOpen
    <3>13. \A id \in ToSet(ring)' : IsOpen(id)' => id \in managed' \/ id = signals'
      BY <3>1, <3>4, <3>5, <3>9 DEF ShadowInv, ShadowTypeOK
    <3>14. QED
      BY <3>1, <3>4, <3>5, <3>7, <3>8, <3>10, <3>11, <3>12, <3>13 DEF ShadowInv
  <2>3. CASE Index
    BY <2>3 DEF Index, ShadowInv, ShadowTypeOK, IsOpen
  <2>4. CASE Cut
    <3>1. ring' \in Seq(Ids) /\ ToSet(ring') \subseteq ToSet(ring)
      <4>1. CASE Len(ring) > MaxShadows
        <5>1. ring # <<>> /\ ring \in Seq(Ids)
          BY <4>1, ShadowsAssumption DEF ShadowInv, ShadowTypeOK
        <5>2. \A x \in Ids : Tail(ring) \in Seq(Ids) /\ ToSet(Tail(ring)) \subseteq ToSet(ring)
          BY <5>1, RingFacts
        <5>3. 1 \in Ids
          BY ShadowsAssumption DEF Ids
        <5>4. QED
          BY <2>4, <4>1, <5>2, <5>3 DEF Cut
      <4>2. QED
        BY <2>4, <4>1 DEF Cut, ShadowInv, ShadowTypeOK
    <3>2. entering' = "drop" /\ UNCHANGED <<mark, trade, signals, managed, toVisit, closing>>
      BY <2>4 DEF Cut
    <3>3. entering = "cut"
      BY <2>4 DEF Cut
    <3>4. QED
      BY <3>1, <3>2, <3>3 DEF ShadowInv, ShadowTypeOK, IsOpen
  <2>5. CASE DropFallen
    BY <2>5 DEF DropFallen, ShadowInv, ShadowTypeOK, IsOpen
  <2>6. CASE StartVisits
    BY <2>6 DEF StartVisits, ShadowInv, ShadowTypeOK, IsOpen, NoTrade
  <2>7. ASSUME NEW id \in Ids, NoMark(id) PROVE ShadowInv'
    BY <2>7 DEF NoMark, ShadowInv, ShadowTypeOK, IsOpen
  <2>8. ASSUME NEW id \in Ids, Stays(id) PROVE ShadowInv'
    <3>1. trade' = [trade EXCEPT ![id].peak = Peak(trade[id])]
      BY <2>8 DEF Stays
    <3>2. Peak(trade[id]) \in Int
      BY PeakIsWhole DEF ShadowInv, ShadowTypeOK
    <3>3. trade' \in [Ids -> Shadow] /\ \A k \in Ids : trade'[k].status = trade[k].status
      BY <3>1, <3>2 DEF ShadowInv, ShadowTypeOK, Shadow
    <3>4. /\ toVisit' = toVisit \ {id}
          /\ UNCHANGED <<mark, signals, ring, managed, entering, closing>>
      BY <2>8 DEF Stays
    <3>5. QED
      BY <2>0, <3>3, <3>4 DEF ShadowInv, ShadowTypeOK, IsOpen, NoTrade
  <2>9. ASSUME NEW id \in Ids, ClosesShadow(id) PROVE ShadowInv'
    <3>1. trade' = [trade EXCEPT ![id].status = "closed", ![id].peak = Peak(trade[id])]
      BY <2>9 DEF ClosesShadow
    <3>2. Peak(trade[id]) \in Int
      BY PeakIsWhole DEF ShadowInv, ShadowTypeOK
    <3>3. /\ trade' \in [Ids -> Shadow] /\ trade'[id].status = "closed"
          /\ \A k \in Ids : k # id => trade'[k] = trade[k]
      BY <3>1, <3>2 DEF ShadowInv, ShadowTypeOK, Shadow
    <3>4. /\ id \in toVisit /\ closing = NoTrade
          /\ toVisit' = toVisit \ {id} /\ closing' = id
          /\ UNCHANGED <<mark, signals, ring, managed, entering>>
      BY <2>9 DEF ClosesShadow
    <3>5. QED
      BY <2>0, <3>3, <3>4 DEF ShadowInv, ShadowTypeOK, IsOpen, NoTrade
  <2>10. CASE Booked
    <3>1. trade' = [trade EXCEPT ![closing].booked = TRUE]
      BY <2>10 DEF Booked
    <3>2. trade' \in [Ids -> Shadow] /\ \A k \in Ids : trade'[k].status = trade[k].status
      BY <3>1 DEF ShadowInv, ShadowTypeOK, Shadow
    <3>3. /\ closing # NoTrade /\ closing' = NoTrade /\ managed' = managed \ {closing}
          /\ UNCHANGED <<mark, signals, ring, entering, toVisit>>
      BY <2>10 DEF Booked
    <3>4. QED
      BY <2>0, <3>2, <3>3 DEF ShadowInv, ShadowTypeOK, IsOpen, NoTrade
  <2>11. CASE MarkMoves \/ ManualKill \/ ShowSnapshot \/ UNCHANGED shadowVars
    BY <2>11 DEF MarkMoves, ManualKill, ShowSnapshot, shadowVars, ShadowInv, ShadowTypeOK, IsOpen
  <2>12. QED
    BY <2>1, <2>2, <2>3, <2>4, <2>5, <2>6, <2>7, <2>8, <2>9, <2>10, <2>11 DEF ShadowsNext
<1>3. QED
  BY <1>1, <1>2, PTL DEF ShadowsSpec

LEMMA ShadowsAgree == ShadowsSpec => []ShadowsManaged
<1>1. ShadowInv => ShadowsManaged
  BY DEF ShadowInv, ShadowTypeOK, ShadowsManaged, IsOpen
<1>2. QED
  BY <1>1, ShadowInvariant, PTL

\* A flag stays as the last request about it left it, unless a request failed to load the file,
\* and between two signals the ring and the shadows that are managed agree: for any number of
\* strategies, requests and signals, and any bound of the ring.
THEOREM DeskIsTrueTheorem == DeskSpec /\ ShadowsSpec => []DeskIsTrue
  BY FlagsStay, ShadowsAgree, PTL DEF DeskIsTrue

---------------------------------------------------------------------------
(* SignedIntents, on hosts whose clocks are less than the age bound apart.  The   *)
(* invariant behind AcceptedOnce is Guarded: an envelope that was accepted is     *)
(* still remembered or has already gone stale.  A sweep keeps it because a nonce  *)
(* is dropped Ttl = 2 * MaxAge after it was seen, which with SkewBelowAge is      *)
(* later than the moment its envelope goes stale.                                 *)

\* What the theorems assume of the hosts' clocks.
SkewBelowAge == MaxSkew < MaxAge

\* The initial state satisfies the inductive invariant.
LEMMA EnvelopeStart == EnvelopeInit => IInv
  BY SignedIntentsAssumption
  DEF EnvelopeInit, IInv, EnvelopeTypeOK, Guarded, NonceMeansAccepted, AcceptedOnce

\* Every step keeps every variable in its type.
LEMMA EnvelopeTypes == EnvelopeTypeOK /\ [EnvelopeNext]_envelopeVars => EnvelopeTypeOK'
<1> SUFFICES ASSUME EnvelopeTypeOK, [EnvelopeNext]_envelopeVars PROVE EnvelopeTypeOK'
  OBVIOUS
<1> USE SignedIntentsAssumption DEF EnvelopeTypeOK, Swept
<1>1. ASSUME NEW e \in Envelopes, Build(e) PROVE EnvelopeTypeOK'
  <2>1. PICK skew \in -MaxSkew .. MaxSkew : stamp' = [stamp EXCEPT ![e] = now + skew]
    BY <1>1 DEF Build
  <2>2. now + skew \in -MaxSkew .. now + MaxSkew
    OBVIOUS
  <2>3. QED
    BY <1>1, <2>1, <2>2 DEF Build
<1>2. ASSUME NEW e \in Envelopes, Accept(e) PROVE EnvelopeTypeOK'
  BY <1>2 DEF Accept
<1>3. ASSUME NEW e \in Envelopes, RefuseReplay(e) PROVE EnvelopeTypeOK'
  BY <1>3 DEF RefuseReplay
<1>4. CASE SentinelRestart
  BY <1>4 DEF SentinelRestart
<1>5. CASE Tick
  <2>1. /\ now' = now + 1 /\ now' \in 0 .. Horizon
        /\ \A e \in Envelopes : sent[e] \in 0 .. now' /\ seenAt[e] \in 0 .. now'
        /\ \A e \in Envelopes : stamp[e] \in -MaxSkew .. now' + MaxSkew
    BY <1>5 DEF Tick
  <2>2. QED
    BY <1>5, <2>1 DEF Tick
<1>6. CASE UNCHANGED envelopeVars
  BY <1>6 DEF envelopeVars
<1>7. QED
  BY <1>1, <1>2, <1>3, <1>4, <1>5, <1>6 DEF EnvelopeNext, RefuseUnfresh, RefuseDamaged

\* No step lets an accepted envelope be forgotten while it is fresh.
LEMMA EnvelopeGuarded == SkewBelowAge /\ IInv /\ [EnvelopeNext]_envelopeVars => IInv'
<1> SUFFICES ASSUME SkewBelowAge, IInv, [EnvelopeNext]_envelopeVars PROVE IInv'
  OBVIOUS
<1>1. EnvelopeTypeOK'
  BY EnvelopeTypes DEF IInv
<1> USE SignedIntentsAssumption, <1>1
    DEF SkewBelowAge, IInv, EnvelopeTypeOK, Guarded, NonceMeansAccepted, AcceptedOnce, Swept, Ttl
<1>2. ASSUME NEW e \in Envelopes, Build(e) PROVE IInv'
  <2>1. PICK skew \in -MaxSkew .. MaxSkew : stamp' = [stamp EXCEPT ![e] = now + skew]
    BY <1>2 DEF Build
  <2>2. accepted[e] = 0
    BY <1>2 DEF Build
  <2>3. QED
    BY <1>2, <2>1, <2>2 DEF Build
<1>3. ASSUME NEW e \in Envelopes, Accept(e) PROVE IInv'
  <2>1. accepted[e] = 0
    BY <1>3 DEF Accept, Fresh
  <2>2. \A f \in built : f # e /\ accepted'[f] > 0 =>
            f \in Swept \/ now > stamp[f] + MaxAge
    BY <1>3 DEF Accept
  <2>3. QED
    BY <1>3, <2>1, <2>2 DEF Accept, Fresh
<1>4. ASSUME NEW e \in Envelopes, RefuseReplay(e) PROVE IInv'
  BY <1>4 DEF RefuseReplay
<1>5. CASE SentinelRestart
  BY <1>5 DEF SentinelRestart
<1>6. CASE Tick
  BY <1>6 DEF Tick
<1>7. CASE UNCHANGED envelopeVars
  BY <1>7 DEF envelopeVars
<1>8. QED
  BY <1>2, <1>3, <1>4, <1>5, <1>6, <1>7 DEF EnvelopeNext, RefuseUnfresh, RefuseDamaged

\* The inductive invariant holds in every state of every behaviour.
LEMMA EnvelopeInvariant == SkewBelowAge => (EnvelopeSpec => []IInv)
<1> SUFFICES ASSUME SkewBelowAge PROVE EnvelopeSpec => []IInv
  OBVIOUS
<1>1. IInv /\ [EnvelopeNext]_envelopeVars => IInv'
  BY EnvelopeGuarded
<1>2. QED
  BY <1>1, EnvelopeStart, PTL DEF EnvelopeSpec

\* Type correctness, and a cache that never remembers the future; no assumption
\* on the clocks is needed.
THEOREM EnvelopesTyped == EnvelopeSpec => []EnvelopeTypeOK
<1>1. EnvelopeInit => EnvelopeTypeOK
  BY EnvelopeStart DEF IInv
<1>2. QED
  BY <1>1, EnvelopeTypes, PTL DEF EnvelopeSpec

\* verify (auth.py:105) says ok to an envelope at most once while its process
\* lives, whatever the network repeats or delays.
THEOREM AtMostOnce == SkewBelowAge => (EnvelopeSpec => []AcceptedOnce)
<1>1. IInv => AcceptedOnce
  BY DEF IInv
<1>2. QED
  BY <1>1, EnvelopeInvariant, PTL

\* A remembered nonce is that of an accepted envelope (auth.py:110).
THEOREM NoNonceBurned == SkewBelowAge => (EnvelopeSpec => []NonceMeansAccepted)
<1>1. IInv => NonceMeansAccepted
  BY DEF IInv
<1>2. QED
  BY <1>1, EnvelopeInvariant, PTL

\* An intact copy of a recent envelope that was not accepted yet passes verify,
\* whichever way the clocks are apart.
THEOREM PromptPasses == SkewBelowAge => (EnvelopeSpec => []PromptIsAccepted)
<1> SUFFICES ASSUME SkewBelowAge PROVE EnvelopeSpec => []PromptIsAccepted
  OBVIOUS
<1>1. IInv => PromptIsAccepted
  BY SignedIntentsAssumption
  DEF SkewBelowAge, IInv, EnvelopeTypeOK, Guarded, NonceMeansAccepted, PromptIsAccepted, Fresh, Swept
<1>2. QED
  BY <1>1, EnvelopeInvariant, PTL
=============================================================================
