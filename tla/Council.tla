------------------------------ MODULE Council ------------------------------
(***************************************************************************)
(* The council (nse/council.py): every lens reads the snapshot on its own  *)
(* (round 0), hears what the others said (round 1), and one of them, the   *)
(* lead, owns the decision, discounted by the lenses that object.          *)
(*                                                                         *)
(* What a lens sees in a snapshot is any reading of its kind.  What it     *)
(* does with its peers' readings is the _deliberate of its module          *)
(* (nse/lenses): it cuts its confidence, stands down, or holds.            *)
(* A confidence is a whole number of hundred-thousandths, and a product of *)
(* the code's floating point is rounded down to one.                       *)
(*                                                                         *)
(* Left out: the adaptive quorum, which annotates a decision and does not  *)
(* bind, the journal, and the transcript.                                  *)
(***************************************************************************)
EXTENDS Integers, FiniteSets

CONSTANTS
    Lenses,      \* the roster, by name
    Seat,        \* Seat[l]: the position of l in the roster
    Weight,      \* Weight[l]: effective_weight of the brain of l, in any unit
    Reads,       \* Reads[l]: the verdicts l may give on a snapshot
    Gates,       \* the values min_lead_confidence may have
    Binding,     \* deliberation_binding: round 1 decides, not round 0
    MaxCrashes,  \* bound: lenses that raise while deliberating
    None

Full == 100000
Bar == 35000              \* VOTE_THRESHOLD
ObjectionFloor == 30000   \* COUNCIL_MIN_OBJECTION_CONFIDENCE, and the lenses' own 0.30
ThinTape == 40000         \* below it liquidity calls the tape thin

Verdict(dir, conf) == [dir |-> dir, conf |-> conf, abstained |-> FALSE, deferred |-> FALSE]

\* Also what safe_evaluate makes of a lens that raises.
Abstention == [dir |-> 0, conf |-> 0, abstained |-> TRUE, deferred |-> FALSE]
Verdicts == [dir : {-1, 0, 1}, conf : 0 .. Full, abstained : BOOLEAN, deferred : BOOLEAN]

Speaks(v) == ~v.abstained /\ ~v.deferred
Leans(v) == Speaks(v) /\ v.dir # 0

ASSUME CouncilAssumption ==
    /\ IsFiniteSet(Lenses) /\ None \notin Lenses
    /\ Seat \in [Lenses -> Nat]
    /\ Weight \in [Lenses -> Nat]
    /\ DOMAIN Reads = Lenses
    /\ \A l \in Lenses : \A v \in Reads[l] :
          v = Abstention \/ (v \in Verdicts /\ Speaks(v))
    /\ Gates \subseteq 0 .. Full
    /\ Binding \in BOOLEAN /\ MaxCrashes \in Nat

VARIABLES
    gate,        \* min_lead_confidence, loaded when the council is built
    struggled,   \* volume_oi lost money in yesterday's journal; no other lens asks
    said,        \* round0
    heard,       \* round1
    decision,    \* what _resolve built
    phase        \* "waiting", "polled" or "settled"

vars == <<gate, struggled, said, heard, decision, phase>>

StandAside == [executed |-> FALSE, dir |-> 0, lead |-> None]

Init ==
    /\ gate \in Gates
    /\ struggled \in BOOLEAN
    /\ said = [l \in Lenses |-> Abstention]
    /\ heard = said
    /\ decision = StandAside
    /\ phase = "waiting"

---------------------------------------------------------------------------
(* Round 1 *)

\* Each rule looks at a poll: the verdicts of round 0, by lens.

\* Fault: a third lens that agrees with l answers for it.
OpposedAlone(p, l, poll) ==
    /\ p \in Lenses
    /\ Leans(poll[p])
    /\ poll[p].dir # poll[l].dir
    /\ poll[p].conf >= ObjectionFloor
    /\ \A q \in Lenses \ {l} : Leans(poll[q]) => poll[q].dir # poll[l].dir

\* A peer of l leans the other way with some conviction.
Opposed(p, l, poll) ==
    /\ p \in Lenses
    /\ Leans(poll[p])
    /\ poll[p].dir # poll[l].dir
    /\ poll[p].conf >= ObjectionFloor

Unread(p, poll) == p \in Lenses /\ poll[p].abstained

Thin(poll) ==
    /\ "liquidity" \in Lenses
    /\ Speaks(poll["liquidity"])
    /\ poll["liquidity"].conf < ThinTape

Cut(doubt, percent) == IF doubt THEN percent ELSE 100

Whole == 10000

\* parts ten-thousandths of a confidence
Share(conf, parts) == (conf * parts) \div Whole

\* What each lens keeps of its confidence, in ten-thousandths.
Kept(l, poll) ==
    CASE l = "volume_oi" -> Cut(Opposed("ict_smc", l, poll), 75) * Cut(struggled, 75)
      [] l = "ict_smc" -> Cut(Opposed("momentum", l, poll), 50) * Cut(Thin(poll), 75)
      [] l = "momentum" -> Cut(Opposed("ict_smc", l, poll), 50) * Cut(Thin(poll), 60)
      [] l = "greeks" -> Cut(Opposed("volume_oi", l, poll), 60) * Cut(Unread("smile", poll), 70)
      [] l = "smile" -> Cut(Unread("greeks", poll), 60) * Cut(Thin(poll), 70)
      [] OTHER -> 10000

\* vwap reads what volume_oi reads, so it leaves the floor to it.
Defers(l, poll) == l = "vwap" /\ "volume_oi" \in Lenses /\ Leans(poll["volume_oi"])

\* Fault: a lens whose confidence is cut goes over to the other side.
RevisedOrTurned(l, poll) ==
    IF poll[l].abstained THEN poll[l]
    ELSE IF Defers(l, poll) THEN [poll[l] EXCEPT !.deferred = TRUE]
    ELSE IF l = "momentum" /\ Opposed("ict_smc", l, poll) THEN [poll[l] EXCEPT !.dir = -@]
    ELSE [poll[l] EXCEPT !.conf = Share(@, Kept(l, poll))]

\* safe_deliberate, when _deliberate returns.
Revised(l, poll) ==
    IF poll[l].abstained THEN poll[l]
    ELSE IF Defers(l, poll) THEN [poll[l] EXCEPT !.deferred = TRUE]
    ELSE [poll[l] EXCEPT !.conf = Share(@, Kept(l, poll))]

\* The lenses that raise while deliberating.
Raisers == {c \in SUBSET Lenses : Cardinality(c) <= MaxCrashes}

\* Every lens sees the same round 0; one that raises keeps its verdict.
Hearing(poll, crashed) == [l \in Lenses |-> IF l \in crashed THEN poll[l] ELSE Revised(l, poll)]

\* deciding: the round the decision comes from.
Voices(poll, crashed) == IF Binding THEN Hearing(poll, crashed) ELSE poll

---------------------------------------------------------------------------
(* _resolve *)

\* Fault: the benched lenses may lead.
AnyLeaning(v) == {l \in Lenses : Leans(v[l])}

\* speaking: the lenses that lean and carry weight.
Speaking(v) == {l \in Lenses : Weight[l] > 0 /\ Leans(v[l])}

\* The weighted-most-confident of them; max keeps the first of equals.
Leads(l, v) ==
    /\ l \in Speaking(v)
    /\ \A m \in Speaking(v) :
          \/ Weight[m] * v[m].conf < Weight[l] * v[l].conf
          \/ Weight[m] * v[m].conf = Weight[l] * v[l].conf /\ Seat[l] <= Seat[m]

\* Lenses without weight may object too.
Objectors(l, v) ==
    {m \in Lenses \ {l} : Leans(v[m]) /\ v[m].dir # v[l].dir /\ v[m].conf >= ObjectionFloor}

\* The lead is above its measured floor, and its conviction, halved by every
\* objection, above the threshold.
Clears(l, v) ==
    /\ v[l].conf >= gate
    /\ v[l].conf >= Bar * 2 ^ Cardinality(Objectors(l, v))

Executes(v) == \E l \in Lenses : Leads(l, v) /\ Clears(l, v)

---------------------------------------------------------------------------

\* Round 0 of deliberate.
Poll ==
    /\ phase = "waiting"
    /\ said' \in {s \in [Lenses -> UNION {Reads[l] : l \in Lenses}] :
                    \A l \in Lenses : s[l] \in Reads[l]}
    /\ heard' = said'
    /\ phase' = "polled"
    /\ UNCHANGED <<gate, struggled, decision>>

\* Round 1 and _resolve.
Settle ==
    /\ phase = "polled"
    /\ \E crashed \in Raisers :
          LET v == Voices(said, crashed)
          IN /\ heard' = Hearing(said, crashed)
             /\ \/ Speaking(v) = {} /\ decision' = StandAside
                \/ \E l \in Lenses :
                      /\ Leads(l, v)
                      /\ decision' = [executed |-> Clears(l, v), dir |-> v[l].dir, lead |-> l]
    /\ phase' = "settled"
    /\ UNCHANGED <<gate, struggled, said>>

Forget ==
    /\ said' = [l \in Lenses |-> Abstention]
    /\ heard' = said'
    /\ decision' = StandAside
    /\ phase' = "waiting"

\* The loop has acted on the decision and waits for its next cycle.
NextCycle == phase = "settled" /\ Forget /\ UNCHANGED <<gate, struggled>>

\* A new session brings the journal of the last one.
NextDay == phase = "settled" /\ Forget /\ struggled' = ~struggled /\ UNCHANGED gate

Next == Poll \/ Settle \/ NextCycle \/ NextDay

Spec == Init /\ [][Next]_vars

---------------------------------------------------------------------------
(* Properties *)

\* Every variable has its type, and an executed decision has a lead.
TypeOK ==
    /\ gate \in Gates /\ struggled \in BOOLEAN
    /\ \A f \in {said, heard} :
          /\ f \in [Lenses -> Verdicts]
          /\ \A l \in Lenses : f[l].abstained => f[l] = Abstention
    /\ decision \in [executed : BOOLEAN, dir : {-1, 0, 1}, lead : Lenses \cup {None}]
    /\ decision.executed => decision.lead # None
    /\ phase \in {"waiting", "polled", "settled"}

\* "Round 1 must only ever LOWER conviction": no lens comes out of it more
\* confident than it went in, on the other side, or with an opinion it lacked.
RoundOneOnlyLowers ==
    \A l \in Lenses :
        /\ heard[l].conf <= said[l].conf
        /\ heard[l].dir = said[l].dir
        /\ Speaks(heard[l]) => Speaks(said[l])

\* "A bad idea costs a journal entry": a trade is backed by what some lens with
\* weight read off the snapshot itself, before it heard anyone.
BackedByWeight ==
    decision.executed =>
        \E l \in Lenses :
            /\ Weight[l] > 0 /\ Speaks(said[l])
            /\ said[l].dir = decision.dir /\ decision.dir # 0
            /\ said[l].conf >= gate

\* "Peers may OBJECT - never confirm": another lens that agrees with the lead
\* never makes a trade; one that doubts whoever stands against it may.  Hold the deliberation again on the same readings,
\* but with a lens m that does not lead abstaining from the poll, so that neither
\* _resolve nor any rule of round 1 hears it.  If the trade is then not made, m
\* had not agreed it into being: it had doubted, in round 1, a lens k that would
\* have stood against the lead, as an objector or as the weightier voice, and cut
\* k or stood it down.  The rules of the two lenses that read the surface are the
\* exception, as each takes the other's abstention for a doubt of its own.
Without(m) == [said EXCEPT ![m] = Abstention]

Louder(k, w, v) == Leans(w[k]) /\ (Leans(v[k]) => v[k].conf < w[k].conf)

StandsAgainst(k, l, w) ==
    \/ k \in Objectors(l, w)
    \/ k \in Speaking(w) /\ Weight[k] * w[k].conf >= Weight[l] * w[l].conf

PeersNeverConfirm ==
    decision.executed =>
        \A m \in Lenses \ {decision.lead}, crashed \in Raisers :
            heard = Hearing(said, crashed) =>
                LET l == decision.lead
                    v == Voices(said, crashed)
                    w == Voices(Without(m), crashed)
                IN \/ Executes(w)
                   \/ \E k \in Lenses \ {l, m} : Louder(k, w, v) /\ StandsAgainst(k, l, w)
                   \/ {l, m} = {"greeks", "smile"} /\ w[l].conf < v[l].conf

\* Where the guarantee of deliberation ends: a trade that round 0 would not
\* have made is made only when the lead has changed or an objector of round 0
\* has fallen silent or below the floor.
LessUnlessSilenced ==
    decision.executed /\ ~Executes(said) =>
        \/ ~Leads(decision.lead, said)
        \/ Objectors(decision.lead, said) \ Objectors(decision.lead, heard) # {}

\* "A monotone-downward mechanism can only ever make the council trade LESS."
BindingTradesLess == decision.executed => Executes(said)
=============================================================================
