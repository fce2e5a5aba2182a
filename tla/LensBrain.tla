----------------------------- MODULE LensBrain -----------------------------
(***************************************************************************)
(* The persistent brain of one lens: its score over closed trades, its     *)
(* daily review and its weight (nse/brain.py), the cold start from the     *)
(* measured table (nse/lenses/bootstrap.py), and the outcome a closed      *)
(* position leaves on its decision (nse/execution/options_runner.py).      *)
(*                                                                         *)
(* Two processes read, change and write the whole document: the review     *)
(* and an operator's seed.  Nothing in the repository calls the review; it *)
(* is modelled as the daily job the comments describe.  Lenses are scored  *)
(* apart from each other, so there is one.  The thresholds are parameters, *)
(* and rounding to cents is left out.                                      *)
(***************************************************************************)
EXTENDS Integers, Sequences, FiniteSets, FiniteSetsExt

CONSTANTS
    VerdictKey,       \* what a decision's document files the verdicts under
    Pnls,             \* what a closed trade can have earned
    Said,             \* what the lens can have said of it, seen from its side
    AttributionWindow, MinTrades, PromoteMin, SuspendMin,  \* counts of trades
    PromoteAbove, SuspendBelow,           \* contributions
    WeightMax, DefaultWeight, ProbationCap,   \* in hundredths
    MaxStrikes, ReviewsBeforeRetire,
    MeasuredStage, MeasuredWeight,        \* the lens's row of MEASURED
    MaxTrades, MaxFaults                  \* bounds: trades; Mongo calls that fail

ASSUME LensBrainAssumption ==
    /\ Pnls \subseteq Int
    /\ Said \subseteq {"for", "against", "neutral", "abstained"}
    /\ {AttributionWindow, MinTrades, PromoteMin, SuspendMin, MaxStrikes,
        ReviewsBeforeRetire} \subseteq Nat \ {0}
    /\ PromoteAbove \in Nat \ {0} /\ SuspendBelow \in Int /\ SuspendBelow <= 0
    /\ {WeightMax, DefaultWeight, ProbationCap, MeasuredWeight} \subseteq Nat
    /\ MeasuredStage \in {"SHADOW", "PROBATION"}
    /\ MaxTrades \in Nat /\ MaxFaults \in Nat

Stages == {"SHADOW", "PROBATION", "ACTIVE", "SUSPENDED", "RETIRED"}
Voting == {"PROBATION", "ACTIVE"}

VARIABLES
    trades,     \* the decisions that were filled and closed, with their outcome
    stored,     \* the lens's document, or Nothing
    draft,      \* each process's copy, or Nothing
    forced,     \* the seed was started with force
    faults      \* bounded by MaxFaults

brainVars == <<trades, stored, draft, forced, faults>>

Nothing == [stage |-> "none"]
Brain == [stage : Stages, weight : 0 .. WeightMax, bootstrap : 0 .. WeightMax,
          nClosed : 0 .. MaxTrades, strikes : 0 .. MaxStrikes, failed : 0 .. ReviewsBeforeRetire]

BrainTypeOK ==
    /\ trades \in Seq([pnl : Pnls, said : Said]) /\ Len(trades) <= MaxTrades
    /\ stored \in Brain \cup {Nothing}
    /\ draft \in [{"review", "seed"} -> Brain \cup {Nothing}]
    /\ forced \in BOOLEAN /\ faults \in 0 .. MaxFaults

\* load() on first sight, and whenever the document cannot be read.
Fresh == [stage |-> "SHADOW", weight |-> 0, bootstrap |-> MeasuredWeight,
          nClosed |-> 0, strikes |-> 0, failed |-> 0]

BrainInit ==
    /\ trades = <<>> /\ stored = Nothing
    /\ draft = [p \in {"review", "seed"} |-> Nothing]
    /\ forced = FALSE /\ faults = 0

Clamp(lo, hi, x) == IF x < lo THEN lo ELSE IF x > hi THEN hi ELSE x

(***************************************************************************)
(* compute_attribution.  A mean, of rows, is a pair of a sum and a count.  *)
(***************************************************************************)
Rows == LET n == Len(trades) IN
        SubSeq(trades, IF n > AttributionWindow THEN n - AttributionWindow + 1 ELSE 1, n)

Mean(rows) == <<SumFunctionOnSet([i \in rows |-> Rows[i].pnl], rows), Cardinality(rows)>>
Less(a, b) == <<a[1] * b[2] - b[1] * a[2], a[2] * b[2]>>

\* _verdict_for looks under "verdicts", and nowhere else.
SaidRows(what) ==
    {i \in DOMAIN Rows : VerdictKey = "verdicts" /\ Rows[i].said = what}

\* Fault: a lens that only ever dissented is scored as if it had agreed.
ContributionUnsigned ==
    LET backed == SaidRows("for")  opposed == SaidRows("against") IN
    CASE backed # {} /\ opposed # {} -> Less(Mean(backed), Mean(opposed))
      [] backed # {} /\ opposed = {} -> Less(Mean(backed), Mean(DOMAIN Rows))
      [] backed = {} /\ opposed # {} -> Less(Mean(opposed), Mean(DOMAIN Rows))
      [] OTHER -> <<0, 1>>

\* A lens that never dissents is compared with the average trade of the window,
\* one that only dissents the other way round.
Contribution ==
    LET backed == SaidRows("for")  opposed == SaidRows("against") IN
    CASE backed # {} /\ opposed # {} -> Less(Mean(backed), Mean(opposed))
      [] backed # {} /\ opposed = {} -> Less(Mean(backed), Mean(DOMAIN Rows))
      [] backed = {} /\ opposed # {} -> Less(Mean(DOMAIN Rows), Mean(opposed))
      [] OTHER -> <<0, 1>>

Above(c, x) == c[1] > x * c[2]
Below(c, x) == c[1] < x * c[2]

\* The closed trades the lens has voted on.
NClosed == Cardinality({i \in 1 .. Len(trades) : trades[i].said # "abstained"})

Losing == NClosed >= SuspendMin /\ Below(Contribution, SuspendBelow)
Earning == NClosed >= PromoteMin /\ Above(Contribution, PromoteAbove)

(***************************************************************************)
(* review and _weight_for.                                                 *)
(***************************************************************************)
\* Fault: full weight is reached on the sample of the first promotion.
ActiveAtOnce == Earning

\* Twice the sample to become ACTIVE.
EarnsActive == Earning /\ NClosed >= 2 * PromoteMin

\* The stage and the count of failed reviews after a review that is not cut
\* short by strikes or retirement.  A count goes no further than it is compared.
Judged(b) ==
    CASE b.stage = "SUSPENDED" /\ Earning ->
             [b EXCEPT !.stage = "PROBATION", !.failed = 0]
      [] b.stage = "SUSPENDED" /\ ~Earning ->
             [b EXCEPT !.failed = Min({@ + 1, ReviewsBeforeRetire}),
                       !.stage = IF b.failed + 1 >= ReviewsBeforeRetire THEN "RETIRED" ELSE @]
      [] b.stage # "SUSPENDED" /\ Losing ->
             [b EXCEPT !.stage = "SUSPENDED", !.failed = 1]
      [] b.stage = "SHADOW" /\ ~Losing /\ Earning -> [b EXCEPT !.stage = "PROBATION"]
      [] b.stage = "PROBATION" /\ ~Losing /\ EarnsActive -> [b EXCEPT !.stage = "ACTIVE"]
      [] OTHER -> b

\* Below the minimum sample the lens keeps the weight its back-test earned.
WeightFor(b) ==
    LET c == Contribution IN
    IF b.stage \notin Voting THEN 0
    ELSE Clamp(0, WeightMax,
               IF b.nClosed < MinTrades THEN b.bootstrap
               ELSE DefaultWeight + (DefaultWeight * c[1]) \div (PromoteAbove * c[2]))

Reviewed(b) ==
    LET seen == [b EXCEPT !.nClosed = NClosed] IN
    CASE seen.stage = "RETIRED" -> [seen EXCEPT !.weight = 0]
      [] seen.stage # "RETIRED" /\ seen.strikes >= MaxStrikes ->
             [seen EXCEPT !.stage = "SUSPENDED", !.weight = 0]
      [] OTHER -> LET j == Judged(seen) IN [j EXCEPT !.weight = WeightFor(j)]

EffectiveWeight(b) ==
    CASE b.stage = "PROBATION" -> IF b.weight > ProbationCap THEN ProbationCap ELSE b.weight
      [] b.stage = "ACTIVE" -> b.weight
      [] OTHER -> 0

(***************************************************************************)
(* Actions.                                                                *)
(***************************************************************************)
\* record_outcome: a position closes, and the premiums of both ends are known.
CloseTrade(pnl, said) ==
    /\ Len(trades) < MaxTrades
    /\ trades' = Append(trades, [pnl |-> pnl, said |-> said])
    /\ UNCHANGED <<stored, draft, forced, faults>>

\* load, which falls back to a fresh brain when the read fails.
Load(p, ok, force) ==
    /\ draft[p] = Nothing
    /\ faults' = IF ok THEN faults ELSE faults + 1
    /\ faults' <= MaxFaults
    /\ draft' = [draft EXCEPT ![p] = IF ok /\ stored # Nothing THEN stored ELSE Fresh]
    /\ forced' = IF p = "seed" THEN force ELSE forced
    /\ p = "review" => ~force
    /\ UNCHANGED <<trades, stored>>

\* save, which reports a failure to nobody.
Save(p, b, ok) ==
    /\ faults' = IF ok THEN faults ELSE faults + 1
    /\ faults' <= MaxFaults
    /\ stored' = IF ok THEN b ELSE stored
    /\ draft' = [draft EXCEPT ![p] = Nothing]
    /\ forced' = (forced /\ p # "seed")

\* record_verdict: consecutive errors count, and a clean read resets them.
RecordVerdict(errored) ==
    LET b == draft["review"] IN
    /\ b # Nothing
    /\ draft' = [draft EXCEPT !["review"].strikes =
                     IF errored THEN Min({b.strikes + 1, MaxStrikes}) ELSE 0]
    /\ UNCHANGED <<trades, stored, forced, faults>>

Review(ok) ==
    /\ draft["review"] # Nothing
    /\ Save("review", Reviewed(draft["review"]), ok)
    /\ UNCHANGED trades

\* seed leaves a brain with closed trades alone, unless it is forced.
Seed(ok) ==
    LET b == draft["seed"] IN
    /\ b # Nothing
    /\ b.nClosed = 0 \/ forced
    /\ Save("seed", [b EXCEPT !.bootstrap = MeasuredWeight, !.stage = MeasuredStage,
                              !.weight = IF MeasuredStage \in Voting THEN MeasuredWeight ELSE 0],
            ok)
    /\ UNCHANGED trades

SkipSeed ==
    /\ draft["seed"] # Nothing
    /\ draft["seed"].nClosed > 0 /\ ~forced
    /\ draft' = [draft EXCEPT !["seed"] = Nothing]
    /\ UNCHANGED <<trades, stored, forced, faults>>

BrainNext ==
    \/ \E pnl \in Pnls, said \in Said : CloseTrade(pnl, said)
    \/ \E p \in {"review", "seed"}, ok, force \in BOOLEAN : Load(p, ok, force)
    \/ \E errored \in BOOLEAN : RecordVerdict(errored)
    \/ \E ok \in BOOLEAN : Review(ok) \/ Seed(ok)
    \/ SkipSeed

BrainSpec == BrainInit /\ [][BrainNext]_brainVars

(***************************************************************************)
(* Properties.                                                             *)
(***************************************************************************)
\* A lens votes with more than the cap of probation only after twice the sample
\* of a promotion, whatever seeds and reviews wrote in between.
VoteIsEarned ==
    stored # Nothing /\ EffectiveWeight(stored) > ProbationCap => stored.nClosed >= 2 * PromoteMin

\* A review benches a lens for losing money only on evidence: among the trades of
\* the window there is one that it backed, or did not oppose, that did worse than
\* another that it opposed or did not back.
Evidence ==
    \E i, j \in DOMAIN Rows :
        /\ Rows[i].pnl < Rows[j].pnl
        /\ Rows[i].said = "for" \/ Rows[j].said = "against"
SuspendedOnEvidence ==
    [][LET b == draft["review"] IN
       /\ b # Nothing /\ b.stage \notin {"SUSPENDED", "RETIRED"} /\ b.strikes < MaxStrikes
       /\ draft'["review"] = Nothing /\ stored' # stored /\ stored'.stage = "SUSPENDED"
       => Evidence]_brainVars

\* "Round 0 is what the brain scores" (nse/council.py): a trade on which the lens
\* took a side is among those it is scored on.  The code keeps it where decisions
\* file their verdicts under "verdicts"; journal_decision writes "round0", "round1".
TradesAreScored ==
    \A i \in DOMAIN Rows :
        Rows[i].said \in {"for", "against"} => SaidRows(Rows[i].said) # {}

\* "a backtest number must never overwrite a live track record"
\* (nse/lenses/bootstrap.py): without force, a seed does not touch a stored brain
\* that has closed trades.  The code does not keep this: a read that fails, or a
\* review between read and write, has the seed take a live brain for a cold start.
LiveRecordKept ==
    [][draft["seed"] # Nothing /\ draft'["seed"] = Nothing /\ ~forced
           /\ stored # Nothing /\ stored.nClosed > 0 => stored' = stored]_brainVars
=============================================================================
