--------------------------- MODULE CouncilProofs ---------------------------
(***************************************************************************)
(* Proofs about the council, for every roster, weights and readings.       *)
(***************************************************************************)
EXTENDS Council, TLAPS, FiniteSetTheorems

\* Keeping a fraction of a confidence does not raise it.
LEMMA ShareLowers ==
    \A c \in Nat : \A k \in 0 .. Whole : Share(c, k) \in 0 .. c
<1> SUFFICES ASSUME NEW c \in Nat, NEW k \in 0 .. Whole
             PROVE  (c * k) \div Whole \in 0 .. c
  BY Zenon DEF Share
<1> DEFINE m == c * k
<1>1. m \in Nat /\ m <= c * 10000
  BY SMT DEF Whole
<1> HIDE DEF m
<1>2. m \div 10000 \in 0 .. c
  BY <1>1, SMT
<1> QED BY <1>2 DEF m, Whole

\* What is within a bound is below it, and what is below it within it.
LEMMA WithinBound ==
    ASSUME NEW n \in Nat
    PROVE /\ \A c \in 0 .. n : c \in Nat /\ c \in Int /\ c <= n
          /\ \A c \in Nat : c <= n => c \in 0 .. n
          /\ \A c \in Nat : \A d \in 0 .. c : c <= n => d \in 0 .. n /\ d <= c
  OBVIOUS

\* The largest confidence and the whole of a fraction are numbers.
LEMMA Bounds == Full \in Nat /\ Whole \in Nat
  BY DEF Full, Whole

\* What is within a confidence is a confidence.
LEMMA WithinFull ==
    /\ \A c \in 0 .. Full : c \in Nat /\ c \in Int /\ c <= Full
    /\ \A c \in Nat : \A d \in 0 .. c : c <= Full => d \in 0 .. Full /\ d <= c
  BY Bounds, WithinBound

\* The confidence of a verdict is a number between none and Full.
LEMMA Confidence ==
    ASSUME NEW v \in Verdicts
    PROVE  v.conf \in 0 .. Full /\ v.conf \in Nat /\ v.conf \in Int /\ v.conf <= Full
<1>1. v.conf \in 0 .. Full
  BY DEF Verdicts
<1> QED BY <1>1, WithinFull

\* The empty verdict is one.
LEMMA AbstentionIsVerdict == Abstention \in Verdicts
  BY DEF Verdicts, Abstention, Full

\* Every cut of every lens is a fraction: no rule of round 1 adds confidence.
LEMMA KeptIsFraction ==
    ASSUME NEW l \in Lenses, NEW poll
    PROVE  Kept(l, poll) \in 0 .. Whole
<1>1. \A doubt : Cut(doubt, 75) \in {75, 100} /\ Cut(doubt, 50) \in {50, 100}
                 /\ Cut(doubt, 60) \in {60, 100} /\ Cut(doubt, 70) \in {70, 100}
  BY DEF Cut
<1>2. \A a \in {50, 60, 70, 75, 100}, b \in {50, 60, 70, 75, 100} : a * b \in Nat /\ a * b <= 10000
  OBVIOUS
<1>3. l = "volume_oi" => Kept(l, poll) \in Nat /\ Kept(l, poll) <= 10000
  <2> HAVE l = "volume_oi"
  <2>1. Kept(l, poll) = Cut(Opposed("ict_smc", l, poll), 75) * Cut(struggled, 75)
    BY DEF Kept
  <2> QED BY <1>1, <1>2, <2>1
<1>4. l = "ict_smc" => Kept(l, poll) \in Nat /\ Kept(l, poll) <= 10000
  <2> HAVE l = "ict_smc"
  <2>1. Kept(l, poll) = Cut(Opposed("momentum", l, poll), 50) * Cut(Thin(poll), 75)
    BY DEF Kept
  <2> QED BY <1>1, <1>2, <2>1
<1>5. l = "momentum" => Kept(l, poll) \in Nat /\ Kept(l, poll) <= 10000
  <2> HAVE l = "momentum"
  <2>1. Kept(l, poll) = Cut(Opposed("ict_smc", l, poll), 50) * Cut(Thin(poll), 60)
    BY DEF Kept
  <2> QED BY <1>1, <1>2, <2>1
<1>6. l = "greeks" => Kept(l, poll) \in Nat /\ Kept(l, poll) <= 10000
  <2> HAVE l = "greeks"
  <2>1. Kept(l, poll) = Cut(Opposed("volume_oi", l, poll), 60) * Cut(Unread("smile", poll), 70)
    BY DEF Kept
  <2> QED BY <1>1, <1>2, <2>1
<1>7. l = "smile" => Kept(l, poll) \in Nat /\ Kept(l, poll) <= 10000
  <2> HAVE l = "smile"
  <2>1. Kept(l, poll) = Cut(Unread("greeks", poll), 60) * Cut(Thin(poll), 70)
    BY DEF Kept
  <2> QED BY <1>1, <1>2, <2>1
<1>8. l \notin {"volume_oi", "ict_smc", "momentum", "greeks", "smile"}
        => Kept(l, poll) \in Nat /\ Kept(l, poll) <= 10000
  <2> HAVE l \notin {"volume_oi", "ict_smc", "momentum", "greeks", "smile"}
  <2>1. Kept(l, poll) = 10000
    BY DEF Kept
  <2> QED BY <2>1
<1>9. Kept(l, poll) \in Nat /\ Kept(l, poll) <= 10000
  BY <1>3, <1>4, <1>5, <1>6, <1>7, <1>8
<1>10. Kept(l, poll) \in Nat /\ Kept(l, poll) <= Whole
  BY <1>9 DEF Whole
<1> QED BY <1>10, Bounds, WithinBound

\* What one lens makes of a poll: a verdict on the same side, no surer, and
\* silent if it was silent.
LEMMA HearingLowers ==
    ASSUME NEW poll \in [Lenses -> Verdicts],
           \A p \in Lenses : poll[p].abstained => poll[p] = Abstention,
           NEW crashed, NEW l \in Lenses
    PROVE  /\ Hearing(poll, crashed)[l] \in Verdicts
           /\ Hearing(poll, crashed)[l].conf <= poll[l].conf
           /\ Hearing(poll, crashed)[l].dir = poll[l].dir
           /\ Speaks(Hearing(poll, crashed)[l]) => Speaks(poll[l])
           /\ Hearing(poll, crashed)[l].abstained => Hearing(poll, crashed)[l] = Abstention
<1> DEFINE own == poll[l]
           new == Hearing(poll, crashed)[l]
<1>1. own \in Verdicts /\ (own.abstained => own = Abstention)
  OBVIOUS
<1>2. CASE new = own
  BY <1>1, <1>2 DEF Verdicts
<1>3. CASE ~own.abstained /\ new = [own EXCEPT !.deferred = TRUE]
  <2>1. DOMAIN own = {"dir", "conf", "abstained", "deferred"}
    BY <1>1 DEF Verdicts
  <2>2. new.conf = own.conf /\ new.dir = own.dir /\ new.abstained = own.abstained
    BY <1>3, <2>1
  <2>3. new.deferred
    BY <1>3, <2>1
  <2>4. new \in Verdicts
    BY <1>1, <1>3 DEF Verdicts
  <2>5. new.conf <= own.conf
    BY <1>1, <2>2, Confidence
  <2>6. ~Speaks(new)
    BY <2>3 DEF Speaks
  <2> QED BY <1>3, <2>2, <2>4, <2>5, <2>6
<1>4. CASE ~own.abstained /\ new = [own EXCEPT !.conf = Share(@, Kept(l, poll))]
  <2>1. own.conf \in Nat /\ own.conf <= Full
    BY <1>1, Confidence
  <2>2. \A c \in Nat : Share(c, Kept(l, poll)) \in 0 .. c
    BY KeptIsFraction, ShareLowers, Zenon
  <2> DEFINE c == own.conf
             d == Share(c, Kept(l, poll))
  <2>3. new = [own EXCEPT !.conf = d]
    BY <1>4
  <2>4. d \in 0 .. c
    BY <2>1, <2>2, Zenon
  <2> HIDE DEF c, d
  <2>5. d \in 0 .. Full /\ d <= c
    BY <2>1, <2>4, WithinFull, Zenon DEF c
  <2>6. DOMAIN own = {"dir", "conf", "abstained", "deferred"}
    BY <1>1 DEF Verdicts
  <2>7. new.conf = d
    BY <2>3, <2>6
  <2>8. new.dir = own.dir /\ new.abstained = own.abstained /\ new.deferred = own.deferred
    BY <2>3, <2>6
  <2>9. new \in Verdicts
    BY <1>1, <2>3, <2>5 DEF Verdicts
  <2> QED BY <1>4, <2>5, <2>7, <2>8, <2>9 DEF c, Speaks
<1>5. new = own \/ (~own.abstained /\ new = [own EXCEPT !.deferred = TRUE])
        \/ (~own.abstained /\ new = [own EXCEPT !.conf = Share(@, Kept(l, poll))])
  BY DEF Hearing, Revised
<1> QED BY <1>2, <1>3, <1>4, <1>5

\* The voices that decide, and a trade carried by the one that led them.
Deciding == IF Binding THEN heard ELSE said
Carried ==
    decision.executed => Leads(decision.lead, Deciding) /\ Clears(decision.lead, Deciding)

\* The inductive invariant: between decisions there is none.
IInv ==
    /\ TypeOK
    /\ RoundOneOnlyLowers
    /\ phase # "settled" => decision = StandAside
    /\ BackedByWeight
    /\ Carried

\* A decision not to trade is a decision, and needs no backing.
LEMMA NothingToBack ==
    /\ StandAside.executed = FALSE
    /\ StandAside \in [executed : BOOLEAN, dir : {-1, 0, 1}, lead : Lenses \cup {None}]
  BY DEF StandAside

\* Nothing said and nothing decided is a beginning, of the session or of a cycle.
LEMMA BlankInv ==
    ASSUME gate \in Gates, struggled \in BOOLEAN, said = [l \in Lenses |-> Abstention],
           heard = said, decision = StandAside, phase = "waiting"
    PROVE  IInv
<1>1. said \in [Lenses -> Verdicts] /\ \A l \in Lenses : said[l] = Abstention
  BY AbstentionIsVerdict
<1>2. TypeOK
  BY <1>1, NothingToBack DEF TypeOK
<1>3. RoundOneOnlyLowers
  BY DEF RoundOneOnlyLowers, Abstention
<1> QED BY <1>2, <1>3, NothingToBack DEF IInv, BackedByWeight, Carried

LEMMA InitInv == Init => IInv
  BY BlankInv DEF Init

LEMMA PollInv == IInv /\ Poll => IInv'
<1> SUFFICES ASSUME IInv, Poll PROVE IInv'
  OBVIOUS
<1> USE CouncilAssumption
<1>1. \A l \in Lenses : said'[l] \in Verdicts /\ (said'[l].abstained => said'[l] = Abstention)
  <2>1. \A l \in Lenses : said'[l] \in Reads[l]
    BY DEF Poll
  <2>2. \A l \in Lenses :
            said'[l] = Abstention \/ (said'[l] \in Verdicts /\ Speaks(said'[l]))
    BY <2>1
  <2> QED BY <2>2, AbstentionIsVerdict DEF Speaks
<1>2. said' \in [Lenses -> Verdicts]
  <2>1. said' \in [Lenses -> UNION {Reads[l] : l \in Lenses}]
    BY DEF Poll
  <2> QED BY <1>1, <2>1
<1>3. \A l \in Lenses : said'[l].conf \in Int
  BY <1>1, Confidence
<1>4. TypeOK'
  BY <1>1, <1>2 DEF Poll, IInv, TypeOK
<1>5. RoundOneOnlyLowers'
  BY <1>3 DEF Poll, RoundOneOnlyLowers
<1>6. decision' = StandAside
  BY DEF Poll, IInv
<1> QED BY <1>4, <1>5, <1>6, NothingToBack DEF IInv, BackedByWeight, Carried

LEMMA SettleInv == IInv /\ Settle => IInv'
<1> SUFFICES ASSUME IInv, Settle PROVE IInv'
  OBVIOUS
<1> USE CouncilAssumption
<1>1. PICK crashed \in Raisers :
         LET v == Voices(said, crashed)
         IN /\ heard' = Hearing(said, crashed)
            /\ \/ Speaking(v) = {} /\ decision' = StandAside
               \/ \E l \in Lenses :
                     /\ Leads(l, v)
                     /\ decision' = [executed |-> Clears(l, v), dir |-> v[l].dir, lead |-> l]
  BY DEF Settle
<1>2. \A l \in Lenses :
          /\ heard'[l] \in Verdicts
          /\ heard'[l].conf <= said[l].conf
          /\ heard'[l].dir = said[l].dir
          /\ Speaks(heard'[l]) => Speaks(said[l])
          /\ heard'[l].abstained => heard'[l] = Abstention
  BY <1>1, HearingLowers DEF IInv, TypeOK
<1>3. heard' \in [Lenses -> Verdicts]
  <2>1. heard' = [l \in Lenses |-> heard'[l]]
    BY <1>1 DEF Hearing
  <2> QED BY <1>2, <2>1
<1>4. said' = said /\ UNCHANGED <<gate, struggled>> /\ phase' = "settled"
  BY DEF Settle
<1>5. RoundOneOnlyLowers'
  BY <1>2, <1>4 DEF RoundOneOnlyLowers
<1> DEFINE v == IF Binding THEN heard' ELSE said
<1>6. \A l \in Lenses :
          /\ v[l] \in Verdicts
          /\ v[l].conf <= said[l].conf /\ said[l].conf \in Int /\ v[l].conf \in Int
          /\ v[l].dir = said[l].dir
          /\ Speaks(v[l]) => Speaks(said[l])
  <2>1. \A l \in Lenses : said[l] \in Verdicts
    BY DEF IInv, TypeOK
  <2> QED BY <1>2, <2>1, Confidence
<1>7. CASE decision' = StandAside
  <2>1. TypeOK'
    BY <1>2, <1>3, <1>4, <1>7 DEF IInv, TypeOK, StandAside
  <2> QED BY <1>4, <1>5, <1>7, <2>1, NothingToBack DEF IInv, BackedByWeight, Carried
<1>8. CASE \E l \in Lenses :
              /\ Leads(l, v)
              /\ decision' = [executed |-> Clears(l, v), dir |-> v[l].dir, lead |-> l]
  <2>1. PICK l \in Lenses :
              /\ Leads(l, v)
              /\ decision' = [executed |-> Clears(l, v), dir |-> v[l].dir, lead |-> l]
    BY <1>8
  <2>2. Weight[l] > 0 /\ Speaks(v[l]) /\ v[l].dir # 0
    BY <2>1 DEF Leads, Speaking, Leans
  <2>3. decision'.executed \in BOOLEAN /\ (decision'.executed => v[l].conf >= gate)
    BY <2>1 DEF Clears
  <2>4. decision'.dir = said[l].dir /\ decision'.lead = l
    BY <1>6, <2>1
  <2>5. decision' \in [executed : BOOLEAN, dir : {-1, 0, 1}, lead : Lenses \cup {None}]
    BY <1>6, <2>1 DEF Verdicts, Clears
  <2>6. TypeOK'
    BY <1>2, <1>3, <1>4, <2>4, <2>5 DEF IInv, TypeOK
  <2>7. gate \in Int
    BY WithinFull DEF IInv, TypeOK
  <2>8. BackedByWeight'
    BY <1>4, <1>6, <2>2, <2>3, <2>4, <2>7 DEF BackedByWeight
  <2>9. Carried'
    <3>1. v = Deciding'
      BY <1>4 DEF Deciding
    <3> HIDE DEF v
    <3>2. decision'.executed => Leads(decision'.lead, v) /\ Clears(decision'.lead, v)
      BY <2>1, <2>4
    <3>3. Clears(decision'.lead, v) <=> Clears(decision.lead, Deciding)'
      BY <1>4, <3>1 DEF Clears, Objectors, Leans, Speaks
    <3>4. Leads(decision'.lead, v) <=> Leads(decision.lead, Deciding)'
      BY <3>1 DEF Leads, Speaking, Leans, Speaks
    <3> QED BY <3>2, <3>3, <3>4 DEF Carried
  <2> QED BY <1>4, <1>5, <2>6, <2>8, <2>9 DEF IInv
<1> QED BY <1>1, <1>7, <1>8 DEF Voices

LEMMA ForgetInv == IInv /\ (NextCycle \/ NextDay) => IInv'
<1> SUFFICES ASSUME IInv, NextCycle \/ NextDay PROVE IInv'
  OBVIOUS
<1>1. Forget /\ gate' = gate /\ struggled' \in BOOLEAN
  BY DEF NextCycle, NextDay, IInv, TypeOK
<1>2. /\ gate' \in Gates /\ said' = [l \in Lenses |-> Abstention] /\ heard' = said'
      /\ decision' = StandAside /\ phase' = "waiting"
  BY <1>1 DEF Forget, IInv, TypeOK
<1>3. \A l \in Lenses : said'[l] = Abstention
  BY <1>2
<1>4. TypeOK'
  BY <1>1, <1>2, <1>3, AbstentionIsVerdict, NothingToBack DEF TypeOK
<1>5. RoundOneOnlyLowers'
  BY <1>2, <1>3 DEF RoundOneOnlyLowers, Abstention
<1> QED BY <1>2, <1>4, <1>5, NothingToBack DEF IInv, BackedByWeight, Carried

LEMMA StepInv == IInv /\ [Next]_vars => IInv'
<1>1. IInv /\ UNCHANGED vars => IInv'
  BY DEF vars, IInv, TypeOK, RoundOneOnlyLowers, BackedByWeight, Carried, Deciding, Leads,
         Clears, Objectors, Speaking, Leans, Speaks
<1> QED BY <1>1, PollInv, SettleInv, ForgetInv DEF Next

\* TypeOK, for every roster, weights and readings.
THEOREM TypeCorrect == Spec => []TypeOK
<1>1. IInv => TypeOK
  BY DEF IInv
<1> QED BY <1>1, InitInv, StepInv, PTL DEF Spec

\* RoundOneOnlyLowers: what assert_deliberation_monotone checks on one snapshot
\* holds of the lenses' rules on every snapshot.
THEOREM DeliberationIsMonotone == Spec => []RoundOneOnlyLowers
<1>1. IInv => RoundOneOnlyLowers
  BY DEF IInv
<1> QED BY <1>1, InitInv, StepInv, PTL DEF Spec

\* BackedByWeight: whatever is said in round 1, a trade goes the way a lens with
\* weight leaned, and was sure enough of, on its own.
THEOREM WeightDecides == Spec => []BackedByWeight
<1>1. IInv => BackedByWeight
  BY DEF IInv
<1> QED BY <1>1, InitInv, StepInv, PTL DEF Spec

\* Fewer objections ask for no more: two to the number of them is the number of
\* sets of them.
LEMMA FewerAskLess ==
    ASSUME NEW S, IsFiniteSet(S), NEW T \in SUBSET S
    PROVE  /\ 2 ^ Cardinality(T) \in Nat /\ 2 ^ Cardinality(S) \in Nat
           /\ 2 ^ Cardinality(T) <= 2 ^ Cardinality(S)
<1>1. IsFiniteSet(T)
  BY FS_Subset
<1>2. /\ IsFiniteSet(SUBSET S) /\ Cardinality(SUBSET S) = 2 ^ Cardinality(S)
      /\ IsFiniteSet(SUBSET T) /\ Cardinality(SUBSET T) = 2 ^ Cardinality(T)
  BY <1>1, FS_SUBSET
<1>3. SUBSET T \in SUBSET (SUBSET S)
  OBVIOUS
<1>4. Cardinality(SUBSET T) <= Cardinality(SUBSET S)
  BY <1>2, <1>3, FS_Subset
<1>5. Cardinality(SUBSET T) \in Nat /\ Cardinality(SUBSET S) \in Nat
  BY <1>2, FS_CardinalityType
<1> QED BY <1>2, <1>4, <1>5

\* A product grows with its factors.
LEMMA ProductGrows ==
    /\ \A a, b, c \in Nat : b <= c => a * b <= a * c
    /\ \A a, b, c, d \in Nat : a <= c /\ b <= d => a * b <= c * d
<1>1. \A a, b, c \in Nat : b <= c => a * b <= a * c
  <2> SUFFICES ASSUME NEW a \in Nat, NEW b \in Nat, NEW c \in Nat, b <= c
               PROVE  a * b <= a * c
    OBVIOUS
  <2>1. c - b \in Nat /\ a * c = a * b + a * (c - b)
    OBVIOUS
  <2>2. a * (c - b) \in Nat /\ a * b \in Nat
    BY <2>1
  <2> QED BY <2>1, <2>2
<1>2. \A a, b, c, d \in Nat : a <= c /\ b <= d => a * b <= c * d
  <2> SUFFICES ASSUME NEW a \in Nat, NEW b \in Nat, NEW c \in Nat, NEW d \in Nat,
                      a <= c, b <= d
               PROVE  a * b <= c * d
    OBVIOUS
  <2>1. a * b <= a * d /\ d * a <= d * c
    BY <1>1
  <2>2. a * d = d * a /\ d * c = c * d /\ a * b \in Nat /\ a * d \in Nat /\ c * d \in Nat
    OBVIOUS
  <2> QED BY <2>1, <2>2
<1> QED BY <1>1, <1>2

\* Who keeps more of a confidence is surer.
LEMMA ShareGrows ==
    \A c, j, k \in Nat : j <= k => Share(c, j) <= Share(c, k)
<1> SUFFICES ASSUME NEW c \in Nat, NEW j \in Nat, NEW k \in Nat, j <= k
             PROVE  (c * j) \div 10000 <= (c * k) \div 10000
  BY DEF Share, Whole
<1> DEFINE few == c * j
           many == c * k
<1>1. few \in Nat /\ many \in Nat /\ few <= many
  BY ProductGrows
<1> HIDE DEF few, many
<1>2. few \div 10000 <= many \div 10000
  BY <1>1
<1> QED BY <1>2 DEF few, many

\* A doubt that is not cast cuts nothing.
LEMMA CutGrows ==
    /\ \A x, y \in BOOLEAN : (y => x) =>
          /\ Cut(x, 75) <= Cut(y, 75) /\ Cut(x, 70) <= Cut(y, 70)
          /\ Cut(x, 60) <= Cut(y, 60) /\ Cut(x, 50) <= Cut(y, 50)
    /\ \A x : /\ Cut(x, 75) \in Nat /\ Cut(x, 70) \in Nat
              /\ Cut(x, 60) \in Nat /\ Cut(x, 50) \in Nat
  BY DEF Cut

\* What a lens that abstains no longer does to its peers.
Hush(poll, m) == [poll EXCEPT ![m] = Abstention]

LEMMA HushInv ==
    ASSUME NEW poll \in [Lenses -> Verdicts], NEW m \in Lenses,
           \A p \in Lenses : poll[p].abstained => poll[p] = Abstention
    PROVE  /\ Hush(poll, m) \in [Lenses -> Verdicts]
           /\ \A p \in Lenses \ {m} : Hush(poll, m)[p] = poll[p]
           /\ Hush(poll, m)[m] = Abstention
           /\ ~Speaks(Abstention) /\ ~Leans(Abstention) /\ Abstention.abstained
           /\ \A p \in Lenses : Hush(poll, m)[p].abstained => Hush(poll, m)[p] = Abstention
<1>1. ~Speaks(Abstention) /\ ~Leans(Abstention) /\ Abstention.abstained
  BY DEF Abstention, Speaks, Leans
<1> QED BY <1>1, AbstentionIsVerdict DEF Hush

\* A lens that abstains cuts no peer any more, but for the two that read the
\* surface and take each other's abstention for a doubt.
LEMMA KeptGrows ==
    ASSUME NEW poll \in [Lenses -> Verdicts], NEW m \in Lenses, NEW l \in Lenses \ {m},
           \A p \in Lenses : poll[p].abstained => poll[p] = Abstention,
           {l, m} # {"greeks", "smile"}
    PROVE  Kept(l, poll) <= Kept(l, Hush(poll, m))
<1> DEFINE hush == Hush(poll, m)
<1>1. /\ \A p \in Lenses \ {m} : hush[p] = poll[p]
      /\ hush[m] = Abstention /\ ~Speaks(hush[m]) /\ ~Leans(hush[m])
  BY HushInv
<1> HIDE DEF hush
<1>2. \A p : /\ Opposed(p, l, hush) \in BOOLEAN /\ Opposed(p, l, poll) \in BOOLEAN
             /\ Opposed(p, l, hush) => Opposed(p, l, poll)
  BY <1>1 DEF Opposed
<1>3. /\ Thin(hush) \in BOOLEAN /\ Thin(poll) \in BOOLEAN
      /\ Thin(hush) => Thin(poll)
  BY <1>1 DEF Thin
<1>4. \A p : p # m => (Unread(p, hush) <=> Unread(p, poll))
  BY <1>1 DEF Unread
<1>5. \A a, b, c, d \in Nat : a <= c /\ b <= d => a * b <= c * d
  BY ProductGrows
<1>6. CASE l = "volume_oi"
  <2> DEFINE b == Cut(struggled, 75)
             a == Cut(Opposed("ict_smc", l, poll), 75)
             c == Cut(Opposed("ict_smc", l, hush), 75)
  <2>1. Kept(l, poll) = a * b /\ Kept(l, hush) = c * b
    BY <1>6 DEF Kept
  <2>2. a \in Nat /\ b \in Nat /\ c \in Nat /\ a <= c
    BY <1>2, CutGrows
  <2> HIDE DEF a, b, c
  <2>3. b <= b
    BY <2>2
  <2> QED BY <1>5, <2>1, <2>2, <2>3 DEF hush
<1>7. CASE l = "ict_smc"
  <2> DEFINE a == Cut(Opposed("momentum", l, poll), 50)
             b == Cut(Thin(poll), 75)
             c == Cut(Opposed("momentum", l, hush), 50)
             d == Cut(Thin(hush), 75)
  <2>1. Kept(l, poll) = a * b /\ Kept(l, hush) = c * d
    BY <1>7 DEF Kept
  <2>2. a \in Nat /\ b \in Nat /\ c \in Nat /\ d \in Nat /\ a <= c /\ b <= d
    BY <1>2, <1>3, CutGrows
  <2> HIDE DEF a, b, c, d
  <2> QED BY <1>5, <2>1, <2>2 DEF hush
<1>8. CASE l = "momentum"
  <2> DEFINE a == Cut(Opposed("ict_smc", l, poll), 50)
             b == Cut(Thin(poll), 60)
             c == Cut(Opposed("ict_smc", l, hush), 50)
             d == Cut(Thin(hush), 60)
  <2>1. Kept(l, poll) = a * b /\ Kept(l, hush) = c * d
    BY <1>8 DEF Kept
  <2>2. a \in Nat /\ b \in Nat /\ c \in Nat /\ d \in Nat /\ a <= c /\ b <= d
    BY <1>2, <1>3, CutGrows
  <2> HIDE DEF a, b, c, d
  <2> QED BY <1>5, <2>1, <2>2 DEF hush
<1>9. CASE l = "greeks"
  <2> DEFINE a == Cut(Opposed("volume_oi", l, poll), 60)
             b == Cut(Unread("smile", poll), 70)
             c == Cut(Opposed("volume_oi", l, hush), 60)
             d == Cut(Unread("smile", hush), 70)
  <2>1. Kept(l, poll) = a * b /\ Kept(l, hush) = c * d
    BY <1>9 DEF Kept
  <2>2. Unread("smile", hush) <=> Unread("smile", poll)
    BY <1>4, <1>9
  <2>3. b = d
    BY <2>2 DEF Cut
  <2>4. a \in Nat /\ b \in Nat /\ c \in Nat /\ d \in Nat /\ a <= c
    BY <1>2, CutGrows
  <2> HIDE DEF a, b, c, d
  <2>5. b <= d
    BY <2>3, <2>4
  <2> QED BY <1>5, <2>1, <2>4, <2>5 DEF hush
<1>10. CASE l = "smile"
  <2> DEFINE a == Cut(Unread("greeks", poll), 60)
             b == Cut(Thin(poll), 70)
             c == Cut(Unread("greeks", hush), 60)
             d == Cut(Thin(hush), 70)
  <2>1. Kept(l, poll) = a * b /\ Kept(l, hush) = c * d
    BY <1>10 DEF Kept
  <2>2. Unread("greeks", hush) <=> Unread("greeks", poll)
    BY <1>4, <1>10
  <2>3. a = c
    BY <2>2 DEF Cut
  <2>4. a \in Nat /\ b \in Nat /\ c \in Nat /\ d \in Nat /\ b <= d
    BY <1>3, CutGrows
  <2> HIDE DEF a, b, c, d
  <2>5. a <= c
    BY <2>3, <2>4
  <2> QED BY <1>5, <2>1, <2>4, <2>5 DEF hush
<1>11. CASE l \notin {"volume_oi", "ict_smc", "momentum", "greeks", "smile"}
  <2>1. Kept(l, poll) = 10000 /\ Kept(l, hush) = 10000
    BY <1>11 DEF Kept
  <2> QED BY <2>1 DEF hush
<1> QED BY <1>6, <1>7, <1>8, <1>9, <1>10, <1>11

\* What decides is a revision of the poll, lens by lens.
LEMMA VoicesLower ==
    ASSUME NEW poll \in [Lenses -> Verdicts],
           \A p \in Lenses : poll[p].abstained => poll[p] = Abstention,
           NEW crashed
    PROVE  /\ Voices(poll, crashed) \in [Lenses -> Verdicts]
           /\ \A k \in Lenses : /\ Voices(poll, crashed)[k].dir = poll[k].dir
                                /\ Leans(Voices(poll, crashed)[k]) => Leans(poll[k])
<1> DEFINE v == Voices(poll, crashed)
<1>1. v = [k \in Lenses |-> v[k]]
  BY DEF Voices, Hearing
<1>2. \A k \in Lenses : v[k] \in Verdicts /\ v[k].dir = poll[k].dir
                        /\ (Speaks(v[k]) => Speaks(poll[k]))
  BY HearingLowers DEF Voices
<1> HIDE DEF v
<1>3. v \in [Lenses -> Verdicts]
  BY <1>1, <1>2
<1> QED BY <1>2, <1>3 DEF v, Leans

\* The lead hears no new doubt when another lens abstains: it speaks as it did,
\* and no less sure, but for the two lenses that read the surface.
LEMMA LeadHeard ==
    ASSUME NEW poll \in [Lenses -> Verdicts], NEW m \in Lenses, NEW l \in Lenses \ {m},
           \A p \in Lenses : poll[p].abstained => poll[p] = Abstention,
           NEW crashed, Leans(Voices(poll, crashed)[l])
    PROVE  /\ Leans(Voices(Hush(poll, m), crashed)[l])
           /\ \/ {l, m} = {"greeks", "smile"}
              \/ Voices(poll, crashed)[l].conf <= Voices(Hush(poll, m), crashed)[l].conf
<1> DEFINE hush == Hush(poll, m)
           v == Voices(poll, crashed)
           w == Voices(hush, crashed)
           own == poll[l]
<1>1. /\ hush[l] = own /\ \A p \in Lenses \ {m} : hush[p] = poll[p]
      /\ ~Leans(hush[m]) /\ hush \in [Lenses -> Verdicts]
      /\ \A p \in Lenses : hush[p].abstained => hush[p] = Abstention
  BY HushInv
<1>2. own \in Verdicts /\ Leans(own) /\ ~own.abstained
  BY VoicesLower DEF Leans, Speaks
<1>3. v \in [Lenses -> Verdicts] /\ w \in [Lenses -> Verdicts]
  <2> HIDE DEF hush
  <2> QED BY <1>1, VoicesLower
<1>4. v[l].conf \in Int /\ w[l].conf \in Int
  BY <1>3, Confidence
<1>5. CASE ~Binding \/ l \in crashed
  <2>1. v[l] = own /\ w[l] = own
    BY <1>1, <1>5 DEF Voices, Hearing
  <2> QED BY <1>2, <1>4, <2>1
<1>6. CASE Binding /\ l \notin crashed
  <2>1. v[l] = Revised(l, poll) /\ w[l] = Revised(l, hush)
    BY <1>6 DEF Voices, Hearing
  <2>2. DOMAIN own = {"dir", "conf", "abstained", "deferred"}
    BY <1>2 DEF Verdicts
  <2>3. ~Defers(l, poll)
    <3> SUFFICES ASSUME Defers(l, poll) PROVE FALSE
      OBVIOUS
    <3>1. v[l] = [own EXCEPT !.deferred = TRUE]
      BY <1>2, <2>1 DEF Revised
    <3>2. v[l].deferred
      BY <2>2, <3>1
    <3> QED BY <3>2 DEF Leans, Speaks
  <2>4. ~Defers(l, hush)
    BY <1>1, <2>3 DEF Defers
  <2>5. /\ v[l] = [own EXCEPT !.conf = Share(@, Kept(l, poll))]
        /\ w[l] = [own EXCEPT !.conf = Share(@, Kept(l, hush))]
    BY <1>1, <1>2, <2>1, <2>3, <2>4 DEF Revised
  <2>6. /\ v[l].conf = Share(own.conf, Kept(l, poll))
        /\ w[l].conf = Share(own.conf, Kept(l, hush))
        /\ w[l].dir = own.dir /\ w[l].abstained = own.abstained /\ w[l].deferred = own.deferred
    BY <2>2, <2>5
  <2>7. Leans(w[l])
    BY <1>2, <2>6 DEF Leans, Speaks
  <2>8. ASSUME {l, m} # {"greeks", "smile"} PROVE v[l].conf <= w[l].conf
    <3>1. own.conf \in Nat
      BY <1>2, Confidence
    <3>2. Kept(l, poll) <= Kept(l, hush)
      BY <2>8, KeptGrows
    <3>3. Kept(l, poll) \in Nat /\ Kept(l, hush) \in Nat
      BY KeptIsFraction, WithinBound, Bounds
    <3> QED BY <2>6, <3>1, <3>2, <3>3, ShareGrows
  <2> QED BY <2>7, <2>8
<1> QED BY <1>5, <1>6

\* _resolve: a lead that is no less sure than in a deliberation it won loses
\* another one only to a lens that is louder there, on the other side or
\* weightier than it is.
LEMMA OnlyTheLouderStop ==
    ASSUME NEW v \in [Lenses -> Verdicts], NEW w \in [Lenses -> Verdicts],
           NEW l \in Lenses, NEW m \in Lenses \ {l}, gate \in 0 .. Full,
           Leads(l, v), Clears(l, v), Leans(w[l]), v[l].conf <= w[l].conf, ~Leans(w[m]),
           \A k \in Lenses \ {m} : w[k].dir = v[k].dir
    PROVE  \/ Executes(w)
           \/ \E k \in Lenses \ {l, m} : Louder(k, w, v) /\ StandsAgainst(k, l, w)
<1> SUFFICES ASSUME \A k \in Lenses \ {l, m} : StandsAgainst(k, l, w) => ~Louder(k, w, v)
             PROVE  Leads(l, w) /\ Clears(l, w)
  BY DEF Executes
<1>1. \A k \in Lenses : v[k].conf \in Nat /\ w[k].conf \in Nat /\ Weight[k] \in Nat
  BY Confidence, CouncilAssumption
<1>2. l \in Speaking(v) /\ l \in Speaking(w)
  BY DEF Leads, Speaking
<1>3. Leads(l, w)
  <2> SUFFICES ASSUME NEW k \in Speaking(w)
               PROVE  \/ Weight[k] * w[k].conf < Weight[l] * w[l].conf
                      \/ Weight[k] * w[k].conf = Weight[l] * w[l].conf /\ Seat[l] <= Seat[k]
    BY <1>2 DEF Leads
  <2>1. k \in Lenses /\ Leans(w[k]) /\ Weight[k] > 0 /\ k # m
    BY DEF Speaking
  <2>2. CASE k = l
    <3>1. Seat[l] <= Seat[l]
      BY CouncilAssumption
    <3> QED BY <2>2, <3>1
  <2>3. CASE k # l /\ StandsAgainst(k, l, w)
    <3>1. Leans(v[k]) /\ ~(v[k].conf < w[k].conf)
      BY <2>1, <2>3 DEF Louder
    <3>2. w[k].conf <= v[k].conf
      BY <1>1, <2>1, <3>1
    <3>3. k \in Speaking(v)
      BY <2>1, <3>1 DEF Speaking
    <3>4. \/ Weight[k] * v[k].conf < Weight[l] * v[l].conf
          \/ Weight[k] * v[k].conf = Weight[l] * v[l].conf /\ Seat[l] <= Seat[k]
      BY <3>3 DEF Leads
    <3> DEFINE kw == Weight[k] * w[k].conf
               kv == Weight[k] * v[k].conf
               lv == Weight[l] * v[l].conf
               lw == Weight[l] * w[l].conf
    <3>5. kw \in Nat /\ kv \in Nat /\ lv \in Nat /\ lw \in Nat
      BY <1>1, <2>1
    <3>6. kw <= kv /\ lv <= lw
      BY <1>1, <2>1, <3>2, ProductGrows
    <3> HIDE DEF kw, kv, lv, lw
    <3>7. kv < lv \/ (kv = lv /\ Seat[l] <= Seat[k])
      BY <3>4 DEF kv, lv
    <3>8. kw < lw \/ (kw = lw /\ Seat[l] <= Seat[k])
      BY <3>5, <3>6, <3>7
    <3> QED BY <3>8 DEF kw, lw
  <2>4. CASE k # l /\ ~StandsAgainst(k, l, w)
    <3> DEFINE kw == Weight[k] * w[k].conf
               lw == Weight[l] * w[l].conf
    <3>1. kw \in Nat /\ lw \in Nat
      BY <1>1, <2>1
    <3>2. ~(kw >= lw)
      BY <2>4 DEF StandsAgainst
    <3> HIDE DEF kw, lw
    <3>3. kw < lw
      BY <3>1, <3>2
    <3> QED BY <3>3 DEF kw, lw
  <2> QED BY <2>2, <2>3, <2>4
<1>4. Objectors(l, w) \in SUBSET Objectors(l, v)
  <2> SUFFICES ASSUME NEW k \in Objectors(l, w)
               PROVE  k \in Objectors(l, v)
    OBVIOUS
  <2>1. /\ k \in Lenses \ {l} /\ Leans(w[k]) /\ w[k].dir # w[l].dir
        /\ w[k].conf >= ObjectionFloor /\ k # m
    BY DEF Objectors
  <2>2. Leans(v[k]) /\ ~(v[k].conf < w[k].conf)
    BY <2>1 DEF StandsAgainst, Louder
  <2>3. v[k].conf >= ObjectionFloor
    BY <1>1, <2>1, <2>2 DEF ObjectionFloor
  <2> QED BY <2>1, <2>2, <2>3 DEF Objectors
<1>5. IsFiniteSet(Objectors(l, v))
  <2>1. Objectors(l, v) \in SUBSET Lenses
    BY DEF Objectors
  <2> QED BY <2>1, CouncilAssumption, FS_Subset
<1> DEFINE few == 2 ^ Cardinality(Objectors(l, w))
           many == 2 ^ Cardinality(Objectors(l, v))
<1>6. few \in Nat /\ many \in Nat /\ few <= many
  BY <1>4, <1>5, FewerAskLess
<1>7. v[l].conf >= gate /\ v[l].conf >= 35000 * many
  BY DEF Clears, Bar
<1> HIDE DEF few, many
<1>8. v[l].conf \in Nat /\ w[l].conf \in Nat /\ v[l].conf <= w[l].conf
  BY <1>1
<1>9. w[l].conf >= gate /\ w[l].conf >= 35000 * few
  BY <1>6, <1>7, <1>8, WithinFull
<1>10. Clears(l, w)
  BY <1>9 DEF Clears, Bar, few
<1> QED BY <1>3, <1>10

\* PeersNeverConfirm: a trade that is made with a lens that does not lead, and
\* not without it, is owed to a doubt that lens cast in round 1, never to its
\* agreeing.
THEOREM PeersOnlyDoubt == Spec => []PeersNeverConfirm
<1>1. IInv => PeersNeverConfirm
  <2> SUFFICES ASSUME IInv, decision.executed, NEW m \in Lenses \ {decision.lead},
                      NEW crashed \in Raisers, heard = Hearing(said, crashed)
               PROVE  LET l == decision.lead
                          v == Voices(said, crashed)
                          w == Voices(Without(m), crashed)
                      IN \/ Executes(w)
                         \/ \E k \in Lenses \ {l, m} : Louder(k, w, v) /\ StandsAgainst(k, l, w)
                         \/ {l, m} = {"greeks", "smile"} /\ w[l].conf < v[l].conf
    BY DEF PeersNeverConfirm
  <2> DEFINE l == decision.lead
             v == Voices(said, crashed)
             w == Voices(Without(m), crashed)
  <2>1. v = Deciding
    BY DEF Voices, Deciding
  <2>2. Leads(l, v) /\ Clears(l, v) /\ l \in Lenses /\ Leans(v[l])
    BY <2>1 DEF IInv, Carried, Leads, Speaking
  <2>3. /\ said \in [Lenses -> Verdicts]
        /\ \A p \in Lenses : said[p].abstained => said[p] = Abstention
    BY DEF IInv, TypeOK
  <2>4. Without(m) = Hush(said, m)
    BY DEF Without, Hush
  <2>5. /\ Without(m) \in [Lenses -> Verdicts]
        /\ \A p \in Lenses : Without(m)[p].abstained => Without(m)[p] = Abstention
        /\ \A p \in Lenses \ {m} : Without(m)[p] = said[p]
        /\ ~Leans(Without(m)[m])
    BY <2>3, <2>4, HushInv
  <2>6. /\ v \in [Lenses -> Verdicts]
        /\ \A k \in Lenses : v[k].dir = said[k].dir
    BY <2>3, VoicesLower
  <2>7. /\ w \in [Lenses -> Verdicts]
        /\ \A k \in Lenses : w[k].dir = Without(m)[k].dir
                             /\ (Leans(w[k]) => Leans(Without(m)[k]))
    BY <2>5, VoicesLower
  <2>8. ~Leans(w[m]) /\ \A k \in Lenses \ {m} : w[k].dir = v[k].dir
    BY <2>5, <2>6, <2>7
  <2>9. Leans(w[l]) /\ ({l, m} = {"greeks", "smile"} \/ v[l].conf <= w[l].conf)
    BY <2>2, <2>3, <2>4, LeadHeard
  <2>10. gate \in 0 .. Full
    BY CouncilAssumption DEF IInv, TypeOK
  <2>11. v[l].conf \in Nat /\ w[l].conf \in Nat
    BY <2>2, <2>6, <2>7, Confidence
  <2>12. m \in Lenses \ {l}
    OBVIOUS
  <2> HIDE DEF l, v, w
  <2>13. ASSUME v[l].conf <= w[l].conf
         PROVE  \/ Executes(w)
                \/ \E k \in Lenses \ {l, m} : Louder(k, w, v) /\ StandsAgainst(k, l, w)
    BY <2>2, <2>6, <2>7, <2>8, <2>9, <2>10, <2>12, <2>13, OnlyTheLouderStop
  <2>14. ASSUME ~(v[l].conf <= w[l].conf)
         PROVE  {l, m} = {"greeks", "smile"} /\ w[l].conf < v[l].conf
    BY <2>9, <2>11, <2>14
  <2> QED BY <2>13, <2>14 DEF l, v, w
<1> QED BY <1>1, InitInv, StepInv, PTL DEF Spec
=============================================================================
