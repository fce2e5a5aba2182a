---------------------------- MODULE StatusBoard ----------------------------
(***************************************************************************)
(* What an operator is told of the council: the one-glance health, the     *)
(* levels, the markers and the kill switch of the dashboard                *)
(* (api/routes_nse.py), and the readiness check of a host                  *)
(* (docker/preflight.py).  The dashboard is another process: all it sees   *)
(* of the council is the decisions in Mongo.                               *)
(*                                                                         *)
(* A tick is a minute, the council's cycle; ages are kept up to OldAge.    *)
(* A decision is one symbol's; what it decides is left to Council and      *)
(* BrainSentinel, and the order it leads to is here whether it was sent.   *)
(***************************************************************************)
EXTENDS Integers, FiniteSets

CONSTANTS
    TradedSymbols,
    WarnAge, FeedAge, FailAge,  \* 120 s, 300 s and 600 s, in ticks
    MaxTrouble                  \* bound: what goes wrong, and what is set

ASSUME StatusBoardAssumption ==
    /\ TradedSymbols # {} /\ MaxTrouble \in Nat
    /\ {WarnAge, FeedAge, FailAge} \subseteq Nat
    /\ 0 < WarnAge /\ WarnAge < FeedAge /\ FeedAge < FailAge

OldAge == FailAge + 1
Unseen == OldAge + 1    \* no decision was ever journalled

VARIABLES
    trading,    \* market_open
    deciding,   \* the symbols the council's loop still comes to
    due,        \* those it has not come to this minute
    silent,     \* minutes since it decided anything in this session
    feed,       \* "live", "frozen": the same spot again, "dark": no chain
    mongo, journals, \* the database answers; the council's writes succeed
    doc,        \* [TradedSymbols -> the newest decision in the database]
    sentinel,   \* "down", "up", "latched"
    armed, rejected, \* live_orders; intents_rejected
    weighted,   \* some lens has weight
    dying,      \* some lens is
    halted,     \* _KILLED of nse/risk.py, in the dashboard's process
    submitted,  \* symbols whose newest decision led to an order
    troubles    \* bounded by MaxTrouble

council == <<deciding, due, silent, doc, submitted>>
plant == <<feed, mongo, journals, sentinel, armed, rejected, weighted, dying, halted>>
statusVars == <<trading, council, plant, troubles>>

NoDoc == [age |-> Unseen, executed |-> FALSE, moved |-> FALSE]

StatusInit ==
    /\ trading = FALSE /\ deciding = TradedSymbols /\ due = {} /\ silent = 0
    /\ feed = "live" /\ mongo = TRUE /\ journals = TRUE
    /\ doc = [s \in TradedSymbols |-> NoDoc]
    /\ sentinel = "up" /\ armed = TRUE /\ rejected = FALSE
    /\ weighted = TRUE /\ dying = FALSE /\ halted = FALSE
    /\ submitted = {} /\ troubles = 0

---------------------------------------------------------------------------
(* The council, minute by minute *)

\* A decision is journalled before it is asked what blocks it; a frozen spot blocks it.
Decide(s, executed) ==
    /\ trading /\ s \in deciding \cap due /\ feed # "dark"
    /\ due' = due \ {s} /\ silent' = 0
    /\ doc' = IF mongo /\ journals
              THEN [doc EXCEPT ![s] = [age |-> 0, executed |-> executed, moved |-> feed = "live"]]
              ELSE doc
    /\ submitted' = IF executed /\ feed = "live" /\ sentinel = "up" THEN submitted \cup {s} ELSE submitted \ {s}
    /\ UNCHANGED <<trading, deciding, plant, troubles>>

\* build_live returns nothing: no decision.
NoSnapshot(s) ==
    /\ trading /\ s \in deciding \cap due /\ feed = "dark"
    /\ due' = due \ {s}
    /\ UNCHANGED <<trading, deciding, silent, doc, submitted, plant, troubles>>

Minute ==
    /\ due \cap deciding = {}
    /\ due' = IF trading THEN TradedSymbols ELSE {}
    /\ silent' = IF trading /\ silent < OldAge THEN silent + 1 ELSE silent
    /\ doc' = [s \in TradedSymbols |->
                 [doc[s] EXCEPT !.age = IF @ < OldAge THEN @ + 1 ELSE @]]
    /\ UNCHANGED <<trading, deciding, submitted, plant, troubles>>

MarketOpens ==
    /\ ~trading /\ trading' = TRUE /\ due' = TradedSymbols /\ silent' = 0
    /\ UNCHANGED <<deciding, doc, submitted, plant, troubles>>

MarketCloses ==
    /\ trading /\ due \cap deciding = {} /\ trading' = FALSE /\ due' = {}
    /\ UNCHANGED <<deciding, silent, doc, submitted, plant, troubles>>

---------------------------------------------------------------------------
(* What goes wrong, and the kill switch *)

Trouble == troubles < MaxTrouble /\ troubles' = troubles + 1

\* The loop hangs, or keeps failing for one symbol.
Stalls ==
    /\ Trouble
    /\ \E s \in deciding : deciding' = deciding \ {s}
    /\ UNCHANGED <<trading, due, silent, doc, submitted, plant>>

Breaks ==
    /\ Trouble
    /\ \/ feed' \in {"live", "frozen", "dark"} \ {feed}
          /\ UNCHANGED <<mongo, journals, sentinel, armed, rejected, weighted, dying>>
       \/ mongo' = ~mongo /\ UNCHANGED <<feed, journals, sentinel, armed, rejected, weighted, dying>>
       \/ journals' = ~journals /\ UNCHANGED <<feed, mongo, sentinel, armed, rejected, weighted, dying>>
       \/ sentinel' \in {"down", "up", "latched"} \ {sentinel}
          /\ UNCHANGED <<feed, mongo, journals, armed, rejected, weighted, dying>>
       \/ armed' = ~armed /\ UNCHANGED <<feed, mongo, journals, sentinel, rejected, weighted, dying>>
       \/ rejected' = ~rejected /\ UNCHANGED <<feed, mongo, journals, sentinel, armed, weighted, dying>>
       \/ weighted' = ~weighted /\ UNCHANGED <<feed, mongo, journals, sentinel, armed, rejected, dying>>
       \/ dying' = ~dying /\ UNCHANGED <<feed, mongo, journals, sentinel, armed, rejected, weighted>>
    /\ UNCHANGED <<trading, council, halted>>

\* nse_kill and nse_unkill
SwitchKill ==
    /\ Trouble /\ halted' = ~halted
    /\ UNCHANGED <<trading, council, feed, mongo, journals, sentinel, armed, rejected, weighted, dying>>

StatusNext ==
    \/ \E s \in TradedSymbols, executed \in BOOLEAN : Decide(s, executed)
    \/ \E s \in TradedSymbols : NoSnapshot(s)
    \/ Minute
    \/ MarketOpens
    \/ MarketCloses
    \/ Stalls
    \/ Breaks
    \/ SwitchKill

StatusSpec == StatusInit /\ [][StatusNext]_statusVars

---------------------------------------------------------------------------
(* nse_health *)

Newest == CHOOSE d \in {doc[s] : s \in TradedSymbols} :
            \A s \in TradedSymbols : d.age <= doc[s].age

\* Fault: a cycle or nine that were missed are a slow snapshot.
DecidingStateLate == IF ~trading \/ Newest.age < FailAge THEN "ok" ELSE "fail"

\* "council deciding"; red before the first decision of all, whatever the hour.
DecidingState ==
    IF Newest.age = Unseen THEN "fail"
    ELSE IF ~trading \/ Newest.age < WarnAge THEN "ok"
    ELSE IF Newest.age < FailAge THEN "warn" ELSE "fail"

\* "market feed": inferred from the newest decision.
FeedState ==
    IF Newest.age # Unseen /\ (~trading \/ Newest.age < FeedAge) THEN "ok" ELSE "warn"

Checks ==
    IF ~mongo THEN {"fail", "warn"}
    ELSE {DecidingState, FeedState}

SentinelChecks ==
    IF sentinel = "down" THEN {"fail"}
    ELSE (IF sentinel = "latched" THEN {"fail"} ELSE {})
         \cup (IF armed THEN {} ELSE {"warn"})
         \cup (IF rejected THEN {"warn"} ELSE {})

\* The brains are in the database; without it they are the defaults of MEASURED.
LensChecks ==
    (IF weighted \/ ~mongo THEN {} ELSE {"fail"}) \cup (IF dying /\ mongo THEN {"warn"} ELSE {})

Worst(states) == IF "fail" \in states THEN "fail" ELSE IF "warn" \in states THEN "warn" ELSE "ok"

Overall == Worst(Checks \cup SentinelChecks \cup LensChecks)

\* nse_markers: a box for what the newest executed decision expects.
Expectation == {s \in TradedSymbols : mongo /\ doc[s].executed}

\* nse_levels: those of the symbol's newest decision, whenever that was.
LevelsShown == {s \in TradedSymbols : mongo /\ doc[s].age # Unseen}

---------------------------------------------------------------------------
(* preflight *)

\* A host: what the checks of preflight.py look at.  Its own secret is not the sentinel's.
Hosts ==
    [ip : {"registered", "other", "unknown"}, secret : {"long", "short"}, shared : BOOLEAN,
     login : BOOLEAN, margin : BOOLEAN, guard : BOOLEAN]

CheckIp(host) == IF host.ip = "other" THEN "fail" ELSE IF host.ip = "unknown" THEN "warn" ELSE "pass"
CheckSecrets(host) == IF host.secret = "long" /\ host.login THEN "pass" ELSE "fail"
CheckMongo == IF mongo THEN "pass" ELSE "fail"
CheckSentinel(host) ==
    IF sentinel # "up" \/ ~host.margin THEN "fail" ELSE IF armed THEN "pass" ELSE "warn"
CheckTierSplit(host) == IF host.guard THEN "pass" ELSE "fail"
\* _default_council is of fixed weights, not of the brains'.
CheckCouncil == "pass"
CheckMarketData == IF trading /\ feed # "dark" THEN "pass" ELSE "warn"

Ready(host) ==
    "fail" \notin {CheckIp(host), CheckSecrets(host), CheckMongo, CheckSentinel(host),
                   CheckTierSplit(host), CheckCouncil, CheckMarketData}

---------------------------------------------------------------------------
(* Properties *)

\* The panel is never green while the council is silent, nor over a dead man's switch that is
\* latched, a sentinel that does not answer, a database that does not, or a council without a
\* lens that has weight ("Everything that can be wrong with the council, in one payload"; "THE
\* CHECK THAT MATTERS MOST IS DECISION AGE").  The panel sees only what was journalled: the
\* council may be silent for another reason than the one it shows, or not at all.
SilenceShows ==
    Overall = "ok" =>
        /\ trading => silent < WarnAge
        /\ sentinel = "up" /\ mongo /\ weighted

\* A green feed ticks ("a RECENT decision carrying a plausible spot is positive evidence the
\* feed is up").  Not so: decisions go on being journalled with a spot that is frozen.
FeedGreenMeansTicking == trading /\ Overall = "ok" => \E s \in TradedSymbols : doc[s].moved

\* Each symbol's silence shows, or its levels are not drawn as the council's.  Not so: the age
\* is that of the newest decision of any symbol, and levels have none.
StalledSymbolShows ==
    trading /\ Overall = "ok" => \A s \in LevelsShown : doc[s].age < FeedAge

\* A decision shown as executed was sent to the sentinel.  Not so: it is journalled first.
ExecutedWasSent == Expectation \subseteq submitted

\* Nothing is red while all is well.  Not so: at the open the newest decision is of yesterday.
QuietIsGreen ==
    trading /\ silent = 0 /\ mongo /\ journals /\ sentinel = "up" /\ weighted => Overall # "fail"

\* The kill switch halts entries ("NSE entries halted").  Not so: it is a variable of the
\* dashboard's process, and the council is another.
KillHalts == [][halted => submitted' \subseteq submitted]_statusVars

\* What is ready gets its orders accepted.  Not so: the secret checked is this host's.
ReadyIsAccepted == \A host \in Hosts : Ready(host) => host.shared
=============================================================================
