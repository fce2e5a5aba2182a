------------------------------ MODULE MCFeeds ------------------------------
(***************************************************************************)
(* Who logs in to the data and comes back after a failure: the threads of  *)
(* a trading process, the option-chain collector, and Delta's stream.      *)
(* They share no state: each behaviour is of one of them, so that their    *)
(* states add up and do not multiply.                                      *)
(***************************************************************************)
EXTENDS AngelSession, Collector, DeltaStream

VARIABLE topic
vars == <<topic, sessionVars, collectorVars, deltaVars>>

McKindsOf ==
    [t \in Callers |-> IF t = "loop" THEN {"quote"}
                       ELSE {"candle", "ltp", "vix", "forced"}]

Init ==
    /\ SessionInit /\ CollectorInit /\ DeltaInit
    /\ topic \in {"session", "collector", "delta"}
    /\ topic # "collector" => money = 1

Next ==
    \/ topic = "session" /\ SessionNext /\ UNCHANGED <<topic, collectorVars, deltaVars>>
    \/ topic = "collector" /\ CollectorNext /\ UNCHANGED <<topic, sessionVars, deltaVars>>
    \/ topic = "delta" /\ DeltaNext /\ UNCHANGED <<topic, sessionVars, collectorVars>>

\* SessionFairness, CollectorFairness and the thread of Delta's stream (_run_loop, and the time
\* it waits for), each of the behaviours about it.
Fairness ==
    /\ \A t \in Threads : WF_sessionVars(topic = "session" /\ Proceeds(t))
    /\ WF_sessionVars(topic = "session" /\ CooledDown)
    /\ WF_sessionVars(topic = "session" /\ OthersSave)
    /\ WF_collectorVars(topic = "collector" /\ Goes)
    /\ WF_deltaVars(topic = "delta" /\ LoopGoes)
    /\ WF_deltaVars(topic = "delta" /\ left > 0 /\ Tick)

Spec == Init /\ [][Next]_vars /\ Fairness

\* The liveness of the login, the collector and Delta's stream, of the behaviours about them.
ConnectionsHeal ==
    /\ topic = "session" => SessionHeals /\ StreamReturns
    /\ topic = "delta" => StreamReopens
SnapshotsGoOn == topic = "collector" => CollectsAgain
=============================================================================
