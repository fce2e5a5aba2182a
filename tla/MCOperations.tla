--------------------------- MODULE MCOperations ---------------------------
(***************************************************************************)
(* The rest of the plant: envelopes, combos, the beats of the dead man's   *)
(* switch, the guard of a build, and what the dashboard shows and sets.    *)
(* They share no state: each behaviour is of one of them, so that their    *)
(* states add up and do not multiply.                                      *)
(***************************************************************************)
EXTENDS SignedIntents, Combo, Heartbeats, BrainGuard, ChainSocket, Shadows, CryptoDesk, StatusBoard, TLC

VARIABLE topic
vars == <<topic, envelopeVars, comboVars, heartbeatVars, guardVars, chainVars, shadowVars, deskVars, statusVars>>

CONSTANTS c1, c2

\* Margins, in units of the budget.
Even == (c1 :> 1) @@ (c2 :> 1)

\* What importing a module of this repository loads, and builds in which the package of the
\* runner, the session's loop or the runner itself brings the broker, or none does.
McModules == {"options_runner", "live_session", "council", "sentinel_client", "nse_runner", "broker"}
Packaged == {"options_runner", "live_session", "sentinel_client"}
LoadedBy(x) ==
    [m \in McModules |->
        {m} \cup (IF m = "options_runner" THEN {"council", "sentinel_client"} \cup x.named
                  ELSE IF m = "live_session" THEN x.late
                  ELSE IF m = "nse_runner" THEN {"broker"} ELSE {})
            \cup (IF m \in Packaged THEN x.package ELSE {})]
McBuilds ==
    {[loads |-> LoadedBy(x), named |-> x.named]
        : x \in [package : {{}, {"nse_runner", "broker"}}, late : {{}, {"broker"}}, named : {{}, {"broker"}}]}

McQuotes == {[ce |-> 1, pe |-> 2], [ce |-> 2, pe |-> 1]}

Init ==
    /\ EnvelopeInit /\ ComboInit /\ HeartbeatInit /\ GuardInit /\ ChainInit /\ ShadowsInit /\ DeskInit /\ StatusInit
    /\ topic \in {"envelope", "combo", "beats", "guard", "chain", "shadow", "desk", "status"}
    /\ topic # "guard" =>
        /\ build = CHOOSE b \in Builds : TRUE
        /\ broken = {} /\ duty = "boot"
        /\ env = [url |-> "service", armed |-> FALSE]
    /\ topic # "beats" => marketHours = TRUE
    /\ quote = [k \in Strikes |-> [ce |-> 1, pe |-> 2]]
    /\ topic # "chain" => money = 2
    /\ topic # "shadow" => mark = 0

Next ==
    \/ /\ topic = "envelope" /\ EnvelopeNext
       /\ UNCHANGED <<topic, comboVars, heartbeatVars, guardVars, chainVars, shadowVars, deskVars, statusVars>>
    \/ /\ topic = "combo" /\ ComboNext
       /\ UNCHANGED <<topic, envelopeVars, heartbeatVars, guardVars, chainVars, shadowVars, deskVars, statusVars>>
    \/ /\ topic = "beats" /\ HeartbeatNext
       /\ UNCHANGED <<topic, envelopeVars, comboVars, guardVars, chainVars, shadowVars, deskVars, statusVars>>
    \/ /\ topic = "guard" /\ GuardNext
       /\ UNCHANGED <<topic, envelopeVars, comboVars, heartbeatVars, chainVars, shadowVars, deskVars, statusVars>>
    \/ /\ topic = "chain" /\ ChainNext
       /\ UNCHANGED <<topic, envelopeVars, comboVars, heartbeatVars, guardVars, shadowVars, deskVars, statusVars>>
    \/ /\ topic = "shadow" /\ ShadowsNext
       /\ UNCHANGED <<topic, envelopeVars, comboVars, heartbeatVars, guardVars, chainVars, deskVars, statusVars>>
    \/ /\ topic = "desk" /\ DeskNext
       /\ UNCHANGED <<topic, envelopeVars, comboVars, heartbeatVars, guardVars, chainVars, shadowVars, statusVars>>
    \/ /\ topic = "status" /\ StatusNext
       /\ UNCHANGED <<topic, envelopeVars, comboVars, heartbeatVars, guardVars, chainVars, shadowVars, deskVars>>

Spec == Init /\ [][Next]_vars
=============================================================================
