---------------------------- MODULE MCCouncil ----------------------------
(* The lenses that take part in a deliberation, at their bootstrap weights. *)
EXTENDS Council

MCLenses == {"volume_oi", "vwap", "ict_smc", "momentum", "greeks", "smile", "liquidity"}
MCGates == {41400}

\* Low is above the objection floor and below the gate, and thin for liquidity;
\* High survives one objection, and only if it is not cut.
Low == 32000
High == 90000

Sides(confs) == {Verdict(d, c) : d \in {-1, 1}, c \in confs}

MCReads ==
    [l \in MCLenses |->
        {Abstention} \cup
        (CASE l \in {"volume_oi", "ict_smc", "momentum"} -> Sides({Low, High}) \cup {Verdict(0, Low)}
           [] l = "vwap" -> Sides({Low, High})
           [] l \in {"greeks", "smile"} -> {Verdict(1, High), Verdict(-1, Low)}
           [] l = "liquidity" -> {Verdict(0, Low), Verdict(0, High)})]

\* volume_oi is on probation, the rest are in the shadow; momentum and greeks
\* stand for lenses that have earned half as much.
MCWeight ==
    [l \in MCLenses |-> IF l = "volume_oi" THEN 2 ELSE IF l \in {"momentum", "greeks"} THEN 1 ELSE 0]

MCSeat ==
    [l \in MCLenses |->
        CASE l = "greeks" -> 1 [] l = "volume_oi" -> 2 [] l = "vwap" -> 3 [] l = "ict_smc" -> 4
          [] l = "smile" -> 5 [] l = "momentum" -> 6 [] l = "liquidity" -> 7]
=============================================================================
