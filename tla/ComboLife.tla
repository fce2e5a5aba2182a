----------------------------- MODULE ComboLife -----------------------------
(***************************************************************************)
(* What the execution scaffolding of the NSE runner promises about a combo *)
(* of option legs: an attempt is made once, its legs are squared off only  *)
(* while the attempt is being left, and no leg is squared off twice.       *)
(***************************************************************************)
EXTENDS Integers

CONSTANTS Combos, Legs

VARIABLES stage, squared
lifeVars == <<stage, squared>>

Stages == {"new", "entering", "open", "leaving", "gone"}

LifeTypeOK ==
    /\ stage \in [Combos -> Stages]
    /\ squared \in [Combos -> [Legs -> 0 .. 1]]

LifeInit ==
    /\ stage = [c \in Combos |-> "new"]
    /\ squared = [c \in Combos |-> [l \in Legs |-> 0]]

Move(c, from, to) ==
    /\ stage[c] \in from
    /\ stage' = [stage EXCEPT ![c] = to]
    /\ UNCHANGED squared

Enter(c) == Move(c, {"new"}, "entering")
Hold(c) == Move(c, {"entering"}, "open")
Leave(c) == Move(c, {"entering", "open"}, "leaving")
Finish(c) == Move(c, {"entering", "leaving"}, "gone")

\* The last square-off may end the attempt.
SquareOff(c, l) ==
    /\ stage[c] = "leaving"
    /\ squared[c][l] = 0
    /\ squared' = [squared EXCEPT ![c][l] = 1]
    /\ stage' \in {stage, [stage EXCEPT ![c] = "gone"]}

\* The process dies: what it had not finished is nobody's any more.
Forget ==
    /\ stage' = [c \in Combos |-> IF stage[c] = "new" THEN "new" ELSE "gone"]
    /\ UNCHANGED squared

LifeNext ==
    \/ \E c \in Combos : Enter(c) \/ Hold(c) \/ Leave(c) \/ Finish(c)
    \/ \E c \in Combos, l \in Legs : SquareOff(c, l)
    \/ Forget

LifeSpec == LifeInit /\ [][LifeNext]_lifeVars
=============================================================================
