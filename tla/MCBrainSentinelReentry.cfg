\* The live loop against an armed sentinel, nothing failing.
SPECIFICATION Spec
CONSTANTS
    Symbols = {nifty}
    Decisions = {d1, d2}
    None = none
    Cap = 2
    Ticks = {"live_session"}
    Armings = {TRUE}
    MaxFaults = 0
INVARIANT HeldOnce
