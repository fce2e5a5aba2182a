\* Two symbols, two decisions, one fault, every tick and arming.
SPECIFICATION FairSpec
CONSTANTS
    Symbols = {nifty, sensex}
    Decisions = {d1, d2}
    None = none
    Cap = 2
    Ticks = {"on_snapshot", "live_session"}
    Armings = {TRUE, FALSE}
    MaxFaults = 1
INVARIANTS RehearsalHoldsOnce
PROPERTIES DroppedIsClosed HorizonExits
