\* One strategy that sells, two events: entries, failures, stops and restarts.
SPECIFICATION FairSpec
CONSTANTS
    Strategies = {sr}
    Positions = {p1, p2, p3}
    Sides = {"sell"}
    None = none
    MaxNet = 2
    MaxEvents = 2
PROPERTIES BookConverges KilledPositionsEnd ProtectedUnlessOverlapped ExitsNeverOpen KillHalts
