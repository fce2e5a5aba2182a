\* One entry, and nothing else that goes wrong.
SPECIFICATION Spec
CONSTANTS
    Strategies = {sr}
    Positions = {p1, p2, p3, p4}
    Sides = {"sell"}
    None = none
    MaxNet = 1
    MaxEvents = 1
PROPERTY ReconciledIsGone
