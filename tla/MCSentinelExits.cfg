\* Two requests at once, a broker that never fails.
SPECIFICATION Spec
CONSTANTS
    Intents = {i1}
    Workers = {w1, w2}
    Deadman = dm
    None = none
    MaxOutages = 0
INVARIANT AtMostOneExit
