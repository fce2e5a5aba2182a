\* Two positions, one worker beside the dead-man's thread, one broker failure.
SPECIFICATION FairSpec
CONSTANTS
    Intents = {i1, i2}
    Workers = {w1}
    Deadman = dm
    None = none
    MaxOutages = 1
INVARIANTS NothingForgotten OrdersBacked CloseIsTruthful
PROPERTIES LatchedBookOnlyShrinks DeadmanFlattens
