\* Two callers and the stream, with two events; three failed calls of the collector; three outages of Delta's
\* socket, long enough for the wait to reach its ceiling.
SPECIFICATION Spec
CONSTANTS
    Callers = {"loop", "other"}
    Stream = "stream"
    KindsOf <- McKindsOf
    MaxEvents = 2
    Strikes = {1, 2}
    Expiries = 2
    MaxFaults = 3
    DelayMax = 2
    StaleSeconds = 3
    CacheTtl = 1
    MaxOutages = 3
INVARIANTS TotpSpared
PROPERTIES ConnectionsHeal SnapshotsGoOn
CHECK_DEADLOCK FALSE
