\* The watchdog rebuilds the client between two orders.
SPECIFICATION Spec
CONSTANTS
    Timeout = 4
    Repeats = TRUE
    MaxSeq = 2
    MaxStall = 2
CHECK_DEADLOCK FALSE
INVARIANT ClOrdIDsUnique
