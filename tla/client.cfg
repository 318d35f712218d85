\* One order a client, which is where the loop then stays.
SPECIFICATION FairSpec
CONSTANTS
  Timeout = 3
  Repeats = TRUE
  MaxSeq = 1
  MaxStall = 2
CHECK_DEADLOCK FALSE
INVARIANTS TypeOK NothingLeftRunning
PROPERTIES QuietBeforeReconnect RestartReturns ShutdownCompletes
           StuckSessionIsRestarted InitiatorComesBack SignalStopsTrading
