\* Averages kept to a tenth of a tick, 10-bit integers (2^10 = 1024), two sessions.
SPECIFICATION Spec
CONSTANTS
  Scale = 10
  Quantities = {1, 2, 4}
  Prices <- TradePrices
  MaxFills = 4
  Modulus = 1024
  Alphabet <- Bytes
  MaxBytes = 6
  SessionIDs = {"s1", "s2"}
  Hosts = {"127.0.0.1", "exchange"}
CHECK_DEADLOCK FALSE
INVARIANTS AvgPxIsTheAverage AvgPxIsWithinPrices SecretsAreHidden OnlySecretsAreHidden DialsAsTold
