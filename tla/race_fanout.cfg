\* Reports of one order overtake each other on a feed.
SPECIFICATION Spec
CONSTANTS
  ClOrdIDs = {o1}
  OrderQtys = {2}
  TimesInForce = {"0"}
  PartialQtys = {1}
  PerShare = 1
  Handlers = {h1, h2}
  AdminOps = {"partial", "cancel"}
  Timers = {}
  LogonInputs <- PlainLogons
  Expect <- AnyPassword
  MaxExecID = 4
  Endings = {"drop"}
INVARIANT FanoutInOrder
