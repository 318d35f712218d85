\* An acknowledgement shows what an admin request did to the order.
SPECIFICATION Spec
CONSTANTS
  ClOrdIDs = {o1}
  OrderQtys = {2}
  TimesInForce = {"0"}
  PartialQtys = {1}
  PerShare = 1
  Handlers = {h1}
  AdminOps = {"partial"}
  Timers = {}
  LogonInputs <- PlainLogons
  Expect <- AnyPassword
  MaxExecID = 4
  Endings = {"drop"}
INVARIANT AckShowsNew
