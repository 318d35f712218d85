\* A mass cancel acts on an order filled after its snapshot.
SPECIFICATION Spec
CONSTANTS
  ClOrdIDs = {o1}
  OrderQtys = {2}
  TimesInForce = {"0"}
  PartialQtys = {1}
  PerShare = 1
  Handlers = {h1, h2}
  AdminOps = {"fill", "cancel-all"}
  Timers = {}
  LogonInputs <- PlainLogons
  Expect <- AnyPassword
  MaxExecID = 4
  Endings = {"drop"}
PROPERTY ClosedIsFinal
