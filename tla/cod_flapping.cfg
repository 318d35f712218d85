\* A reconnect inside the window does not stop the timer it came back for.
SPECIFICATION Spec
CONSTANTS
  ClOrdIDs = {o1}
  OrderQtys = {2}
  TimesInForce = {"0"}
  PartialQtys = {1}
  PerShare = 1
  Handlers = {}
  AdminOps = {}
  Timers = {k1, k2}
  LogonInputs <- OrderEntryCOD
  Expect <- AnyPassword
  MaxExecID = 4
  Endings = {"drop"}
PROPERTY ReconnectAborts
