\* A graceful logout starts the timer of a session that asked for mode 1.
SPECIFICATION Spec
CONSTANTS
  ClOrdIDs = {o1}
  OrderQtys = {2}
  TimesInForce = {"0"}
  PartialQtys = {1}
  PerShare = 1
  Handlers = {}
  AdminOps = {}
  Timers = {k1}
  LogonInputs <- OrderEntryCOD
  Expect <- AnyPassword
  MaxExecID = 4
  Endings = {"logout", "drop"}
PROPERTY ModeCoversEnding
