\* A restarted venue hands out the ExecIDs of its last life again.
SPECIFICATION RestartSpec
CONSTANTS
  ClOrdIDs = {o1}
  OrderQtys = {2}
  TimesInForce = {"0"}
  PartialQtys = {1}
  PerShare = 1
  Handlers = {}
  AdminOps = {}
  Timers = {}
  LogonInputs <- PlainLogons
  Expect <- AnyPassword
  MaxExecID = 4
  Endings = {"drop"}
INVARIANT ExecIDsNeverRepeat
