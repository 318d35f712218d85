\* Two trades of half a share are reported as a share each.
SPECIFICATION Spec
CONSTANTS
  ClOrdIDs = {o1}
  OrderQtys = {2}
  TimesInForce = {"0"}
  PartialQtys = {1}
  PerShare = 2
  Handlers = {h1}
  AdminOps = {"partial"}
  Timers = {}
  LogonInputs <- OrderEntryOnly
  Expect <- AnyPassword
  MaxExecID = 4
  Endings = {"drop"}
INVARIANT LastQtyIsTheIncrement
