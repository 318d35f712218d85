\* COD requested on the drop-copy session cancels order-entry orders.
SPECIFICATION Spec
CONSTANTS
  ClOrdIDs = {o1}
  OrderQtys = {2}
  TimesInForce = {"0"}
  PartialQtys = {1}
  PerShare = 1
  Handlers = {}
  AdminOps = {}
  Timers = {k1}
  LogonInputs <- DropCopyCOD
  Expect <- AnyPassword
  MaxExecID = 4
  Endings = {"drop"}
PROPERTY DropCopyCODDoesNothing
