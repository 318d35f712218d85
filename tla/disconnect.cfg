\* Cancel on disconnect: two pending timers, so a second disconnect can come
\* before the first timer has fired; day and good-till orders.
SPECIFICATION FairSpec
CONSTANTS
  ClOrdIDs = {o1}
  OrderQtys = {1}
  TimesInForce = {"none", "1"}
  PartialQtys = {}
  PerShare = 1
  Handlers = {}
  AdminOps = {"reject-logon"}
  Timers = {k1, k2}
  LogonInputs <- MixedCOD
  Expect <- AnyPassword
  MaxExecID = 3
  Endings = {"logout", "drop"}
INVARIANT GoodTillSurvives
PROPERTIES GraceHonoured ExposureIsRemoved EveryReportArrives
