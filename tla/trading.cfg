\* Two admin requests at once on one order, of every kind, with the venue
\* silenced now and then; quantities in quarter shares: an order of nothing, of
\* one share and three quarters or of two, and partial fills of one.
SPECIFICATION Spec
CONSTANTS
  ClOrdIDs = {o1}
  OrderQtys = {0, 7, 8}
  TimesInForce = {"0"}
  PartialQtys = {4}
  PerShare = 4
  Handlers = {h1, h2}
  AdminOps = {"fill", "partial", "cancel", "reject", "cancel-all", "silence"}
  Timers = {}
  LogonInputs <- OrderEntryOnly
  Expect <- AnyPassword
  MaxExecID = 4
  Endings = {"drop"}
SYMMETRY Symmetry
INVARIANTS TypeOK BookConsistent ExecIDIdentity FanoutComplete TradesAddUp BookIsReported
PROPERTIES OrderLifecycle FillFillsOrRefuses ImplementsReportFeed
