\* The venue starts anew on a session that goes on.
SPECIFICATION RestartSpec
CONSTANTS
  Orders = {o1}
  GapSizes = {}
  Apps = {"copy"}
  MaxNum = 5
CHECK_DEADLOCK FALSE
INVARIANT EveryReportIsKept
