\* The three readers, two orders, gaps of one number, a call that is refused.
SPECIFICATION FairSpec
CONSTANTS
  Orders = {o1, o2}
  GapSizes <- Gaps
  Apps = {"view", "copy", "book"}
  MaxNum = 5
CHECK_DEADLOCK FALSE
INVARIANTS TypeOK NeverTooLow ViewIsLatest CopyIsComplete
PROPERTIES ImplementsDelivery HistoryIsFlagged Recovers
