\* A drop copy answers a report with a field missing.
SPECIFICATION Spec
CONSTANTS
  Passwords = {}
  CODTypes = {0}
  Windows = {1}
  ClOrdIDs = {"c1"}
  MaxMessages = 1
  MaxAgain = 0
INVARIANT DropCopyNeverRejects
