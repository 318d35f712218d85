\* The venue answers the reject a drop copy sends it.
SPECIFICATION Spec
CONSTANTS
  Passwords = {}
  CODTypes = {0}
  Windows = {1}
  ClOrdIDs = {"c1"}
  MaxMessages = 1
  MaxAgain = 0
INVARIANT NoRejectIsRejected
