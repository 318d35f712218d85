\* An order view made anew on a session that goes on.
SPECIFICATION Spec
CONSTANTS
  Orders = {o1}
  GapSizes = {}
  Apps = {"view"}
  MaxNum = 4
CHECK_DEADLOCK FALSE
INVARIANT ViewIsRebuilt
