\* Either session, set up with a right, a wrong or no password, and two messages,
\* or one that is handed over again, with their answers.
SPECIFICATION Spec
CONSTANTS
  Passwords = {"p1"}
  CODTypes = {0, 1}
  Windows = {1}
  ClOrdIDs = {"c1"}
  MaxMessages = 2
  MaxAgain = 1
INVARIANTS TypeOK AnsweredOnce DropCopyIsSilent ArmedAsAsked VenueJudgesAlike
PROPERTIES FallsSilent
