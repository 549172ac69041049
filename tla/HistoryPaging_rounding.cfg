SPECIFICATION Spec
CONSTANTS
  MaxNotes = 52
  FirstNotes = 52
  PageSize = 50
  Rankings <- MCFiftyTwo
  RoundedUp <- MCRoundedUp
  RoundedDown <- MCRoundedDown
  MaxChanges = 0
  MaxRequests = 2
  MaxFailures = 0
CHECK_DEADLOCK FALSE
INVARIANTS
  PagesFollowRanking
