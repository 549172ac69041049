SPECIFICATION FairSpec
CONSTANTS
  MaxNotes = 3
  FirstNotes = 2
  PageSize = 1
  Rankings <- MCRankings
  RoundedUp <- MCRoundedUp
  RoundedDown <- MCRoundedDown
  MaxChanges = 1
  MaxRequests = 3
  MaxFailures = 1
CHECK_DEADLOCK FALSE
INVARIANTS
  TypeOK
  BrowseHasNoGaps
  PagesFollowRanking
  ShownAnswersQuery
PROPERTIES
  LoadingEnds
