SPECIFICATION FairSpec
CONSTANTS
  ChannelAccessRetry = 3
  ExitPollLimit = 1
  MaxRequests = 3
  Builds = {TRUE, FALSE}
  StallSettles = TRUE
INVARIANTS NothingInFlightWhenClosing AnswerMatchesRequest UninitReturnsClosed FreedIsAnnounced CloseNotLost
PROPERTIES CloseEnds
CHECK_DEADLOCK FALSE
