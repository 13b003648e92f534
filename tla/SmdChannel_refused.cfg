SPECIFICATION FairSpec
CONSTANTS
  ChannelAccessRetry = 3
  ExitPollLimit = 1
  MaxRequests = 3
  Builds = {TRUE, FALSE}
  StallSettles = TRUE
PROPERTIES RefusalReachesAssert
CHECK_DEADLOCK FALSE
