SPECIFICATION FairSpec
CONSTANTS
  ChannelAccessRetry = 3
  ExitPollLimit = 1
  MaxRequests = 3
  Builds = {FALSE}
  StallSettles = FALSE
INVARIANT CloseNotLost
CHECK_DEADLOCK FALSE
