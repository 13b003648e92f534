CONSTANTS
  out_blk_sz = 4
  out_fifo_sz = 8
  ReadLimit = 4
  Transfers <- MCTransfers
SPECIFICATION FairSpec
INVARIANTS WireFollowsMessages ReadIntact
PROPERTIES XferEnds
