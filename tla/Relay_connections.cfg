\* Two connections for one slot, ending in every way and at every moment.
SPECIFICATION FairSpec
CONSTANTS
  c1 = c1
  c2 = c2
  None = None
  Conns <- Two
  Mode = "full"
  Cap = 1
  Deadline = 1
  LineLen = 2
  ClientBuffer = 1
  MaxSent = 4
  MaxReplies = 2
INVARIANTS TypeOK SlotsMatch PipelinedForwarded AnswersDelivered
PROPERTIES EstablishedNotCut SlotComesBack
CHECK_DEADLOCK FALSE
