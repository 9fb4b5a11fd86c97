\* Two clients that may overlap, and a FIFO of two writes.
SPECIFICATION FairSpec
CONSTANTS
  Clients = {c1, c2}
  Web = web
  FifoMax = 2
INVARIANTS DaemonStays SwitchedOnce AnswerTellsPower
PROPERTIES RequestsEnd
