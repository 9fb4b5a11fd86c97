\* Two clients, three numbers: the numbers wrap around.
CONSTANTS
  Handlers = {h1, h2}
  NoHandler = NoHandler
  NoMsg = NoMsg
  SeqMax = 3
  I2cRetriesMax = 1
  MqMax = 1
  BicUp = FALSE
  MaxReqs = 4
SPECIFICATION Spec
SYMMETRY Symmetry
INVARIANTS
  SlotOwnership
  SeqNeverExhausted
  ForeignResponseIsLate
  ReuseDistance
  ReplyIsWhatArrived
