\* One client after the other on one number.
CONSTANTS
  Handlers = {h1}
  NoHandler = NoHandler
  NoMsg = NoMsg
  SeqMax = 1
  I2cRetriesMax = 1
  MqMax = 1
  BicUp = FALSE
  MaxReqs = 2
SPECIFICATION Spec
INVARIANT WokenByResponse
