\* More clients than numbers, in BIC-update mode; a transmission is tried twice
\* and the bridge may get both.
CONSTANTS
  Handlers = {h1, h2}
  NoHandler = NoHandler
  NoMsg = NoMsg
  SeqMax = 1
  I2cRetriesMax = 2
  MqMax = 1
  BicUp = TRUE
  MaxReqs = 2
SPECIFICATION FairSpec
INVARIANT NoLostWakeup
PROPERTIES
  BufferStableAfterRelease
  HandlerReturns
