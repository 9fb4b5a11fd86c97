\* A common request, a request whose netfn is an address, and a response.
SPECIFICATION FairSpec
CONSTANTS
  NetFns = {24, 28, 64}
  Command = 1
  MqMax = 2
  I2cRetriesMax = 2
  MaxPackets = 4
INVARIANTS PostedAsSent RepairsUndo
PROPERTIES StaleOnlyAfterFailure RequestsLeave
