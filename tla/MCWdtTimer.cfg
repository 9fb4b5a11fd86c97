\* Counts up to two, two timer uses, deaths of the daemon.
SPECIFICATION FairSpec
CONSTANTS
  CountMax = 2
  Uses = {"bios", "os"}
  Deaths = TRUE
INVARIANTS StoppedForAction
PROPERTIES ExpiresOnTime ActsAsExpired HungHostIsActedUpon
