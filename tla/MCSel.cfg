\* One handler at a time, a ring of four slots, deaths at any step, no failures.
SPECIFICATION Spec
CONSTANTS
  RecordsMax = 3
  RsvIdMax = 2
  e1 = e1
  e2 = e2
  e3 = e3
  Entries <- MCEntries
  Blank = Blank
  Junk = Junk
  Handlers = {"storage"}
  FailingOps = {}
SYMMETRY Symmetry
INVARIANTS CacheMatchesFile WalksOnlyFromFirstSlot
PROPERTIES BoundedLog
