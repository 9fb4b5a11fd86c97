\* Every kind of failure, any number of times.
SPECIFICATION Spec
CONSTANTS
  RecordsMax = 2
  RsvIdMax = 1
  e1 = e1
  e2 = e2
  e3 = e3
  Entries <- MCEntries
  Blank = Blank
  Junk = Junk
  Handlers = {"storage"}
  FailingOps = {"fetch", "skip", "store", "close"}
SYMMETRY Symmetry
PROPERTIES CacheIsQueue HeaderStoreHeals
