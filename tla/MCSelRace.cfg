\* Storage and sensor commands at the same time.
SPECIFICATION Spec
CONSTANTS
  RecordsMax = 2
  RsvIdMax = 1
  e1 = e1
  e2 = e2
  e3 = e3
  Entries <- MCEntries
  Blank = Blank
  Junk = Junk
  Handlers = {"storage", "sensor"}
  FailingOps = {}
SYMMETRY Symmetry
PROPERTY AddingNeverEmpties
