\* Two processes that set and one that reads, two values, a persistent
\* key; deaths and failed writes.
SPECIFICATION FairSpec
CONSTANTS
  Setters = {s1, s2}
  Readers = {r1}
  NoProc = NoProc
  Values = {v1, v2}
  NoFile = NoFile
  Empty = Empty
  Persist = TRUE
INVARIANTS EmptyHasWriter SetIsStored
PROPERTIES ReadsWholeValues IsRegister CallsReturn
