------------------------------ MODULE SelProofs ------------------------------
(***************************************************************************)
(* Theorems about Sel, for every capacity of the log, every set of entries *)
(* and, for the types and the walk, any callers and any failures.          *)
(***************************************************************************)
EXTENDS Sel, WellFoundedInduction, TLAPS

-------------------------- (* facts about the ring *) ------------------------

LEMMA NumBound ==
  ASSUME NEW h \in Headers
  PROVE  Num(h) \in 0 .. RecordsMax
BY SelAssumption DEF Num, Headers, Indexes, IndexMax

LEMMA SlotIn ==
  ASSUME NEW h \in Headers, NEW i \in 1 .. Num(h)
  PROVE  Slot(h, i) \in Indexes
BY SelAssumption DEF Num, Headers, Indexes, IndexMax, ElemsMax, Slot

LEMMA NextIn ==
  ASSUME NEW i \in Indexes
  PROVE  NextIndex(i) \in Indexes
BY SelAssumption DEF NextIndex, Indexes, IndexMax

LEMMA RolledIn ==
  ASSUME NEW h \in Headers
  PROVE  /\ Rolled(h) \in Headers
         /\ Rolled(h).end = h.end
BY NextIn DEF Rolled, Headers

LEMMA AdvancedIn ==
  ASSUME NEW h \in Headers
  PROVE  Advanced(h) \in Headers
BY NextIn DEF Advanced, Headers

LEMMA ZeroIn == ZeroHdr \in Headers /\ Num(ZeroHdr) = 0
BY SelAssumption DEF ZeroHdr, Headers, Indexes, IndexMax, Num

\* A nonempty set of naturals has a least element.
LEMMA LeastIn ==
  ASSUME NEW R, NEW N, IsWellFoundedOn(R, N), NEW S, S \subseteq N, S # {}
  PROVE  \E n \in S : \A m \in S : ~ (<<m, n>> \in R)
BY WFMin

LEMMA LeastNat ==
  ASSUME NEW S, S \subseteq Nat, S # {}
  PROVE  \E n \in S : \A m \in S : n <= m
<1>1. PICK R : IsWellFoundedOn(R, Nat) /\ \A x, y \in Nat : x < y => <<x, y>> \in R
  <2> DEFINE R == OpToRel(<, Nat)
  <2>1. IsWellFoundedOn(R, Nat)
    BY NatLessThanWellFounded
  <2>2. \A x, y \in Nat : x < y => <<x, y>> \in R
    BY DEF OpToRel
  <2> HIDE DEF R
  <2> QED BY <2>1, <2>2, Zenon
<1>2. PICK n \in S : \A m \in S : ~ (<<m, n>> \in R)
  <2>1. IsWellFoundedOn(R, Nat)
    BY <1>1
  <2> QED
    BY <2>1, LeastIn
<1>3. ASSUME NEW m \in S PROVE n <= m
  <2>1. ~ (m < n)
    BY <1>1, <1>2
  <2> QED BY <2>1
<1> QED BY <1>3

-------------------------------- (* types *) --------------------------------

USE SelAssumption

LEMMA DataStoredTypes ==
  ASSUME TypeOK, NEW id \in 0 .. ElemsMax, NEW m \in Entries \cup {Blank},
         DataStored(id, m)
  PROVE  /\ exists' \in BOOLEAN
         /\ fhdr' \in Headers \cup {NoHdr}
         /\ fdata' \in [Indexes -> Contents]
         /\ flen' \in 0 .. ElemsMax
         /\ faults' \subseteq FailingOps
<1>1. CASE UNCHANGED exists /\ NoFault
           /\ fdata' = [fdata EXCEPT ![id - 1] = m]
           /\ fhdr' = (IF fhdr = NoHdr THEN ZeroHdr ELSE fhdr)
           /\ flen' = (IF flen < id THEN id ELSE flen)
  BY <1>1, ZeroIn DEF TypeOK, NoFault, Contents
<1>2. CASE LostAtClose
  BY <1>2 DEF TypeOK, LostAtClose, Fault, file
<1> QED BY <1>1, <1>2 DEF DataStored

LEMMA StoreFailsTypes ==
  ASSUME TypeOK, StoreFails
  PROVE  UNCHANGED file /\ faults' \subseteq FailingOps
BY DEF TypeOK, StoreFails, Fault, NoFault

LEMMA HdrStoredTypes ==
  ASSUME TypeOK, HdrStored
  PROVE  /\ UNCHANGED <<exists, fdata, flen>>
         /\ fhdr' \in Headers \cup {NoHdr}
         /\ faults' \subseteq FailingOps
BY DEF TypeOK, HdrStored, LostAtClose, Fault, NoFault, file

LEMMA TypeInit == Init => TypeOK
<1> SUFFICES ASSUME Init PROVE TypeOK
  OBVIOUS
<1> USE DEF Init, Indexes, IndexMax, ElemsMax, Contents
<1>1. hdr \in Headers /\ fhdr \in Headers \cup {NoHdr}
  BY ZeroIn
<1>2. flen \in 0 .. ElemsMax /\ fill \in 1 .. RecordsMax + 1 /\ rsv \in 0 .. RsvIdMax
  OBVIOUS
<1>3. rec \in [Handlers -> 0 .. ElemsMax]
  <2>1. 0 \in 0 .. ElemsMax
    OBVIOUS
  <2> QED BY <2>1
<1> QED BY <1>1, <1>2, <1>3 DEF TypeOK

LEMMA TypeStart ==
  ASSUME TypeOK, Start
  PROVE  TypeOK'
<1>1. CASE Load
  BY <1>1 DEF TypeOK, Load, file, locals, Contents
<1>2. CASE LoadFails
  BY <1>2 DEF TypeOK, LoadFails, Fault, NoFault, file, locals
<1>3. CASE Skipped
  BY <1>3 DEF TypeOK, Skipped, Fault, cache, file, locals
<1>4. CASE Create
  BY <1>4 DEF TypeOK, Create, Fault, NoFault, cache, locals
<1>5. CASE CreateHdr
  BY <1>5, ZeroIn, HdrStoredTypes, StoreFailsTypes DEF TypeOK, CreateHdr, file, locals
<1>6. CASE FillRecord
  <2>1. CASE DataStored(fill, Blank) /\ fill' = fill + 1 /\ UNCHANGED mode
    <3>1. fill \in 0 .. ElemsMax /\ fill + 1 \in 1 .. RecordsMax + 1
      BY <1>6 DEF TypeOK, FillRecord, ElemsMax
    <3> QED BY <1>6, <2>1, <3>1, DataStoredTypes DEF TypeOK, FillRecord, cache
  <2>2. CASE StoreFails /\ mode' = "run" /\ UNCHANGED fill
    BY <1>6, <2>2, StoreFailsTypes DEF TypeOK, FillRecord, cache, file
  <2> QED BY <1>6, <2>1, <2>2 DEF FillRecord
<1>7. CASE Filled
  BY <1>7 DEF TypeOK, Filled, file, locals
<1> QED BY <1>1, <1>2, <1>3, <1>4, <1>5, <1>6, <1>7 DEF Start

LEMMA TypeHandle ==
  ASSUME TypeOK, NEW h \in Handlers, Handle(h)
  PROVE  TypeOK'
<1>1. ASSUME NEW e \in Entries, AddStart(h, e) PROVE TypeOK'
  BY <1>1, RolledIn DEF TypeOK, AddStart, file
<1>2. CASE CacheEntry(h)
  <2>1. hdr.end \in Indexes /\ hdr.end + 1 \in 0 .. ElemsMax
    BY DEF TypeOK, Headers, Indexes, IndexMax, ElemsMax
  <2> QED BY <1>2, <2>1 DEF TypeOK, CacheEntry, file, Contents
<1>3. CASE StoreEntry(h)
  <2>1. CASE DataStored(rec[h], msg[h]) /\ pc' = [pc EXCEPT ![h] = "end"]
    <3>1. rec[h] \in 0 .. ElemsMax /\ msg[h] \in Entries \cup {Blank}
      BY DEF TypeOK
    <3> QED BY <1>3, <2>1, <3>1, DataStoredTypes DEF TypeOK, StoreEntry, cache
  <2>2. CASE StoreFails /\ pc' = [pc EXCEPT ![h] = "idle"]
    BY <1>3, <2>2, StoreFailsTypes DEF TypeOK, StoreEntry, cache, file
  <2> QED BY <1>3, <2>1, <2>2 DEF StoreEntry
<1>4. CASE AdvanceEnd(h)
  BY <1>4, AdvancedIn DEF TypeOK, AdvanceEnd, file
<1>5. CASE StoreHdr(h)
  BY <1>5, HdrStoredTypes DEF TypeOK, StoreHdr, cache
<1>6. CASE StoreHdrFails(h)
  BY <1>6, StoreFailsTypes DEF TypeOK, StoreHdrFails, cache, file
<1> QED BY <1>1, <1>2, <1>3, <1>4, <1>5, <1>6 DEF Handle

LEMMA TypeStep == TypeOK /\ [Next]_vars => TypeOK'
<1> SUFFICES ASSUME TypeOK, [Next]_vars PROVE TypeOK'
  OBVIOUS
<1>1. CASE Reserve
  BY <1>1 DEF TypeOK, Reserve, file, locals
<1>2. ASSUME NEW id \in 0 .. RsvIdMax, Erase(id) PROVE TypeOK'
  BY <1>2, ZeroIn DEF TypeOK, Erase, file
<1>3. CASE Die
  <2>1. 0 \in 0 .. ElemsMax /\ 0 \in 0 .. RsvIdMax /\ 1 \in 1 .. RecordsMax + 1
    BY DEF ElemsMax
  <2> QED BY <1>3, <2>1, ZeroIn DEF TypeOK, Die, file, Contents
<1>4. CASE UNCHANGED vars
  BY <1>4 DEF TypeOK, vars, cache, file, locals
<1> QED BY <1>1, <1>2, <1>3, <1>4, TypeStart, TypeHandle DEF Next

\* Whoever calls and whatever fails, every variable keeps its type: begin and
\* end stay inside the ring, and a record id inside the file.
THEOREM Typing == Spec => []TypeOK
BY TypeInit, TypeStep, PTL DEF Spec

---------------------- (* logs as sequences of slots *) ----------------------

\* Slot s holds a live entry of the ring.
IsLive(h, s) ==
  IF h.begin <= h.end THEN h.begin <= s /\ s < h.end
  ELSE h.begin <= s \/ s < h.end

LEMMA SlotIsLive ==
  ASSUME NEW h \in Headers, NEW i \in 1 .. Num(h)
  PROVE  IsLive(h, Slot(h, i))
BY DEF Num, Headers, Indexes, IndexMax, ElemsMax, Slot, IsLive

LEMMA EndIsFree ==
  ASSUME NEW h \in Headers
  PROVE  ~ IsLive(h, h.end)
BY DEF Headers, Indexes, IndexMax, IsLive

LEMMA RolledLive ==
  ASSUME NEW h \in Headers, NEW s \in Indexes, IsLive(Rolled(h), s)
  PROVE  IsLive(h, s)
BY DEF Headers, Indexes, IndexMax, IsLive, Rolled, NextIndex, Num

LEMMA RolledRoom ==
  ASSUME NEW h \in Headers
  PROVE  Num(Rolled(h)) < RecordsMax
BY DEF Headers, Indexes, IndexMax, Rolled, NextIndex, Num

LEMMA AdvancedLive ==
  ASSUME NEW h \in Headers, Num(h) < RecordsMax,
         NEW s \in Indexes, IsLive(Advanced(h), s)
  PROVE  IsLive(h, s) \/ s = h.end
BY DEF Headers, Indexes, IndexMax, IsLive, Advanced, NextIndex, Num

\* The log only depends on the slots that are live.
LEMMA LogAgrees ==
  ASSUME NEW h \in Headers, NEW d, NEW c,
         \A s \in Indexes : IsLive(h, s) => d[s] = c[s]
  PROVE  LogOf(h, d) = LogOf(h, c)
<1>1. \A i \in 1 .. Num(h) : d[Slot(h, i)] = c[Slot(h, i)]
  BY SlotIn, SlotIsLive
<1> QED BY <1>1 DEF LogOf

LEMMA LogEmpty ==
  ASSUME NEW h \in Headers, NEW d, Num(h) = 0
  PROVE  LogOf(h, d) = << >>
<1>1. LogOf(h, d) = [i \in 1 .. 0 |-> d[Slot(h, i)]]
  BY DEF LogOf
<1> QED BY <1>1

LEMMA LogLen ==
  ASSUME NEW h \in Headers, NEW d \in [Indexes -> Contents]
  PROVE  LogOf(h, d) \in Seq(Contents) /\ Len(LogOf(h, d)) = Num(h)
<1>1. LogOf(h, d) \in [1 .. Num(h) -> Contents]
  BY SlotIn DEF LogOf
<1>2. Num(h) \in Nat
  BY NumBound
<1> QED BY <1>1, <1>2

LEMMA LogAdvanced ==
  ASSUME NEW h \in Headers, NEW d \in [Indexes -> Contents], Num(h) < RecordsMax
  PROVE  LogOf(Advanced(h), d) = Append(LogOf(h, d), d[h.end])
<1> DEFINE a == Advanced(h)
           n == Num(h)
<1>1. a \in Headers /\ n \in Nat
  BY AdvancedIn, NumBound
<1>2. Num(a) = n + 1
  BY DEF Advanced, NextIndex, Num, Headers, Indexes, IndexMax
<1>3. Slot(a, n + 1) = h.end
  BY DEF Advanced, NextIndex, Num, Headers, Indexes, IndexMax, ElemsMax, Slot
<1>4. \A i \in 1 .. n : Slot(a, i) = Slot(h, i)
  BY DEF Advanced, Slot, Headers
<1> DEFINE l == LogOf(h, d)
<1>5. l \in Seq(Contents) /\ Len(l) = n /\ \A i \in 1 .. n : l[i] = d[Slot(h, i)]
  BY LogLen DEF LogOf
<1>6. d[h.end] \in Contents
  BY DEF Headers
<1> DEFINE b == Append(l, d[h.end])
           c == LogOf(a, d)
<1> HIDE DEF a, n, l
<1>7. b \in Seq(Contents) /\ Len(b) = n + 1 /\ b[n + 1] = d[h.end]
      /\ \A i \in 1 .. n : b[i] = l[i]
  BY <1>1, <1>5, <1>6
<1>8. c \in Seq(Contents) /\ Len(c) = n + 1
  BY <1>1, <1>2, LogLen
<1>9. \A i \in 1 .. n + 1 : c[i] = d[Slot(a, i)]
  BY <1>2 DEF LogOf
<1>10. \A i \in 1 .. n + 1 : c[i] = b[i]
  <2> SUFFICES ASSUME NEW i \in 1 .. n + 1 PROVE c[i] = b[i]
    OBVIOUS
  <2>1. CASE i = n + 1
    BY <2>1, <1>3, <1>7, <1>9
  <2>2. CASE i \in 1 .. n
    BY <2>2, <1>4, <1>5, <1>7, <1>9
  <2>3. n \in Nat
    BY <1>1
  <2>4. i = n + 1 \/ i \in 1 .. n
    BY <2>3
  <2> QED BY <2>1, <2>2, <2>4
<1> HIDE DEF b, c
<1>11. b = c
  BY <1>7, <1>8, <1>10, <1>1
<1> QED BY <1>11 DEF a, b, c, l

LEMMA LogRolled ==
  ASSUME NEW h \in Headers, NEW d \in [Indexes -> Contents], Num(h) = RecordsMax
  PROVE  LogOf(Rolled(h), d) = Tail(LogOf(h, d))
<1> DEFINE a == Rolled(h)
           l == LogOf(h, d)
           b == Tail(l)
           c == LogOf(a, d)
<1>1. a \in Headers
  BY RolledIn
<1>2. Num(a) = RecordsMax - 1
  BY DEF Rolled, NextIndex, Num, Headers, Indexes, IndexMax
<1>3. \A i \in 1 .. RecordsMax - 1 : Slot(a, i) = Slot(h, i + 1)
  <2> SUFFICES ASSUME NEW i \in 1 .. RecordsMax - 1 PROVE Slot(a, i) = Slot(h, i + 1)
    OBVIOUS
  <2>1. a.begin = NextIndex(h.begin)
    BY DEF Rolled, Headers
  <2>2. h.begin \in 0 .. RecordsMax
    BY DEF Headers, Indexes, IndexMax
  <2> QED BY <2>1, <2>2 DEF NextIndex, IndexMax, ElemsMax, Slot
<1>4. l \in Seq(Contents) /\ Len(l) = RecordsMax
      /\ \A i \in 1 .. RecordsMax : l[i] = d[Slot(h, i)]
  BY LogLen DEF LogOf
<1> HIDE DEF a, l
<1>5. b \in Seq(Contents) /\ Len(b) = RecordsMax - 1
      /\ \A i \in 1 .. RecordsMax - 1 : b[i] = l[i + 1]
  BY <1>4
<1>6. c \in Seq(Contents) /\ Len(c) = RecordsMax - 1
      /\ \A i \in 1 .. RecordsMax - 1 : c[i] = d[Slot(a, i)]
  BY <1>1, <1>2, LogLen DEF LogOf
<1>7. \A i \in 1 .. RecordsMax - 1 : b[i] = c[i]
  BY <1>3, <1>4, <1>5, <1>6
<1> HIDE DEF b, c
<1>8. b = c
  BY <1>5, <1>6, <1>7
<1> QED BY <1>8 DEF a, b, c, l

------------------ (* one handler, no failures: two copies agree *) ----------

\* The header in the file, which is as good as zeros when there is none.
SavedHdr == IF fhdr = NoHdr THEN ZeroHdr ELSE fhdr

\* The cache and the file hold the same in every slot of a ring.
Synced(h) == \A s \in Indexes : IsLive(h, s) => data[s] = fdata[s]

\* The file reaches every slot of a ring.
Reached(h) == \A s \in Indexes : IsLive(h, s) => s < flen

\* How far the header in the cache is ahead of the one in the file, at each
\* step of a command.
Ahead ==
  /\ pc["storage"] = "idle" => hdr = SavedHdr
  /\ pc["storage"] \in {"cache", "data", "end"} => hdr = Rolled(SavedHdr)
  /\ pc["storage"] \in {"cache", "data", "end"} => msg["storage"] \in Entries
  /\ pc["storage"] \in {"data", "end"} =>
       /\ data[hdr.end] = msg["storage"]
       /\ rec["storage"] = hdr.end + 1
  /\ pc["storage"] = "end" =>
       fhdr # NoHdr /\ fdata[hdr.end] = msg["storage"] /\ hdr.end < flen
  /\ pc["storage"] = "hdr" =>
       \/ hdr = ZeroHdr
       \/ /\ fhdr # NoHdr
          /\ hdr = Advanced(Rolled(fhdr))
          /\ msg["storage"] \in Entries
          /\ fdata[Rolled(fhdr).end] = msg["storage"]
          /\ Reached(hdr)

Sync ==
  /\ mode # "run" => pc["storage"] = "idle" /\ hdr = ZeroHdr
  /\ mode = "fill" => fhdr = ZeroHdr
  /\ mode = "create" => fhdr = NoHdr
  /\ ~exists => fhdr = NoHdr /\ mode = "down"
  /\ Reached(SavedHdr)
  /\ mode = "run" => Ahead /\ Synced(hdr)

\* What these theorems assume: callers that take turns, and no failures.
Alone == Handlers = {"storage"} /\ FailingOps = {}

LEMMA NoFaults ==
  ASSUME Alone, NEW op
  PROVE  ~ Fault(op)
BY DEF Alone, Fault

LEMMA AloneStores ==
  ASSUME Alone
  PROVE  /\ StoreFails => ~exists
         /\ ~ LostAtClose
         /\ HdrStored => exists /\ fhdr' = hdr /\ UNCHANGED <<exists, fdata, flen>>
         /\ \A id, m : DataStored(id, m) =>
              /\ exists /\ exists' = exists
              /\ fdata' = [fdata EXCEPT ![id - 1] = m]
              /\ fhdr' = SavedHdr
              /\ flen' = IF flen < id THEN id ELSE flen
BY NoFaults DEF StoreFails, LostAtClose, HdrStored, DataStored, SavedHdr

LEMMA NoHdrIsNone == NoHdr \notin Headers /\ ZeroHdr # NoHdr
BY DEF NoHdr, Headers, Indexes, IndexMax, ElemsMax, ZeroHdr

LEMMA SavedIn ==
  ASSUME TypeOK
  PROVE  SavedHdr \in Headers
BY ZeroIn DEF TypeOK, SavedHdr

LEMMA ZeroDead == \A s \in Indexes : ~ IsLive(ZeroHdr, s)
BY DEF IsLive, ZeroHdr, Indexes, IndexMax

LEMMA SyncInit == Init => Sync
BY ZeroDead, NoHdrIsNone DEF Init, Sync, SavedHdr, Reached

LEMMA SyncStart ==
  ASSUME Alone, TypeOK, Sync, Start
  PROVE  Sync'
<1> USE NoFaults, AloneStores, NoHdrIsNone, ZeroDead
<1>1. CASE Load
  <2>1. UNCHANGED <<fhdr, fdata, flen, exists, pc, msg, rec>> /\ mode = "down"
        /\ exists /\ mode' = "run" /\ fhdr # NoHdr /\ hdr' = fhdr
        /\ data' = [i \in Indexes |-> IF i < flen THEN fdata[i] ELSE Junk]
    BY <1>1 DEF Load, file, locals
  <2>2. pc["storage"] = "idle" /\ Reached(fhdr)
    BY <2>1 DEF Sync, SavedHdr
  <2>3. \A s \in Indexes : IsLive(fhdr, s) => data'[s] = fdata[s]
    BY <2>1, <2>2 DEF Reached
  <2>4. Synced(hdr)'
    BY <2>1, <2>3 DEF Synced
  <2>5. Ahead'
    BY <2>1, <2>2 DEF Ahead, SavedHdr
  <2> QED BY <2>1, <2>2, <2>4, <2>5 DEF Sync, SavedHdr, Reached
<1>2. CASE LoadFails
  <2>1. UNCHANGED <<fhdr, fdata, flen, exists, pc, msg, rec>> /\ mode = "down"
        /\ exists /\ mode' = "run"
        /\ \/ fhdr # NoHdr /\ flen = 0 /\ hdr' = fhdr
           \/ fhdr = NoHdr /\ hdr' = hdr
    <3>1. ~ Fault("fetch")
      OBVIOUS
    <3> QED BY ONLY <3>1, <1>2 DEF LoadFails, file, locals
  <2>2. pc["storage"] = "idle" /\ hdr = ZeroHdr /\ Reached(SavedHdr)
    BY <2>1 DEF Sync
  <2>3. hdr' = SavedHdr /\ \A s \in Indexes : ~ IsLive(SavedHdr, s)
    <3>1. CASE fhdr = NoHdr
      BY <3>1, <2>1, <2>2 DEF SavedHdr
    <3>2. CASE fhdr # NoHdr
      <4>1. \A s \in Indexes : ~ (s < 0)
        BY DEF Indexes
      <4> QED BY <3>2, <4>1, <2>1, <2>2 DEF SavedHdr, Reached
    <3> QED BY <3>1, <3>2
  <2>4. Synced(hdr)'
    BY <2>1, <2>3 DEF Synced
  <2>5. Ahead'
    BY <2>1, <2>2, <2>3 DEF Ahead, SavedHdr
  <2> QED BY <2>1, <2>2, <2>4, <2>5 DEF Sync, SavedHdr, Reached
<1>3. CASE Skipped
  BY <1>3 DEF Skipped
<1>4. CASE Create
  <2>1. UNCHANGED <<hdr, fhdr, fdata, flen, pc>> /\ mode = "down" /\ ~exists
        /\ exists' = TRUE /\ mode' = "create"
    BY <1>4 DEF Create, cache, locals
  <2> QED BY <2>1 DEF Sync, SavedHdr, Reached
<1>5. CASE CreateHdr
  <2>1. UNCHANGED pc /\ mode = "create" /\ hdr' = ZeroHdr /\ exists
    BY <1>5 DEF CreateHdr, locals, Sync
  <2>2. mode' = "fill" /\ fhdr' = hdr /\ exists'
    BY <1>5, <2>1 DEF CreateHdr
  <2>3. pc["storage"] = "idle" /\ hdr = ZeroHdr
    BY <2>1 DEF Sync
  <2> QED BY <2>1, <2>2, <2>3 DEF Sync, SavedHdr, Reached
<1>6. CASE FillRecord
  <2>1. UNCHANGED <<hdr, data, pc, msg, rec>> /\ mode = "fill" /\ exists
    BY <1>6 DEF FillRecord, cache, Sync
  <2>2. mode' = "fill" /\ DataStored(fill, Blank)
    BY <1>6, <2>1 DEF FillRecord
  <2>3. pc["storage"] = "idle" /\ hdr = ZeroHdr /\ fhdr = ZeroHdr
    BY <2>1 DEF Sync
  <2>4. fhdr' = ZeroHdr /\ exists'
    BY <2>1, <2>2, <2>3 DEF SavedHdr
  <2> QED BY <2>1, <2>2, <2>3, <2>4 DEF Sync, SavedHdr, Reached
<1>7. CASE Filled
  <2>1. UNCHANGED <<hdr, data, fhdr, fdata, flen, exists, pc, msg, rec>>
        /\ mode = "fill" /\ mode' = "run"
    BY <1>7 DEF Filled, file, locals
  <2>2. pc["storage"] = "idle" /\ hdr = ZeroHdr /\ fhdr = ZeroHdr /\ exists
    BY <2>1 DEF Sync
  <2>3. Ahead' /\ Synced(hdr)'
    BY <2>1, <2>2 DEF Ahead, SavedHdr, Synced
  <2> QED BY <2>1, <2>2, <2>3 DEF Sync, SavedHdr, Reached
<1> QED BY <1>1, <1>2, <1>3, <1>4, <1>5, <1>6, <1>7 DEF Start

LEMMA SyncHandle ==
  ASSUME Alone, TypeOK, Sync, NEW h \in Handlers, Handle(h)
  PROVE  Sync'
<1> USE NoFaults, AloneStores, NoHdrIsNone, ZeroDead
<1> h = "storage"
  BY DEF Alone
<1>0. mode = "run" /\ exists /\ Ahead /\ Synced(hdr) /\ Reached(SavedHdr)
  BY DEF Handle, AddStart, CacheEntry, StoreEntry, AdvanceEnd, StoreHdr,
         StoreHdrFails, Sync
<1>7. hdr \in Headers /\ SavedHdr \in Headers
  BY SavedIn DEF TypeOK
<1>1. ASSUME NEW e \in Entries, AddStart(h, e) PROVE Sync'
  <2>1. UNCHANGED <<mode, data, exists, fhdr, fdata, flen>>
        /\ hdr = SavedHdr /\ hdr' = Rolled(hdr) /\ pc'["storage"] = "cache"
        /\ msg'["storage"] = e
    BY <1>0, <1>1 DEF AddStart, file, Ahead, TypeOK
  <2>2. Synced(hdr)'
    BY <1>0, <1>7, <2>1, RolledLive DEF Synced
  <2>3. Ahead'
    BY <2>1 DEF Ahead, SavedHdr
  <2> QED BY <1>0, <2>1, <2>2, <2>3 DEF Sync, SavedHdr, Reached
<1>2. CASE CacheEntry(h)
  <2>1. UNCHANGED <<mode, hdr, exists, fhdr, fdata, flen, msg>>
        /\ data' = [data EXCEPT ![hdr.end] = msg["storage"]]
        /\ rec'["storage"] = hdr.end + 1 /\ pc'["storage"] = "data"
        /\ hdr = Rolled(SavedHdr) /\ msg["storage"] \in Entries
    BY <1>0, <1>2 DEF CacheEntry, file, Ahead, TypeOK
  <2>2. hdr.end \in Indexes /\ data'[hdr.end] = msg["storage"]
        /\ \A s \in Indexes : s # hdr.end => data'[s] = data[s]
    BY <1>7, <2>1 DEF TypeOK, Headers
  <2>3. Synced(hdr)'
    BY <1>0, <1>7, <2>1, <2>2, EndIsFree DEF Synced
  <2>4. Ahead'
    BY <2>1, <2>2 DEF Ahead, SavedHdr
  <2> QED BY <1>0, <2>1, <2>3, <2>4 DEF Sync, SavedHdr, Reached
<1>3. CASE StoreEntry(h)
  <2>1. UNCHANGED <<mode, hdr, data, msg, rec, exists>>
        /\ DataStored(rec["storage"], msg["storage"])
        /\ pc'["storage"] = "end" /\ pc["storage"] = "data"
    BY <1>0, <1>3 DEF StoreEntry, cache, TypeOK
  <2>2. hdr = Rolled(SavedHdr) /\ msg["storage"] \in Entries
        /\ data[hdr.end] = msg["storage"] /\ rec["storage"] = hdr.end + 1
    BY <1>0, <2>1 DEF Ahead
  <2>3. hdr.end \in Nat /\ hdr.end \in Indexes /\ hdr.end + 1 - 1 = hdr.end
    BY <1>7 DEF Headers, Indexes, IndexMax
  <2>4. fdata' = [fdata EXCEPT ![hdr.end] = msg["storage"]]
        /\ fhdr' = SavedHdr
        /\ flen' = IF flen < hdr.end + 1 THEN hdr.end + 1 ELSE flen
    <3>1. \A id, m : DataStored(id, m) =>
              /\ fdata' = [fdata EXCEPT ![id - 1] = m]
              /\ fhdr' = SavedHdr
              /\ flen' = IF flen < id THEN id ELSE flen
      OBVIOUS
    <3> QED BY ONLY <3>1, <2>1, <2>2, <2>3
  <2>5. fdata'[hdr.end] = msg["storage"]
        /\ \A s \in Indexes : s # hdr.end => fdata'[s] = fdata[s]
    BY <2>3, <2>4 DEF TypeOK
  <2>6. Synced(hdr)'
    BY <1>0, <1>7, <2>1, <2>5, EndIsFree DEF Synced
  <2>7. fhdr' # NoHdr /\ SavedHdr' = SavedHdr
    BY <1>7, <2>4 DEF SavedHdr
  <2>8. flen \in Nat /\ flen' \in Nat /\ flen' >= flen /\ hdr.end < flen'
    BY <2>3, <2>4 DEF TypeOK
  <2>9. Reached(SavedHdr)'
    <3>1. \A s \in Indexes : s \in Nat
      BY DEF Indexes
    <3> QED BY <1>0, <2>7, <2>8, <3>1 DEF Reached
  <2>10. Ahead'
    BY <2>1, <2>2, <2>5, <2>7, <2>8 DEF Ahead
  <2> QED BY <1>0, <2>1, <2>6, <2>7, <2>9, <2>10 DEF Sync
<1>4. CASE AdvanceEnd(h)
  <2>1. UNCHANGED <<mode, data, exists, fhdr, fdata, flen, msg>>
        /\ hdr' = Advanced(hdr) /\ pc["storage"] = "end" /\ pc'["storage"] = "hdr"
    BY <1>0, <1>4 DEF AdvanceEnd, file, TypeOK
  <2>2. hdr = Rolled(fhdr) /\ fhdr # NoHdr /\ SavedHdr = fhdr
        /\ msg["storage"] \in Entries /\ data[hdr.end] = msg["storage"]
        /\ fdata[hdr.end] = msg["storage"] /\ hdr.end < flen
    BY <1>0, <2>1 DEF Ahead, SavedHdr
  <2>3. \A s \in Indexes : IsLive(hdr', s) => IsLive(hdr, s) \/ s = hdr.end
    BY <1>7, <2>1, <2>2, RolledRoom, AdvancedLive
  <2>4. Synced(hdr)'
    BY <1>0, <2>1, <2>2, <2>3 DEF Synced
  <2>5. Reached(hdr)'
    BY <1>0, <1>7, <2>1, <2>2, <2>3, RolledLive DEF Reached
  <2>6. Ahead'
    BY <2>1, <2>2, <2>5 DEF Ahead
  <2> QED BY <1>0, <2>1, <2>2, <2>4, <2>6 DEF Sync, SavedHdr, Reached
<1>5. CASE StoreHdr(h)
  <2>1. UNCHANGED <<mode, hdr, data, exists, fdata, flen, msg>> /\ fhdr' = hdr
        /\ pc["storage"] = "hdr" /\ pc'["storage"] = "idle"
    BY <1>0, <1>5 DEF StoreHdr, cache, TypeOK
  <2>2. SavedHdr' = hdr
    BY <1>7, <2>1 DEF SavedHdr
  <2>3. Reached(hdr)
    BY <1>0, <2>1 DEF Ahead, Reached
  <2>4. Ahead'
    BY <2>1, <2>2 DEF Ahead
  <2>5. Synced(hdr)'
    BY <1>0, <2>1 DEF Synced
  <2>6. Reached(SavedHdr)'
    BY <2>1, <2>2, <2>3 DEF Reached
  <2> QED BY <1>0, <2>1, <2>4, <2>5, <2>6 DEF Sync
<1>6. CASE StoreHdrFails(h)
  BY <1>0, <1>6 DEF StoreHdrFails
<1> QED BY <1>1, <1>2, <1>3, <1>4, <1>5, <1>6 DEF Handle

LEMMA SyncStep == Alone /\ TypeOK /\ Sync /\ [Next]_vars => Sync'
<1> SUFFICES ASSUME Alone, TypeOK, Sync, [Next]_vars PROVE Sync'
  OBVIOUS
<1>1. CASE Reserve
  <2>1. UNCHANGED <<mode, hdr, data, exists, fhdr, fdata, flen, pc, msg, rec>>
    BY <1>1 DEF Reserve, file, locals
  <2> QED BY <2>1 DEF Sync, Ahead, Synced, Reached, SavedHdr
<1>2. ASSUME NEW id \in 0 .. RsvIdMax, Erase(id) PROVE Sync'
  <2>1. UNCHANGED <<mode, data, exists, fhdr, fdata, flen>> /\ mode = "run"
        /\ hdr' = ZeroHdr /\ pc'["storage"] = "hdr"
    BY <1>2 DEF Erase, file, TypeOK
  <2>2. Ahead' /\ Synced(hdr)'
    BY <2>1, ZeroDead DEF Ahead, Synced
  <2> QED BY <2>1, <2>2 DEF Sync, Reached, SavedHdr
<1>3. CASE Die
  <2>1. UNCHANGED <<exists, fhdr, fdata, flen>> /\ mode' = "down"
        /\ hdr' = ZeroHdr /\ pc'["storage"] = "idle"
    BY <1>3 DEF Die, file
  <2> QED BY <2>1 DEF Sync, Reached, SavedHdr
<1>4. CASE UNCHANGED vars
  BY <1>4 DEF vars, cache, file, locals, Sync, Ahead, Synced, Reached, SavedHdr
<1> QED BY <1>1, <1>2, <1>3, <1>4, SyncStart, SyncHandle DEF Next

LEMMA Syncing ==
  ASSUME Alone
  PROVE  Spec => [](TypeOK /\ Sync)
<1>1. Init => TypeOK /\ Sync
  BY TypeInit, SyncInit
<1>2. TypeOK /\ Sync /\ [Next]_vars => (TypeOK /\ Sync)'
  BY TypeStep, SyncStep
<1> QED BY <1>1, <1>2, PTL DEF Spec

---------------------------- (* what it gives *) -----------------------------

LEMMA LogsAgree ==
  ASSUME TypeOK, Synced(hdr)
  PROVE  CachedLog = LogOf(hdr, fdata)
BY LogAgrees DEF TypeOK, Synced, CachedLog

LEMMA PersistedIs ==
  ASSUME TypeOK
  PROVE  PersistedLog = LogOf(SavedHdr, fdata)
BY LogEmpty, ZeroIn DEF PersistedLog, SavedHdr

LEMMA SyncMatches == TypeOK /\ Sync => CacheMatchesFile
BY LogsAgree, PersistedIs DEF Sync, Ahead, CacheMatchesFile

\* With callers that take turns and stores that work, a restart changes
\* nothing a client can read, whenever it comes.
THEOREM Matching ==
  ASSUME Alone
  PROVE  Spec => []CacheMatchesFile
BY SyncMatches, Syncing, PTL

\* The log served and the log saved after each step of the daemon.

LEMMA SavedStays ==
  ASSUME TypeOK, TypeOK', UNCHANGED <<fhdr, fdata>>
  PROVE  PersistedLog' = PersistedLog
BY DEF PersistedLog, LogOf

LEMMA CachedStays ==
  ASSUME UNCHANGED <<hdr, data>>
  PROVE  CachedLog' = CachedLog
BY DEF CachedLog, LogOf

LEMMA CachedEmpty ==
  ASSUME TypeOK, hdr = ZeroHdr
  PROVE  CachedLog = << >>
BY LogEmpty, ZeroIn DEF CachedLog

LEMMA SavedEmpty ==
  ASSUME TypeOK, fhdr \in {NoHdr, ZeroHdr}
  PROVE  PersistedLog = << >>
BY LogEmpty, ZeroIn DEF PersistedLog

LEMMA RefineInit == Init => Abstract!LogInit
<1> SUFFICES ASSUME Init PROVE Abstract!LogInit
  OBVIOUS
<1>1. mode # "run" /\ hdr = ZeroHdr /\ fhdr = NoHdr /\ TypeOK
  BY TypeInit DEF Init
<1> QED BY <1>1, CachedEmpty, SavedEmpty DEF Abstract!LogInit

LEMMA RefineStart ==
  ASSUME Alone, TypeOK, TypeOK', Sync, Sync', Start
  PROVE  [Abstract!LogNext]_(Abstract!logVars)
<1> USE NoFaults, AloneStores, NoHdrIsNone
<1>1. ASSUME mode' = "run", mode # "run", UNCHANGED <<fhdr, fdata>>
      PROVE  Abstract!Restart
  <2>1. pc'["storage"] = "idle"
    <3>1. pc["storage"] = "idle"
      BY <1>1 DEF Sync
    <3>2. pc' = pc
      BY DEF Start, Load, LoadFails, Skipped, Create, CreateHdr, FillRecord,
             Filled, locals
    <3> QED BY <3>1, <3>2
  <2>2. (TypeOK /\ Sync => CacheMatchesFile)'
    BY SyncMatches, PTL
  <2>3. CachedLog' = PersistedLog'
    BY <1>1, <2>1, <2>2 DEF CacheMatchesFile
  <2> QED BY <1>1, <2>3, SavedStays DEF Abstract!Restart
<1>2. ASSUME mode' # "run", mode # "run",
             fhdr \in {NoHdr, ZeroHdr}, fhdr' \in {NoHdr, ZeroHdr}
      PROVE  UNCHANGED Abstract!logVars
  <2>1. CachedLog = << >> /\ PersistedLog = << >>
    BY <1>2, CachedEmpty, SavedEmpty DEF Sync
  <2>2. (TypeOK /\ hdr = ZeroHdr => CachedLog = << >>)'
    BY CachedEmpty, PTL
  <2>3. (TypeOK /\ fhdr \in {NoHdr, ZeroHdr} => PersistedLog = << >>)'
    BY SavedEmpty, PTL
  <2>4. CachedLog' = << >> /\ PersistedLog' = << >>
    BY <1>2, <2>2, <2>3 DEF Sync
  <2> QED BY <1>2, <2>1, <2>4 DEF Abstract!logVars
<1>3. CASE Load
  BY <1>1, <1>3 DEF Load, file, Abstract!LogNext
<1>4. CASE LoadFails
  BY <1>1, <1>4 DEF LoadFails, file, Abstract!LogNext
<1>5. CASE Skipped
  BY <1>5 DEF Skipped
<1>6. CASE Create
  BY <1>2, <1>6 DEF Create, Sync
<1>7. CASE CreateHdr
  BY <1>2, <1>7 DEF CreateHdr, Sync
<1>8. CASE FillRecord
  <2>1. mode' = "fill"
    BY <1>8 DEF FillRecord, Sync
  <2> QED BY <1>2, <1>8, <2>1 DEF FillRecord, Sync
<1>9. CASE Filled
  BY <1>1, <1>9 DEF Filled, file, Abstract!LogNext
<1> QED BY <1>3, <1>4, <1>5, <1>6, <1>7, <1>8, <1>9 DEF Start

LEMMA RefineHandle ==
  ASSUME Alone, TypeOK, TypeOK', Sync, Sync', NEW h \in Handlers, Handle(h)
  PROVE  [Abstract!LogNext]_(Abstract!logVars)
<1> USE NoFaults, AloneStores, NoHdrIsNone
<1> h = "storage"
  BY DEF Alone
<1>0. mode = "run" /\ mode' = mode /\ exists /\ Ahead /\ Synced(hdr)
  BY DEF Handle, AddStart, CacheEntry, StoreEntry, AdvanceEnd, StoreHdr,
         StoreHdrFails, Sync
<1>7. hdr \in Headers /\ SavedHdr \in Headers /\ data \in [Indexes -> Contents]
      /\ fdata \in [Indexes -> Contents]
  BY SavedIn DEF TypeOK
<1>8. CachedLog \in Seq(Contents) /\ Len(CachedLog) = Num(hdr)
  BY <1>7, LogLen DEF CachedLog
<1>9. PersistedLog = LogOf(SavedHdr, fdata) /\ Len(PersistedLog) = Num(SavedHdr)
  BY <1>7, LogLen, PersistedIs
<1>1. ASSUME NEW e \in Entries, AddStart(h, e)
      PROVE  [Abstract!LogNext]_(Abstract!logVars)
  <2>1. UNCHANGED <<fhdr, fdata, data>> /\ hdr' = Rolled(hdr)
    BY <1>1 DEF AddStart, file
  <2>2. PersistedLog' = PersistedLog
    BY <2>1, SavedStays
  <2>3. CachedLog' = LogOf(hdr', data')
    BY DEF CachedLog
  <2>4. CASE Num(hdr) = RecordsMax
    <3>1. CachedLog' = Tail(CachedLog)
      BY <1>7, <2>1, <2>3, <2>4, LogRolled DEF CachedLog
    <3> QED BY <1>0, <1>8, <2>2, <2>4, <3>1 DEF Abstract!LogNext, Abstract!Drop
  <2>5. CASE Num(hdr) # RecordsMax
    BY <1>0, <2>1, <2>2, <2>5, CachedStays DEF Rolled, Abstract!logVars
  <2> QED BY <2>4, <2>5
<1>2. CASE CacheEntry(h)
  <2>1. UNCHANGED <<fhdr, fdata, hdr>> /\ data' = [data EXCEPT ![hdr.end] = msg[h]]
    BY <1>2 DEF CacheEntry, file
  <2>2. \A s \in Indexes : IsLive(hdr, s) => data[s] = data'[s]
    BY <1>7, <2>1, EndIsFree
  <2>3. LogOf(hdr, data) = LogOf(hdr, data')
    BY <1>7, <2>2, LogAgrees
  <2>4. CachedLog' = CachedLog
    BY <2>1, <2>3 DEF CachedLog
  <2> QED BY <1>0, <2>1, <2>4, SavedStays DEF Abstract!logVars
<1>3. CASE StoreEntry(h)
  <2>1. UNCHANGED <<hdr, data>> /\ DataStored(rec[h], msg[h]) /\ pc[h] = "data"
    BY <1>0, <1>3 DEF StoreEntry, cache
  <2>2. hdr = Rolled(SavedHdr) /\ rec[h] = hdr.end + 1
    BY <1>0, <2>1 DEF Ahead
  <2>3. hdr.end \in Nat /\ hdr.end = SavedHdr.end /\ hdr.end + 1 - 1 = hdr.end
    BY <1>7, <2>2, RolledIn DEF Headers, Indexes, IndexMax
  <2>4. fdata' = [fdata EXCEPT ![SavedHdr.end] = msg[h]] /\ fhdr' = SavedHdr
    <3>1. \A id, m : DataStored(id, m) =>
              fdata' = [fdata EXCEPT ![id - 1] = m] /\ fhdr' = SavedHdr
      OBVIOUS
    <3> QED BY ONLY <3>1, <2>1, <2>2, <2>3
  <2>5. \A s \in Indexes : IsLive(SavedHdr, s) => fdata'[s] = fdata[s]
    BY <1>7, <2>4, EndIsFree
  <2>6. LogOf(SavedHdr, fdata') = LogOf(SavedHdr, fdata)
    BY <1>7, <2>5, LogAgrees
  <2>7. PersistedLog' = LogOf(SavedHdr, fdata')
    BY <1>7, <2>4 DEF PersistedLog
  <2> QED BY <1>0, <1>9, <2>1, <2>6, <2>7, CachedStays DEF Abstract!logVars
<1>4. CASE AdvanceEnd(h)
  <2>1. UNCHANGED <<fhdr, fdata, data>> /\ hdr' = Advanced(hdr) /\ pc[h] = "end"
    BY <1>4 DEF AdvanceEnd, file
  <2>2. hdr = Rolled(SavedHdr) /\ msg[h] \in Entries /\ fdata[hdr.end] = msg[h]
        /\ data[hdr.end] = msg[h]
    BY <1>0, <2>1 DEF Ahead
  <2>3. Num(hdr) < RecordsMax
    BY <1>7, <2>2, RolledRoom
  <2>4. CachedLog' = Append(CachedLog, msg[h])
    BY <1>7, <2>1, <2>2, <2>3, LogAdvanced DEF CachedLog
  <2>5. Abstract!Add
    BY <1>0, <1>8, <2>1, <2>2, <2>3, <2>4, SavedStays DEF Abstract!Add
  <2> QED BY <2>5 DEF Abstract!LogNext
<1>5. CASE StoreHdr(h)
  <2>1. UNCHANGED <<hdr, data, fdata>> /\ fhdr' = hdr /\ pc[h] = "hdr"
    BY <1>5 DEF StoreHdr, cache
  <2>2. CachedLog = LogOf(hdr, fdata)
    BY <1>0, LogsAgree
  <2>3. PersistedLog' = LogOf(hdr, fdata)
    BY <1>7, <2>1 DEF PersistedLog
  <2>4. CASE hdr = ZeroHdr
    <3>1. CachedLog = << >>
      BY <2>4, CachedEmpty
    <3> QED BY <1>0, <2>1, <2>2, <2>3, <3>1, CachedStays
            DEF Abstract!LogNext, Abstract!Save
  <2>5. CASE hdr # ZeroHdr
    <3> DEFINE r == Rolled(SavedHdr)
    <3>1. SavedHdr = fhdr /\ hdr = Advanced(r) /\ msg[h] \in Entries
          /\ fdata[r.end] = msg[h]
      BY <1>0, <2>1, <2>5 DEF Ahead, SavedHdr
    <3>2. r \in Headers /\ Num(r) < RecordsMax
      BY <1>7, RolledIn, RolledRoom
    <3>3. CachedLog = Append(LogOf(r, fdata), msg[h])
      BY <1>7, <2>2, <3>1, <3>2, LogAdvanced
    <3>4. LogOf(r, fdata) = IF Num(SavedHdr) = RecordsMax
                            THEN Tail(PersistedLog) ELSE PersistedLog
      BY <1>7, <1>9, LogRolled DEF Rolled
    <3>5. CachedLog = Abstract!Pushed(PersistedLog, msg[h])
      BY <1>9, <3>3, <3>4 DEF Abstract!Pushed
    <3>6. Abstract!Save
      BY <1>0, <2>1, <2>2, <2>3, <3>1, <3>5, CachedStays DEF Abstract!Save
    <3> QED BY <3>6 DEF Abstract!LogNext
  <2> QED BY <2>4, <2>5
<1>6. CASE StoreHdrFails(h)
  BY <1>0, <1>6 DEF StoreHdrFails
<1> QED BY <1>1, <1>2, <1>3, <1>4, <1>5, <1>6 DEF Handle

LEMMA RefineStep ==
  ASSUME Alone, TypeOK, TypeOK', Sync, Sync', [Next]_vars
  PROVE  [Abstract!LogNext]_(Abstract!logVars)
<1>1. CASE Reserve
  BY <1>1, SavedStays, CachedStays DEF Reserve, file, Abstract!logVars
<1>2. ASSUME NEW id \in 0 .. RsvIdMax, Erase(id) PROVE Abstract!Clear
  <2>1. (TypeOK /\ hdr = ZeroHdr => CachedLog = << >>)'
    BY CachedEmpty, PTL
  <2>2. mode = "run" /\ mode' = mode /\ hdr' = ZeroHdr /\ UNCHANGED <<fhdr, fdata>>
    BY <1>2 DEF Erase, file
  <2> QED BY <2>1, <2>2, SavedStays DEF Abstract!Clear
<1>3. CASE Die
  <2>1. (TypeOK /\ hdr = ZeroHdr => CachedLog = << >>)'
    BY CachedEmpty, PTL
  <2>2. mode' # "run" /\ hdr' = ZeroHdr /\ UNCHANGED <<fhdr, fdata>>
    BY <1>3 DEF Die, file
  <2>3. Abstract!Die
    BY <2>1, <2>2, SavedStays DEF Abstract!Die
  <2> QED BY <2>3 DEF Abstract!LogNext
<1>4. CASE UNCHANGED vars
  BY <1>4, SavedStays, CachedStays DEF vars, cache, file, Abstract!logVars
<1> QED BY <1>1, <1>2, <1>3, <1>4, RefineStart, RefineHandle
        DEF Next, Abstract!LogNext

\* With callers that take turns and stores that work, the log served and the
\* log saved are a bounded log that survives every death of the daemon.
THEOREM Refinement ==
  ASSUME Alone
  PROVE  Spec => BoundedLog
<1>1. TypeOK /\ TypeOK' /\ Sync /\ Sync' /\ [Next]_vars
        => [Abstract!LogNext]_(Abstract!logVars)
  BY RefineStep
<1> QED BY <1>1, RefineInit, Syncing, PTL DEF Spec, BoundedLog, Abstract!LogSpec

\* What is saved is replaced by one whole entry more, or by nothing, or not.
THEOREM Atomic ==
  ASSUME Alone
  PROVE  Spec => PersistsAtomically
<1> DEFINE A == PersistedLog' # PersistedLog =>
       \/ PersistedLog' = << >>
       \/ \E e \in Entries :
            PersistedLog' = IF Num(fhdr) = RecordsMax
                            THEN Append(Tail(PersistedLog), e)
                            ELSE Append(PersistedLog, e)
<1>1. ASSUME TypeOK, TypeOK', Sync, Sync', [Next]_vars PROVE A
  <2>1. CASE UNCHANGED Abstract!logVars \/ ~ Abstract!Save
    BY <1>1, <2>1, RefineStep
       DEF Abstract!logVars, Abstract!LogNext, Abstract!Drop, Abstract!Add,
           Abstract!Clear, Abstract!Die, Abstract!Restart
  <2>2. CASE Abstract!Save
    <3>1. Len(PersistedLog) = RecordsMax <=> Num(fhdr) = RecordsMax
      <4>1. Num(NoHdr) = 0 /\ Num(ZeroHdr) = 0
        BY DEF Num, NoHdr, ZeroHdr, ElemsMax
      <4>2. Len(PersistedLog) = Num(SavedHdr)
        BY <1>1, SavedIn, LogLen, PersistedIs DEF TypeOK
      <4> QED BY <4>1, <4>2 DEF SavedHdr
    <3> QED BY <2>2, <3>1 DEF Abstract!Save, Abstract!Pushed
  <2> QED BY <2>1, <2>2
<1>2. TypeOK /\ TypeOK' /\ Sync /\ Sync' /\ [Next]_vars => A
  BY <1>1
<1>3. UNCHANGED vars => A
  BY SavedStays DEF vars, file, PersistedLog, LogOf
<1> HIDE DEF A
<1>4. Spec => [][A]_vars
  BY <1>2, <1>3, Syncing, PTL DEF Spec
<1> QED BY <1>4 DEF PersistsAtomically, A

-------------------- (* callers that take turns, any failures *) -------------

\* What is left to assume when files may fail: callers that take turns.
InTurn == Handlers = {"storage"}

\* An entry on its way has room, and lies where the end is.
Room ==
  /\ mode # "run" => pc["storage"] = "idle"
  /\ pc["storage"] \in {"cache", "data", "end"} =>
       Num(hdr) < RecordsMax /\ msg["storage"] \in Entries
  /\ pc["storage"] \in {"data", "end"} => data[hdr.end] = msg["storage"]

LEMMA RoomStep ==
  ASSUME InTurn, TypeOK, Room, [Next]_vars
  PROVE  Room'
<1>s. "storage" \in Handlers
  OBVIOUS
<1>h. hdr \in Headers
  BY DEF TypeOK
<1>1. CASE Start
  <2>1. mode # "run" /\ UNCHANGED pc
    BY <1>1 DEF Start, Load, LoadFails, Skipped, Create, CreateHdr, FillRecord, Filled, locals
  <2> QED BY <2>1 DEF Room
<1>2. ASSUME NEW h \in Handlers, Handle(h) PROVE Room'
  <2> h = "storage"
    BY DEF InTurn
  <2>0. mode = "run" /\ mode' = "run"
    BY <1>2 DEF Handle, AddStart, CacheEntry, StoreEntry, AdvanceEnd, StoreHdr, StoreHdrFails
  <2>1. ASSUME NEW e \in Entries, AddStart(h, e) PROVE Room'
    <3>1. Num(hdr') < RecordsMax /\ pc'["storage"] = "cache" /\ msg'["storage"] = e
      BY <1>h, <2>1, RolledRoom DEF AddStart, TypeOK
    <3> QED BY <2>0, <3>1 DEF Room
  <2>2. CASE CacheEntry(h)
    <3>1. hdr.end \in Indexes
      BY <1>h DEF Headers
    <3>2. /\ UNCHANGED <<hdr, msg>> /\ pc["storage"] = "cache" /\ pc'["storage"] = "data"
          /\ data'[hdr.end] = msg["storage"]
      BY <2>2, <3>1 DEF CacheEntry, TypeOK
    <3> QED BY <2>0, <3>2 DEF Room
  <2>3. CASE StoreEntry(h)
    BY <2>0, <2>3 DEF StoreEntry, Room, cache, TypeOK
  <2>4. CASE AdvanceEnd(h)
    BY <2>0, <2>4 DEF AdvanceEnd, Room, TypeOK
  <2>5. CASE StoreHdr(h) \/ StoreHdrFails(h)
    BY <2>0, <2>5 DEF StoreHdr, StoreHdrFails, Room, TypeOK
  <2> QED BY <1>2, <2>1, <2>2, <2>3, <2>4, <2>5 DEF Handle
<1>3. CASE Reserve
  BY <1>3 DEF Reserve, Room, locals
<1>4. ASSUME NEW id \in 0 .. RsvIdMax, Erase(id) PROVE Room'
  BY <1>4 DEF Erase, Room, TypeOK
<1>5. CASE Die
  BY <1>5, <1>s DEF Die, Room
<1>6. CASE UNCHANGED vars
  BY <1>6 DEF vars, cache, locals, Room
<1> QED BY <1>1, <1>2, <1>3, <1>4, <1>5, <1>6 DEF Next

LEMMA Roomy == ASSUME InTurn PROVE Spec => [](TypeOK /\ Room)
<1>1. Init => TypeOK /\ Room
  BY TypeInit DEF Init, Room
<1>2. TypeOK /\ Room /\ [Next]_vars => (TypeOK /\ Room)'
  BY TypeStep, RoomStep
<1> QED BY <1>1, <1>2, PTL DEF Spec

\* What the handler's steps make of the log that is served.
LEMMA QueueHandle ==
  ASSUME InTurn, TypeOK, Room, NEW h \in Handlers, Handle(h), CachedLog' # CachedLog
  PROVE  \/ Num(hdr) = RecordsMax /\ CachedLog' = Tail(CachedLog)
         \/ /\ Num(hdr) < RecordsMax
            /\ \E e \in Entries : CachedLog' = Append(CachedLog, e)
<1> h = "storage"
  BY DEF InTurn
<1>h. hdr \in Headers /\ data \in [Indexes -> Contents] /\ hdr.end \in Indexes
  BY DEF TypeOK, Headers
<1>1. ASSUME NEW e \in Entries, AddStart(h, e)
      PROVE  Num(hdr) = RecordsMax /\ CachedLog' = Tail(CachedLog)
  <2>1. hdr' = Rolled(hdr) /\ data' = data
    BY <1>1 DEF AddStart
  <2>2. CASE Num(hdr) = RecordsMax
    BY <1>h, <2>1, <2>2, LogRolled DEF CachedLog
  <2>3. CASE Num(hdr) # RecordsMax
    BY <2>1, <2>3 DEF CachedLog, Rolled
  <2> QED BY <2>2, <2>3
<1>2. CASE CacheEntry(h)
  <2>1. hdr' = hdr /\ data' = [data EXCEPT ![hdr.end] = msg["storage"]]
    BY <1>2 DEF CacheEntry
  <2>2. \A s \in Indexes : IsLive(hdr, s) => data'[s] = data[s]
    BY <1>h, <2>1, EndIsFree
  <2>3. LogOf(hdr, data') = LogOf(hdr, data)
    BY <1>h, <2>2, LogAgrees
  <2> QED BY <2>1, <2>3 DEF CachedLog
<1>3. CASE AdvanceEnd(h)
  <2>1. hdr' = Advanced(hdr) /\ data' = data /\ pc["storage"] = "end"
    BY <1>3 DEF AdvanceEnd
  <2>2. Num(hdr) < RecordsMax /\ msg["storage"] \in Entries
        /\ data[hdr.end] = msg["storage"]
    BY <2>1 DEF Room
  <2>3. CachedLog' = Append(CachedLog, msg["storage"])
    BY <1>h, <2>1, <2>2, LogAdvanced DEF CachedLog
  <2> QED BY <2>2, <2>3
<1>4. CASE StoreEntry(h) \/ StoreHdr(h) \/ StoreHdrFails(h)
  BY <1>4 DEF StoreEntry, StoreHdr, StoreHdrFails, cache, CachedLog
<1> QED BY <1>1, <1>2, <1>3, <1>4 DEF Handle

\* With callers that take turns, however files fail, the log that is served
\* loses its oldest entry when it is full, gains one when it is not, and is
\* emptied by an erasure or a death alone.
THEOREM Queueing == ASSUME InTurn PROVE Spec => CacheIsQueue
<1>1. TypeOK /\ Room /\ [Next]_vars =>
        [mode = "run" /\ CachedLog' # CachedLog =>
           \/ Die \/ \E id \in 0 .. RsvIdMax : Erase(id)
           \/ Num(hdr) = RecordsMax /\ CachedLog' = Tail(CachedLog)
           \/ /\ Num(hdr) < RecordsMax
              /\ \E e \in Entries : CachedLog' = Append(CachedLog, e)]_vars
  <2> SUFFICES ASSUME TypeOK, Room, Next, mode = "run", CachedLog' # CachedLog
      PROVE  \/ Die \/ \E id \in 0 .. RsvIdMax : Erase(id)
             \/ Num(hdr) = RecordsMax /\ CachedLog' = Tail(CachedLog)
             \/ /\ Num(hdr) < RecordsMax
                /\ \E e \in Entries : CachedLog' = Append(CachedLog, e)
    OBVIOUS
  <2>1. ~ Start
    BY DEF Start, Load, LoadFails, Skipped, Create, CreateHdr, FillRecord, Filled
  <2>2. ~ Reserve
    BY DEF Reserve, CachedLog
  <2> QED BY <2>1, <2>2, QueueHandle DEF Next
<1> QED BY <1>1, Roomy, PTL DEF Spec, CacheIsQueue

------------- (* whatever is reported or starts late, is made up for *) ------

\* No fetch came back short, and no store was lost in silence.
Reported == faults \subseteq {"skip", "store"}

\* What is live in the cache is in the file, and so is the entry of a command
\* whose record has been stored.
Saved ==
  /\ mode # "run" => pc["storage"] = "idle" /\ hdr = ZeroHdr
  /\ Reached(SavedHdr)
  /\ mode = "run" => Synced(hdr) /\ Reached(hdr)
  /\ pc["storage"] \in {"data", "end"} => rec["storage"] = hdr.end + 1
  /\ pc["storage"] = "end" => fdata[hdr.end] = msg["storage"] /\ hdr.end < flen

LEMMA ReportedStores ==
  ASSUME Reported'
  PROVE  /\ ~ Fault("fetch")
         /\ ~ LostAtClose
         /\ HdrStored => fhdr' = hdr /\ UNCHANGED <<exists, fdata, flen>>
         /\ \A id, m : DataStored(id, m) =>
              /\ fdata' = [fdata EXCEPT ![id - 1] = m]
              /\ fhdr' = SavedHdr
              /\ flen' = IF flen < id THEN id ELSE flen
         /\ StoreFails => UNCHANGED file
<1>1. ~ Fault("fetch") /\ ~ Fault("close")
  BY DEF Reported, Fault
<1> QED BY <1>1 DEF LostAtClose, HdrStored, DataStored, SavedHdr, StoreFails

\* What has failed is remembered.
LEMMA FaultsStay ==
  ASSUME Next, Reported'
  PROVE  Reported
<1>0. \A op : Fault(op) => Reported
  BY DEF Fault, Reported
<1>1. NoFault => Reported
  BY DEF NoFault, Reported
<1>2. StoreFails \/ LostAtClose \/ HdrStored => Reported
  BY <1>0, <1>1 DEF StoreFails, LostAtClose, HdrStored
<1>3. \A id, m : DataStored(id, m) => Reported
  BY <1>1, <1>2 DEF DataStored
<1>4. Start => Reported
  <2>1. Load \/ LoadFails \/ Skipped \/ Create \/ Filled => Reported
    BY <1>0, <1>1 DEF Load, LoadFails, Skipped, Create, Filled, NoFault
  <2>2. CreateHdr \/ FillRecord => Reported
    BY <1>2, <1>3 DEF CreateHdr, FillRecord
  <2> QED BY <2>1, <2>2 DEF Start
<1>5. \A h \in Handlers : Handle(h) => Reported
  BY <1>1, <1>2, <1>3
     DEF Handle, AddStart, CacheEntry, StoreEntry, AdvanceEnd, StoreHdr, StoreHdrFails, NoFault
<1>6. Reserve \/ Die \/ (\E id \in 0 .. RsvIdMax : Erase(id)) => Reported
  BY <1>1 DEF Reserve, Die, Erase, NoFault
<1> QED BY <1>4, <1>5, <1>6 DEF Next

\* A stored record leaves every header within the reach of the file.
LEMMA StoredReach ==
  ASSUME Reported', TypeOK, NEW id \in 0 .. ElemsMax, NEW m, DataStored(id, m),
         NEW h \in Headers, Reached(h)
  PROVE  Reached(h)' /\ SavedHdr' = SavedHdr
<1>1. fhdr' = SavedHdr /\ flen' = (IF flen < id THEN id ELSE flen) /\ flen \in 0 .. ElemsMax
  BY ReportedStores DEF TypeOK
<1>2. SavedHdr' = SavedHdr
  BY <1>1, NoHdrIsNone DEF SavedHdr
<1>3. \A s \in Indexes : s < flen => s < flen'
  BY <1>1 DEF Indexes, IndexMax
<1> QED BY <1>2, <1>3 DEF Reached

LEMMA SavedStart ==
  ASSUME TypeOK, Saved, Reported', Start
  PROVE  Saved'
<1> USE ReportedStores, NoHdrIsNone, ZeroDead
<1>0. mode # "run" /\ pc["storage"] = "idle" /\ hdr = ZeroHdr
  BY DEF Start, Load, LoadFails, Skipped, Create, CreateHdr, FillRecord, Filled, Saved
<1>1. CASE Load
  <2>1. UNCHANGED <<fhdr, fdata, flen, pc>> /\ fhdr # NoHdr /\ hdr' = fhdr
        /\ mode' = "run"
        /\ data' = [i \in Indexes |-> IF i < flen THEN fdata[i] ELSE Junk]
    BY <1>1 DEF Load, file, locals
  <2>2. Reached(fhdr)
    BY <2>1 DEF Saved, SavedHdr
  <2>3. Synced(hdr)'
    BY <2>1, <2>2 DEF Synced, Reached
  <2> QED BY <1>0, <2>1, <2>2, <2>3 DEF Saved, SavedHdr, Reached
<1>2. CASE LoadFails
  <2>1. UNCHANGED <<fhdr, fdata, flen, pc>> /\ mode' = "run"
        /\ \/ fhdr # NoHdr /\ flen = 0 /\ hdr' = fhdr
           \/ fhdr = NoHdr /\ hdr' = hdr
    BY <1>2 DEF LoadFails, file, locals
  <2>2. hdr' = SavedHdr /\ \A s \in Indexes : ~ IsLive(SavedHdr, s)
    <3>1. CASE fhdr = NoHdr
      BY <3>1, <1>0, <2>1 DEF SavedHdr
    <3>2. CASE fhdr # NoHdr
      <4>1. \A s \in Indexes : ~ (s < 0)
        BY DEF Indexes
      <4> QED BY <3>2, <4>1, <2>1 DEF Saved, SavedHdr, Reached
    <3> QED BY <3>1, <3>2
  <2> QED BY <1>0, <2>1, <2>2 DEF Saved, SavedHdr, Reached, Synced
<1>3. CASE Skipped
  BY <1>0, <1>3 DEF Skipped, cache, file, locals, Saved, SavedHdr, Reached, Synced
<1>4. CASE Create
  BY <1>0, <1>4 DEF Create, cache, locals, Saved, SavedHdr, Reached, Synced
<1>5. CASE CreateHdr
  <2>1. UNCHANGED <<pc, flen>> /\ hdr' = ZeroHdr /\ (SavedHdr' = SavedHdr \/ SavedHdr' = ZeroHdr)
    BY <1>0, <1>5 DEF CreateHdr, locals, file, SavedHdr
  <2> QED BY <1>0, <2>1 DEF Saved, Reached, Synced
<1>6. CASE FillRecord
  <2>1. UNCHANGED <<hdr, pc>>
    BY <1>6 DEF FillRecord, cache
  <2>2. CASE DataStored(fill, Blank)
    <3>1. fill \in 0 .. ElemsMax
      BY <1>6 DEF FillRecord, TypeOK, ElemsMax
    <3>2. Reached(SavedHdr)'
      BY <2>2, <3>1, SavedIn, StoredReach DEF Saved, Reached
    <3> QED BY <1>0, <2>1, <3>2 DEF Saved, Reached, Synced
  <2>3. CASE StoreFails
    BY <1>0, <2>1, <2>3 DEF Saved, SavedHdr, Reached, Synced, file
  <2> QED BY <1>6, <2>2, <2>3 DEF FillRecord
<1>7. CASE Filled
  BY <1>0, <1>7 DEF Filled, file, locals, Saved, SavedHdr, Reached, Synced
<1> QED BY <1>1, <1>2, <1>3, <1>4, <1>5, <1>6, <1>7 DEF Start

LEMMA SavedHandle ==
  ASSUME InTurn, TypeOK, Room, Saved, Reported', NEW h \in Handlers, Handle(h)
  PROVE  Saved'
<1> USE ReportedStores
<1> h = "storage"
  BY DEF InTurn
<1>h. hdr \in Headers /\ data \in [Indexes -> Contents] /\ fdata \in [Indexes -> Contents]
      /\ hdr.end \in Indexes /\ flen \in 0 .. ElemsMax
  BY DEF TypeOK, Headers
<1>0. mode = "run" /\ mode' = "run"
  BY DEF Handle, AddStart, CacheEntry, StoreEntry, AdvanceEnd, StoreHdr, StoreHdrFails
<1>1. ASSUME NEW e \in Entries, AddStart(h, e) PROVE Saved'
  <2>1. hdr' = Rolled(hdr) /\ UNCHANGED <<data, fhdr, fdata, flen>> /\ pc'["storage"] = "cache"
    BY <1>1 DEF AddStart, TypeOK, file
  <2>2. \A s \in Indexes : IsLive(hdr', s) => IsLive(hdr, s)
    BY <1>h, <2>1, RolledLive
  <2> QED BY <1>0, <2>1, <2>2 DEF Saved, SavedHdr, Reached, Synced
<1>2. CASE CacheEntry(h)
  <2>1. UNCHANGED <<hdr, fhdr, fdata, flen>> /\ data' = [data EXCEPT ![hdr.end] = msg[h]]
        /\ pc'["storage"] = "data" /\ rec'["storage"] = hdr.end + 1
    BY <1>2 DEF CacheEntry, TypeOK, file
  <2>2. \A s \in Indexes : IsLive(hdr, s) => data'[s] = data[s]
    BY <1>h, <2>1, EndIsFree
  <2> QED BY <1>0, <2>1, <2>2 DEF Saved, SavedHdr, Reached, Synced
<1>3. CASE StoreEntry(h)
  <2>1. UNCHANGED <<hdr, data, msg, rec>> /\ pc["storage"] = "data" /\ rec[h] = hdr.end + 1
    BY <1>3 DEF StoreEntry, cache, Saved
  <2>2. CASE DataStored(rec[h], msg[h]) /\ pc' = [pc EXCEPT ![h] = "end"]
    <3>1. fdata' = [fdata EXCEPT ![hdr.end] = msg[h]]
          /\ flen' = (IF flen < hdr.end + 1 THEN hdr.end + 1 ELSE flen)
      BY <1>h, <2>1, <2>2 DEF Indexes, IndexMax
    <3>2. rec[h] \in 0 .. ElemsMax
      BY DEF TypeOK
    <3>3. SavedHdr' = SavedHdr /\ Reached(SavedHdr)' /\ Reached(hdr)'
      BY <1>h, <1>0, <2>1, <2>2, <3>2, SavedIn, StoredReach DEF Saved, Reached
    <3>4. Synced(hdr)'
      <4>1. \A s \in Indexes : IsLive(hdr, s) => fdata'[s] = fdata[s]
        BY <1>h, <3>1, EndIsFree
      <4> QED BY <1>0, <2>1, <4>1 DEF Synced, Saved
    <3>5. pc'["storage"] = "end" /\ fdata'[hdr.end] = msg["storage"] /\ hdr.end < flen'
      BY <1>h, <2>2, <3>1 DEF TypeOK, Indexes, IndexMax
    <3> QED BY <1>0, <2>1, <3>3, <3>4, <3>5 DEF Saved
  <2>3. CASE StoreFails /\ pc' = [pc EXCEPT ![h] = "idle"]
    <3>1. UNCHANGED <<fhdr, fdata, flen>> /\ pc'["storage"] = "idle"
      BY <2>3 DEF file, TypeOK
    <3> QED BY <1>0, <2>1, <3>1 DEF Saved, SavedHdr, Reached, Synced
  <2> QED BY <1>3, <2>2, <2>3 DEF StoreEntry
<1>4. CASE AdvanceEnd(h)
  <2>1. UNCHANGED <<data, fhdr, fdata, flen, msg>> /\ hdr' = Advanced(hdr)
        /\ pc["storage"] = "end" /\ pc'["storage"] = "hdr"
    BY <1>4 DEF AdvanceEnd, TypeOK, file
  <2>2. \A s \in Indexes : IsLive(hdr', s) => IsLive(hdr, s) \/ s = hdr.end
    BY <1>h, <2>1, AdvancedLive DEF Room
  <2>3. data[hdr.end] = fdata[hdr.end] /\ hdr.end < flen
    BY <2>1 DEF Room, Saved
  <2> QED BY <1>0, <2>1, <2>2, <2>3 DEF Saved, SavedHdr, Reached, Synced
<1>5. CASE StoreHdr(h)
  <2>1. UNCHANGED <<hdr, data, fdata, flen>> /\ fhdr' = hdr /\ pc'["storage"] = "idle"
    BY <1>5 DEF StoreHdr, cache, TypeOK
  <2>2. SavedHdr' = hdr
    BY <1>h, <2>1, NoHdrIsNone DEF SavedHdr
  <2> QED BY <1>0, <2>1, <2>2 DEF Saved, Reached, Synced
<1>6. CASE StoreHdrFails(h)
  <2>1. UNCHANGED <<hdr, data, fhdr, fdata, flen>> /\ pc'["storage"] = "idle"
    BY <1>6 DEF StoreHdrFails, cache, file, TypeOK
  <2> QED BY <1>0, <2>1 DEF Saved, SavedHdr, Reached, Synced
<1> QED BY <1>1, <1>2, <1>3, <1>4, <1>5, <1>6 DEF Handle

LEMMA SavedStep ==
  ASSUME InTurn, TypeOK, Room, Reported => Saved, [Next]_vars
  PROVE  (Reported => Saved)'
<1> SUFFICES ASSUME Reported' PROVE Saved'
  OBVIOUS
<1>1. CASE UNCHANGED vars
  BY <1>1 DEF vars, cache, file, locals, Reported, Saved, SavedHdr, Reached, Synced
<1>2. CASE Next
  <2>0. Saved
    BY <1>2, FaultsStay
  <2>1. CASE Reserve
    BY <2>0, <2>1 DEF Reserve, file, locals, Saved, SavedHdr, Reached, Synced
  <2>2. ASSUME NEW id \in 0 .. RsvIdMax, Erase(id) PROVE Saved'
    <3>1. UNCHANGED <<data, fhdr, fdata, flen>> /\ hdr' = ZeroHdr
          /\ mode' = "run" /\ pc'["storage"] = "hdr"
      BY <2>2 DEF Erase, file, TypeOK
    <3> QED BY <2>0, <3>1, ZeroDead DEF Saved, SavedHdr, Reached, Synced
  <2>3. CASE Die
    <3>1. UNCHANGED <<fhdr, fdata, flen>> /\ hdr' = ZeroHdr
          /\ mode' = "down" /\ pc'["storage"] = "idle"
      BY <2>3 DEF Die, file
    <3> QED BY <2>0, <3>1 DEF Saved, SavedHdr, Reached
  <2> QED BY <1>2, <2>0, <2>1, <2>2, <2>3, SavedStart, SavedHandle DEF Next
<1> QED BY <1>1, <1>2

LEMMA Saving == ASSUME InTurn PROVE Spec => [](TypeOK /\ Room /\ (Reported => Saved))
<1>1. Init => TypeOK /\ Room /\ (Reported => Saved)
  BY TypeInit, ZeroDead, NoHdrIsNone DEF Init, Room, Saved, SavedHdr, Reached
<1>2. TypeOK /\ Room /\ (Reported => Saved) /\ [Next]_vars
        => (TypeOK /\ Room /\ (Reported => Saved))'
  BY TypeStep, RoomStep, SavedStep
<1> QED BY <1>1, <1>2, PTL DEF Spec

\* With callers that take turns, as long as what was fetched was fetched whole
\* and failed stores were reported, a command that stores its header makes the
\* log saved the log served, entries of earlier failed commands included.
THEOREM Healing == ASSUME InTurn PROVE Spec => HeaderStoreHeals
<1>1. TypeOK /\ Room /\ (Reported => Saved) /\ [Next]_vars =>
        [faults \subseteq {"skip", "store"} =>
           \A h \in Handlers : StoreHdr(h) /\ faults' = faults
                                => PersistedLog' = CachedLog']_vars
  <2> SUFFICES ASSUME TypeOK, Reported, Saved, NEW h \in Handlers,
                      StoreHdr(h), faults' = faults
      PROVE  PersistedLog' = CachedLog'
    BY DEF Reported
  <2>1. hdr \in Headers
    BY DEF TypeOK
  <2>2. UNCHANGED <<hdr, data, fdata>> /\ fhdr' = hdr /\ mode = "run"
    BY ReportedStores DEF StoreHdr, cache, Reported
  <2>3. PersistedLog' = LogOf(hdr, fdata) /\ CachedLog' = LogOf(hdr, data)
    BY <2>1, <2>2, NoHdrIsNone DEF PersistedLog, CachedLog, LogOf
  <2> QED BY <2>1, <2>2, <2>3, LogAgrees DEF Saved, Synced
<1> QED BY <1>1, Saving, PTL DEF Spec, HeaderStoreHeals

---------------------------- (* reading the log *) ---------------------------

\* What the function in WalkId satisfies.
IsWalk(f, n) ==
  f = [k \in 0 .. n |-> IF k = 0 THEN First
                        ELSE IF f[k - 1] = Last THEN Last
                        ELSE NextId(f[k - 1])]

\* There is one such function at most, by its least difference from another.
LEMMA WalkUnique ==
  ASSUME NEW n \in Nat, NEW f, IsWalk(f, n), NEW g, IsWalk(g, n)
  PROVE  f[n] = g[n]
<1> DEFINE S == {k \in 0 .. n : f[k] # g[k]}
<1>1. SUFFICES ASSUME S # {} PROVE FALSE
  BY <1>1
<1>2. S \subseteq Nat
  OBVIOUS
<1>3. PICK k \in S : \A m \in S : k <= m
  BY <1>1, <1>2, LeastNat
<1>4. k \in 0 .. n /\ f[k] # g[k]
  BY <1>3
<1>5. \A j \in 0 .. n : j < k => f[j] = g[j]
  BY <1>3
<1> HIDE DEF S
<1>6. \A j \in 0 .. n : f[j] = IF j = 0 THEN First
                               ELSE IF f[j - 1] = Last THEN Last ELSE NextId(f[j - 1])
  BY DEF IsWalk
<1>7. \A j \in 0 .. n : g[j] = IF j = 0 THEN First
                               ELSE IF g[j - 1] = Last THEN Last ELSE NextId(g[j - 1])
  BY DEF IsWalk
<1>8. k # 0
  BY <1>4, <1>6, <1>7
<1>9. f[k - 1] = g[k - 1]
  BY <1>4, <1>5, <1>8
<1> QED BY <1>4, <1>6, <1>7, <1>8, <1>9

\* So the index after n answers is what any such function says.
LEMMA WalkIs ==
  ASSUME NEW n \in Nat, NEW g, IsWalk(g, n)
  PROVE  WalkId(n) = g[n]
<1> DEFINE f == CHOOSE f : IsWalk(f, n)
<1>1. WalkId(n) = f[n]
  BY DEF WalkId, IsWalk
<1>2. IsWalk(f, n)
  OBVIOUS
<1> HIDE DEF f
<1> QED BY <1>1, <1>2, WalkUnique

\* The first two answers, whatever the header.
LEMMA WalkStarts ==
  WalkId(0) = First /\ WalkId(1) = NextId(First)
<1>1. WalkId(0) = First
  <2> DEFINE g == [k \in 0 .. 0 |-> First]
  <2>1. IsWalk(g, 0)
    BY DEF IsWalk
  <2>2. g[0] = First
    OBVIOUS
  <2> HIDE DEF g
  <2> QED BY <2>1, <2>2, WalkIs
<1>2. WalkId(1) = NextId(First)
  <2> DEFINE g == [k \in 0 .. 1 |-> IF k = 0 THEN First ELSE NextId(First)]
  <2>1. g[0] = First /\ g[1] = NextId(First) /\ First # Last
    BY DEF First, Last, ElemsMax
  <2>2. IsWalk(g, 1)
    <3>1. \A k \in 0 .. 1 : k = 0 \/ k = 1
      OBVIOUS
    <3>2. \A k \in 0 .. 1 : (IF k = 0 THEN First ELSE NextId(First))
                             = IF k = 0 THEN First ELSE IF g[k - 1] = Last THEN Last
                               ELSE NextId(g[k - 1])
      BY <2>1, <3>1
    <3> QED BY <3>2 DEF IsWalk
  <2> HIDE DEF g
  <2> QED BY <2>1, <2>2, WalkIs
<1> QED BY <1>1, <1>2

\* From the first slot on, the ids count up to the end.
LEMMA WalkCounts ==
  ASSUME hdr \in Headers, hdr.begin = 0, NEW n \in 0 .. Num(hdr), Num(hdr) > 0
  PROVE  WalkId(n) = IF n < Num(hdr) THEN n ELSE Last
<1> DEFINE g == [k \in 0 .. n |-> IF k < hdr.end THEN k ELSE Last]
<1>1. /\ Num(hdr) = hdr.end /\ hdr.end \in 1 .. RecordsMax /\ n \in Nat /\ n <= hdr.end
  BY DEF Num, Headers, Indexes, IndexMax
<1>2. \A k \in Nat : k < hdr.end => k # Last /\ NextId(k) = IF k + 1 < hdr.end THEN k + 1 ELSE Last
  BY <1>1 DEF NextId, Last, ElemsMax, IndexMax
<1>3. ASSUME NEW k \in 0 .. n
      PROVE  g[k] = IF k = 0 THEN First
                    ELSE IF g[k - 1] = Last THEN Last ELSE NextId(g[k - 1])
  <2>1. CASE k = 0
    BY <1>1, <2>1 DEF First
  <2>2. CASE k # 0
    <3>1. k - 1 \in 0 .. n /\ k - 1 \in Nat /\ k - 1 < hdr.end /\ (k - 1) + 1 = k
      BY <1>1, <2>2
    <3>2. g[k - 1] = k - 1
      BY <3>1
    <3>3. g[k] = IF k < hdr.end THEN k ELSE Last
      OBVIOUS
    <3> HIDE DEF g
    <3>4. k - 1 # Last /\ NextId(k - 1) = IF k < hdr.end THEN k ELSE Last
      BY <1>2, <3>1
    <3> QED BY <2>2, <3>2, <3>3, <3>4
  <2> QED BY <2>1, <2>2
<1>4. IsWalk(g, n)
  BY <1>3 DEF IsWalk
<1>5. g[n] = IF n < hdr.end THEN n ELSE Last
  BY <1>1
<1> HIDE DEF g
<1> QED BY <1>1, <1>4, <1>5, WalkIs

LEMMA WalkFromFirstSlot ==
  ASSUME hdr \in Headers, Num(hdr) > 0, hdr.begin = 0
  PROVE  WalkCovers
<1>1. Num(hdr) = hdr.end /\ hdr.end \in 1 .. RecordsMax
  BY DEF Num, Headers, Indexes, IndexMax
<1>2. WalkId(Num(hdr)) = Last
  BY <1>1, WalkCounts
<1>3. ASSUME NEW n \in 1 .. Num(hdr)
      PROVE  /\ WalkId(n - 1) # Last /\ Readable(WalkId(n - 1))
             /\ IndexOf(WalkId(n - 1)) = Slot(hdr, n)
  <2>1. n - 1 \in 0 .. Num(hdr) /\ n - 1 < Num(hdr)
    BY <1>1
  <2>2. WalkId(n - 1) = n - 1
    BY <2>1, WalkCounts
  <2>3. n - 1 # Last /\ IndexOf(n - 1) = n - 1
    BY <1>1 DEF IndexOf, First, Last, ElemsMax
  <2>4. Slot(hdr, n) = n - 1
    BY <1>1 DEF Slot, IndexMax
  <2>5. Readable(n - 1)
    BY <1>1, <2>1, <2>3 DEF Readable, Indexes, IndexMax
  <2> QED BY <2>2, <2>3, <2>4, <2>5
<1> QED BY <1>2, <1>3 DEF WalkCovers

\* From another slot on, the second answer is not the second entry.
LEMMA WalkElsewhere ==
  ASSUME hdr \in Headers, Num(hdr) > 0, hdr.begin # 0
  PROVE  ~ WalkCovers
<1>1. NextId(First) = IF hdr.end = 1 THEN Last ELSE 1
  BY DEF NextId, First, IndexMax
<1>2. Num(hdr) \in Nat \ {0} /\ hdr.begin \in 1 .. RecordsMax /\ hdr.end \in 0 .. RecordsMax
  BY NumBound DEF Headers, Indexes, IndexMax
<1>3. CASE Num(hdr) = 1
  <2>1. hdr.end # 1
    BY <1>2, <1>3 DEF Num, IndexMax
  <2>2. WalkId(1) # Last
    BY <1>1, <2>1, WalkStarts DEF Last, ElemsMax
  <2> QED BY <1>3, <2>2 DEF WalkCovers
<1>4. CASE Num(hdr) >= 2
  <2>1. SUFFICES ASSUME WalkId(1) # Last PROVE IndexOf(WalkId(1)) # Slot(hdr, 2)
    <3>1. 2 \in 1 .. Num(hdr) /\ 2 - 1 = 1
      BY <1>2, <1>4
    <3> QED BY <2>1, <3>1 DEF WalkCovers
  <2>2. WalkId(1) = 1
    BY <1>1, <2>1, WalkStarts
  <2>3. IndexOf(1) = 1
    BY DEF IndexOf, First, Last, ElemsMax
  <2>4. Slot(hdr, 2) # 1
    BY <1>2 DEF Slot, IndexMax, ElemsMax
  <2> QED BY <2>2, <2>3, <2>4
<1> QED BY <1>2, <1>3, <1>4

\* Whoever calls and whatever fails: a reader who starts at SEL_RECID_FIRST
\* and follows the next record ids of sel_get_entry gets the log, in order and
\* to its end, exactly when its oldest entry is in the first slot.
THEOREM Walking == Spec => []WalksOnlyFromFirstSlot
<1>1. TypeOK => WalksOnlyFromFirstSlot
  BY WalkFromFirstSlot, WalkElsewhere DEF TypeOK, WalksOnlyFromFirstSlot
<1> QED BY <1>1, Typing, PTL
=============================================================================
