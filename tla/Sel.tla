-------------------------------- MODULE Sel --------------------------------
(***************************************************************************)
(* The system event log of one node (ipmid: sel.c, and the handlers of     *)
(* ipmid.c that call it).  The log is a ring of RecordsMax + 1 slots held  *)
(* twice: in the cache g_sel_hdr/g_sel_data and in the file sel<n>.bin.    *)
(* sel_add_entry writes the new entry in the slot no live entry uses, then *)
(* moves the header over it, so that a death of the daemon between the two *)
(* stores costs nothing.                                                   *)
(*                                                                         *)
(* The handlers of the storage commands run under m_storage, those of the  *)
(* sensor commands (which add entries too) under m_sensor: two handlers,   *)
(* "storage" and "sensor", can be inside sel.c at a time.  One action per  *)
(* statement that reads or writes the shared ring or the file.             *)
(*                                                                         *)
(* Reading the log (sel_get_entry, sel_num_entries) changes nothing: it is *)
(* the operators Num, LogOf, IndexOf, Readable and NextId.  Time stamps,   *)
(* magic and version (which nobody reads back) are left out.               *)
(***************************************************************************)
EXTENDS Naturals, Sequences

CONSTANTS
  RecordsMax,   \* SEL_RECORDS_MAX
  RsvIdMax,     \* SEL_RSVID_MAX
  Entries,      \* what a sel_msg_t may hold
  Blank,        \* a record of zeros
  Junk,         \* a record of bytes left on the stack
  Handlers,     \* who calls: "storage", and "sensor" if platform events arrive
  FailingOps    \* what may fail: "fetch", "skip" (of an earlier node's log),
                \* "store" (reported), "close" (of a store, unreported)

ASSUME SelAssumption ==
  /\ RecordsMax \in Nat \ {0}
  /\ RsvIdMax \in Nat \ {0}
  /\ Blank \notin Entries /\ Junk \notin Entries /\ Blank # Junk
  /\ "storage" \in Handlers
  /\ FailingOps \subseteq {"fetch", "skip", "store", "close"}

IndexMax == RecordsMax                  \* SEL_INDEX_MAX
ElemsMax == RecordsMax + 1              \* SEL_ELEMS_MAX
Indexes == 0 .. IndexMax
Contents == Entries \cup {Blank, Junk}
Headers == [begin : Indexes, end : Indexes]
ZeroHdr == [begin |-> 0, end |-> 0]
NoHdr == [begin |-> ElemsMax, end |-> ElemsMax]    \* the file holds no header

VARIABLES
  mode,    \* "down", "create" (log file empty), "fill" (records to write) or "run"
  hdr,     \* g_sel_hdr: begin and end
  data,    \* g_sel_data
  rsv,     \* g_rsv_id
  exists,  \* the log file exists
  fhdr,    \* the header in the file
  fdata,   \* the records in the file
  flen,    \* how many records the file reaches
  fill,    \* i, the counter of the loop that fills a new file
  pc,      \* where in sel_add_entry or sel_erase a handler is
  msg,     \* the entry a handler adds
  rec,     \* *rec_id of its sel_add_entry
  faults   \* what has failed so far

cache == <<hdr, data, rsv>>
file == <<exists, fhdr, fdata, flen>>
locals == <<fill, pc, msg, rec>>
vars == <<mode, cache, file, locals, faults>>

------------------------------ (* the ring *) ------------------------------

\* sel_num_entries.
Num(h) ==
  IF h.begin <= h.end THEN h.end - h.begin
  ELSE h.end + (IndexMax - h.begin + 1)

\* if (++i > SEL_INDEX_MAX) i = SEL_INDEX_MIN.
NextIndex(i) == IF i + 1 > IndexMax THEN 0 ELSE i + 1

\* The slot of the i-th oldest entry, and the entries from there on.
Slot(h, i) ==
  LET s == h.begin + i - 1
  IN  IF s > IndexMax THEN s - ElemsMax ELSE s
LogOf(h, d) == [i \in 1 .. Num(h) |-> d[Slot(h, i)]]

\* sel_add_entry moves begin when the log is full, and then end.  Mutant: the
\* log never rolls over.
RolledNever(h) == h
Rolled(h) == IF Num(h) = RecordsMax THEN [h EXCEPT !.begin = NextIndex(@)] ELSE h
Advanced(h) == [h EXCEPT !.end = NextIndex(@)]

CachedLog == LogOf(hdr, data)
PersistedLog == IF fhdr = NoHdr THEN << >> ELSE LogOf(fhdr, fdata)

First == 0               \* SEL_RECID_FIRST
Last == ElemsMax + 1     \* SEL_RECID_LAST: no index, like 0xFFFF

\* The index sel_get_entry reads for a record id.
IndexOf(id) ==
  CASE id = First -> hdr.begin
    [] id = Last -> (IF hdr.end # 0 THEN hdr.end - 1 ELSE IndexMax)
    [] OTHER -> id

\* The checks sel_get_entry makes before it answers.
Readable(id) ==
  /\ Num(hdr) # 0
  /\ IndexOf(id) \in Indexes
  /\ hdr.begin < hdr.end => IndexOf(id) >= hdr.begin /\ IndexOf(id) < hdr.end
  /\ hdr.begin > hdr.end => ~ (IndexOf(id) >= hdr.end /\ IndexOf(id) < hdr.begin)

\* The next record id it answers with.  Mutant: the end is not told.
NextIdNoLast(id) == IF id + 1 > IndexMax THEN 0 ELSE id + 1
NextId(id) ==
  LET next == IF id + 1 > IndexMax THEN 0 ELSE id + 1
  IN  IF next = hdr.end THEN Last ELSE next

--------------------------- (* the initial state *) ------------------------

Init ==
  /\ mode = "down"
  /\ hdr = ZeroHdr
  /\ data = [i \in Indexes |-> Blank]
  /\ rsv = 0
  /\ exists = FALSE
  /\ fhdr = NoHdr
  /\ fdata = [i \in Indexes |-> Blank]
  /\ flen = 0
  /\ fill = 1
  /\ pc = [h \in Handlers |-> "idle"]
  /\ msg = [h \in Handlers |-> Blank]
  /\ rec = [h \in Handlers |-> 0]
  /\ faults = {}

------------------------- (* stores to the file *) -------------------------

Fault(op) == op \in FailingOps /\ faults' = faults \cup {op}
NoFault == UNCHANGED faults

\* fclose wrote nothing, and nobody looks at what it returns.
LostAtClose == Fault("close") /\ UNCHANGED file

\* file_store_sel_hdr returns 0.
HdrStored ==
  /\ exists
  /\ \/ fhdr' = hdr /\ UNCHANGED <<exists, fdata, flen>> /\ NoFault
     \/ LostAtClose

\* file_store_sel_data(id, m) returns 0: record ids start at 1, records at 0.
\* A file that is too short gets zeros up to the record, header included.
\* Mutant: the record id is the index.
DataStoredUnshifted(id, m) ==
  /\ exists
  /\ fdata' = [fdata EXCEPT ![id % ElemsMax] = m]
  /\ fhdr' = IF fhdr = NoHdr THEN ZeroHdr ELSE fhdr
  /\ flen' = IF flen < id THEN id ELSE flen
  /\ UNCHANGED exists /\ NoFault
DataStored(id, m) ==
  /\ exists
  /\ \/ /\ fdata' = [fdata EXCEPT ![id - 1] = m]
        /\ fhdr' = IF fhdr = NoHdr THEN ZeroHdr ELSE fhdr
        /\ flen' = IF flen < id THEN id ELSE flen
        /\ UNCHANGED exists /\ NoFault
     \/ LostAtClose

\* Either returns -1: fopen fails, always so when there is no file.
StoreFails ==
  /\ Fault("store") \/ (~exists /\ NoFault)
  /\ UNCHANGED file

---------------------------- (* sel_node_init *) ---------------------------

\* The file is there: the header and the records are fetched.  Records the
\* file does not reach are whatever the stack held.
Load ==
  /\ mode = "down" /\ exists
  /\ fhdr # NoHdr /\ flen > 0
  /\ hdr' = fhdr
  /\ data' = [i \in Indexes |-> IF i < flen THEN fdata[i] ELSE Junk]
  /\ mode' = "run"
  /\ UNCHANGED <<rsv, file, locals, faults>>

\* The header is fetched but the records are not, or not even the header:
\* sel_node_init returns -1, main ignores it.
LoadFails ==
  /\ mode = "down" /\ exists
  /\ \/ fhdr # NoHdr /\ hdr' = fhdr /\ ((flen = 0 /\ NoFault) \/ Fault("fetch"))
     \/ UNCHANGED hdr /\ ((fhdr = NoHdr /\ NoFault) \/ Fault("fetch"))
  /\ mode' = "run"
  /\ UNCHANGED <<data, rsv, file, locals>>

\* sel_init stops at the first node that fails: this node, a later one, is
\* served with its cache as the process starts with it.
Skipped ==
  /\ mode = "down"
  /\ Fault("skip")
  /\ mode' = "run"
  /\ UNCHANGED <<cache, file, locals>>

Create ==
  /\ mode = "down" /\ ~exists
  /\ \/ exists' = TRUE /\ mode' = "create" /\ NoFault
     \/ UNCHANGED exists /\ mode' = "run" /\ Fault("store")
  /\ UNCHANGED <<cache, fhdr, fdata, flen, locals>>

CreateHdr ==
  /\ mode = "create"
  /\ hdr' = ZeroHdr
  /\ \/ HdrStored /\ mode' = "fill"
     \/ StoreFails /\ mode' = "run"
  /\ UNCHANGED <<data, rsv, locals>>

\* The loop over the records 1 .. SEL_RECORDS_MAX.
FillRecord ==
  /\ mode = "fill" /\ fill <= RecordsMax
  /\ \/ DataStored(fill, Blank) /\ fill' = fill + 1 /\ UNCHANGED mode
     \/ StoreFails /\ mode' = "run" /\ UNCHANGED fill
  /\ UNCHANGED <<cache, pc, msg, rec>>

Filled ==
  /\ mode = "fill" /\ fill > RecordsMax
  /\ rsv' = 1
  /\ mode' = "run"
  /\ UNCHANGED <<hdr, data, file, locals, faults>>

----------------------------- (* sel_rsv_id *) -----------------------------

Reserve ==
  /\ mode = "run" /\ pc["storage"] = "idle"
  /\ rsv' = IF rsv = RsvIdMax THEN 1 ELSE rsv + 1
  /\ UNCHANGED <<mode, hdr, data, file, locals, faults>>

---------------------------- (* sel_add_entry *) ---------------------------

\* The oldest entry of a full log goes.
AddStart(h, e) ==
  /\ mode = "run" /\ pc[h] = "idle"
  /\ hdr' = Rolled(hdr)
  /\ msg' = [msg EXCEPT ![h] = e]
  /\ pc' = [pc EXCEPT ![h] = "cache"]
  /\ UNCHANGED <<mode, data, rsv, file, fill, rec, faults>>

\* memcpy to the cache, and the record id.
CacheEntry(h) ==
  /\ mode = "run" /\ pc[h] = "cache"
  /\ data' = [data EXCEPT ![hdr.end] = msg[h]]
  /\ rec' = [rec EXCEPT ![h] = hdr.end + 1]
  /\ pc' = [pc EXCEPT ![h] = "data"]
  /\ UNCHANGED <<mode, hdr, rsv, file, fill, msg, faults>>

\* The record is stored, or the command fails.  Mutant: it goes on regardless.
StoreEntryIgnored(h) ==
  /\ mode = "run" /\ pc[h] = "data"
  /\ DataStored(rec[h], msg[h]) \/ StoreFails
  /\ pc' = [pc EXCEPT ![h] = "end"]
  /\ UNCHANGED <<mode, cache, fill, msg, rec>>
StoreEntry(h) ==
  /\ mode = "run" /\ pc[h] = "data"
  /\ \/ DataStored(rec[h], msg[h]) /\ pc' = [pc EXCEPT ![h] = "end"]
     \/ StoreFails /\ pc' = [pc EXCEPT ![h] = "idle"]
  /\ UNCHANGED <<mode, cache, fill, msg, rec>>

AdvanceEnd(h) ==
  /\ mode = "run" /\ pc[h] = "end"
  /\ hdr' = Advanced(hdr)
  /\ pc' = [pc EXCEPT ![h] = "hdr"]
  /\ UNCHANGED <<mode, data, rsv, file, fill, msg, rec, faults>>

\* The header's store, which ends sel_add_entry and sel_erase, and says
\* whether the command succeeded.
StoreHdr(h) ==
  /\ mode = "run" /\ pc[h] = "hdr"
  /\ HdrStored
  /\ pc' = [pc EXCEPT ![h] = "idle"]
  /\ UNCHANGED <<mode, cache, fill, msg, rec>>

StoreHdrFails(h) ==
  /\ mode = "run" /\ pc[h] = "hdr"
  /\ StoreFails
  /\ pc' = [pc EXCEPT ![h] = "idle"]
  /\ UNCHANGED <<mode, cache, fill, msg, rec>>

------------------------------ (* sel_erase *) -----------------------------

\* The log is erased for a request that names the reservation id.  Mutant: in
\* the cache alone.
EraseCacheOnly(id) ==
  /\ mode = "run" /\ pc["storage"] = "idle"
  /\ id = rsv
  /\ hdr' = ZeroHdr
  /\ UNCHANGED <<mode, data, rsv, file, locals, faults>>
Erase(id) ==
  /\ mode = "run" /\ pc["storage"] = "idle"
  /\ id = rsv
  /\ hdr' = ZeroHdr
  /\ pc' = [pc EXCEPT !["storage"] = "hdr"]
  /\ UNCHANGED <<mode, data, rsv, file, fill, msg, rec, faults>>

----------------------------- (* the process *) ----------------------------

\* ipmid dies, at any step.  The file keeps what was closed.
Die ==
  /\ mode # "down"
  /\ mode' = "down"
  /\ hdr' = ZeroHdr
  /\ data' = [i \in Indexes |-> Blank]
  /\ rsv' = 0
  /\ fill' = 1
  /\ pc' = [h \in Handlers |-> "idle"]
  /\ msg' = [h \in Handlers |-> Blank]
  /\ rec' = [h \in Handlers |-> 0]
  /\ UNCHANGED <<file, faults>>

Start == Load \/ LoadFails \/ Skipped \/ Create \/ CreateHdr \/ FillRecord \/ Filled

Handle(h) ==
  \/ \E e \in Entries : AddStart(h, e)
  \/ CacheEntry(h) \/ StoreEntry(h) \/ AdvanceEnd(h)
  \/ StoreHdr(h) \/ StoreHdrFails(h)

Next ==
  \/ Start
  \/ \E h \in Handlers : Handle(h)
  \/ Reserve
  \/ \E id \in 0 .. RsvIdMax : Erase(id)
  \/ Die

Spec == Init /\ [][Next]_vars

------------------------------ (* properties *) ----------------------------

\* Every variable keeps its type: indexes stay inside the ring, and a record
\* id names a record of the file.
TypeOK ==
  /\ mode \in {"down", "create", "fill", "run"}
  /\ hdr \in Headers
  /\ data \in [Indexes -> Contents]
  /\ rsv \in 0 .. RsvIdMax
  /\ exists \in BOOLEAN
  /\ fhdr \in Headers \cup {NoHdr}
  /\ fdata \in [Indexes -> Contents]
  /\ flen \in 0 .. ElemsMax
  /\ fill \in 1 .. RecordsMax + 1
  /\ pc \in [Handlers -> {"idle", "cache", "data", "end", "hdr"}]
  /\ msg \in [Handlers -> Entries \cup {Blank}]
  /\ rec \in [Handlers -> 0 .. ElemsMax]
  /\ faults \subseteq FailingOps

\* What is saved changes only by one whole entry or by an erasure, whenever
\* the daemon dies: a death between the stores of sel_add_entry, rollover
\* included, leaves the old log, not one without its oldest entry or with a
\* slot half replaced.
PersistsAtomically ==
  [][PersistedLog' # PersistedLog =>
       \/ PersistedLog' = << >>
       \/ \E e \in Entries :
            PersistedLog' = IF Num(fhdr) = RecordsMax
                            THEN Append(Tail(PersistedLog), e)
                            ELSE Append(PersistedLog, e)]_vars

\* Between commands the cache says what the file says, so that a restart
\* changes nothing a client can read.
CacheMatchesFile ==
  mode = "run" /\ pc["storage"] = "idle" => CachedLog = PersistedLog

\* The log served, and the log saved, behave as a bounded log that survives
\* restarts (SelLog).
Abstract ==
  INSTANCE SelLog WITH up <- mode = "run", log <- CachedLog, saved <- PersistedLog
BoundedLog == Abstract!LogSpec

\* However stores fail, the log served loses nothing but its oldest entry
\* when it is full, gains nothing but one whole entry when it is not, and is
\* emptied by an erasure or a death alone.
CacheIsQueue ==
  [][mode = "run" /\ CachedLog' # CachedLog =>
       \/ Die \/ \E id \in 0 .. RsvIdMax : Erase(id)
       \/ Num(hdr) = RecordsMax /\ CachedLog' = Tail(CachedLog)
       \/ /\ Num(hdr) < RecordsMax
          /\ \E e \in Entries : CachedLog' = Append(CachedLog, e)]_vars

\* As long as what was fetched was fetched whole and failures are reported, a
\* command that stores its header saves all that earlier commands, the failed
\* ones included, left in the cache.
HeaderStoreHeals ==
  [][faults \subseteq {"skip", "store"} =>
       \A h \in Handlers : StoreHdr(h) /\ faults' = faults
                            => PersistedLog' = CachedLog']_vars

\* The index a reader is at after n answers of sel_get_entry, the first one to
\* SEL_RECID_FIRST, each later one to the next id of the one before; Last
\* once there is no next.
WalkId(n) ==
  LET id[k \in 0 .. n] == IF k = 0 THEN First
                          ELSE IF id[k - 1] = Last THEN Last
                          ELSE NextId(id[k - 1])
  IN  id[n]

\* Reading from SEL_RECID_FIRST on, one gets the log, in order, to its end.
WalkCovers ==
  /\ \A n \in 1 .. Num(hdr) :
       /\ WalkId(n - 1) # Last /\ Readable(WalkId(n - 1))
       /\ IndexOf(WalkId(n - 1)) = Slot(hdr, n)
  /\ WalkId(Num(hdr)) = Last

\* Readers who follow the next ids get every entry once, in order, when the
\* oldest one is in the first slot, and never otherwise: NextId takes First
\* for that slot's own id.
WalksOnlyFromFirstSlot == Num(hdr) > 0 => (WalkCovers <=> hdr.begin = 0)

\* --- what the comments say and the code does not do ---

\* An added entry never makes the log an empty one.
AddingNeverEmpties ==
  [][\A h \in Handlers : AdvanceEnd(h) => Num(hdr') > 0]_vars
=============================================================================
