---------------------------- MODULE IpmbdProofs ----------------------------
(***************************************************************************)
(* Theorems about the requester side of ipmbd, for any number of handlers, *)
(* sequence numbers, transmissions and queue entries.                      *)
(***************************************************************************)
EXTENDS Ipmbd, FiniteSetTheorems, TLAPS

(* What the four operators on a slot of g_seq write, field by field.       *)
LEMMA TakenFields ==
  ASSUME NEW s \in Slots, NEW h \in Handlers
  PROVE  /\ Taken(s, h) \in Slots
         /\ Taken(s, h).in_use = TRUE /\ Taken(s, h).p_buf = h
         /\ Taken(s, h).len = 0 /\ Taken(s, h).sem = s.sem
  BY DEF Slots, Taken

LEMMA ReleasedFields ==
  ASSUME NEW s \in Slots
  PROVE  /\ Released(s) \in Slots
         /\ Released(s).in_use = FALSE /\ Released(s).p_buf = NoHandler
  BY DEF Slots, Released

LEMMA PostedFields ==
  ASSUME NEW s \in Slots
  PROVE  /\ Posted(s) \in Slots
         /\ Posted(s).in_use = s.in_use /\ Posted(s).p_buf = s.p_buf
         /\ Posted(s).len = 1 /\ Posted(s).sem > 0
<1>1. s.sem + 1 \in Nat /\ s.sem + 1 > 0
  BY DEF Slots
<1> QED
  BY <1>1 DEF Slots, Posted

LEMMA ConsumedFields ==
  ASSUME NEW s \in Slots, s.sem > 0
  PROVE  /\ Consumed(s) \in Slots
         /\ Consumed(s).in_use = s.in_use /\ Consumed(s).p_buf = s.p_buf
         /\ Consumed(s).len = s.len
<1>1. s.sem - 1 \in Nat
  BY DEF Slots
<1> QED
  BY <1>1 DEF Slots, Consumed

-----------------------------------------------------------------------------
(* Every variable keeps its type, in every behaviour of the daemon.        *)
LEMMA InitTypeOK == Init => TypeOK
  BY SeqMaxAssumption, RetriesAssumption
     DEF Init, TypeOK, PcValues, Seqs, FreeSlot, Slots

LEMMA NextTypeOK == TypeOK /\ [Next]_vars => TypeOK'
<1> SUFFICES ASSUME TypeOK, [Next]_vars PROVE TypeOK'
  OBVIOUS
<1> USE SeqMaxAssumption, RetriesAssumption, BoundsAssumption
<1> USE DEF TypeOK, PcValues, Holding, Goto, localVars, tableVars, busVars, rxVars
<1>1. ASSUME NEW h \in Handlers, Accept(h) PROVE TypeOK'
  BY <1>1 DEF Accept
<1>2. ASSUME NEW h \in Handlers, RecvFail(h) PROVE TypeOK'
  BY <1>2 DEF RecvFail
<1>3. ASSUME NEW h \in Handlers, NEW u \in BOOLEAN, RecvReq(h, u) PROVE TypeOK'
  BY <1>3 DEF RecvReq
<1>4. ASSUME NEW h \in Handlers, SeqGetNew(h) PROVE TypeOK'
  <2>1. PICK i \in FreeSeqs :
          /\ index' = [index EXCEPT ![h] = i]
          /\ seq' = [seq EXCEPT ![i] = Taken(seq[i], h)]
          /\ curr_seq' = NextSeq(i)
    BY <1>4 DEF SeqGetNew
  <2>2. i \in Seqs
    BY DEF FreeSeqs
  <2>3. NextSeq(i) \in Seqs
    BY <2>2 DEF Seqs, NextSeq
  <2>4. Taken(seq[i], h) \in Slots
    BY <2>2, TakenFields
  <2> QED
    BY <1>4, <2>1, <2>2, <2>3, <2>4 DEF SeqGetNew
<1>5. ASSUME NEW h \in Handlers, SeqGetNone(h) PROVE TypeOK'
  BY <1>5 DEF SeqGetNone
<1>6. ASSUME NEW h \in Handlers, PalReject(h) PROVE TypeOK'
  BY <1>6 DEF PalReject
<1>7. ASSUME NEW h \in Handlers, I2cLock(h) PROVE TypeOK'
  BY <1>7 DEF I2cLock
<1>8. ASSUME NEW h \in Handlers PROVE Transmission(h) \in Msgs
  BY <1>8 DEF Transmission, Msgs
<1>9. ASSUME NEW h \in Handlers, I2cSent(h) PROVE TypeOK'
  BY <1>8, <1>9 DEF I2cSent
<1>10. ASSUME NEW h \in Handlers, NEW d \in BOOLEAN, I2cFail(h, d) PROVE TypeOK'
  <2>1. bridge' \in SUBSET Msgs
    BY <1>8, <1>10 DEF I2cFail
  <2>2. CASE tries[h] + 1 < I2cRetriesMax
    <3>1. tries[h] + 1 \in 0 .. I2cRetriesMax - 1
      BY <2>2
    <3>2. /\ tries' = [tries EXCEPT ![h] = tries[h] + 1]
          /\ UNCHANGED <<pc, m_i2c, index, req, res_buf, res_len, tableVars, rxVars, nreq>>
      BY <1>10, <2>2 DEF I2cFail
    <3>3. tries' \in [Handlers -> 0 .. I2cRetriesMax - 1]
      BY <3>1, <3>2
    <3> QED
      BY <2>1, <3>2, <3>3
  <2>3. CASE ~(tries[h] + 1 < I2cRetriesMax)
    BY <1>10, <2>1, <2>3 DEF I2cFail
  <2> QED
    BY <2>2, <2>3
<1>11. ASSUME NEW h \in Handlers, Wake(h) PROVE TypeOK'
  <2>1. Consumed(seq[index[h]]) \in Slots
    BY <1>11, ConsumedFields DEF Wake
  <2> QED
    BY <1>11, <2>1 DEF Wake
<1>12. ASSUME NEW h \in Handlers, Timeout(h) PROVE TypeOK'
  BY <1>12 DEF Timeout
<1>13. ASSUME NEW h \in Handlers, Release(h) PROVE TypeOK'
  <2>1. Released(seq[index[h]]) \in Slots
    BY ReleasedFields
  <2>2. seq[index[h]].len \in {0, 1}
    BY DEF Slots
  <2> QED
    BY <1>13, <2>1, <2>2 DEF Release
<1>14. ASSUME NEW h \in Handlers, Reply(h) PROVE TypeOK'
  BY <1>14 DEF Reply, Seqs
<1>15. ASSUME NEW m \in bridge, RxCorrupt(m) PROVE TypeOK'
  BY <1>15 DEF RxCorrupt
<1>16. ASSUME NEW m \in bridge, RxResponse(m) PROVE TypeOK'
  BY <1>16 DEF RxResponse
<1>17. ASSUME ResReceive PROVE TypeOK'
  BY <1>17 DEF ResReceive
<1>18. ASSUME SeqPut PROVE TypeOK'
  <2>1. res_msg \in Msgs /\ res_msg.seq \in Seqs
    BY <1>18 DEF SeqPut, Msgs
  <2>2. CASE Waited(res_msg.seq)
    <3>1. seq[res_msg.seq].p_buf \in Handlers
      BY <2>1, <2>2 DEF Waited, Slots
    <3>2. Posted(seq[res_msg.seq]) \in Slots
      BY <2>1, PostedFields
    <3> QED
      BY <1>18, <2>1, <2>2, <3>1, <3>2 DEF SeqPut
  <2>3. CASE ~Waited(res_msg.seq)
    BY <1>18, <2>3 DEF SeqPut
  <2> QED
    BY <2>2, <2>3
<1>19. CASE UNCHANGED vars
  BY <1>19 DEF vars
<1> QED
  BY <1>1, <1>2, <1>3, <1>4, <1>5, <1>6, <1>7, <1>9, <1>10, <1>11, <1>12,
     <1>13, <1>14, <1>15, <1>16, <1>17, <1>18, <1>19
     DEF Next, HandlerStep, ResStep

THEOREM Typing == Spec => []TypeOK
  BY InitTypeOK, NextTypeOK, PTL DEF Spec
-----------------------------------------------------------------------------
(* Ownership of the sequence numbers.                                      *)

(* A step that takes and gives up no number keeps the ownership.           *)
LEMMA OwnershipFrame ==
  ASSUME SlotOwnership,
         \A i \in Seqs : /\ seq'[i].in_use = seq[i].in_use
                         /\ seq'[i].p_buf = seq[i].p_buf,
         \A h \in Handlers : /\ pc'[h] \in Holding <=> pc[h] \in Holding
                             /\ pc[h] \in Holding => index'[h] = index[h],
         index \in [Handlers -> Seqs]
  PROVE  SlotOwnership'
<1>1. HolderOwnsSlot'
  BY DEF SlotOwnership, HolderOwnsSlot
<1>2. SlotHasHolder'
  BY DEF SlotOwnership, SlotHasHolder
<1> QED
  BY <1>1, <1>2 DEF SlotOwnership

LEMMA InitSlotOwnership == Init => SlotOwnership
  BY DEF Init, SlotOwnership, HolderOwnsSlot, SlotHasHolder, Holding, FreeSlot, Seqs

LEMMA NextSlotOwnership == TypeOK /\ SlotOwnership /\ [Next]_vars => SlotOwnership'
<1> SUFFICES ASSUME TypeOK, SlotOwnership, [Next]_vars PROVE SlotOwnership'
  OBVIOUS
<1> USE DEF Goto
<1>t. /\ pc \in [Handlers -> PcValues] /\ index \in [Handlers -> Seqs]
      /\ seq \in [Seqs -> Slots]
  BY DEF TypeOK
<1>1. ASSUME NEW h \in Handlers,
             Accept(h) \/ RecvFail(h) \/ (\E u \in BOOLEAN : RecvReq(h, u))
               \/ SeqGetNone(h) \/ PalReject(h) \/ I2cLock(h) \/ Timeout(h)
               \/ I2cSent(h) \/ (\E d \in BOOLEAN : I2cFail(h, d)) \/ Reply(h)
      PROVE SlotOwnership'
  <2>1. seq' = seq
    BY <1>1 DEF Accept, RecvFail, RecvReq, SeqGetNone, PalReject, I2cLock, Timeout,
                I2cSent, I2cFail, Reply, tableVars
  <2>2. \A g \in Handlers : pc'[g] \in Holding <=> pc[g] \in Holding
    BY <1>1, <1>t DEF Accept, RecvFail, RecvReq, SeqGetNone, PalReject, I2cLock,
                      Timeout, I2cSent, I2cFail, Reply, Holding
  <2>3. \A g \in Handlers : pc[g] \in Holding => index'[g] = index[g]
    BY <1>1, <1>t DEF Accept, RecvFail, RecvReq, SeqGetNone, PalReject, I2cLock,
                      Timeout, I2cSent, I2cFail, Reply, Holding, localVars
  <2> QED
    BY <1>t, <2>1, <2>2, <2>3, OwnershipFrame
<1>2. ASSUME NEW h \in Handlers, SeqGetNew(h) PROVE SlotOwnership'
  <2>1. PICK i \in FreeSeqs : /\ index' = [index EXCEPT ![h] = i]
                              /\ seq' = [seq EXCEPT ![i] = Taken(seq[i], h)]
    BY <1>2 DEF SeqGetNew
  <2>2. i \in Seqs /\ ~seq[i].in_use
    BY DEF FreeSeqs
  <2>3. pc[h] \notin Holding /\ pc' = [pc EXCEPT ![h] = "send"]
    BY <1>2 DEF SeqGetNew, Holding
  <2>4. seq'[i].in_use /\ seq'[i].p_buf = h
    BY <1>t, <2>1, <2>2, TakenFields
  <2>5. ASSUME NEW g \in Handlers, g # h, pc'[g] \in Holding
        PROVE  seq'[index'[g]].in_use /\ seq'[index'[g]].p_buf = g
    <3>1. pc[g] \in Holding /\ index'[g] = index[g]
      BY <1>t, <2>1, <2>3, <2>5
    <3>2. seq[index[g]].in_use /\ seq[index[g]].p_buf = g
      BY <3>1 DEF SlotOwnership, HolderOwnsSlot
    <3> QED
      BY <1>t, <2>1, <2>2, <3>1, <3>2
  <2>6. HolderOwnsSlot'
    BY <1>t, <2>1, <2>4, <2>5 DEF HolderOwnsSlot
  <2>7. ASSUME NEW j \in Seqs, j # i
        PROVE IF seq'[j].in_use
              THEN \E g \in Handlers : seq'[j].p_buf = g /\ pc'[g] \in Holding /\ index'[g] = j
              ELSE seq'[j].p_buf = NoHandler
    <3>1. seq'[j] = seq[j]
      BY <1>t, <2>1, <2>2, <2>7
    <3>2. CASE seq[j].in_use
      <4>1. PICK g \in Handlers : seq[j].p_buf = g /\ pc[g] \in Holding /\ index[g] = j
        BY <3>2 DEF SlotOwnership, SlotHasHolder
      <4>2. g # h
        BY <2>3, <4>1
      <4>3. pc'[g] = pc[g] /\ index'[g] = index[g]
        BY <1>t, <2>1, <2>3, <4>2
      <4> QED
        BY <3>1, <3>2, <4>1, <4>3
    <3>3. CASE ~seq[j].in_use
      BY <3>1, <3>3 DEF SlotOwnership, SlotHasHolder
    <3> QED
      BY <3>2, <3>3
  <2>8. pc'[h] \in Holding /\ index'[h] = i
    BY <1>t, <2>1, <2>2, <2>3 DEF Holding
  <2>9. SlotHasHolder'
    BY <2>4, <2>7, <2>8 DEF SlotHasHolder
  <2> QED
    BY <2>6, <2>9 DEF SlotOwnership
<1>3. ASSUME NEW h \in Handlers, Wake(h) PROVE SlotOwnership'
  <2>1. /\ seq' = [seq EXCEPT ![index[h]] = Consumed(seq[index[h]])]
        /\ seq[index[h]].sem > 0 /\ index' = index
        /\ pc[h] = "wait" /\ pc' = [pc EXCEPT ![h] = "woken"]
    BY <1>3 DEF Wake, localVars
  <2>2. \A i \in Seqs : seq'[i].in_use = seq[i].in_use /\ seq'[i].p_buf = seq[i].p_buf
    BY <1>t, <2>1, ConsumedFields
  <2>3. \A g \in Handlers : pc'[g] \in Holding <=> pc[g] \in Holding
    BY <1>t, <2>1 DEF Holding
  <2> QED
    BY <1>t, <2>1, <2>2, <2>3, OwnershipFrame
<1>4. ASSUME NEW h \in Handlers, Release(h) PROVE SlotOwnership'
  <2>1. /\ seq' = [seq EXCEPT ![index[h]] = Released(seq[index[h]])]
        /\ index' = index
        /\ pc[h] \in Holding /\ pc' = [pc EXCEPT ![h] = "reply"]
    BY <1>4 DEF Release, Holding
  <2>2. seq[index[h]].in_use /\ seq[index[h]].p_buf = h
    BY <2>1 DEF SlotOwnership, HolderOwnsSlot
  <2>3. ~seq'[index[h]].in_use /\ seq'[index[h]].p_buf = NoHandler
    BY <1>t, <2>1, ReleasedFields
  <2>4. ASSUME NEW g \in Handlers, pc'[g] \in Holding
        PROVE  seq'[index[g]].in_use /\ seq'[index[g]].p_buf = g
    <3>1. g # h /\ pc[g] \in Holding
      BY <1>t, <2>1, <2>4 DEF Holding
    <3>2. seq[index[g]].in_use /\ seq[index[g]].p_buf = g
      BY <3>1 DEF SlotOwnership, HolderOwnsSlot
    <3>3. index[g] # index[h]
      BY <2>2, <3>1, <3>2
    <3> QED
      BY <1>t, <2>1, <3>2, <3>3
  <2>5. ASSUME NEW j \in Seqs, j # index[h]
        PROVE IF seq'[j].in_use
              THEN \E g \in Handlers : seq'[j].p_buf = g /\ pc'[g] \in Holding /\ index[g] = j
              ELSE seq'[j].p_buf = NoHandler
    <3>1. seq'[j] = seq[j]
      BY <1>t, <2>1, <2>5
    <3>2. CASE seq[j].in_use
      <4>1. PICK g \in Handlers : seq[j].p_buf = g /\ pc[g] \in Holding /\ index[g] = j
        BY <3>2 DEF SlotOwnership, SlotHasHolder
      <4>2. g # h /\ pc'[g] = pc[g]
        BY <1>t, <2>1, <2>5, <4>1
      <4> QED
        BY <3>1, <3>2, <4>1, <4>2
    <3>3. CASE ~seq[j].in_use
      BY <3>1, <3>3 DEF SlotOwnership, SlotHasHolder
    <3> QED
      BY <3>2, <3>3
  <2>6. HolderOwnsSlot'
    BY <2>1, <2>4 DEF HolderOwnsSlot
  <2>7. SlotHasHolder'
    BY <2>1, <2>3, <2>5 DEF SlotHasHolder
  <2> QED
    BY <2>6, <2>7 DEF SlotOwnership
<1>5. CASE \/ \E m \in bridge : RxCorrupt(m) \/ RxResponse(m)
           \/ ResReceive \/ UNCHANGED vars
  <2>1. seq' = seq /\ pc' = pc /\ index' = index
    BY <1>5 DEF RxCorrupt, RxResponse, ResReceive, vars, tableVars, localVars
  <2> QED
    BY <1>t, <2>1, OwnershipFrame
<1>6. CASE SeqPut
  <2>1. pc' = pc /\ index' = index
    BY <1>6 DEF SeqPut
  <2>2. res_msg.seq \in Seqs
    BY <1>6 DEF SeqPut, TypeOK, Msgs
  <2>3. seq' = seq \/ seq' = [seq EXCEPT ![res_msg.seq] = Posted(seq[res_msg.seq])]
    BY <1>6 DEF SeqPut
  <2>4. \A i \in Seqs : seq'[i].in_use = seq[i].in_use /\ seq'[i].p_buf = seq[i].p_buf
    BY <1>t, <2>2, <2>3, PostedFields
  <2> QED
    BY <1>t, <2>1, <2>4, OwnershipFrame
<1> QED
  BY <1>1, <1>2, <1>3, <1>4, <1>5, <1>6 DEF Next, HandlerStep, ResStep

(* No two requests in flight share a sequence number, and none leaks.      *)
THEOREM Ownership == Spec => []SlotOwnership
<1>1. TypeOK /\ SlotOwnership /\ [Next]_vars => SlotOwnership'
  BY NextSlotOwnership
<1> QED
  BY <1>1, Typing, InitSlotOwnership, PTL DEF Spec

(* The handlers that run.                                                  *)
Busy == {h \in Handlers : pc[h] # "idle"}

(* A handler that looks for a number holds none: if no number were free,   *)
(* the others would hold more numbers than there are handlers that run.    *)
LEMMA OwnersAreFew ==
  ASSUME Cardinality(Busy) <= SeqMax, TypeOK, SlotOwnership
  PROVE  SeqNeverExhausted
<1> SUFFICES ASSUME NEW h \in Handlers, pc[h] = "alloc", FreeSeqs = {} PROVE FALSE
  BY DEF SeqNeverExhausted
<1> DEFINE Others == Busy \ {h}
<1> DEFINE owner == [i \in Seqs |-> seq[i].p_buf]
<1>1. /\ IsFiniteSet(Busy) /\ Cardinality(Busy) \in Nat
      /\ IsFiniteSet(Others) /\ Cardinality(Others) = Cardinality(Busy) - 1
  <2>1. Busy \subseteq Handlers /\ h \in Busy
    BY DEF Busy
  <2> QED
    BY <2>1, HandlersAssumption, FS_Subset, FS_RemoveElement, FS_CardinalityType
<1>2. IsFiniteSet(Seqs) /\ Cardinality(Seqs) = SeqMax
  BY SeqMaxAssumption, FS_Interval DEF Seqs
<1>3. Cardinality(Others) < Cardinality(Seqs)
  BY <1>1, <1>2, SeqMaxAssumption
<1>4. \A i \in Seqs : \E g \in Handlers :
        seq[i].p_buf = g /\ pc[g] \in Holding /\ index[g] = i
  BY DEF FreeSeqs, SlotOwnership, SlotHasHolder
<1>5. owner \in [Seqs -> Others]
  BY <1>4 DEF Holding, Busy
<1>6. PICK i, j \in Seqs : i # j /\ owner[i] = owner[j]
  <2> HIDE DEF Others, owner
  <2> QED
    BY <1>1, <1>2, <1>3, <1>5, FS_PigeonHole
<1> QED
  BY <1>4, <1>6

(* The search for a number never fails while at most SEQ_NUM_MAX handlers  *)
(* run, however many threads the service starts one after the other.       *)
THEOREM NeverExhaustedWhileFew == Spec => [](Cardinality(Busy) <= SeqMax => SeqNeverExhausted)
<1>1. TypeOK /\ SlotOwnership => (Cardinality(Busy) <= SeqMax => SeqNeverExhausted)
  BY OwnersAreFew
<1> QED
  BY <1>1, Typing, Ownership, PTL

(* The search for a number never fails while the service runs at most      *)
(* SEQ_NUM_MAX handlers, the limit it is started with.                     *)
THEOREM NeverExhausted ==
  ASSUME Cardinality(Handlers) <= SeqMax
  PROVE  Spec => []SeqNeverExhausted
<1>1. Cardinality(Busy) <= SeqMax
  <2>1. /\ Busy \subseteq Handlers /\ Cardinality(Busy) <= Cardinality(Handlers)
        /\ Cardinality(Busy) \in Nat /\ Cardinality(Handlers) \in Nat
    BY HandlersAssumption, FS_Subset, FS_CardinalityType DEF Busy
  <2> QED
    BY <2>1, SeqMaxAssumption
<1> QED
  BY <1>1, NeverExhaustedWhileFew, PTL

(* seq_put writes the buffer of a handler that holds a number, and no      *)
(* other step writes the buffer of a handler that stays where it is.       *)
THEOREM BufferStable == Spec => BufferStableAfterRelease
<1>1. TypeOK /\ SlotOwnership /\ [Next]_vars =>
        \A h \in Handlers :
          pc[h] \in {"reply", "idle"} /\ pc'[h] = pc[h] => res_buf'[h] = res_buf[h]
  <2> SUFFICES ASSUME TypeOK, SlotOwnership, [Next]_vars, NEW h \in Handlers,
                      pc[h] \in {"reply", "idle"}, pc'[h] = pc[h]
               PROVE  res_buf'[h] = res_buf[h]
    OBVIOUS
  <2>t. /\ pc \in [Handlers -> PcValues]
        /\ res_buf \in [Handlers -> Msgs \union {NoMsg}]
    BY DEF TypeOK
  <2>1. CASE res_buf' = res_buf
    BY <2>1
  <2>2. CASE \E g \in Handlers : Reply(g)
    BY <2>2, <2>t DEF Reply, Goto
  <2>3. CASE SeqPut
    <3>1. res_msg.seq \in Seqs
      BY <2>3 DEF SeqPut, TypeOK, Msgs
    <3>2. CASE Waited(res_msg.seq)
      <4>1. pc[seq[res_msg.seq].p_buf] \in Holding
        BY <3>1, <3>2 DEF Waited, SlotOwnership, SlotHasHolder
      <4>2. seq[res_msg.seq].p_buf # h
        BY <4>1 DEF Holding
      <4> QED
        BY <2>3, <2>t, <3>2, <4>2 DEF SeqPut
    <3>3. CASE ~Waited(res_msg.seq)
      BY <2>3, <3>3 DEF SeqPut
    <3> QED
      BY <3>2, <3>3
  <2> QED
    BY <2>1, <2>2, <2>3
       DEF Next, HandlerStep, ResStep, vars, localVars, Accept, RecvFail, RecvReq,
           SeqGetNew, SeqGetNone, PalReject, I2cLock, I2cSent, I2cFail, Wake,
           Timeout, Release, RxCorrupt, RxResponse, ResReceive
<1> QED
  BY <1>1, Typing, Ownership, PTL DEF Spec, BufferStableAfterRelease
-----------------------------------------------------------------------------
(* What a handler's buffer, its length and its semaphore say of each other *)
(* at each point of conn_handler: inductive, given the ownership.          *)
BufferMatches(h) ==
  /\ pc[h] \in {"idle", "recv", "alloc"} => res_buf[h] = NoMsg /\ res_len[h] = 0
  /\ pc[h] \in Holding => (seq[index[h]].len = 1 <=> res_buf[h] # NoMsg)
  /\ pc[h] = "reply" => (res_len[h] = 1 <=> res_buf[h] # NoMsg)
  /\ pc[h] \in {"send", "write", "wait"} /\ seq[index[h]].len # 0
       => seq[index[h]].sem > 0

BufferInv == \A h \in Handlers : BufferMatches(h)

LEMMA BufferFrame ==
  ASSUME NEW g \in Handlers, BufferMatches(g),
         pc'[g] = pc[g], index'[g] = index[g],
         res_buf'[g] = res_buf[g], res_len'[g] = res_len[g],
         pc[g] \in Holding => seq'[index[g]] = seq[index[g]]
  PROVE  BufferMatches(g)'
  BY DEF BufferMatches, Holding

LEMMA InitBufferInv == Init => BufferInv
  BY DEF Init, BufferInv, BufferMatches, Holding

LEMMA NextBufferInv ==
  TypeOK /\ SlotOwnership /\ BufferInv /\ [Next]_vars => BufferInv'
<1> SUFFICES ASSUME TypeOK, SlotOwnership, BufferInv, [Next]_vars,
                    NEW g \in Handlers
             PROVE  BufferMatches(g)'
  BY DEF BufferInv
<1> USE DEF Goto
<1>b. BufferMatches(g)
  BY DEF BufferInv
<1>t. /\ pc \in [Handlers -> PcValues] /\ index \in [Handlers -> Seqs]
      /\ seq \in [Seqs -> Slots] /\ res_len \in [Handlers -> {0, 1}]
      /\ res_buf \in [Handlers -> Msgs \union {NoMsg}]
  BY DEF TypeOK
<1>o. \A h \in Handlers : pc[h] \in Holding =>
        index[h] \in Seqs /\ seq[index[h]].in_use /\ seq[index[h]].p_buf = h
  BY <1>t DEF SlotOwnership, HolderOwnsSlot
<1>1. ASSUME NEW h \in Handlers,
             Accept(h) \/ RecvFail(h) \/ (\E u \in BOOLEAN : RecvReq(h, u))
               \/ PalReject(h) \/ I2cLock(h) \/ Timeout(h)
               \/ I2cSent(h) \/ (\E d \in BOOLEAN : I2cFail(h, d))
      PROVE BufferMatches(g)'
  <2>1. /\ index' = index /\ res_buf' = res_buf /\ res_len' = res_len /\ seq' = seq
    BY <1>1 DEF Accept, RecvFail, RecvReq, PalReject, I2cLock, Timeout, I2cSent,
                I2cFail, localVars, tableVars
  <2>2. CASE g # h
    <3>1. pc'[g] = pc[g]
      BY <1>1, <1>t, <2>2 DEF Accept, RecvFail, RecvReq, PalReject, I2cLock, Timeout,
                              I2cSent, I2cFail
    <3> QED
      BY <1>b, <2>1, <3>1, BufferFrame
  <2>3. CASE g = h
    <3>1. \/ pc[g] \in {"idle", "recv"} /\ pc'[g] \in {"idle", "recv", "alloc"}
          \/ /\ pc[g] \in {"send", "write", "wait"}
             /\ pc'[g] \in {"send", "write", "wait", "out"}
      BY <1>1, <1>t, <2>3 DEF Accept, RecvFail, RecvReq, PalReject, I2cLock, Timeout,
                              I2cSent, I2cFail
    <3> QED
      BY <1>b, <2>1, <3>1 DEF BufferMatches, Holding
  <2> QED
    BY <2>2, <2>3
<1>2. ASSUME NEW h \in Handlers, SeqGetNew(h) PROVE BufferMatches(g)'
  <2>1. PICK i \in FreeSeqs : /\ index' = [index EXCEPT ![h] = i]
                              /\ seq' = [seq EXCEPT ![i] = Taken(seq[i], h)]
    BY <1>2 DEF SeqGetNew
  <2>2. i \in Seqs /\ ~seq[i].in_use
    BY DEF FreeSeqs
  <2>3. /\ pc[h] = "alloc" /\ pc' = [pc EXCEPT ![h] = "send"]
        /\ res_buf' = res_buf /\ res_len' = res_len
    BY <1>2 DEF SeqGetNew
  <2>4. CASE g # h
    <3>1. pc[g] \in Holding => seq'[index[g]] = seq[index[g]]
      BY <1>o, <1>t, <2>1, <2>2
    <3> QED
      BY <1>b, <1>t, <2>1, <2>3, <2>4, <3>1, BufferFrame
  <2>5. CASE g = h
    <3>a. Taken(seq[i], h).len = 0
      BY <1>t, <2>2, TakenFields
    <3>b. seq'[i] = Taken(seq[i], h)
      BY <1>t, <2>1, <2>2
    <3>1. pc'[g] = "send" /\ index'[g] = i /\ seq'[i].len = 0
      BY <1>t, <2>1, <2>3, <2>5, <3>a, <3>b
    <3>2. res_buf'[g] = NoMsg
      BY <1>b, <2>3, <2>5 DEF BufferMatches
    <3> QED
      BY <3>1, <3>2 DEF BufferMatches, Holding
  <2> QED
    BY <2>4, <2>5
<1>3. ASSUME NEW h \in Handlers, SeqGetNone(h) PROVE BufferMatches(g)'
  <2>1. /\ pc[h] = "alloc" /\ pc' = [pc EXCEPT ![h] = "reply"]
        /\ index' = index /\ res_buf' = res_buf /\ seq' = seq
        /\ res_len' = [res_len EXCEPT ![h] = 0]
    BY <1>3 DEF SeqGetNone, tableVars
  <2>2. CASE g # h
    BY <1>b, <1>t, <2>1, <2>2, BufferFrame
  <2>3. CASE g = h
    BY <1>b, <1>t, <2>1, <2>3 DEF BufferMatches, Holding
  <2> QED
    BY <2>2, <2>3
<1>4. ASSUME NEW h \in Handlers, Wake(h) PROVE BufferMatches(g)'
  <2>1. /\ pc[h] = "wait" /\ pc' = [pc EXCEPT ![h] = "woken"]
        /\ index' = index /\ res_buf' = res_buf /\ res_len' = res_len
        /\ seq[index[h]].sem > 0
        /\ seq' = [seq EXCEPT ![index[h]] = Consumed(seq[index[h]])]
    BY <1>4 DEF Wake, localVars
  <2>h. pc[h] \in Holding
    BY <2>1 DEF Holding
  <2>2. CASE g # h
    <3>1. pc[g] \in Holding => seq'[index[g]] = seq[index[g]]
      <4>1. pc[g] \in Holding => index[g] # index[h]
        BY <1>o, <2>h, <2>2
      <4> QED
        BY <1>t, <2>1, <4>1
    <3> QED
      BY <1>b, <1>t, <2>1, <2>2, <3>1, BufferFrame
  <2>3. CASE g = h
    <3>1. seq'[index[g]].len = seq[index[g]].len
      BY <1>t, <2>1, <2>3, ConsumedFields
    <3>2. pc'[g] = "woken"
      BY <1>t, <2>1, <2>3
    <3> QED
      BY <1>b, <2>1, <2>h, <2>3, <3>1, <3>2 DEF BufferMatches, Holding
  <2> QED
    BY <2>2, <2>3
<1>5. ASSUME NEW h \in Handlers, Release(h) PROVE BufferMatches(g)'
  <2>1. /\ pc[h] \in Holding /\ pc' = [pc EXCEPT ![h] = "reply"]
        /\ index' = index /\ res_buf' = res_buf
        /\ res_len' = [res_len EXCEPT ![h] = seq[index[h]].len]
        /\ seq' = [seq EXCEPT ![index[h]] = Released(seq[index[h]])]
    BY <1>5 DEF Release, Holding
  <2>2. CASE g # h
    <3>1. pc[g] \in Holding => index[g] # index[h]
      BY <1>o, <2>1, <2>2
    <3>2. pc[g] \in Holding => seq'[index[g]] = seq[index[g]]
      BY <1>t, <2>1, <3>1
    <3> QED
      BY <1>b, <1>t, <2>1, <2>2, <3>2, BufferFrame
  <2>3. CASE g = h
    <3>1. pc'[g] = "reply" /\ res_len'[g] = seq[index[g]].len
      BY <1>t, <2>1, <2>3
    <3> QED
      BY <1>b, <2>1, <2>3, <3>1 DEF BufferMatches, Holding
  <2> QED
    BY <2>2, <2>3
<1>6. ASSUME NEW h \in Handlers, Reply(h) PROVE BufferMatches(g)'
  <2>1. CASE g # h
    BY <1>6, <1>b, <1>t, <2>1, BufferFrame DEF Reply, tableVars
  <2>2. CASE g = h
    BY <1>6, <1>t, <2>2 DEF Reply, BufferMatches, Holding
  <2> QED
    BY <2>1, <2>2
<1>7. CASE \/ \E m \in bridge : RxCorrupt(m) \/ RxResponse(m)
           \/ ResReceive \/ UNCHANGED vars
  <2>1. /\ seq' = seq /\ pc' = pc /\ index' = index /\ res_buf' = res_buf
        /\ res_len' = res_len
    BY <1>7 DEF RxCorrupt, RxResponse, ResReceive, vars, tableVars, localVars
  <2> QED
    BY <1>b, <2>1, BufferFrame
<1>8. CASE SeqPut
  <2> DEFINE i == res_msg.seq
  <2>1. pc' = pc /\ index' = index /\ res_len' = res_len
    BY <1>8 DEF SeqPut
  <2>2. i \in Seqs /\ res_msg # NoMsg
    BY <1>8 DEF SeqPut, TypeOK, Msgs
  <2>3. CASE ~Waited(i)
    <3>1. seq' = seq /\ res_buf' = res_buf
      BY <1>8, <2>3 DEF SeqPut
    <3> QED
      BY <1>b, <2>1, <3>1, BufferFrame
  <2>4. CASE Waited(i)
    <3>1. PICK h \in Handlers : seq[i].p_buf = h /\ pc[h] \in Holding /\ index[h] = i
      BY <2>2, <2>4 DEF Waited, SlotOwnership, SlotHasHolder
    <3>2. /\ res_buf' = [res_buf EXCEPT ![h] = res_msg]
          /\ seq' = [seq EXCEPT ![i] = Posted(seq[i])]
      BY <1>8, <2>4, <3>1 DEF SeqPut
    <3>3. CASE g # h
      <4>1. pc[g] \in Holding => index[g] # i
        BY <1>o, <3>1, <3>3
      <4>2. pc[g] \in Holding => seq'[index[g]] = seq[index[g]]
        BY <1>t, <3>2, <4>1
      <4> QED
        BY <1>b, <1>t, <2>1, <3>2, <3>3, <4>2, BufferFrame
    <3>4. CASE g = h
      <4>1. seq'[i].len = 1 /\ seq'[i].sem > 0
        BY <1>t, <2>2, <3>2, PostedFields
      <4>2. res_buf'[g] = res_msg /\ index'[g] = i /\ pc'[g] \in Holding
        BY <1>t, <2>1, <3>1, <3>2, <3>4
      <4> HIDE DEF i
      <4> QED
        BY <2>2, <4>1, <4>2 DEF BufferMatches, Holding
    <3> QED
      BY <3>3, <3>4
  <2> QED
    BY <2>3, <2>4
<1> QED
  BY <1>1, <1>2, <1>3, <1>4, <1>5, <1>6, <1>7, <1>8 DEF Next, HandlerStep, ResStep

THEOREM BufferInvariant == Spec => []BufferInv
<1>1. TypeOK /\ SlotOwnership /\ BufferInv /\ [Next]_vars => BufferInv'
  BY NextBufferInv
<1> QED
  BY <1>1, Typing, Ownership, InitBufferInv, PTL DEF Spec

(* A client is sent what arrived for its number, or nothing when nothing   *)
(* did: never an unwritten buffer, even when sem_timedwait timed out.      *)
THEOREM ReplyFaithful == Spec => []ReplyIsWhatArrived
<1>1. BufferInv => ReplyIsWhatArrived
  BY DEF BufferInv, BufferMatches, ReplyIsWhatArrived
<1> QED
  BY <1>1, BufferInvariant, PTL

(* A handler that waits with its response in the buffer will be woken.     *)
THEOREM WakeupsKept == Spec => []NoLostWakeup
<1>1. BufferInv => NoLostWakeup
  BY DEF BufferInv, BufferMatches, NoLostWakeup
<1> QED
  BY <1>1, BufferInvariant, PTL
-----------------------------------------------------------------------------
(* Where a wrong response can come from.                                   *)

(* The messages on their way from the bridge to seq_put.                   *)
InFlight ==
  bridge \union {mq_res[k] : k \in 1 .. Len(mq_res)} \union ({res_msg} \ {NoMsg})

(* A message of a request whose handler still waits carries its number.    *)
Traceable(m) ==
  /\ m.id \in 1 .. nreq
  /\ \A g \in Handlers : pc[g] \in Holding /\ req[g] = m.id => m.seq = index[g]

(* A message that may be in the buffer of h answers nobody else who waits. *)
NobodyElses(h, m) ==
  /\ m.id \in 1 .. nreq
  /\ \A g \in Handlers : g # h /\ pc[g] \in Holding => m.id # req[g]

IdentityInv ==
  /\ \A h \in Handlers : pc[h] \in Holding => req[h] \in 1 .. nreq
  /\ \A h, g \in Handlers :
       h # g /\ pc[h] \in Holding /\ pc[g] \in Holding => req[h] # req[g]
  /\ \A m \in InFlight : Traceable(m)
  /\ \A h \in Handlers : res_buf[h] # NoMsg => NobodyElses(h, res_buf[h])

LEMMA IdentityFrame ==
  ASSUME IdentityInv, nreq' = nreq,
         \A h \in Handlers : pc'[h] \in Holding =>
           pc[h] \in Holding /\ req'[h] = req[h] /\ index'[h] = index[h],
         \A m \in InFlight' : Traceable(m),
         \A h \in Handlers : res_buf'[h] # NoMsg => NobodyElses(h, res_buf'[h])
  PROVE  IdentityInv'
  BY DEF IdentityInv, Traceable, NobodyElses

(* The receive thread and the response thread take messages, and add none. *)
LEMMA InFlightShrinks ==
  ASSUME TypeOK,
         \/ \E m \in bridge : RxCorrupt(m) \/ RxResponse(m)
         \/ ResReceive \/ UNCHANGED vars
  PROVE  InFlight' \subseteq InFlight
<1>t. mq_res \in Seq(Msgs)
  BY DEF TypeOK
<1>1. CASE UNCHANGED vars
  BY <1>1 DEF vars, InFlight
<1>2. CASE \E m \in bridge : RxCorrupt(m)
  BY <1>2 DEF RxCorrupt, InFlight, rxVars
<1>3. ASSUME NEW m \in bridge, RxResponse(m) PROVE InFlight' \subseteq InFlight
  <2>1. /\ bridge' = bridge \ {m} /\ res_msg' = res_msg
        /\ mq_res' = mq_res \/ mq_res' = Append(mq_res, m)
    BY <1>3 DEF RxResponse
  <2>2. \A k \in 1 .. Len(mq_res') :
          mq_res'[k] = m \/ (k \in 1 .. Len(mq_res) /\ mq_res'[k] = mq_res[k])
    BY <1>t, <2>1
  <2> QED
    BY <2>1, <2>2 DEF InFlight
<1>4. CASE ResReceive
  <2>1. /\ bridge' = bridge /\ mq_res # <<>>
        /\ mq_res' = Tail(mq_res) /\ res_msg' = Head(mq_res)
    BY <1>4 DEF ResReceive, busVars
  <2>2. \A k \in 1 .. Len(mq_res') :
          k + 1 \in 1 .. Len(mq_res) /\ mq_res'[k] = mq_res[k + 1]
    BY <1>t, <2>1
  <2>3. 1 \in 1 .. Len(mq_res) /\ res_msg' = mq_res[1]
    BY <1>t, <2>1
  <2> QED
    BY <2>1, <2>2, <2>3 DEF InFlight
<1> QED
  BY <1>1, <1>2, <1>3, <1>4

LEMMA InitIdentityInv == Init => IdentityInv
  BY DEF Init, IdentityInv, InFlight, Holding

LEMMA NextIdentityInv ==
  TypeOK /\ SlotOwnership /\ IdentityInv /\ [Next]_vars => IdentityInv'
<1> SUFFICES ASSUME TypeOK, SlotOwnership, IdentityInv, [Next]_vars
             PROVE  IdentityInv'
  OBVIOUS
<1> USE DEF Goto
<1>t. /\ pc \in [Handlers -> PcValues] /\ index \in [Handlers -> Seqs]
      /\ req \in [Handlers -> Nat] /\ nreq \in Nat
      /\ res_buf \in [Handlers -> Msgs \union {NoMsg}]
      /\ mq_res \in Seq(Msgs)
  BY DEF TypeOK
<1>m. \A m \in InFlight : Traceable(m)
  BY DEF IdentityInv
<1>r. \A h \in Handlers : res_buf[h] # NoMsg => NobodyElses(h, res_buf[h])
  BY DEF IdentityInv
<1>1. ASSUME NEW h \in Handlers,
             Accept(h) \/ RecvFail(h) \/ (\E u \in BOOLEAN : RecvReq(h, u))
               \/ SeqGetNone(h) \/ PalReject(h) \/ I2cLock(h) \/ Timeout(h)
               \/ Wake(h) \/ Release(h) \/ Reply(h)
      PROVE IdentityInv'
  <2>1. /\ nreq' = nreq /\ bridge' = bridge /\ mq_res' = mq_res /\ res_msg' = res_msg
    BY <1>1 DEF Accept, RecvFail, RecvReq, SeqGetNone, PalReject, I2cLock, Timeout,
                Wake, Release, Reply, busVars, rxVars
  <2>2. ASSUME NEW g \in Handlers, pc'[g] \in Holding
        PROVE  pc[g] \in Holding /\ req'[g] = req[g] /\ index'[g] = index[g]
    BY <1>1, <1>t, <2>2 DEF Accept, RecvFail, RecvReq, SeqGetNone, PalReject,
         I2cLock, Timeout, Wake, Release, Reply, Holding, localVars
  <2>3. \A g \in Handlers : res_buf'[g] # NoMsg => res_buf'[g] = res_buf[g]
    BY <1>1, <1>t DEF Accept, RecvFail, RecvReq, SeqGetNone, PalReject, I2cLock,
         Timeout, Wake, Release, Reply, localVars
  <2>4. InFlight' = InFlight
    BY <2>1 DEF InFlight
  <2> QED
    BY <1>m, <1>r, <2>1, <2>2, <2>3, <2>4, IdentityFrame
<1>2. ASSUME NEW h \in Handlers, SeqGetNew(h) PROVE IdentityInv'
  <2>1. PICK i \in Seqs : index' = [index EXCEPT ![h] = i]
    BY <1>2 DEF SeqGetNew, FreeSeqs
  <2>2. /\ pc[h] = "alloc" /\ pc' = [pc EXCEPT ![h] = "send"]
        /\ nreq' = nreq + 1 /\ req' = [req EXCEPT ![h] = nreq + 1]
        /\ res_buf' = res_buf /\ InFlight' = InFlight
    BY <1>2 DEF SeqGetNew, busVars, rxVars, InFlight
  <2>3. \A g \in Handlers : g # h =>
          pc'[g] = pc[g] /\ req'[g] = req[g] /\ index'[g] = index[g]
    BY <1>t, <2>1, <2>2
  <2>4. pc'[h] = "send" /\ req'[h] = nreq + 1
    BY <1>t, <2>2
  <2>5. \A g \in Handlers : g # h /\ pc'[g] \in Holding => req'[g] \in 1 .. nreq
    BY <2>3 DEF IdentityInv
  <2>6. ASSUME NEW m \in InFlight' PROVE Traceable(m)'
    <3>1. Traceable(m)
      BY <1>m, <2>2, <2>6
    <3> QED
      BY <1>t, <2>2, <2>3, <2>4, <3>1 DEF Traceable
  <2>7. ASSUME NEW g \in Handlers, res_buf'[g] # NoMsg
        PROVE  NobodyElses(g, res_buf[g])'
    <3>1. NobodyElses(g, res_buf[g])
      BY <1>r, <2>2, <2>7
    <3> QED
      BY <1>t, <2>2, <2>3, <2>4, <3>1 DEF NobodyElses
  <2>8. \A g \in Handlers : pc'[g] \in Holding => req'[g] \in 1 .. nreq'
    BY <1>t, <2>2, <2>4, <2>5
  <2>9. \A f, g \in Handlers :
          f # g /\ pc'[f] \in Holding /\ pc'[g] \in Holding => req'[f] # req'[g]
    <3>1. \A f, g \in Handlers :
            f # g /\ f # h /\ g # h /\ pc'[f] \in Holding /\ pc'[g] \in Holding
              => req'[f] # req'[g]
      BY <2>3 DEF IdentityInv
    <3> QED
      BY <1>t, <2>4, <2>5, <3>1
  <2> QED
    BY <2>6, <2>7, <2>8, <2>9 DEF IdentityInv
<1>3. ASSUME NEW h \in Handlers, I2cSent(h) \/ (\E d \in BOOLEAN : I2cFail(h, d))
      PROVE  IdentityInv'
  <2>1. /\ nreq' = nreq /\ mq_res' = mq_res /\ res_msg' = res_msg
        /\ req' = req /\ index' = index /\ res_buf' = res_buf
        /\ bridge' \subseteq bridge \union {Transmission(h)}
    BY <1>3 DEF I2cSent, I2cFail, rxVars, localVars
  <2>2. pc[h] = "write" /\ \A g \in Handlers : pc'[g] \in Holding => pc[g] \in Holding
    BY <1>3, <1>t DEF I2cSent, I2cFail, Holding
  <2>3. Traceable(Transmission(h))
    <3>1. pc[h] \in Holding
      BY <2>2 DEF Holding
    <3>2. \A g \in Handlers : pc[g] \in Holding /\ req[g] = req[h] => g = h
      BY <3>1 DEF IdentityInv
    <3>3. req[h] \in 1 .. nreq
      BY <3>1 DEF IdentityInv
    <3> QED
      BY <3>2, <3>3 DEF Traceable, Transmission
  <2>4. \A m \in InFlight' : m \in InFlight \/ m = Transmission(h)
    BY <2>1 DEF InFlight
  <2>5. \A m \in InFlight' : Traceable(m)
    BY <1>m, <2>3, <2>4
  <2> QED
    BY <1>r, <2>1, <2>2, <2>5, IdentityFrame
<1>4. CASE \/ \E m \in bridge : RxCorrupt(m) \/ RxResponse(m)
           \/ ResReceive \/ UNCHANGED vars
  <2>1. /\ nreq' = nreq /\ req' = req /\ index' = index /\ res_buf' = res_buf
        /\ pc' = pc
    BY <1>4 DEF RxCorrupt, RxResponse, ResReceive, vars, localVars
  <2>2. InFlight' \subseteq InFlight
    BY <1>4, InFlightShrinks
  <2> QED
    BY <1>m, <1>r, <2>1, <2>2, IdentityFrame
<1>5. CASE SeqPut
  <2> DEFINE i == res_msg.seq
  <2>1. /\ pc' = pc /\ index' = index /\ req' = req /\ nreq' = nreq
        /\ bridge' = bridge /\ mq_res' = mq_res /\ res_msg' = NoMsg
    BY <1>5 DEF SeqPut, busVars
  <2>2. i \in Seqs /\ res_msg # NoMsg /\ Traceable(res_msg)
    BY <1>5, <1>m DEF SeqPut, TypeOK, Msgs, InFlight
  <2>3. InFlight' \subseteq InFlight
    BY <2>1 DEF InFlight
  <2>4. CASE ~Waited(i)
    <3>1. res_buf' = res_buf
      BY <1>5, <2>4 DEF SeqPut
    <3> QED
      BY <1>m, <1>r, <2>1, <2>3, <3>1, IdentityFrame
  <2>5. CASE Waited(i)
    <3>1. PICK h \in Handlers : seq[i].p_buf = h /\ pc[h] \in Holding /\ index[h] = i
      BY <2>2, <2>5 DEF Waited, SlotOwnership, SlotHasHolder
    <3>2. res_buf' = [res_buf EXCEPT ![h] = res_msg]
      BY <1>5, <2>5, <3>1 DEF SeqPut
    <3>3. \A g \in Handlers : g # h /\ pc[g] \in Holding => index[g] # i
      BY <3>1 DEF SlotOwnership, HolderOwnsSlot
    <3>4. NobodyElses(h, res_msg)
      BY <2>2, <3>3 DEF Traceable, NobodyElses
    <3>5. \A g \in Handlers : res_buf'[g] # NoMsg => NobodyElses(g, res_buf'[g])
      BY <1>r, <1>t, <3>2, <3>4
    <3> QED
      BY <1>m, <2>1, <2>3, <3>5, IdentityFrame
  <2> QED
    BY <2>4, <2>5
<1> QED
  BY <1>1, <1>2, <1>3, <1>4, <1>5 DEF Next, HandlerStep, ResStep

(* The responses of requests that are waited for at the same time are      *)
(* never crossed, whatever is lost, late or repeated on the bus.           *)
THEOREM NeverCrossed == Spec => []ForeignResponseIsLate
<1>1. TypeOK /\ SlotOwnership /\ IdentityInv /\ [Next]_vars => IdentityInv'
  BY NextIdentityInv
<1>2. IdentityInv => ForeignResponseIsLate
  BY DEF IdentityInv, NobodyElses, ForeignResponseIsLate
<1> QED
  BY <1>1, <1>2, Typing, Ownership, InitIdentityInv, PTL DEF Spec
-----------------------------------------------------------------------------
(* How far apart two requests are that carry the same number.              *)

(* How many numbers seq_get_new has passed since it looked at number s.    *)
PassedBy(c, s) == IF s < c THEN c - 1 - s ELSE c - 1 - s + SeqMax
Passed(s) == PassedBy(curr_seq, s)

LEMMA PassedOnce ==
  ASSUME TypeOK
  PROVE  /\ \A s \in Seqs : Passed(s) \in 0 .. SeqMax - 1
         /\ \A s, t \in Seqs : Passed(s) = Passed(t) => s = t
         /\ \A j \in 0 .. SeqMax - 1 : \E t \in Seqs : Passed(t) = j
<1>1. curr_seq \in 0 .. SeqMax - 1 /\ SeqMax \in Nat \ {0}
  BY SeqMaxAssumption DEF TypeOK, Seqs
<1>2. ASSUME NEW j \in 0 .. SeqMax - 1 PROVE \E t \in Seqs : Passed(t) = j
  <2>1. CASE curr_seq - 1 - j >= 0
    <3>1. curr_seq - 1 - j \in Seqs /\ Passed(curr_seq - 1 - j) = j
      BY <1>1, <2>1 DEF Passed, PassedBy, Seqs
    <3> QED
      BY <3>1
  <2>2. CASE curr_seq - 1 - j < 0
    <3>1. curr_seq - 1 - j + SeqMax \in Seqs /\ Passed(curr_seq - 1 - j + SeqMax) = j
      BY <1>1, <2>2 DEF Passed, PassedBy, Seqs
    <3> QED
      BY <3>1
  <2> QED
    BY <1>1, <2>1, <2>2
<1> QED
  BY <1>1, <1>2 DEF Passed, PassedBy, Seqs

(* The first number the search looks at is the one it passed longest ago.  *)
LEMMA AheadIs ==
  ASSUME TypeOK, NEW s \in Seqs
  PROVE  Ahead(s) = SeqMax - 1 - Passed(s)
<1>1. curr_seq \in 0 .. SeqMax - 1 /\ SeqMax \in Nat \ {0} /\ s \in 0 .. SeqMax - 1
  BY SeqMaxAssumption DEF TypeOK, Seqs
<1>2. CASE s < curr_seq
  <2>1. s - curr_seq + SeqMax \in 0 .. SeqMax - 1
    BY <1>1, <1>2
  <2>2. Ahead(s) = s - curr_seq + SeqMax
    BY <1>1, <2>1 DEF Ahead
  <2> QED
    BY <1>1, <1>2, <2>2 DEF Passed, PassedBy
<1>3. CASE ~ (s < curr_seq)
  <2>1. s - curr_seq + SeqMax \in SeqMax .. 2 * SeqMax - 1
    BY <1>1, <1>3
  <2>2. Ahead(s) = s - curr_seq
    BY <1>1, <2>1 DEF Ahead
  <2> QED
    BY <1>1, <1>3, <2>2 DEF Passed, PassedBy
<1> QED
  BY <1>2, <1>3

(* What taking number i does to the distance of number s.                  *)
LEMMA PassedMoves ==
  ASSUME TypeOK, NEW i \in Seqs, NEW s \in Seqs, curr_seq' = NextSeq(i)
  PROVE  PassedBy(curr_seq', s) =
                      IF Passed(s) >= Passed(i) THEN Passed(s) - Passed(i)
                      ELSE Passed(s) + SeqMax - Passed(i)
<1>1. /\ curr_seq \in 0 .. SeqMax - 1 /\ SeqMax \in Nat \ {0}
      /\ s \in 0 .. SeqMax - 1 /\ i \in 0 .. SeqMax - 1
  BY SeqMaxAssumption DEF TypeOK, Seqs
<1>2. NextSeq(i) = IF i + 1 = SeqMax THEN 0 ELSE i + 1
  BY <1>1 DEF NextSeq
<1> QED
  BY <1>1, <1>2 DEF Passed, PassedBy

(* The distance after which a number may come round again.                 *)
Distance == SeqMax - Cardinality(Handlers)

(* The handlers with older requests than q whose numbers the search has    *)
(* not passed since it handed out s.                                       *)
Older(q, s) ==
  {g \in Handlers : /\ pc[g] \in Holding /\ req[g] < q
                    /\ Passed(index[g]) >= Passed(s)}
OlderPast(q, s, y) == {g \in Older(q, s) : Passed(index[g]) > y}

(* Request q, which was given number s, is far from any other that has it: *)
(* so many requests came since, or the search has not come round to s.  In *)
(* that case it has taken each number it passed, but those that older      *)
(* requests held on to.                                                    *)
Far(q, s) ==
  /\ \A g \in Handlers :
       pc[g] \in Holding /\ index[g] = s /\ req[g] # q => req[g] - q > Distance
  /\ \/ nreq - q > Distance
     \/ /\ \A g \in Handlers :
             pc[g] \in Holding /\ req[g] > q => Passed(index[g]) < Passed(s)
        /\ Passed(s) - (nreq - q) + Cardinality(Older(q, s)) < Cardinality(Handlers)

ReuseInv ==
  /\ \A m \in InFlight : Far(m.id, m.seq)
  /\ \A g \in Handlers : pc[g] \in Holding => Far(req[g], index[g])
  /\ \A h \in Handlers : res_buf[h] # NoMsg /\ res_buf[h].id # req[h]
                           => req[h] - res_buf[h].id > Distance

LEMMA OlderCount ==
  ASSUME NEW q, NEW s
  PROVE  /\ IsFiniteSet(Older(q, s)) /\ Cardinality(Older(q, s)) \in Nat
         /\ Cardinality(Handlers) \in Nat /\ Distance \in Int
<1>1. Older(q, s) \in SUBSET Handlers
  BY DEF Older
<1>2. IsFiniteSet(Older(q, s))
  BY <1>1, HandlersAssumption, FS_Subset
<1> QED
  BY <1>2, HandlersAssumption, SeqMaxAssumption, FS_CardinalityType DEF Distance

LEMMA FarFrame ==
  ASSUME TypeOK, NEW q \in Nat, NEW s \in Seqs, Far(q, s),
         nreq' = nreq, curr_seq' = curr_seq,
         \A h \in Handlers : pc'[h] \in Holding =>
           pc[h] \in Holding /\ req'[h] = req[h] /\ index'[h] = index[h]
  PROVE  Far(q, s)'
<1>1. \A t : Passed(t)' = Passed(t)
  BY DEF Passed
<1>2. Older(q, s)' \in SUBSET Older(q, s)
  BY <1>1 DEF Older
<1>3. Cardinality(Older(q, s)') <= Cardinality(Older(q, s)) /\ IsFiniteSet(Older(q, s)')
  BY <1>2, OlderCount, FS_Subset
<1>4. Cardinality(Older(q, s)') \in Nat /\ Cardinality(Older(q, s)) \in Nat
      /\ Cardinality(Handlers) \in Nat /\ nreq \in Nat /\ Passed(s) \in Int
  BY <1>3, OlderCount, FS_CardinalityType, PassedOnce DEF TypeOK
<1>5. nreq - q > Distance =>
        (nreq - q > Distance)'
  BY DEF Distance
<1>6. Passed(s) - (nreq - q) + Cardinality(Older(q, s)) < Cardinality(Handlers)
        => (Passed(s) - (nreq - q) + Cardinality(Older(q, s)) < Cardinality(Handlers))'
  BY <1>1, <1>3, <1>4
<1> QED
  BY <1>1, <1>5, <1>6 DEF Far, Distance

(* Of the numbers passed before the search meets one that is free, each is *)
(* held by an older request.                                               *)
LEMMA SkippedCount ==
  ASSUME TypeOK, SlotOwnership, NEW q \in Nat, NEW s \in Seqs,
         \A g \in Handlers : pc[g] \in Holding /\ req[g] = q => index[g] = s,
         \A g \in Handlers :
           pc[g] \in Holding /\ req[g] > q => Passed(index[g]) < Passed(s),
         NEW y \in 0 .. SeqMax - 1, y >= Passed(s),
         \A t \in Seqs : Passed(t) > y => seq[t].in_use
  PROVE  /\ IsFiniteSet(OlderPast(q, s, y)) /\ Cardinality(OlderPast(q, s, y)) \in Nat
         /\ Cardinality(OlderPast(q, s, y)) >= SeqMax - 1 - y
<1> DEFINE R == OlderPast(q, s, y)
           T == y + 1 .. SeqMax - 1
           f == [g \in R |-> Passed(index[g])]
<1>t. index \in [Handlers -> Seqs] /\ req \in [Handlers -> Nat] /\ SeqMax \in Nat \ {0}
  BY SeqMaxAssumption DEF TypeOK
<1>1. IsFiniteSet(R) /\ Cardinality(R) \in Nat
  BY OlderCount, FS_Subset, FS_CardinalityType DEF OlderPast
<1>2. Cardinality(T) = SeqMax - 1 - y
  BY <1>t, FS_Interval
<1>3. f \in [R -> T]
  <2> SUFFICES ASSUME NEW g \in R PROVE Passed(index[g]) \in T
    OBVIOUS
  <2>1. index[g] \in Seqs /\ Passed(index[g]) > y
    BY <1>t DEF OlderPast, Older
  <2> QED
    BY <1>t, <2>1, PassedOnce
<1>4. ASSUME NEW j \in T PROVE \E g \in R : f[g] = j
  <2>1. PICK t \in Seqs : Passed(t) = j
    BY <1>t, PassedOnce
  <2>2. seq[t].in_use /\ Passed(t) > y
    BY <1>t, <2>1
  <2>3. PICK g \in Handlers : pc[g] \in Holding /\ index[g] = t
    BY <2>2 DEF SlotOwnership, SlotHasHolder
  <2>4. Passed(s) \in Int /\ Passed(t) > Passed(s) /\ t # s
    BY <1>t, <2>1, <2>2, PassedOnce
  <2>5. req[g] # q /\ ~ (req[g] > q)
    BY <2>1, <2>3, <2>4
  <2>6. g \in R
    BY <1>t, <2>1, <2>2, <2>3, <2>4, <2>5 DEF OlderPast, Older
  <2> QED
    BY <2>1, <2>3, <2>6
<1>5. f \in Surjection(R, T)
  BY <1>3, <1>4 DEF Surjection
<1> HIDE DEF R, T, f
<1>6. Cardinality(T) <= Cardinality(R)
  BY <1>1, <1>5, FS_Surjection
<1> QED
  BY <1>1, <1>2, <1>6 DEF R

(* A number is taken: the one free number passed longest ago.              *)
LEMMA FarTaken ==
  ASSUME TypeOK, SlotOwnership, NEW h \in Handlers, NEW i \in FreeSeqs,
         \A j \in FreeSeqs : Ahead(i) <= Ahead(j),
         pc[h] = "alloc", pc'[h] = "send",
         curr_seq' = NextSeq(i), nreq' = nreq + 1,
         index'[h] = i, req'[h] = nreq + 1,
         \A g \in Handlers : g # h =>
           pc'[g] = pc[g] /\ req'[g] = req[g] /\ index'[g] = index[g],
         NEW q \in 1 .. nreq, NEW s \in Seqs, Far(q, s),
         \A g \in Handlers : pc[g] \in Holding /\ req[g] = q => index[g] = s
  PROVE  Far(q, s)'
<1>t. /\ SeqMax \in Nat \ {0} /\ nreq \in Nat /\ q \in Nat /\ i \in Seqs
      /\ index \in [Handlers -> Seqs] /\ req \in [Handlers -> Nat]
      /\ Cardinality(Handlers) \in Nat
      /\ Distance = SeqMax - Cardinality(Handlers) /\ Distance' = Distance
  <2>1. SeqMax \in Nat \ {0} /\ nreq \in Nat /\ q \in Nat /\ i \in Seqs
    BY SeqMaxAssumption DEF TypeOK, FreeSeqs
  <2>2. Cardinality(Handlers) \in Nat
    BY HandlersAssumption, FS_CardinalityType
  <2> QED
    BY <2>1, <2>2 DEF TypeOK, Distance
<1>p. /\ Passed(s) \in 0 .. SeqMax - 1 /\ Passed(i) \in 0 .. SeqMax - 1
      /\ \A g \in Handlers : Passed(index[g]) \in 0 .. SeqMax - 1
      /\ Passed(s) = Passed(i) => s = i
  BY <1>t, PassedOnce
<1>m. \A t \in Seqs :
        PassedBy(curr_seq', t) = IF Passed(t) >= Passed(i) THEN Passed(t) - Passed(i)
                                 ELSE Passed(t) + SeqMax - Passed(i)
  BY <1>t, PassedMoves
<1>i. \A g \in Handlers : g # h => Passed(index[g])' = PassedBy(curr_seq', index[g])
  BY DEF Passed
<1>h. Passed(index[h])' = 0
  BY <1>t, <1>p, <1>m DEF Passed
<1>s. Passed(s)' = PassedBy(curr_seq', s)
  BY DEF Passed
<1>u. \A t \in Seqs : Passed(t) > Passed(i) => seq[t].in_use
  <2> SUFFICES ASSUME NEW t \in Seqs, Passed(t) > Passed(i), ~ seq[t].in_use PROVE FALSE
    OBVIOUS
  <2>1. Ahead(i) <= Ahead(t)
    BY DEF FreeSeqs
  <2> QED
    BY <1>t, <1>p, <2>1, AheadIs, PassedOnce
<1>n. h \in Handlers /\ pc'[h] \in Holding /\ ~ (pc[h] \in Holding)
  BY DEF Holding
<1>f. \A g \in Handlers : pc[g] \in Holding => index[g] # i
  BY DEF SlotOwnership, HolderOwnsSlot, FreeSeqs
<1>1. CASE nreq - q > Distance
  <2>1. nreq' - q > Distance
    BY <1>t, <1>1
  <2>2. \A g \in Handlers :
          pc'[g] \in Holding /\ index'[g] = s /\ req'[g] # q => req'[g] - q > Distance
    BY <1>t, <2>1 DEF Far
  <2> QED
    BY <1>t, <2>1, <2>2 DEF Far
<1>2. CASE ~ (nreq - q > Distance)
  <2>1. /\ \A g \in Handlers :
             pc[g] \in Holding /\ req[g] > q => Passed(index[g]) < Passed(s)
        /\ Passed(s) - (nreq - q) + Cardinality(Older(q, s)) < Cardinality(Handlers)
    BY <1>2 DEF Far
  <2>c. IsFiniteSet(Older(q, s)) /\ Cardinality(Older(q, s)) \in Nat
    BY OlderCount
  <2>2. CASE Passed(s) < Passed(i)
    <3> DEFINE R == OlderPast(q, s, Passed(i))
    <3>1. IsFiniteSet(R) /\ Cardinality(R) \in Nat
          /\ Cardinality(R) >= SeqMax - 1 - Passed(i)
      BY <1>t, <1>p, <1>u, <2>1, <2>2, SkippedCount
    <3>2. Passed(s)' = Passed(s) + SeqMax - Passed(i)
      BY <1>t, <1>p, <1>m, <1>s, <2>2
    <3>3. Older(q, s)' \subseteq Older(q, s) \ R
      <4> SUFFICES ASSUME NEW g \in Older(q, s)' PROVE g \in Older(q, s) \ R
        OBVIOUS
      <4>1. g \in Handlers /\ g # h /\ pc[g] \in Holding /\ req[g] < q
            /\ Passed(index[g])' >= Passed(s)'
        BY <1>t DEF Older
      <4>2. Passed(index[g]) < Passed(i) /\ Passed(index[g]) >= Passed(s)
        <5>1. index'[g] = index[g] /\ index[g] \in Seqs
          BY <1>t, <4>1
        <5>2. (IF Passed(index[g]) >= Passed(i) THEN Passed(index[g]) - Passed(i)
               ELSE Passed(index[g]) + SeqMax - Passed(i)) >= Passed(s)'
          BY <1>m, <1>i, <4>1, <5>1
        <5>3. i # index[g] /\ Passed(index[g]) # Passed(i)
          BY <1>t, <1>f, <4>1, <5>1, PassedOnce
        <5> QED
          BY <1>t, <1>p, <3>2, <4>1, <5>2, <5>3
      <4> QED
        BY <1>p, <4>1, <4>2 DEF OlderPast, Older
    <3>4. /\ Cardinality(Older(q, s) \ R) = Cardinality(Older(q, s)) - Cardinality(R)
          /\ IsFiniteSet(Older(q, s) \ R)
      <4>1. Older(q, s) \cap R = R
        BY DEF OlderPast
      <4> DEFINE O == Older(q, s)
      <4> HIDE DEF R, O
      <4>2. IsFiniteSet(O) /\ O \cap R = R
        BY <2>c, <4>1 DEF O
      <4>3. IsFiniteSet(O \ R) /\ Cardinality(O \ R) = Cardinality(O) - Cardinality(O \cap R)
        BY <4>2, FS_Difference
      <4> QED
        BY <4>2, <4>3 DEF O
    <3>5. Cardinality(Older(q, s)') <= Cardinality(Older(q, s)) - Cardinality(R)
          /\ Cardinality(Older(q, s)') \in Nat
      <4> HIDE DEF R
      <4> QED
        BY <3>3, <3>4, FS_Subset, FS_CardinalityType
    <3>6. Passed(s)' - (nreq' - q) + Cardinality(Older(q, s)') < Cardinality(Handlers)
      <4> HIDE DEF R
      <4> QED
        BY <1>t, <1>p, <2>1, <2>c, <3>1, <3>2, <3>5
    <3>7. ASSUME NEW g \in Handlers, pc'[g] \in Holding, req'[g] > q
          PROVE  Passed(index[g])' < Passed(s)'
      <4>1. CASE g = h
        <5>1. Passed(index[g])' = 0
          BY <1>h, <4>1
        <5> QED
          BY <1>t, <1>p, <2>2, <3>2, <5>1
      <4>2. CASE g # h
        <5>1. index'[g] = index[g] /\ index[g] \in Seqs /\ Passed(index[g]) < Passed(s)
          BY <1>t, <2>1, <3>7, <4>2
        <5>2. Passed(index[g])' = Passed(index[g]) + SeqMax - Passed(i)
          BY <1>t, <1>p, <1>m, <1>i, <2>2, <4>2, <5>1
        <5> QED
          BY <1>t, <1>p, <3>2, <5>1, <5>2
      <4> QED
        BY <4>1, <4>2
    <3>8. \A g \in Handlers :
            pc'[g] \in Holding /\ index'[g] = s /\ req'[g] # q => req'[g] - q > Distance
      BY <1>t, <1>p, <2>2 DEF Far
    <3> QED
      BY <1>t, <3>6, <3>7, <3>8 DEF Far
  <2>3. CASE ~ (Passed(s) < Passed(i))
    <3> DEFINE R == OlderPast(q, s, Passed(s))
    <3>0. \A t \in Seqs : Passed(t) > Passed(s) => seq[t].in_use
      BY <1>t, <1>p, <1>u, <2>3, PassedOnce
    <3>y. Passed(s) \in 0 .. SeqMax - 1 /\ Passed(s) >= Passed(s)
      BY <1>p
    <3>1. IsFiniteSet(R) /\ Cardinality(R) \in Nat
          /\ Cardinality(R) >= SeqMax - 1 - Passed(s)
      BY <1>t, <1>p, <2>1, <3>0, <3>y, SkippedCount
    <3>2. Cardinality(R) <= Cardinality(Older(q, s))
      BY <2>c, FS_Subset DEF OlderPast
    <3> HIDE DEF R
    <3>3. nreq + 1 - q > Distance
      BY <1>t, <1>p, <2>1, <2>c, <3>1, <3>2
    <3>4. \A g \in Handlers :
            pc'[g] \in Holding /\ index'[g] = s /\ req'[g] # q => req'[g] - q > Distance
      BY <1>t, <3>3 DEF Far
    <3> QED
      BY <1>t, <3>3, <3>4 DEF Far
  <2> QED
    BY <2>2, <2>3
<1> QED
  BY <1>1, <1>2

(* The number a request is given is no other request's.                    *)
LEMMA FarNew ==
  ASSUME TypeOK, SlotOwnership, IdentityInv, NEW h \in Handlers, NEW i \in FreeSeqs,
         ~ (pc[h] \in Holding), curr_seq' = NextSeq(i), nreq' = nreq + 1,
         NEW q \in Nat, q = nreq + 1, index'[h] = i, req'[h] = q,
         \A g \in Handlers : g # h =>
           pc'[g] = pc[g] /\ req'[g] = req[g] /\ index'[g] = index[g]
  PROVE  Far(q, i)'
<1>t. SeqMax \in Nat \ {0} /\ nreq \in Nat /\ i \in Seqs /\ req \in [Handlers -> Nat]
  BY SeqMaxAssumption DEF TypeOK, FreeSeqs
<1>1. Passed(i)' = 0
  <2>1. PassedBy(curr_seq', i) = 0
    BY <1>t, PassedMoves, PassedOnce
  <2> QED
    BY <2>1 DEF Passed
<1>2. \A g \in Handlers : g # h /\ pc[g] \in Holding => index[g] # i /\ req[g] \in 1 .. nreq
  BY DEF SlotOwnership, HolderOwnsSlot, FreeSeqs, IdentityInv
<1>3. Cardinality(Older(q, i)') < Cardinality(Handlers)
      /\ Cardinality(Older(q, i)') \in Nat
  <2>1. Older(q, i)' \in SUBSET (Handlers \ {h})
    BY <1>t DEF Older
  <2>2. IsFiniteSet(Handlers \ {h})
        /\ Cardinality(Handlers \ {h}) = Cardinality(Handlers) - 1
    BY HandlersAssumption, FS_RemoveElement
  <2>3. Cardinality(Older(q, i)') <= Cardinality(Handlers \ {h})
        /\ IsFiniteSet(Older(q, i)')
    BY <2>1, <2>2, FS_Subset
  <2>4. Cardinality(Older(q, i)') \in Nat /\ Cardinality(Handlers) \in Nat
    BY <2>3, HandlersAssumption, FS_CardinalityType
  <2> QED
    BY <2>2, <2>3, <2>4
<1>4. Passed(i)' - (nreq' - q) + Cardinality(Older(q, i)')
        < Cardinality(Handlers)
  BY <1>t, <1>1, <1>3
<1>5. \A g \in Handlers : pc'[g] \in Holding => ~ (req'[g] > q)
  BY <1>t, <1>2
<1>6. \A g \in Handlers : pc'[g] \in Holding /\ index'[g] = i => req'[g] = q
  BY <1>t, <1>2
<1> QED
  BY <1>t, <1>4, <1>5, <1>6 DEF Far

LEMMA InFlightTypes == TypeOK => InFlight \subseteq Msgs
<1> SUFFICES ASSUME TypeOK PROVE InFlight \subseteq Msgs
  OBVIOUS
<1>1. \A k \in 1 .. Len(mq_res) : mq_res[k] \in Msgs
  BY DEF TypeOK
<1> QED
  BY <1>1 DEF TypeOK, InFlight

LEMMA ReuseFrame ==
  ASSUME TypeOK, TypeOK', ReuseInv, nreq' = nreq, curr_seq' = curr_seq,
         \A h \in Handlers : pc'[h] \in Holding =>
           pc[h] \in Holding /\ req'[h] = req[h] /\ index'[h] = index[h],
         \A m \in InFlight' :
           \/ m \in InFlight
           \/ \E g \in Handlers : pc[g] \in Holding /\ m.id = req[g] /\ m.seq = index[g],
         \A h \in Handlers : res_buf'[h] # NoMsg /\ res_buf'[h].id # req'[h]
                               => req'[h] - res_buf'[h].id > Distance
  PROVE  ReuseInv'
<1>1. ASSUME NEW m \in InFlight' PROVE Far(m.id, m.seq)'
  <2>1. Far(m.id, m.seq)
    BY <1>1 DEF ReuseInv
  <2>2. m.id \in Nat /\ m.seq \in Seqs
    <3>1. InFlight' \subseteq Msgs
      BY DEF TypeOK, InFlight
    <3> QED
      BY <3>1, <1>1 DEF Msgs
  <2> QED
    BY <2>1, <2>2, FarFrame
<1>2. ASSUME NEW g \in Handlers, pc'[g] \in Holding PROVE Far(req[g], index[g])'
  <2>1. Far(req[g], index[g]) /\ req[g] \in Nat /\ index[g] \in Seqs
    BY <1>2 DEF ReuseInv, TypeOK
  <2> DEFINE q == req[g]
             s == index[g]
  <2>2. req'[g] = req[g] /\ index'[g] = index[g]
    BY <1>2
  <2>3. \A x \in Nat, y \in Seqs : Far(x, y) => Far(x, y)'
    BY FarFrame
  <2> QED
    BY <2>1, <2>2, <2>3
<1> QED
  BY <1>1, <1>2 DEF ReuseInv, Distance

LEMMA InitReuseInv == Init => ReuseInv
  BY DEF Init, ReuseInv, InFlight, Holding

LEMMA NextReuseInv ==
  TypeOK /\ TypeOK' /\ SlotOwnership /\ BufferInv /\ IdentityInv /\ ReuseInv
    /\ [Next]_vars => ReuseInv'
<1> SUFFICES ASSUME TypeOK, TypeOK', SlotOwnership, BufferInv, IdentityInv, ReuseInv,
                    [Next]_vars
             PROVE  ReuseInv'
  OBVIOUS
<1> USE DEF Goto
<1>t. /\ pc \in [Handlers -> PcValues] /\ index \in [Handlers -> Seqs]
      /\ req \in [Handlers -> Nat] /\ nreq \in Nat
      /\ res_buf \in [Handlers -> Msgs \union {NoMsg}]
  BY DEF TypeOK
<1>r. \A h \in Handlers : res_buf[h] # NoMsg /\ res_buf[h].id # req[h]
                            => req[h] - res_buf[h].id > Distance
  BY DEF ReuseInv
<1>1. ASSUME NEW h \in Handlers,
             Accept(h) \/ RecvFail(h) \/ (\E u \in BOOLEAN : RecvReq(h, u))
               \/ SeqGetNone(h) \/ PalReject(h) \/ I2cLock(h) \/ Timeout(h)
               \/ Wake(h) \/ Release(h) \/ Reply(h)
      PROVE ReuseInv'
  <2>1. /\ nreq' = nreq /\ bridge' = bridge /\ mq_res' = mq_res /\ res_msg' = res_msg
        /\ curr_seq' = curr_seq
    BY <1>1 DEF Accept, RecvFail, RecvReq, SeqGetNone, PalReject, I2cLock, Timeout,
                Wake, Release, Reply, busVars, rxVars, tableVars
  <2>2. ASSUME NEW g \in Handlers, pc'[g] \in Holding
        PROVE  pc[g] \in Holding /\ req'[g] = req[g] /\ index'[g] = index[g]
    BY <1>1, <1>t, <2>2 DEF Accept, RecvFail, RecvReq, SeqGetNone, PalReject,
         I2cLock, Timeout, Wake, Release, Reply, Holding, localVars
  <2>3. \A g \in Handlers : res_buf'[g] # NoMsg =>
          res_buf'[g] = res_buf[g] /\ req'[g] = req[g]
    BY <1>1, <1>t DEF Accept, RecvFail, RecvReq, SeqGetNone, PalReject, I2cLock,
         Timeout, Wake, Release, Reply, localVars
  <2>4. InFlight' = InFlight
    BY <2>1 DEF InFlight
  <2> QED
    BY <1>r, <2>1, <2>2, <2>3, <2>4, ReuseFrame
<1>2. ASSUME NEW h \in Handlers, SeqGetNew(h) PROVE ReuseInv'
  <2>1. PICK i \in FreeSeqs :
          /\ \A j \in FreeSeqs : Ahead(i) <= Ahead(j)
          /\ index' = [index EXCEPT ![h] = i] /\ curr_seq' = NextSeq(i)
    BY <1>2 DEF SeqGetNew
  <2>2. /\ pc[h] = "alloc" /\ pc' = [pc EXCEPT ![h] = "send"]
        /\ nreq' = nreq + 1 /\ req' = [req EXCEPT ![h] = nreq + 1]
        /\ res_buf' = res_buf /\ InFlight' = InFlight
    BY <1>2 DEF SeqGetNew, busVars, rxVars, InFlight
  <2>3. \A g \in Handlers : g # h =>
          pc'[g] = pc[g] /\ req'[g] = req[g] /\ index'[g] = index[g]
    BY <1>t, <2>1, <2>2
  <2>4. pc'[h] = "send" /\ req'[h] = nreq + 1 /\ index'[h] = i /\ ~ (pc[h] \in Holding)
    BY <1>t, <2>1, <2>2 DEF Holding
  <2>5. \A q \in 1 .. nreq, s \in Seqs :
          Far(q, s) /\ (\A g \in Handlers : pc[g] \in Holding /\ req[g] = q => index[g] = s)
            => Far(q, s)'
    BY <2>1, <2>2, <2>3, <2>4, FarTaken
  <2>6. ASSUME NEW m \in InFlight' PROVE Far(m.id, m.seq)'
    <3>1. Far(m.id, m.seq) /\ Traceable(m) /\ m.seq \in Seqs
      BY <2>2, <2>6, InFlightTypes DEF ReuseInv, IdentityInv, Msgs
    <3> QED
      BY <2>5, <3>1 DEF Traceable
  <2>7. ASSUME NEW g \in Handlers, pc'[g] \in Holding PROVE Far(req[g], index[g])'
    <3>1. CASE g = h
      <4>1. \A q \in Nat : q = nreq + 1 => Far(q, i)'
        BY <2>1, <2>2, <2>3, <2>4, FarNew
      <4> QED
        BY <1>t, <2>4, <3>1, <4>1
    <3>2. CASE g # h
      <4>1. Far(req[g], index[g]) /\ req[g] \in 1 .. nreq /\ index[g] \in Seqs
        BY <1>t, <2>3, <2>7, <3>2 DEF ReuseInv, IdentityInv
      <4>2. \A f \in Handlers : pc[f] \in Holding /\ req[f] = req[g] => index[f] = index[g]
        BY <2>3, <2>7, <3>2 DEF IdentityInv
      <4> QED
        BY <2>3, <2>5, <3>2, <4>1, <4>2
    <3> QED
      BY <3>1, <3>2
  <2>8. res_buf[h] = NoMsg
    BY <2>2 DEF BufferInv, BufferMatches
  <2> QED
    BY <1>r, <2>2, <2>3, <2>6, <2>7, <2>8 DEF ReuseInv, Distance
<1>3. ASSUME NEW h \in Handlers, I2cSent(h) \/ (\E d \in BOOLEAN : I2cFail(h, d))
      PROVE  ReuseInv'
  <2>1. /\ nreq' = nreq /\ mq_res' = mq_res /\ res_msg' = res_msg /\ curr_seq' = curr_seq
        /\ req' = req /\ index' = index /\ res_buf' = res_buf
        /\ bridge' \subseteq bridge \union {Transmission(h)}
    BY <1>3 DEF I2cSent, I2cFail, rxVars, localVars, tableVars
  <2>2. pc[h] \in Holding /\ \A g \in Handlers : pc'[g] \in Holding => pc[g] \in Holding
    BY <1>3, <1>t DEF I2cSent, I2cFail, Holding
  <2>3. \A m \in InFlight' : m \in InFlight \/ (m.id = req[h] /\ m.seq = index[h])
    BY <2>1 DEF InFlight, Transmission
  <2> QED
    BY <1>r, <2>1, <2>2, <2>3, ReuseFrame
<1>4. CASE \/ \E m \in bridge : RxCorrupt(m) \/ RxResponse(m)
           \/ ResReceive \/ UNCHANGED vars
  <2>1. /\ nreq' = nreq /\ req' = req /\ index' = index /\ res_buf' = res_buf
        /\ pc' = pc /\ curr_seq' = curr_seq
    BY <1>4 DEF RxCorrupt, RxResponse, ResReceive, vars, localVars, tableVars
  <2> QED
    BY <1>4, <1>r, <2>1, InFlightShrinks, ReuseFrame
<1>5. CASE SeqPut
  <2> DEFINE i == res_msg.seq
  <2>1. /\ pc' = pc /\ index' = index /\ req' = req /\ nreq' = nreq
        /\ bridge' = bridge /\ mq_res' = mq_res /\ res_msg' = NoMsg
        /\ curr_seq' = curr_seq
    BY <1>5 DEF SeqPut, busVars
  <2>2. i \in Seqs /\ res_msg # NoMsg /\ Far(res_msg.id, i)
    BY <1>5 DEF SeqPut, TypeOK, Msgs, InFlight, ReuseInv
  <2>3. InFlight' \subseteq InFlight
    BY <2>1 DEF InFlight
  <2>4. CASE ~Waited(i)
    <3>1. res_buf' = res_buf
      BY <1>5, <2>4 DEF SeqPut
    <3> QED
      BY <1>r, <2>1, <2>3, <3>1, ReuseFrame
  <2>5. CASE Waited(i)
    <3>1. PICK h \in Handlers : seq[i].p_buf = h /\ pc[h] \in Holding /\ index[h] = i
      BY <2>2, <2>5 DEF Waited, SlotOwnership, SlotHasHolder
    <3>2. res_buf' = [res_buf EXCEPT ![h] = res_msg]
      BY <1>5, <2>5, <3>1 DEF SeqPut
    <3>3. req[h] # res_msg.id => req[h] - res_msg.id > Distance
      BY <2>2, <3>1 DEF Far
    <3>4. \A g \in Handlers : res_buf'[g] # NoMsg /\ res_buf'[g].id # req[g]
                                => req[g] - res_buf'[g].id > Distance
      BY <1>r, <1>t, <3>2, <3>3
    <3> QED
      BY <2>1, <2>3, <3>4, ReuseFrame
  <2> QED
    BY <2>4, <2>5
<1> QED
  BY <1>1, <1>2, <1>3, <1>4, <1>5 DEF Next, HandlerStep, ResStep

(* A response that reaches a client whose request it does not answer is    *)
(* older by more requests than there are numbers beyond the handlers.      *)
THEOREM ReuseIsFar == Spec => []ReuseDistance
<1>1. TypeOK /\ TypeOK' /\ SlotOwnership /\ BufferInv /\ IdentityInv /\ ReuseInv
        /\ [Next]_vars => ReuseInv'
  BY NextReuseInv
<1>2. TypeOK /\ SlotOwnership /\ IdentityInv /\ [Next]_vars => IdentityInv'
  BY NextIdentityInv
<1>3. ReuseInv => ReuseDistance
  BY DEF ReuseInv, ReuseDistance, Distance
<1> QED
  BY <1>1, <1>2, <1>3, Typing, Ownership, BufferInvariant, InitIdentityInv,
     InitReuseInv, PTL DEF Spec

-----------------------------------------------------------------------------
(* The service and the engine together.                                    *)

CONSTANTS WaitRetries, AcceptRetries, Backlog, RcExpired

VARIABLES svc, cli_retries, acc_retries, num_active, signalled, backlog, srv, peer, mishaps

(* svc_ipmb of ipmbd: the connections are the handlers they are given to,  *)
(* and the limit is SEQ_NUM_MAX (start_ipmb_lib_handler).                  *)
Service == INSTANCE IpcServiceProofs WITH Conns <- Handlers, ActiveLimit <- SeqMax

(* A handler runs while the service has its connection handled.            *)
RunsInService == \A h \in Handlers : pc[h] # "idle" => srv[h] = "handling"

LEMMA SameCardinality ==
  ASSUME NEW S PROVE Service!Cardinality(S) = Cardinality(S)
BY DEF Service!Cardinality, Cardinality

LEMMA SameFiniteness ==
  ASSUME NEW S PROVE Service!IsFiniteSet(S) <=> IsFiniteSet(S)
BY DEF Service!IsFiniteSet, IsFiniteSet

(* Handlers that run hold places, and there are SeqMax of them.            *)
LEMMA RunningAreFew ==
  ASSUME TypeOK, RunsInService, Service!LimitRespected
  PROVE  Cardinality(Busy) <= SeqMax
<1>1. Busy \subseteq Service!Active /\ Service!Active \subseteq Handlers
  BY DEF Busy, RunsInService, Service!Active
<1>2. /\ IsFiniteSet(Service!Active) /\ Cardinality(Busy) <= Cardinality(Service!Active)
      /\ Cardinality(Busy) \in Nat /\ Cardinality(Service!Active) \in Nat
  BY <1>1, HandlersAssumption, FS_Subset, FS_CardinalityType
<1>3. num_active \in {Cardinality(Service!Active), Cardinality(Service!Active) + 1}
  BY <1>2, SameCardinality DEF Service!LimitRespected, Service!PlacesCounted
<1>4. num_active <= SeqMax
  BY DEF Service!LimitRespected
<1> QED
  BY <1>2, <1>3, <1>4, SeqMaxAssumption

(* The two components together, a connection per handler: the service      *)
(* keeps the limit that the table of sequence numbers relies on, so that   *)
(* no search for a number ever fails, for any number of connections.       *)
THEOREM NeverExhaustedInService ==
  ASSUME WaitRetries \in Nat \ {0}, AcceptRetries \in Nat \ {0, 1},
         RcExpired \in SUBSET BOOLEAN, RcExpired # {}
  PROVE  Spec /\ Service!Spec /\ []RunsInService => []SeqNeverExhausted
<1>1. /\ Service!ConnsAssumption /\ Service!LimitAssumption
      /\ Service!RetriesAssumption /\ Service!RcAssumption
  BY SameFiniteness, SeqMaxAssumption, HandlersAssumption
     DEF Service!ConnsAssumption, Service!LimitAssumption, Service!RetriesAssumption,
         Service!RcAssumption
<1>2. Service!Spec => []Service!LimitRespected
  BY <1>1, Service!Limited, PTL
<1>3. TypeOK /\ RunsInService /\ Service!LimitRespected => Cardinality(Busy) <= SeqMax
  BY RunningAreFew
<1> QED
  BY <1>2, <1>3, NeverExhaustedWhileFew, Typing, PTL
=====
