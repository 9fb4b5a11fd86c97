------------------------------- MODULE Ipmbd -------------------------------
(***************************************************************************)
(* The requester side of ipmbd, the daemon that owns one IPMB (i2c) bus:   *)
(* common/recipes-core/ipmbd/files/ipmbd.c.                                *)
(*                                                                         *)
(* Local programs ask the daemon to send a request to the bridge IC; every *)
(* connection is served by a thread of its own (a "handler").  A handler   *)
(* takes a sequence number from the table g_seq, writes the request to the *)
(* bus and waits on the semaphore of that number.  The receive thread      *)
(* (ipmb_rx_handler) posts what arrives from the bus to a message queue;   *)
(* the response thread (ipmb_res_handler) pops it and seq_put copies it to *)
(* the buffer of whoever holds the number.                                 *)
(*                                                                         *)
(* The critical sections of m_seq are short and nest no other lock: each   *)
(* is one atomic action.  The section of m_i2c spans retries and is not.   *)
(***************************************************************************)
EXTENDS Integers, Sequences, FiniteSets

CONSTANTS
  Handlers,        \* threads the IPC service may run at once
  NoHandler,       \* NULL in p_buf, and "m_i2c is free"
  NoMsg,           \* no response (a buffer nothing was copied to)
  SeqMax,          \* SEQ_NUM_MAX
  I2cRetriesMax,   \* I2C_RETRIES_MAX
  MqMax,           \* MQ_MAX_NUM_MSGS
  BicUp,           \* bic_up_flag: only BIC updates are let through
  MaxReqs          \* bound: no request is read once so many got a number

Seqs == 0 .. SeqMax - 1

(***************************************************************************)
(* A message stands for a request and for its response: the request it     *)
(* belongs to, the sequence number it carries, and which transmission of   *)
(* the retry loop of i2c_write delivered it (each may be answered once).   *)
(***************************************************************************)
Msgs == [id : Nat, seq : Seqs, copy : 1 .. I2cRetriesMax]

ASSUME SeqMaxAssumption  == SeqMax \in Nat \ {0}
ASSUME RetriesAssumption == I2cRetriesMax \in Nat \ {0}
ASSUME BoundsAssumption  == MqMax \in Nat \ {0} /\ MaxReqs \in Nat
ASSUME BicUpAssumption   == BicUp \in BOOLEAN
ASSUME HandlersAssumption == IsFiniteSet(Handlers) /\ NoHandler \notin Handlers
ASSUME NoMsgAssumption   == NoMsg \notin Msgs

VARIABLES
  pc,        \* pc[h]: where handler h is in conn_handler / ipmb_handle
  index,     \* index[h]: its sequence number, once allocated
  req,       \* req[h]: the id of the request it carries
  tries,     \* tries[h]: failed transmissions of the running i2c_write
  res_buf,   \* res_buf[h]: its response buffer, on its stack
  res_len,   \* res_len[h]: 1 when the buffer is to be sent to the client
  curr_seq,  \* g_seq.curr_seq
  seq,       \* g_seq.seq: the table of sequence numbers
  m_i2c,     \* holder of the bus mutex
  bridge,    \* transmissions the bridge IC got and has not answered
  mq_res,    \* the message queue of responses
  res_msg,   \* the response ipmb_res_handler holds, popped from mq_res
  nreq       \* requests issued so far

vars == <<pc, index, req, tries, res_buf, res_len, curr_seq, seq, m_i2c,
          bridge, mq_res, res_msg, nreq>>

tableVars == <<curr_seq, seq>>
busVars   == <<m_i2c, bridge>>
rxVars    == <<mq_res, res_msg>>
localVars == <<index, req, tries, res_buf, res_len>>

(***************************************************************************)
(* A handler holds a sequence number from seq_get_new to the end of        *)
(* ipmb_handle.  "woken" and "out" are both ipmb_handle_out: reached       *)
(* through a semaphore post, or through a failure or a timeout.            *)
(***************************************************************************)
Holding == {"send", "write", "wait", "woken", "out"}
PcValues == {"idle", "recv", "alloc", "reply"} \union Holding

Slots == [in_use : BOOLEAN, len : {0, 1},
          p_buf : Handlers \union {NoHandler}, sem : Nat]

FreeSlot == [in_use |-> FALSE, len |-> 0, p_buf |-> NoHandler, sem |-> 0]

Init ==
  /\ pc = [h \in Handlers |-> "idle"]
  /\ index = [h \in Handlers |-> 0]
  /\ req = [h \in Handlers |-> 0]
  /\ tries = [h \in Handlers |-> 0]
  /\ res_buf = [h \in Handlers |-> NoMsg]
  /\ res_len = [h \in Handlers |-> 0]
  /\ curr_seq = 0
  /\ seq = [i \in Seqs |-> FreeSlot]
  /\ m_i2c = NoHandler
  /\ bridge = {}
  /\ mq_res = <<>>
  /\ res_msg = NoMsg
  /\ nreq = 0

Goto(h, from, to) ==
  /\ pc[h] = from
  /\ pc' = [pc EXCEPT ![h] = to]

-----------------------------------------------------------------------------
(* The handler thread: conn_handler and ipmb_handle.                       *)

(* The IPC service starts a handler for a connection.                      *)
Accept(h) ==
  /\ Goto(h, "idle", "recv")
  /\ UNCHANGED <<localVars, tableVars, busVars, rxVars, nreq>>

(* ipc_recv_req timed out or failed.                                       *)
RecvFail(h) ==
  /\ Goto(h, "recv", "idle")
  /\ UNCHANGED <<localVars, tableVars, busVars, rxVars, nreq>>

(* A request was read; in BIC-update mode any other command is refused.    *)
RecvReq(h, isUpdate) ==
  /\ nreq < MaxReqs
  /\ Goto(h, "recv", IF BicUp /\ ~isUpdate THEN "idle" ELSE "alloc")
  /\ UNCHANGED <<localVars, tableVars, busVars, rxVars, nreq>>

(* Mutants: the search always starts at 0; the search ignores in_use.      *)
AheadOfZero(i) == i
FreeSeqsAny == Seqs

(* The cyclic distance of number i from the number the search starts at.   *)
Ahead(i) == (i - curr_seq + SeqMax) % SeqMax

FreeSeqs == {i \in Seqs : ~seq[i].in_use}

(* What seq_get_new writes to the slot it takes: the semaphore keeps the   *)
(* count the number's last holder left in it.  Mutant: len is kept too.    *)
TakenKeepingLen(slot, h) == [slot EXCEPT !.in_use = TRUE, !.p_buf = h]

Taken(slot, h) == [slot EXCEPT !.in_use = TRUE, !.len = 0, !.p_buf = h]

Released(slot) == [slot EXCEPT !.in_use = FALSE, !.p_buf = NoHandler]

(* sem_post, after the response is copied; and a sem_timedwait that found  *)
(* the semaphore posted.                                                   *)
Posted(slot) == [slot EXCEPT !.len = 1, !.sem = slot.sem + 1]

Consumed(slot) == [slot EXCEPT !.sem = slot.sem - 1]

(* Where the next search starts.                                           *)
NextSeq(i) == (i + 1) % SeqMax

(* seq_get_new found a number: the first free one from curr_seq on.        *)
SeqGetNew(h) ==
  /\ Goto(h, "alloc", "send")
  /\ \E i \in FreeSeqs :
       /\ \A j \in FreeSeqs : Ahead(i) <= Ahead(j)
       /\ index' = [index EXCEPT ![h] = i]
       /\ seq' = [seq EXCEPT ![i] = Taken(seq[i], h)]
       /\ curr_seq' = NextSeq(i)
  /\ nreq' = nreq + 1
  /\ req' = [req EXCEPT ![h] = nreq + 1]
  /\ UNCHANGED <<tries, res_buf, res_len, busVars, rxVars>>

(* seq_get_new found none: the client gets an empty answer.                *)
SeqGetNone(h) ==
  /\ FreeSeqs = {}
  /\ Goto(h, "alloc", "reply")
  /\ res_len' = [res_len EXCEPT ![h] = 0]
  /\ UNCHANGED <<index, req, tries, res_buf, tableVars, busVars, rxVars, nreq>>

(* The platform hook pal_ipmb_processing refuses the request.              *)
PalReject(h) ==
  /\ Goto(h, "send", "out")
  /\ UNCHANGED <<localVars, tableVars, busVars, rxVars, nreq>>

(* i2c_write takes the bus mutex.                                          *)
I2cLock(h) ==
  /\ m_i2c = NoHandler
  /\ Goto(h, "send", "write")
  /\ m_i2c' = h
  /\ tries' = [tries EXCEPT ![h] = 0]
  /\ UNCHANGED <<index, req, res_buf, res_len, tableVars, bridge, rxVars, nreq>>

Transmission(h) == [id |-> req[h], seq |-> index[h], copy |-> tries[h] + 1]

(* Mutant: the semaphore is cleared once the request is sent.              *)
I2cSentDrain(h) ==
  /\ Goto(h, "write", "wait")
  /\ m_i2c' = NoHandler
  /\ bridge' = bridge \union {Transmission(h)}
  /\ seq' = [seq EXCEPT ![index[h]].sem = 0]
  /\ UNCHANGED <<localVars, curr_seq, rxVars, nreq>>

(* The ioctl succeeds: the bridge has the request.                         *)
I2cSent(h) ==
  /\ Goto(h, "write", "wait")
  /\ m_i2c' = NoHandler
  /\ bridge' = bridge \union {Transmission(h)}
  /\ UNCHANGED <<localVars, tableVars, rxVars, nreq>>

(* The ioctl fails, though the bridge may have got the bytes all the same; *)
(* the loop tries again until the attempts are used up.                    *)
I2cFail(h, delivered) ==
  /\ pc[h] = "write"
  /\ bridge' = IF delivered THEN bridge \union {Transmission(h)} ELSE bridge
  /\ IF tries[h] + 1 < I2cRetriesMax
     THEN /\ tries' = [tries EXCEPT ![h] = @ + 1]
          /\ UNCHANGED <<pc, m_i2c>>
     ELSE /\ pc' = [pc EXCEPT ![h] = "out"]
          /\ m_i2c' = NoHandler
          /\ UNCHANGED tries
  /\ UNCHANGED <<index, req, res_buf, res_len, tableVars, rxVars, nreq>>

(* sem_timedwait returns at once when the semaphore was posted...          *)
Wake(h) ==
  /\ seq[index[h]].sem > 0
  /\ Goto(h, "wait", "woken")
  /\ seq' = [seq EXCEPT ![index[h]] = Consumed(seq[index[h]])]
  /\ UNCHANGED <<localVars, curr_seq, busVars, rxVars, nreq>>

(* Mutant: sem_wait in the place of sem_timedwait.                         *)
TimeoutNever(h) == pc[h] = "wait" /\ FALSE /\ UNCHANGED vars

(* ...and after TIMEOUT_IPMB seconds otherwise.                            *)
Timeout(h) ==
  /\ seq[index[h]].sem = 0
  /\ Goto(h, "wait", "out")
  /\ UNCHANGED <<localVars, tableVars, busVars, rxVars, nreq>>

(* Mutant: the length is read but the number is not given up.              *)
ReleaseForgotten(h) ==
  /\ pc[h] \in {"woken", "out"}
  /\ pc' = [pc EXCEPT ![h] = "reply"]
  /\ res_len' = [res_len EXCEPT ![h] = seq[index[h]].len]
  /\ UNCHANGED <<index, req, tries, res_buf, tableVars, busVars, rxVars, nreq>>

(* ipmb_handle_out: the length is read and the number given up under m_seq.*)
Release(h) ==
  /\ pc[h] \in {"woken", "out"}
  /\ pc' = [pc EXCEPT ![h] = "reply"]
  /\ res_len' = [res_len EXCEPT ![h] = seq[index[h]].len]
  /\ seq' = [seq EXCEPT ![index[h]] = Released(seq[index[h]])]
  /\ UNCHANGED <<index, req, tries, res_buf, curr_seq, busVars, rxVars, nreq>>

(* The buffer is sent (nothing, when res_len is 0), the connection ends,   *)
(* and the handler's stack is gone.                                        *)
Reply(h) ==
  /\ Goto(h, "reply", "idle")
  /\ index' = [index EXCEPT ![h] = 0]
  /\ req' = [req EXCEPT ![h] = 0]
  /\ tries' = [tries EXCEPT ![h] = 0]
  /\ res_buf' = [res_buf EXCEPT ![h] = NoMsg]
  /\ res_len' = [res_len EXCEPT ![h] = 0]
  /\ UNCHANGED <<tableVars, busVars, rxVars, nreq>>

-----------------------------------------------------------------------------
(* The receive thread: a response is read off the bus.  A packet whose     *)
(* size or checksums are wrong is dropped; so is one the queue has no room *)
(* for (the timeout of mq_timedsend lies in the past).                     *)

RxCorrupt(m) ==
  /\ bridge' = bridge \ {m}
  /\ UNCHANGED <<pc, localVars, tableVars, m_i2c, rxVars, nreq>>

RxResponse(m) ==
  /\ bridge' = bridge \ {m}
  /\ mq_res' = IF Len(mq_res) < MqMax THEN Append(mq_res, m) ELSE mq_res
  /\ UNCHANGED <<pc, localVars, tableVars, m_i2c, res_msg, nreq>>

-----------------------------------------------------------------------------
(* The response thread.                                                    *)

ResReceive ==
  /\ res_msg = NoMsg
  /\ mq_res # <<>>
  /\ res_msg' = Head(mq_res)
  /\ mq_res' = Tail(mq_res)
  /\ UNCHANGED <<pc, localVars, tableVars, busVars, nreq>>

Waited(i) == seq[i].in_use /\ seq[i].p_buf # NoHandler

(* seq_put: the response goes to the buffer of the number's holder, whose  *)
(* semaphore is posted; nobody holding the number, it is dropped.          *)
SeqPut ==
  /\ res_msg # NoMsg
  /\ res_msg' = NoMsg
  /\ LET i == res_msg.seq IN
       IF Waited(i)
       THEN /\ res_buf' = [res_buf EXCEPT ![seq[i].p_buf] = res_msg]
            /\ seq' = [seq EXCEPT ![i] = Posted(seq[i])]
       ELSE UNCHANGED <<res_buf, seq>>
  /\ UNCHANGED <<pc, index, req, tries, res_len, curr_seq, busVars, mq_res, nreq>>

-----------------------------------------------------------------------------
HandlerStep(h) ==
  \/ RecvFail(h) \/ \E u \in BOOLEAN : RecvReq(h, u)
  \/ SeqGetNew(h) \/ SeqGetNone(h)
  \/ PalReject(h) \/ I2cLock(h) \/ I2cSent(h)
  \/ \E d \in BOOLEAN : I2cFail(h, d)
  \/ Wake(h) \/ Timeout(h) \/ Release(h) \/ Reply(h)

ResStep == ResReceive \/ SeqPut

Next ==
  \/ \E h \in Handlers : Accept(h) \/ HandlerStep(h)
  \/ \E m \in bridge : RxCorrupt(m) \/ RxResponse(m)
  \/ ResStep

Spec == Init /\ [][Next]_vars

(***************************************************************************)
(* Every wait of a handler but that for m_i2c is bounded by a timeout of   *)
(* the code or by a short critical section: weak fairness.  The mutex is   *)
(* assumed not to starve a thread that keeps asking: strong fairness.  The *)
(* clients, the bus and the bridge IC owe nothing.                         *)
(***************************************************************************)
Fairness ==
  \A h \in Handlers :
    /\ WF_vars(RecvFail(h) \/ \E u \in BOOLEAN : RecvReq(h, u))
    /\ WF_vars(SeqGetNew(h) \/ SeqGetNone(h))
    /\ SF_vars(I2cLock(h))
    /\ WF_vars(I2cSent(h) \/ \E d \in BOOLEAN : I2cFail(h, d))
    /\ WF_vars(Wake(h) \/ Timeout(h))
    /\ WF_vars(Release(h))
    /\ WF_vars(Reply(h))

FairSpec == Spec /\ Fairness

-----------------------------------------------------------------------------
(* Every variable has its type.                                            *)
TypeOK ==
  /\ pc \in [Handlers -> PcValues]
  /\ index \in [Handlers -> Seqs]
  /\ req \in [Handlers -> Nat]
  /\ tries \in [Handlers -> 0 .. I2cRetriesMax - 1]
  /\ res_buf \in [Handlers -> Msgs \union {NoMsg}]
  /\ res_len \in [Handlers -> {0, 1}]
  /\ curr_seq \in Seqs
  /\ seq \in [Seqs -> Slots]
  /\ m_i2c \in Handlers \union {NoHandler}
  /\ bridge \in SUBSET Msgs
  /\ mq_res \in Seq(Msgs)
  /\ res_msg \in Msgs \union {NoMsg}
  /\ nreq \in Nat

(* A sequence number belongs to one handler from seq_get_new to the end of *)
(* ipmb_handle, and the table points at no other handler's stack: no two   *)
(* requests share a number, no number leaks.                               *)
HolderOwnsSlot ==
  \A h \in Handlers : pc[h] \in Holding =>
    seq[index[h]].in_use /\ seq[index[h]].p_buf = h

SlotHasHolder ==
  \A i \in Seqs :
    IF seq[i].in_use
    THEN \E h \in Handlers : seq[i].p_buf = h /\ pc[h] \in Holding /\ index[h] = i
    ELSE seq[i].p_buf = NoHandler

SlotOwnership == HolderOwnsSlot /\ SlotHasHolder

(* The search of seq_get_new never fails, as long as the service runs no   *)
(* more handlers than there are numbers.                                   *)
SeqNeverExhausted ==
  \A h \in Handlers : pc[h] = "alloc" => FreeSeqs # {}

(* A response that reaches a client whose request it does not answer is a  *)
(* late one: the client it answers has left ipmb_handle.  The responses of *)
(* requests that are waited for at the same time are never crossed.        *)
ForeignResponseIsLate ==
  \A h, g \in Handlers :
    /\ res_buf[h] # NoMsg
    /\ h # g
    /\ pc[g] \in Holding
    => res_buf[h].id # req[g]

(* ... and it comes from far back: with the numbers handed out round       *)
(* robin, a number is reused only after all those that were free.          *)
ReuseDistance ==
  \A h \in Handlers :
    res_buf[h] # NoMsg /\ res_buf[h].id # req[h]
      => req[h] - res_buf[h].id > SeqMax - Cardinality(Handlers)

(* What a client is sent is what arrived for its number before it was      *)
(* given up, after a timeout too: never bytes of an unwritten buffer, and  *)
(* never nothing when a response was accepted (seq_put returned 0).        *)
ReplyIsWhatArrived ==
  \A h \in Handlers :
    pc[h] = "reply" => (res_len[h] = 1 <=> res_buf[h] # NoMsg)

(* No wake-up is lost: a waiting handler whose response is in its buffer   *)
(* finds the semaphore posted.                                             *)
NoLostWakeup ==
  \A h \in Handlers :
    pc[h] = "wait" /\ seq[index[h]].len # 0 => seq[index[h]].sem > 0

(* Once a handler has given up its number, nobody writes its buffer: it is *)
(* sent to the client without a lock, and then its stack frame is gone.    *)
BufferStableAfterRelease ==
  [][\A h \in Handlers :
       pc[h] \in {"reply", "idle"} /\ pc'[h] = pc[h] => res_buf'[h] = res_buf[h]]_vars

(* Every connection is served to its end, whatever the bus and the bridge  *)
(* IC do: responses lost, late or repeated.                                *)
HandlerReturns ==
  \A h \in Handlers : pc[h] # "idle" ~> pc[h] = "idle"

(* seq_put's comment: "Wake up the worker thread to receive the response". *)
(* A worker that is woken finds the response to its request.  The code     *)
(* breaks this in two ways: a post that comes after a timeout, or twice,   *)
(* stays in the semaphore and wakes the number's next holder before any    *)
(* response; and a response that arrives once the number has a new holder  *)
(* is taken for the new holder's.                                          *)
WokenByResponse ==
  \A h \in Handlers :
    pc[h] = "woken" => seq[index[h]].len # 0 /\ res_buf[h].id = req[h]
=============================================================================
