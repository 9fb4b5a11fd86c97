--------------------------- MODULE IpmbdRequests ---------------------------
(***************************************************************************)
(* The request direction of ipmbd (ipmbd.c): the bridge IC sends requests  *)
(* over the bus, whose driver may damage the first byte of a packet; the   *)
(* receive thread (ipmb_rx_handler) repairs and checks it and posts it to  *)
(* the queue of requests; ipmb_req_handler has ipmid answer it             *)
(* (lib_ipmi_handle) and writes the answer to the bus, whose mutex it      *)
(* shares with the handlers of the requester side (Ipmbd).                 *)
(*                                                                         *)
(* Packets are bytes, with a request's number in its seq_lun; what ipmid   *)
(* answers is the number of the request it answers.  A packet has a        *)
(* command, or is the shortest that the receive thread lets through, which *)
(* has none.  Left out: the data after the command, that of answers, and   *)
(* the hooks of the platform.                                              *)
(***************************************************************************)
EXTENDS Integers, Sequences, SequencesExt

CONSTANTS
  NetFns,         \* netfn_lun of what the bridge sends: requests and responses
  Command,        \* cmd
  MqMax,          \* MQ_MAX_NUM_MSGS
  I2cRetriesMax,  \* I2C_RETRIES_MAX
  MaxPackets      \* bound: packets the bridge sends

Byte == 0 .. 255
BMC_SLAVE_ADDR == 32            \* shifted left by one, as on the bus
BRIDGE_SLAVE_ADDR == 64
IPMB_PKT_MIN_SIZE == 6
IPMB_HDR_SIZE == 5
IPMI_REQ_HDR_SIZE == 2
IPMI_RESP_HDR_SIZE == 3
Lengths == {IPMB_PKT_MIN_SIZE, IPMB_PKT_MIN_SIZE + 1}   \* of what the bridge sends

ASSUME IpmbdRequestsAssumption ==
  /\ NetFns \subseteq Byte /\ Command \in Byte
  /\ MqMax \in Nat \ {0} /\ I2cRetriesMax \in Nat \ {0} /\ MaxPackets \in 1 .. 63

Ids == 1 .. MaxPackets

VARIABLES
  up,      \* the daemon runs
  sent,    \* the packets the bridge has sent
  mq_req,  \* the queue of requests
  pc,      \* ipmb_req_handler: "receive", "ipmi", "build", "lock" or "write"
  rxbuf,   \* the request it handles
  tbuf,    \* whose answer ipmid's response buffer holds, 0 for none
  tlen,    \* its length: 0, or that of a response without data
  tries,   \* failed transmissions of the running i2c_write
  m_i2c,   \* the bus mutex: "free", "requests", or "others"
  asked    \* history: what the last call of ipmid came to, for the request in
           \* rxbuf: "answered", "failed", "closed", or "none" before the first

vars == <<up, sent, mq_req, pc, rxbuf, tbuf, tlen, tries, m_i2c, asked>>
handlerVars == <<pc, rxbuf, tbuf, tlen, tries, asked>>

-----------------------------------------------------------------------------
(* Packets.                                                                *)

(* The sum of the bytes up to the n-th, taken from 0.                      *)
calc_cksum(s) ==
  LET sum[n \in 0 .. Len(s)] == IF n = 0 THEN 0 ELSE sum[n - 1] + s[n]
  IN  (0 - sum[Len(s)]) % 256

Framed(head, tail) == head \o <<calc_cksum(head)>> \o tail \o <<calc_cksum(tail)>>

(* A packet of the least length has no command, and one more byte is it.   *)
Packet(id, netfn, len) ==
  Framed(<<BMC_SLAVE_ADDR, netfn>>,
         IF len = IPMB_PKT_MIN_SIZE THEN <<BRIDGE_SLAVE_ADDR, 4 * id>>
         ELSE <<BRIDGE_SLAVE_ADDR, 4 * id, Command>>)

Id(p) == p[5] \div 4                    \* seq_lun
IsResponse(p) == (p[2] \div 4) % 2 = 1  \* an odd netfn

HeaderOk(p) == p[3] = calc_cksum(SubSeq(p, 1, 2))

(* Mutant: the data's checksum is not looked at.                           *)
DataUnchecked(p) == TRUE

DataOk(p) == p[Len(p)] = calc_cksum(SubSeq(p, 4, Len(p) - 1))

WithAddress(p) == [p EXCEPT ![1] = BMC_SLAVE_ADDR]
Shifted(p) == <<BMC_SLAVE_ADDR>> \o p

(* Mutant: a first byte that is missing is not put back.                   *)
RepairsInPlace(p) ==
  IF HeaderOk(p) THEN {p}
  ELSE {q \in {WithAddress(p)} : p[1] # BMC_SLAVE_ADDR /\ HeaderOk(q)}

(* A bad header: the first byte is wrong, or, failing that, missing.       *)
Repairs(p) ==
  IF HeaderOk(p) THEN {p}
  ELSE IF p[1] = BMC_SLAVE_ADDR THEN {}
  ELSE IF HeaderOk(WithAddress(p)) THEN {WithAddress(p)}
  ELSE {q \in {Shifted(p)} : HeaderOk(q)}

(* What is left of a packet: itself repaired, or nothing.                  *)
Accepted(p) == {q \in Repairs(p) : Len(p) >= IPMB_PKT_MIN_SIZE /\ DataOk(q)}

(* What the bus makes of one: the two damages the code knows of, a bit     *)
(* lost or gained.                                                         *)
FirstByteDamages(p) == {[p EXCEPT ![1] = p[2]], Tail(p)}
Damages(p) ==
  {p} \union FirstByteDamages(p)
    \union {[p EXCEPT ![i] = (p[i] + 128) % 256] : i \in 1 .. Len(p)}

-----------------------------------------------------------------------------
Init ==
  /\ up = TRUE
  /\ sent = << >>
  /\ mq_req = << >>
  /\ pc = "receive" /\ rxbuf = << >> /\ tbuf = 0 /\ tlen = 0 /\ tries = 0
  /\ m_i2c = "free"
  /\ asked = "none"

(* Mutant: it is posted to a queue of any length.                          *)
PostedRegardless(p) ==
  mq_req' = mq_req \o [i \in 1 .. (IF IsResponse(p) THEN 0 ELSE 1) |-> p]

(* A response goes to the other queue (Ipmbd); a request is dropped when   *)
(* there is no room, the timeout of mq_timedsend lying in the past.        *)
Posted(p) ==
  mq_req' = IF ~ IsResponse(p) /\ Len(mq_req) < MqMax THEN Append(mq_req, p) ELSE mq_req

(* The bridge sends a packet q, and what the bus makes of it is read.      *)
Rx(q, p) ==
  /\ up /\ Len(sent) < MaxPackets
  /\ sent' = Append(sent, q)
  /\ p \in Damages(q)
  /\ \/ \E r \in Accepted(p) : Posted(r)
     \/ Accepted(p) = {} /\ UNCHANGED mq_req
  /\ UNCHANGED <<up, handlerVars, m_i2c>>

-----------------------------------------------------------------------------
(* ipmb_req_handler.                                                       *)

Fresh ==
  /\ mq_req' = << >>
  /\ pc' = "receive" /\ rxbuf' = << >> /\ tbuf' = 0 /\ tlen' = 0 /\ tries' = 0
  /\ m_i2c' = "free" /\ asked' = "none"

(* What memcpy is to copy of a request has a length, or a negative one.    *)
HasCommand(p) == Len(p) >= IPMB_HDR_SIZE + IPMI_REQ_HDR_SIZE

(* The daemon dies of a request without a command, before it asks ipmid.   *)
ReceiveOverrun ==
  /\ up /\ pc = "receive" /\ mq_req # << >>
  /\ ~ HasCommand(Head(mq_req))
  /\ up' = FALSE
  /\ Fresh /\ UNCHANGED sent

Receive ==
  /\ up /\ pc = "receive" /\ mq_req # << >>
  /\ HasCommand(Head(mq_req))
  /\ rxbuf' = Head(mq_req)
  /\ mq_req' = Tail(mq_req)
  /\ pc' = "ipmi"
  /\ UNCHANGED <<up, sent, tbuf, tlen, tries, m_i2c, asked>>

(* Mutant: the length is passed on before the answer.                      *)
IpmiAnswersLength ==
  /\ up /\ pc = "ipmi"
  /\ tlen' = IPMI_RESP_HDR_SIZE
  /\ pc' = "build" /\ asked' = "answered"
  /\ UNCHANGED <<up, sent, mq_req, rxbuf, tbuf, tries, m_i2c>>

IpmiAnswers ==
  /\ up /\ pc = "ipmi"
  /\ tbuf' = Id(rxbuf) /\ tlen' = IPMI_RESP_HDR_SIZE
  /\ pc' = "build" /\ asked' = "answered"
  /\ UNCHANGED <<up, sent, mq_req, rxbuf, tries, m_i2c>>

(* ipmid closes the connection without an answer: recv returns 0, and so   *)
(* does ipc_send_req.                                                      *)
IpmiCloses ==
  /\ up /\ pc = "ipmi"
  /\ tlen' = 0
  /\ pc' = "build" /\ asked' = "closed"
  /\ UNCHANGED <<up, sent, mq_req, rxbuf, tbuf, tries, m_i2c>>

(* It cannot be reached, or is late: nothing is written, nothing returned. *)
IpmiFails ==
  /\ up /\ pc = "ipmi"
  /\ pc' = "build" /\ asked' = IF asked = "none" THEN "none" ELSE "failed"
  /\ UNCHANGED <<up, sent, mq_req, rxbuf, tbuf, tlen, tries, m_i2c>>

Build ==
  /\ up /\ pc = "build" /\ tlen >= IPMI_RESP_HDR_SIZE
  /\ pc' = "lock"
  /\ UNCHANGED <<up, sent, mq_req, rxbuf, tbuf, tlen, tries, m_i2c, asked>>

(* The daemon dies of a response without a header, in the same way.        *)
Overrun ==
  /\ up /\ pc = "build" /\ tlen < IPMI_RESP_HDR_SIZE
  /\ up' = FALSE
  /\ Fresh /\ UNCHANGED sent

(* runsv starts it again, and it takes a new queue.                        *)
Restart ==
  /\ ~ up /\ up' = TRUE
  /\ UNCHANGED <<sent, mq_req, handlerVars, m_i2c>>

I2cLock ==
  /\ up /\ pc = "lock" /\ m_i2c = "free"
  /\ pc' = "write" /\ m_i2c' = "requests" /\ tries' = 0
  /\ UNCHANGED <<up, sent, mq_req, rxbuf, tbuf, tlen, asked>>

I2cSent ==
  /\ up /\ pc = "write"
  /\ pc' = "receive" /\ m_i2c' = "free"
  /\ UNCHANGED <<up, sent, mq_req, rxbuf, tbuf, tlen, tries, asked>>

(* Mutant: it starts over instead of giving up.                            *)
I2cFailsForever ==
  /\ up /\ pc = "write"
  /\ tries' = (tries + 1) % I2cRetriesMax
  /\ UNCHANGED <<up, sent, mq_req, pc, rxbuf, tbuf, tlen, m_i2c, asked>>

(* The last of the attempts gives the mutex back as well.                  *)
I2cFails ==
  /\ up /\ pc = "write"
  /\ IF tries + 1 < I2cRetriesMax
     THEN tries' = tries + 1 /\ UNCHANGED <<pc, m_i2c>>
     ELSE pc' = "receive" /\ m_i2c' = "free" /\ UNCHANGED tries
  /\ UNCHANGED <<up, sent, mq_req, rxbuf, tbuf, tlen, asked>>

(* A handler of the requester side takes the bus, and gives it back.       *)
OthersLock ==
  /\ up /\ m_i2c = "free" /\ m_i2c' = "others"
  /\ UNCHANGED <<up, sent, mq_req, handlerVars>>

OthersUnlock ==
  /\ m_i2c = "others" /\ m_i2c' = "free"
  /\ UNCHANGED <<up, sent, mq_req, handlerVars>>

Ipmi == IpmiAnswers \/ IpmiCloses \/ IpmiFails

Write == I2cSent \/ I2cFails

Next ==
  \/ \E netfn \in NetFns, len \in Lengths :
       LET q == Packet(Len(sent) + 1, netfn, len) IN \E p \in Damages(q) : Rx(q, p)
  \/ Receive \/ ReceiveOverrun \/ Ipmi \/ Build \/ Overrun \/ Restart
  \/ I2cLock \/ Write \/ OthersLock \/ OthersUnlock

Spec == Init /\ [][Next]_vars

(* The call of ipmid and the transmissions are bounded by timeouts and     *)
(* counts; the bus mutex is given back (Ipmbd) and does not starve.        *)
FairSpec ==
  /\ Spec
  /\ WF_vars(Receive) /\ WF_vars(ReceiveOverrun) /\ WF_vars(Ipmi) /\ WF_vars(Build)
  /\ WF_vars(Overrun) /\ WF_vars(Restart)
  /\ SF_vars(I2cLock) /\ WF_vars(Write) /\ WF_vars(OthersUnlock)

-----------------------------------------------------------------------------
(* Every variable keeps its type; the queue its length.                    *)
TypeOK ==
  /\ up \in BOOLEAN
  /\ sent \in Seq(Seq(Int)) /\ Len(sent) <= MaxPackets
  /\ mq_req \in Seq(Seq(Int)) /\ Len(mq_req) <= MqMax
  /\ pc \in {"receive", "ipmi", "build", "lock", "write"}
  /\ rxbuf \in Seq(Int)
  /\ tbuf \in Ids \union {0} /\ tlen \in {0, IPMI_RESP_HDR_SIZE}
  /\ tries \in 0 .. I2cRetriesMax - 1
  /\ m_i2c \in {"free", "requests", "others"}
  /\ asked \in {"none", "answered", "failed", "closed"}

(* What is posted is, byte for byte, a request the bridge sent: repairs    *)
(* and checksums never make another packet of a damaged one.               *)
PostedAsSent ==
  \A p \in ToSet(mq_req) : p \in ToSet(sent) /\ ~ IsResponse(p)

(* The repairs undo the two damages they are for, in the packets of every  *)
(* netfn and both lengths, but where a missing first byte leaves too little*)
(* or a netfn that looks like an address: the packet is then dropped.      *)
(* (Checked before the first packet.)                                      *)
RepairsUndo ==
  sent = << >> => \A netfn \in Byte, id \in {1, MaxPackets}, len \in Lengths :
    LET q == Packet(id, netfn, len)
        lost == len = IPMB_PKT_MIN_SIZE \/ netfn \in {BMC_SLAVE_ADDR, BRIDGE_SLAVE_ADDR}
    IN  /\ Accepted(q) = {q}
        /\ \A p \in FirstByteDamages(q) :
             Accepted(p) = IF p = Tail(q) /\ lost THEN {} ELSE {q}

(* What comes of lengths and of a call of ipmid that nobody checks: the    *)
(* answer to a request is ipmid's answer to it, or, when ipmid could not   *)
(* be asked, to an earlier one; and the daemon dies only of an ipmid that  *)
(* closes the connection on it or has never answered it since it started,  *)
(* or of a request without a command, which is then one that the bridge    *)
(* sent so and not what the bus made of another.                           *)
StaleOnlyAfterFailure ==
  [][/\ I2cSent => tbuf = Id(rxbuf) \/ asked = "failed"
     /\ up /\ ~ up' =>
          \/ pc = "build" /\ asked \in {"none", "closed"}
          \/ /\ pc = "receive" /\ Head(mq_req) \in ToSet(sent)
             /\ ~ HasCommand(Head(mq_req))]_vars

(* Every request is done with in the end, whatever ipmid, the bus and the  *)
(* others who use it do.                                                   *)
Pending(k) == \E p \in ToSet(mq_req) \union (IF pc = "receive" THEN {} ELSE {rxbuf}) : Id(p) = k

RequestsLeave == \A k \in Ids : Pending(k) ~> ~ Pending(k)
=============================================================================
