------------------------ MODULE IpmbdRequestsProofs ------------------------
(***************************************************************************)
(* Theorems about the handling of requests, for every size of the queue,   *)
(* number of attempts and set of packets.                                  *)
(***************************************************************************)
EXTENDS IpmbdRequests, SequenceTheorems, TLAPS

(* What the last call of ipmid leaves in the length and in the buffer.     *)
Inv ==
  /\ pc \in {"receive", "ipmi", "build", "lock", "write"}
  /\ asked \in {"none", "answered", "failed", "closed"}
  /\ asked \in {"answered", "failed"} => tlen = IPMI_RESP_HDR_SIZE
  /\ asked = "closed" => pc = "build" /\ tlen = 0
  /\ asked = "none" => tlen = 0 /\ pc \in {"receive", "ipmi", "build"}
  /\ asked = "answered" /\ pc \in {"build", "lock", "write"} => tbuf = Id(rxbuf)

LEMMA InitInv == Init => Inv
  BY DEF Init, Inv

LEMMA HandlerKeeps ==
  ASSUME Inv, Receive \/ ReceiveOverrun \/ Build \/ Overrun \/ I2cLock \/ Write PROVE Inv'
<1> USE DEF Inv
<1>1. CASE Receive
  BY <1>1 DEF Receive
<1>2. CASE Build
  BY <1>2 DEF Build, IPMI_RESP_HDR_SIZE
<1>3. CASE ReceiveOverrun \/ Overrun
  BY <1>3 DEF ReceiveOverrun, Overrun, Fresh
<1>4. CASE I2cLock
  BY <1>4 DEF I2cLock
<1>5. CASE Write
  BY <1>5 DEF Write, I2cSent, I2cFails
<1> QED
  BY <1>1, <1>2, <1>3, <1>4, <1>5

LEMMA IpmiKeeps ==
  ASSUME Inv, Ipmi PROVE Inv'
<1>1. pc = "ipmi" /\ pc' = "build" /\ rxbuf' = rxbuf
  BY DEF Ipmi, IpmiAnswers, IpmiCloses, IpmiFails
<1>2. CASE IpmiAnswers
  <2>1. tbuf' = Id(rxbuf')
    BY <1>1, <1>2 DEF IpmiAnswers, Id
  <2> QED
    BY <1>1, <1>2, <2>1 DEF IpmiAnswers, Inv
<1>3. CASE IpmiCloses
  BY <1>1, <1>3 DEF IpmiCloses, Inv
<1>4. CASE IpmiFails
  BY <1>1, <1>4 DEF IpmiFails, Inv
<1> QED
  BY <1>2, <1>3, <1>4 DEF Ipmi

LEMMA InvNext == Inv /\ [Next]_vars => Inv'
<1> SUFFICES ASSUME Inv, [Next]_vars PROVE Inv'
  OBVIOUS
<1>1. ASSUME UNCHANGED <<pc, rxbuf, tbuf, tlen, asked>> PROVE Inv'
  BY <1>1 DEF Inv, Id
<1>2. ASSUME NEW q, NEW p, Rx(q, p) PROVE Inv'
  BY <1>1, <1>2 DEF Rx, handlerVars
<1>3. CASE Restart \/ OthersLock \/ OthersUnlock
  BY <1>1, <1>3 DEF Restart, OthersLock, OthersUnlock, handlerVars
<1>4. CASE UNCHANGED vars
  BY <1>1, <1>4 DEF vars
<1> QED
  BY <1>2, <1>3, <1>4, HandlerKeeps, IpmiKeeps DEF Next

THEOREM Inductive == Spec => []Inv
  BY InitInv, InvNext, PTL DEF Spec

-----------------------------------------------------------------------------
(* Packets and their checksums.                                            *)

(* What calc_cksum makes of the two or three bytes it is given.            *)
LEMMA CksumOf ==
  ASSUME NEW s \in Seq(Int), Len(s) \in {2, 3}
  PROVE  /\ Len(s) = 2 => calc_cksum(s) = (0 - (s[1] + s[2])) % 256
         /\ Len(s) = 3 => calc_cksum(s) = (0 - (s[1] + s[2] + s[3])) % 256
<1> DEFINE IsSum(f) == f = [n \in 0 .. Len(s) |-> IF n = 0 THEN 0 ELSE f[n - 1] + s[n]]
           sum == CHOOSE f : IsSum(f)
           partial == [n \in 0 .. Len(s) |->
                         IF n = 0 THEN 0 ELSE IF n = 1 THEN s[1]
                         ELSE IF n = 2 THEN s[1] + s[2]
                         ELSE s[1] + s[2] + s[3]]
<1>1. IsSum(partial)
  <2>1. \A n \in 0 .. Len(s) :
          partial[n] = IF n = 0 THEN 0 ELSE partial[n - 1] + s[n]
    <3> SUFFICES ASSUME NEW n \in 0 .. Len(s)
                 PROVE  partial[n] = IF n = 0 THEN 0 ELSE partial[n - 1] + s[n]
      OBVIOUS
    <3>1. n = 0 \/ n - 1 \in 0 .. Len(s)
      OBVIOUS
    <3>2. n \in {0, 1, 2, 3}
      <4>1. Len(s) = 2 \/ Len(s) = 3
        OBVIOUS
      <4>2. CASE Len(s) = 2
        <5>1. n \in 0 .. 2
          BY <4>2
        <5> QED
          BY <5>1
      <4>3. CASE Len(s) = 3
        <5>1. n \in 0 .. 3
          BY <4>3
        <5> QED
          BY <5>1
      <4> QED
        BY <4>1, <4>2, <4>3
    <3> QED
      BY <3>1, <3>2
  <2> QED
    BY <2>1
<1>2. IsSum(sum)
  <2> HIDE DEF IsSum, partial
  <2> QED
    BY <1>1
<1>3. calc_cksum(s) = (0 - sum[Len(s)]) % 256
  BY DEF calc_cksum
<1>4. \A n \in 0 .. Len(s) : sum[n] = IF n = 0 THEN 0 ELSE sum[n - 1] + s[n]
  <2> HIDE DEF sum
  <2> QED
    BY <1>2
<1> HIDE DEF sum
<1>5. sum[0] = 0 /\ sum[1] = s[1] /\ sum[2] = s[1] + s[2]
  BY <1>4
<1>6. Len(s) = 3 => sum[3] = s[1] + s[2] + s[3]
  BY <1>4, <1>5
<1> QED
  <2>1. Len(s) = 2 => calc_cksum(s) = (0 - (s[1] + s[2])) % 256
    BY <1>3, <1>5
  <2>2. Len(s) = 3 => calc_cksum(s) = (0 - (s[1] + s[2] + s[3])) % 256
    BY <1>3, <1>6
  <2> QED
    BY <2>1, <2>2

(* The bytes of a concatenation.                                           *)
LEMMA Joined ==
  ASSUME NEW s \in Seq(Int), NEW t \in Seq(Int), NEW u, u = s \o t
  PROVE  /\ u \in Seq(Int) /\ Len(u) = Len(s) + Len(t)
         /\ \A i \in 1 .. Len(s) + Len(t) :
              u[i] = IF i <= Len(s) THEN s[i] ELSE t[i - Len(s)]
<1>1. /\ s \o t \in Seq(Int) /\ Len(s \o t) = Len(s) + Len(t)
      /\ \A i \in 1 .. Len(s) + Len(t) :
           (s \o t)[i] = IF i <= Len(s) THEN s[i] ELSE t[i - Len(s)]
  BY ConcatProperties
<1> QED
  BY <1>1

(* The bytes of a packet, with a command or without.                       *)
IsPacket(q, id, netfn) ==
  /\ q \in Seq(Int) /\ Len(q) \in {6, 7}
  /\ q[1] = 32 /\ q[2] = netfn /\ q[3] = (0 - (32 + netfn)) % 256
  /\ q[4] = 64 /\ q[5] = 4 * id
  /\ Len(q) = 6 => q[6] = (0 - (64 + 4 * id)) % 256
  /\ Len(q) = 7 => q[6] = Command /\ q[7] = (0 - (64 + 4 * id + Command)) % 256

(* What is before a packet's two checksums.                                *)
IsHead(h, netfn) ==
  h \in Seq(Int) /\ Len(h) = 2 /\ h[1] = 32 /\ h[2] = netfn
IsTail(t, id) ==
  /\ t \in Seq(Int) /\ Len(t) \in {2, 3} /\ t[1] = 64 /\ t[2] = 4 * id
  /\ Len(t) = 3 => t[3] = Command

LEMMA FramedBytes ==
  ASSUME NEW id \in Nat, NEW netfn \in Byte, NEW head, NEW tail,
         IsHead(head, netfn), IsTail(tail, id)
  PROVE  IsPacket(Framed(head, tail), id, netfn) /\ Len(Framed(head, tail)) = Len(tail) + 4
<1>1. netfn \in Int /\ Command \in Int /\ 4 * id \in Int
  BY IpmbdRequestsAssumption DEF Byte
<1> DEFINE c == calc_cksum(head)
           d == calc_cksum(tail)
           cs == <<c>>
           ds == <<d>>
<1>2. Framed(head, tail) = head \o cs \o tail \o ds
  BY DEF Framed
<1>3. c = (0 - (32 + netfn)) % 256
  <2>1. head \in Seq(Int) /\ Len(head) \in {2, 3} /\ Len(head) = 2
    BY DEF IsHead
  <2>2. c = (0 - (head[1] + head[2])) % 256
    BY <2>1, CksumOf
  <2> QED
    BY <2>2 DEF IsHead
<1>4. /\ Len(tail) = 2 => d = (0 - (64 + 4 * id)) % 256
      /\ Len(tail) = 3 => d = (0 - (64 + 4 * id + Command)) % 256
  <2>1. /\ Len(tail) = 2 => d = (0 - (tail[1] + tail[2])) % 256
        /\ Len(tail) = 3 => d = (0 - (tail[1] + tail[2] + tail[3])) % 256
    <3>1. tail \in Seq(Int) /\ Len(tail) \in {2, 3}
      BY DEF IsTail
    <3> QED
      BY <3>1, CksumOf
  <2> HIDE DEF d
  <2> QED
    BY <2>1 DEF IsTail
<1>5. c \in Int /\ d \in Int
  <2>1. c \in Int
    BY <1>1, <1>3
  <2> HIDE DEF d
  <2>2. Len(tail) = 2 \/ Len(tail) = 3
    BY DEF IsTail
  <2>3. 0 - (64 + 4 * id) \in Int /\ 0 - (64 + 4 * id + Command) \in Int
    BY <1>1
  <2>4. d \in Int
    BY <1>4, <2>2, <2>3
  <2> QED
    BY <2>1, <2>4
<1> HIDE DEF c, d
<1>6. cs \in Seq(Int) /\ Len(cs) = 1 /\ cs[1] = c
  BY <1>5
<1>7. ds \in Seq(Int) /\ Len(ds) = 1 /\ ds[1] = d
  BY <1>5
<1> HIDE DEF cs, ds
<1>8. PICK a : a = head \o cs
  OBVIOUS
<1>9. PICK b : b = a \o tail
  OBVIOUS
<1>10. PICK q : q = b \o ds
  OBVIOUS
<1>11. /\ a \in Seq(Int) /\ Len(a) = Len(head) + Len(cs)
       /\ \A i \in 1 .. Len(head) + Len(cs) :
            a[i] = IF i <= Len(head) THEN head[i] ELSE cs[i - Len(head)]
  <2>1. head \in Seq(Int) /\ cs \in Seq(Int)
    BY <1>6 DEF IsHead
  <2> QED
    BY <1>8, <2>1, Joined
<1>12. a \in Seq(Int) /\ Len(a) = 3 /\ a[1] = 32 /\ a[2] = netfn /\ a[3] = c
  BY <1>6, <1>11 DEF IsHead
<1>13. /\ b \in Seq(Int) /\ Len(b) = Len(a) + Len(tail)
       /\ \A i \in 1 .. Len(a) + Len(tail) :
            b[i] = IF i <= Len(a) THEN a[i] ELSE tail[i - Len(a)]
  <2>1. a \in Seq(Int) /\ tail \in Seq(Int)
    BY <1>12 DEF IsTail
  <2> QED
    BY <1>9, <2>1, Joined
<1>14. /\ b \in Seq(Int) /\ Len(b) = Len(tail) + 3
       /\ b[1] = a[1] /\ b[2] = a[2] /\ b[3] = a[3] /\ b[4] = tail[1] /\ b[5] = tail[2]
       /\ Len(tail) = 3 => b[6] = tail[3]
  <2>1. CASE Len(tail) = 2
    BY <1>12, <1>13, <2>1
  <2>2. CASE Len(tail) = 3
    BY <1>12, <1>13, <2>2
  <2> QED
    BY <2>1, <2>2 DEF IsTail
<1>15. /\ q \in Seq(Int) /\ Len(q) = Len(b) + Len(ds)
       /\ \A i \in 1 .. Len(b) + Len(ds) :
            q[i] = IF i <= Len(b) THEN b[i] ELSE ds[i - Len(b)]
  <2>1. b \in Seq(Int) /\ ds \in Seq(Int)
    BY <1>7, <1>14
  <2> QED
    BY <1>10, <2>1, Joined
<1>16. CASE Len(tail) = 2
  <2>1. /\ Len(q) = 6 /\ q \in Seq(Int)
        /\ q[1] = b[1] /\ q[2] = b[2] /\ q[3] = b[3] /\ q[4] = b[4] /\ q[5] = b[5]
        /\ q[6] = d
    BY <1>7, <1>14, <1>15, <1>16
  <2>2. /\ q[1] = 32 /\ q[2] = netfn /\ q[3] = c /\ q[4] = 64 /\ q[5] = 4 * id
    BY <1>12, <1>14, <2>1 DEF IsTail
  <2>3. IsPacket(q, id, netfn)
    BY <1>3, <1>4, <1>16, <2>1, <2>2 DEF IsPacket
  <2> QED
    BY <1>2, <1>8, <1>9, <1>10, <1>16, <2>1, <2>3
<1>17. CASE Len(tail) = 3
  <2>1. /\ Len(q) = 7 /\ q \in Seq(Int)
        /\ q[1] = b[1] /\ q[2] = b[2] /\ q[3] = b[3] /\ q[4] = b[4] /\ q[5] = b[5]
        /\ q[6] = b[6] /\ q[7] = d
    BY <1>7, <1>14, <1>15, <1>17
  <2>2. /\ q[1] = 32 /\ q[2] = netfn /\ q[3] = c /\ q[4] = 64 /\ q[5] = 4 * id
        /\ q[6] = Command
    BY <1>12, <1>14, <1>17, <2>1 DEF IsTail
  <2>3. IsPacket(q, id, netfn)
    BY <1>3, <1>4, <1>17, <2>1, <2>2 DEF IsPacket
  <2> QED
    BY <1>2, <1>8, <1>9, <1>10, <1>17, <2>1, <2>3
<1> QED
  BY <1>16, <1>17 DEF IsTail

LEMMA PacketBytes ==
  ASSUME NEW id \in Nat, NEW netfn \in Byte, NEW len \in Lengths
  PROVE  /\ IsPacket(Packet(id, netfn, len), id, netfn)
         /\ Len(Packet(id, netfn, len)) = len
<1>1. netfn \in Int /\ Command \in Int /\ 4 * id \in Int
  BY IpmbdRequestsAssumption DEF Byte
<1>2. PICK head : head = <<32, netfn>>
  OBVIOUS
<1>3. PICK two : two = <<64, 4 * id>>
  OBVIOUS
<1>4. PICK three : three = <<64, 4 * id, Command>>
  OBVIOUS
<1>5. IsHead(head, netfn) /\ IsTail(two, id) /\ IsTail(three, id)
  <2>1. IsHead(head, netfn)
    BY <1>1, <1>2 DEF IsHead
  <2>2. IsTail(two, id)
    BY <1>1, <1>3 DEF IsTail
  <2>3. IsTail(three, id)
    BY <1>1, <1>4 DEF IsTail
  <2> QED
    BY <2>1, <2>2, <2>3
<1>6. Packet(id, netfn, len) = Framed(head, IF len = 6 THEN two ELSE three)
  BY <1>2, <1>3, <1>4 DEF Packet, BMC_SLAVE_ADDR, BRIDGE_SLAVE_ADDR, IPMB_PKT_MIN_SIZE
<1>7. /\ IsPacket(Framed(head, two), id, netfn)
      /\ Len(Framed(head, two)) = Len(two) + 4
  BY <1>5, FramedBytes
<1>8. /\ IsPacket(Framed(head, three), id, netfn)
      /\ Len(Framed(head, three)) = Len(three) + 4
  BY <1>5, FramedBytes
<1>9. Len(two) = 2 /\ Len(three) = 3
  BY <1>3, <1>4
<1>10. CASE len = 6
  BY <1>6, <1>7, <1>9, <1>10
<1>11. CASE len = 7
  BY <1>6, <1>8, <1>9, <1>11
<1> QED
  BY <1>10, <1>11 DEF Lengths, IPMB_PKT_MIN_SIZE

LEMMA HeaderSum ==
  ASSUME NEW p \in Seq(Int), Len(p) >= 3
  PROVE  HeaderOk(p) <=> p[3] = (0 - (p[1] + p[2])) % 256
<1> DEFINE s == SubSeq(p, 1, 2)
<1>1. s \in Seq(Int) /\ Len(s) = 2 /\ s[1] = p[1] /\ s[2] = p[2]
  OBVIOUS
<1>2. HeaderOk(p) <=> p[3] = calc_cksum(s)
  BY DEF HeaderOk
<1> HIDE DEF s
<1>3. calc_cksum(s) = (0 - (s[1] + s[2])) % 256
  BY <1>1, CksumOf
<1> QED
  BY <1>1, <1>2, <1>3

LEMMA DataSum ==
  ASSUME NEW p \in Seq(Int), Len(p) \in {6, 7}
  PROVE  /\ Len(p) = 6 => (DataOk(p) <=> p[6] = (0 - (p[4] + p[5])) % 256)
         /\ Len(p) = 7 => (DataOk(p) <=> p[7] = (0 - (p[4] + p[5] + p[6])) % 256)
<1> DEFINE s == SubSeq(p, 4, Len(p) - 1)
<1>1. /\ s \in Seq(Int) /\ Len(s) = Len(p) - 4 /\ s[1] = p[4] /\ s[2] = p[5]
      /\ Len(p) = 7 => s[3] = p[6]
  <2>1. \A i \in 4 .. Len(p) - 1 : p[i] \in Int
    OBVIOUS
  <2>2. /\ s \in Seq(Int)
        /\ Len(s) = IF 4 <= Len(p) - 1 THEN Len(p) - 1 - 4 + 1 ELSE 0
        /\ \A i \in 1 .. Len(p) - 1 - 4 + 1 : s[i] = p[4 + i - 1]
    BY <2>1, SubSeqProperties
  <2> HIDE DEF s
  <2>3. CASE Len(p) = 6
    BY <2>2, <2>3
  <2>4. CASE Len(p) = 7
    BY <2>2, <2>4
  <2> QED
    BY <2>3, <2>4
<1>2. DataOk(p) <=> p[Len(p)] = calc_cksum(s)
  BY DEF DataOk
<1> HIDE DEF s
<1>3. /\ Len(s) = 2 => calc_cksum(s) = (0 - (s[1] + s[2])) % 256
      /\ Len(s) = 3 => calc_cksum(s) = (0 - (s[1] + s[2] + s[3])) % 256
  BY <1>1, CksumOf
<1>4. ASSUME Len(p) = 6 PROVE DataOk(p) <=> p[6] = (0 - (p[4] + p[5])) % 256
  BY <1>1, <1>2, <1>3, <1>4
<1>5. ASSUME Len(p) = 7 PROVE DataOk(p) <=> p[7] = (0 - (p[4] + p[5] + p[6])) % 256
  BY <1>1, <1>2, <1>3, <1>5
<1> QED
  BY <1>4, <1>5

LEMMA PacketLength ==
  ASSUME NEW id, NEW netfn, NEW q, IsPacket(q, id, netfn)
  PROVE  /\ q \in Seq(Int) /\ Len(q) >= 3 /\ Len(q) >= IPMB_PKT_MIN_SIZE
         /\ Len(q) \in {6, 7} /\ (Len(q) = 6 \/ Len(q) = 7)
         /\ 1 \in 1 .. Len(q) /\ 2 \in 1 .. Len(q) /\ 3 \in 1 .. Len(q)
<1>1. CASE Len(q) = 6
  BY <1>1 DEF IsPacket, IPMB_PKT_MIN_SIZE
<1>2. CASE Len(q) = 7
  BY <1>2 DEF IsPacket, IPMB_PKT_MIN_SIZE
<1> QED
  BY <1>1, <1>2 DEF IsPacket

(* A packet passes both checks, and is accepted as it is.                  *)
LEMMA IntactOk ==
  ASSUME NEW id, NEW netfn, NEW q, IsPacket(q, id, netfn)
  PROVE  HeaderOk(q) /\ DataOk(q) /\ Accepted(q) = {q}
<1>1. HeaderOk(q)
  <2>1. HeaderOk(q) <=> q[3] = (0 - (q[1] + q[2])) % 256
    BY PacketLength, HeaderSum
  <2> QED
    BY <2>1 DEF IsPacket
<1>2. DataOk(q)
  <2>1. CASE Len(q) = 6
    <3>1. DataOk(q) <=> q[6] = (0 - (q[4] + q[5])) % 256
      BY <2>1, PacketLength, DataSum
    <3> QED
      BY <2>1, <3>1 DEF IsPacket
  <2>2. CASE Len(q) = 7
    <3>1. DataOk(q) <=> q[7] = (0 - (q[4] + q[5] + q[6])) % 256
      BY <2>2, PacketLength, DataSum
    <3> QED
      BY <2>2, <3>1 DEF IsPacket
  <2> QED
    BY <2>1, <2>2, PacketLength
<1>3. Len(q) >= IPMB_PKT_MIN_SIZE
  BY PacketLength
<1> QED
  BY <1>1, <1>2, <1>3 DEF Accepted, Repairs

(* A sum of bytes is wrong when one of them is.                            *)
LEMMA OneByteOff ==
  ASSUME NEW a \in Byte, NEW b \in Byte, NEW n \in Int,
         (0 - (n + a)) % 256 = (0 - (n + b)) % 256
  PROVE  a = b
BY SMTT(30) DEF Byte

LEMMA OneOfTwoOff ==
  ASSUME NEW x \in Byte, NEW y \in Byte, NEW b \in Byte
  PROVE  /\ b # x => (0 - (x + y)) % 256 # (0 - (b + y)) % 256
         /\ b # y => (0 - (x + y)) % 256 # (0 - (x + b)) % 256
BY DEF Byte

LEMMA OneOfThreeOff ==
  ASSUME NEW x \in Byte, NEW y \in Byte, NEW z \in Byte, NEW b \in Byte
  PROVE  /\ b # x => (0 - (x + y + z)) % 256 # (0 - (b + y + z)) % 256
         /\ b # y => (0 - (x + y + z)) % 256 # (0 - (x + b + z)) % 256
         /\ b # z => (0 - (x + y + z)) % 256 # (0 - (x + y + b)) % 256
<1>1. \A v \in Byte : v \in Int
  BY DEF Byte
<1>2. y + z \in Int /\ x + z \in Int /\ x + y \in Int
  BY <1>1
<1>3. ASSUME (0 - (x + y + z)) % 256 = (0 - (b + y + z)) % 256 PROVE b = x
  <2>1. (0 - ((y + z) + x)) % 256 = (0 - ((y + z) + b)) % 256
    BY <1>1, <1>3
  <2> QED
    BY <1>2, <2>1, OneByteOff
<1>4. ASSUME (0 - (x + y + z)) % 256 = (0 - (x + b + z)) % 256 PROVE b = y
  <2>1. (0 - ((x + z) + y)) % 256 = (0 - ((x + z) + b)) % 256
    BY <1>1, <1>4
  <2> QED
    BY <1>2, <2>1, OneByteOff
<1>5. ASSUME (0 - (x + y + z)) % 256 = (0 - (x + y + b)) % 256 PROVE b = z
  <2>1. (0 - ((x + y) + z)) % 256 = (0 - ((x + y) + b)) % 256
    BY <1>1, <1>5
  <2> QED
    BY <1>2, <2>1, OneByteOff
<1> QED
  BY <1>3, <1>4, <1>5

LEMMA SumsAreBytes ==
  ASSUME NEW n \in Int PROVE (0 - n) % 256 \in Byte
BY DEF Byte

(* A sequence with one of its bytes changed.                               *)
LEMMA ByteSet ==
  ASSUME NEW q \in Seq(Int), NEW i \in 1 .. Len(q), NEW b \in Int, NEW p,
         p = [q EXCEPT ![i] = b]
  PROVE  /\ p \in Seq(Int) /\ Len(p) = Len(q) /\ p[i] = b
         /\ \A j \in 1 .. Len(q) : j # i => p[j] = q[j]
<1>1. /\ [q EXCEPT ![i] = b] \in Seq(Int)
      /\ Len([q EXCEPT ![i] = b]) = Len(q)
      /\ \A j \in 1 .. Len(q) : [q EXCEPT ![i] = b][j] = IF j = i THEN b ELSE q[j]
  BY ExceptSeq
<1> QED
  BY <1>1

(* Whatever its first byte becomes, it is put back.                        *)
LEMMA FirstByteRepaired ==
  ASSUME NEW id, NEW netfn \in Byte, NEW q, IsPacket(q, id, netfn), NEW b \in Byte
  PROVE  Accepted([q EXCEPT ![1] = b]) = {q}
<1>1. PICK p : p = [q EXCEPT ![1] = b]
  OBVIOUS
<1>2. /\ p \in Seq(Int) /\ Len(p) = Len(q) /\ p[1] = b /\ Len(q) \in {6, 7}
      /\ \A j \in 1 .. Len(q) : j # 1 => p[j] = q[j]
  <2>1. q \in Seq(Int) /\ 1 \in 1 .. Len(q) /\ b \in Int
    BY DEF IsPacket, Byte
  <2>3. Len(q) \in {6, 7}
    BY DEF IsPacket
  <2>2. /\ p \in Seq(Int) /\ Len(p) = Len(q) /\ p[1] = b
        /\ \A j \in 1 .. Len(q) : j # 1 => p[j] = q[j]
    BY <1>1, <2>1, ByteSet
  <2> QED
    BY <2>2, <2>3
<1>3. HeaderOk(p) => b = 32
  <2>1. HeaderOk(p) <=> p[3] = (0 - (p[1] + p[2])) % 256
    <3>1. p \in Seq(Int) /\ Len(p) >= 3
      BY <1>2, PacketLength
    <3> QED
      BY <3>1, HeaderSum
  <2>2. p[1] = b /\ p[2] = netfn /\ p[3] = (0 - (32 + netfn)) % 256
    <3>1. p[1] = b /\ p[2] = q[2] /\ p[3] = q[3]
      BY <1>2, PacketLength
    <3> QED
      BY <3>1 DEF IsPacket
  <2>3. HeaderOk(p) => (0 - (netfn + 32)) % 256 = (0 - (netfn + b)) % 256
    BY <2>1, <2>2 DEF Byte
  <2>4. 32 \in Byte /\ netfn \in Int
    BY DEF Byte
  <2> QED
    BY <2>3, <2>4, OneByteOff
<1>4. CASE b = 32
  <2>1. p = q
    BY <1>1, <1>4 DEF IsPacket
  <2> QED
    BY <1>1, <2>1, IntactOk
<1>5. CASE b # 32
  <2>1. WithAddress(p) = q
    <3>1. PICK w : w = [p EXCEPT ![1] = 32]
      OBVIOUS
    <3>2. p \in Seq(Int) /\ 1 \in 1 .. Len(p) /\ 32 \in Int
      BY <1>2
    <3>3. /\ w \in Seq(Int) /\ Len(w) = Len(p) /\ w[1] = 32
          /\ \A j \in 1 .. Len(p) : j # 1 => w[j] = p[j]
      BY <3>1, <3>2, ByteSet
    <3>4. q \in Seq(Int) /\ q[1] = 32
      BY DEF IsPacket
    <3>5. Len(w) = Len(q) /\ \A j \in 1 .. Len(w) : w[j] = q[j]
      <4>1. Len(w) = Len(q) /\ Len(p) = Len(q)
        BY <1>2, <3>3
      <4>2. ASSUME NEW j \in 1 .. Len(w), j # 1 PROVE w[j] = q[j]
        BY <1>2, <3>3, <4>1, <4>2
      <4> QED
        BY <3>3, <3>4, <4>1, <4>2
    <3>6. w = q
      BY <3>3, <3>4, <3>5, SeqEqual
    <3> QED
      BY <3>1, <3>6 DEF WithAddress, BMC_SLAVE_ADDR
  <2>2. Repairs(p) = {q}
    BY <1>2, <1>3, <1>5, <2>1, IntactOk DEF Repairs, BMC_SLAVE_ADDR
  <2> QED
    <3>1. Len(p) >= IPMB_PKT_MIN_SIZE
      BY <1>2 DEF IPMB_PKT_MIN_SIZE
    <3>2. DataOk(q)
      BY IntactOk
    <3> QED
      BY <1>1, <2>2, <3>1, <3>2 DEF Accepted
<1> QED
  BY <1>4, <1>5

(* With another byte wrong, a packet is dropped.                           *)
LEMMA OtherByteDropped ==
  ASSUME NEW id \in Ids, NEW netfn \in Byte, NEW q, IsPacket(q, id, netfn),
         NEW i \in 2 .. Len(q), NEW b \in Byte, b # q[i]
  PROVE  Accepted([q EXCEPT ![i] = b]) = {}
<1>1. PICK p : p = [q EXCEPT ![i] = b]
  OBVIOUS
<1>2. /\ p \in Seq(Int) /\ Len(p) = Len(q) /\ Len(q) \in {6, 7} /\ p[i] = b
      /\ \A j \in 1 .. Len(q) : j # i => p[j] = q[j]
  <2>1. q \in Seq(Int) /\ i \in 1 .. Len(q) /\ b \in Int
    BY DEF IsPacket, Byte
  <2>3. Len(q) \in {6, 7}
    BY DEF IsPacket
  <2>2. /\ p \in Seq(Int) /\ Len(p) = Len(q) /\ p[i] = b
        /\ \A j \in 1 .. Len(q) : j # i => p[j] = q[j]
    BY <1>1, <2>1, ByteSet
  <2> QED
    BY <2>2, <2>3
<1>3. /\ q[1] = 32 /\ q[2] = netfn /\ q[3] = (0 - (32 + netfn)) % 256
      /\ Len(q) = 6 => q[6] = (0 - (q[4] + q[5])) % 256
      /\ Len(q) = 7 => q[7] = (0 - (q[4] + q[5] + q[6])) % 256
  <2>1. CASE Len(q) = 6
    BY <2>1 DEF IsPacket
  <2>2. CASE Len(q) = 7
    BY <2>2 DEF IsPacket
  <2> QED
    BY <2>1, <2>2, PacketLength
<1>4. q[4] \in Byte /\ q[5] \in Byte /\ (Len(q) = 7 => q[6] \in Byte)
  <2>1. 64 \in Byte /\ 4 * id \in Byte /\ Command \in Byte
    BY IpmbdRequestsAssumption DEF Ids, Byte
  <2>2. q[4] = 64 /\ q[5] = 4 * id /\ (Len(q) = 7 => q[6] = Command)
    BY DEF IsPacket
  <2> QED
    BY <2>1, <2>2
<1>5. HeaderOk(p) <=> p[3] = (0 - (p[1] + p[2])) % 256
  <2>1. Len(p) >= 3
    BY <1>2
  <2> QED
    BY <1>2, <2>1, HeaderSum
<1>6. CASE i \in 2 .. 3
  <2>1. /\ i # 1 /\ 1 \in 1 .. Len(q) /\ 2 \in 1 .. Len(q) /\ 3 \in 1 .. Len(q)
    BY <1>2, <1>6
  <2>2. p[1] = 32
    BY <1>2, <1>3, <2>1
  <2>3. ~ HeaderOk(p)
    <3>1. CASE i = 2
      <4>1. p[2] = b /\ b # netfn /\ p[3] = (0 - (32 + netfn)) % 256
        <5>1. p[2] = b /\ p[3] = q[3]
          BY <1>2, <2>1, <3>1
        <5>2. b # q[2]
          BY <3>1
        <5> QED
          BY <1>3, <5>1, <5>2, Zenon
      <4>2. HeaderOk(p) <=> (0 - (32 + netfn)) % 256 = (0 - (32 + b)) % 256
        BY <1>5, <2>2, <4>1, Zenon
      <4>3. (0 - (32 + netfn)) % 256 # (0 - (32 + b)) % 256
        <5>1. 32 \in Byte
          BY DEF Byte
        <5> QED
          BY <4>1, <5>1, OneOfTwoOff
      <4> QED
        BY <4>2, <4>3
    <3>2. CASE i = 3
      <4>1. p[2] = netfn /\ p[3] = b /\ b # (0 - (32 + netfn)) % 256
        <5>1. p[2] = q[2] /\ p[3] = b
          BY <1>2, <2>1, <3>2
        <5>2. b # q[3]
          BY <3>2
        <5> QED
          BY <1>3, <5>1, <5>2, Zenon
      <4>2. HeaderOk(p) <=> b = (0 - (32 + netfn)) % 256
        BY <1>5, <2>2, <4>1, Zenon
      <4> QED
        BY <4>1, <4>2
    <3> QED
      BY <1>6, <3>1, <3>2
  <2> QED
    BY <1>1, <2>2, <2>3 DEF Accepted, Repairs, BMC_SLAVE_ADDR
<1>7. ASSUME i \notin 2 .. 3, ~ DataOk(p) PROVE Accepted(p) = {}
  <2>1. 1 \in 1 .. Len(q) /\ 2 \in 1 .. Len(q) /\ 3 \in 1 .. Len(q) /\ i \notin {1, 2, 3}
    BY <1>2, <1>7
  <2>2. p[1] = q[1] /\ p[2] = q[2] /\ p[3] = q[3]
    BY <1>2, <2>1
  <2>3. HeaderOk(p)
    BY <1>3, <1>5, <2>2
  <2> QED
    BY <1>7, <2>3 DEF Accepted, Repairs
<1>8. ASSUME Len(q) = 7, i \in 4 .. 7 PROVE ~ DataOk(p)
  <2>1. DataOk(p) <=> p[7] = (0 - (p[4] + p[5] + p[6])) % 256
    BY <1>2, <1>8, DataSum
  <2>2. q[4] \in Byte /\ q[5] \in Byte /\ q[6] \in Byte
    BY <1>4, <1>8
  <2>3. /\ \A j \in 1 .. 7 : j # i => p[j] = q[j]
        /\ p[i] = b /\ q[7] = (0 - (q[4] + q[5] + q[6])) % 256
    BY <1>2, <1>3, <1>8
  <2>4. CASE i = 4
    <3>1. p[4] = b /\ b # q[4] /\ p[5] = q[5] /\ p[6] = q[6] /\ p[7] = q[7]
      BY <2>3, <2>4
    <3>2. (0 - (q[4] + q[5] + q[6])) % 256 # (0 - (b + q[5] + q[6])) % 256
      BY <2>2, <3>1, OneOfThreeOff
    <3> QED
      BY <2>1, <2>3, <3>1, <3>2
  <2>5. CASE i = 5
    <3>1. p[5] = b /\ b # q[5] /\ p[4] = q[4] /\ p[6] = q[6] /\ p[7] = q[7]
      BY <2>3, <2>5
    <3>2. (0 - (q[4] + q[5] + q[6])) % 256 # (0 - (q[4] + b + q[6])) % 256
      BY <2>2, <3>1, OneOfThreeOff
    <3> QED
      BY <2>1, <2>3, <3>1, <3>2
  <2>6. CASE i = 6
    <3>1. p[6] = b /\ b # q[6] /\ p[4] = q[4] /\ p[5] = q[5] /\ p[7] = q[7]
      BY <2>3, <2>6
    <3>2. (0 - (q[4] + q[5] + q[6])) % 256 # (0 - (q[4] + q[5] + b)) % 256
      BY <2>2, <3>1, OneOfThreeOff
    <3> QED
      BY <2>1, <2>3, <3>1, <3>2
  <2>7. CASE i = 7
    <3>1. p[7] = b /\ b # q[7] /\ p[4] = q[4] /\ p[5] = q[5] /\ p[6] = q[6]
      BY <2>3, <2>7
    <3> QED
      BY <2>1, <2>3, <3>1
  <2> QED
    BY <1>8, <2>4, <2>5, <2>6, <2>7
<1>9. ASSUME Len(q) = 6, i \in 4 .. 6 PROVE ~ DataOk(p)
  <2>1. DataOk(p) <=> p[6] = (0 - (p[4] + p[5])) % 256
    BY <1>2, <1>9, DataSum
  <2>2. /\ \A j \in 1 .. 6 : j # i => p[j] = q[j]
        /\ p[i] = b /\ q[6] = (0 - (q[4] + q[5])) % 256
    BY <1>2, <1>3, <1>9
  <2>3. CASE i = 4
    <3>1. p[4] = b /\ b # q[4] /\ p[5] = q[5] /\ p[6] = q[6]
      BY <2>2, <2>3
    <3>2. (0 - (q[4] + q[5])) % 256 # (0 - (b + q[5])) % 256
      BY <1>4, <3>1, OneOfTwoOff
    <3> QED
      BY <2>1, <2>2, <3>1, <3>2
  <2>4. CASE i = 5
    <3>1. p[5] = b /\ b # q[5] /\ p[4] = q[4] /\ p[6] = q[6]
      BY <2>2, <2>4
    <3>2. (0 - (q[4] + q[5])) % 256 # (0 - (q[4] + b)) % 256
      BY <1>4, <3>1, OneOfTwoOff
    <3> QED
      BY <2>1, <2>2, <3>1, <3>2
  <2>5. CASE i = 6
    <3>1. p[6] = b /\ b # q[6] /\ p[4] = q[4] /\ p[5] = q[5]
      BY <2>2, <2>5
    <3> QED
      BY <2>1, <2>2, <3>1
  <2> QED
    BY <1>9, <2>3, <2>4, <2>5
<1>10. CASE i \notin 2 .. 3
  <2>1. CASE Len(q) = 6
    <3>1. i \in 4 .. 6
      BY <1>10, <2>1
    <3> QED
      BY <1>1, <1>7, <1>9, <1>10, <2>1, <3>1
  <2>2. CASE Len(q) = 7
    <3>1. i \in 4 .. 7
      BY <1>10, <2>2
    <3> QED
      BY <1>1, <1>7, <1>8, <1>10, <2>2, <3>1
  <2> QED
    BY <1>2, <2>1, <2>2
<1> QED
  BY <1>6, <1>10

(* The sums of a packet without its first byte, read as if it had it.      *)
LEMMA ShiftedHeaderSums ==
  ASSUME NEW netfn \in Byte, NEW c, c = (0 - (32 + netfn)) % 256
  PROVE  (0 - (netfn + c)) % 256 = 32 /\ (0 - (32 + c)) % 256 = netfn
BY DEF Byte

LEMMA ShiftedDataSums ==
  ASSUME NEW x \in Int PROVE (0 - (64 + x)) % 256 # (0 - x) % 256
OBVIOUS

(* The damage of a bit changes the byte.                                   *)
LEMMA Flipped ==
  ASSUME NEW x \in Byte PROVE (x + 128) % 256 \in Byte /\ (x + 128) % 256 # x
BY DEF Byte

(* A packet without its first byte.                                        *)
LEMMA WithoutFirst ==
  ASSUME NEW id, NEW netfn, NEW q, IsPacket(q, id, netfn)
  PROVE  /\ Tail(q) \in Seq(Int) /\ Len(Tail(q)) = Len(q) - 1
         /\ \A j \in 1 .. Len(Tail(q)) : Tail(q)[j] = q[j + 1]
<1>1. q \in Seq(Int) /\ q # << >>
  <2>1. q \in Seq(Int) /\ Len(q) \in {6, 7}
    BY DEF IsPacket
  <2>2. Len(<< >>) = 0
    OBVIOUS
  <2> QED
    BY <2>1, <2>2
<1> QED
  BY <1>1, HeadTailProperties

(* A packet without a command is too short with its first byte missing.    *)
LEMMA MissingByteDropped ==
  ASSUME NEW id, NEW netfn, NEW q, IsPacket(q, id, netfn), Len(q) = 6
  PROVE  Accepted(Tail(q)) = {}
<1>1. PICK n : n = Len(Tail(q))
  OBVIOUS
<1>2. n = Len(q) - 1
  BY <1>1, WithoutFirst
<1>3. ~ n >= IPMB_PKT_MIN_SIZE
  BY <1>2 DEF IPMB_PKT_MIN_SIZE
<1> QED
  BY <1>1, <1>3 DEF Accepted

(* A packet with a command has its missing first byte put back, unless the *)
(* netfn looks like an address: the packet is then dropped.                *)
LEMMA MissingByteRepaired ==
  ASSUME NEW id \in Ids, NEW netfn \in Byte, NEW q, IsPacket(q, id, netfn), Len(q) = 7
  PROVE  Accepted(Tail(q)) = IF netfn \in {32, 64} THEN {} ELSE {q}
<1> DEFINE c == (0 - (32 + netfn)) % 256
<1>1. PICK p : p = Tail(q)
  OBVIOUS
<1>2. /\ p \in Seq(Int) /\ Len(p) = Len(q) - 1
      /\ \A j \in 1 .. Len(p) : p[j] = q[j + 1]
  <2>1. /\ Tail(q) \in Seq(Int) /\ Len(Tail(q)) = Len(q) - 1
        /\ \A j \in 1 .. Len(Tail(q)) : Tail(q)[j] = q[j + 1]
    BY WithoutFirst
  <2> QED
    BY <1>1, <2>1
<1>3. Len(p) = 6 /\ \A j \in 1 .. 6 : p[j] = q[j + 1]
  BY <1>2
<1>4. /\ p[1] = netfn /\ p[2] = c /\ p[3] = 64
      /\ p[4] = 4 * id /\ p[5] = Command /\ p[6] = (0 - (64 + 4 * id + Command)) % 256
  BY <1>3 DEF IsPacket
<1>5. netfn \in Int /\ c \in Int /\ 4 * id \in Int /\ Command \in Int
  BY IpmbdRequestsAssumption DEF Byte, Ids
<1>6. c = (0 - (32 + netfn)) % 256
  OBVIOUS
<1> HIDE DEF c
<1>7. ~ HeaderOk(p)
  <2>1. HeaderOk(p) <=> p[3] = (0 - (p[1] + p[2])) % 256
    <3>1. p \in Seq(Int)
      BY <1>2
    <3>2. Len(p) = 6
      BY <1>3
    <3>3. Len(p) >= 3
      BY <3>2
    <3> QED
      BY <3>1, <3>3, HeaderSum
  <2>2. HeaderOk(p) <=> 64 = (0 - (netfn + c)) % 256
    BY <1>4, <2>1
  <2>3. (0 - (netfn + c)) % 256 = 32
    BY <1>6, ShiftedHeaderSums
  <2> QED
    BY <2>2, <2>3
<1>8. CASE netfn = 32
  BY <1>1, <1>4, <1>7, <1>8 DEF Accepted, Repairs, BMC_SLAVE_ADDR
<1>9. ASSUME netfn # 32 PROVE Accepted(Tail(q)) = IF netfn = 64 THEN {} ELSE {q}
  <2>1. PICK w : w = [p EXCEPT ![1] = 32]
    OBVIOUS
  <2>2. /\ w \in Seq(Int) /\ Len(w) = Len(p) /\ w[1] = 32
        /\ \A j \in 1 .. Len(p) : j # 1 => w[j] = p[j]
    <3>1. p \in Seq(Int) /\ 32 \in Int
      BY <1>2
    <3>2. 1 \in 1 .. Len(p)
      BY <1>3
    <3> QED
      BY <2>1, <3>1, <3>2, ByteSet
  <2>3. /\ Len(w) = 6 /\ w[2] = c /\ w[3] = 64 /\ w[4] = 4 * id /\ w[5] = Command
        /\ w[6] = (0 - (64 + 4 * id + Command)) % 256
    BY <1>3, <1>4, <2>2
  <2>4. WithAddress(p) = w
    BY <2>1 DEF WithAddress, BMC_SLAVE_ADDR
  <2>5. HeaderOk(w) <=> netfn = 64
    <3>1. w \in Seq(Int) /\ Len(w) >= 3
      BY <2>2, <2>3
    <3>2. HeaderOk(w) <=> w[3] = (0 - (w[1] + w[2])) % 256
      BY <3>1, HeaderSum
    <3>3. HeaderOk(w) <=> 64 = (0 - (32 + c)) % 256
      BY <2>2, <2>3, <3>2
    <3>4. (0 - (32 + c)) % 256 = netfn
      BY <1>6, ShiftedHeaderSums
    <3> QED
      BY <3>3, <3>4
  <2>6. CASE netfn = 64
    <3>1. ~ DataOk(w)
      <4>1. DataOk(w) <=> w[6] = (0 - (w[4] + w[5])) % 256
        <5>1. w \in Seq(Int) /\ Len(w) = 6 /\ Len(w) \in {6, 7}
          BY <2>2, <2>3
        <5> QED
          BY <5>1, DataSum
      <4>2. DataOk(w) <=> (0 - (64 + (4 * id + Command))) % 256 = (0 - (4 * id + Command)) % 256
        BY <1>5, <2>3, <4>1
      <4>3. 4 * id + Command \in Int
        BY <1>5
      <4> QED
        BY <4>2, <4>3, ShiftedDataSums
    <3>2. Repairs(p) = {w}
      BY <1>4, <1>7, <1>9, <2>4, <2>5, <2>6 DEF Repairs, BMC_SLAVE_ADDR
    <3> QED
      BY <1>1, <2>6, <3>1, <3>2 DEF Accepted
  <2>7. CASE netfn # 64
    <3>1. Shifted(p) = q
      <4> DEFINE a == <<32>>
      <4>1. a \in Seq(Int) /\ Len(a) = 1 /\ a[1] = 32
        OBVIOUS
      <4>2. Shifted(p) = a \o p
        BY DEF Shifted, BMC_SLAVE_ADDR
      <4> HIDE DEF a
      <4>3. PICK s : s = a \o p
        OBVIOUS
      <4>4. /\ s \in Seq(Int) /\ Len(s) = Len(a) + Len(p)
            /\ \A j \in 1 .. Len(a) + Len(p) :
                 s[j] = IF j <= Len(a) THEN a[j] ELSE p[j - Len(a)]
        <5>1. a \in Seq(Int) /\ p \in Seq(Int)
          BY <1>2, <4>1
        <5> QED
          BY <4>3, <5>1, Joined
      <4>5. Len(s) = 7 /\ \A j \in 1 .. 7 : s[j] = IF j <= 1 THEN 32 ELSE p[j - 1]
        BY <1>3, <4>1, <4>4
      <4>6. /\ q \in Seq(Int) /\ Len(q) = 7 /\ q[1] = 32
            /\ \A j \in 1 .. 6 : p[j] = q[j + 1]
        BY <1>3 DEF IsPacket
      <4>7. ASSUME NEW j \in 1 .. 7 PROVE s[j] = q[j]
        <5>1. CASE j = 1
          BY <4>5, <4>6, <5>1
        <5>2. CASE j # 1
          <6>1. j - 1 \in 1 .. 6 /\ (j - 1) + 1 = j /\ ~ j <= 1
            BY <5>2
          <6>2. s[j] = p[j - 1]
            BY <4>5, <6>1
          <6>3. p[j - 1] = q[(j - 1) + 1]
            BY <4>6, <6>1
          <6> QED
            BY <6>1, <6>2, <6>3
        <5> QED
          BY <5>1, <5>2
      <4>8. Len(s) = Len(q) /\ \A j \in 1 .. Len(s) : s[j] = q[j]
        BY <4>5, <4>6, <4>7
      <4>9. s = q
        BY <4>4, <4>6, <4>8, SeqEqual
      <4> QED
        BY <4>2, <4>3, <4>9
    <3>2. HeaderOk(q) /\ DataOk(q)
      BY IntactOk
    <3>3. Repairs(p) = {q}
      BY <1>4, <1>7, <1>9, <2>4, <2>5, <2>7, <3>1, <3>2 DEF Repairs, BMC_SLAVE_ADDR
    <3>4. Len(p) >= IPMB_PKT_MIN_SIZE
      BY <1>3 DEF IPMB_PKT_MIN_SIZE
    <3> QED
      BY <1>1, <2>7, <3>2, <3>3, <3>4 DEF Accepted
  <2> QED
    BY <2>6, <2>7
<1> QED
  BY <1>8, <1>9

(* What is accepted of a damaged packet is the packet.                     *)
LEMMA AcceptedAsSent ==
  ASSUME NEW id \in Ids, NEW netfn \in Byte, NEW len \in Lengths,
         NEW p \in Damages(Packet(id, netfn, len)), NEW r \in Accepted(p)
  PROVE  r = Packet(id, netfn, len)
<1>1. PICK q : q = Packet(id, netfn, len)
  OBVIOUS
<1>2. IsPacket(q, id, netfn)
  BY <1>1, PacketBytes DEF Ids
<1>3. CASE p = q
  BY <1>1, <1>2, <1>3, IntactOk
<1>4. CASE p = [q EXCEPT ![1] = q[2]]
  <2> DEFINE b == q[2]
  <2>1. b \in Byte /\ p = [q EXCEPT ![1] = b]
    BY <1>2, <1>4 DEF IsPacket
  <2> HIDE DEF b
  <2>2. Accepted([q EXCEPT ![1] = b]) = {q}
    BY <1>2, <2>1, FirstByteRepaired
  <2> QED
    BY <1>1, <2>1, <2>2
<1>5. CASE p = Tail(q)
  <2>1. Accepted(p) \in {{}, {q}}
    <3>1. Len(q) = 6 \/ Len(q) = 7
      BY <1>2 DEF IsPacket
    <3> QED
      BY <1>2, <1>5, <3>1, MissingByteDropped, MissingByteRepaired
  <2> QED
    BY <1>1, <2>1
<1>6. CASE \E i \in 1 .. Len(q) : p = [q EXCEPT ![i] = (q[i] + 128) % 256]
  <2>1. PICK i \in 1 .. Len(q) : p = [q EXCEPT ![i] = (q[i] + 128) % 256]
    BY <1>6
  <2>2. q[i] \in Byte
    <3>1. /\ 32 \in Byte /\ 64 \in Byte /\ 4 * id \in Byte /\ Command \in Byte
      BY IpmbdRequestsAssumption DEF Byte, Ids
    <3>2. /\ (0 - (32 + netfn)) % 256 \in Byte
          /\ (0 - (64 + 4 * id)) % 256 \in Byte
          /\ (0 - (64 + 4 * id + Command)) % 256 \in Byte
      <4>1. 32 + netfn \in Int /\ 64 + 4 * id \in Int /\ 64 + 4 * id + Command \in Int
        BY <3>1 DEF Byte, Ids
      <4> QED
        BY <4>1, SumsAreBytes
    <3>3. /\ q[1] \in Byte /\ q[2] \in Byte /\ q[3] \in Byte /\ q[4] \in Byte /\ q[5] \in Byte
          /\ q[6] \in Byte /\ (Len(q) = 7 => q[7] \in Byte)
      BY <1>2, <3>1, <3>2 DEF IsPacket
    <3>4. CASE Len(q) = 6
      <4>1. i \in {1, 2, 3, 4, 5, 6}
        BY <3>4
      <4> QED
        BY <3>3, <4>1
    <3>5. CASE Len(q) = 7
      <4>1. i \in {1, 2, 3, 4, 5, 6, 7}
        BY <3>5
      <4> QED
        BY <3>3, <3>5, <4>1
    <3> QED
      BY <1>2, <3>4, <3>5 DEF IsPacket
  <2> DEFINE b == (q[i] + 128) % 256
  <2>3. b \in Byte /\ b # q[i]
    BY <2>2, Flipped
  <2> HIDE DEF b
  <2>4. p = [q EXCEPT ![i] = b]
    BY <2>1 DEF b
  <2>5. CASE i = 1
    <3>1. Accepted([q EXCEPT ![1] = b]) = {q}
      BY <1>2, <2>3, FirstByteRepaired
    <3> QED
      BY <1>1, <2>4, <2>5, <3>1
  <2>6. CASE i # 1
    <3>1. i \in 2 .. Len(q)
      BY <1>2, <2>6 DEF IsPacket
    <3>2. Accepted([q EXCEPT ![i] = b]) = {}
      BY <1>2, <2>3, <3>1, OtherByteDropped
    <3> QED
      BY <2>4, <3>2
  <2> QED
    BY <2>5, <2>6
<1> QED
  BY <1>1, <1>3, <1>4, <1>5, <1>6 DEF Damages, FirstByteDamages

-----------------------------------------------------------------------------
(* Every packet the daemon holds is one the bridge has sent.               *)

AsSent(p) == p \in ToSet(sent)

(* What the bridge has sent are packets, and what the queue and the        *)
(* handler hold are sent packets: IpmiAnswers, which takes the number of   *)
(* the request out of it, keeps tbuf's type only by that.                  *)
PacketInv ==
  /\ TypeOK
  /\ \A p \in ToSet(sent) : \E id \in Ids, netfn \in NetFns, len \in Lengths : p = Packet(id, netfn, len)
  /\ PostedAsSent
  /\ pc # "receive" => AsSent(rxbuf)

LEMMA ToSetAppend ==
  ASSUME NEW S, NEW s \in Seq(S), NEW e \in S
  PROVE  ToSet(Append(s, e)) = ToSet(s) \union {e}
<1>1. /\ Len(Append(s, e)) = Len(s) + 1 /\ DOMAIN Append(s, e) = 1 .. Len(s) + 1
      /\ DOMAIN s = 1 .. Len(s) /\ Len(s) \in Nat
      /\ \A i \in 1 .. Len(s) : Append(s, e)[i] = s[i]
      /\ Append(s, e)[Len(s) + 1] = e
  OBVIOUS
<1>2. ASSUME NEW x \in ToSet(Append(s, e)) PROVE x \in ToSet(s) \union {e}
  BY <1>1 DEF ToSet
<1>3. ASSUME NEW x \in ToSet(s) PROVE x \in ToSet(Append(s, e))
  BY <1>1 DEF ToSet
<1>4. e \in ToSet(Append(s, e))
  BY <1>1 DEF ToSet
<1> QED
  BY <1>2, <1>3, <1>4

LEMMA ToSetHeadTail ==
  ASSUME NEW S, NEW s \in Seq(S), s # << >>
  PROVE  /\ Head(s) \in ToSet(s) /\ Head(s) \in S
         /\ ToSet(Tail(s)) \subseteq ToSet(s)
         /\ Tail(s) \in Seq(S) /\ Len(Tail(s)) = Len(s) - 1
<1>1. /\ Head(s) \in S /\ Tail(s) \in Seq(S) /\ Len(Tail(s)) = Len(s) - 1
      /\ \A i \in 1 .. Len(Tail(s)) : Tail(s)[i] = s[i + 1]
  BY HeadTailProperties
<1>2. Len(s) \in Nat \ {0} /\ DOMAIN s = 1 .. Len(s) /\ Head(s) = s[1]
  BY EmptySeq, LenProperties
<1>3. DOMAIN Tail(s) = 1 .. Len(s) - 1
  BY <1>1, LenProperties
<1>4. Head(s) \in ToSet(s)
  BY <1>2 DEF ToSet
<1>5. ASSUME NEW x \in ToSet(Tail(s)) PROVE x \in ToSet(s)
  <2>1. PICK i \in 1 .. Len(s) - 1 : x = Tail(s)[i]
    BY <1>3 DEF ToSet
  <2>2. i + 1 \in 1 .. Len(s) /\ x = s[i + 1]
    BY <1>1, <1>2, <2>1
  <2> QED
    BY <1>2, <2>2 DEF ToSet
<1> QED
  BY <1>1, <1>4, <1>5

(* The number of a packet.                                                 *)
LEMMA PacketId ==
  ASSUME NEW id \in Ids, NEW netfn \in Byte, NEW len \in Lengths
  PROVE  Id(Packet(id, netfn, len)) = id
<1>1. Packet(id, netfn, len)[5] = 4 * id
  BY PacketBytes DEF IsPacket, Ids
<1>2. (4 * id) \div 4 = id
  BY DEF Ids
<1> QED
  BY <1>1, <1>2 DEF Id

LEMMA ToSetEmpty == ToSet(<< >>) = {}
BY DEF ToSet

LEMMA InitPacketInv == Init => PacketInv
<1> SUFFICES ASSUME Init PROVE PacketInv
  OBVIOUS
<1>1. TypeOK
  <2>1. 0 \in 0 .. I2cRetriesMax - 1 /\ Len(<< >>) = 0 /\ 0 <= MqMax /\ 0 <= MaxPackets
    BY IpmbdRequestsAssumption
  <2>2. << >> \in Seq(Int) /\ << >> \in Seq(Seq(Int))
    OBVIOUS
  <2> QED
    BY <2>1, <2>2 DEF Init, TypeOK
<1> QED
  BY <1>1, ToSetEmpty DEF Init, PacketInv, PostedAsSent

(* A packet is sent, damaged and read: what is posted is the packet.       *)
LEMMA RxKeepsPackets ==
  ASSUME PacketInv, NEW netfn \in NetFns, NEW len \in Lengths,
         NEW p \in Damages(Packet(Len(sent) + 1, netfn, len)),
         Rx(Packet(Len(sent) + 1, netfn, len), p)
  PROVE  PacketInv'
<1> DEFINE id == Len(sent) + 1
           q == Packet(id, netfn, len)
<1>1. /\ up /\ Len(sent) < MaxPackets /\ sent' = Append(sent, q)
      /\ \/ \E r \in Accepted(p) : Posted(r)
         \/ UNCHANGED mq_req
      /\ UNCHANGED <<up, handlerVars, m_i2c>>
  BY DEF Rx
<1>2. id \in Ids /\ id \in Nat /\ netfn \in Byte
  BY <1>1, IpmbdRequestsAssumption DEF PacketInv, TypeOK, Ids
<1>3. q \in Seq(Int)
  BY <1>2, PacketBytes DEF IsPacket
<1>4. \A r \in Accepted(p) : r = q
  BY <1>2, AcceptedAsSent
<1> HIDE DEF q
<1>5. mq_req' = mq_req \/ (~ IsResponse(q) /\ Len(mq_req) < MqMax /\ mq_req' = Append(mq_req, q))
  BY <1>1, <1>4 DEF Posted
<1>6. sent \in Seq(Seq(Int)) /\ mq_req \in Seq(Seq(Int)) /\ Len(mq_req) <= MqMax
  BY DEF PacketInv, TypeOK
<1>7. ToSet(sent') = ToSet(sent) \union {q}
  BY <1>1, <1>3, <1>6, ToSetAppend
<1>8. mq_req' \in Seq(Seq(Int)) /\ Len(mq_req') <= MqMax
  <2>1. CASE mq_req' = mq_req
    BY <1>6, <2>1
  <2>2. CASE Len(mq_req) < MqMax /\ mq_req' = Append(mq_req, q)
    <3>1. /\ Append(mq_req, q) \in Seq(Seq(Int))
          /\ Len(Append(mq_req, q)) = Len(mq_req) + 1 /\ Len(mq_req) \in Nat
      BY <1>3, <1>6
    <3> QED
      BY <2>2, <3>1, IpmbdRequestsAssumption
  <2> QED
    BY <1>5, <2>1, <2>2
<1>9. sent' \in Seq(Seq(Int)) /\ Len(sent') <= MaxPackets
  BY <1>1, <1>2, <1>3, <1>6 DEF Ids
<1>10. TypeOK'
  BY <1>1, <1>8, <1>9 DEF PacketInv, TypeOK, handlerVars, Ids
<1>11. \A r \in ToSet(mq_req') : r \in ToSet(mq_req) \/ (r = q /\ ~ IsResponse(q))
  <2>1. CASE mq_req' = mq_req
    BY <2>1
  <2>2. CASE mq_req' = Append(mq_req, q) /\ ~ IsResponse(q)
    <3>1. ToSet(Append(mq_req, q)) = ToSet(mq_req) \union {q}
      BY <1>3, <1>6, ToSetAppend
    <3> QED
      BY <2>2, <3>1
  <2> QED
    BY <1>5, <2>1, <2>2
<1>12. PostedAsSent'
  BY <1>7, <1>11 DEF PacketInv, PostedAsSent, IsResponse
<1>13. (\A r \in ToSet(sent) :
          \E k \in Ids, f \in NetFns, h \in Lengths : r = Packet(k, f, h))'
  <2>1. \A r \in ToSet(sent) :
          \E k \in Ids, f \in NetFns, h \in Lengths : r = Packet(k, f, h)
    BY DEF PacketInv
  <2>2. \E k \in Ids, f \in NetFns, h \in Lengths : q = Packet(k, f, h)
    BY <1>2 DEF q
  <2> QED
    BY <1>7, <2>1, <2>2
<1>14. (pc # "receive" => AsSent(rxbuf))'
  BY <1>1, <1>7 DEF PacketInv, AsSent, handlerVars
<1> QED
  BY <1>10, <1>12, <1>13, <1>14 DEF PacketInv

(* The handler takes a request from the queue.                             *)
LEMMA ReceiveKeepsPackets ==
  ASSUME PacketInv, Receive PROVE PacketInv'
<1>1. /\ mq_req # << >> /\ rxbuf' = Head(mq_req) /\ mq_req' = Tail(mq_req) /\ pc' = "ipmi"
      /\ UNCHANGED <<up, sent, tbuf, tlen, tries, m_i2c, asked>>
  BY DEF Receive
<1>2. mq_req \in Seq(Seq(Int)) /\ Len(mq_req) <= MqMax /\ PostedAsSent
  BY DEF PacketInv, TypeOK
<1>3. /\ rxbuf' \in ToSet(mq_req) /\ rxbuf' \in Seq(Int)
      /\ ToSet(mq_req') \subseteq ToSet(mq_req)
      /\ mq_req' \in Seq(Seq(Int)) /\ Len(mq_req') = Len(mq_req) - 1
  BY <1>1, <1>2, ToSetHeadTail
<1>4. Len(mq_req') <= MqMax
  BY <1>2, <1>3, IpmbdRequestsAssumption
<1>5. TypeOK'
  BY <1>1, <1>3, <1>4 DEF PacketInv, TypeOK
<1>6. PostedAsSent' /\ AsSent(rxbuf)'
  BY <1>1, <1>2, <1>3 DEF PostedAsSent, AsSent, IsResponse
<1> QED
  BY <1>1, <1>5, <1>6 DEF PacketInv

(* ipmid answers the request in hand, whose number its buffer then holds.  *)
LEMMA IpmiKeepsPackets ==
  ASSUME PacketInv, Ipmi PROVE PacketInv'
<1>1. /\ pc = "ipmi" /\ pc' = "build"
      /\ UNCHANGED <<up, sent, mq_req, rxbuf, tries, m_i2c>>
      /\ asked' \in {"none", "answered", "failed", "closed"}
      /\ tlen' \in {0, IPMI_RESP_HDR_SIZE, tlen}
      /\ tbuf' \in {Id(rxbuf), tbuf}
  BY DEF Ipmi, IpmiAnswers, IpmiCloses, IpmiFails, PacketInv, TypeOK
<1>2. Id(rxbuf) \in Ids
  <2>1. PICK id \in Ids, netfn \in NetFns, len \in Lengths :
          rxbuf = Packet(id, netfn, len)
    BY <1>1 DEF PacketInv, AsSent
  <2>2. netfn \in Byte
    BY IpmbdRequestsAssumption
  <2> QED
    BY <2>1, <2>2, PacketId
<1>3. TypeOK'
  BY <1>1, <1>2 DEF PacketInv, TypeOK
<1> QED
  BY <1>1, <1>3 DEF PacketInv, PostedAsSent, AsSent, IsResponse

(* The steps that leave packets alone, and a death, which drops them.      *)
LEMMA OthersKeepPackets ==
  ASSUME PacketInv,
         \/ ReceiveOverrun \/ Build \/ Overrun \/ Restart \/ I2cLock \/ Write
         \/ OthersLock \/ OthersUnlock \/ UNCHANGED vars
  PROVE  PacketInv'
<1>1. CASE ReceiveOverrun \/ Overrun
  <2>1. /\ up' = FALSE /\ sent' = sent /\ mq_req' = << >> /\ pc' = "receive"
        /\ rxbuf' = << >> /\ tbuf' = 0 /\ tlen' = 0 /\ tries' = 0
        /\ m_i2c' = "free" /\ asked' = "none"
    BY <1>1 DEF ReceiveOverrun, Overrun, Fresh
  <2>2. 0 \in 0 .. I2cRetriesMax - 1 /\ Len(<< >>) <= MqMax
    BY IpmbdRequestsAssumption
  <2>3. << >> \in Seq(Int) /\ << >> \in Seq(Seq(Int))
    OBVIOUS
  <2>4. TypeOK'
    BY <2>1, <2>2, <2>3 DEF PacketInv, TypeOK
  <2> QED
    BY <2>1, <2>4, ToSetEmpty DEF PacketInv, PostedAsSent
<1>2. CASE ~ (ReceiveOverrun \/ Overrun)
  <2>1. /\ UNCHANGED <<sent, mq_req, rxbuf, tbuf, tlen>>
        /\ up' \in BOOLEAN /\ asked' = asked /\ m_i2c' \in {"free", "requests", "others"}
        /\ pc' \in {"receive", "ipmi", "build", "lock", "write"}
        /\ pc = "receive" => pc' = "receive"
    BY <1>2 DEF Build, Restart, I2cLock, Write, I2cSent, I2cFails, OthersLock, OthersUnlock,
      vars, handlerVars, PacketInv, TypeOK
  <2>2. tries' \in 0 .. I2cRetriesMax - 1
    <3>1. tries \in 0 .. I2cRetriesMax - 1 /\ I2cRetriesMax \in Nat \ {0}
      BY IpmbdRequestsAssumption DEF PacketInv, TypeOK
    <3>2. tries' = tries \/ tries' = 0 \/ (tries + 1 < I2cRetriesMax /\ tries' = tries + 1)
      BY <1>2 DEF Build, Restart, I2cLock, Write, I2cSent, I2cFails, OthersLock, OthersUnlock,
        vars, handlerVars
    <3> QED
      BY <3>1, <3>2
  <2>3. TypeOK'
    BY <2>1, <2>2 DEF PacketInv, TypeOK
  <2> QED
    BY <2>1, <2>3 DEF PacketInv, PostedAsSent, AsSent, IsResponse
<1> QED
  BY <1>1, <1>2

(* Every reachable state has typed variables, and holds only packets the   *)
(* bridge sent.                                                            *)
LEMMA Packets == Spec => []PacketInv
<1>1. PacketInv /\ [Next]_vars => PacketInv'
  BY RxKeepsPackets, ReceiveKeepsPackets, IpmiKeepsPackets, OthersKeepPackets DEF Next
<1> QED
  BY <1>1, InitPacketInv, PTL DEF Spec

(* The variables of the request direction keep their types: the number     *)
(* that ipmid's answer carries is that of a packet the bridge sent.        *)
THEOREM Typing == Spec => []TypeOK
<1>1. PacketInv => TypeOK
  BY DEF PacketInv
<1> QED
  BY <1>1, Packets, PTL

(* Whatever the bus damages, what ipmb_rx_handler posts is byte for byte a *)
(* request the bridge sent, for every netfn, command and length of queue.  *)
THEOREM OnlySentIsPosted == Spec => []PostedAsSent
<1>1. PacketInv => PostedAsSent
  BY DEF PacketInv
<1> QED
  BY <1>1, Packets, PTL

(* An answer of ipmb_req_handler that is not ipmid's to the request it     *)
(* goes with follows a call of lib_ipmi_handle that failed.  The negative  *)
(* lengths that end the daemon have no other causes than a connection      *)
(* closed without an answer, a first call that failed, and a request that  *)
(* the bridge itself sent without a command.                               *)
THEOREM Staleness == Spec => StaleOnlyAfterFailure
<1>1. Inv /\ PacketInv /\ [Next]_vars
        => [/\ I2cSent => tbuf = Id(rxbuf) \/ asked = "failed"
            /\ up /\ ~ up' =>
                 \/ pc = "build" /\ asked \in {"none", "closed"}
                 \/ /\ pc = "receive" /\ Head(mq_req) \in ToSet(sent)
                    /\ ~ HasCommand(Head(mq_req))]_vars
  <2> SUFFICES ASSUME Inv, PacketInv, Next
               PROVE  /\ I2cSent => tbuf = Id(rxbuf) \/ asked = "failed"
                      /\ up /\ ~ up' =>
                           \/ pc = "build" /\ asked \in {"none", "closed"}
                           \/ /\ pc = "receive" /\ Head(mq_req) \in ToSet(sent)
                              /\ ~ HasCommand(Head(mq_req))
    OBVIOUS
  <2>1. I2cSent => tbuf = Id(rxbuf) \/ asked = "failed"
    BY DEF Inv, I2cSent
  <2>2. Overrun => pc = "build" /\ asked \in {"none", "closed"}
    BY DEF Inv, Overrun, IPMI_RESP_HDR_SIZE
  <2>3. ASSUME ReceiveOverrun
        PROVE  pc = "receive" /\ Head(mq_req) \in ToSet(sent) /\ ~ HasCommand(Head(mq_req))
    <3>1. pc = "receive" /\ mq_req # << >> /\ ~ HasCommand(Head(mq_req))
      BY <2>3 DEF ReceiveOverrun
    <3>2. mq_req \in Seq(Seq(Int))
      BY DEF PacketInv, TypeOK
    <3>3. Head(mq_req) \in ToSet(mq_req)
      BY <3>1, <3>2, ToSetHeadTail
    <3> QED
      BY <3>1, <3>3 DEF PacketInv, PostedAsSent
  <2>4. ASSUME ~ Overrun, ~ ReceiveOverrun, up PROVE up'
    <3>1. \A q, p : Rx(q, p) => up' = up
      BY DEF Rx
    <3>2. Receive \/ Ipmi \/ Build \/ Restart \/ I2cLock \/ Write \/ OthersLock \/ OthersUnlock
            => up'
      BY <2>4 DEF Receive, Ipmi, IpmiAnswers, IpmiCloses, IpmiFails, Build, Restart, I2cLock,
        Write, I2cSent, I2cFails, OthersLock, OthersUnlock
    <3> QED
      BY <2>4, <3>1, <3>2 DEF Next
  <2> QED
    BY <2>1, <2>2, <2>3, <2>4
<1> QED
  BY <1>1, Inductive, Packets, PTL DEF Spec, StaleOnlyAfterFailure

(* The repairs of ipmb_rx_handler undo a wrong and a missing first byte,   *)
(* but for a missing one of the packets that are then too short or whose   *)
(* netfn looks like an address, which they drop.                           *)
THEOREM RepairsAreRight == Spec => []RepairsUndo
<1>1. ASSUME NEW netfn \in Byte, NEW id \in {1, MaxPackets}, NEW len \in Lengths,
             NEW q, q = Packet(id, netfn, len)
      PROVE  /\ Accepted(q) = {q}
             /\ \A p \in FirstByteDamages(q) :
                  Accepted(p) =
                    IF p = Tail(q) /\ (len = IPMB_PKT_MIN_SIZE \/ netfn \in {BMC_SLAVE_ADDR, BRIDGE_SLAVE_ADDR})
                    THEN {} ELSE {q}
  <2>1. id \in Ids /\ id \in Nat
    BY IpmbdRequestsAssumption DEF Ids
  <2>2. IsPacket(q, id, netfn) /\ Len(q) = len /\ len \in {6, 7}
    <3>1. /\ IsPacket(Packet(id, netfn, len), id, netfn)
          /\ Len(Packet(id, netfn, len)) = len
      BY <2>1, PacketBytes
    <3>2. len \in {6, 7}
      BY DEF Lengths, IPMB_PKT_MIN_SIZE
    <3> QED
      BY <1>1, <3>1, <3>2
  <2>3. Accepted(q) = {q}
    BY <2>2, IntactOk
  <2>4. Accepted(Tail(q)) = IF len = 6 \/ netfn \in {32, 64} THEN {} ELSE {q}
    <3>1. CASE len = 6
      BY <2>2, <3>1, MissingByteDropped
    <3>2. CASE len = 7
      BY <2>1, <2>2, <3>2, MissingByteRepaired
    <3> QED
      BY <2>2, <3>1, <3>2
  <2> DEFINE p == [q EXCEPT ![1] = q[2]]
  <2>5. Accepted(p) = {q}
    <3>1. q[2] \in Byte
      BY <2>2 DEF IsPacket
    <3>2. \A b \in Byte : Accepted([q EXCEPT ![1] = b]) = {q}
      BY <2>2, FirstByteRepaired
    <3> QED
      BY <3>1, <3>2
  <2>6. Len(p) = Len(q)
    <3>1. q \in Seq(Int) /\ 1 \in 1 .. Len(q)
      BY <2>2, PacketLength
    <3>2. q[2] \in Int
      BY <2>2 DEF IsPacket, Byte
    <3> QED
      BY <3>1, <3>2, ExceptSeq
  <2>7. Len(Tail(q)) = Len(q) - 1 /\ Len(q) \in {6, 7}
    BY <2>2, WithoutFirst, PacketLength
  <2> HIDE DEF p
  <2>8. p # Tail(q)
    <3>1. SUFFICES ASSUME p = Tail(q) PROVE FALSE
      OBVIOUS
    <3>2. Len(p) = Len(Tail(q))
      BY <3>1, Zenon
    <3>3. PICK m, n : m = Len(q) /\ n = Len(Tail(q))
      OBVIOUS
    <3>4. n = m /\ n = m - 1 /\ m \in {6, 7}
      BY <2>6, <2>7, <3>2, <3>3
    <3> QED
      BY <3>4
  <2>9. FirstByteDamages(q) = {p, Tail(q)}
    BY DEF FirstByteDamages, p
  <2> QED
    BY <2>3, <2>4, <2>5, <2>8, <2>9 DEF BMC_SLAVE_ADDR, BRIDGE_SLAVE_ADDR, IPMB_PKT_MIN_SIZE
<1>2. RepairsUndo
  BY <1>1 DEF RepairsUndo
<1> QED
  BY <1>2, PTL
=============================================================================
