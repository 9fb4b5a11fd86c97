---------------------------- MODULE RikbtndProofs ----------------------------
(***************************************************************************)
(* Theorems about the power switch, for any number of clients that come    *)
(* one after the other and live to read their answers.                     *)
(***************************************************************************)
EXTENDS Rikbtnd, TLAPS

Know(c, f, l, n) == fifo = f /\ line[c] = l /\ pulses[c] = n

(* What the FIFO holds, and the client knows, for every pair of places the *)
(* client and the daemon may be in.                                        *)
Served(c) ==
  \/ at[c] = "waitW" /\ at[Web] = "openR" /\ Know(c, <<>>, "", 0)
  \/ at[c] = "write" /\ at[Web] = "read" /\ Know(c, <<>>, "", 0)
  \/ at[c] \in {"closeW", "openR", "waitR"} /\ at[Web] = "read"
       /\ Know(c, <<"switch power">>, "", 0)
  \/ at[c] \in {"closeW", "openR", "waitR"} /\ at[Web] = "pulse" /\ Know(c, <<>>, "", 0)
  \/ at[c] \in {"closeW", "openR", "waitR"}
       /\ at[Web] \in {"load", "store", "closeR", "openW"} /\ Know(c, <<>>, "", 1)
  \/ at[c] \in {"closeW", "openR"} /\ at[Web] = "waitW" /\ Know(c, <<>>, "", 1)
  \/ at[c] = "read" /\ at[Web] = "write" /\ Know(c, <<>>, "", 1)
  \/ at[c] = "read" /\ at[Web] \in {"closeW", "openR", "waitR"}
       /\ \E a \in Answers : Know(c, <<a>>, "", 1) \/ Know(c, <<>>, a, 1)
  \/ at[c] = "closeR" /\ at[Web] \in {"openR", "waitR"}
       /\ \E a \in Answers : Know(c, <<>>, a, 1)

Quiet(c) == at[c] = "idle" /\ line[c] = "" /\ pulses[c] = 0

(* Nobody is served, or c alone.                                           *)
AllQuiet ==
  /\ \A c \in Clients : Quiet(c)
  /\ at[Web] \in {"openR", "waitR"} /\ fifo = <<>>

Alone(c) == Served(c) /\ \A d \in Clients \ {c} : Quiet(d)

Phase == OneAtATime => AllQuiet \/ \E c \in Clients : Alone(c)

Fits(f) == f \in Seq(Chunks) /\ Len(f) <= FifoMax

LEMMA NothingFits == Fits(<<>>)
<1>1. <<>> \in Seq(Chunks) /\ Len(<<>>) = 0
  OBVIOUS
<1>2. FifoMax \in Nat
  BY RikbtndAssumption
<1> QED
  BY <1>1, <1>2 DEF Fits

LEMMA OneWrite ==
  ASSUME NEW x
  PROVE  <<x>> # <<>> /\ Append(<<>>, x) = <<x>> /\ Head(<<x>>) = x /\ Tail(<<x>>) = <<>>
  OBVIOUS

LEMMA TailFits == ASSUME NEW f, Fits(f), f # <<>> PROVE Fits(Tail(f))
<1>1. f \in Seq(Chunks) /\ Len(f) <= FifoMax
  BY DEF Fits
<1>2. Tail(f) \in Seq(Chunks) /\ Len(Tail(f)) = Len(f) - 1 /\ Len(f) \in Nat
  BY <1>1
<1>3. FifoMax \in Nat
  BY RikbtndAssumption
<1> QED
  BY <1>1, <1>2, <1>3 DEF Fits

LEMMA InitType == Init => TypeOK
<1> SUFFICES ASSUME Init PROVE TypeOK
  OBVIOUS
<1>1. at \in [Procs -> Locations]
  BY DEF Init, Locations
<1>2. fifo \in Seq(Chunks) /\ Len(fifo) <= FifoMax
  BY NothingFits DEF Init, Fits
<1>3. line \in [Clients -> Lines] /\ pulses \in [Clients -> 0 .. 2]
  <2>1. "" \in Lines /\ 0 \in 0 .. 2
    BY DEF Lines
  <2> QED
    BY <2>1 DEF Init
<1>4. mishaps \subseteq Mishaps
  BY DEF Init, Mishaps
<1>5. loaded \in [web : BOOLEAN, button : BOOLEAN]
  BY DEF Init
<1> QED
  BY <1>1, <1>2, <1>3, <1>4, <1>5 DEF Init, TypeOK, Buttons

LEMMA InitPhase == Init => Phase
  BY RikbtndAssumption DEF Init, Phase, AllQuiet, Quiet, Procs

(* What the calls on the FIFO do to its members.                           *)
LEMMA OpenType ==
  ASSUME at \in [Procs -> Locations], NEW p \in Procs, OpenToRead(p) \/ OpenToWrite(p)
  PROVE  at' \in [Procs -> Locations]
  BY DEF OpenToRead, OpenToWrite, Open, Locations

LEMMA CloseType ==
  ASSUME TypeOK, NEW p \in Procs, NEW l \in Locations, Close(p, l)
  PROVE  at' \in [Procs -> Locations] /\ fifo' \in Seq(Chunks) /\ Len(fifo') <= FifoMax
  BY RikbtndAssumption DEF Close, Goto, TypeOK

LEMMA LeaveType ==
  ASSUME TypeOK, NEW c \in Clients, Leave(c)
  PROVE  /\ at' \in [Procs -> Locations] /\ fifo' \in Seq(Chunks) /\ Len(fifo') <= FifoMax
         /\ line' \in [Clients -> Lines] /\ pulses' \in [Clients -> 0 .. 2]
<1>1. "idle" \in Locations /\ c \in Procs
  BY DEF Locations, Procs
<1>2. Close(c, "idle")
  BY DEF Leave
<1>3. "" \in Lines /\ 0 \in 0 .. 2
  BY DEF Lines
<1>4. line' \in [Clients -> Lines] /\ pulses' \in [Clients -> 0 .. 2]
  BY <1>3 DEF Leave, TypeOK
<1> QED
  BY <1>1, <1>2, <1>4, CloseType

LEMMA PutType ==
  ASSUME TypeOK, NEW p \in Procs, NEW k \in Chunks, Put(p, k) PROVE TypeOK'
<1>1. fifo' \in Seq(Chunks) /\ Len(fifo') <= FifoMax
  BY RikbtndAssumption DEF Put, TypeOK
<1>2. at' \in [Procs -> Locations]
  BY DEF Put, Goto, TypeOK, Locations
<1> QED
  BY <1>1, <1>2 DEF Put, TypeOK, states

LEMMA ClientType ==
  ASSUME TypeOK, NEW c \in Clients, Ask(c) \/ ClientStep(c) \/ Die(c) PROVE TypeOK'
<1>0. c \in Procs
  BY DEF Procs
<1>1. CASE Ask(c)
  <2>1. mishaps' \subseteq Mishaps
    BY <1>1 DEF Ask, TypeOK, Mishaps
  <2> QED
    BY <1>0, <1>1, <2>1, OpenType DEF Ask, TypeOK, states
<1>2. CASE Put(c, "switch power")
  BY <1>0, <1>2, PutType DEF Chunks
<1>3. CASE AskBroken(c) \/ Finish(c)
  BY <1>3, LeaveType DEF AskBroken, Finish, TypeOK, states
<1>4. CASE Die(c)
  <2>1. mishaps' \subseteq Mishaps
    BY <1>4 DEF Die, TypeOK, Mishaps
  <2> QED
    BY <1>4, <2>1, LeaveType DEF Die, TypeOK, states
<1>5. CASE Asked(c)
  <2>1. "openR" \in Locations
    BY DEF Locations
  <2> QED
    BY <1>0, <1>5, <2>1, CloseType DEF Asked, TypeOK, states
<1>6. CASE Await(c)
  BY <1>0, <1>6, OpenType DEF Await, TypeOK, states
<1>7. CASE Take(c)
  <2>1. fifo' \in Seq(Chunks) /\ Len(fifo') <= FifoMax
    BY <1>7, TailFits DEF Take, TypeOK, Fits
  <2>2. at' \in [Procs -> Locations]
    BY <1>7 DEF Take, Goto, TypeOK, Locations
  <2>3. line' \in [Clients -> Lines]
    BY <1>7 DEF Take, TypeOK, Lines
  <2> QED
    BY <1>7, <2>1, <2>2, <2>3 DEF Take, TypeOK, states
<1>8. CASE EndOfFile(c)
  <2>1. at' \in [Procs -> Locations]
    BY <1>8 DEF EndOfFile, Goto, TypeOK, Locations
  <2>2. line' \in [Clients -> Lines]
    BY <1>8 DEF EndOfFile, TypeOK, Lines
  <2> QED
    BY <1>8, <2>1, <2>2 DEF EndOfFile, TypeOK, states
<1> QED
  BY <1>1, <1>2, <1>3, <1>4, <1>5, <1>6, <1>7, <1>8 DEF ClientStep

LEMMA WebType == ASSUME TypeOK, WebStep PROVE TypeOK'
<1>0. Web \in Procs
  BY DEF Procs
<1>1. CASE Listen \/ OpenAnswer
  BY <1>0, <1>1, OpenType DEF Listen, OpenAnswer, TypeOK, states
<1>2. CASE Put(Web, Answer(power_state))
  <2>1. Answer(power_state) \in Chunks
    BY DEF Answer, Chunks, Answers
  <2> QED
    BY <1>0, <1>2, <2>1, PutType
<1>3. CASE CloseRequest \/ AnswerBroken \/ CloseAnswer
  <2>1. {"openW", "dead", "openR"} \subseteq Locations
    BY DEF Locations
  <2> QED
    BY <1>0, <1>3, <2>1, CloseType DEF CloseRequest, AnswerBroken, CloseAnswer, TypeOK, states
<1>4. CASE Read \/ Pulse \/ Load \/ Store
  <2>1. at' \in [Procs -> Locations]
    BY <1>4 DEF Read, Pulse, Load, Store, Goto, TypeOK, Locations
  <2>2. fifo' \in Seq(Chunks) /\ Len(fifo') <= FifoMax
    BY <1>4, NothingFits DEF Read, Pulse, Load, Store, TypeOK, Fits
  <2>3. pulses' \in [Clients -> 0 .. 2]
    BY <1>4 DEF Read, Pulse, Load, Store, TypeOK
  <2>4. power' \in BOOLEAN /\ power_state' \in BOOLEAN /\ button' \in Buttons
    BY <1>4 DEF Read, Pulse, Load, Store, TypeOK, states
  <2>5. loaded' \in [web : BOOLEAN, button : BOOLEAN]
    BY <1>4 DEF Read, Pulse, Load, Store, TypeOK, states
  <2> QED
    BY <1>4, <2>1, <2>2, <2>3, <2>4, <2>5 DEF Read, Pulse, Load, Store, TypeOK
<1> QED
  BY <1>1, <1>2, <1>3, <1>4 DEF WebStep

LEMMA ButtonType ==
  ASSUME TypeOK, Press \/ PressLoad \/ Pressed \/ PressMissed PROVE TypeOK'
<1>1. mishaps' \subseteq Mishaps
  BY DEF Press, PressLoad, Pressed, PressMissed, TypeOK, Mishaps
<1>2. power' \in BOOLEAN /\ power_state' \in BOOLEAN /\ button' \in Buttons
  BY DEF Press, PressLoad, Pressed, PressMissed, TypeOK, Buttons
<1>3. loaded' \in [web : BOOLEAN, button : BOOLEAN]
  BY DEF Press, PressLoad, Pressed, PressMissed, TypeOK
<1> QED
  BY <1>1, <1>2, <1>3 DEF Press, PressLoad, Pressed, PressMissed, TypeOK

LEMMA TypeStep == TypeOK /\ [Next]_vars => TypeOK'
<1>1. TypeOK /\ UNCHANGED vars => TypeOK'
  BY DEF vars, states, TypeOK
<1> QED
  BY <1>1, ClientType, WebType, ButtonType DEF Next

(* Every variable keeps its type, for any clients and capacity.            *)
THEOREM Typing == Spec => []TypeOK
  BY InitType, TypeStep, PTL DEF Spec

-----------------------------------------------------------------------------
(* One client at a time.                                                   *)

(* The other side of the FIFO, while c is served alone.                    *)
LEMMA Ends ==
  ASSUME NEW c \in Clients, \A d \in Clients \ {c} : at[d] = "idle"
  PROVE  /\ Readers = {p \in {c, Web} : at[p] \in {"waitR", "read", "pulse", "load",
                                                  "store", "closeR"}}
         /\ Writers = {p \in {c, Web} : at[p] \in {"waitW", "write", "closeW"}}
  BY DEF Readers, Writers, Procs

LEMMA AskPhase ==
  ASSUME TypeOK, Phase, NEW c \in Clients, Ask(c), OneAtATime' PROVE Phase'
<1>1. OneAtATime /\ Active = {}
  BY DEF Ask, OneAtATime
<1>2. AllQuiet
  BY <1>1 DEF Phase, Alone, Served, Active
<1>3. Readers = {p \in {Web} : at[Web] = "waitR"}
  BY <1>2 DEF AllQuiet, Quiet, Readers, Procs
<1>4. UNCHANGED <<fifo, line, pulses>> /\ OpenToWrite(c)
  BY DEF Ask
<1>5. Alone(c)'
  <2>1. \A d \in Clients \ {c} : at'[d] = "idle"
    BY <1>2, <1>4, RikbtndAssumption DEF AllQuiet, Quiet, OpenToWrite, Open, Procs
  <2>2. CASE at[Web] = "openR"
    <3>1. at'[c] = "waitW" /\ at'[Web] = "openR"
      BY <1>3, <1>4, <2>2, RikbtndAssumption DEF OpenToWrite, Open, Procs
    <3> QED
      BY <1>2, <1>4, <2>1, <3>1 DEF Alone, Served, Know, AllQuiet, Quiet
  <2>3. CASE at[Web] = "waitR"
    <3>1. at'[c] = "write" /\ at'[Web] = "read"
      BY <1>3, <1>4, <2>3, RikbtndAssumption DEF OpenToWrite, Open, Procs
    <3> QED
      BY <1>2, <1>4, <2>1, <3>1 DEF Alone, Served, Know, AllQuiet, Quiet
  <2> QED
    BY <1>2, <2>2, <2>3 DEF AllQuiet
<1> QED
  BY <1>5 DEF Phase

(* Who takes a step other than asking is being served.                     *)
LEMMA ClientPhase ==
  ASSUME TypeOK, Phase, NEW c \in Clients, ClientStep(c), OneAtATime' PROVE Phase'
<1>1. OneAtATime /\ at[c] # "idle"
  BY DEF ClientStep, Put, AskBroken, Asked, Await, Take, EndOfFile, Finish, OneAtATime
<1>2. Alone(c)
  BY <1>1 DEF Phase, AllQuiet, Alone, Quiet
<1>3. \A d \in Clients \ {c} : Quiet(d)
  BY <1>2 DEF Alone
<1>4. /\ c # Web /\ c \in Procs /\ Web \in Procs /\ at \in [Procs -> Locations]
      /\ line \in [Clients -> Lines] /\ pulses \in [Clients -> 0 .. 2]
  BY RikbtndAssumption DEF Procs, TypeOK
<1>5. /\ Readers = {p \in {c, Web} : at[p] \in {"waitR", "read", "pulse", "load",
                                               "store", "closeR"}}
      /\ Writers = {p \in {c, Web} : at[p] \in {"waitW", "write", "closeW"}}
  BY <1>3, Ends DEF Quiet
<1>6. Served(c)
  BY <1>2 DEF Alone
<1> SUFFICES \/ Alone(c)'
             \/ AllQuiet'
  BY DEF Phase
<1> USE DEF Know, Answers
<1>a. CASE Put(c, "switch power")
  <2>1. at[c] = "write" /\ at[Web] = "read" /\ fifo = <<>>
    BY <1>a, <1>6 DEF Put, Served
  <2>2. fifo' = <<"switch power">>
    BY <1>a, <2>1, OneWrite DEF Put
  <2>3. at'[c] = "closeW" /\ at'[Web] = "read" /\ UNCHANGED <<line, pulses>>
    BY <1>a, <1>4, <2>1 DEF Put, Goto
  <2>4. \A d \in Clients \ {c} : at'[d] = at[d]
    BY <1>a, <1>4 DEF Put, Goto, Procs
  <2>5. Served(c)'
    BY <1>6, <2>1, <2>2, <2>3 DEF Served
  <2> QED
    BY <1>3, <2>3, <2>4, <2>5 DEF Alone, Quiet
<1>b. CASE AskBroken(c)
  BY <1>b, <1>4, <1>5, <1>6 DEF AskBroken, Served
<1>c. CASE Asked(c)
  <2>1. at[c] = "closeW" /\ UNCHANGED <<line, pulses>>
    BY <1>c DEF Asked
  <2>2. at'[c] = "openR" /\ \A q \in Procs \ {c} : at'[q] = at[q]
    BY <1>c, <1>4 DEF Asked, Close, Goto
  <2>3. fifo' = fifo
    <3>1. fifo' = IF (Readers \union Writers) \ {c} = {} THEN <<>> ELSE fifo
      BY <1>c DEF Asked, Close
    <3>2. at[Web] = "read" \/ fifo = <<>>
      BY <1>6, <2>1 DEF Served
    <3>3. at[Web] = "read" => Web \in (Readers \union Writers) \ {c}
      BY <1>4, <1>5
    <3> QED
      BY <3>1, <3>2, <3>3
  <2>4. Served(c)'
    BY <1>4, <1>6, <2>1, <2>2, <2>3 DEF Served
  <2> QED
    BY <1>3, <2>1, <2>2, <2>4 DEF Alone, Quiet, Procs
<1>d. CASE Await(c)
  <2>1. at[c] = "openR" /\ UNCHANGED <<fifo, line, pulses>>
    BY <1>d DEF Await
  <2>2. \A d \in Clients \ {c} : at'[d] = at[d]
    BY <1>d, <1>3, <1>4 DEF Await, OpenToRead, Open, Procs, Quiet
  <2>3. CASE at[Web] = "waitW"
    <3>1. at'[c] = "read" /\ at'[Web] = "write"
      BY <1>d, <1>4, <1>5, <2>3 DEF Await, OpenToRead, Open
    <3> QED
      BY <1>3, <1>6, <2>1, <2>2, <2>3, <3>1 DEF Served, Alone, Quiet
  <2>4. CASE at[Web] # "waitW"
    <3>1. Writers = {}
      BY <1>5, <1>6, <2>1, <2>4 DEF Served
    <3>2. at'[c] = "waitR" /\ at'[Web] = at[Web]
      BY <1>d, <1>4, <2>4, <3>1 DEF Await, OpenToRead, Open
    <3>3. Served(c)'
      BY <1>6, <2>1, <2>4, <3>2 DEF Served
    <3> QED
      BY <1>3, <2>1, <2>2, <3>3 DEF Alone, Quiet
  <2> QED
    BY <2>3, <2>4
<1>e. CASE Take(c)
  <2>1. at[c] = "read" /\ fifo # <<>> /\ UNCHANGED pulses
    BY <1>e DEF Take
  <2>2. PICK a \in Answers : fifo = <<a>> /\ line[c] = ""
    BY <1>6, <2>1 DEF Served
  <2>3. Head(fifo) = a /\ Tail(fifo) = <<>>
    BY <2>2, OneWrite
  <2>4. fifo' = <<>> /\ line' = [line EXCEPT ![c] = a] /\ at' = [at EXCEPT ![c] = "read"]
    BY <1>e, <2>2, <2>3 DEF Take, Goto
  <2>5. at'[c] = "read" /\ line'[c] = a /\ at'[Web] = at[Web]
    BY <1>4, <2>4
  <2>6. Served(c)'
    BY <1>6, <2>1, <2>4, <2>5 DEF Served
  <2>7. \A d \in Clients \ {c} : at'[d] = at[d] /\ line'[d] = line[d]
    BY <1>4, <2>4 DEF Procs
  <2> QED
    BY <1>3, <2>1, <2>6, <2>7 DEF Alone, Quiet
<1>f. CASE EndOfFile(c)
  <2>1. at[c] = "read" /\ fifo = <<>> /\ Writers = {} /\ UNCHANGED <<fifo, pulses>>
    BY <1>f DEF EndOfFile
  <2>2. at[Web] \in {"openR", "waitR"} /\ line[c] \in Answers /\ pulses[c] = 1
    BY <1>4, <1>5, <1>6, <2>1 DEF Served
  <2>3. line' = [line EXCEPT ![c] = line[c]] /\ at' = [at EXCEPT ![c] = "closeR"]
    BY <1>f, <2>2 DEF EndOfFile, Goto
  <2>4. at'[c] = "closeR" /\ at'[Web] = at[Web] /\ line' = line
    BY <1>4, <2>3
  <2>5. \A d \in Clients \ {c} : at'[d] = at[d]
    BY <1>4, <2>3 DEF Procs
  <2>6. Served(c)'
    BY <2>1, <2>2, <2>4 DEF Served
  <2> QED
    BY <1>3, <2>1, <2>4, <2>5, <2>6 DEF Alone, Quiet
<1>g. CASE Finish(c)
  <2>1. at[c] = "closeR" /\ fifo = <<>> /\ at[Web] \in {"openR", "waitR"}
    BY <1>g, <1>6 DEF Finish, Served
  <2>2. /\ at' = [at EXCEPT ![c] = "idle"] /\ line' = [line EXCEPT ![c] = ""]
        /\ pulses' = [pulses EXCEPT ![c] = 0] /\ fifo' = <<>>
    BY <1>g, <2>1 DEF Finish, Leave, Close, Goto
  <2>3. \A d \in Clients : Quiet(d)'
    BY <1>3, <1>4, <2>2 DEF Quiet, Procs
  <2> QED
    BY <1>4, <2>1, <2>2, <2>3 DEF AllQuiet
<1> QED
  BY <1>a, <1>b, <1>c, <1>d, <1>e, <1>f, <1>g DEF ClientStep

(* The daemon's steps while nobody is served.                              *)
LEMMA WebQuiet ==
  ASSUME TypeOK, AllQuiet, WebStep PROVE AllQuiet'
<1>1. Readers = {p \in {Web} : at[Web] = "waitR"} /\ Writers = {}
  BY DEF AllQuiet, Quiet, Readers, Writers, Procs
<1>2. Listen
  BY RikbtndAssumption DEF AllQuiet, WebStep, Read, Pulse, Load, Store, CloseRequest,
     OpenAnswer, Put, AnswerBroken, CloseAnswer
<1>3. at'[Web] = "waitR"
  BY <1>1, <1>2 DEF Listen, OpenToRead, Open, Procs
<1>4. \A c \in Clients : at'[c] = "idle"
  BY <1>2, RikbtndAssumption DEF Listen, OpenToRead, Open, Procs, AllQuiet, Quiet
<1> QED
  BY <1>2, <1>3, <1>4 DEF AllQuiet, Quiet, Listen

(* Its steps while it serves c.                                            *)
LEMMA WebServes ==
  ASSUME TypeOK, NEW c \in Clients, Alone(c), WebStep PROVE Alone(c)'
<1>1. Served(c) /\ \A d \in Clients \ {c} : Quiet(d)
  BY DEF Alone
<1>2. /\ c # Web /\ c \in Procs /\ Web \in Procs /\ at \in [Procs -> Locations]
      /\ line \in [Clients -> Lines] /\ pulses \in [Clients -> 0 .. 2]
  BY RikbtndAssumption DEF Procs, TypeOK
<1>3. /\ Readers = {p \in {c, Web} : at[p] \in {"waitR", "read", "pulse", "load",
                                               "store", "closeR"}}
      /\ Writers = {p \in {c, Web} : at[p] \in {"waitW", "write", "closeW"}}
  BY <1>1, Ends DEF Quiet
<1> USE DEF Know, Answers
<1>a. CASE Listen
  <2>1. at[Web] = "openR" /\ UNCHANGED <<fifo, line, pulses>>
    BY <1>a DEF Listen
  <2>2. \A d \in Clients \ {c} : at'[d] = at[d]
    BY <1>a, <1>1, <1>2 DEF Listen, OpenToRead, Open, Procs, Quiet
  <2>3. CASE at[c] = "waitW"
    <3>1. at'[c] = "write" /\ at'[Web] = "read"
      BY <1>a, <1>2, <1>3, <2>3 DEF Listen, OpenToRead, Open
    <3> QED
      BY <1>1, <2>1, <2>2, <2>3, <3>1 DEF Served, Alone, Quiet
  <2>4. CASE at[c] # "waitW"
    <3>1. Writers = {}
      BY <1>1, <1>3, <2>1, <2>4 DEF Served
    <3>2. at'[Web] = "waitR" /\ at'[c] = at[c]
      BY <1>a, <1>2, <2>4, <3>1 DEF Listen, OpenToRead, Open
    <3>3. Served(c)'
      BY <1>1, <2>1, <2>4, <3>2 DEF Served
    <3> QED
      BY <1>1, <2>1, <2>2, <3>3 DEF Alone, Quiet
  <2> QED
    BY <2>3, <2>4
<1>b. CASE Read
  <2>1. at[Web] = "read" /\ (fifo # <<>> \/ Writers = {}) /\ UNCHANGED <<line, pulses>>
    BY <1>b DEF Read
  <2>2. fifo # <<>> /\ at[c] \in {"closeW", "openR", "waitR"} /\ line[c] = "" /\ pulses[c] = 0
    <3>1. at[c] # "write"
      BY <1>1, <1>3, <2>1 DEF Served
    <3>2. /\ at[c] \in {"closeW", "openR", "waitR"} /\ fifo = <<"switch power">>
          /\ line[c] = "" /\ pulses[c] = 0
      BY <1>1, <2>1, <3>1 DEF Served
    <3> QED
      BY <3>2, OneWrite
  <2>3. fifo' = <<>> /\ at' = [at EXCEPT ![Web] = "pulse"]
    BY <1>b, <2>2 DEF Read, Goto
  <2>4. Served(c)'
    BY <1>2, <2>1, <2>2, <2>3 DEF Served
  <2> QED
    BY <1>1, <1>2, <2>1, <2>3, <2>4 DEF Alone, Quiet, Procs
<1>c. CASE Pulse
  <2>1. at[Web] = "pulse" /\ UNCHANGED <<fifo, line>> /\ at' = [at EXCEPT ![Web] = "load"]
    BY <1>c DEF Pulse, Goto
  <2>2. /\ at[c] \in {"closeW", "openR", "waitR"} /\ fifo = <<>> /\ line[c] = ""
        /\ pulses[c] = 0
    BY <1>1, <2>1 DEF Served
  <2>3. pulses'[c] = 1 /\ \A d \in Clients \ {c} : pulses'[d] = 0
    <3>1. pulses' = [d \in Clients |-> IF at[d] = "idle" THEN 0
                                     ELSE IF pulses[d] < 2 THEN pulses[d] + 1 ELSE 2]
      BY <1>c DEF Pulse
    <3>2. \A d \in Clients \ {c} : pulses'[d] = 0
      BY <1>1, <3>1 DEF Quiet
    <3>3. pulses'[c] = 1
      <4>1. at[c] # "idle"
        BY <2>2
      <4>2. pulses'[c] = IF pulses[c] < 2 THEN pulses[c] + 1 ELSE 2
        BY <3>1, <4>1
      <4>3. pulses[c] = 0
        BY <2>2
      <4>4. pulses[c] < 2 /\ pulses[c] + 1 = 1
        BY <4>3
      <4> QED
        BY <4>2, <4>4
    <3> QED
      BY <3>2, <3>3
  <2>4. Served(c)'
    BY <1>2, <2>1, <2>2, <2>3 DEF Served
  <2> QED
    BY <1>1, <1>2, <2>1, <2>3, <2>4 DEF Alone, Quiet, Procs
<1>d. CASE Load \/ Store
  <2>1. /\ at[Web] \in {"load", "store"} /\ UNCHANGED <<fifo, line, pulses>>
        /\ \E l \in {"store", "closeR"} : at' = [at EXCEPT ![Web] = l]
    BY <1>d DEF Load, Store, Goto
  <2>2. Served(c)'
    BY <1>1, <1>2, <2>1 DEF Served
  <2> QED
    BY <1>1, <1>2, <2>1, <2>2 DEF Alone, Quiet, Procs
<1>e. CASE CloseRequest
  <2>1. /\ at[Web] = "closeR" /\ UNCHANGED <<line, pulses>> /\ fifo' \in {fifo, <<>>}
        /\ at' = [at EXCEPT ![Web] = "openW"]
    BY <1>e DEF CloseRequest, Close, Goto
  <2>2. Served(c)'
    BY <1>1, <1>2, <2>1 DEF Served
  <2> QED
    BY <1>1, <1>2, <2>1, <2>2 DEF Alone, Quiet, Procs
<1>f. CASE OpenAnswer
  <2>1. at[Web] = "openW" /\ UNCHANGED <<fifo, line, pulses>>
    BY <1>f DEF OpenAnswer
  <2>2. \A d \in Clients \ {c} : at'[d] = at[d]
    BY <1>f, <1>1, <1>2 DEF OpenAnswer, OpenToWrite, Open, Procs, Quiet
  <2>3. CASE at[c] = "waitR"
    <3>1. at'[c] = "read" /\ at'[Web] = "write"
      BY <1>f, <1>2, <1>3, <2>3 DEF OpenAnswer, OpenToWrite, Open
    <3> QED
      BY <1>1, <2>1, <2>2, <2>3, <3>1 DEF Served, Alone, Quiet
  <2>4. CASE at[c] # "waitR"
    <3>1. Readers = {} /\ at[c] \in {"closeW", "openR"}
      BY <1>1, <1>3, <2>1, <2>4 DEF Served
    <3>2. at'[Web] = "waitW" /\ at'[c] = at[c]
      BY <1>f, <1>2, <2>4, <3>1 DEF OpenAnswer, OpenToWrite, Open
    <3>3. Served(c)'
      BY <1>1, <2>1, <3>1, <3>2 DEF Served
    <3> QED
      BY <1>1, <2>1, <2>2, <3>3 DEF Alone, Quiet
  <2> QED
    BY <2>3, <2>4
<1>g. CASE Put(Web, Answer(power_state))
  <2>1. at[Web] = "write" /\ UNCHANGED <<line, pulses>> /\ at' = [at EXCEPT ![Web] = "closeW"]
    BY <1>g DEF Put, Goto
  <2>2. at[c] = "read" /\ fifo = <<>> /\ line[c] = "" /\ pulses[c] = 1
    BY <1>1, <2>1 DEF Served
  <2>3. PICK a \in Answers : fifo' = <<a>>
    BY <1>g, <2>2, OneWrite DEF Put, Answer
  <2>4. Served(c)'
    BY <1>2, <2>1, <2>2, <2>3 DEF Served
  <2> QED
    BY <1>1, <1>2, <2>1, <2>4 DEF Alone, Quiet, Procs
<1>h. CASE AnswerBroken
  BY <1>h, <1>1, <1>3 DEF AnswerBroken, Served
<1>i. CASE CloseAnswer
  <2>1. at[Web] = "closeW" /\ UNCHANGED <<line, pulses>> /\ at' = [at EXCEPT ![Web] = "openR"]
    BY <1>i DEF CloseAnswer, Close, Goto
  <2>2. at[c] = "read" /\ fifo' = fifo
    BY <1>i, <1>1, <1>2, <1>3, <2>1 DEF CloseAnswer, Close, Served
  <2>3. Served(c)'
    BY <1>1, <1>2, <2>1, <2>2 DEF Served
  <2> QED
    BY <1>1, <1>2, <2>1, <2>3 DEF Alone, Quiet, Procs
<1> QED
  BY <1>a, <1>b, <1>c, <1>d, <1>e, <1>f, <1>g, <1>h, <1>i DEF WebStep

LEMMA PhaseStep == TypeOK /\ Phase /\ [Next]_vars => Phase'
<1> SUFFICES ASSUME TypeOK, Phase, [Next]_vars, OneAtATime' PROVE Phase'
  BY DEF Phase
<1>1. CASE UNCHANGED <<at, fifo, line, pulses>> /\ mishaps \subseteq mishaps'
  BY <1>1 DEF Phase, OneAtATime, AllQuiet, Alone, Quiet, Served, Know
<1>2. ASSUME NEW c \in Clients, Ask(c) \/ ClientStep(c) \/ Die(c) PROVE Phase'
  <2>1. CASE Die(c)
    BY <2>1 DEF Die, OneAtATime
  <2> QED
    BY <1>2, <2>1, AskPhase, ClientPhase
<1>3. CASE WebStep
  <2>1. OneAtATime
    BY <1>3 DEF WebStep, Listen, Read, Pulse, Load, Store, CloseRequest, OpenAnswer, Put,
       AnswerBroken, CloseAnswer, OneAtATime
  <2> QED
    BY <1>3, <2>1, WebQuiet, WebServes DEF Phase
<1>4. CASE Press \/ PressLoad \/ Pressed \/ PressMissed \/ UNCHANGED vars
  BY <1>1, <1>4 DEF Press, PressLoad, Pressed, PressMissed, vars
<1> QED
  BY <1>2, <1>3, <1>4 DEF Next

LEMMA Phases == Spec => [](TypeOK /\ Phase)
<1>1. Init => TypeOK /\ Phase
  BY InitType, InitPhase
<1>2. TypeOK /\ Phase /\ [Next]_vars => (TypeOK /\ Phase)'
  BY TypeStep, PhaseStep
<1> QED
  BY <1>1, <1>2, PTL DEF Spec

(* rikbtnd is never killed by writing an answer that nobody reads, for any *)
(* number of clients that come one after the other and live to read.       *)
THEOREM Stays == Spec => []DaemonStays
<1>1. Phase => DaemonStays
  BY DEF Phase, DaemonStays, AllQuiet, Alone, Served
<1> QED
  BY <1>1, Phases, PTL

(* Each request of such a client pulses the power button exactly once, and *)
(* its client reads "on" or "off".                                         *)
THEOREM Switches == Spec => []SwitchedOnce
<1>1. Phase => SwitchedOnce
  <2> SUFFICES ASSUME Phase, OneAtATime, NEW c \in Clients, at[c] = "closeR"
               PROVE  pulses[c] = 1 /\ line[c] \in Answers
    BY DEF SwitchedOnce
  <2>1. Alone(c)
    BY DEF Phase, AllQuiet, Alone, Quiet
  <2> QED
    BY <2>1 DEF Alone, Served, Know
<1> QED
  BY <1>1, Phases, PTL

-----------------------------------------------------------------------------
(* What the client is told.                                                *)

(* The host's power and power_state differ while one of the two toggles is *)
(* under way, and all answers on their way are power_state's.              *)
Toggling == button # "up" \/ at[Web] \in {"load", "store"}

Tracks ==
  mishaps = {} =>
    /\ button # "up" => Active = {}
    /\ button = "loaded" => loaded.button = power_state
    /\ at[Web] = "store" => loaded.web = power_state
    /\ Toggling => power # power_state
    /\ ~ Toggling => power = power_state
    /\ \A a \in Answers : fifo = <<a>> => a = Answer(power_state)
    /\ \A c \in Clients : line[c] \in Answers => line[c] = Answer(power_state)

LEMMA InitTracks == Init => Tracks
<1> SUFFICES ASSUME Init, mishaps = {} PROVE Tracks
  BY DEF Tracks
<1>1. power = FALSE /\ power_state = FALSE /\ button = "up" /\ at[Web] = "openR"
  BY DEF Init, Procs
<1>2. \A a \in Answers : fifo # <<a>>
  BY OneWrite DEF Init
<1>3. \A c \in Clients : line[c] \notin Answers
  BY DEF Init, Answers
<1> QED
  BY <1>1, <1>2, <1>3 DEF Tracks, Toggling

(* A step that leaves the power and the threads' toggles alone, and brings *)
(* no answer but power_state's.                                            *)
LEMMA TracksOn ==
  ASSUME Tracks, mishaps = {}, UNCHANGED states, button # "up" => Active' = {},
         at'[Web] \in {"load", "store"} <=> at[Web] \in {"load", "store"},
         at'[Web] = "store" => at[Web] = "store",
         \A a \in Answers : fifo' = <<a>> => a = Answer(power_state),
         \A c \in Clients : line'[c] \in Answers => line'[c] = Answer(power_state)
  PROVE  Tracks'
  BY DEF Tracks, Toggling, Answer, states

LEMMA ClientTracks ==
  ASSUME TypeOK, Phase, Tracks, mishaps' = {},
         NEW c \in Clients, Ask(c) \/ ClientStep(c)
  PROVE  Tracks'
<1>1. mishaps = {} /\ UNCHANGED states
  BY DEF Ask, ClientStep, Put, AskBroken, Asked, Await, Take, EndOfFile, Finish
<1>2. c # Web /\ c \in Procs /\ Web \in Procs /\ at \in [Procs -> Locations]
  BY RikbtndAssumption DEF Procs, TypeOK
<1>3. \/ at'[Web] = at[Web]
      \/ at'[Web] \in {"read", "write"} /\ at[Web] \in {"waitR", "waitW"}
  BY <1>2 DEF Ask, ClientStep, Put, AskBroken, Asked, Await, Take, EndOfFile, Finish, Leave,
     Close, Goto, OpenToRead, OpenToWrite, Open
<1>4. ASSUME button # "up" PROVE FALSE
  <2>1. Active = {}
    BY <1>1, <1>4 DEF Tracks
  <2>2. Ask(c)
    BY <2>1 DEF Active, ClientStep, Put, AskBroken, Asked, Await, Take, EndOfFile, Finish
  <2> QED
    BY <1>4, <2>2 DEF Ask
<1>5. /\ \A a \in Answers : fifo' = <<a>> => a = Answer(power_state)
      /\ \A d \in Clients : line'[d] \in Answers => line'[d] = Answer(power_state)
  <2>1. /\ \A a \in Answers : fifo = <<a>> => a = Answer(power_state)
        /\ \A d \in Clients : line[d] \in Answers => line[d] = Answer(power_state)
    BY <1>1 DEF Tracks
  <2>2. CASE Take(c)
    <3>1. at[c] = "read" /\ fifo # <<>> /\ Alone(c)
      BY <1>1, <2>2 DEF Take, Phase, OneAtATime, AllQuiet, Alone, Quiet
    <3>2. PICK a \in Answers : fifo = <<a>> /\ line[c] = ""
      BY <3>1 DEF Alone, Served, Know
    <3>3. fifo' = <<>> /\ line' = [line EXCEPT ![c] = a]
      BY <2>2, <3>2, OneWrite DEF Take
    <3> QED
      BY <2>1, <3>2, <3>3, OneWrite DEF TypeOK
  <2>3. CASE Put(c, "switch power")
    <3>1. fifo = <<>> /\ line' = line
      BY <1>1, <2>3 DEF Put, Phase, OneAtATime, AllQuiet, Alone, Quiet, Served, Know
    <3>2. fifo' = <<"switch power">>
      BY <2>3, <3>1, OneWrite DEF Put
    <3>3. \A a : a = "switch power" => a \notin Answers
      BY DEF Answers
    <3>4. \A a : fifo' = <<a>> => a = "switch power"
      BY <3>2
    <3> QED
      BY <2>1, <3>1, <3>3, <3>4
  <2>4. CASE ~ Take(c) /\ ~ Put(c, "switch power")
    <3>1. fifo' \in {fifo, <<>>}
      BY <2>4 DEF Ask, ClientStep, AskBroken, Asked, Await, EndOfFile, Finish, Leave, Close
    <3>2. \A d \in Clients : line'[d] \in {line[d], "", "?"}
      BY <2>4 DEF Ask, ClientStep, AskBroken, Asked, Await, EndOfFile, Finish, Leave, TypeOK
    <3> QED
      BY <2>1, <3>1, <3>2, OneWrite DEF Answers
  <2> QED
    BY <2>2, <2>3, <2>4
<1>6. at'[Web] \in {"load", "store"} <=> at[Web] \in {"load", "store"}
  BY <1>3
<1>7. at'[Web] = "store" => at[Web] = "store"
  BY <1>3
<1> QED
  BY <1>1, <1>4, <1>5, <1>6, <1>7, TracksOn

(* While the daemon serves a request and has not answered it, no answer is *)
(* on its way.                                                             *)
LEMMA Unanswered ==
  ASSUME TypeOK, Phase, OneAtATime, at[Web] \in {"pulse", "load", "store", "write"}
  PROVE  Active # {} /\ fifo = <<>> /\ \A c \in Clients : line[c] \notin Answers
<1>1. PICK c \in Clients : Alone(c)
  BY DEF Phase, AllQuiet
<1>2. fifo = <<>> /\ line[c] = "" /\ at[c] # "idle"
  BY <1>1 DEF Alone, Served, Know
<1> QED
  BY <1>1, <1>2 DEF Alone, Quiet, Active, Answers

LEMMA WebTracks ==
  ASSUME TypeOK, Phase, Tracks, mishaps' = {}, WebStep PROVE Tracks'
<1>1. mishaps = {} /\ OneAtATime
  BY DEF WebStep, Listen, Read, Pulse, Load, Store, CloseRequest, OpenAnswer, Put,
     AnswerBroken, CloseAnswer, OneAtATime
<1>2. Web \in Procs /\ at \in [Procs -> Locations]
  BY DEF Procs, TypeOK
<1>3. /\ button # "up" => Active = {}
      /\ button = "loaded" => loaded.button = power_state
      /\ at[Web] = "store" => loaded.web = power_state
      /\ Toggling => power # power_state
      /\ ~ Toggling => power = power_state
      /\ \A a \in Answers : fifo = <<a>> => a = Answer(power_state)
      /\ \A c \in Clients : line[c] \in Answers => line[c] = Answer(power_state)
  BY <1>1 DEF Tracks
<1>4. power \in BOOLEAN /\ power_state \in BOOLEAN /\ button \in Buttons
      /\ loaded \in [web : BOOLEAN, button : BOOLEAN]
  BY DEF TypeOK
<1>5. \A a \in Answers : <<>> # <<a>>
  BY OneWrite
<1>a. CASE Pulse
  <2>1. at[Web] = "pulse" /\ at'[Web] = "load" /\ UNCHANGED <<fifo, line, power_state, button>>
    BY <1>a, <1>2 DEF Pulse, Goto
  <2>2. fifo = <<>> /\ (\A c \in Clients : line[c] \notin Answers) /\ button = "up"
    BY <1>1, <1>3, <2>1, Unanswered
  <2>3. power' # power
    BY <1>a, <1>4 DEF Pulse
  <2>4. power = power_state
    BY <1>3, <2>1, <2>2 DEF Toggling
  <2> QED
    BY <1>5, <2>1, <2>2, <2>3, <2>4 DEF Tracks, Toggling
<1>b. CASE Load
  <2>1. /\ at[Web] = "load" /\ at'[Web] = "store"
        /\ UNCHANGED <<fifo, line, power_state, power, button>>
    BY <1>b, <1>2 DEF Load, Goto
  <2>2. fifo = <<>> /\ (\A c \in Clients : line[c] \notin Answers) /\ button = "up"
    BY <1>1, <1>3, <2>1, Unanswered
  <2>3. loaded'.web = power_state
    BY <1>b, <1>4 DEF Load
  <2>4. power # power_state
    BY <1>3, <2>1 DEF Toggling
  <2> QED
    BY <1>5, <2>1, <2>2, <2>3, <2>4 DEF Tracks, Toggling
<1>c. CASE Store
  <2>1. at[Web] = "store" /\ at'[Web] = "closeR" /\ UNCHANGED <<fifo, line, power, button>>
    BY <1>c, <1>2 DEF Store, Goto
  <2>2. fifo = <<>> /\ (\A c \in Clients : line[c] \notin Answers) /\ button = "up"
    BY <1>1, <1>3, <2>1, Unanswered
  <2>3. power_state' # loaded.web /\ power_state' \in BOOLEAN
    BY <1>c, <1>4 DEF Store
  <2>4. power # power_state /\ loaded.web = power_state
    BY <1>3, <2>1 DEF Toggling
  <2>5. power = power_state'
    BY <1>4, <2>3, <2>4
  <2> QED
    BY <1>5, <2>1, <2>2, <2>5 DEF Tracks, Toggling
<1>d. CASE Put(Web, Answer(power_state))
  <2>1. at[Web] = "write" /\ at'[Web] = "closeW" /\ UNCHANGED <<line, states>>
    BY <1>d, <1>2 DEF Put, Goto
  <2>2. fifo = <<>> /\ (\A c \in Clients : line[c] \notin Answers) /\ button = "up"
    BY <1>1, <1>3, <2>1, Unanswered
  <2>3. fifo' = <<Answer(power_state)>>
    BY <1>d, <2>2, OneWrite DEF Put
  <2>4. \A a \in Answers : fifo' = <<a>> => a = Answer(power_state)
    BY <2>3
  <2> QED
    BY <1>1, <2>1, <2>2, <2>4, TracksOn
<1>e. CASE Listen \/ Read \/ CloseRequest \/ OpenAnswer \/ AnswerBroken \/ CloseAnswer
  <2>1. UNCHANGED <<line, states>> /\ fifo' \in {fifo, <<>>}
    BY <1>e DEF Listen, Read, CloseRequest, OpenAnswer, AnswerBroken, CloseAnswer, Close
  <2>2. at[Web] \notin {"load", "store"} /\ at'[Web] \notin {"load", "store"}
    BY <1>e, <1>2 DEF Listen, Read, CloseRequest, OpenAnswer, AnswerBroken, CloseAnswer,
       Close, Goto, OpenToRead, OpenToWrite, Open
  <2>3. button # "up" => Active' = {}
    <3>1. \A c \in Clients : at[c] = "idle" => at'[c] = "idle"
      BY <1>e, RikbtndAssumption DEF Listen, Read, CloseRequest, OpenAnswer, AnswerBroken,
         CloseAnswer, Close, Goto, OpenToRead, OpenToWrite, Open, Procs, TypeOK
    <3> QED
      BY <1>3, <3>1 DEF Active
  <2>4. \A a \in Answers : fifo' = <<a>> => a = Answer(power_state)
    BY <1>3, <1>5, <2>1
  <2>5. \A c \in Clients : line'[c] \in Answers => line'[c] = Answer(power_state)
    BY <1>3, <2>1
  <2> QED
    BY <1>1, <2>1, <2>2, <2>3, <2>4, <2>5, TracksOn
<1> QED
  BY <1>a, <1>b, <1>c, <1>d, <1>e DEF WebStep

LEMMA ButtonTracks ==
  ASSUME TypeOK, Phase, Tracks, mishaps' = {}, Press \/ PressLoad \/ Pressed PROVE Tracks'
<1>1. mishaps = {} /\ OneAtATime /\ UNCHANGED <<at, fifo, line>>
  BY DEF Press, PressLoad, Pressed, OneAtATime
<1>2. Active = {}
  BY <1>1 DEF Press, PressLoad, Pressed, Tracks
<1>3. AllQuiet
  BY <1>1, <1>2 DEF Phase, Alone, Served, Active
<1>4. /\ at[Web] \in {"openR", "waitR"}
      /\ \A a \in Answers : fifo # <<a>>
      /\ \A c \in Clients : line[c] \notin Answers
  BY <1>3, OneWrite DEF AllQuiet, Quiet, Answers
<1>5. power \in BOOLEAN /\ power_state \in BOOLEAN /\ button \in Buttons
      /\ loaded \in [web : BOOLEAN, button : BOOLEAN]
  BY DEF TypeOK
<1>6. CASE Press
  <2>1. power = power_state
    BY <1>1, <1>4, <1>5, <1>6 DEF Tracks, Toggling, Press
  <2>2. button' = "pressed" /\ power' # power /\ power_state' = power_state
    BY <1>5, <1>6 DEF Press
  <2> QED
    BY <1>1, <1>2, <1>4, <2>1, <2>2 DEF Tracks, Toggling, Active
<1>7. CASE PressLoad
  <2>1. power # power_state
    BY <1>1, <1>7 DEF Tracks, Toggling, PressLoad
  <2>2. button' = "loaded" /\ power' = power /\ power_state' = power_state
    BY <1>7 DEF PressLoad
  <2>3. loaded'.button = power_state
    BY <1>5, <1>7 DEF PressLoad
  <2> QED
    BY <1>1, <1>2, <1>4, <2>1, <2>2, <2>3 DEF Tracks, Toggling, Active
<1>8. CASE Pressed
  <2>1. power # power_state /\ loaded.button = power_state
    BY <1>1, <1>8 DEF Tracks, Toggling, Pressed
  <2>2. button' = "up" /\ power' = power
    BY <1>8 DEF Pressed
  <2>3. power_state' # loaded.button /\ power_state' \in BOOLEAN
    BY <1>5, <1>8 DEF Pressed
  <2>4. power' = power_state'
    BY <1>5, <2>1, <2>2, <2>3
  <2> QED
    BY <1>1, <1>4, <2>2, <2>4 DEF Tracks, Toggling
<1> QED
  BY <1>6, <1>7, <1>8

LEMMA TracksStep == TypeOK /\ Phase /\ Tracks /\ [Next]_vars => Tracks'
<1> SUFFICES ASSUME TypeOK, Phase, Tracks, [Next]_vars, mishaps' = {} PROVE Tracks'
  BY DEF Tracks
<1>1. CASE UNCHANGED vars
  BY <1>1 DEF vars, states, Tracks, Toggling, Active, Answer
<1>2. ASSUME NEW c \in Clients PROVE ~ Die(c)
  BY DEF Die
<1>3. ~ PressMissed
  BY DEF PressMissed
<1> QED
  BY <1>1, <1>2, <1>3, ClientTracks, WebTracks, ButtonTracks DEF Next

(* A client that is the only one, while nobody presses the button and with *)
(* rikbtnd started on a host that was off, is told the host's power.       *)
THEOREM TellsPower == Spec => []AnswerTellsPower
<1>1. Init => Tracks
  BY InitTracks
<1>2. TypeOK /\ Phase /\ Tracks /\ [Next]_vars => Tracks'
  BY TracksStep
<1>3. Spec => []Tracks
  BY <1>1, <1>2, Phases, PTL DEF Spec
<1>4. Phase /\ Tracks => AnswerTellsPower
  <2> SUFFICES ASSUME Phase, Tracks, mishaps = {}, NEW c \in Clients, at[c] = "closeR"
               PROVE  line[c] = Answer(power)
    BY DEF AnswerTellsPower
  <2>1. Alone(c)
    BY DEF Phase, OneAtATime, AllQuiet, Alone, Quiet
  <2>2. at[Web] \in {"openR", "waitR"} /\ line[c] \in Answers
    BY <2>1 DEF Alone, Served, Know
  <2>3. ~ Toggling
    BY <2>2 DEF Tracks, Toggling, Active
  <2> QED
    BY <2>2, <2>3 DEF Tracks
<1> QED
  BY <1>3, <1>4, Phases, PTL
=============================================================================
