------------------------- MODULE IpcServiceProofs -------------------------
(***************************************************************************)
(* Theorems about the socket service of ipc.c, for any number of           *)
(* connections, places and retries, whatever fails and however rc reads.   *)
(***************************************************************************)
EXTENDS IpcService, FiniteSetTheorems, TLAPS

(* The retry counters of a service that has not given up are not used up.  *)
RetriesLeft == svc # "dead" => cli_retries > 0 /\ acc_retries > 0

(* The backlog holds queued connections, each once.                        *)
QueueInv ==
  /\ \A k \in 1 .. Len(backlog) : srv[backlog[k]] = "queued"
  /\ \A j, k \in 1 .. Len(backlog) : backlog[j] = backlog[k] => j = k

TypeInv == TypeOK /\ RetriesLeft /\ QueueInv

LEMMA ExitFacts ==
  ASSUME TypeOK, Exit
  PROVE  /\ svc' = "dead" /\ backlog' = <<>>
         /\ srv' \in [Conns -> SrvStates] /\ peer' \in [Conns -> PeerStates]
         /\ Active' = Active /\ QueueInv'
  BY DEF TypeOK, Exit, Active, SrvStates, PeerStates, QueueInv

(* What get_client does when it returns NULL, or a place.                  *)
LEMMA NoPlaceFacts ==
  ASSUME TypeInv, svc # "dead", NoPlace, signalled' \in BOOLEAN, mishaps' \subseteq Mishaps
  PROVE  /\ TypeInv' /\ Active' = Active /\ num_active' = num_active
         /\ svc' \in {"get", "dead"}
<1>1. cli_retries - 1 \in 0 .. WaitRetries
  BY RetriesAssumption DEF TypeInv, TypeOK, RetriesLeft
<1>2. /\ cli_retries' = cli_retries - 1 /\ acc_retries' = acc_retries
      /\ num_active' = num_active
  BY DEF NoPlace
<1>3. CASE OutOfRetries(cli_retries - 1)
  <2>1. Exit
    BY <1>3 DEF NoPlace
  <2>2. /\ svc' = "dead" /\ backlog' = <<>>
        /\ srv' \in [Conns -> SrvStates] /\ peer' \in [Conns -> PeerStates]
        /\ Active' = Active /\ QueueInv'
    BY <2>1, ExitFacts DEF TypeInv
  <2>3. TypeOK'
    BY <1>1, <1>2, <2>2 DEF TypeInv, TypeOK, SvcStates
  <2> QED
    BY <1>2, <2>2, <2>3 DEF TypeInv, RetriesLeft
<1>4. CASE ~OutOfRetries(cli_retries - 1)
  <2>1. svc' = "get" /\ UNCHANGED connVars /\ cli_retries - 1 > 0
    BY <1>1, <1>4 DEF NoPlace, OutOfRetries
  <2>2. TypeOK' /\ RetriesLeft'
    BY <1>1, <1>2, <2>1 DEF TypeInv, TypeOK, RetriesLeft, connVars, SvcStates
  <2>3. QueueInv' /\ Active' = Active
    BY <2>1 DEF TypeInv, QueueInv, Active, connVars
  <2> QED
    BY <1>2, <2>1, <2>2, <2>3 DEF TypeInv
<1> QED
  BY <1>3, <1>4

LEMMA PlaceFacts ==
  ASSUME TypeInv, svc # "dead", Place, signalled' \in BOOLEAN, mishaps' \subseteq Mishaps
  PROVE  /\ TypeInv' /\ Active' = Active /\ num_active' = num_active + 1
         /\ svc' = "accept"
<1>1. /\ num_active' = num_active + 1 /\ cli_retries' = WaitRetries
      /\ svc' = "accept" /\ acc_retries' = acc_retries /\ UNCHANGED connVars
  BY DEF Place
<1>2. TypeOK' /\ RetriesLeft'
  BY <1>1, RetriesAssumption DEF TypeInv, TypeOK, RetriesLeft, connVars, SvcStates
<1>3. QueueInv' /\ Active' = Active
  BY <1>1 DEF TypeInv, QueueInv, Active, connVars
<1> QED
  BY <1>1, <1>2, <1>3 DEF TypeInv

(* A place, or a failure to get one.                                       *)
LEMMA PlaceOrNotFacts ==
  ASSUME TypeInv, svc # "dead", PlaceOrNot, signalled' \in BOOLEAN
  PROVE  /\ TypeInv' /\ Active' = Active
         /\ \/ /\ num_active' = num_active /\ svc' \in {"get", "dead"}
               /\ mishaps' # {}
            \/ /\ num_active' = num_active + 1 /\ svc' = "accept"
               /\ mishaps' = mishaps
<1>1. mishaps' \subseteq Mishaps
  BY DEF TypeInv, TypeOK, PlaceOrNot, Mishap, Mishaps
<1>2. CASE Place /\ UNCHANGED mishaps
  BY <1>1, <1>2, PlaceFacts
<1>3. CASE NoPlace /\ Mishap("failure")
  BY <1>1, <1>3, NoPlaceFacts DEF Mishap
<1> QED
  BY <1>2, <1>3 DEF PlaceOrNot

-----------------------------------------------------------------------------
(* A step of the invariant that is about types and the backlog, and what   *)
(* the step does to the places.                                            *)
LEMMA AcceptFacts ==
  ASSUME TypeInv, Accept
  PROVE  /\ TypeInv' /\ svc = "accept" /\ svc' = "get"
         /\ \/ num_active' = num_active /\ \E c \in Conns \ Active : Active' = Active \union {c}
            \/ num_active' = num_active - 1 /\ Active' = Active
<1> USE DEF TypeInv, TypeOK
<1> DEFINE c == Head(backlog)
<1>1. /\ svc = "accept" /\ svc' = "get" /\ backlog # <<>> /\ backlog' = Tail(backlog)
      /\ acc_retries' = AcceptRetries /\ cli_retries' = cli_retries
      /\ signalled' = signalled
  BY DEF Accept
<1>2. /\ 1 \in 1 .. Len(backlog) /\ c = backlog[1] /\ c \in Conns
      /\ Tail(backlog) \in Seq(Conns) /\ Len(Tail(backlog)) = Len(backlog) - 1
      /\ \A k \in 1 .. Len(Tail(backlog)) :
           k + 1 \in 1 .. Len(backlog) /\ Tail(backlog)[k] = backlog[k + 1]
  BY <1>1
<1>3. srv[c] = "queued" /\ c \notin Active
  BY <1>2 DEF QueueInv, Active
<1>4. \A k \in 1 .. Len(Tail(backlog)) : Tail(backlog)[k] # c
  BY <1>2 DEF QueueInv
<1> HIDE DEF c
<1>5. /\ srv' = [srv EXCEPT ![c] = "handling"] /\ peer' = peer /\ num_active' = num_active
      \/ /\ srv' = [srv EXCEPT ![c] = "none"]
         /\ peer' = [peer EXCEPT ![c] = "none"] /\ num_active' = num_active - 1
  BY DEF Accept, c
<1>6. /\ \A k \in 1 .. Len(backlog') : srv'[backlog'[k]] = "queued"
      /\ \A j, k \in 1 .. Len(backlog') : backlog'[j] = backlog'[k] => j = k
  <2>1. \A k \in 1 .. Len(Tail(backlog)) : srv'[Tail(backlog)[k]] = "queued"
    BY <1>2, <1>4, <1>5 DEF QueueInv
  <2>2. \A j, k \in 1 .. Len(Tail(backlog)) :
          Tail(backlog)[j] = Tail(backlog)[k] => j = k
    BY <1>2 DEF QueueInv
  <2> QED
    BY <1>1, <2>1, <2>2
<1>7. TypeInv'
  <2>1. mishaps' \subseteq Mishaps
    BY DEF Accept, Mishap, Mishaps
  <2> QED
    BY <1>1, <1>2, <1>5, <1>6, <2>1, RetriesAssumption
       DEF RetriesLeft, QueueInv, SvcStates, SrvStates, PeerStates
<1>8. CASE srv' = [srv EXCEPT ![c] = "handling"] /\ num_active' = num_active
  <2>1. Active' = Active \union {c}
    BY <1>2, <1>8 DEF Active
  <2> QED
    BY <1>1, <1>2, <1>3, <1>7, <1>8, <2>1
<1>9. CASE srv' = [srv EXCEPT ![c] = "none"] /\ num_active' = num_active - 1
  <2>1. Active' = Active
    BY <1>2, <1>3, <1>9 DEF Active
  <2> QED
    BY <1>1, <1>7, <1>9, <2>1
<1> QED
  BY <1>5, <1>8, <1>9

LEMMA ConnectFacts ==
  ASSUME TypeInv, NEW c \in Conns, Connect(c)
  PROVE  TypeInv' /\ Active' = Active
<1> USE DEF TypeInv, TypeOK
<1>1. /\ srv[c] = "none" /\ backlog' = Append(backlog, c)
      /\ srv' = [srv EXCEPT ![c] = "queued"]
      /\ peer' = [peer EXCEPT ![c] = "waiting"]
      /\ UNCHANGED <<svcVars, num_active, mishaps>>
  BY DEF Connect
<1>2. /\ backlog' \in Seq(Conns) /\ Len(backlog') = Len(backlog) + 1
      /\ \A k \in 1 .. Len(backlog) : backlog'[k] = backlog[k] /\ backlog[k] # c
      /\ backlog'[Len(backlog) + 1] = c
  BY <1>1 DEF QueueInv
<1>3. QueueInv'
  <2>1. \A k \in 1 .. Len(backlog') : k \in 1 .. Len(backlog) \/ k = Len(backlog) + 1
    BY <1>2
  <2>2. \A k \in 1 .. Len(backlog) : backlog[k] \in Conns /\ srv[backlog[k]] = "queued"
    BY DEF QueueInv
  <2>3. \A k \in 1 .. Len(backlog') : srv'[backlog'[k]] = "queued"
    BY <1>1, <1>2, <2>1, <2>2
  <2>4. \A j, k \in 1 .. Len(backlog') : backlog'[j] = backlog'[k] => j = k
    BY <1>2, <2>1 DEF QueueInv
  <2> QED
    BY <2>3, <2>4 DEF QueueInv
<1>4. Active' = Active
  BY <1>1 DEF Active
<1> QED
  BY <1>1, <1>2, <1>3, <1>4 DEF svcVars, RetriesLeft, SrvStates, PeerStates

(* The steps of a connection's thread, which is not in the backlog.        *)
LEMMA HandlerFacts ==
  ASSUME TypeInv, NEW c \in Conns,
         GiveUp(c) \/ Respond(c) \/ HandlerFails(c) \/ CloseConn(c)
  PROVE  /\ TypeInv' /\ Active' = Active /\ num_active' = num_active
         /\ svc' = svc /\ signalled' = signalled
  BY DEF TypeInv, TypeOK, GiveUp, Respond, HandlerFails, CloseConn, svcVars,
         RetriesLeft, QueueInv, Active, SrvStates, PeerStates

LEMMA CliDoneFacts ==
  ASSUME TypeInv, NEW c \in Conns, CliDone(c)
  PROVE  /\ TypeInv' /\ c \in Active /\ Active' = Active \ {c}
         /\ num_active' = num_active - 1 /\ svc' = svc /\ signalled' = (svc = "wait")
<1>1. /\ srv[c] = "closed" /\ srv' = [srv EXCEPT ![c] = "none"]
      /\ num_active' = num_active - 1 /\ signalled' = (svc = "wait")
      /\ UNCHANGED <<svc, cli_retries, acc_retries, backlog, peer, mishaps>>
  BY DEF CliDone
<1>2. c \in Active /\ Active' = Active \ {c}
  BY <1>1 DEF TypeInv, TypeOK, Active
<1>3. signalled' \in BOOLEAN
  BY <1>1
<1>4. TypeOK' /\ RetriesLeft'
  BY <1>1, <1>3 DEF TypeInv, TypeOK, RetriesLeft, SrvStates
<1>5. QueueInv'
  BY <1>1 DEF TypeInv, TypeOK, QueueInv
<1> QED
  BY <1>1, <1>2, <1>4, <1>5 DEF TypeInv

-----------------------------------------------------------------------------
(* The inductive invariant: places are counted, at most ActiveLimit taken, *)
(* and a sleeping service thread has nothing to do or a signal to read.    *)
Inv ==
  /\ TypeInv
  /\ PlacesCounted
  /\ num_active <= ActiveLimit
  /\ NoLostSignal

LEMMA ActiveFinite ==
  IsFiniteSet(Active) /\ Cardinality(Active) \in Nat
<1>1. Active \in SUBSET Conns
  BY DEF Active
<1> QED
  BY <1>1, ConnsAssumption, FS_Subset, FS_CardinalityType

LEMMA InitInv == Init => Inv
<1> SUFFICES ASSUME Init PROVE Inv
  OBVIOUS
<1>1. TypeInv
  <2>a. srv \in [Conns -> SrvStates] /\ peer \in [Conns -> PeerStates]
    BY DEF Init, SrvStates, PeerStates
  <2>b. backlog \in Seq(Conns)
    BY DEF Init
  <2>c. cli_retries \in 0 .. WaitRetries /\ acc_retries \in 0 .. AcceptRetries
    BY RetriesAssumption DEF Init
  <2>d. svc \in SvcStates /\ signalled \in BOOLEAN
    BY Zenon DEF Init, SvcStates
  <2>e. num_active \in Int /\ mishaps \subseteq Mishaps
    BY DEF Init
  <2>1. TypeOK
    BY <2>a, <2>b, <2>c, <2>d, <2>e DEF TypeOK
  <2>2. RetriesLeft /\ QueueInv
    BY RetriesAssumption DEF Init, RetriesLeft, QueueInv
  <2> QED
    BY <2>1, <2>2 DEF TypeInv
<1>2. Active = {}
  BY DEF Init, Active
<1>3. PlacesCounted /\ num_active <= ActiveLimit /\ NoLostSignal
  BY <1>2, FS_EmptySet, LimitAssumption DEF Init, PlacesCounted, NoLostSignal
<1> QED
  BY <1>1, <1>3 DEF Inv

LEMMA MishapsKept ==
  ASSUME TypeOK, [Next]_vars
  PROVE  mishaps' \subseteq Mishaps
<1>1. mishaps \subseteq Mishaps
  BY DEF TypeOK
<1>2. UNCHANGED mishaps \/ \E m \in Mishaps : Mishap(m)
  BY DEF vars, Next, SvcStep, ConnStep, GetClient, GetClientWait, Wakeup, WaitExpires,
     Expired, Accept, AcceptFails, AcceptGivesUp, Connect, GiveUp, Respond,
     HandlerFails, CloseConn, CliDone, PlaceOrNot, Mishaps
<1> QED
  BY <1>1, <1>2 DEF Mishap

LEMMA NextInv == Inv /\ [Next]_vars => Inv'
<1> SUFFICES ASSUME Inv, [Next]_vars PROVE Inv'
  OBVIOUS
<1>t. /\ TypeInv /\ num_active \in Int /\ signalled \in BOOLEAN
      /\ num_active = Cardinality(Active) + (IF svc = "accept" THEN 1 ELSE 0)
      /\ num_active <= ActiveLimit
      /\ svc = "wait" /\ ~signalled => num_active >= ActiveLimit
      /\ mishaps' \subseteq Mishaps
  BY MishapsKept DEF Inv, TypeInv, TypeOK, PlacesCounted, NoLostSignal
<1>c. IsFiniteSet(Active) /\ Cardinality(Active) \in Nat
  BY ActiveFinite
<1>i. ActiveLimit \in Nat
  BY LimitAssumption
<1> USE DEF Inv, PlacesCounted, NoLostSignal
<1>1. CASE GetClient
  <2>1. /\ svc = "get" /\ num_active < ActiveLimit /\ signalled' = signalled
        /\ NoPlace \/ PlaceOrNot
    BY <1>1 DEF GetClient
  <2>2. /\ TypeInv' /\ Active' = Active
        /\ \/ num_active' = num_active /\ svc' \in {"get", "dead"}
           \/ num_active' = num_active + 1 /\ svc' = "accept"
    BY <1>t, <2>1, NoPlaceFacts, PlaceOrNotFacts
  <2> QED
    BY <1>t, <1>c, <1>i, <2>1, <2>2
<1>2. CASE GetClientWait
  <2>1. /\ svc = "get" /\ num_active >= ActiveLimit /\ svc' = "wait"
        /\ signalled' = FALSE /\ num_active' = num_active /\ Active' = Active
    BY <1>2 DEF GetClientWait, connVars, Active
  <2>2. TypeInv'
    BY <1>2, <1>t DEF GetClientWait, TypeInv, TypeOK, RetriesLeft, QueueInv, connVars,
                      SvcStates
  <2> QED
    BY <1>t, <2>1, <2>2
<1>3. CASE Wakeup
  <2>1. svc = "wait" /\ signalled' = FALSE
    BY <1>3 DEF Wakeup
  <2>2. CASE num_active < ActiveLimit
    <3>1. /\ TypeInv' /\ Active' = Active
          /\ \/ num_active' = num_active /\ svc' \in {"get", "dead"}
             \/ num_active' = num_active + 1 /\ svc' = "accept"
      BY <1>3, <1>t, <2>1, <2>2, PlaceOrNotFacts DEF Wakeup
    <3> QED
      BY <1>t, <1>c, <1>i, <2>1, <2>2, <3>1
  <2>3. CASE ~(num_active < ActiveLimit)
    <3>1. /\ svc' = svc /\ num_active' = num_active /\ Active' = Active
          /\ num_active >= ActiveLimit
      BY <1>3, <1>t, <1>i, <2>3 DEF Wakeup, connVars, Active
    <3>2. TypeInv'
      BY <1>3, <1>t, <2>1, <2>3 DEF Wakeup, TypeInv, TypeOK, RetriesLeft, QueueInv,
                                    connVars
    <3> QED
      BY <1>t, <2>1, <3>1, <3>2
  <2> QED
    BY <2>2, <2>3
<1>4. CASE WaitExpires
  <2>1. svc = "wait" /\ svc' = "expired" /\ num_active' = num_active /\ Active' = Active
    BY <1>4 DEF WaitExpires, connVars, Active
  <2>2. TypeInv'
    BY <1>4, <1>t DEF WaitExpires, TypeInv, TypeOK, RetriesLeft, QueueInv, connVars,
                      SvcStates
  <2> QED
    BY <1>t, <2>1, <2>2
<1>5. CASE Expired
  <2>1. /\ TypeInv' /\ Active' = Active /\ num_active' = num_active
        /\ svc' \in {"get", "dead"} /\ svc = "expired"
    BY <1>5, <1>t, NoPlaceFacts DEF Expired
  <2> QED
    BY <1>t, <2>1
<1>6. CASE Accept
  <2>1. /\ TypeInv' /\ svc = "accept" /\ svc' = "get"
        /\ \/ num_active' = num_active /\ \E c \in Conns \ Active : Active' = Active \union {c}
           \/ num_active' = num_active - 1 /\ Active' = Active
    BY <1>6, <1>t, AcceptFacts
  <2>2. ASSUME NEW c \in Conns \ Active, Active' = Active \union {c}
        PROVE  Cardinality(Active') = Cardinality(Active) + 1
    BY <1>c, <2>2, FS_AddElement
  <2> QED
    BY <1>t, <1>c, <1>i, <2>1, <2>2
<1>7. CASE AcceptFails
  <2>1. svc' = svc /\ svc = "accept" /\ num_active' = num_active /\ Active' = Active
    BY <1>7 DEF AcceptFails, connVars, Active
  <2>2. TypeInv'
    BY <1>7, <1>t, RetriesAssumption
       DEF AcceptFails, TypeInv, TypeOK, RetriesLeft, QueueInv, connVars
  <2> QED
    BY <1>t, <2>1, <2>2
<1>8. CASE AcceptGivesUp
  <2>1. /\ svc = "accept" /\ acc_retries' = acc_retries - 1 /\ acc_retries - 1 <= 0
        /\ num_active' = num_active - 1 /\ Exit
        /\ cli_retries' = cli_retries /\ signalled' = signalled
    BY <1>8 DEF AcceptGivesUp
  <2>2. /\ svc' = "dead" /\ backlog' = <<>>
        /\ srv' \in [Conns -> SrvStates] /\ peer' \in [Conns -> PeerStates]
        /\ Active' = Active /\ QueueInv'
    BY <1>t, <2>1, ExitFacts DEF TypeInv
  <2>3. TypeInv'
    BY <1>t, <2>1, <2>2, RetriesAssumption DEF TypeInv, TypeOK, RetriesLeft, SvcStates
  <2> QED
    BY <1>t, <1>c, <1>i, <2>1, <2>2, <2>3
<1>9. ASSUME NEW c \in Conns, ConnStep(c) PROVE Inv'
  <2>1. CASE Connect(c)
    <3>1. TypeInv' /\ Active' = Active /\ UNCHANGED <<svcVars, num_active>>
      BY <1>t, <2>1, ConnectFacts DEF Connect
    <3> QED
      BY <1>t, <3>1 DEF svcVars
  <2>2. CASE GiveUp(c) \/ Respond(c) \/ HandlerFails(c) \/ CloseConn(c)
    <3>1. /\ TypeInv' /\ Active' = Active /\ num_active' = num_active
          /\ svc' = svc /\ signalled' = signalled
      BY <1>t, <2>2, HandlerFacts
    <3> QED
      BY <1>t, <3>1
  <2>3. CASE CliDone(c)
    <3>1. /\ TypeInv' /\ c \in Active /\ Active' = Active \ {c}
          /\ num_active' = num_active - 1 /\ svc' = svc /\ signalled' = (svc = "wait")
      BY <1>t, <2>3, CliDoneFacts
    <3>2. Cardinality(Active') = Cardinality(Active) - 1
      BY <1>c, <3>1, FS_RemoveElement
    <3>3. num_active' <= ActiveLimit /\ PlacesCounted'
      BY <1>t, <1>c, <1>i, <3>1, <3>2
    <3>4. NoLostSignal'
      BY <3>1
    <3> QED
      BY <3>1, <3>3, <3>4
  <2> QED
    BY <1>9, <2>1, <2>2, <2>3 DEF ConnStep
<1>10. CASE UNCHANGED vars
  <2>1. Active' = Active /\ TypeInv'
    BY <1>10, <1>t DEF vars, Active, TypeInv, TypeOK, RetriesLeft, QueueInv
  <2> QED
    BY <1>10, <1>t, <2>1 DEF vars
<1> QED
  BY <1>1, <1>2, <1>3, <1>4, <1>5, <1>6, <1>7, <1>8, <1>9, <1>10 DEF Next, SvcStep

THEOREM Invariant == Spec => []Inv
  BY InitInv, NextInv, PTL DEF Spec

(* Every variable of the service keeps its type; in particular a retry     *)
(* counter never goes below zero.                                          *)
THEOREM Typing == Spec => []TypeOK
<1>1. Inv => TypeOK
  BY DEF Inv, TypeInv
<1> QED
  BY <1>1, Invariant, PTL

(* On every path a place is taken once and given back once.                *)
THEOREM Accounting == Spec => []PlacesCounted
<1>1. Inv => PlacesCounted
  BY DEF Inv
<1> QED
  BY <1>1, Invariant, PTL

(* Places are counted, and the daemon's handlers never run in more than    *)
(* active_limit threads at once: the assumption under which ipmbd never    *)
(* runs out of sequence numbers (IpmbdProofs!NeverExhaustedInService).     *)
THEOREM Limited == Spec => []LimitRespected
<1>1. Inv => LimitRespected
  BY DEF Inv, PlacesCounted, LimitRespected
<1> QED
  BY <1>1, Invariant, PTL

(* No signal is lost between cli_done and the wait of get_client.          *)
THEOREM SignalsKept == Spec => []NoLostSignal
<1>1. Inv => NoLostSignal
  BY DEF Inv
<1> QED
  BY <1>1, Invariant, PTL
-----------------------------------------------------------------------------
(* A service to which nothing happened has all its attempts left.          *)
Untroubled ==
  mishaps = {} => svc \notin {"expired", "dead"} /\ acc_retries = AcceptRetries

LEMMA UntroubledStep == Inv /\ Untroubled /\ [Next]_vars => Untroubled'
<1> SUFFICES ASSUME Inv, Untroubled, [Next]_vars, mishaps' = {}
             PROVE  svc' \notin {"expired", "dead"} /\ acc_retries' = AcceptRetries
  BY DEF Untroubled
<1>1. /\ TypeInv /\ PlacesCounted /\ NoLostSignal
      /\ ActiveLimit \in Nat \ {0} /\ AcceptRetries \in Nat \ {0, 1}
  BY LimitAssumption, RetriesAssumption DEF Inv
<1>2. CASE Next
  <2>1. mishaps = {}
    <3>1. \A m : mishaps' # mishaps \union {m}
      OBVIOUS
    <3> QED
      BY <1>2, <3>1 DEF Next, SvcStep, ConnStep, GetClient, GetClientWait, Wakeup,
           WaitExpires, Expired, Accept, AcceptFails, AcceptGivesUp, Connect, GiveUp,
           Respond, HandlerFails, CloseConn, CliDone, PlaceOrNot, Mishap
  <2>2. svc \notin {"expired", "dead"} /\ acc_retries = AcceptRetries
    BY <2>1 DEF Untroubled
  <2>3. \A m : ~ Mishap(m)
    BY DEF Mishap
  <2>4. CASE GetClient \/ Wakeup
    BY <2>2, <2>3, <2>4 DEF GetClient, Wakeup, PlaceOrNot, Place
  <2>5. CASE WaitExpires
    <3>1. Active = {} /\ svc = "wait" /\ ~signalled
      BY <2>3, <2>5 DEF WaitExpires
    <3>2. num_active = 0
      BY <1>1, <3>1, FS_EmptySet DEF PlacesCounted
    <3> QED
      BY <1>1, <3>1, <3>2 DEF NoLostSignal
  <2>6. CASE Accept
    BY <2>6 DEF Accept
  <2>7. ~ AcceptGivesUp /\ ~ AcceptFails /\ ~ Expired
    BY <1>1, <2>2, <2>3 DEF AcceptGivesUp, AcceptFails, Expired
  <2>8. CASE GetClientWait \/ \E c \in Conns : ConnStep(c)
    BY <2>2, <2>8 DEF GetClientWait, ConnStep, Connect, GiveUp, Respond, HandlerFails,
         CloseConn, CliDone, svcVars
  <2> QED
    BY <1>2, <2>4, <2>5, <2>6, <2>7, <2>8 DEF Next, SvcStep
<1>3. CASE UNCHANGED vars
  BY <1>3 DEF vars, Untroubled
<1> QED
  BY <1>2, <1>3

(* The service gives up only after something went wrong: a failure of the  *)
(* system, a handler that outlived the wait, or an rc that was not         *)
(* assigned.  A place given back in time is never missed.                  *)
THEOREM Steadfast == Spec => []ServiceStays
<1>1. Init => Untroubled
  BY DEF Init, Untroubled
<1>2. Spec => []Untroubled
  BY <1>1, Invariant, UntroubledStep, PTL DEF Spec
<1>3. Untroubled => ServiceStays
  BY DEF Untroubled, ServiceStays
<1> QED
  BY <1>2, <1>3, PTL
=============================================================================
