---------------------------- MODULE IpcService ----------------------------
(***************************************************************************)
(* The socket service of common/recipes-lib/ipc/files/ipc.c, under ipmbd   *)
(* and ipmid: a service thread admits at most active_limit clients at a    *)
(* time and runs the daemon's handler for each in a thread of its own.     *)
(*                                                                         *)
(* The service thread takes a place (get_client) before it accepts a       *)
(* connection; cli_done gives the place back and signals the condition     *)
(* variable.  The sections of svc->mutex are atomic actions, but a place   *)
(* is given back some time after the answer was sent, and a thread whose   *)
(* timed wait ran out takes the mutex again some time after.               *)
(***************************************************************************)
EXTENDS Integers, Sequences, FiniteSets

CONSTANTS
  Conns,          \* connections clients can have open at once
  ActiveLimit,    \* svc->active_limit
  WaitRetries,    \* WAIT_CLIENT_RETRIES
  AcceptRetries,  \* ACCEPT_RECOVER_RETRIES
  Backlog,        \* of listen()
  RcExpired       \* what `rc == ETIMEDOUT' may read when rc was not assigned

ASSUME ConnsAssumption   == IsFiniteSet(Conns)
ASSUME LimitAssumption   == ActiveLimit \in Nat \ {0}
ASSUME RetriesAssumption == WaitRetries \in Nat \ {0} /\ AcceptRetries \in Nat \ {0, 1}
ASSUME RcAssumption      == RcExpired \in SUBSET BOOLEAN /\ RcExpired # {}

VARIABLES
  svc,          \* where the service thread is
  cli_retries,  \* attempts left to get a place
  acc_retries,  \* attempts left to accept
  num_active,   \* svc->num_active
  signalled,    \* the service thread was signalled in its wait
  backlog,      \* connections not accepted yet
  srv,          \* srv[c]: the server's end of connection c
  peer,         \* peer[c]: the client's end of connection c
  mishaps       \* history: what went wrong so far

vars == <<svc, cli_retries, acc_retries, num_active, signalled, backlog, srv,
          peer, mishaps>>

svcVars  == <<svc, cli_retries, acc_retries, signalled>>
connVars == <<backlog, srv, peer>>

(* get: in get_client, before the lock; wait: in pthread_cond_timedwait;   *)
(* expired: the wait ran out, the mutex not yet retaken; accept: has a     *)
(* place for the next connection; dead: the thread has exited.             *)
SvcStates == {"get", "wait", "expired", "accept", "dead"}

(* handling: in handle_req; done: handle_req is over, cli_done is called;  *)
(* closed: cli_done closed the socket and has not locked the mutex yet.    *)
SrvStates == {"none", "queued", "handling", "done", "closed"}

PeerStates == {"none", "waiting", "left"}

(* rc: get_client read an rc it had not assigned as ETIMEDOUT; slow: the   *)
(* timed wait ran out while a handler ran; failure: calloc, accept or      *)
(* pthread_create failed.                                                  *)
Mishaps == {"rc", "slow", "failure"}

Mishap(m) == mishaps' = mishaps \union {m}

Init ==
  /\ svc = "get"
  /\ cli_retries = WaitRetries
  /\ acc_retries = AcceptRetries
  /\ num_active = 0
  /\ signalled = FALSE
  /\ backlog = <<>>
  /\ srv = [c \in Conns |-> "none"]
  /\ peer = [c \in Conns |-> "none"]
  /\ mishaps = {}

(* The connections that have a place.                                      *)
Active == {c \in Conns : srv[c] \in {"handling", "done", "closed"}}

-----------------------------------------------------------------------------
(* The clients: ipc_send_req.                                              *)

(* connect and send: the connection waits in the backlog.                  *)
Connect(c) ==
  /\ svc # "dead"
  /\ srv[c] = "none" /\ peer[c] = "none"
  /\ Len(backlog) < Backlog
  /\ backlog' = Append(backlog, c)
  /\ srv' = [srv EXCEPT ![c] = "queued"]
  /\ peer' = [peer EXCEPT ![c] = "waiting"]
  /\ UNCHANGED <<svcVars, num_active, mishaps>>

(* recv times out and the client closes its end.                           *)
GiveUp(c) ==
  /\ peer[c] = "waiting"
  /\ peer' = [peer EXCEPT ![c] = "left"]
  /\ UNCHANGED <<svcVars, num_active, backlog, srv, mishaps>>

-----------------------------------------------------------------------------
(* The service thread: get_client and the loop of svc_thread.              *)

OutOfRetries(n) == n <= 0

(* The thread exits: the listening socket is closed, which resets the      *)
(* connections nobody accepted.                                            *)
Exit ==
  /\ svc' = "dead"
  /\ backlog' = <<>>
  /\ srv' = [c \in Conns |-> IF srv[c] = "queued" THEN "none" ELSE srv[c]]
  /\ peer' = [c \in Conns |-> IF srv[c] = "queued" THEN "none" ELSE peer[c]]

(* get_client returned NULL.                                               *)
NoPlace ==
  /\ cli_retries' = cli_retries - 1
  /\ IF OutOfRetries(cli_retries - 1)
     THEN Exit
     ELSE svc' = "get" /\ UNCHANGED connVars
  /\ UNCHANGED <<acc_retries, num_active>>

(* get_client returned a place.                                            *)
Place ==
  /\ num_active' = num_active + 1
  /\ cli_retries' = WaitRetries
  /\ svc' = "accept"
  /\ UNCHANGED <<acc_retries, connVars>>

PlaceOrNot ==
  \/ Place /\ UNCHANGED mishaps
  \/ NoPlace /\ Mishap("failure")

(* A place is free at once.  rc was never assigned: the code compares it   *)
(* with ETIMEDOUT all the same, and finds what the stack held.             *)
GetClient ==
  /\ svc = "get"
  /\ num_active < ActiveLimit
  /\ \/ TRUE \in RcExpired /\ NoPlace /\ Mishap("rc")
     \/ FALSE \in RcExpired /\ PlaceOrNot
  /\ UNCHANGED signalled

GetClientWait ==
  /\ svc = "get"
  /\ num_active >= ActiveLimit
  /\ svc' = "wait"
  /\ signalled' = FALSE
  /\ UNCHANGED <<cli_retries, acc_retries, num_active, connVars, mishaps>>

(* Mutant: `if' in the place of `while' around the wait.                   *)
WakeupOnce ==
  /\ svc = "wait"
  /\ PlaceOrNot
  /\ signalled' = FALSE

(* Signalled, or woken for no reason: the loop looks at num_active again.  *)
Wakeup ==
  /\ svc = "wait"
  /\ IF num_active < ActiveLimit
     THEN PlaceOrNot
     ELSE UNCHANGED <<svc, cli_retries, acc_retries, num_active, connVars, mishaps>>
  /\ signalled' = FALSE

(* Mutant: pthread_cond_wait in the place of pthread_cond_timedwait.       *)
WaitExpiresNever == svc = "wait" /\ FALSE /\ UNCHANGED vars

WaitExpires ==
  /\ svc = "wait" /\ ~signalled
  /\ svc' = "expired"
  /\ IF Active # {} THEN Mishap("slow") ELSE UNCHANGED mishaps
  /\ UNCHANGED <<cli_retries, acc_retries, num_active, signalled, connVars>>

Expired ==
  /\ svc = "expired"
  /\ NoPlace
  /\ UNCHANGED <<signalled, mishaps>>

(* The oldest connection is accepted and its handler thread started; if    *)
(* the thread cannot be created, cli_done ends the connection.             *)
Accept ==
  /\ svc = "accept"
  /\ acc_retries - 1 > 0
  /\ backlog # <<>>
  /\ backlog' = Tail(backlog)
  /\ \/ /\ srv' = [srv EXCEPT ![Head(backlog)] = "handling"]
        /\ UNCHANGED <<peer, num_active, mishaps>>
     \/ /\ Mishap("failure")
        /\ srv' = [srv EXCEPT ![Head(backlog)] = "none"]
        /\ peer' = [peer EXCEPT ![Head(backlog)] = "none"]
        /\ num_active' = num_active - 1
  /\ svc' = "get"
  /\ acc_retries' = AcceptRetries
  /\ UNCHANGED <<cli_retries, signalled>>

(* accept fails, and is tried again in five seconds.                       *)
AcceptFails ==
  /\ svc = "accept"
  /\ acc_retries - 1 > 0
  /\ acc_retries' = acc_retries - 1
  /\ Mishap("failure")
  /\ UNCHANGED <<svc, cli_retries, num_active, signalled, connVars>>

(* No attempts left: the place is given back and the service ends.         *)
AcceptGivesUp ==
  /\ svc = "accept"
  /\ acc_retries - 1 <= 0
  /\ acc_retries' = acc_retries - 1
  /\ num_active' = num_active - 1
  /\ Exit
  /\ UNCHANGED <<cli_retries, signalled, mishaps>>

-----------------------------------------------------------------------------
(* A handler thread: conn_handler, ipc_send_resp and cli_done.             *)

(* The daemon's handler answers: ipc_send_resp sends and calls cli_done.   *)
Respond(c) ==
  /\ srv[c] = "handling" /\ peer[c] = "waiting"
  /\ srv' = [srv EXCEPT ![c] = "done"]
  /\ peer' = [peer EXCEPT ![c] = "none"]
  /\ UNCHANGED <<svcVars, num_active, backlog, mishaps>>

(* Nothing was received, there is nothing to send, or send fails: the      *)
(* daemon's handler returns non-zero and conn_handler calls cli_done.      *)
HandlerFails(c) ==
  /\ srv[c] = "handling"
  /\ srv' = [srv EXCEPT ![c] = "done"]
  /\ UNCHANGED <<svcVars, num_active, backlog, peer, mishaps>>

(* cli_done closes the socket; a client that still waits reads the end.    *)
CloseConn(c) ==
  /\ srv[c] = "done"
  /\ srv' = [srv EXCEPT ![c] = "closed"]
  /\ peer' = [peer EXCEPT ![c] = "none"]
  /\ UNCHANGED <<svcVars, num_active, backlog, mishaps>>

(* Mutants: nobody is signalled; the place is not given back.              *)
CliDoneUnsignalled(c) ==
  /\ srv[c] = "closed"
  /\ srv' = [srv EXCEPT ![c] = "none"]
  /\ num_active' = num_active - 1
  /\ UNCHANGED <<svcVars, backlog, peer, mishaps>>

CliDoneKeepingPlace(c) ==
  /\ srv[c] = "closed"
  /\ srv' = [srv EXCEPT ![c] = "none"]
  /\ signalled' = (svc = "wait")
  /\ UNCHANGED <<svc, cli_retries, acc_retries, num_active, backlog, peer, mishaps>>

(* cli_done gives the place back under the mutex.  A signal is kept only   *)
(* if somebody waits.                                                      *)
CliDone(c) ==
  /\ srv[c] = "closed"
  /\ srv' = [srv EXCEPT ![c] = "none"]
  /\ num_active' = num_active - 1
  /\ signalled' = (svc = "wait")
  /\ UNCHANGED <<svc, cli_retries, acc_retries, backlog, peer, mishaps>>

-----------------------------------------------------------------------------
SvcStep ==
  \/ GetClient \/ GetClientWait \/ Wakeup \/ WaitExpires \/ Expired
  \/ Accept \/ AcceptFails \/ AcceptGivesUp

ConnStep(c) ==
  \/ Connect(c) \/ GiveUp(c)
  \/ Respond(c) \/ HandlerFails(c) \/ CloseConn(c) \/ CliDone(c)

Next == SvcStep \/ \E c \in Conns : ConnStep(c)

Spec == Init /\ [][Next]_vars

(***************************************************************************)
(* The service thread runs, its timed wait ends, and accept returns when a *)
(* connection is there.  A daemon's handler may hang: nothing is asked of  *)
(* it, nor of the clients.                                                 *)
(***************************************************************************)
Fairness ==
  /\ WF_vars(GetClient \/ GetClientWait)
  /\ WF_vars(Wakeup /\ svc' # "wait")
  /\ WF_vars(WaitExpires)
  /\ WF_vars(Expired)
  /\ WF_vars(Accept \/ AcceptGivesUp)

FairSpec == Spec /\ Fairness

-----------------------------------------------------------------------------
(* Every variable has its type.                                            *)
TypeOK ==
  /\ svc \in SvcStates
  /\ cli_retries \in 0 .. WaitRetries
  /\ acc_retries \in 0 .. AcceptRetries
  /\ num_active \in Int
  /\ signalled \in BOOLEAN
  /\ backlog \in Seq(Conns)
  /\ srv \in [Conns -> SrvStates]
  /\ peer \in [Conns -> PeerStates]
  /\ mishaps \subseteq Mishaps

(* num_active counts the connections being served, and the place the       *)
(* service thread holds while it accepts: on every path, failures of       *)
(* accept, of thread creation and of send included, a place is taken once  *)
(* and given back once.                                                    *)
PlacesCounted ==
  num_active = Cardinality(Active) + (IF svc = "accept" THEN 1 ELSE 0)

(* So the limit is kept, on which ipmbd builds (it has as many sequence    *)
(* numbers as places): at most active_limit handlers run.                  *)
LimitRespected == PlacesCounted /\ num_active <= ActiveLimit

(* The service thread does not sleep while there is a free place, unless a *)
(* signal is on its way to it.                                             *)
NoLostSignal == svc = "wait" /\ ~signalled => num_active >= ActiveLimit

(* A connection does not stay in the backlog for ever, even if every       *)
(* handler hangs: it is accepted, or reset when the service gives up.      *)
QueuedIsTaken == \A c \in Conns : srv[c] = "queued" ~> srv[c] # "queued"

(* As long as nothing went wrong (CLIENT_TIMEOUT is chosen so that a       *)
(* handler ends within the wait) the service never gives up: a place given *)
(* back always reaches it in time.                                         *)
ServiceStays == mishaps = {} => svc # "dead"
=============================================================================
