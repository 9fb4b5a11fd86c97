------------------------------ MODULE Rikbtnd ------------------------------
(***************************************************************************)
(* The power switch of the Rikor board: rikbtnd (rikbtnd.c), which pulses  *)
(* the host's power button and keeps what it takes for the host's power,   *)
(* and its clients (power.sh).  One FIFO carries the requests one way and  *)
(* the answers the other; a client writes a request, closes the FIFO,      *)
(* opens it again and reads up to the end of the file or of a line.        *)
(*                                                                         *)
(* One action per call on the FIFO, whose opens block until the other side *)
(* opens it too.  An answer is read whole.  The ID button, the debouncing  *)
(* (an event it drops does nothing) and the second instance that the pid   *)
(* file turns away are left out.                                           *)
(***************************************************************************)
EXTENDS Naturals, Sequences

CONSTANTS
  Clients,    \* runs of power.sh
  Web,        \* rikbtnd's web_thread
  FifoMax     \* what the FIFO holds, in writes

ASSUME RikbtndAssumption == Web \notin Clients /\ FifoMax \in Nat \ {0}

VARIABLES
  at,           \* where each process is
  fifo,         \* the FIFO's content: one member per write
  line,         \* what each client has read
  power_state,  \* rikbtnd's idea of the host's power
  loaded,       \* power_state as read by the two threads' ^=
  button,       \* the front panel's button and its handler: "up", "pressed"
                \* and not yet handled, or "loaded" in the handler's ^=
  power,        \* the host's power
  pulses,       \* history: pulses since each client began, up to 2
  mishaps       \* history: two clients overlapped, one was killed, or the
                \* host's power went another way than power_state

vars == <<at, fifo, line, power_state, loaded, button, power, pulses, mishaps>>
states == <<power_state, loaded, button, power>>

Procs == Clients \union {Web}
Answers == {"on", "off"}
Chunks == Answers \union {"switch power"}
Lines == Answers \union {"", "?"}
Buttons == {"up", "pressed", "loaded"}
Mishaps == {"overlap", "death", "astray"}

Locations == {"idle", "openR", "waitR", "read", "closeR", "openW", "waitW", "write",
              "closeW", "pulse", "load", "store", "dead"}

Answer(state) == IF state THEN "on" ELSE "off"

(* get_power_state finds the host off, whatever it is.                     *)
Init ==
  /\ at = [p \in Procs |-> IF p = Web THEN "openR" ELSE "idle"]
  /\ fifo = <<>>
  /\ line = [c \in Clients |-> ""]
  /\ power_state = FALSE
  /\ loaded = [web |-> FALSE, button |-> FALSE]
  /\ button = "up"
  /\ power \in BOOLEAN
  /\ pulses = [c \in Clients |-> 0]
  /\ mishaps = IF power THEN {"astray"} ELSE {}

Goto(p, there) == at' = [at EXCEPT ![p] = there]
Active == {c \in Clients : at[c] # "idle"}

-----------------------------------------------------------------------------
(* The FIFO.                                                               *)

Readers == {p \in Procs : at[p] \in {"waitR", "read", "pulse", "load", "store", "closeR"}}
Writers == {p \in Procs : at[p] \in {"waitW", "write", "closeW"}}

(* An open waits for the other side, and wakes who waits there for it.     *)
Open(p, others, wait, opened, waiting, woken) ==
  at' = [q \in Procs |->
           IF q = p THEN IF others = {} THEN wait ELSE opened
           ELSE IF at[q] = waiting THEN woken ELSE at[q]]

OpenToRead(p) == Open(p, Writers, "waitR", "read", "waitW", "write")
OpenToWrite(p) == Open(p, Readers, "waitW", "write", "waitR", "read")

(* The content goes with the last process that has the FIFO open.          *)
Close(p, there) ==
  /\ Goto(p, there)
  /\ fifo' = IF (Readers \union Writers) \ {p} = {} THEN <<>> ELSE fifo

-----------------------------------------------------------------------------
(* A client.                                                               *)

(* Its end, and that of all it knew.                                       *)
Leave(c) ==
  /\ Close(c, "idle")
  /\ line' = [line EXCEPT ![c] = ""]
  /\ pulses' = [pulses EXCEPT ![c] = 0]

Ask(c) ==
  /\ at[c] = "idle"
  /\ OpenToWrite(c)
  /\ mishaps' = mishaps \union (IF Active # {} THEN {"overlap"} ELSE {})
                        \union (IF button # "up" THEN {"astray"} ELSE {})
  /\ UNCHANGED <<fifo, line, states, pulses>>

(* The writes of both sides; SIGPIPE ends who writes to nobody.            *)
Put(p, chunk) ==
  /\ at[p] = "write" /\ Readers # {} /\ Len(fifo) < FifoMax
  /\ fifo' = Append(fifo, chunk)
  /\ Goto(p, "closeW")
  /\ UNCHANGED <<line, states, pulses, mishaps>>

AskBroken(c) ==
  /\ at[c] = "write" /\ Readers = {}
  /\ Leave(c)
  /\ UNCHANGED <<states, mishaps>>

Asked(c) ==
  /\ at[c] = "closeW"
  /\ Close(c, "openR")
  /\ UNCHANGED <<line, states, pulses, mishaps>>

Await(c) ==
  /\ at[c] = "openR"
  /\ OpenToRead(c)
  /\ UNCHANGED <<fifo, line, states, pulses, mishaps>>

(* A request ends the line that is read, answers do not.                   *)
Take(c) ==
  /\ at[c] = "read" /\ fifo # <<>>
  /\ fifo' = Tail(fifo)
  /\ line' = [line EXCEPT ![c] = IF line[c] = "" /\ Head(fifo) \in Answers
                                 THEN Head(fifo) ELSE "?"]
  /\ Goto(c, IF Head(fifo) \in Answers THEN "read" ELSE "closeR")
  /\ UNCHANGED <<states, pulses, mishaps>>

EndOfFile(c) ==
  /\ at[c] = "read" /\ fifo = <<>> /\ Writers = {}
  /\ line' = [line EXCEPT ![c] = IF line[c] = "" THEN "?" ELSE line[c]]
  /\ Goto(c, "closeR")
  /\ UNCHANGED <<fifo, states, pulses, mishaps>>

Finish(c) ==
  /\ at[c] = "closeR"
  /\ Leave(c)
  /\ UNCHANGED <<states, mishaps>>

(* The web server kills the script.                                        *)
Die(c) ==
  /\ at[c] # "idle"
  /\ Leave(c)
  /\ mishaps' = mishaps \union {"death"}
  /\ UNCHANGED states

-----------------------------------------------------------------------------
(* start_pipe, the thread that serves the clients.                         *)

Listen ==
  /\ at[Web] = "openR"
  /\ OpenToRead(Web)
  /\ UNCHANGED <<fifo, line, states, pulses, mishaps>>

(* Mutant: the request is left in the FIFO.                                *)
ReadLeaving ==
  /\ at[Web] = "read" /\ (fifo # <<>> \/ Writers = {})
  /\ Goto(Web, IF fifo # <<>> THEN "pulse" ELSE "closeR")
  /\ UNCHANGED <<fifo, line, states, pulses, mishaps>>

(* All there is, up to 80 bytes, is one request: strcmp is 0 only for a    *)
(* "switch power" without its newline, which nobody sends.                 *)
Read ==
  /\ at[Web] = "read" /\ (fifo # <<>> \/ Writers = {})
  /\ fifo' = <<>>
  /\ Goto(Web, IF fifo # <<>> THEN "pulse" ELSE "closeR")
  /\ UNCHANGED <<line, states, pulses, mishaps>>

(* power_command; the host switches.                                       *)
Pulse ==
  /\ at[Web] = "pulse"
  /\ Goto(Web, "load")
  /\ power' = ~ power
  /\ pulses' = [c \in Clients |-> IF at[c] = "idle" THEN 0
                                  ELSE IF pulses[c] < 2 THEN pulses[c] + 1 ELSE 2]
  /\ UNCHANGED <<fifo, line, power_state, loaded, button, mishaps>>

(* power_state ^= true, under no lock.                                     *)
Load ==
  /\ at[Web] = "load"
  /\ Goto(Web, "store")
  /\ loaded' = [loaded EXCEPT !.web = power_state]
  /\ UNCHANGED <<fifo, line, power_state, button, power, pulses, mishaps>>

(* Mutant: the state is not kept.                                          *)
StoreNothing ==
  /\ at[Web] = "store"
  /\ Goto(Web, "closeR")
  /\ UNCHANGED <<fifo, line, states, pulses, mishaps>>

Store ==
  /\ at[Web] = "store"
  /\ Goto(Web, "closeR")
  /\ power_state' = ~ loaded.web
  /\ loaded' = [loaded EXCEPT !.web = FALSE]
  /\ UNCHANGED <<fifo, line, button, power, pulses, mishaps>>

(* Mutant: the answer is given without waiting for the client.             *)
CloseRequestHasty ==
  /\ at[Web] = "closeR"
  /\ Close(Web, "write")
  /\ UNCHANGED <<line, states, pulses, mishaps>>

CloseRequest ==
  /\ at[Web] = "closeR"
  /\ Close(Web, "openW")
  /\ UNCHANGED <<line, states, pulses, mishaps>>

OpenAnswer ==
  /\ at[Web] = "openW"
  /\ OpenToWrite(Web)
  /\ UNCHANGED <<fifo, line, states, pulses, mishaps>>

AnswerBroken ==
  /\ at[Web] = "write" /\ Readers = {}
  /\ Close(Web, "dead")
  /\ UNCHANGED <<line, states, pulses, mishaps>>

(* Mutant: the FIFO stays open for the next answer.                        *)
CloseAnswerKeeping ==
  /\ at[Web] = "closeW"
  /\ Goto(Web, "write")
  /\ UNCHANGED <<fifo, line, states, pulses, mishaps>>

CloseAnswer ==
  /\ at[Web] = "closeW"
  /\ Close(Web, "openR")
  /\ UNCHANGED <<line, states, pulses, mishaps>>

-----------------------------------------------------------------------------
(* The front panel's power button, wired to the host and to the BMC.       *)

Press ==
  /\ button = "up" /\ at[Web] # "dead"
  /\ power' = ~ power
  /\ button' = "pressed"
  /\ mishaps' = IF Active # {} THEN mishaps \union {"astray"} ELSE mishaps
  /\ UNCHANGED <<at, fifo, line, power_state, loaded, pulses>>

(* gpio_event_handle begins its power_state ^= true, and ends it.          *)
PressLoad ==
  /\ button = "pressed" /\ at[Web] # "dead"
  /\ button' = "loaded"
  /\ loaded' = [loaded EXCEPT !.button = power_state]
  /\ UNCHANGED <<at, fifo, line, power_state, power, pulses, mishaps>>

Pressed ==
  /\ button = "loaded" /\ at[Web] # "dead"
  /\ power_state' = ~ loaded.button
  /\ button' = "up"
  /\ loaded' = [loaded EXCEPT !.button = FALSE]
  /\ UNCHANGED <<at, fifo, line, power, pulses, mishaps>>

(* It finds the button released, or pressed less than 600 ms before.       *)
PressMissed ==
  /\ power' = ~ power
  /\ mishaps' = mishaps \union {"astray"}
  /\ UNCHANGED <<at, fifo, line, power_state, loaded, button, pulses>>

ClientStep(c) ==
  \/ Put(c, "switch power") \/ AskBroken(c) \/ Asked(c)
  \/ Await(c) \/ Take(c) \/ EndOfFile(c) \/ Finish(c)

WebStep ==
  \/ Listen \/ Read \/ Pulse \/ Load \/ Store \/ CloseRequest
  \/ OpenAnswer \/ Put(Web, Answer(power_state)) \/ AnswerBroken \/ CloseAnswer

Next ==
  \/ \E c \in Clients : Ask(c) \/ ClientStep(c) \/ Die(c)
  \/ WebStep
  \/ Press \/ PressLoad \/ Pressed \/ PressMissed

Spec == Init /\ [][Next]_vars

(* Processes run; nothing makes a client ask or anyone press a button.     *)
FairSpec ==
  Spec /\ WF_vars(WebStep) /\ \A c \in Clients : WF_vars(ClientStep(c))

-----------------------------------------------------------------------------
(* Every variable keeps its type.                                          *)
TypeOK ==
  /\ at \in [Procs -> Locations]
  /\ fifo \in Seq(Chunks) /\ Len(fifo) <= FifoMax
  /\ line \in [Clients -> Lines]
  /\ power_state \in BOOLEAN /\ button \in Buttons /\ power \in BOOLEAN
  /\ loaded \in [web : BOOLEAN, button : BOOLEAN]
  /\ pulses \in [Clients -> 0 .. 2]
  /\ mishaps \subseteq Mishaps

OneAtATime == mishaps \intersect {"overlap", "death"} = {}

(* The daemon is not killed by its own answer, as long as clients come one *)
(* after the other and live to read theirs.                                *)
DaemonStays == OneAtATime => at[Web] # "dead"

(* Such a client's request pulses the host's power button once, and it     *)
(* reads an answer, not its own request or nothing.                        *)
SwitchedOnce ==
  OneAtATime => \A c \in Clients :
                  at[c] = "closeR" => pulses[c] = 1 /\ line[c] \in Answers

(* If the host was off when rikbtnd started and its button was pressed     *)
(* only between requests, the client is told the power it has.             *)
AnswerTellsPower ==
  mishaps = {} => \A c \in Clients : at[c] = "closeR" => line[c] = Answer(power)

(* Every request ends: the opens of the two sides find each other.         *)
RequestsEnd ==
  []OneAtATime => \A c \in Clients : at[c] # "idle" ~> at[c] = "idle"
=============================================================================
