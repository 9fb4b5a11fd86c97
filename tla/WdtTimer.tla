------------------------------ MODULE WdtTimer ------------------------------
(***************************************************************************)
(* The IPMI watchdog of one server (ipmid: ipmid.c).  The host sets and    *)
(* resets it with messages, whose handlers run one at a time; a thread     *)
(* counts down every 100 ms.  Both work under wdt->mutex, but the thread   *)
(* carries out the action of an expiration after it has released it: what  *)
(* the host or the power buttons do in between comes too late.             *)
(*                                                                         *)
(* One action per section of the mutex and per call after it.  Logging,    *)
(* no_log and pre_interval are left out; nothing reads them back.          *)
(***************************************************************************)
EXTENDS Naturals

CONSTANTS
  CountMax,   \* largest init_count_down a host sets
  Uses,       \* timer uses: one flag each in `expiration'
  Deaths      \* ipmid may die and be started again

ASSUME WdtAssumption == CountMax \in Nat \ {0} /\ Uses # {} /\ Deaths \in BOOLEAN

VARIABLES
  wdt,       \* the struct watchdog_data
  step,      \* where the thread is: "sleep", or past the mutex with an action
  action,    \* its local action
  power,     \* the server is on
  dumping,   \* a crash dump of it is going on
  ticks,     \* history: counts since the host last loaded the counter
  expired,   \* history: the action that was set as the timer last ran out
  late,      \* history: the host has sent a message since
  fate       \* history: what became of the action the host last asked for

vars == <<wdt, step, action, power, dumping, ticks, expired, late, fate>>
threadVars == <<step, action>>
server == <<power, dumping>>
counted == <<ticks, expired, late>>
history == <<ticks, expired, late, fate>>

Counts == 0 .. CountMax

PowerActions == {"reset", "down", "cycle"}

(* "reserved" stands for the codes 4 to 7, which the thread carries like   *)
(* an action and then does nothing for.                                    *)
Actions == {"none", "reserved"} \union PowerActions

(* "unasked": none is due; "awaited": the timer runs, or has run out and   *)
(* the thread has not dealt with it; the others say how it ended.          *)
Fates == {"unasked", "awaited", "acted", "failed", "off", "dump", "death"}

Watchdogs == [valid : BOOLEAN, run : BOOLEAN, use : Uses, action : Actions,
              expiration : SUBSET Uses, init : Counts, count : Counts]

(* calloc in main.                                                         *)
NewWatchdog ==
  [valid |-> FALSE, run |-> FALSE, use |-> CHOOSE u \in Uses : TRUE, action |-> "none",
   expiration |-> {}, init |-> 0, count |-> 0]

Init ==
  /\ wdt = NewWatchdog
  /\ step = "sleep" /\ action = "none"
  /\ power \in BOOLEAN /\ dumping = FALSE
  /\ ticks = 0
  /\ expired = "none" /\ late = FALSE
  /\ fate = "unasked"

-----------------------------------------------------------------------------
(* The host's messages.                                                    *)

Heard ==
  /\ ticks' = 0 /\ late' = TRUE
  /\ fate' = IF wdt'.run /\ wdt'.action \in PowerActions THEN "awaited" ELSE "unasked"

(* The awaited action ends so.  One that runs out and is then overtaken by *)
(* a message is awaited no more: what counts is what that message asks.    *)
Ends(f) == fate' = IF fate = "awaited" /\ ~ late THEN f ELSE fate

(* Mutant: the counter goes on from where it is.                           *)
ResetNoReload ==
  /\ wdt.valid
  /\ wdt' = [wdt EXCEPT !.run = TRUE]
  /\ Heard
  /\ UNCHANGED <<threadVars, server, expired>>

(* app_reset_watchdog_timer; refused before the first set.                 *)
Reset ==
  /\ wdt.valid
  /\ wdt' = [wdt EXCEPT !.count = wdt.init, !.run = TRUE]
  /\ Heard
  /\ UNCHANGED <<threadVars, server, expired>>

(* app_set_watchdog_timer; `keep' is the "do not stop timer" bit.          *)
Set(use, act, clear, init, keep) ==
  /\ wdt' = [valid |-> TRUE, run |-> keep /\ wdt.run, use |-> use, action |-> act,
             expiration |-> wdt.expiration \ clear, init |-> init, count |-> init]
  /\ Heard
  /\ UNCHANGED <<threadVars, server, expired>>

-----------------------------------------------------------------------------
(* The thread: wdt_timer.                                                  *)

(* A server that is off has no watchdog running.                           *)
StopIfOff ==
  /\ step = "sleep" /\ wdt.valid /\ wdt.run /\ ~ power
  /\ wdt' = [wdt EXCEPT !.run = FALSE]
  /\ fate' = IF fate = "awaited" THEN "off" ELSE fate
  /\ UNCHANGED <<threadVars, server, counted>>

Decremented == [wdt EXCEPT !.count = IF wdt.count = 0 THEN 0 ELSE wdt.count - 1]

(* Mutant: the expiration leaves the timer running.                        *)
RunOutRunning(w) == [w EXCEPT !.expiration = w.expiration \union {w.use}]

RunOut(w) == [w EXCEPT !.expiration = w.expiration \union {w.use}, !.run = FALSE]

(* Mutant: an expiration whose flag the host has not cleared is not acted  *)
(* upon again.                                                             *)
CountOnce ==
  /\ step = "sleep" /\ wdt.valid /\ wdt.run
  /\ ticks' = ticks + 1
  /\ IF Decremented.count = 0
     THEN /\ wdt' = RunOut(Decremented)
          /\ expired' = wdt.action /\ late' = FALSE
          /\ action' = IF wdt.use \in wdt.expiration THEN "none" ELSE wdt.action
          /\ step' = IF action' = "none" THEN "sleep" ELSE "decide"
     ELSE wdt' = Decremented /\ UNCHANGED <<threadVars, expired, late>>
  /\ UNCHANGED <<server, fate>>

(* A count, of a server that is on or whose power cannot be read; at 0 the *)
(* timer runs out, and its action is kept for later.                       *)
Count ==
  /\ step = "sleep" /\ wdt.valid /\ wdt.run
  /\ ticks' = ticks + 1
  /\ IF Decremented.count = 0
     THEN /\ wdt' = RunOut(Decremented)
          /\ expired' = wdt.action /\ late' = FALSE
          /\ action' = wdt.action
          /\ step' = IF wdt.action = "none" THEN "sleep" ELSE "decide"
     ELSE wdt' = Decremented /\ UNCHANGED <<threadVars, expired, late>>
  /\ UNCHANGED <<server, fate>>

(* During a crash dump the action is dropped.                              *)
IgnoreForDump ==
  /\ step = "decide" /\ dumping
  /\ step' = "sleep" /\ action' = "none"
  /\ Ends("dump")
  /\ UNCHANGED <<wdt, server, counted>>

DecideToAct ==
  /\ step = "decide" /\ ~ dumping
  /\ step' = "act"
  /\ UNCHANGED <<wdt, action, server, history>>

(* Mutant: the action is the one set by now.                               *)
ActAsSetNow ==
  /\ step = "act"
  /\ step' = "sleep" /\ action' = "none"
  /\ power' = IF wdt.action = "down" THEN FALSE ELSE wdt.action = "cycle" \/ power
  /\ Ends("acted")
  /\ UNCHANGED <<wdt, dumping, counted>>

(* pal_set_server_power: a reset leaves the power as it is, a cycle ends   *)
(* with the server on; a reserved action calls nothing.                    *)
Act ==
  /\ step = "act"
  /\ step' = "sleep" /\ action' = "none"
  /\ power' = IF action = "down" THEN FALSE ELSE action = "cycle" \/ power
  /\ Ends("acted")
  /\ UNCHANGED <<wdt, dumping, counted>>

(* It fails and nobody looks; the server stays as it is.                   *)
ActFails ==
  /\ step = "act" /\ action \in PowerActions
  /\ step' = "sleep" /\ action' = "none"
  /\ Ends("failed")
  /\ UNCHANGED <<wdt, server, counted>>

-----------------------------------------------------------------------------
(* Power buttons and utilities, the crash dump, and the daemon's death.    *)

PowerSwitch ==
  /\ power' = ~ power
  /\ UNCHANGED <<wdt, threadVars, dumping, history>>

Dump ==
  /\ dumping' = ~ dumping
  /\ UNCHANGED <<wdt, threadVars, power, history>>

Die ==
  /\ Deaths
  /\ wdt' = NewWatchdog
  /\ step' = "sleep" /\ action' = "none"
  /\ ticks' = 0
  /\ expired' = "none" /\ late' = FALSE
  /\ fate' = IF fate = "awaited" THEN "death" ELSE fate
  /\ UNCHANGED server

HostStep ==
  \/ Reset
  \/ \E u \in Uses, a \in Actions, n \in Counts, k \in BOOLEAN :
       \E c \in {{}, Uses} : Set(u, a, c, n, k)

Finish == IgnoreForDump \/ DecideToAct \/ Act \/ ActFails

Next ==
  \/ HostStep
  \/ StopIfOff \/ Count \/ Finish
  \/ PowerSwitch \/ Dump \/ Die

Spec == Init /\ [][Next]_vars

(* The thread runs: it sleeps 100 ms at a time and nobody holds the mutex  *)
(* for long.                                                               *)
FairSpec == Spec /\ WF_vars(StopIfOff \/ Count) /\ WF_vars(Finish)

-----------------------------------------------------------------------------
(* Every variable keeps its type.                                          *)
TypeOK ==
  /\ wdt \in Watchdogs
  /\ step \in {"sleep", "decide", "act"}
  /\ action \in Actions
  /\ power \in BOOLEAN /\ dumping \in BOOLEAN
  /\ ticks \in Counts
  /\ expired \in Actions /\ late \in BOOLEAN /\ fate \in Fates

(* The timer runs out exactly init_count_down counts after the host last   *)
(* loaded it, however sets and resets fall between the counts: a host that *)
(* resets in time never sees its watchdog expire.                          *)
ExpiresOnTime ==
  [][Count /\ ~ wdt'.run =>
       ticks' = IF wdt.init = 0 THEN 1 ELSE wdt.init]_vars

(* What is done to the server is what was set as the timer ran out: a set  *)
(* that comes before the action is carried out neither changes it nor      *)
(* recalls it.                                                             *)
ActsAsExpired ==
  [][Act => power' = CASE expired = "down" -> FALSE
                       [] expired = "cycle" -> TRUE
                       [] OTHER -> power]_vars

(* A server that is acted upon starts with its watchdog stopped, so that   *)
(* it is not acted upon again while it boots; if a message slipped in      *)
(* between the expiration and the action, with its whole count ahead.      *)
StoppedForAction == step # "sleep" /\ wdt.run => late /\ wdt.count = wdt.init

(* A host that hangs is acted upon: once it sends nothing more, its        *)
(* watchdog comes to stand still with no action outstanding; a power       *)
(* action that its last message left due has been carried out, or the      *)
(* server was found off by a count, a crash dump was going on as the       *)
(* thread looked, the call failed or ipmid died.  Whatever else happens,   *)
(* the power switched and dumps started and ended, does not save it.       *)
HungHostIsActedUpon ==
  <>[][~ HostStep]_vars => <>[](~ wdt.run /\ fate # "awaited")
=============================================================================
