--------------------------- MODULE WdtTimerProofs ---------------------------
(***************************************************************************)
(* Theorems about one watchdog, for every largest count and set of uses.   *)
(***************************************************************************)
EXTENDS WdtTimer, TLAPS

(* A timer that runs has counted down from what it was loaded with, and    *)
(* runs at 0 only if that is what it was loaded with.                      *)
Loaded ==
  wdt.run = TRUE => /\ wdt.count + ticks = wdt.init
                    /\ wdt.count = 0 => ticks = 0

(* The action the thread carries is the one that ran out.                  *)
Carried == step # "sleep" => action = expired

(* An action that is awaited is still on its way.                          *)
Awaited ==
  fate = "awaited" => \/ wdt.run = TRUE /\ wdt.action \in PowerActions
                      \/ step # "sleep" /\ ~ late

Inv == TypeOK /\ Loaded /\ Carried /\ StoppedForAction /\ Awaited

LEMMA Zero == 0 \in Counts /\ Counts \subseteq Nat
  BY WdtAssumption DEF Counts

LEMMA New == NewWatchdog \in Watchdogs /\ NewWatchdog.run = FALSE
<1>1. (CHOOSE u \in Uses : TRUE) \in Uses
  BY WdtAssumption
<1> QED
  BY <1>1, WdtAssumption DEF NewWatchdog, Watchdogs, Counts, Actions, PowerActions

LEMMA FatesAre == Init => fate \in Fates /\ fate # "awaited"
  BY DEF Init, Fates

LEMMA InitInv == Init => Inv
<1> SUFFICES ASSUME Init PROVE Inv
  OBVIOUS
<1>1. wdt \in Watchdogs /\ wdt.run = FALSE
  BY New DEF Init
<1>2. step = "sleep" /\ action \in Actions /\ expired \in Actions
  BY DEF Init, Actions
<1>3. TypeOK
  BY <1>1, <1>2, Zero, FatesAre DEF Init, TypeOK
<1>4. Loaded /\ Carried /\ StoppedForAction
  BY <1>1, <1>2 DEF Loaded, Carried, StoppedForAction
<1>5. Awaited
  BY FatesAre DEF Awaited
<1> QED
  BY <1>3, <1>4, <1>5 DEF Inv

(* What a count leaves of a running watchdog.                              *)
LEMMA Decrement ==
  ASSUME wdt \in Watchdogs, wdt.run = TRUE
  PROVE  /\ Decremented \in Watchdogs /\ Decremented.run = TRUE
         /\ Decremented.init = wdt.init
         /\ Decremented.count = IF wdt.count = 0 THEN 0 ELSE wdt.count - 1
<1> DEFINE n == IF wdt.count = 0 THEN 0 ELSE wdt.count - 1
<1>1. wdt.count \in Counts
  BY DEF Watchdogs
<1>2. n \in Counts
  BY <1>1, WdtAssumption DEF Counts
<1>3. Decremented = [wdt EXCEPT !.count = n]
  BY DEF Decremented
<1> HIDE DEF n
<1>4. /\ Decremented \in Watchdogs /\ Decremented.run = TRUE
      /\ Decremented.init = wdt.init /\ Decremented.count = n
  BY <1>2, <1>3 DEF Watchdogs
<1> QED
  BY <1>4 DEF n

(* What a message of the host leaves: the whole count, and an action that  *)
(* is awaited only if the timer runs for it.                               *)
LEMMA HeardKeeps ==
  ASSUME Inv, Heard, UNCHANGED <<threadVars, server, expired>>,
         wdt' \in Watchdogs, wdt'.count = wdt'.init
  PROVE  Inv'
<1>1. wdt'.run \in BOOLEAN /\ wdt'.init \in Nat
  BY Zero DEF Watchdogs
<1>2. ticks' = 0 /\ late' = TRUE /\ UNCHANGED <<step, action, power, dumping, expired>>
  BY DEF Heard, threadVars, server
<1>3. fate' \in Fates
  BY DEF Heard, Fates
<1>4. TypeOK'
  BY <1>2, <1>3, Zero DEF Inv, TypeOK
<1>5. Loaded'
  BY <1>1, <1>2 DEF Loaded
<1>6. Carried' /\ StoppedForAction'
  BY <1>2 DEF Inv, Carried, StoppedForAction
<1>7. Awaited'
  BY <1>1 DEF Heard, Awaited
<1> QED
  BY <1>4, <1>5, <1>6, <1>7 DEF Inv

LEMMA HostKeeps ==
  ASSUME Inv, HostStep PROVE Inv'
<1>1. CASE Reset
  <2>1. wdt' \in Watchdogs /\ wdt'.count = wdt'.init
    BY <1>1 DEF Reset, Inv, TypeOK, Watchdogs
  <2>2. Heard /\ UNCHANGED <<threadVars, server, expired>>
    BY <1>1 DEF Reset
  <2> QED
    BY <2>1, <2>2, HeardKeeps
<1>2. ASSUME NEW u \in Uses, NEW a \in Actions, NEW n \in Counts, NEW k \in BOOLEAN,
             NEW c, Set(u, a, c, n, k)
      PROVE  Inv'
  <2>1. wdt' \in Watchdogs /\ wdt'.count = wdt'.init
    <3>1. (k /\ wdt.run) \in BOOLEAN
      BY Zenon
    <3> QED
      BY <1>2, <3>1 DEF Set, Inv, TypeOK, Watchdogs
  <2>2. Heard /\ UNCHANGED <<threadVars, server, expired>>
    BY <1>2 DEF Set
  <2> QED
    BY <2>1, <2>2, HeardKeeps
<1> QED
  BY <1>1, <1>2 DEF HostStep

LEMMA CountKeeps ==
  ASSUME Inv, Count PROVE Inv'
<1> DEFINE d == Decremented
<1>1. /\ wdt \in Watchdogs /\ wdt.run = TRUE /\ step = "sleep"
      /\ ticks' = ticks + 1 /\ UNCHANGED <<power, dumping, fate>>
  BY DEF Count, Inv, TypeOK, Watchdogs, server
<1>2. /\ d \in Watchdogs /\ d.run = TRUE /\ d.init = wdt.init
      /\ d.count = IF wdt.count = 0 THEN 0 ELSE wdt.count - 1
  BY <1>1, Decrement
<1>3. ticks' \in Counts
  BY <1>1, WdtAssumption DEF Inv, TypeOK, Loaded, Watchdogs, Counts
<1>4. fate = "awaited" => wdt.action \in PowerActions
  BY <1>1 DEF Inv, Awaited
<1>5. CASE d.count = 0
  <2>1. wdt' = RunOut(d)
    BY <1>5 DEF Count
  <2>2. wdt' \in Watchdogs /\ wdt'.run = FALSE
    BY <1>2, <2>1 DEF RunOut, Watchdogs
  <2>3. /\ action' = expired' /\ expired' = wdt.action /\ late' = FALSE
        /\ step' = IF wdt.action = "none" THEN "sleep" ELSE "decide"
    BY <1>5 DEF Count
  <2>4. wdt.action \in Actions /\ step' \in {"sleep", "decide"}
    BY <1>1, <2>3 DEF Watchdogs
  <2>5. TypeOK'
    BY <1>1, <1>3, <2>2, <2>3, <2>4 DEF Inv, TypeOK
  <2>6. Loaded' /\ Carried' /\ StoppedForAction'
    BY <2>2, <2>3 DEF Loaded, Carried, StoppedForAction
  <2>7. Awaited'
    BY <1>1, <1>4, <2>3 DEF Awaited, PowerActions
  <2> QED
    BY <2>5, <2>6, <2>7 DEF Inv
<1>6. CASE d.count # 0
  <2>1. wdt' = d /\ UNCHANGED <<step, action, expired, late>>
    BY <1>6 DEF Count, threadVars
  <2>2. TypeOK'
    BY <1>1, <1>2, <1>3, <2>1 DEF Inv, TypeOK
  <2>3. Loaded'
    BY <1>1, <1>2, <1>6, <2>1 DEF Inv, TypeOK, Loaded, Watchdogs, Counts
  <2>4. Carried' /\ StoppedForAction'
    BY <1>1, <2>1 DEF Carried, StoppedForAction
  <2>5. d.action = wdt.action
    BY <1>1 DEF Decremented, Watchdogs
  <2>6. Awaited'
    BY <1>1, <1>2, <1>4, <2>1, <2>5 DEF Awaited
  <2> QED
    BY <2>2, <2>3, <2>4, <2>6 DEF Inv
<1> QED
  BY <1>5, <1>6

LEMMA StopKeeps ==
  ASSUME Inv, StopIfOff PROVE Inv'
<1>1. /\ wdt' \in Watchdogs /\ wdt'.run = FALSE /\ step = "sleep"
      /\ UNCHANGED <<step, action, power, dumping, ticks, expired, late>>
  BY DEF StopIfOff, Inv, TypeOK, Watchdogs, threadVars, server, counted
<1>2. fate' \in Fates /\ fate' # "awaited"
  BY DEF StopIfOff, Inv, TypeOK, Fates
<1>3. TypeOK'
  BY <1>1, <1>2 DEF Inv, TypeOK
<1>4. Loaded' /\ Carried' /\ StoppedForAction' /\ Awaited'
  BY <1>1, <1>2 DEF Loaded, Carried, StoppedForAction, Awaited
<1> QED
  BY <1>3, <1>4 DEF Inv

LEMMA FinishKeeps ==
  ASSUME Inv, Finish PROVE Inv'
<1>1. /\ UNCHANGED <<wdt, dumping, ticks, expired, late>> /\ power' \in BOOLEAN
      /\ step # "sleep"
      /\ \/ step' = "sleep" /\ action' = "none"
         \/ step' = "act" /\ action' = action
  BY DEF Finish, IgnoreForDump, DecideToAct, Act, ActFails, Inv, TypeOK,
         server, counted, history
<1>2. \/ step' = "act" /\ fate' = fate
      \/ Ends("dump") \/ Ends("acted") \/ Ends("failed")
  BY DEF Finish, IgnoreForDump, DecideToAct, Act, ActFails, history
<1>3. fate' \in Fates
  BY <1>2 DEF Inv, TypeOK, Ends, Fates
<1>4. TypeOK'
  BY <1>1, <1>3 DEF Inv, TypeOK, Actions
<1>5. Loaded' /\ Carried' /\ StoppedForAction'
  BY <1>1 DEF Inv, Loaded, Carried, StoppedForAction
<1>6. Awaited'
  <2>1. CASE step' = "act" /\ fate' = fate
    BY <1>1, <2>1 DEF Inv, Awaited
  <2>2. CASE Ends("dump") \/ Ends("acted") \/ Ends("failed")
    <3>1. fate' = "awaited" => fate = "awaited" /\ late
      BY <2>2 DEF Ends, Inv, TypeOK
    <3> QED
      BY <1>1, <3>1 DEF Inv, Awaited
  <2> QED
    BY <1>2, <2>1, <2>2
<1> QED
  BY <1>4, <1>5, <1>6 DEF Inv

LEMMA OthersKeep ==
  ASSUME Inv, PowerSwitch \/ Dump \/ Die PROVE Inv'
<1>1. CASE PowerSwitch \/ Dump
  <2>1. /\ UNCHANGED <<wdt, step, action, ticks, expired, late, fate>>
        /\ power' \in BOOLEAN /\ dumping' \in BOOLEAN
    BY <1>1 DEF PowerSwitch, Dump, Inv, TypeOK, threadVars, history
  <2> QED
    BY <2>1 DEF Inv, TypeOK, Loaded, Carried, StoppedForAction, Awaited
<1>2. CASE Die
  <2>1. wdt' \in Watchdogs /\ wdt'.run = FALSE /\ step' = "sleep"
    BY <1>2, New DEF Die
  <2>2. action' \in Actions /\ expired' \in Actions
    BY <1>2 DEF Die, Actions
  <2>3. fate' \in Fates /\ fate' # "awaited"
    BY <1>2 DEF Die, Inv, TypeOK, Fates
  <2>4. TypeOK'
    BY <1>2, <2>1, <2>2, <2>3, Zero DEF Die, Inv, TypeOK, server
  <2>5. Loaded' /\ Carried' /\ StoppedForAction' /\ Awaited'
    BY <2>1, <2>3 DEF Loaded, Carried, StoppedForAction, Awaited
  <2> QED
    BY <2>4, <2>5 DEF Inv
<1> QED
  BY <1>1, <1>2

LEMMA StepInv == Inv /\ [Next]_vars => Inv'
<1> SUFFICES ASSUME Inv, [Next]_vars PROVE Inv'
  OBVIOUS
<1>1. CASE UNCHANGED vars
  BY <1>1 DEF vars, Inv, TypeOK, Loaded, Carried, StoppedForAction, Awaited
<1> QED
  BY <1>1, HostKeeps, CountKeeps, StopKeeps, FinishKeeps, OthersKeep DEF Next

LEMMA Invariant == Spec => []Inv
  BY InitInv, StepInv, PTL DEF Spec

(* The fields of the watchdog keep their ranges: neither the counter nor   *)
(* the record of ticks leaves 0 .. CountMax.                               *)
THEOREM Typing == Spec => []TypeOK
<1>1. Inv => TypeOK
  BY DEF Inv
<1> QED
  BY <1>1, Invariant, PTL

(* The watchdog is stopped while its action is pending, unless the host    *)
(* has sent a message since; then its whole count is ahead.                *)
THEOREM StopsFirst == Spec => []StoppedForAction
<1>1. Inv => StoppedForAction
  BY DEF Inv
<1> QED
  BY <1>1, Invariant, PTL

(* The timer runs out exactly as many counts after the last load as that   *)
(* load asked for, one if it asked for none.                               *)
THEOREM OnTime == Spec => ExpiresOnTime
<1> DEFINE A == Count /\ ~ wdt'.run =>
                  ticks' = IF wdt.init = 0 THEN 1 ELSE wdt.init
<1>1. Inv /\ [Next]_vars => [A]_vars
  <2> SUFFICES ASSUME Inv, Count, ~ wdt'.run
               PROVE  ticks' = IF wdt.init = 0 THEN 1 ELSE wdt.init
    BY Zenon
  <2>1. /\ wdt \in Watchdogs /\ wdt.run = TRUE /\ ticks' = ticks + 1
    BY DEF Count, Inv, TypeOK, Watchdogs
  <2>2. /\ Decremented \in Watchdogs /\ Decremented.run = TRUE
        /\ Decremented.count = IF wdt.count = 0 THEN 0 ELSE wdt.count - 1
    BY <2>1, Decrement
  <2>3. Decremented.count = 0
    BY <2>2 DEF Count
  <2>4. ticks \in Nat /\ wdt.count \in Nat /\ wdt.init \in Nat
    BY <2>1, WdtAssumption DEF Inv, TypeOK, Watchdogs, Counts
  <2> QED
    BY <2>1, <2>2, <2>3, <2>4 DEF Inv, Loaded
<1> QED
  BY <1>1, Invariant, PTL DEF Spec, ExpiresOnTime

(* The action a host is waiting for is never lost from sight: while        *)
(* nothing has ended it, the timer runs for it or the thread holds it.     *)
THEOREM NeverForgotten == Spec => []Awaited
<1>1. Inv => Awaited
  BY DEF Inv
<1> QED
  BY <1>1, Invariant, PTL

(* What is done to the server is what was set as the timer ran out.        *)
THEOREM Faithful == Spec => ActsAsExpired
<1> DEFINE A == Act => power' = CASE expired = "down" -> FALSE
                                  [] expired = "cycle" -> TRUE
                                  [] OTHER -> power
<1>1. Inv /\ [Next]_vars => [A]_vars
  BY DEF Inv, TypeOK, Carried, Act
<1> QED
  BY <1>1, Invariant, PTL DEF Spec, ActsAsExpired
=============================================================================
