----------------------------- MODULE SensorMon -----------------------------
(***************************************************************************)
(* sensord (sensord.c): a thread per FRU reads its sensors and raises or   *)
(* settles their thresholds, a health thread reports the FRU as good or    *)
(* bad in the key-value store and, when log-util has set the key to good,  *)
(* wipes the raised thresholds so that they are raised, and logged, again. *)
(* Nothing guards what the two threads share.                              *)
(*                                                                         *)
(* One sensor with its upper thresholds, 1 for the least of them; the      *)
(* lower ones mirror them.  One action per reading, per access to          *)
(* curr_state and per access to the store.  Left out: discrete sensors,    *)
(* the change of thresholds at run time, poll intervals, pal_ignore_thresh. *)
(***************************************************************************)
EXTENDS Integers

CONSTANTS
  Top,          \* number of upper thresholds (the code has three)
  Threshold,    \* their values
  Hyst,         \* neg_hyst
  Flag,         \* thresholds the sensor has
  TempMax       \* largest reading

Levels == 1 .. Top
Temps == 0 .. TempMax

ASSUME SensorMonAssumption ==
  /\ Top \in Nat \ {0} /\ TempMax \in Nat /\ Hyst \in Nat
  /\ Threshold \in [Levels -> Nat]
  /\ \A k, l \in Levels : k < l => Threshold[k] < Threshold[l]
  /\ Flag \subseteq Levels

VARIABLES
  temp,        \* what the sensor shows
  broken,      \* it cannot be read
  curr_state,  \* the raised thresholds
  mon,         \* the monitor thread
  health,      \* the health thread
  kv,          \* <fru>_sensor_health: TRUE is good
  above,       \* history: per threshold, readings in a row that reach it, up to 4
  below,       \* history: ... that are below it by more than the hysteresis
  cleared,     \* history: log-util has set to good, between two rounds of the
               \* health thread, what that had set to bad; no wipe has followed
  failed       \* history: a store of the health thread has failed: "no", "last"
               \* if it was the last one, or "before"

vars == <<temp, broken, curr_state, mon, health, kv, above, below, cleared, failed>>
world == <<temp, broken>>
history == <<above, below>>

MAX_SENSOR_CHECK_RETRY == 3
MAX_ASSERT_CHECK_RETRY == 1

Monitors == [pc : {"poll", "raise", "raising", "settle", "settling"},
             level : Levels, retry : 0 .. MAX_SENSOR_CHECK_RETRY,
             curr_val : Temps, old : SUBSET Levels]

Healths == [pc : {"get", "scan", "wipe", "set"}, kv_state : BOOLEAN,
            last : BOOLEAN, value : BOOLEAN]

Polling == [pc |-> "poll", level |-> 1, retry |-> 0, curr_val |-> 0, old |-> {}]

Init ==
  /\ temp \in Temps /\ broken = FALSE
  /\ curr_state = {}
  /\ mon = Polling
  /\ health = [pc |-> "get", kv_state |-> TRUE, last |-> TRUE, value |-> TRUE]
  /\ kv \in BOOLEAN
  /\ above = [l \in Levels |-> 0] /\ below = [l \in Levels |-> 0]
  /\ cleared = FALSE /\ failed = "no"

-----------------------------------------------------------------------------
(* The monitor thread of the FRU.                                          *)

Reaches(v, l) == v >= Threshold[l]
Leaves(v, l) == v < Threshold[l] - Hyst

UpTo4(n) == IF n < 4 THEN n + 1 ELSE 4

Record(v) ==
  /\ above' = [l \in Levels |-> IF Reaches(v, l) THEN UpTo4(above[l]) ELSE 0]
  /\ below' = [l \in Levels |-> IF Leaves(v, l) THEN UpTo4(below[l]) ELSE 0]

(* A check is over: a reading has the thresholds raised from the lowest to *)
(* the highest and settled on the way back.                                *)
NextCheck ==
  LET At(pc, l) == [mon EXCEPT !.pc = pc, !.level = l, !.retry = 0, !.old = {}]
  IN  IF mon.pc \in {"raise", "raising"}
      THEN IF mon.level < Top THEN At("raise", mon.level + 1) ELSE At("settle", Top)
      ELSE IF mon.level > 1 THEN At("settle", mon.level - 1) ELSE Polling

Poll ==
  /\ mon.pc = "poll" /\ ~ broken
  /\ mon' = [mon EXCEPT !.pc = "raise", !.curr_val = temp]
  /\ Record(temp)
  /\ UNCHANGED <<world, curr_state, health, kv, cleared, failed>>

(* Mutant: a reading at the threshold does not raise it.                   *)
BeyondStrictly ==
  \/ mon.pc = "raise" /\ mon.curr_val > Threshold[mon.level]
  \/ mon.pc = "settle" /\ Leaves(mon.curr_val, mon.level)

Beyond ==
  \/ mon.pc = "raise" /\ Reaches(mon.curr_val, mon.level)
  \/ mon.pc = "settle" /\ Leaves(mon.curr_val, mon.level)

(* The sensor has the threshold, and it is not raised (settled) already.   *)
Due ==
  mon.retry = 0 => /\ mon.level \in Flag
                   /\ mon.level \in curr_state <=> mon.pc = "settle"

Dismiss ==
  /\ mon.pc \in {"raise", "settle"} /\ ~ (Due /\ Beyond)
  /\ mon' = NextCheck
  /\ UNCHANGED <<world, curr_state, health, kv, history, cleared, failed>>

(* Mutant: one reading the fewer.                                          *)
RetriesOneLess ==
  IF mon.pc = "raise" THEN MAX_ASSERT_CHECK_RETRY ELSE MAX_SENSOR_CHECK_RETRY - 1

Retries == IF mon.pc = "raise" THEN MAX_ASSERT_CHECK_RETRY ELSE MAX_SENSOR_CHECK_RETRY

(* 50 ms later it is read again.                                           *)
Reread ==
  /\ Due /\ Beyond /\ mon.retry < Retries /\ ~ broken
  /\ mon' = [mon EXCEPT !.retry = mon.retry + 1, !.curr_val = temp]
  /\ Record(temp)
  /\ UNCHANGED <<world, curr_state, health, kv, cleared, failed>>

(* A reading that fails ends the check; the next one has the old value.    *)
RereadFails ==
  /\ Due /\ Beyond /\ mon.retry < Retries /\ broken
  /\ mon' = NextCheck
  /\ UNCHANGED <<world, curr_state, health, kv, history, cleared, failed>>

(* curr_state |= or &=: the value it starts from.                          *)
Load ==
  /\ Due /\ Beyond /\ mon.retry = Retries
  /\ mon' = [mon EXCEPT !.pc = IF mon.pc = "raise" THEN "raising" ELSE "settling",
                        !.old = curr_state]
  /\ UNCHANGED <<world, curr_state, health, kv, history, cleared, failed>>

(* With a threshold those under it are raised,                             *)
Raised(l) == (1 .. l) \intersect Flag

(* Mutant: a threshold keeps those over it raised.                         *)
SettledAlone(l) == {l}

(* and those over it settled.                                              *)
Settled(l) == l .. Top

Raise ==
  /\ mon.pc = "raising"
  /\ curr_state' = mon.old \union Raised(mon.level)
  /\ mon' = NextCheck
  /\ UNCHANGED <<world, health, kv, history, cleared, failed>>

Settle ==
  /\ mon.pc = "settling"
  /\ curr_state' = mon.old \ Settled(mon.level)
  /\ mon' = NextCheck
  /\ UNCHANGED <<world, health, kv, history, cleared, failed>>

-----------------------------------------------------------------------------
(* The health thread.                                                      *)

(* A store that cannot be read ends the round before anything is changed:  *)
(* a stuttering step.                                                      *)
GetHealth ==
  /\ health.pc = "get"
  /\ health' = [health EXCEPT !.pc = "scan", !.kv_state = kv]
  /\ UNCHANGED <<world, curr_state, mon, kv, history, cleared, failed>>

(* Mutant: whatever the store says differently calls for a wipe.           *)
ScanAnyChange ==
  /\ health.pc = "scan"
  /\ health' = [health EXCEPT !.pc = IF health.kv_state # health.last THEN "wipe" ELSE "set",
                              !.kv_state = TRUE, !.value = curr_state = {}]
  /\ UNCHANGED <<world, curr_state, mon, kv, history, cleared, failed>>

(* Mutant: the last status is kept before the store's is compared with it. *)
ScanSwapped ==
  /\ health.pc = "scan"
  /\ health' = [health EXCEPT !.pc = IF health.kv_state /\ curr_state # {} THEN "wipe" ELSE "set",
                              !.kv_state = TRUE, !.value = curr_state = {}]
  /\ UNCHANGED <<world, curr_state, mon, kv, history, cleared, failed>>

(* Are its sensors good?  A wipe follows if the store says good where the  *)
(* thread had said bad.                                                    *)
Scan ==
  /\ health.pc = "scan"
  /\ health' = [health EXCEPT !.pc = IF health.kv_state /\ ~ health.last THEN "wipe" ELSE "set",
                              !.kv_state = TRUE, !.value = curr_state = {}]
  /\ UNCHANGED <<world, curr_state, mon, kv, history, cleared, failed>>

Wipe ==
  /\ health.pc = "wipe"
  /\ curr_state' = {}
  /\ health' = [health EXCEPT !.pc = "set"]
  /\ cleared' = FALSE
  /\ UNCHANGED <<world, mon, kv, history, failed>>

Reported == failed' = IF failed = "last" THEN "before" ELSE failed

(* Mutant: the store is written only when the health has changed.          *)
SetHealthOnChange ==
  /\ health.pc = "set"
  /\ kv' = IF health.value # health.last THEN health.value ELSE kv
  /\ health' = [health EXCEPT !.pc = "get", !.last = health.value, !.value = TRUE]
  /\ Reported
  /\ UNCHANGED <<world, curr_state, mon, history, cleared>>

SetHealth ==
  /\ health.pc = "set"
  /\ kv' = health.value
  /\ health' = [health EXCEPT !.pc = "get", !.last = health.value, !.value = TRUE]
  /\ Reported
  /\ UNCHANGED <<world, curr_state, mon, history, cleared>>

(* pal_set_sensor_health fails, and nobody looks.  Bounded to one failure. *)
SetFails ==
  /\ health.pc = "set" /\ failed = "no"
  /\ health' = [health EXCEPT !.pc = "get", !.last = health.value, !.value = TRUE]
  /\ failed' = "last"
  /\ UNCHANGED <<world, curr_state, mon, kv, history, cleared>>

-----------------------------------------------------------------------------
(* The sensor, and log-util --clear.                                       *)

Change ==
  /\ temp' \in Temps \ {temp}
  /\ UNCHANGED <<broken, curr_state, mon, health, kv, history, cleared, failed>>

Break ==
  /\ broken' = ~ broken
  /\ UNCHANGED <<temp, curr_state, mon, health, kv, history, cleared, failed>>

Clear ==
  /\ kv' = TRUE
  /\ cleared' = (cleared \/ (health.pc = "get" /\ ~ kv /\ ~ health.last))
  /\ UNCHANGED <<world, curr_state, mon, health, history, failed>>

Monitor == Poll \/ Dismiss \/ Reread \/ RereadFails \/ Load \/ Raise \/ Settle

Health == GetHealth \/ Scan \/ Wipe \/ SetHealth \/ SetFails

Next == Monitor \/ Health \/ Change \/ Break \/ Clear

Spec == Init /\ [][Next]_vars

(* Both threads go round for ever, but for waits of seconds; the store can *)
(* be read now and then.                                                   *)
FairSpec == Spec /\ WF_vars(Monitor) /\ WF_vars(Health)

-----------------------------------------------------------------------------
(* Every variable keeps its type.                                          *)
TypeOK ==
  /\ temp \in Temps /\ broken \in BOOLEAN
  /\ curr_state \in SUBSET Flag
  /\ mon \in Monitors /\ health \in Healths
  /\ kv \in BOOLEAN
  /\ above \in [Levels -> 0 .. 4] /\ below \in [Levels -> 0 .. 4]
  /\ cleared \in BOOLEAN /\ failed \in {"no", "last", "before"}

(* A raised threshold has those under it raised, whatever the threads do   *)
(* to curr_state in between each other's accesses.                         *)
Nested ==
  \A k, l \in Flag : k < l /\ l \in curr_state => k \in curr_state

(* A threshold is raised only after two readings in a row that reach it,   *)
(* and settled only after four that are back by more than the hysteresis:  *)
(* neither other thresholds' readings nor failed ones make up for them.    *)
Debounced ==
  [][/\ Raise => above[mon.level] >= 2
     /\ Settle => below[mon.level] >= 4]_vars

(* Raised thresholds are wiped only for log-util, or in the one round that *)
(* follows a store that failed: the next one stored makes up for it.       *)
WipedOnRequest == [][Wipe => cleared \/ failed = "last"]_vars

(* A sensor that stays beyond a threshold has it raised, again and again   *)
(* if it is wiped; one that stays back has it settled for good.            *)
FollowsSensor ==
  \A l \in Flag :
    /\ <>[](Reaches(temp, l) /\ ~ broken) => []<>(l \in curr_state)
    /\ <>[](Leaves(temp, l) /\ ~ broken) => <>[](l \notin curr_state)

(* The store says bad again and again while thresholds stay raised, and    *)
(* good once they stay settled.                                            *)
HealthTold ==
  /\ <>[](curr_state # {}) => []<> ~ kv
  /\ <>[](curr_state = {}) => <>[] kv

(* The wipe follows a clear that does not fall between the thread's        *)
(* reading of the store and its writing (where it is written over).        *)
ClearHeeded == cleared ~> ~ cleared
=============================================================================
