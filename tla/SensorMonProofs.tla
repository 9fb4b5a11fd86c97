-------------------------- MODULE SensorMonProofs --------------------------
(***************************************************************************)
(* Theorems about a monitored sensor, for every number of thresholds,      *)
(* their values, the hysteresis and the range of readings.                 *)
(***************************************************************************)
EXTENDS SensorMon, TLAPS

NestedIn(S) == \A k, l \in Flag : k < l /\ l \in S => k \in S

(* The value |= and &= start from is nested as well.                       *)
NestedTwice == NestedIn(curr_state) /\ NestedIn(mon.old) /\ mon.old \subseteq Flag

(* Outside of a poll the last reading is counted for every threshold, and  *)
(* the readings of a check that goes on for the one it checks.             *)
Counted ==
  IF mon.pc = "poll" THEN mon.retry = 0
  ELSE
    /\ \A l \in Levels : Reaches(mon.curr_val, l) => above[l] >= 1
    /\ \A l \in Levels : Leaves(mon.curr_val, l) => below[l] >= 1
    /\ Beyond /\ mon.pc = "raise" => above[mon.level] >= mon.retry + 1
    /\ Beyond /\ mon.pc = "settle" => below[mon.level] >= mon.retry + 1
    /\ mon.pc = "raising" => above[mon.level] >= 2
    /\ mon.pc = "settling" => below[mon.level] >= 4

(* The health thread is about to find good where it had said bad only if   *)
(* log-util or the failure of its last store is the reason.                *)
Reasoned ==
  \/ cleared \/ failed = "last"
  \/ /\ health.pc = "get" => ~ kv \/ health.last
     /\ health.pc = "scan" => ~ health.kv_state \/ health.last
     /\ health.pc # "wipe"

Inv == TypeOK /\ NestedTwice /\ Counted /\ Reasoned

LEMMA LevelFacts ==
  /\ 1 \in Levels /\ Top \in Levels /\ Levels \subseteq Nat
  /\ \A l \in Levels : l < Top => l + 1 \in Levels
  /\ \A l \in Levels : l > 1 => l - 1 \in Levels
  /\ \A l \in Levels : Threshold[l] \in Nat
  BY SensorMonAssumption DEF Levels

LEMMA PollingFacts == Polling \in Monitors /\ Polling.pc = "poll" /\ Polling.old = {}
                         /\ Polling.retry = 0
<1>1. 0 \in Temps /\ 0 \in 0 .. MAX_SENSOR_CHECK_RETRY /\ {} \in SUBSET Levels
  BY SensorMonAssumption DEF Temps, MAX_SENSOR_CHECK_RETRY
<1> QED
  BY <1>1, LevelFacts DEF Polling, Monitors

(* The check that follows starts from nothing but the last reading.        *)
LEMMA NextCheckFacts ==
  ASSUME mon \in Monitors
  PROVE  /\ NextCheck \in Monitors /\ NextCheck.old = {} /\ NextCheck.retry = 0
         /\ \/ NextCheck.pc = "poll"
            \/ /\ NextCheck.pc \in {"raise", "settle"}
               /\ NextCheck.curr_val = mon.curr_val
<1> DEFINE At(pc, l) == [mon EXCEPT !.pc = pc, !.level = l, !.retry = 0, !.old = {}]
<1>1. 0 \in 0 .. MAX_SENSOR_CHECK_RETRY /\ {} \in SUBSET Levels
  BY DEF MAX_SENSOR_CHECK_RETRY
<1>2. ASSUME NEW pc \in {"raise", "settle"}, NEW l \in Levels
      PROVE  /\ At(pc, l) \in Monitors /\ At(pc, l).old = {} /\ At(pc, l).pc = pc
             /\ At(pc, l).retry = 0 /\ At(pc, l).curr_val = mon.curr_val
  BY <1>1, <1>2 DEF Monitors
<1>3. mon.level \in Levels
  BY DEF Monitors
<1>4. \/ NextCheck = Polling
      \/ \E pc \in {"raise", "settle"}, l \in Levels : NextCheck = At(pc, l)
  <2>1. CASE mon.pc \in {"raise", "raising"} /\ mon.level < Top
    <3>1. mon.level + 1 \in Levels /\ NextCheck = At("raise", mon.level + 1)
      BY <1>3, <2>1, LevelFacts DEF NextCheck
    <3> QED
      BY <3>1
  <2>2. CASE mon.pc \in {"raise", "raising"} /\ ~ (mon.level < Top)
    <3>1. NextCheck = At("settle", Top)
      BY <2>2 DEF NextCheck
    <3> QED
      BY <3>1, LevelFacts
  <2>3. CASE mon.pc \notin {"raise", "raising"} /\ mon.level > 1
    <3>1. mon.level - 1 \in Levels /\ NextCheck = At("settle", mon.level - 1)
      BY <1>3, <2>3, LevelFacts DEF NextCheck
    <3> QED
      BY <3>1
  <2>4. CASE mon.pc \notin {"raise", "raising"} /\ ~ (mon.level > 1)
    BY <2>4 DEF NextCheck
  <2> QED
    BY <2>1, <2>2, <2>3, <2>4
<1> HIDE DEF At
<1> QED
  BY <1>2, <1>4, PollingFacts

LEMMA RecordFacts ==
  ASSUME TypeOK, NEW v \in Temps, Record(v)
  PROVE  /\ above' \in [Levels -> 0 .. 4] /\ below' \in [Levels -> 0 .. 4]
         /\ \A l \in Levels : Reaches(v, l) =>
              above'[l] >= 1 /\ above'[l] >= (IF above[l] < 4 THEN above[l] + 1 ELSE 4)
         /\ \A l \in Levels : Leaves(v, l) =>
              below'[l] >= 1 /\ below'[l] >= (IF below[l] < 4 THEN below[l] + 1 ELSE 4)
<1>1. \A n \in 0 .. 4 : UpTo4(n) \in 1 .. 4 /\ UpTo4(n) = IF n < 4 THEN n + 1 ELSE 4
  BY DEF UpTo4
<1>2. above \in [Levels -> 0 .. 4] /\ below \in [Levels -> 0 .. 4]
  BY DEF TypeOK
<1>3. /\ above' = [l \in Levels |-> IF Reaches(v, l) THEN UpTo4(above[l]) ELSE 0]
      /\ below' = [l \in Levels |-> IF Leaves(v, l) THEN UpTo4(below[l]) ELSE 0]
  BY DEF Record
<1> HIDE DEF UpTo4
<1> QED
  BY <1>1, <1>2, <1>3

LEMMA InitInv == Init => Inv
<1> SUFFICES ASSUME Init PROVE Inv
  OBVIOUS
<1>1. TypeOK
  <2>1. above \in [Levels -> 0 .. 4] /\ below \in [Levels -> 0 .. 4]
    BY DEF Init
  <2>2. health \in Healths /\ mon \in Monitors
    BY PollingFacts DEF Init, Healths
  <2> QED
    BY <2>1, <2>2 DEF Init, TypeOK
<1>2. NestedTwice
  BY PollingFacts DEF Init, NestedTwice, NestedIn
<1>3. Counted
  BY PollingFacts DEF Init, Counted
<1>4. Reasoned
  BY DEF Init, Reasoned
<1> QED
  BY <1>1, <1>2, <1>3, <1>4 DEF Inv

-----------------------------------------------------------------------------
(* The monitor thread.                                                     *)

(* A check that ends leaves the next one with what Counted asks.           *)
LEMMA EndKeeps ==
  ASSUME Inv, mon.pc # "poll", mon' = NextCheck, UNCHANGED history
  PROVE  mon' \in Monitors /\ mon'.old = {} /\ NestedIn(mon'.old) /\ Counted'
<1>1. mon \in Monitors
  BY DEF Inv, TypeOK
<1>2. /\ mon' \in Monitors /\ mon'.old = {} /\ mon'.retry = 0
      /\ \/ mon'.pc = "poll"
         \/ mon'.pc \in {"raise", "settle"} /\ mon'.curr_val = mon.curr_val
  BY <1>1, NextCheckFacts
<1>3. NestedIn(mon'.old)
  BY <1>2 DEF NestedIn
<1>4. above' = above /\ below' = below
  BY DEF history
<1>5. Counted'
  <2>1. CASE mon'.pc = "poll"
    BY <1>2, <2>1 DEF Counted
  <2>2. CASE mon'.pc \in {"raise", "settle"} /\ mon'.curr_val = mon.curr_val
    <3>1. \A l \in Levels : /\ Reaches(mon'.curr_val, l) => above'[l] >= 1
                            /\ Leaves(mon'.curr_val, l) => below'[l] >= 1
      BY <1>4, <2>2 DEF Inv, Counted
    <3>2. mon'.level \in Levels
      BY <1>2 DEF Monitors
    <3>3. /\ Beyond' /\ mon'.pc = "raise" => above'[mon'.level] >= mon'.retry + 1
          /\ Beyond' /\ mon'.pc = "settle" => below'[mon'.level] >= mon'.retry + 1
      BY <1>2, <2>2, <3>1, <3>2 DEF Beyond, Reaches, Leaves
    <3>4. mon'.pc # "raising" /\ mon'.pc # "settling"
      BY <2>2
    <3> QED
      BY <2>2, <3>1, <3>3, <3>4 DEF Counted, Reaches, Leaves
  <2> QED
    BY <1>2, <2>1, <2>2
<1> QED
  BY <1>2, <1>3, <1>5

LEMMA PollKeeps ==
  ASSUME Inv, Poll PROVE Inv'
<1>1. /\ mon.pc = "poll" /\ Record(temp)
      /\ UNCHANGED <<temp, broken, curr_state, health, kv, cleared, failed>>
  BY DEF Poll, world
<1>2. TypeOK /\ temp \in Temps /\ mon \in Monitors /\ mon.retry = 0
  BY <1>1 DEF Inv, TypeOK, Counted
<1>3. /\ mon' \in Monitors /\ mon'.pc = "raise" /\ mon'.curr_val = temp
      /\ mon'.retry = mon.retry /\ mon'.level = mon.level /\ mon'.old = mon.old
  BY <1>2 DEF Poll, Monitors
<1>4. /\ above' \in [Levels -> 0 .. 4] /\ below' \in [Levels -> 0 .. 4]
      /\ \A l \in Levels : /\ Reaches(temp, l) => above'[l] >= 1
                           /\ Leaves(temp, l) => below'[l] >= 1
  BY <1>1, <1>2, RecordFacts
<1>5. TypeOK'
  BY <1>1, <1>2, <1>3, <1>4 DEF TypeOK
<1>6. mon'.level \in Levels
  BY <1>3 DEF Monitors
<1>7. Counted'
  BY <1>2, <1>3, <1>4, <1>6 DEF Counted, Beyond, Reaches, Leaves
<1>8. NestedTwice'
  BY <1>1, <1>3 DEF Inv, NestedTwice, NestedIn
<1>9. Reasoned'
  BY <1>1 DEF Inv, Reasoned
<1> QED
  BY <1>5, <1>7, <1>8, <1>9 DEF Inv

LEMMA EndedKeeps ==
  ASSUME Inv, Dismiss \/ RereadFails PROVE Inv'
<1>1. /\ mon.pc # "poll" /\ mon' = NextCheck
      /\ UNCHANGED <<temp, broken, curr_state, health, kv, history, cleared, failed>>
  BY DEF Dismiss, RereadFails, Beyond, world
<1>2. mon' \in Monitors /\ mon'.old = {} /\ NestedIn(mon'.old) /\ Counted'
  BY <1>1, EndKeeps
<1>3. TypeOK'
  BY <1>1, <1>2 DEF Inv, TypeOK, history
<1>4. NestedTwice'
  BY <1>1, <1>2 DEF Inv, NestedTwice, NestedIn
<1>5. Reasoned'
  BY <1>1 DEF Inv, Reasoned
<1> QED
  BY <1>2, <1>3, <1>4, <1>5 DEF Inv

(* One more reading beyond the threshold is counted once more.             *)
LEMMA RereadKeeps ==
  ASSUME Inv, Reread PROVE Inv'
<1>1. /\ Beyond /\ mon.pc \in {"raise", "settle"} /\ Record(temp)
      /\ mon.retry < Retries
      /\ UNCHANGED <<temp, broken, curr_state, health, kv, cleared, failed>>
  BY DEF Reread, Beyond, world
<1>2. TypeOK /\ temp \in Temps /\ mon \in Monitors /\ mon.level \in Levels
      /\ mon.retry \in 0 .. 3
  BY DEF Inv, TypeOK, Monitors, MAX_SENSOR_CHECK_RETRY
<1>3. mon.retry + 1 \in 0 .. MAX_SENSOR_CHECK_RETRY
  BY <1>1, <1>2 DEF Retries, MAX_SENSOR_CHECK_RETRY, MAX_ASSERT_CHECK_RETRY
<1>4. /\ mon' \in Monitors /\ mon'.pc = mon.pc /\ mon'.curr_val = temp
      /\ mon'.retry = mon.retry + 1 /\ mon'.level = mon.level /\ mon'.old = mon.old
  BY <1>2, <1>3 DEF Reread, Monitors
<1>5. /\ above' \in [Levels -> 0 .. 4] /\ below' \in [Levels -> 0 .. 4]
      /\ \A l \in Levels : Reaches(temp, l) =>
           above'[l] >= 1 /\ above'[l] >= (IF above[l] < 4 THEN above[l] + 1 ELSE 4)
      /\ \A l \in Levels : Leaves(temp, l) =>
           below'[l] >= 1 /\ below'[l] >= (IF below[l] < 4 THEN below[l] + 1 ELSE 4)
  BY <1>1, <1>2, RecordFacts
<1>6. TypeOK'
  BY <1>1, <1>2, <1>4, <1>5 DEF TypeOK
<1>7. above[mon.level] \in 0 .. 4 /\ below[mon.level] \in 0 .. 4
      /\ above'[mon.level] \in 0 .. 4 /\ below'[mon.level] \in 0 .. 4
  BY <1>2, <1>5 DEF TypeOK
<1>8. ASSUME mon.pc = "raise" PROVE Counted'
  <2>1. mon.retry = 0 /\ above[mon.level] >= 1
    BY <1>1, <1>2, <1>8 DEF Retries, MAX_ASSERT_CHECK_RETRY, Inv, Counted
  <2>2. Beyond' => above'[mon.level] >= 2
    BY <1>2, <1>4, <1>5, <1>7, <1>8, <2>1 DEF Beyond, Reaches
  <2>3. \A l \in Levels : /\ Reaches(mon'.curr_val, l) => above'[l] >= 1
                          /\ Leaves(mon'.curr_val, l) => below'[l] >= 1
    BY <1>4, <1>5
  <2>4. mon'.pc = "raise" /\ mon'.retry + 1 = 2
    BY <1>4, <1>8, <2>1
  <2> QED
    BY <1>4, <2>2, <2>3, <2>4 DEF Counted, Reaches, Leaves
<1>9. ASSUME mon.pc = "settle" PROVE Counted'
  <2>1. mon.retry < 3 /\ below[mon.level] >= mon.retry + 1
    BY <1>1, <1>2, <1>9 DEF Retries, MAX_SENSOR_CHECK_RETRY, Inv, Counted
  <2>2. Beyond' => below'[mon.level] >= mon.retry + 2
    BY <1>2, <1>4, <1>5, <1>7, <1>9, <2>1 DEF Beyond, Leaves
  <2>3. \A l \in Levels : /\ Reaches(mon'.curr_val, l) => above'[l] >= 1
                          /\ Leaves(mon'.curr_val, l) => below'[l] >= 1
    BY <1>4, <1>5
  <2>4. mon'.pc = "settle" /\ mon'.retry + 1 = mon.retry + 2
    BY <1>2, <1>4, <1>9
  <2> QED
    BY <1>4, <2>2, <2>3, <2>4 DEF Counted, Reaches, Leaves
<1>10. Counted'
  BY <1>1, <1>8, <1>9
<1>11. NestedTwice'
  BY <1>1, <1>4 DEF Inv, NestedTwice, NestedIn
<1>12. Reasoned'
  BY <1>1 DEF Inv, Reasoned
<1> QED
  BY <1>6, <1>10, <1>11, <1>12 DEF Inv

LEMMA LoadKeeps ==
  ASSUME Inv, Load PROVE Inv'
<1>1. /\ Beyond /\ mon.pc \in {"raise", "settle"} /\ mon.retry = Retries
      /\ UNCHANGED <<temp, broken, curr_state, health, kv, above, below, cleared, failed>>
  BY DEF Load, Beyond, world, history
<1>2. mon \in Monitors /\ mon.level \in Levels /\ curr_state \in SUBSET Levels
  BY SensorMonAssumption DEF Inv, TypeOK, Monitors
<1>3. /\ mon' \in Monitors /\ mon'.curr_val = mon.curr_val /\ mon'.level = mon.level
      /\ mon'.old = curr_state
      /\ mon'.pc = IF mon.pc = "raise" THEN "raising" ELSE "settling"
  BY <1>2 DEF Load, Monitors
<1>4. TypeOK'
  BY <1>1, <1>3 DEF Inv, TypeOK
<1>5. /\ mon.pc = "raise" => above[mon.level] >= 2
      /\ mon.pc = "settle" => below[mon.level] >= 4
  BY <1>1 DEF Inv, Counted, Retries, MAX_SENSOR_CHECK_RETRY, MAX_ASSERT_CHECK_RETRY
<1>6. Counted'
  BY <1>1, <1>3, <1>5 DEF Inv, Counted, Beyond, Reaches, Leaves
<1>7. NestedTwice'
  BY <1>1, <1>3 DEF Inv, TypeOK, NestedTwice, NestedIn
<1>8. Reasoned'
  BY <1>1 DEF Inv, Reasoned
<1> QED
  BY <1>4, <1>6, <1>7, <1>8 DEF Inv

(* What is written back is nested if what it started from is.              *)
LEMMA WriteKeeps ==
  ASSUME Inv, Raise \/ Settle PROVE Inv'
<1>1. /\ mon.pc # "poll" /\ mon' = NextCheck
      /\ UNCHANGED <<temp, broken, health, kv, history, cleared, failed>>
      /\ curr_state' \in {mon.old \union Raised(mon.level), mon.old \ Settled(mon.level)}
  BY DEF Raise, Settle, world
<1>2. mon' \in Monitors /\ mon'.old = {} /\ NestedIn(mon'.old) /\ Counted'
  BY <1>1, EndKeeps
<1>3. mon.level \in Levels /\ mon.old \subseteq Flag /\ NestedIn(mon.old)
  BY DEF Inv, TypeOK, Monitors, NestedTwice
<1>4. curr_state' \subseteq Flag
  BY <1>1, <1>3 DEF Raised
<1>5. NestedIn(curr_state')
  <2> SUFFICES ASSUME NEW k \in Flag, NEW l \in Flag, k < l, l \in curr_state'
               PROVE  k \in curr_state'
    BY DEF NestedIn
  <2>1. k \in 1 .. Top /\ l \in 1 .. Top /\ mon.level \in 1 .. Top /\ Top \in Nat
    BY <1>3, SensorMonAssumption DEF Levels
  <2>2. l \in mon.old => k \in mon.old
    BY <1>3 DEF NestedIn
  <2>3. CASE curr_state' = mon.old \union Raised(mon.level)
    BY <2>1, <2>2, <2>3 DEF Raised
  <2>4. CASE curr_state' = mon.old \ Settled(mon.level)
    BY <2>1, <2>2, <2>4 DEF Settled
  <2> QED
    BY <1>1, <2>3, <2>4
<1>6. TypeOK'
  BY <1>1, <1>2, <1>4 DEF Inv, TypeOK, history
<1>7. NestedTwice'
  BY <1>2, <1>5 DEF NestedTwice, NestedIn
<1>8. Reasoned'
  BY <1>1 DEF Inv, Reasoned
<1> QED
  BY <1>2, <1>6, <1>7, <1>8 DEF Inv

LEMMA MonitorKeeps ==
  ASSUME Inv, Monitor PROVE Inv'
  BY PollKeeps, EndedKeeps, RereadKeeps, LoadKeeps, WriteKeeps DEF Monitor

-----------------------------------------------------------------------------
(* The health thread, the sensor and log-util.                             *)

LEMMA HealthKeeps ==
  ASSUME Inv, Health PROVE Inv'
<1>1. /\ UNCHANGED <<temp, broken, mon, above, below>>
      /\ curr_state' = curr_state \/ curr_state' = {}
  BY DEF Health, GetHealth, Scan, Wipe, SetHealth, SetFails, world, history
<1>2. health \in Healths /\ kv \in BOOLEAN /\ cleared \in BOOLEAN /\ failed \in {"no", "last", "before"}
  BY DEF Inv, TypeOK
<1>3. health' \in Healths /\ kv' \in BOOLEAN /\ cleared' \in BOOLEAN /\ failed' \in {"no", "last", "before"}
      /\ Reasoned'
  <2>1. CASE GetHealth
    BY <1>2, <2>1 DEF GetHealth, Healths, Inv, Reasoned
  <2>2. CASE Scan
    <3>1. (curr_state = {}) \in BOOLEAN
      OBVIOUS
    <3>2. CASE health.kv_state = TRUE /\ health.last = FALSE
      BY <1>2, <2>2, <3>1, <3>2 DEF Scan, Healths, Inv, Reasoned
    <3>3. CASE ~ (health.kv_state = TRUE /\ health.last = FALSE)
      <4>1. health' = [health EXCEPT !.pc = "set", !.kv_state = TRUE,
                                     !.value = curr_state = {}]
        BY <1>2, <2>2, <3>3 DEF Scan, Healths
      <4> QED
        BY <1>2, <2>2, <3>1, <4>1 DEF Scan, Healths, Inv, Reasoned
    <3> QED
      BY <3>2, <3>3
  <2>3. CASE Wipe
    BY <1>2, <2>3 DEF Wipe, Healths, Inv, Reasoned
  <2>4. CASE SetHealth
    BY <1>2, <2>4 DEF SetHealth, Reported, Healths, Inv, Reasoned
  <2>5. CASE SetFails
    BY <1>2, <2>5 DEF SetFails, Healths, Inv, Reasoned
  <2> QED
    BY <2>1, <2>2, <2>3, <2>4, <2>5 DEF Health
<1>4. TypeOK'
  BY <1>1, <1>3 DEF Inv, TypeOK
<1>5. NestedTwice'
  BY <1>1 DEF Inv, NestedTwice, NestedIn
<1>6. Counted'
  BY <1>1 DEF Inv, Counted, Beyond, Reaches, Leaves
<1> QED
  BY <1>3, <1>4, <1>5, <1>6 DEF Inv

LEMMA WorldKeeps ==
  ASSUME Inv, Change \/ Break \/ Clear PROVE Inv'
<1>1. UNCHANGED <<curr_state, mon, health, above, below, failed>>
  BY DEF Change, Break, Clear, history
<1>2. temp' \in Temps /\ broken' \in BOOLEAN /\ kv' \in BOOLEAN /\ cleared' \in BOOLEAN
  <2>1. cleared \in BOOLEAN /\ (cleared \/ (health.pc = "get" /\ ~ kv /\ ~ health.last)) \in BOOLEAN
    BY Zenon DEF Inv, TypeOK
  <2> QED
    BY <2>1 DEF Change, Break, Clear, Inv, TypeOK, world
<1>3. TypeOK'
  BY <1>1, <1>2 DEF Inv, TypeOK
<1>4. NestedTwice' /\ Counted'
  BY <1>1 DEF Inv, NestedTwice, NestedIn, Counted, Beyond, Reaches, Leaves
<1>5. Reasoned'
  BY <1>1 DEF Change, Break, Clear, Inv, Reasoned, TypeOK, Healths, world
<1> QED
  BY <1>3, <1>4, <1>5 DEF Inv

LEMMA InvNext == Inv /\ [Next]_vars => Inv'
<1> SUFFICES ASSUME Inv, [Next]_vars PROVE Inv'
  OBVIOUS
<1>1. CASE UNCHANGED vars
  <2>1. UNCHANGED <<temp, broken, curr_state, mon, health, kv, above, below, cleared, failed>>
    BY <1>1 DEF vars
  <2> QED
    BY <2>1 DEF Inv, TypeOK, NestedTwice, NestedIn, Counted, Reasoned, Beyond, Reaches, Leaves
<1> QED
  BY <1>1, MonitorKeeps, HealthKeeps, WorldKeeps DEF Next

THEOREM Inductive == Spec => []Inv
  BY InitInv, InvNext, PTL DEF Spec

-----------------------------------------------------------------------------

(* Every variable keeps its type, whatever happens to the sensor and to    *)
(* the store.                                                              *)
THEOREM Typing == Spec => []TypeOK
<1>1. Inv => TypeOK
  BY DEF Inv
<1> QED
  BY <1>1, Inductive, PTL

(* sensord never has a threshold raised without those under it, although   *)
(* its threads overwrite each other's changes of curr_state.               *)
THEOREM Nesting == Spec => []Nested
<1>1. Inv => Nested
  BY DEF Inv, NestedTwice, NestedIn, Nested
<1> QED
  BY <1>1, Inductive, PTL

(* check_thresh_assert and check_thresh_deassert count their readings      *)
(* right, also after a check that ended half-way.                          *)
THEOREM Debouncing == Spec => Debounced
<1>1. Inv => /\ Raise => above[mon.level] >= 2
             /\ Settle => below[mon.level] >= 4
  BY DEF Inv, Counted, Raise, Settle
<1>2. Inv /\ [Next]_vars =>
        [/\ Raise => above[mon.level] >= 2
         /\ Settle => below[mon.level] >= 4]_vars
  BY <1>1
<1> QED
  BY <1>2, Inductive, PTL DEF Spec, Debounced

(* snr_health_monitor wipes thresholds only when log-util asked for it or  *)
(* its own last store failed.                                              *)
THEOREM Wiping == Spec => WipedOnRequest
<1>1. Inv /\ [Next]_vars => [Wipe => cleared \/ failed = "last"]_vars
  BY DEF Inv, Reasoned, Wipe
<1> QED
  BY <1>1, Inductive, PTL DEF Spec, WipedOnRequest
=============================================================================
