------------------------------ MODULE KvProofs ------------------------------
(***************************************************************************)
(* Theorems about one key of the store, for any number of processes and    *)
(* values, with and without KV_FPERSIST, and however calls overlap; the    *)
(* last is that Kv implements KvRegister.                                  *)
(***************************************************************************)
EXTENDS Kv, TLAPS

(* flock does what it is for: who is past it holds it, and nobody else.    *)
LockHeld ==
  \A p \in Procs : flock = p <=> pc[p] \in {"locked", "write", "unlock"}

(* What a call knows and how far it got.                                   *)
CallInv ==
  \A p \in Procs :
    /\ call[p].op = "get" => call[p].present /\ pc[p] \notin {"truncopen", "write"}
    /\ call[p].op # "get" => call[p].val \in Values
    /\ ~ call[p].present => pc[p] \in {"lock", "locked", "write", "unlock"}
    /\ call[p].existed /\ pc[p] # "idle" => pc[p] = "access" /\ file # NoFile

Inv == TypeOK /\ LockHeld /\ CallInv /\ EmptyHasWriter /\ SetIsStored

LEMMA InitInv == Init => Inv
  BY KvAssumption
     DEF Init, Inv, TypeOK, LockHeld, CallInv, EmptyHasWriter, SetIsStored, NoCall, Calls,
         Contents

LEMMA TypeStep ==
  ASSUME TypeOK, Next PROVE TypeOK'
<1> USE DEF TypeOK, Goto, Return
<1>0. NoCall \in Calls
  BY DEF NoCall, Calls, Contents
<1>1. ASSUME NEW p \in Procs, NEW o \in {"get", "set", "create"}, NEW v \in Contents,
             Call(p, o, v)
      PROVE  TypeOK'
  BY <1>1 DEF Call, Calls
<1>2. ASSUME NEW p \in Procs, Opening(p) PROVE TypeOK'
  <2>1. CASE Access(p)
    BY <1>0, <2>1 DEF Access
  <2>2. CASE Open(p)
    BY <1>0, <2>2 DEF Open
  <2>3. CASE OpenTruncating(p)
    BY <2>3 DEF OpenTruncating, Calls, Contents
  <2> QED
    BY <1>2, <2>1, <2>2, <2>3 DEF Opening
<1>3. ASSUME NEW p \in Procs, Lock(p) PROVE TypeOK'
  BY <1>3 DEF Lock
<1>4. ASSUME NEW p \in Procs, Holding(p) PROVE TypeOK'
  <2>1. CASE KeepSame(p)
    BY <2>1 DEF KeepSame
  <2>2. CASE Truncate(p)
    BY <2>2 DEF Truncate, Contents
  <2>3. CASE Write(p)
    BY <2>3 DEF Write, Calls
  <2>4. CASE WriteFails(p)
    BY <2>4 DEF WriteFails
  <2>5. CASE Read(p)
    BY <2>5 DEF Read, Calls
  <2>6. CASE Unlock(p)
    BY <1>0, <2>6 DEF Unlock
  <2> QED
    BY <1>4, <2>1, <2>2, <2>3, <2>4, <2>5, <2>6 DEF Holding
<1>5. ASSUME NEW p \in Procs, Die(p) PROVE TypeOK'
  BY <1>0, <1>5 DEF Die
<1> QED
  BY <1>1, <1>2, <1>3, <1>4, <1>5 DEF Next, Step, Procs, Contents

LEMMA LockStep ==
  ASSUME Inv, Next PROVE LockHeld' /\ CallInv'
<1> USE KvAssumption DEF Inv, TypeOK, LockHeld, CallInv, Goto, Return, NoCall, Calls
<1>1. ASSUME NEW p \in Procs, NEW o \in {"get", "set", "create"}, NEW v \in Contents,
             o = "get" \/ v \in Values, Call(p, o, v)
      PROVE  LockHeld' /\ CallInv'
  <2>1. /\ pc[p] = "idle" /\ flock' = flock /\ file' = file
        /\ pc' = [pc EXCEPT ![p] = IF o = "create" THEN "access" ELSE "open"]
        /\ call' = [call EXCEPT ![p] = [op |-> o, val |-> v, present |-> TRUE,
                                        existed |-> o = "create" /\ file # NoFile]]
    BY <1>1 DEF Call
  <2>2. LockHeld'
    BY <2>1
  <2>3. ASSUME NEW q \in Procs
        PROVE  /\ call'[q].op = "get" => call'[q].present /\ pc'[q] \notin {"truncopen", "write"}
               /\ call'[q].op # "get" => call'[q].val \in Values
               /\ ~ call'[q].present => pc'[q] \in {"lock", "locked", "write", "unlock"}
               /\ call'[q].existed /\ pc'[q] # "idle" => pc'[q] = "access" /\ file' # NoFile
    <3>1. CASE q # p
      BY <2>1, <3>1
    <3>2. CASE q = p
      BY <1>1, <2>1, <3>2
    <3> QED
      BY <3>1, <3>2
  <2> QED
    BY <2>2, <2>3
<1>2. ASSUME NEW p \in Procs, Opening(p) PROVE LockHeld' /\ CallInv'
  <2>1. CASE Access(p)
    BY <2>1 DEF Access
  <2>2. CASE Open(p)
    BY <2>2 DEF Open
  <2>3. CASE OpenTruncating(p)
    BY <2>3 DEF OpenTruncating
  <2> QED
    BY <1>2, <2>1, <2>2, <2>3 DEF Opening
<1>3. ASSUME NEW p \in Procs, Lock(p) PROVE LockHeld' /\ CallInv'
  BY <1>3 DEF Lock
<1>4. ASSUME NEW p \in Procs, Holding(p) PROVE LockHeld' /\ CallInv'
  BY <1>4 DEF Holding, KeepSame, Truncate, Write, WriteFails, Read, Unlock, Contents
<1>5. ASSUME NEW p \in Procs, Die(p) PROVE LockHeld' /\ CallInv'
  BY <1>5 DEF Die
<1> QED
  BY <1>1, <1>2, <1>3, <1>4, <1>5 DEF Next, Step, Procs, Contents

(* Only a write, a failure or a death takes a process out of Emptiers.     *)
LEMMA EmptiersStep ==
  ASSUME Inv, Next, mishaps' = {}
  PROVE  /\ mishaps = {}
         /\ \/ Emptiers \subseteq Emptiers' /\ file' \in {file, Empty}
            \/ \E p \in Procs : Write(p)
<1> USE DEF Emptiers
<1>1. ASSUME NEW p \in Procs, NEW o \in {"get", "set", "create"}, NEW v, Call(p, o, v)
      PROVE  mishaps = {} /\ Emptiers \subseteq Emptiers' /\ file' \in {file, Empty}
  BY <1>1 DEF Call, Goto, Inv, TypeOK, Calls
<1>2. ASSUME NEW p \in Procs, Opening(p) \/ Lock(p)
      PROVE  mishaps = {} /\ Emptiers \subseteq Emptiers' /\ file' \in {file, Empty}
  BY <1>2 DEF Opening, Access, Open, OpenTruncating, Lock, Goto, Return, Inv, TypeOK,
     Calls
<1>3. ASSUME NEW p \in Procs, Holding(p) \/ Die(p), ~ Write(p)
      PROVE  mishaps = {} /\ Emptiers \subseteq Emptiers' /\ file' \in {file, Empty}
  BY <1>3 DEF Holding, KeepSame, Same, Truncate, WriteFails, Read, Unlock, Die, Goto,
     Return, Inv, TypeOK, CallInv, Calls
<1>4. ASSUME NEW p \in Procs, Write(p) PROVE mishaps = {}
  BY <1>4 DEF Write
<1> QED
  BY <1>1, <1>2, <1>3, <1>4 DEF Next, Step, Procs

LEMMA EmptyStep == ASSUME Inv, Next PROVE EmptyHasWriter'
<1> SUFFICES ASSUME file' = Empty, mishaps' = {} PROVE Emptiers' # {}
  BY DEF EmptyHasWriter
<1>1. ~ \E p \in Procs : Write(p)
  BY KvAssumption DEF Write, Goto, Inv, TypeOK, CallInv, Calls
<1>2. mishaps = {} /\ Emptiers \subseteq Emptiers'
  BY <1>1, EmptiersStep
<1>3. CASE file = Empty
  BY <1>2, <1>3 DEF Inv, EmptyHasWriter
<1>4. CASE file # Empty
  <2>1. PICK p \in Procs : Truncate(p) \/ OpenTruncating(p)
    BY <1>1, <1>4 DEF Next, Step, Opening, Holding, Call, Access, Open, Lock, KeepSame,
       WriteFails, Read, Unlock, Die
  <2>2. p \in Emptiers'
    BY <2>1 DEF Truncate, OpenTruncating, Goto, Emptiers, Inv, TypeOK, Calls
  <2> QED
    BY <2>2
<1> QED
  BY <1>3, <1>4

LEMMA StoredStep == ASSUME Inv, Next PROVE SetIsStored'
<1> SUFFICES ASSUME NEW p \in Procs, pc'[p] = "unlock", call'[p].op # "get", mishaps' = {}
             PROVE  \/ file' = call'[p].val
                    \/ file' = Empty /\ \E q \in Emptiers' : q # p
  BY DEF SetIsStored
<1>1. CASE pc[p] # "unlock"
  <2>1. KeepSame(p) \/ Write(p)
    <3> USE <1>1 DEF Goto, Return, Inv, TypeOK
    <3>1. ASSUME NEW q \in Procs, NEW o, NEW v, Call(q, o, v) PROVE FALSE
      BY <3>1 DEF Call
    <3>2. ASSUME NEW q \in Procs, Opening(q) \/ Lock(q) PROVE FALSE
      BY <3>2 DEF Opening, Access, Open, OpenTruncating, Lock
    <3>3. ASSUME NEW q \in Procs, Holding(q) \/ Die(q) PROVE KeepSame(p) \/ Write(p)
      <4>1. ~ WriteFails(q) /\ ~ Die(q)
        BY DEF WriteFails, Die
      <4>2. ~ Unlock(q) /\ ~ Truncate(q)
        BY DEF Unlock, Truncate
      <4>3. ~ Read(q)
        BY DEF Read, Calls
      <4>4. CASE KeepSame(q) \/ Write(q)
        BY <4>4 DEF KeepSame, Write
      <4> QED
        BY <3>3, <4>1, <4>2, <4>3, <4>4 DEF Holding
    <3> QED
      BY <3>1, <3>2, <3>3 DEF Next, Step, Procs
  <2> QED
    BY <2>1 DEF KeepSame, Same, Write, Goto, Inv, TypeOK, Calls
<1>2. CASE pc[p] = "unlock"
  <2>1. flock = p /\ flock # NoProc
    BY <1>2, KvAssumption DEF Inv, LockHeld
  <2>2. \A q \in Procs : q # p => pc[q] \notin {"locked", "write", "unlock"}
    BY <2>1 DEF Inv, LockHeld
  <2>3. mishaps = {} /\ Emptiers \subseteq Emptiers'
    BY <1>2, <2>2, EmptiersStep DEF Write, Goto
  <2>4. call'[p] = call[p]
    BY <1>2 DEF Next, Step, Opening, Holding, Call, Access, Open, OpenTruncating, Lock,
       KeepSame, Truncate, Write, WriteFails, Read, Unlock, Die, Goto, Return, Inv, TypeOK,
       Procs
  <2>5. CASE \E q \in Procs : OpenTruncating(q)
    <3>1. PICK q \in Procs : OpenTruncating(q)
      BY <2>5
    <3>2. q # p /\ q \in Emptiers' /\ file' = Empty
      BY <1>2, <3>1 DEF OpenTruncating, Goto, Emptiers, Inv, TypeOK, Calls
    <3> QED
      BY <3>2
  <2>6. CASE ~ \E q \in Procs : OpenTruncating(q)
    <3>1. file' = file
      BY <1>2, <2>2, <2>6 DEF Next, Step, Opening, Holding, Call, Access, Open, Lock,
         KeepSame, Truncate, Write, WriteFails, Read, Unlock, Die, Goto
    <3> QED
      BY <1>2, <2>3, <2>4, <3>1 DEF Inv, SetIsStored
  <2> QED
    BY <2>5, <2>6
<1> QED
  BY <1>1, <1>2

LEMMA NextInv == Inv /\ [Next]_vars => Inv'
<1>1. ASSUME Inv, Next PROVE Inv'
  BY <1>1, TypeStep, LockStep, EmptyStep, StoredStep DEF Inv
<1>2. ASSUME Inv, UNCHANGED vars PROVE Inv'
  BY <1>2 DEF vars, Inv, TypeOK, LockHeld, CallInv, EmptyHasWriter, SetIsStored, Emptiers
<1> QED
  BY <1>1, <1>2

THEOREM Invariant == Spec => []Inv
  BY InitInv, NextInv, PTL DEF Spec

(* Every variable keeps its type.                                          *)
THEOREM Typing == Spec => []TypeOK
<1>1. Inv => TypeOK
  BY DEF Inv
<1> QED
  BY <1>1, Invariant, PTL

(* Without deaths and failed writes an empty key is always being written,  *)
(* by however many processes it was found missing.                         *)
THEOREM EmptyIsTransient == Spec => []EmptyHasWriter
<1>1. Inv => EmptyHasWriter
  BY DEF Inv
<1> QED
  BY <1>1, Invariant, PTL

(* A set that returns 0 has stored its value, unless a creation of the key *)
(* that overlaps it empties the file.                                      *)
THEOREM SetsStored == Spec => []SetIsStored
<1>1. Inv => SetIsStored
  BY DEF Inv
<1> QED
  BY <1>1, Invariant, PTL

(* flock hides the time between ftruncate and the write from readers.      *)
THEOREM WholeReads == Spec => ReadsWholeValues
<1>1. ASSUME Inv, [Next]_vars, NEW p \in Procs, Read(p), file = Empty, mishaps = {}
      PROVE  \E q \in Procs : pc[q] = "lock" /\ ~ call[q].present
  <2>1. PICK q \in Emptiers : TRUE
    BY <1>1 DEF Inv, EmptyHasWriter
  <2>2. flock = p /\ p # NoProc /\ call[p].present /\ pc[p] = "locked"
    BY <1>1, KvAssumption DEF Inv, LockHeld, CallInv, Read, Goto
  <2>3. pc[q] \in {"write", "locked"} => q = p
    BY <1>1, <2>2 DEF Inv, LockHeld, Emptiers
  <2> QED
    BY <2>1, <2>2, <2>3 DEF Emptiers
<1>2. Inv /\ [Next]_vars =>
        [\A p \in Procs :
           Read(p) /\ file = Empty
             => \/ mishaps # {}
                \/ \E q \in Procs : pc[q] = "lock" /\ ~ call[q].present]_vars
  BY <1>1
<1> QED
  BY <1>2, Invariant, PTL DEF Spec, ReadsWholeValues

(* KV_FCREATE never overwrites a key that existed when it was called.      *)
THEOREM CreationKeeps == Spec => CreateKeepsOlder
<1>1. Inv /\ [Next]_vars =>
        [\A p \in Procs :
           (Truncate(p) \/ OpenTruncating(p)) /\ call[p].op = "create"
             => ~ call[p].existed]_vars
  BY DEF Inv, CallInv, Truncate, OpenTruncating, Goto
<1> QED
  BY <1>1, Invariant, PTL DEF Spec, CreateKeepsOlder

-----------------------------------------------------------------------------
(* The key is a register (KvRegister).                                     *)

(* What the file is while it is open.                                      *)
FileInv ==
  \A p \in Procs :
    /\ pc[p] = "write" => file = Empty
    /\ pc[p] \in {"lock", "locked", "write", "unlock"} => file # NoFile
    /\ call[p].op # "get" => p \in Setters

LEMMA InitFile == Init => FileInv
  BY DEF Init, FileInv, NoCall

LEMMA FileStep ==
  ASSUME Inv, FileInv, Next PROVE FileInv'
<1> USE KvAssumption DEF Inv, TypeOK, FileInv, Goto, Return, NoCall
<1>1. ASSUME NEW p \in Procs, NEW o \in {"get", "set", "create"}, NEW v \in Contents,
             o # "get" => p \in Setters, Call(p, o, v)
      PROVE  FileInv'
  BY <1>1 DEF Call, Calls
<1>2. ASSUME NEW p \in Procs, Opening(p) \/ Lock(p) PROVE FileInv'
  BY <1>2 DEF Opening, Access, Open, OpenTruncating, Lock, Calls
<1>3. ASSUME NEW p \in Procs, Holding(p) PROVE FileInv'
  <2>1. \A q \in Procs : q # p => pc[q] \notin {"locked", "write", "unlock"}
    BY <1>3 DEF Holding, KeepSame, Truncate, Write, WriteFails, Read, Unlock, LockHeld
  <2>2. CASE Truncate(p) \/ Write(p)
    BY <2>1, <2>2 DEF Truncate, Write, CallInv
  <2>3. CASE KeepSame(p) \/ WriteFails(p) \/ Read(p) \/ Unlock(p)
    BY <2>3 DEF KeepSame, WriteFails, Read, Unlock, Calls
  <2> QED
    BY <1>3, <2>2, <2>3 DEF Holding
<1>4. ASSUME NEW p \in Procs, Die(p) PROVE FileInv'
  BY <1>4 DEF Die, Calls
<1> QED
  BY <1>1, <1>2, <1>3, <1>4 DEF Next, Step, Procs, Contents

(* What the register sees of the processes.                                *)
Phases == [p \in Procs |-> Phase(p)]
OpsOf == [p \in Procs |-> [op |-> call[p].op, val |-> call[p].val]]

(* A step of one process changes its phase and its call alone.             *)
LEMMA StepOfOne ==
  ASSUME TypeOK, NEW p \in Procs, NEW l, NEW c,
         pc' = [pc EXCEPT ![p] = l], call' = [call EXCEPT ![p] = c]
  PROVE  /\ Phases' = [Phases EXCEPT ![p] = Phase(p)']
         /\ OpsOf' = [OpsOf EXCEPT ![p] = [op |-> c.op, val |-> c.val]]
         /\ pc'[p] = l /\ call'[p] = c
<1>1. /\ pc'[p] = l /\ call'[p] = c
      /\ \A q \in Procs : q # p => pc'[q] = pc[q] /\ call'[q] = call[q]
  BY DEF TypeOK
<1>2. \A q \in Procs : q # p => Phase(q)' = Phase(q)
  BY <1>1 DEF Phase
<1>3. Phases' = [Phases EXCEPT ![p] = Phase(p)']
  BY <1>2 DEF Phases
<1>4. OpsOf' = [OpsOf EXCEPT ![p] = [op |-> c.op, val |-> c.val]]
  BY <1>1 DEF OpsOf
<1> QED
  BY <1>1, <1>3, <1>4

(* The key is what its file holds, unless one that is not p writes it.     *)
LEMMA ValueIs ==
  ASSUME Inv, NEW p \in Procs
  PROVE  /\ pc[p] \in {"locked", "unlock"} => flock = p /\ Value = file
         /\ pc[p] = "write" => flock = p /\ Value = call[p].val
         /\ flock = NoProc => Value = file
         /\ flock \in Procs => pc[flock] \in {"locked", "write", "unlock"}
  BY KvAssumption DEF Inv, LockHeld, Value

(* There is a key when there is a file.                                    *)
LEMMA ValueIsThere ==
  ASSUME Inv, FileInv PROVE Value = NoFile <=> file = NoFile
  BY KvAssumption DEF Inv, TypeOK, LockHeld, CallInv, FileInv, Value

(* A step of a process that does not write leaves the key as it is, if the *)
(* file is as it was.                                                      *)
LEMMA ValueKept ==
  ASSUME Inv, NEW p \in Procs, NEW l, NEW c,
         pc[p] # "write", l # "write",
         pc' = [pc EXCEPT ![p] = l], call' = [call EXCEPT ![p] = c],
         file' = file, flock' \in {flock, NoProc, p}, flock' # flock => flock \in {p, NoProc}
  PROVE  Value' = Value
  BY KvAssumption DEF Inv, TypeOK, Value

LEMMA InitRegister == Init => Register!RegisterInit
  BY DEF Init, NoCall, Register!RegisterInit, Register!Processes, Register!NoOp, Value, Phase,
     Procs

LEMMA CallInvokes ==
  ASSUME Inv, NEW p \in Procs, NEW o \in {"get", "set", "create"}, NEW v, Call(p, o, v)
  PROVE  Register!Invoke(p, o, v)
<1> DEFINE l == IF o = "create" THEN "access" ELSE "open"
           c == [op |-> o, val |-> v, present |-> TRUE,
                 existed |-> o = "create" /\ file # NoFile]
<1>1. /\ pc[p] = "idle" /\ pc' = [pc EXCEPT ![p] = l] /\ call' = [call EXCEPT ![p] = c]
      /\ file' = file /\ flock' = flock /\ l # "write"
  BY DEF Call, Goto
<1>2. TypeOK /\ c.op = o /\ c.val = v
  BY DEF Inv
<1> HIDE DEF c
<1>3. /\ Phases' = [Phases EXCEPT ![p] = Phase(p)']
      /\ OpsOf' = [OpsOf EXCEPT ![p] = [op |-> c.op, val |-> c.val]]
      /\ pc'[p] = l
  BY <1>1, <1>2, StepOfOne
<1>4. Phase(p) = "idle" /\ Phase(p)' = IF o = "create" THEN "looking" ELSE "going"
  BY <1>1, <1>3 DEF Phase
<1>5. Value' = Value
  BY <1>1, ValueKept
<1> QED
  BY <1>2, <1>3, <1>4, <1>5 DEF Register!Invoke, Register!To, Phases, OpsOf

LEMMA OpeningIsRegister ==
  ASSUME Inv, FileInv, NEW p \in Procs, Opening(p)
  PROVE  \/ Register!Look(p) \/ Register!Refuse(p) \/ Register!Miss(p) \/ Register!Make(p)
         \/ UNCHANGED <<Value, Phases, OpsOf>>
<1>1. TypeOK
  BY DEF Inv
<1>2. Value = NoFile <=> file = NoFile
  BY ValueIsThere
<1>3. CASE Access(p)
  <2>1. CASE file = NoFile
    <3>1. /\ pc[p] = "access" /\ pc' = [pc EXCEPT ![p] = "open"]
          /\ call' = [call EXCEPT ![p] = call[p]] /\ OpsOf' = OpsOf
          /\ file' = file /\ flock' = flock
      BY <1>1, <1>3, <2>1 DEF Access, Goto, OpsOf, TypeOK
    <3>2. Phases' = [Phases EXCEPT ![p] = Phase(p)'] /\ pc'[p] = "open"
      BY <1>1, <3>1, StepOfOne
    <3>3. Phase(p) = "looking" /\ Phase(p)' = "going"
      BY <3>1, <3>2 DEF Phase
    <3>4. Value' = Value
      BY <3>1, ValueKept
    <3>5. Register!Look(p)
      BY <1>2, <2>1, <3>1, <3>2, <3>3, <3>4 DEF Register!Look, Register!To, Phases, OpsOf
    <3> QED
      BY <3>5
  <2>2. CASE file # NoFile
    <3>1. /\ pc[p] = "access" /\ pc' = [pc EXCEPT ![p] = "idle"]
          /\ call' = [call EXCEPT ![p] = NoCall]
          /\ file' = file /\ flock' = flock
      BY <1>3, <2>2 DEF Access, Return, Goto
    <3>2. /\ Phases' = [Phases EXCEPT ![p] = Phase(p)'] /\ pc'[p] = "idle"
          /\ OpsOf' = [OpsOf EXCEPT ![p] = [op |-> NoCall.op, val |-> NoCall.val]]
      BY <1>1, <3>1, StepOfOne
    <3>3. Phase(p) = "looking" /\ Phase(p)' = "idle"
      BY <3>1, <3>2 DEF Phase
    <3>4. Value' = Value
      BY <3>1, ValueKept
    <3>5. Register!Refuse(p)
      BY <1>2, <2>2, <3>2, <3>3, <3>4
         DEF Register!Refuse, Register!End, Register!To, Register!NoOp, NoCall, Phases, OpsOf
    <3> QED
      BY <3>5
  <2> QED
    BY <2>1, <2>2
<1>4. CASE Open(p)
  <2>1. CASE file = NoFile /\ call[p].op = "get"
    <3>1. /\ pc[p] = "open" /\ pc' = [pc EXCEPT ![p] = "idle"]
          /\ call' = [call EXCEPT ![p] = NoCall]
          /\ file' = file /\ flock' = flock
      BY <1>4, <2>1 DEF Open, Return, Goto
    <3>2. /\ Phases' = [Phases EXCEPT ![p] = Phase(p)'] /\ pc'[p] = "idle"
          /\ OpsOf' = [OpsOf EXCEPT ![p] = [op |-> NoCall.op, val |-> NoCall.val]]
      BY <1>1, <3>1, StepOfOne
    <3>3. Phase(p) = "going" /\ Phase(p)' = "idle" /\ OpsOf[p].op = "get"
      BY <2>1, <3>1, <3>2 DEF Phase, OpsOf
    <3>4. Value' = Value
      BY <3>1, ValueKept
    <3>5. Register!Miss(p)
      BY <1>2, <2>1, <3>2, <3>3, <3>4
         DEF Register!Miss, Register!End, Register!To, Register!NoOp, NoCall, Phases, OpsOf
    <3> QED
      BY <3>5
  <2>2. CASE file = NoFile /\ call[p].op # "get"
    <3>1. /\ pc[p] = "open" /\ pc' = [pc EXCEPT ![p] = "truncopen"]
          /\ call' = [call EXCEPT ![p] = call[p]] /\ OpsOf' = OpsOf
          /\ file' = file /\ flock' = flock
      BY <1>1, <1>4, <2>2 DEF Open, Goto, OpsOf, TypeOK
    <3>2. Phases' = [Phases EXCEPT ![p] = Phase(p)'] /\ pc'[p] = "truncopen"
      BY <1>1, <3>1, StepOfOne
    <3>3. Phase(p) = "going" /\ Phase(p)' = "creating" /\ OpsOf[p].op # "get"
      BY <2>2, <3>1, <3>2 DEF Phase, OpsOf
    <3>4. Value' = Value
      BY <3>1, ValueKept
    <3>5. Register!Miss(p)
      BY <1>2, <2>2, <3>1, <3>2, <3>3, <3>4 DEF Register!Miss, Register!To, Phases, OpsOf
    <3> QED
      BY <3>5
  <2>3. CASE file # NoFile
    <3>1. /\ pc[p] = "open" /\ pc' = [pc EXCEPT ![p] = "lock"]
          /\ call' = [call EXCEPT ![p] = call[p]] /\ OpsOf' = OpsOf
          /\ file' = file /\ flock' = flock
      BY <1>1, <1>4, <2>3 DEF Open, Goto, OpsOf, TypeOK
    <3>2. /\ Phases' = [Phases EXCEPT ![p] = Phase(p)'] /\ pc'[p] = "lock"
          /\ call'[p] = call[p]
      BY <1>1, <3>1, StepOfOne
    <3>3. Phase(p) = "going" /\ Phase(p)' = "going"
      BY <3>1, <3>2 DEF Phase, Inv, CallInv
    <3>4. Value' = Value
      BY <3>1, ValueKept
    <3> QED
      BY <3>1, <3>2, <3>3, <3>4 DEF Phases
  <2> QED
    BY <2>1, <2>2, <2>3
<1>5. CASE OpenTruncating(p)
  <2> DEFINE c == [call[p] EXCEPT !.present = FALSE]
  <2>1. /\ pc[p] = "truncopen" /\ pc' = [pc EXCEPT ![p] = "lock"]
        /\ call' = [call EXCEPT ![p] = c]
        /\ file' = Empty /\ flock' = flock
    BY <1>5 DEF OpenTruncating, Goto
  <2>2. c.op = call[p].op /\ c.val = call[p].val /\ c.present = FALSE
    BY <1>1 DEF TypeOK, Calls
  <2> HIDE DEF c
  <2>3. /\ Phases' = [Phases EXCEPT ![p] = Phase(p)'] /\ pc'[p] = "lock"
        /\ OpsOf' = [OpsOf EXCEPT ![p] = [op |-> c.op, val |-> c.val]] /\ call'[p] = c
    BY <1>1, <2>1, StepOfOne
  <2>4. OpsOf' = OpsOf
    BY <2>2, <2>3 DEF OpsOf
  <2>5. Phase(p) = "creating" /\ Phase(p)' = "created"
    BY <2>1, <2>2, <2>3 DEF Phase
  <2>6. \/ Value' = Empty
        \/ /\ Value' = Value
           /\ \E q \in Setters : pc[q] = "write" /\ call[q].val = Value
    <3>1. CASE flock # NoProc /\ pc[flock] = "write"
      <4>1. flock \in Procs /\ flock # p
        BY <1>1, <2>1, <3>1 DEF TypeOK
      <4>2. pc'[flock] = "write" /\ call'[flock] = call[flock]
        BY <1>1, <2>1, <3>1, <4>1 DEF TypeOK
      <4>3. flock \in Setters
        BY <3>1, <4>1 DEF Inv, CallInv, FileInv
      <4> QED
        BY <2>1, <3>1, <4>2, <4>3 DEF Value
    <3>2. CASE ~ (flock # NoProc /\ pc[flock] = "write")
      <4>1. ~ (flock' # NoProc /\ pc'[flock'] = "write")
        BY <1>1, <2>1, <3>2 DEF TypeOK
      <4> QED
        BY <2>1, <4>1 DEF Value
    <3> QED
      BY <3>1, <3>2
  <2>7. \A q \in Setters : pc[q] = "write" => Phases[q] = "done" /\ OpsOf[q].val = call[q].val
    BY DEF Phases, OpsOf, Phase, Procs
  <2>8. Register!Make(p)
    BY <2>3, <2>4, <2>5, <2>6, <2>7 DEF Register!Make, Register!To, Phases, OpsOf
  <2> QED
    BY <2>8
<1> QED
  BY <1>3, <1>4, <1>5 DEF Opening

LEMMA LockStutters ==
  ASSUME Inv, NEW p \in Procs, Lock(p) PROVE UNCHANGED <<Value, Phases, OpsOf>>
<1>1. /\ TypeOK /\ pc[p] = "lock" /\ pc' = [pc EXCEPT ![p] = "locked"]
      /\ call' = [call EXCEPT ![p] = call[p]] /\ OpsOf' = OpsOf
      /\ file' = file /\ flock = NoProc /\ flock' = p
  BY DEF Lock, Goto, OpsOf, Inv, TypeOK
<1>2. /\ Phases' = [Phases EXCEPT ![p] = Phase(p)'] /\ pc'[p] = "locked"
      /\ call'[p] = call[p]
  BY <1>1, StepOfOne
<1>3. Phase(p)' = Phase(p)
  BY <1>1, <1>2 DEF Phase
<1>4. Value' = Value
  BY <1>1, ValueKept
<1> QED
  BY <1>1, <1>2, <1>3, <1>4 DEF Phases

LEMMA HoldingIsRegister ==
  ASSUME Inv, FileInv, NEW p \in Procs, Holding(p)
  PROVE  \/ Register!Put(p) \/ Register!Get(p) \/ Register!Lose(p) \/ Register!Leave(p)
         \/ UNCHANGED <<Value, Phases, OpsOf>>
<1>0. TypeOK
  BY DEF Inv
<1>1. /\ TypeOK /\ call = [call EXCEPT ![p] = call[p]]
      /\ OpsOf[p].op = call[p].op /\ OpsOf[p].val = call[p].val /\ Phases[p] = Phase(p)
      /\ p # NoProc
  BY KvAssumption DEF Inv, TypeOK, OpsOf, Phases
<1>2. /\ pc[p] \in {"locked", "unlock"} => flock = p /\ Value = file
      /\ pc[p] = "write" => flock = p /\ Value = call[p].val
      /\ Value = NoFile <=> file = NoFile
  BY ValueIs, ValueIsThere
<1>3. CASE KeepSame(p)
  <2>1. /\ pc[p] = "locked" /\ pc' = [pc EXCEPT ![p] = "unlock"]
        /\ call' = [call EXCEPT ![p] = call[p]] /\ OpsOf' = OpsOf
        /\ file' = file /\ flock' = flock
    BY <1>1, <1>3 DEF KeepSame, Goto, OpsOf
  <2>2. Phases' = [Phases EXCEPT ![p] = Phase(p)'] /\ pc'[p] = "unlock"
    BY <1>0, <2>1, StepOfOne
  <2>3. Phase(p) \in {"going", "created"} /\ Phase(p)' = "done"
    BY <2>1, <2>2 DEF Phase
  <2>4. Value' = Value /\ Value = OpsOf[p].val /\ Value # NoFile /\ OpsOf[p].op # "get"
    <3>1. Value' = Value
      BY <2>1, ValueKept
    <3> QED
      BY <1>1, <1>2, <1>3, <2>1, <3>1 DEF KeepSame, Same, FileInv
  <2>5. Register!Put(p)
    BY <1>1, <2>1, <2>2, <2>3, <2>4 DEF Register!Put, Register!To, Phases, OpsOf
  <2> QED
    BY <2>5
<1>4. CASE Truncate(p)
  <2>1. /\ pc[p] = "locked" /\ pc' = [pc EXCEPT ![p] = "write"]
        /\ call' = [call EXCEPT ![p] = call[p]] /\ OpsOf' = OpsOf
        /\ file' = Empty /\ flock' = flock
    BY <1>1, <1>4 DEF Truncate, Goto, OpsOf
  <2>2. /\ Phases' = [Phases EXCEPT ![p] = Phase(p)'] /\ pc'[p] = "write"
        /\ call'[p] = call[p]
    BY <1>0, <2>1, StepOfOne
  <2>3. Phase(p) \in {"going", "created"} /\ Phase(p)' = "done"
    BY <2>1, <2>2 DEF Phase
  <2>4. Value' = OpsOf[p].val
    BY <1>1, <1>2, <2>1, <2>2 DEF Value
  <2>5. Value # NoFile /\ OpsOf[p].op # "get"
    BY <1>1, <1>2, <1>4, <2>1 DEF Truncate, FileInv
  <2>6. Register!Put(p)
    BY <1>1, <2>1, <2>2, <2>3, <2>4, <2>5 DEF Register!Put, Register!To, Phases, OpsOf
  <2> QED
    BY <2>6
<1>5. CASE Write(p) \/ WriteFails(p)
  <2>1. /\ pc[p] = "write" /\ pc' = [pc EXCEPT ![p] = "unlock"]
        /\ call' = [call EXCEPT ![p] = call[p]] /\ OpsOf' = OpsOf
        /\ flock' = flock
    BY <1>1, <1>5 DEF Write, WriteFails, Goto, OpsOf
  <2>2. /\ Phases' = [Phases EXCEPT ![p] = Phase(p)'] /\ pc'[p] = "unlock"
        /\ call'[p] = call[p]
    BY <1>0, <2>1, StepOfOne
  <2>3. Phase(p) = "done" /\ Phase(p)' = "done" /\ Phases' = Phases
    <3>1. Phase(p) = "done" /\ Phase(p)' = "done"
      BY <2>1, <2>2 DEF Phase
    <3> QED
      BY <1>1, <2>2, <3>1 DEF Phases
  <2>4. Value = OpsOf[p].val /\ Value' = file' /\ OpsOf[p].op # "get"
    <3>1. Value' = file'
      BY <1>2, <2>1, <2>2 DEF Value
    <3> QED
      BY <1>1, <1>2, <2>1, <3>1 DEF Inv, CallInv
  <2>5. file' = call[p].val \/ file' = Empty
    BY <1>5, <2>1 DEF Write, WriteFails, FileInv
  <2>6. CASE file' = call[p].val
    BY <1>1, <2>1, <2>3, <2>4, <2>6
  <2>7. CASE file' = Empty
    <3>1. Register!Lose(p)
      BY <1>1, <2>1, <2>3, <2>4, <2>7 DEF Register!Lose, Register!Lost, Phases, OpsOf
    <3> QED
      BY <3>1
  <2> QED
    BY <2>5, <2>6, <2>7
<1>6. CASE Read(p)
  <2> DEFINE c == [call[p] EXCEPT !.val = file]
  <2>1. /\ pc[p] = "locked" /\ pc' = [pc EXCEPT ![p] = "unlock"]
        /\ call' = [call EXCEPT ![p] = c]
        /\ file' = file /\ flock' = flock /\ call[p].op = "get"
    BY <1>6 DEF Read, Goto
  <2>2. c.op = call[p].op /\ c.val = file
    BY <1>1 DEF TypeOK, Calls
  <2> HIDE DEF c
  <2>3. /\ Phases' = [Phases EXCEPT ![p] = Phase(p)'] /\ pc'[p] = "unlock"
        /\ OpsOf' = [OpsOf EXCEPT ![p] = [op |-> c.op, val |-> c.val]] /\ call'[p] = c
    BY <1>0, <2>1, StepOfOne
  <2>4. Phase(p) = "going" /\ Phase(p)' = "done"
    BY <2>1, <2>3 DEF Phase, Inv, CallInv
  <2>5. Value' = Value /\ Value = file /\ Value # NoFile
    <3>1. Value' = Value
      BY <2>1, ValueKept
    <3> QED
      BY <1>2, <2>1, <3>1 DEF FileInv
  <2>6. OpsOf' = [OpsOf EXCEPT ![p].val = Value]
    BY <1>1, <2>2, <2>3, <2>5 DEF OpsOf
  <2>7. Register!Get(p)
    BY <1>1, <2>1, <2>3, <2>4, <2>5, <2>6 DEF Register!Get, Register!To, Phases, OpsOf
  <2> QED
    BY <2>7
<1>7. CASE Unlock(p)
  <2>1. /\ pc[p] = "unlock" /\ pc' = [pc EXCEPT ![p] = "idle"]
        /\ call' = [call EXCEPT ![p] = NoCall]
        /\ file' = file /\ flock' = NoProc
    BY <1>7 DEF Unlock, Return, Goto
  <2>2. /\ Phases' = [Phases EXCEPT ![p] = Phase(p)'] /\ pc'[p] = "idle"
        /\ OpsOf' = [OpsOf EXCEPT ![p] = [op |-> NoCall.op, val |-> NoCall.val]]
    BY <1>0, <2>1, StepOfOne
  <2>3. Phase(p) = "done" /\ Phase(p)' = "idle"
    BY <2>1, <2>2 DEF Phase
  <2>4. Value' = Value
    BY <1>2, <2>1 DEF Value
  <2>5. Register!Leave(p)
    BY <1>1, <2>2, <2>3, <2>4
       DEF Register!Leave, Register!End, Register!To, Register!NoOp, NoCall, Phases, OpsOf
  <2> QED
    BY <2>5
<1> QED
  BY <1>3, <1>4, <1>5, <1>6, <1>7 DEF Holding

LEMMA DieLeaves ==
  ASSUME Inv, FileInv, NEW p \in Procs, Die(p) PROVE Register!Leave(p)
<1>1. /\ TypeOK /\ Phases[p] = Phase(p)
      /\ OpsOf[p].op = call[p].op /\ OpsOf[p].val = call[p].val
  BY DEF Inv, OpsOf, Phases
<1>2. /\ pc[p] # "idle" /\ pc' = [pc EXCEPT ![p] = "idle"]
      /\ call' = [call EXCEPT ![p] = NoCall]
      /\ file' = file /\ flock' = IF flock = p THEN NoProc ELSE flock
  BY DEF Die, Return, Goto
<1>3. /\ Phases' = [Phases EXCEPT ![p] = Phase(p)'] /\ pc'[p] = "idle"
      /\ OpsOf' = [OpsOf EXCEPT ![p] = [op |-> NoCall.op, val |-> NoCall.val]]
  BY <1>1, <1>2, StepOfOne
<1>4. Phase(p) # "idle" /\ Phase(p)' = "idle"
  BY <1>1, <1>2, <1>3 DEF Phase, TypeOK
<1>5. \/ Value' = Value
      \/ /\ Phase(p) = "done" /\ call[p].op # "get"
         /\ Value = call[p].val /\ Value' = Empty
  <2>1. CASE pc[p] # "write"
    BY <1>2, <2>1, ValueKept
  <2>2. CASE pc[p] = "write"
    <3>1. flock = p /\ Value = call[p].val /\ call[p].op # "get" /\ file = Empty
      BY <2>2, ValueIs DEF FileInv, Inv, CallInv
    <3>2. Value' = Empty
      BY <1>2, <3>1 DEF Value
    <3> QED
      BY <2>2, <3>1, <3>2 DEF Phase
  <2> QED
    BY <2>1, <2>2
<1> QED
  BY <1>1, <1>3, <1>4, <1>5
     DEF Register!Leave, Register!Lost, Register!End, Register!To, Register!NoOp, NoCall,
         Phases, OpsOf

LEMMA NextIsRegister ==
  ASSUME Inv, FileInv, [Next]_vars PROVE [Register!RegisterNext]_<<Value, Phases, OpsOf>>
<1>1. CASE \E p \in Setters, v \in Values : Call(p, "set", v) \/ Call(p, "create", v)
  BY <1>1, CallInvokes DEF Register!RegisterNext, Procs
<1>2. CASE \E p \in Readers : Call(p, "get", NoFile)
  BY <1>2, CallInvokes DEF Register!RegisterNext, Procs
<1>3. CASE \E p \in Procs : Step(p) \/ Die(p)
  <2>1. PICK p \in Procs : Step(p) \/ Die(p)
    BY <1>3
  <2>2. \/ Register!Look(p) \/ Register!Refuse(p) \/ Register!Miss(p) \/ Register!Make(p)
        \/ Register!Put(p) \/ Register!Get(p) \/ Register!Lose(p) \/ Register!Leave(p)
        \/ UNCHANGED <<Value, Phases, OpsOf>>
    BY <2>1, OpeningIsRegister, LockStutters, HoldingIsRegister, DieLeaves DEF Step
  <2> QED
    BY <2>2 DEF Register!RegisterNext, Register!Processes, Procs
<1>4. CASE UNCHANGED vars
  BY <1>4 DEF vars, Value, Phases, OpsOf, Phase
<1> QED
  BY <1>1, <1>2, <1>3, <1>4 DEF Next

(* A key is a register whose sets and gets take effect at once, each       *)
(* between its call and its return, for any number of processes; what the  *)
(* code adds to one (creations that empty the key, failures that lose a    *)
(* value) is what KvRegister allows and no more.                           *)
THEOREM Linearizes == Spec => IsRegister
<1>1. Spec => [](Inv /\ FileInv)
  <2>1. Inv /\ FileInv /\ [Next]_vars => (Inv /\ FileInv)'
    BY NextInv, FileStep DEF vars, FileInv
  <2> QED
    BY <2>1, InitInv, InitFile, PTL DEF Spec
<1>2. Init => Register!RegisterInit
  BY InitRegister
<1>3. Inv /\ FileInv /\ [Next]_vars => [Register!RegisterNext]_(Register!registerVars)
  BY NextIsRegister DEF Register!registerVars, Phases, OpsOf
<1> QED
  BY <1>1, <1>2, <1>3, PTL DEF Spec, IsRegister, Register!RegisterSpec
=============================================================================
