--------------------------------- MODULE Kv ---------------------------------
(***************************************************************************)
(* One key of the key-value store (libkv: kv.c).  A key is a file; daemons *)
(* and tools set, create and read it from processes of their own, under a  *)
(* flock that is taken only once the file is open.  Opening a file that is *)
(* not there creates it and empties it, and no lock is held then.          *)
(*                                                                         *)
(* One action per system call that looks at or changes the file.  The      *)
(* actions are free to interleave: nothing but flock orders the processes. *)
(***************************************************************************)
EXTENDS FiniteSets

CONSTANTS
  Setters,   \* processes that call kv_set
  Readers,   \* processes that call kv_get
  NoProc,    \* nobody holds the flock
  Values,    \* what is stored, none of them of length 0
  NoFile,    \* the key does not exist
  Empty,     \* the file is there and has no byte
  Persist    \* the callers pass KV_FPERSIST

(* A process keeps nothing from call to call: one that sets and reads is   *)
(* one of each.                                                            *)
Procs == Setters \union Readers

ASSUME KvAssumption ==
  /\ NoProc \notin Procs
  /\ NoFile \notin Values /\ Empty \notin Values /\ NoFile # Empty
  /\ Persist \in BOOLEAN

VARIABLES
  file,      \* what the key's file holds
  flock,     \* who holds the file's lock
  pc,        \* where in kv_set or kv_get a process is
  call,      \* the call it is in
  mishaps    \* history: "death" of a process inside a call, "write" that failed

vars == <<file, flock, pc, call, mishaps>>

Contents == Values \union {NoFile, Empty}

(* A call: kv_get, kv_set or kv_set with KV_FCREATE; the value it sets, or *)
(* the one it read; whether it found the file there; and, as history for   *)
(* CreateKeepsOlder, whether the key to create was there already.          *)
Calls == [op : {"get", "set", "create"}, val : Contents, present : BOOLEAN,
          existed : BOOLEAN]

NoCall == [op |-> "get", val |-> NoFile, present |-> TRUE, existed |-> FALSE]

Init ==
  /\ file = NoFile
  /\ flock = NoProc
  /\ pc = [p \in Procs |-> "idle"]
  /\ call = [p \in Procs |-> NoCall]
  /\ mishaps = {}

Goto(p, from, to) ==
  /\ pc[p] = from
  /\ pc' = [pc EXCEPT ![p] = to]

(* The call ends, and its variables with it.                               *)
Return(p, from) ==
  /\ Goto(p, from, "idle")
  /\ call' = [call EXCEPT ![p] = NoCall]

-----------------------------------------------------------------------------
(* The call, and how it opens the file.                                    *)

Call(p, o, v) ==
  /\ Goto(p, "idle", IF o = "create" THEN "access" ELSE "open")
  /\ call' = [call EXCEPT ![p] =
                [op |-> o, val |-> v, present |-> TRUE, existed |-> o = "create" /\ file # NoFile]]
  /\ UNCHANGED <<file, flock, mishaps>>

(* Mutant: KV_FCREATE sets a key that exists.                              *)
AccessIgnored(p) ==
  /\ Goto(p, "access", "open")
  /\ UNCHANGED <<file, flock, call, mishaps>>

(* KV_FCREATE: a key that exists is not set.                               *)
Access(p) ==
  /\ IF file = NoFile
     THEN Goto(p, "access", "open") /\ UNCHANGED call
     ELSE Return(p, "access")
  /\ UNCHANGED <<file, flock, mishaps>>

(* fopen "r+", or "r": kv_get fails when there is no file.                 *)
Open(p) ==
  /\ IF file = NoFile /\ call[p].op = "get"
     THEN Return(p, "open")
     ELSE /\ Goto(p, "open", IF file = NoFile THEN "truncopen" ELSE "lock")
          /\ UNCHANGED call
  /\ UNCHANGED <<file, flock, mishaps>>

(* fopen "w" creates the file, and empties the one another process may     *)
(* have created and written since.                                         *)
OpenTruncating(p) ==
  /\ Goto(p, "truncopen", "lock")
  /\ file' = Empty
  /\ call' = [call EXCEPT ![p].present = FALSE]
  /\ UNCHANGED <<flock, mishaps>>

-----------------------------------------------------------------------------
(* Under the lock.                                                         *)

(* Mutant: kv_get takes a lock that excludes nobody.                       *)
LockShared(p) ==
  /\ Goto(p, "lock", "locked")
  /\ IF call[p].op = "get" THEN UNCHANGED flock ELSE flock = NoProc /\ flock' = p
  /\ UNCHANGED <<file, call, mishaps>>

Lock(p) ==
  /\ flock = NoProc
  /\ Goto(p, "lock", "locked")
  /\ flock' = p
  /\ UNCHANGED <<file, call, mishaps>>

(* Mutant: only the lengths are compared.                                  *)
SameLength(p) ==
  /\ call[p].present
  /\ Persist \/ call[p].op = "create"
  /\ file \in Values

(* `flags && KV_FPERSIST' is true of every flag: a value that is there     *)
(* already is not written again, unless the call has no flag at all.       *)
Same(p) ==
  /\ call[p].present
  /\ Persist \/ call[p].op = "create"
  /\ file = call[p].val

KeepSame(p) ==
  /\ call[p].op # "get" /\ Same(p)
  /\ Goto(p, "locked", "unlock")
  /\ UNCHANGED <<file, flock, call, mishaps>>

Truncate(p) ==
  /\ call[p].op # "get" /\ ~ Same(p)
  /\ Goto(p, "locked", "write")
  /\ file' = Empty
  /\ UNCHANGED <<flock, call, mishaps>>

(* Mutant: the flush is forgotten and the stream never closed.             *)
WriteUnflushed(p) ==
  /\ Goto(p, "write", "unlock")
  /\ UNCHANGED <<file, flock, call, mishaps>>

Write(p) ==
  /\ Goto(p, "write", "unlock")
  /\ file' = call[p].val
  /\ UNCHANGED <<flock, call, mishaps>>

(* fwrite filled the buffer of the stream; fflush fails, unnoticed.        *)
WriteFails(p) ==
  /\ Goto(p, "write", "unlock")
  /\ mishaps' = mishaps \union {"write"}
  /\ UNCHANGED <<file, flock, call>>

Read(p) ==
  /\ call[p].op = "get"
  /\ Goto(p, "locked", "unlock")
  /\ call' = [call EXCEPT ![p].val = file]
  /\ UNCHANGED <<file, flock, mishaps>>

(* Mutant: the descriptor of a call that had nothing to write is kept      *)
(* open, and locked.                                                       *)
UnlockLeaking(p) ==
  /\ Return(p, "unlock")
  /\ IF call[p].op # "get" /\ Same(p) THEN UNCHANGED flock ELSE flock' = NoProc
  /\ UNCHANGED <<file, mishaps>>

(* The lock is released, the file closed, and 0 returned.                  *)
Unlock(p) ==
  /\ Return(p, "unlock")
  /\ flock' = NoProc
  /\ UNCHANGED <<file, mishaps>>

(* The process dies inside the call, or the BMC is reset; the kernel       *)
(* releases the lock.                                                      *)
Die(p) ==
  /\ pc[p] # "idle"
  /\ Return(p, pc[p])
  /\ flock' = IF flock = p THEN NoProc ELSE flock
  /\ mishaps' = mishaps \union {"death"}
  /\ UNCHANGED file

-----------------------------------------------------------------------------
Opening(p) == Access(p) \/ Open(p) \/ OpenTruncating(p)

Holding(p) ==
  KeepSame(p) \/ Truncate(p) \/ Write(p) \/ WriteFails(p) \/ Read(p) \/ Unlock(p)

Step(p) == Opening(p) \/ Lock(p) \/ Holding(p)

Next ==
  \/ \E p \in Setters, v \in Values : Call(p, "set", v) \/ Call(p, "create", v)
  \/ \E p \in Readers : Call(p, "get", NoFile)
  \/ \E p \in Procs : Step(p) \/ Die(p)

Spec == Init /\ [][Next]_vars

(* Processes run; flock does not starve one that keeps waiting.            *)
Fairness ==
  \A p \in Procs : WF_vars(Opening(p)) /\ SF_vars(Lock(p)) /\ WF_vars(Holding(p))

FairSpec == Spec /\ Fairness

-----------------------------------------------------------------------------
(* Every variable has its type.                                            *)
TypeOK ==
  /\ file \in Contents
  /\ flock \in Procs \union {NoProc}
  /\ pc \in [Procs -> {"idle", "access", "open", "truncopen", "lock", "locked",
                       "write", "unlock"}]
  /\ call \in [Procs -> Calls]
  /\ mishaps \subseteq {"death", "write"}

(* The processes that have just emptied the file and will write it: those  *)
(* that found no file, up to their write, and one past ftruncate.          *)
Emptiers ==
  {p \in Procs :
     \/ pc[p] = "write"
     \/ pc[p] \in {"lock", "locked"} /\ ~ call[p].present}

(* An empty key is being written: as long as no process dies inside a call *)
(* and no write fails, a key that has ever had a value has one again.      *)
EmptyHasWriter == file = Empty => mishaps # {} \/ Emptiers # {}

(* When a set returns 0 its value is in the file, or a process that came   *)
(* to create the key emptied it and is about to write another: nothing     *)
(* else undoes a set before it is over.                                    *)
SetIsStored ==
  \A p \in Procs :
    pc[p] = "unlock" /\ call[p].op # "get" /\ mishaps = {}
      => \/ file = call[p].val
         \/ file = Empty /\ \E q \in Emptiers : q # p

(* A reader never sees the file between a ftruncate and the write after    *)
(* it: what it reads is a value that was set, or nothing because the key   *)
(* is being created at that moment.                                        *)
ReadsWholeValues ==
  [][\A p \in Procs :
       Read(p) /\ file = Empty
         => \/ mishaps # {}
            \/ \E q \in Procs : pc[q] = "lock" /\ ~ call[q].present]_vars

(* The key as a register: a set takes effect at its ftruncate, which       *)
(* nobody sees before the write, so the key has the value that the holder  *)
(* of the lock is about to write.                                          *)
Value == IF flock # NoProc /\ pc[flock] = "write" THEN call[flock].val ELSE file

Phase(p) ==
  CASE pc[p] = "idle" -> "idle"
    [] pc[p] = "access" -> "looking"
    [] pc[p] = "open" -> "going"
    [] pc[p] = "truncopen" -> "creating"
    [] pc[p] \in {"lock", "locked"} -> (IF call[p].present THEN "going" ELSE "created")
    [] pc[p] \in {"write", "unlock"} -> "done"

Register ==
  INSTANCE KvRegister
    WITH value <- Value,
         phase <- [p \in Procs |-> Phase(p)],
         call <- [p \in Procs |-> [op |-> call[p].op, val |-> call[p].val]]

(* However calls overlap, sets and gets take effect at once, each between  *)
(* its call and its return, but for creations and failures (KvRegister).   *)
IsRegister == Register!RegisterSpec

(* kv.h: KV_FCREATE "will set the key:value only if the key does not       *)
(* already exist".  A key that exists when the call begins is left alone;  *)
(* one that comes to exist during the call may be emptied and set again.   *)
CreateKeepsOlder ==
  [][\A p \in Procs :
       (Truncate(p) \/ OpenTruncating(p)) /\ call[p].op = "create"
         => ~ call[p].existed]_vars

(* Every call returns.                                                     *)
CallsReturn == \A p \in Procs : pc[p] # "idle" ~> pc[p] = "idle"
=============================================================================
