----------------------------- MODULE KvRegister -----------------------------
(***************************************************************************)
(* What the store promises of one key: a register whose sets and gets take *)
(* effect at once, each between its call and its return.  Three things are *)
(* left to the code: a set that finds no key empties it before it sets it, *)
(* by then another one's; a creation looks for the key once, some time     *)
(* before it sets it; and a set may lose its value, with the process or    *)
(* without.                                                                *)
(***************************************************************************)
CONSTANTS
  Setters, Readers,  \* processes that set, and that get
  Values,            \* what is set
  NoFile, Empty      \* no key yet; a key without a value

VARIABLES
  value,   \* what the key has
  phase,   \* how far each process is with its call
  call     \* its operation, and the value it sets or got

registerVars == <<value, phase, call>>

Processes == Setters \union Readers
NoOp == [op |-> "get", val |-> NoFile]

RegisterInit ==
  /\ value = NoFile
  /\ phase = [p \in Processes |-> "idle"]
  /\ call = [p \in Processes |-> NoOp]

To(p, from, to) ==
  /\ phase[p] = from
  /\ phase' = [phase EXCEPT ![p] = to]

End(p, from) ==
  /\ To(p, from, "idle")
  /\ call' = [call EXCEPT ![p] = NoOp]

Invoke(p, o, v) ==
  /\ To(p, "idle", IF o = "create" THEN "looking" ELSE "going")
  /\ call' = [call EXCEPT ![p] = [op |-> o, val |-> v]]
  /\ UNCHANGED value

(* A creation is refused if the key is there.                              *)
Look(p) ==
  /\ value = NoFile
  /\ To(p, "looking", "going")
  /\ UNCHANGED <<value, call>>

Refuse(p) ==
  /\ value # NoFile
  /\ End(p, "looking")
  /\ UNCHANGED value

(* A get of a key that is not there fails, a set is going to make it.      *)
Miss(p) ==
  /\ value = NoFile
  /\ IF call[p].op = "get"
     THEN End(p, "going")
     ELSE To(p, "going", "creating") /\ UNCHANGED call
  /\ UNCHANGED value

(* What it had in the meantime is gone, but for the value of a set that is *)
(* not over.                                                               *)
Make(p) ==
  /\ To(p, "creating", "created")
  /\ \/ value' = Empty
     \/ /\ UNCHANGED value
        /\ \E q \in Setters : phase[q] = "done" /\ call[q].val = value
  /\ UNCHANGED call

Put(p) ==
  /\ call[p].op # "get" /\ value # NoFile
  /\ \E from \in {"going", "created"} : To(p, from, "done")
  /\ value' = call[p].val
  /\ UNCHANGED call

Get(p) ==
  /\ call[p].op = "get" /\ value # NoFile
  /\ To(p, "going", "done")
  /\ call' = [call EXCEPT ![p].val = value]
  /\ UNCHANGED value

Lost(p) == call[p].op # "get" /\ phase[p] = "done" /\ value = call[p].val /\ value' = Empty

Lose(p) ==
  /\ Lost(p)
  /\ UNCHANGED <<phase, call>>

(* The call returns, or its process dies.                                  *)
Leave(p) ==
  /\ phase[p] # "idle" /\ End(p, phase[p])
  /\ \/ UNCHANGED value
     \/ Lost(p)

RegisterNext ==
  \/ \E p \in Setters, v \in Values : Invoke(p, "set", v) \/ Invoke(p, "create", v)
  \/ \E p \in Readers : Invoke(p, "get", NoFile)
  \/ \E p \in Processes :
       Look(p) \/ Refuse(p) \/ Miss(p) \/ Make(p) \/ Put(p) \/ Get(p) \/ Lose(p) \/ Leave(p)

RegisterSpec == RegisterInit /\ [][RegisterNext]_registerVars
=============================================================================
