------------------------------- MODULE SelLog -------------------------------
(***************************************************************************)
(* What the system event log promises to those who use it: a log of at     *)
(* most RecordsMax entries that lets go of its oldest entry, and only of   *)
(* that one, to make room, with a saved copy that survives the death of    *)
(* the daemon and is what the next daemon starts from.                     *)
(***************************************************************************)
EXTENDS Naturals, Sequences

CONSTANTS
  Entries,      \* what an entry may hold
  RecordsMax    \* capacity of the log

VARIABLES
  up,      \* the daemon serves the log
  log,     \* the log it serves
  saved    \* what a restart would serve

logVars == <<up, log, saved>>

\* The log after one more entry.
Pushed(l, e) == IF Len(l) = RecordsMax THEN Append(Tail(l), e) ELSE Append(l, e)

LogInit ==
  /\ up = FALSE
  /\ log = << >>
  /\ saved = << >>

\* The oldest entry goes to make room.
Drop ==
  /\ up /\ Len(log) = RecordsMax
  /\ log' = Tail(log)
  /\ UNCHANGED <<up, saved>>

Add ==
  /\ up /\ Len(log) < RecordsMax
  /\ \E e \in Entries : log' = Append(log, e)
  /\ UNCHANGED <<up, saved>>

Clear ==
  /\ up
  /\ log' = << >>
  /\ UNCHANGED <<up, saved>>

\* The saved copy catches up: with one more entry or with nothing in it.
Save ==
  /\ up
  /\ log = << >> \/ \E e \in Entries : log = Pushed(saved, e)
  /\ saved' = log
  /\ UNCHANGED <<up, log>>

Die ==
  /\ up' = FALSE
  /\ log' = << >>
  /\ UNCHANGED saved

Restart ==
  /\ ~up
  /\ up' = TRUE
  /\ log' = saved
  /\ UNCHANGED saved

LogNext == Drop \/ Add \/ Clear \/ Save \/ Die \/ Restart

LogSpec == LogInit /\ [][LogNext]_logVars
=============================================================================
