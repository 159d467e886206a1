------------------------------ MODULE MCWindows -------------------------------
(***************************************************************************)
(* Windows for TLC, from a desktop on which some applications have opened  *)
(* their windows one after the other: a state that Init leads to, taken as *)
(* the initial one so that the clicks of a run go into what is done with   *)
(* the windows.                                                            *)
(***************************************************************************)
EXTENDS Windows

CONSTANTS calc, note, term  \* applications

ASSUME OpenedAssumption ==
  /\ calc \in Threads /\ note \in Threads /\ term \in Threads
  /\ Cardinality({calc, note, term}) = 3
  /\ MAX_WINDOWS >= 3

\* The applications that have a window, oldest first.
Opened == <<calc, note, term>>
Running == {Opened[i] : i \in DOMAIN Opened}
IdOf(t) == CHOOSE i \in DOMAIN Opened : Opened[i] = t

InitOpened ==
  /\ wins = [i \in DOMAIN Opened |->
       [id |-> i, thread |-> Opened[i], min |-> FALSE, max |-> FALSE,
        focused |-> i = Len(Opened), size |-> Normal, saved |-> Normal, buf |-> i]]
  /\ nextId = Len(Opened) + 1
  /\ heap = [i \in DOMAIN Opened |-> Normal]
  /\ job = [a \in Actors |-> IF a = Desktop THEN Idle
              ELSE IF a \in Running THEN [Do("loop") EXCEPT !.id = IdOf(a)]
              ELSE Do("out")]
  /\ frame = [t \in Threads |-> Normal]
  /\ mail = [t \in Threads |-> <<>>]
  /\ clicks = 0
  /\ starts = 0

SpecOpened == InitOpened /\ [][Next]_vars
===============================================================================
