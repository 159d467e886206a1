------------------------------- MODULE InputFifo -------------------------------
(***************************************************************************)
(* What the input queue promises: events come out in the order in which    *)
(* they went in, at most Capacity wait, and every event that finds no room *)
(* is counted.                                                             *)
(***************************************************************************)
EXTENDS Integers, Sequences

CONSTANTS Events, Capacity, Wrap

VARIABLES
  waiting,  \* the events not yet taken, oldest first
  lost,     \* how many found no room, modulo Wrap
  taken     \* the event the last pop took, or none

vars == <<waiting, lost, taken>>

Init == waiting = <<>> /\ lost = 0 /\ taken = <<>>

Push(e) ==
  /\ Len(waiting) < Capacity
  /\ waiting' = Append(waiting, e)
  /\ UNCHANGED <<lost, taken>>

Drop ==
  /\ Len(waiting) = Capacity
  /\ lost' = (lost + 1) % Wrap
  /\ UNCHANGED <<waiting, taken>>

Pop ==
  /\ waiting # <<>>
  /\ taken' = <<Head(waiting)>>
  /\ waiting' = Tail(waiting)
  /\ UNCHANGED lost

Nothing == waiting = <<>> /\ taken' = <<>> /\ UNCHANGED <<waiting, lost>>

Next == (\E e \in Events : Push(e)) \/ Drop \/ Pop \/ Nothing

Spec == Init /\ [][Next]_vars
===============================================================================
