------------------------------ MODULE InputQueue ------------------------------
(***************************************************************************)
(* The kernel's queue of input events (input.c).  Interrupt handlers and   *)
(* the timer push, the compositor pops.  Every operation saves the         *)
(* interrupt flag, works with interrupts off and restores it, so each is   *)
(* one action; that a push wakes the sleeping threads is modelled where    *)
(* there are threads (EventFlow, Sched).                                   *)
(***************************************************************************)
EXTENDS Integers, Sequences

CONSTANTS
  Events,    \* type, coordinates and buttons of an event
  Capacity,  \* INPUT_QUEUE_CAPACITY
  Wrap       \* the drop counter counts modulo Wrap (2^16 in the code)

InputAssumption ==
  /\ Capacity \in Nat /\ Capacity > 0
  /\ Wrap \in Nat /\ Wrap > 0

VARIABLES
  buffer,   \* g_queue.buffer
  head,     \* g_queue.head: the oldest event
  tail,     \* g_queue.tail: the slot the next event goes to
  size,     \* g_queue.size
  dropped,  \* g_queue.dropped
  out       \* what the last input_pop returned: one event, or none

vars == <<buffer, head, tail, size, dropped, out>>

Slot == 0 .. Capacity - 1

After(s) == (s + 1) % Capacity

\* input_init.  What the buffer holds before the first push is never read.
Init ==
  /\ buffer \in [Slot -> Events]
  /\ head = 0
  /\ tail = 0
  /\ size = 0
  /\ dropped = 0
  /\ out = <<>>

\* input_push of an event that finds room.
Push(e) ==
  /\ size < Capacity
  /\ buffer' = [buffer EXCEPT ![tail] = e]
  /\ tail' = After(tail)
  /\ size' = size + 1
  /\ UNCHANGED <<head, dropped, out>>

\* input_push on a full queue: the event is counted and forgotten.
Drop ==
  /\ size >= Capacity
  /\ dropped' = (dropped + 1) % Wrap
  /\ UNCHANGED <<buffer, head, tail, size, out>>

\* input_pop that finds an event.
Pop ==
  /\ size # 0
  /\ out' = <<buffer[head]>>
  /\ head' = After(head)
  /\ size' = size - 1
  /\ UNCHANGED <<buffer, tail, dropped>>

\* input_pop on an empty queue.
PopNone ==
  /\ size = 0
  /\ out' = <<>>
  /\ UNCHANGED <<buffer, head, tail, size, dropped>>

Next == (\E e \in Events : Push(e)) \/ Drop \/ Pop \/ PopNone

Spec == Init /\ [][Next]_vars

-------------------------------------------------------------------------------
\* The types; head and tail stay inside the buffer they index (input.c:53,73).
TypeOK ==
  /\ buffer \in [Slot -> Events]
  /\ head \in Slot
  /\ tail \in Slot
  /\ size \in 0 .. Capacity
  /\ dropped \in 0 .. Wrap - 1
  /\ out = <<>> \/ \E e \in Events : out = <<e>>

\* Three counters describe the same thing (input.c:53-55,73-75): whatever the
\* order of pushes and pops, size is the distance from head to tail.
Consistent == tail = (head + size) % Capacity

Contents == [i \in 1 .. size |-> buffer[(head + i - 1) % Capacity]]

\* The ring with its redundant counters implements the queue, around the wrap of
\* both indices and with stale events left in the buffer.
Fifo == INSTANCE InputFifo WITH waiting <- Contents, lost <- dropped, taken <- out
ImplementsFifo == Fifo!Spec
===============================================================================
