------------------------------- MODULE IpcQueue -------------------------------
(***************************************************************************)
(* The kernel's inter-thread message queue (sched.c, woos_ipc_send,        *)
(* woos_ipc_recv, woos_ipc_pending).  One ring shared by every thread; a   *)
(* message carries its addressee, and a receiver takes the oldest message  *)
(* addressed to it out of the middle of the ring by sliding the younger    *)
(* ones down.  Each call runs between cli and sti on the only CPU, so each *)
(* is one action.                                                          *)
(*                                                                         *)
(* A message's type and arguments are one opaque value.  sent numbers the  *)
(* accepted messages, so that two messages with equal contents can be told *)
(* apart; it and got are history variables the code does not have.         *)
(***************************************************************************)
EXTENDS Integers, Sequences

CONSTANTS
  IPC_MAX_MSG,  \* slots of the ring; one is always kept free
  Threads,      \* thread ids that call the queue or are addressed by it
  Payloads,     \* type and arguments of a message
  MaxSends      \* bound on the accepted messages

ASSUME IpcAssumption ==
  /\ IPC_MAX_MSG \in Nat /\ IPC_MAX_MSG > 1
  /\ MaxSends \in Nat

VARIABLES
  queue,   \* g_ipc_queue
  head,    \* g_ipc_head: the slot the next message goes to
  tail,    \* g_ipc_tail: the slot of the oldest message
  sent,    \* history: how many messages were accepted
  got      \* history: what each thread received, in order

vars == <<queue, head, tail, sent, got>>

Slot == 0 .. IPC_MAX_MSG - 1
Msg  == [sender : Threads, dest : Threads, body : Payloads, seq : 1 .. MaxSends]
None == [sender |-> 0, dest |-> 0, body |-> 0, seq |-> 0]  \* a slot of the zeroed array

\* Mutant of After: the modulo forgotten.
AfterNoWrap(s) == s + 1

After(s) == (s + 1) % IPC_MAX_MSG

\* How far slot s is from the tail, going forward round the ring.
Dist(s) == (s - tail + IPC_MAX_MSG) % IPC_MAX_MSG
Used    == {s \in Slot : Dist(s) < Dist(head)}

\* The slots the scan from tail to head would stop at for thread t.
\* (Mutant first: the scan stops one slot short of the head.)
AddressedShort(t) == {s \in Used : queue[s].dest = t /\ Dist(s) + 1 < Dist(head)}
Addressed(t) == {s \in Used : queue[s].dest = t}

\* The first of them.  (Mutant first: the scan runs backwards.)
Newest(t) == CHOOSE s \in Addressed(t) : \A r \in Addressed(t) : Dist(s) >= Dist(r)
Oldest(t) == CHOOSE s \in Addressed(t) : \A r \in Addressed(t) : Dist(s) <= Dist(r)

Init ==
  /\ queue = [s \in Slot |-> None]
  /\ head = 0
  /\ tail = 0
  /\ sent = 0
  /\ got = [t \in Threads |-> <<>>]

\* Mutant of Full: no slot is kept free.
FullTooLate == Dist(head) = IPC_MAX_MSG
Full == After(head) = tail

\* woos_ipc_send when the ring has room.
Send(t, d, b) ==
  /\ sent < MaxSends
  /\ ~Full
  /\ queue' = [queue EXCEPT ![head] =
                 [sender |-> t, dest |-> d, body |-> b, seq |-> sent + 1]]
  /\ head' = After(head)
  /\ sent' = sent + 1
  /\ UNCHANGED <<tail, got>>

\* woos_ipc_send on a full ring: -1, nothing stored.
SendFull(t, d, b) == Full /\ UNCHANGED vars

\* A slip, for Recv: the hole is filled with the youngest message.
RecvSwaps(t) ==
  /\ Addressed(t) # {}
  /\ got' = [got EXCEPT ![t] = Append(@, queue[Oldest(t)])]
  /\ head' = IF head = 0 THEN IPC_MAX_MSG - 1 ELSE head - 1
  /\ queue' = [queue EXCEPT ![Oldest(t)] = queue[head']]
  /\ UNCHANGED <<tail, sent>>

\* woos_ipc_recv that finds a message: every younger message moves one slot
\* back and the head follows.  The slot the head leaves keeps its old contents.
Recv(t) ==
  /\ Addressed(t) # {}
  /\ LET hole == Oldest(t)
         Moves(s) == Dist(hole) <= Dist(s) /\ Dist(s) + 1 < Dist(head)
     IN  /\ got' = [got EXCEPT ![t] = Append(@, queue[hole])]
         /\ queue' = [s \in Slot |-> IF Moves(s) THEN queue[After(s)] ELSE queue[s]]
  /\ head' = IF head = 0 THEN IPC_MAX_MSG - 1 ELSE head - 1
  /\ UNCHANGED <<tail, sent>>

\* woos_ipc_recv that finds none: 0.
RecvNone(t) == Addressed(t) = {} /\ UNCHANGED vars

\* woos_ipc_pending, as its caller sees it.
Pending(t) == Addressed(t) # {}

Next ==
  \/ \E t, d \in Threads, b \in Payloads : Send(t, d, b) \/ SendFull(t, d, b)
  \/ \E t \in Threads : Recv(t) \/ RecvNone(t)

Spec == Init /\ [][Next]_vars

(***************************************************************************)
(* Every application's message loop calls woos_ipc_recv until it returns 0 *)
(* and sleeps only when the queue holds nothing for it, so a live receiver *)
(* keeps receiving.                                                        *)
(***************************************************************************)
FairSpec == Spec /\ \A t \in Threads : WF_vars(Recv(t))

-------------------------------------------------------------------------------
\* The types: indices stay inside the array that woos_ipc_send and
\* woos_ipc_recv index with them, whatever the order of calls.
TypeOK ==
  /\ queue \in [Slot -> Msg \union {None}]
  /\ head \in Slot
  /\ tail \in Slot
  /\ sent \in 0 .. MaxSends
  /\ got \in [Threads -> Seq(Msg)]

\* Sliding the younger messages down (sched.c:412-418) never swaps two of them,
\* repeats one or exposes a slot that was never written.
RingOrdered ==
  /\ \A s \in Used : queue[s] \in Msg /\ queue[s].seq <= sent
  /\ \A r, s \in Used : Dist(r) < Dist(s) => queue[r].seq < queue[s].seq

Received(t) == {got[t][i].seq : i \in DOMAIN got[t]}

\* A thread receives its messages in the order they were accepted, although
\* messages of other threads are taken out from among them.
DeliveredInOrder ==
  \A t \in Threads : \A i, j \in DOMAIN got[t] :
    i < j => got[t][i].seq < got[t][j].seq

\* The ring implements the mailbox.
Mailbox == INSTANCE IpcMailbox WITH out <- {queue[s] : s \in Used}
ImplementsMailbox == Mailbox!Spec

\* A message accepted for a thread that keeps receiving is received in the end,
\* however many messages for other threads lie before it in the ring.
EventuallyReceived ==
  \A n \in 1 .. MaxSends :
    sent >= n ~> n \in UNION {Received(t) : t \in Threads}
===============================================================================
