------------------------------ MODULE IpcMailbox ------------------------------
(***************************************************************************)
(* What the kernel's message queue promises its callers, without a ring:   *)
(* the accepted messages that nobody has taken yet are a set, and a thread *)
(* that receives takes the one that was sent to it first.  A send may be   *)
(* refused, which changes nothing and so is a stuttering step here.        *)
(***************************************************************************)
EXTENDS Integers, Sequences

CONSTANTS Threads, Payloads, MaxSends

VARIABLES
  out,   \* the messages accepted and not yet received
  sent,  \* how many were accepted
  got    \* what each thread received, in order

vars == <<out, sent, got>>

Msg == [sender : Threads, dest : Threads, body : Payloads, seq : 1 .. MaxSends]

Init ==
  /\ out = {}
  /\ sent = 0
  /\ got = [t \in Threads |-> <<>>]

Send(t, d, b) ==
  /\ sent < MaxSends
  /\ sent' = sent + 1
  /\ out' = out \union {[sender |-> t, dest |-> d, body |-> b, seq |-> sent + 1]}
  /\ UNCHANGED got

Recv(t, m) ==
  /\ m \in out
  /\ m.dest = t
  /\ \A o \in out : o.dest = t => m.seq <= o.seq
  /\ out' = out \ {m}
  /\ got' = [got EXCEPT ![t] = Append(@, m)]
  /\ UNCHANGED sent

Next ==
  \/ \E t, d \in Threads, b \in Payloads : Send(t, d, b)
  \/ \E t \in Threads, m \in out : Recv(t, m)

Spec == Init /\ [][Next]_vars
===============================================================================
