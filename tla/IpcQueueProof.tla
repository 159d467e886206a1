---------------------------- MODULE IpcQueueProof -----------------------------
(***************************************************************************)
(* Proofs about the message queue, for any ring size, threads and          *)
(* messages.                                                               *)
(*                                                                         *)
(* The code never assigns g_ipc_tail: woos_ipc_recv takes the message out  *)
(* and moves the head back.  So the ring never turns, a slot's distance    *)
(* from the tail is its number, and the used slots are those below the     *)
(* head.  This is the invariant everything else rests on.                  *)
(***************************************************************************)
EXTENDS IpcQueue, TLAPS, WellFoundedInduction

\* The used slots hold messages in the order of their numbers.
Sorted ==
  /\ \A s \in 0 .. head - 1 : queue[s] \in Msg /\ queue[s].seq <= sent
  /\ \A r, s \in 0 .. head - 1 : r < s => queue[r].seq < queue[s].seq

\* What a thread has received is older than all that waits for it.
Older ==
  \A t \in Threads : \A i \in DOMAIN got[t] :
    /\ got[t][i].seq <= sent
    /\ got[t][i].dest = t
    /\ \A s \in 0 .. head - 1 : queue[s].dest = t => got[t][i].seq < queue[s].seq

Inv == TypeOK /\ tail = 0 /\ Sorted /\ Older /\ DeliveredInOrder

-------------------------------------------------------------------------------
\* Of the slots with a message for a thread there is a first one.
LEMMA LeastExists ==
  ASSUME NEW S \in SUBSET Nat, S # {}
  PROVE  \E x \in S : \A y \in S : x <= y
<1> DEFINE R == {p \in Nat \X Nat : p[1] < p[2]}
<1>1. IsWellFoundedOn(R, Nat)
  <2>1. R = OpToRel(<, Nat)
    BY DEF OpToRel
  <2> QED BY <2>1, NatLessThanWellFounded
<1>2. PICK x \in S : \A y \in S : ~ (<<y, x>> \in R)
  BY <1>1, WFMin
<1>3. x \in Nat /\ \A y \in S : y \in Nat /\ ~ (y < x)
  BY <1>2
<1> QED BY <1>3

\* With the tail at 0 the ring is an array.
LEMMA Flat ==
  ASSUME TypeOK, tail = 0
  PROVE  /\ \A s \in Slot : Dist(s) = s
         /\ Used = 0 .. head - 1
         /\ \A s \in Slot : After(s) = IF s = IPC_MAX_MSG - 1 THEN 0 ELSE s + 1
         /\ Full <=> head = IPC_MAX_MSG - 1
<1>1. IPC_MAX_MSG \in Nat /\ IPC_MAX_MSG > 1 /\ head \in 0 .. IPC_MAX_MSG - 1
  BY IpcAssumption DEF TypeOK, Slot
<1>2. \A s \in Slot : Dist(s) = s
  BY <1>1 DEF Dist, Slot
<1>3. Used = 0 .. head - 1
  BY <1>1, <1>2 DEF Used, Slot
<1>4. \A s \in Slot : After(s) = IF s = IPC_MAX_MSG - 1 THEN 0 ELSE s + 1
  BY <1>1 DEF After, Slot
<1>5. Full <=> head = IPC_MAX_MSG - 1
  BY <1>1, <1>4 DEF Full, Slot
<1> QED BY <1>2, <1>3, <1>4, <1>5

\* The same of the state after a step.
LEMMA FlatNext ==
  ASSUME TypeOK', tail' = 0
  PROVE  Used' = 0 .. head' - 1
<1>1. IPC_MAX_MSG \in Nat /\ IPC_MAX_MSG > 1 /\ head' \in 0 .. IPC_MAX_MSG - 1
  BY IpcAssumption DEF TypeOK, Slot
<1>2. \A s \in Slot : (s - tail' + IPC_MAX_MSG) % IPC_MAX_MSG = s
  BY <1>1 DEF Slot
<1>3. (head' - tail' + IPC_MAX_MSG) % IPC_MAX_MSG = head'
  BY <1>1, <1>2 DEF Slot
<1> QED BY <1>1, <1>2, <1>3 DEF Used, Dist, Slot

\* The scan of woos_ipc_recv stops at the first slot with a message for t.
LEMMA OldestIsFirst ==
  ASSUME TypeOK, tail = 0, NEW t \in Threads, Addressed(t) # {}
  PROVE  /\ Oldest(t) \in 0 .. head - 1
         /\ queue[Oldest(t)].dest = t
         /\ \A s \in 0 .. head - 1 : queue[s].dest = t => Oldest(t) <= s
<1>1. Addressed(t) \subseteq 0 .. head - 1 /\ 0 .. head - 1 \subseteq Slot
  BY Flat, IpcAssumption DEF Addressed, TypeOK, Slot
<1>2. Addressed(t) \in SUBSET Nat
  BY <1>1 DEF Slot
<1>3. \E s \in Addressed(t) : \A r \in Addressed(t) : Dist(s) <= Dist(r)
  BY <1>1, <1>2, LeastExists, Flat
<1>4. Oldest(t) \in Addressed(t) /\ \A r \in Addressed(t) : Dist(Oldest(t)) <= Dist(r)
  BY <1>3 DEF Oldest
<1> QED BY <1>1, <1>4, Flat DEF Addressed

\* What Recv does to the array: the slots from the hole on hold what their successors
\* held, and the head moves down by one.
LEMMA Slide ==
  ASSUME TypeOK, tail = 0, NEW t \in Threads, Recv(t)
  PROVE  /\ head > 0 /\ head' = head - 1 /\ tail' = 0 /\ sent' = sent
         /\ \A s \in 0 .. head - 2 :
              queue'[s] = IF s < Oldest(t) THEN queue[s] ELSE queue[s + 1]
         /\ got' = [got EXCEPT ![t] = Append(@, queue[Oldest(t)])]
<1>1. /\ Addressed(t) # {} /\ tail' = tail /\ sent' = sent
      /\ head' = IF head = 0 THEN IPC_MAX_MSG - 1 ELSE head - 1
      /\ got' = [got EXCEPT ![t] = Append(@, queue[Oldest(t)])]
      /\ queue' = [s \in Slot |->
                     IF Dist(Oldest(t)) <= Dist(s) /\ Dist(s) + 1 < Dist(head)
                     THEN queue[After(s)] ELSE queue[s]]
  BY DEF Recv
<1>2. Oldest(t) \in 0 .. head - 1
  BY <1>1, OldestIsFirst
<1>3. IPC_MAX_MSG \in Nat /\ head \in 0 .. IPC_MAX_MSG - 1 /\ head \in Slot
  BY IpcAssumption DEF TypeOK, Slot
<1>4. head > 0 /\ head' = head - 1
  BY <1>1, <1>2, <1>3
<1>5. Oldest(t) \in Slot /\ Dist(Oldest(t)) = Oldest(t) /\ Dist(head) = head
  BY <1>2, <1>3, Flat DEF Slot
<1>6. ASSUME NEW s \in 0 .. head - 2
      PROVE  queue'[s] = IF s < Oldest(t) THEN queue[s] ELSE queue[s + 1]
  <2>1. s \in Slot /\ Dist(s) = s /\ After(s) = s + 1
    BY <1>3, <1>4, Flat DEF Slot
  <2> QED BY <1>1, <1>2, <1>3, <1>5, <2>1
<1> QED BY <1>1, <1>4, <1>6

-------------------------------------------------------------------------------
\* An accepted message goes to the end of the array.
LEMMA SendAppends ==
  ASSUME TypeOK, tail = 0, NEW t \in Threads, NEW d \in Threads, NEW b \in Payloads,
         Send(t, d, b)
  PROVE  LET m == [sender |-> t, dest |-> d, body |-> b, seq |-> sent + 1]
         IN  /\ m \in Msg /\ m.dest = d /\ m.seq = sent + 1
             /\ head < IPC_MAX_MSG - 1 /\ head' = head + 1 /\ tail' = 0
             /\ queue' = [queue EXCEPT ![head] = m] /\ queue'[head] = m
             /\ \A s \in 0 .. head - 1 : queue'[s] = queue[s]
             /\ sent' = sent + 1 /\ sent' \in 0 .. MaxSends /\ got' = got
<1> DEFINE m == [sender |-> t, dest |-> d, body |-> b, seq |-> sent + 1]
<1>1. IPC_MAX_MSG \in Nat /\ head \in 0 .. IPC_MAX_MSG - 1 /\ sent \in 0 .. MaxSends
      /\ MaxSends \in Nat /\ head \in Slot /\ queue \in [Slot -> Msg \union {None}]
  BY IpcAssumption DEF TypeOK, Slot
<1>2. head # IPC_MAX_MSG - 1 /\ sent < MaxSends
  BY Flat DEF Send
<1>3. m \in Msg
  BY <1>1, <1>2 DEF Msg
<1>4. head' = head + 1
  BY <1>1, <1>2, Flat DEF Send
<1>5. queue' = [queue EXCEPT ![head] = m] /\ tail' = tail /\ got' = got /\ sent' = sent + 1
  BY DEF Send
<1>6. \A s \in 0 .. head - 1 : queue'[s] = queue[s]
  BY <1>1, <1>5 DEF Slot
<1> QED BY <1>1, <1>2, <1>3, <1>4, <1>5, <1>6

\* A message sent goes behind the last, or is refused.
LEMMA SendKeeps ==
  ASSUME Inv, NEW t \in Threads, NEW d \in Threads, NEW b \in Payloads, Send(t, d, b)
  PROVE  Inv'
<1> DEFINE m == [sender |-> t, dest |-> d, body |-> b, seq |-> sent + 1]
<1>0. TypeOK /\ tail = 0 /\ head \in 0 .. IPC_MAX_MSG - 1 /\ sent \in Nat
      /\ IPC_MAX_MSG \in Nat
  BY IpcAssumption DEF Inv, TypeOK, Slot
<1>1. /\ m \in Msg /\ m.dest = d /\ m.seq = sent + 1
      /\ head < IPC_MAX_MSG - 1 /\ head' = head + 1 /\ tail' = 0
      /\ queue' = [queue EXCEPT ![head] = m] /\ queue'[head] = m
      /\ \A s \in 0 .. head - 1 : queue'[s] = queue[s]
      /\ sent' = sent + 1 /\ sent' \in 0 .. MaxSends /\ got' = got
  BY <1>0, SendAppends
<1> HIDE DEF m
<1>2. TypeOK'
  BY <1>0, <1>1 DEF TypeOK, Slot
<1>3. Sorted'
  <2>1. \A s \in 0 .. head - 1 : queue[s] \in Msg /\ queue[s].seq <= sent
    BY DEF Inv, Sorted
  <2>2. \A s \in 0 .. head - 1 : queue[s].seq \in Nat
    BY <2>1 DEF Msg
  <2>3. \A s \in 0 .. head' - 1 : s = head \/ s \in 0 .. head - 1
    BY <1>0, <1>1
  <2>4. \A r, s \in 0 .. head - 1 : r < s => queue[r].seq < queue[s].seq
    BY DEF Inv, Sorted
  <2> QED BY <1>0, <1>1, <2>1, <2>2, <2>3, <2>4 DEF Sorted
<1>4. Older'
  <2>1. ASSUME NEW u \in Threads, NEW i \in DOMAIN got[u]
        PROVE  /\ got[u][i].seq <= sent /\ got[u][i].dest = u
               /\ got[u][i].seq \in Nat
    <3>1. got[u] \in Seq(Msg)
      BY <1>0 DEF TypeOK
    <3>2. got[u][i] \in Msg
      BY <3>1
    <3> QED BY <3>2 DEF Inv, Older, Msg
  <2>2. \A s \in 0 .. head' - 1 : s = head \/ s \in 0 .. head - 1
    BY <1>0, <1>1
  <2> QED BY <1>0, <1>1, <2>1, <2>2 DEF Inv, Older
<1>5. DeliveredInOrder'
  BY <1>1 DEF Inv, DeliveredInOrder
<1> QED BY <1>1, <1>2, <1>3, <1>4, <1>5 DEF Inv

\* The oldest message of a thread is taken and those behind it close up.
LEMMA RecvKeeps ==
  ASSUME Inv, NEW t \in Threads, Recv(t)
  PROVE  Inv'
<1> DEFINE h == Oldest(t)
           m == queue[h]
<1>0. /\ TypeOK /\ tail = 0 /\ head \in 0 .. IPC_MAX_MSG - 1 /\ sent \in Nat
      /\ IPC_MAX_MSG \in Nat /\ sent \in 0 .. MaxSends
  BY IpcAssumption DEF Inv, TypeOK, Slot
<1>1. /\ head > 0 /\ head' = head - 1 /\ tail' = 0 /\ sent' = sent
      /\ \A s \in 0 .. head - 2 : queue'[s] = IF s < h THEN queue[s] ELSE queue[s + 1]
      /\ got' = [got EXCEPT ![t] = Append(@, m)]
  BY <1>0, Slide
<1>2. /\ h \in 0 .. head - 1 /\ m.dest = t
      /\ \A s \in 0 .. head - 1 : queue[s].dest = t => h <= s
  BY <1>0, OldestIsFirst DEF Recv
<1>3. /\ \A s \in 0 .. head - 1 : /\ queue[s] \in Msg /\ queue[s].seq <= sent
                                 /\ queue[s].seq \in Nat
      /\ \A r, s \in 0 .. head - 1 : r < s => queue[r].seq < queue[s].seq
  BY DEF Inv, Sorted, Msg
<1>4. m \in Msg /\ m.seq \in Nat /\ m.seq <= sent
  BY <1>2, <1>3
<1>5. queue' \in [Slot -> Msg \union {None}]
  <2>1. \A s \in Slot : After(s) \in Slot
    BY <1>0, Flat, IpcAssumption DEF Slot
  <2> QED BY <1>0, <2>1 DEF Recv, TypeOK
<1> HIDE DEF h, m
<1>6. TypeOK'
  <2>1. got[t] \in Seq(Msg) /\ got \in [Threads -> Seq(Msg)]
    BY <1>0 DEF TypeOK
  <2>2. got' \in [Threads -> Seq(Msg)]
    BY <1>1, <1>4, <2>1
  <2> QED BY <1>0, <1>1, <1>5, <2>2 DEF TypeOK, Slot
<1>7. Sorted'
  <2> SUFFICES ASSUME NEW s \in 0 .. head - 2
               PROVE  /\ queue'[s] \in Msg /\ queue'[s].seq <= sent
                      /\ \A r \in 0 .. head - 2 : r < s => queue'[r].seq < queue'[s].seq
    BY <1>0, <1>1 DEF Sorted
  <2>1. s \in 0 .. head - 1 /\ s + 1 \in 0 .. head - 1
    BY <1>0, <1>1
  <2>2. ASSUME NEW r \in 0 .. head - 2, r < s
        PROVE  queue'[r].seq < queue'[s].seq
    <3>1. r \in 0 .. head - 1 /\ r + 1 \in 0 .. head - 1 /\ h \in Int
      BY <1>0, <1>1, <1>2
    <3>2. queue'[r] = (IF r < h THEN queue[r] ELSE queue[r + 1])
          /\ queue'[s] = (IF s < h THEN queue[s] ELSE queue[s + 1])
      BY <1>1
    <3> QED BY <1>3, <2>1, <2>2, <3>1, <3>2
  <2> QED BY <1>1, <1>3, <2>1, <2>2
<1>8. \A u \in Threads : u # t => got'[u] = got[u]
  BY <1>0, <1>1 DEF TypeOK
<1>9. /\ got[t] \in Seq(Msg) /\ got'[t] = Append(got[t], m)
      /\ Len(got[t]) \in Nat /\ DOMAIN got[t] = 1 .. Len(got[t])
      /\ DOMAIN got'[t] = 1 .. Len(got[t]) + 1
      /\ got'[t][Len(got[t]) + 1] = m
      /\ \A i \in 1 .. Len(got[t]) : got'[t][i] = got[t][i] /\ got[t][i].seq \in Nat
  <2>1. got[t] \in Seq(Msg) /\ got'[t] = Append(got[t], m)
    BY <1>0, <1>1 DEF TypeOK
  <2>2. \A i \in 1 .. Len(got[t]) : got[t][i] \in Msg
    BY <2>1
  <2> QED BY <1>4, <2>1, <2>2 DEF Msg
<1>10. Older'
  <2> SUFFICES ASSUME NEW u \in Threads, NEW i \in DOMAIN got'[u]
               PROVE  /\ got'[u][i].seq <= sent /\ got'[u][i].dest = u
                      /\ \A s \in 0 .. head - 2 :
                           queue'[s].dest = u => got'[u][i].seq < queue'[s].seq
    BY <1>0, <1>1 DEF Older
  <2>1. \A s \in 0 .. head - 2 : \E r \in 0 .. head - 1 : queue'[s] = queue[r] /\ r # h
    <3> SUFFICES ASSUME NEW s \in 0 .. head - 2
                 PROVE  \E r \in 0 .. head - 1 : queue'[s] = queue[r] /\ r # h
      OBVIOUS
    <3>1. h \in Int /\ s \in Int /\ s \in 0 .. head - 1 /\ s + 1 \in 0 .. head - 1
      BY <1>0, <1>1, <1>2
    <3>2. CASE s < h
      <4>1. queue'[s] = queue[s] /\ s # h
        BY <1>1, <3>1, <3>2
      <4> QED BY <3>1, <4>1
    <3>3. CASE ~ (s < h)
      <4>1. queue'[s] = queue[s + 1] /\ s + 1 # h
        BY <1>1, <3>1, <3>3
      <4> QED BY <3>1, <4>1
    <3> QED BY <3>2, <3>3
  <2>2. CASE u # t \/ i \in DOMAIN got[t]
    <3>1. got'[u][i] = got[u][i] /\ i \in DOMAIN got[u]
      BY <1>8, <1>9, <2>2
    <3> QED BY <2>1, <3>1 DEF Inv, Older
  <2>3. CASE u = t /\ i = Len(got[t]) + 1
    <3>1. got'[u][i] = m
      BY <1>9, <2>3
    <3>2. ASSUME NEW s \in 0 .. head - 2, queue'[s].dest = t
          PROVE  m.seq < queue'[s].seq
      <4>1. PICK r \in 0 .. head - 1 : queue'[s] = queue[r] /\ r # h
        BY <2>1
      <4>2. h < r
        BY <1>2, <3>2, <4>1
      <4> QED BY <1>2, <1>3, <4>1, <4>2 DEF m
    <3> QED BY <1>2, <1>4, <2>3, <3>1, <3>2
  <2> QED BY <1>9, <2>2, <2>3
<1>11. DeliveredInOrder'
  <2> SUFFICES ASSUME NEW u \in Threads, NEW i \in DOMAIN got'[u], NEW j \in DOMAIN got'[u],
                      i < j
               PROVE  got'[u][i].seq < got'[u][j].seq
    BY DEF DeliveredInOrder
  <2>1. CASE u # t \/ j \in DOMAIN got[t]
    <3>1. i \in DOMAIN got[u] /\ j \in DOMAIN got[u]
      <4>1. CASE u # t
        BY <1>8, <4>1
      <4>2. CASE u = t /\ j \in DOMAIN got[t]
        BY <1>9, <4>2
      <4> QED BY <2>1, <4>1, <4>2
    <3>2. got'[u][i] = got[u][i] /\ got'[u][j] = got[u][j]
      BY <1>8, <1>9, <3>1
    <3> QED BY <3>1, <3>2 DEF Inv, DeliveredInOrder
  <2>2. CASE u = t /\ j = Len(got[t]) + 1
    <3>1. i \in DOMAIN got[t] /\ got'[u][i] = got[t][i] /\ got'[u][j] = m
      BY <1>9, <2>2
    <3> QED BY <1>2, <3>1 DEF Inv, Older, m
  <2> QED BY <1>9, <2>1, <2>2
<1> QED BY <1>1, <1>6, <1>7, <1>10, <1>11 DEF Inv

-------------------------------------------------------------------------------
\* The ring is empty.
LEMMA InitKeeps == Init => Inv
<1> SUFFICES ASSUME Init PROVE Inv
  OBVIOUS
<1>1. IPC_MAX_MSG \in Nat /\ IPC_MAX_MSG > 1 /\ MaxSends \in Nat
  BY IpcAssumption
<1>2. \A t \in Threads : got[t] = <<>> /\ DOMAIN got[t] = {}
  BY DEF Init
<1>3. TypeOK
  <2>1. <<>> \in Seq(Msg)
    OBVIOUS
  <2>2. got \in [Threads -> Seq(Msg)]
    BY <2>1 DEF Init
  <2>3. 0 \in Slot /\ 0 \in 0 .. MaxSends
    BY <1>1 DEF Slot
  <2>4. queue \in [Slot -> Msg \union {None}]
    BY DEF Init
  <2> QED BY <2>2, <2>3, <2>4 DEF Init, TypeOK
<1>4. Sorted
  BY DEF Init, Sorted
<1> QED BY <1>2, <1>3, <1>4 DEF Init, Inv, Older, DeliveredInOrder

\* Every step keeps the invariant.
LEMMA StepKeeps == Inv /\ [Next]_vars => Inv'
<1> SUFFICES ASSUME Inv, [Next]_vars PROVE Inv'
  OBVIOUS
<1>1. ASSUME NEW t \in Threads, NEW d \in Threads, NEW b \in Payloads, Send(t, d, b)
      PROVE  Inv'
  BY <1>1, SendKeeps
<1>2. ASSUME NEW t \in Threads, Recv(t)
      PROVE  Inv'
  BY <1>2, RecvKeeps
<1>3. CASE UNCHANGED vars
  BY <1>3 DEF vars, Inv, TypeOK, Sorted, Older, DeliveredInOrder
<1> QED BY <1>1, <1>2, <1>3 DEF Next, SendFull, RecvNone

\* The invariant holds for every ring size, every set of threads and any number of
\* messages.
THEOREM Invariance == Spec => []Inv
<1> QED BY InitKeeps, StepKeeps, PTL DEF Spec

\* woos_ipc_send and woos_ipc_recv index the ring inside its bounds.
THEOREM TypesHold == Spec => []TypeOK
<1>1. Inv => TypeOK
  BY DEF Inv
<1> QED BY <1>1, Invariance, PTL

\* Taking a message out of the middle keeps the others in their order, and no slot
\* that was never written is ever in use.
THEOREM RingStaysOrdered == Spec => []RingOrdered
<1>1. Inv => RingOrdered
  <2> SUFFICES ASSUME Inv PROVE RingOrdered
    OBVIOUS
  <2>1. /\ \A s \in Slot : Dist(s) = s
        /\ Used = 0 .. head - 1 /\ Used \subseteq Slot
    BY Flat DEF Inv, Used
  <2> QED BY <2>1 DEF Inv, Sorted, RingOrdered
<1> QED BY <1>1, Invariance, PTL

\* Each thread receives its messages in the order in which they were accepted.
THEOREM OrderKept == Spec => []DeliveredInOrder
<1>1. Inv => DeliveredInOrder
  BY DEF Inv
<1> QED BY <1>1, Invariance, PTL

-------------------------------------------------------------------------------
\* The messages that wait in the ring, as the mailbox sees them.
Out == {queue[s] : s \in Used}

\* The ring implements the mailbox: an accepted message is a mailbox send, a message
\* taken out is the mailbox's receive of the thread's oldest, a refused send or an
\* empty receive is a stutter.
THEOREM Refinement == Spec => ImplementsMailbox
<1>1. Init => Mailbox!Init
  <2> SUFFICES ASSUME Init PROVE Mailbox!Init
    OBVIOUS
  <2>1. Used = {}
    <3>1. Inv
      BY InitKeeps
    <3> QED BY <3>1, Flat DEF Inv, Init
  <2> QED BY <2>1 DEF Init, Mailbox!Init
<1>2. Inv /\ Inv' /\ [Next]_vars => [Mailbox!Next]_(Mailbox!vars)
  <2> SUFFICES ASSUME Inv, Inv', [Next]_vars PROVE [Mailbox!Next]_(Mailbox!vars)
    OBVIOUS
  <2>0. /\ TypeOK /\ tail = 0 /\ head \in 0 .. IPC_MAX_MSG - 1 /\ IPC_MAX_MSG \in Nat
        /\ Used = 0 .. head - 1
    BY Flat, IpcAssumption DEF Inv, TypeOK, Slot
  <2>1. ASSUME NEW t \in Threads, NEW d \in Threads, NEW b \in Payloads, Send(t, d, b)
        PROVE  Mailbox!Send(t, d, b)
    <3> DEFINE m == [sender |-> t, dest |-> d, body |-> b, seq |-> sent + 1]
    <3>1. /\ head' = head + 1 /\ queue'[head] = m
          /\ \A s \in 0 .. head - 1 : queue'[s] = queue[s]
          /\ sent' = sent + 1 /\ got' = got
      BY <2>0, <2>1, SendAppends
    <3>2. Used' = 0 .. head
      <4>1. TypeOK' /\ tail' = 0
        BY DEF Inv
      <4>2. Used' = 0 .. head' - 1
        BY <4>1, <2>0, <2>1, FlatNext
      <4> QED BY <2>0, <3>1, <4>2
    <3>3. Out' = Out \union {m}
      BY <2>0, <3>1, <3>2 DEF Out
    <3> QED BY <2>1, <3>1, <3>3 DEF Out, Send, Mailbox!Send
  <2>2. ASSUME NEW t \in Threads, Recv(t)
        PROVE  \E o \in Out : Mailbox!Recv(t, o)
    <3> DEFINE h == Oldest(t)
               m == queue[h]
    <3>1. /\ head > 0 /\ head' = head - 1 /\ sent' = sent
          /\ \A s \in 0 .. head - 2 : queue'[s] = IF s < h THEN queue[s] ELSE queue[s + 1]
          /\ got' = [got EXCEPT ![t] = Append(@, m)]
      BY <2>0, <2>2, Slide
    <3>2. /\ h \in 0 .. head - 1 /\ m.dest = t
          /\ \A s \in 0 .. head - 1 : queue[s].dest = t => h <= s
      BY <2>0, <2>2, OldestIsFirst DEF Recv
    <3>3. /\ \A s \in 0 .. head - 1 : queue[s].seq \in Nat
          /\ \A r, s \in 0 .. head - 1 : r < s => queue[r].seq < queue[s].seq
      BY DEF Inv, Sorted, Msg
    <3> HIDE DEF h
    <3>4. \A r, s \in 0 .. head - 1 : queue[r] = queue[s] => r = s
      BY <2>0, <3>3
    <3>5. Used' = 0 .. head - 2
      <4>1. TypeOK' /\ tail' = 0
        BY DEF Inv
      <4>2. Used' = 0 .. head' - 1
        BY <4>1, FlatNext
      <4> QED BY <2>0, <3>1, <4>2
    <3>6. Out' = Out \ {m}
      <4>1. ASSUME NEW s \in 0 .. head - 2
            PROVE  queue'[s] \in Out \ {m}
        <5>1. s \in Int /\ h \in Int /\ s \in 0 .. head - 1 /\ s + 1 \in 0 .. head - 1
          BY <2>0, <3>1, <3>2
        <5>2. CASE s < h
          BY <2>0, <3>1, <3>2, <3>4, <5>1, <5>2 DEF Out
        <5>3. CASE ~ (s < h)
          <6>1. queue'[s] = queue[s + 1] /\ s + 1 # h
            BY <3>1, <5>1, <5>3
          <6> QED BY <2>0, <3>2, <3>4, <5>1, <6>1 DEF Out
        <5> QED BY <5>2, <5>3
      <4>2. ASSUME NEW r \in 0 .. head - 1, r # h
            PROVE  \E s \in 0 .. head - 2 : queue[r] = queue'[s]
        <5>1. r \in Int /\ h \in Int
          BY <2>0, <3>2
        <5>2. CASE r < h
          <6>1. r \in 0 .. head - 2 /\ queue'[r] = queue[r]
            BY <2>0, <3>1, <3>2, <5>1, <5>2
          <6> QED BY <6>1
        <5>3. CASE r > h
          <6>1. r - 1 \in 0 .. head - 2 /\ ~ (r - 1 < h) /\ (r - 1) + 1 = r
            BY <2>0, <3>1, <3>2, <5>1, <5>3
          <6>2. queue'[r - 1] = queue[r]
            BY <3>1, <6>1
          <6> QED BY <6>1, <6>2
        <5> QED BY <4>2, <5>1, <5>2, <5>3
      <4> HIDE DEF m
      <4>3. Out' = {queue'[s] : s \in 0 .. head - 2} /\ Out = {queue[s] : s \in 0 .. head - 1}
        BY <2>0, <3>5 DEF Out
      <4>4. Out' \subseteq Out \ {m}
        BY <4>1, <4>3
      <4>5. ASSUME NEW o \in Out \ {m}
            PROVE  o \in Out'
        <5>1. PICK r \in 0 .. head - 1 : o = queue[r]
          BY <4>3
        <5>2. r # h
          BY <5>1 DEF m
        <5> QED BY <4>2, <4>3, <5>1, <5>2
      <4> QED BY <4>4, <4>5
    <3>7. \A o \in Out : o.dest = t => m.seq <= o.seq
      <4>1. ASSUME NEW s \in 0 .. head - 1, queue[s].dest = t
            PROVE  m.seq <= queue[s].seq
        <5>1. h <= s /\ h \in Int /\ s \in Int
          BY <2>0, <3>2, <4>1
        <5>2. CASE h = s
          BY <3>2, <3>3, <5>2
        <5>3. CASE h < s
          BY <3>2, <3>3, <5>3
        <5> QED BY <5>1, <5>2, <5>3
      <4> QED BY <2>0, <4>1 DEF Out
    <3>8. m \in Out
      BY <2>0, <3>2 DEF Out
    <3>9. Mailbox!Recv(t, m)
      BY <3>1, <3>2, <3>6, <3>7, <3>8 DEF Out, Mailbox!Recv
    <3> HIDE DEF m
    <3> QED BY <3>8, <3>9 DEF Mailbox!Recv
  <2>3. CASE UNCHANGED vars
    <3>1. Out' = Out
      BY <2>3 DEF vars, Out, Used, Dist
    <3> QED BY <2>3, <3>1 DEF vars, Out, Mailbox!vars
  <2> QED BY <2>1, <2>2, <2>3 DEF Next, SendFull, RecvNone, Out, Mailbox!Next
<1> QED BY <1>1, <1>2, Invariance, PTL DEF Spec, ImplementsMailbox, Mailbox!Spec
===============================================================================
