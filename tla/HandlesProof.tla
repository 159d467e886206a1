------------------------------ MODULE HandlesProof ------------------------------
(***************************************************************************)
(* Proofs about what a program holds handles of, files and sockets, beside *)
(* the other parts of Io: for any number of files, handles, threads,       *)
(* sockets and control blocks, any bytes, offsets, buffers and queues.     *)
(***************************************************************************)
EXTENDS IoInvariants, FiniteSetTheorems, SequenceTheorems, TLAPS, WellFoundedInduction

-------------------------------------------------------------------------------
\* A set of numbers that is not empty has a least one.
LEMMA LeastExists ==
  ASSUME NEW S \in SUBSET Nat, S # {}
  PROVE  \E x \in S : \A y \in S : x <= y
<1> DEFINE R == {p \in Nat \X Nat : p[1] < p[2]}
<1>1. IsWellFoundedOn(R, Nat)
  <2>1. R = OpToRel(<, Nat)
    BY DEF OpToRel
  <2> QED BY <2>1, NatLessThanWellFounded
<1>2. PICK x \in S : \A y \in S : ~ (<<y, x>> \in R)
  BY <1>1, WFMin
<1>3. x \in Nat /\ \A y \in S : y \in Nat /\ ~ (y < x)
  BY <1>2
<1> QED BY <1>3

\* Putting together three sequences, in either order.
LEMMA Associative ==
  ASSUME NEW S, NEW a \in Seq(S), NEW b \in Seq(S), NEW c \in Seq(S)
  PROVE  (a \o b) \o c = a \o (b \o c)
  BY ConcatAssociative

LEMMA NumbersAssociative ==
  ASSUME NEW a \in Seq(Nat), NEW b \in Seq(Nat), NEW c \in Seq(Nat)
  PROVE  (a \o b) \o c = a \o (b \o c)
<1>1. PICK S : S = Nat
  OBVIOUS
<1>2. a \in Seq(S) /\ b \in Seq(S) /\ c \in Seq(S)
  BY <1>1
<1> QED BY <1>2, Associative

\* What is taken of a sequence of numbers, and what is left of it.
LEMMA TakenOf ==
  ASSUME NEW S, NEW q, q \in Seq(S), NEW a, NEW b, a \in Nat \ {0}, b \in 0 .. Len(q)
  PROVE  /\ SubSeq(q, a, b) \in Seq(S)
         /\ Len(SubSeq(q, a, b)) = IF a <= b THEN b - a + 1 ELSE 0
<1>1. Len(q) \in Nat /\ \A i \in 1 .. Len(q) : q[i] \in S
  OBVIOUS
<1>2. a \in Int /\ b \in Int /\ \A i \in a .. b : i \in 1 .. Len(q)
  BY ONLY <1>1, a \in Nat \ {0}, b \in 0 .. Len(q)
<1>3. \A i \in a .. b : q[i] \in S
  BY ONLY <1>1, <1>2
<1> QED BY ONLY <1>2, <1>3, SubSeqProperties

-------------------------------------------------------------------------------
\* The bounds, and values that are not the others.
LEMMA SockConstants ==
  /\ Net!NoSock \notin Net!Socks /\ Net!Socks \in SUBSET Nat
  /\ Net!NoPcb \notin Net!Pcbs /\ Net!Pcbs \in SUBSET Nat /\ 0 .. NPcbs = Net!Pcbs \cup {Net!NoPcb}
  /\ Net!Idle.at = "idle" /\ Net!Idle \in SockCalls
  /\ Net!FreePcb \in [state : PcbStates, arg : Net!Socks \cup {Net!NoSock}, arrived : Nat]
  /\ Net!FreePcb.state = "free" /\ Net!FreePcb.arg = Net!NoSock /\ Net!FreePcb.arrived = 0
BY SocketsAssumption DEF Net!NoSock, Net!Socks, Net!NoPcb, Net!Pcbs, Net!Idle, SockCalls, Net!FreePcb, PcbStates

\* A slot without a socket, and one that was taken.
LEMMA BlankFacts ==
  /\ SockTyped(Net!Blank) /\ ~Net!Blank.used /\ ~Net!Blank.buf /\ Net!Blank.pcb = Net!NoPcb
  /\ Net!Blank.queue = << >> /\ Net!Blank.read = << >> /\ Net!Blank.rx = << >> /\ Net!Blank.state = "closed"
  /\ \A s : /\ SockTyped(Net!Taken(s)) /\ Net!Taken(s).used /\ ~Net!Taken(s).buf
            /\ Net!Taken(s).pcb = Net!NoPcb /\ Net!Taken(s).queue = << >> /\ Net!Taken(s).state = "closed"
            /\ Net!Taken(s).read = << >> /\ Net!Taken(s).rx = << >> /\ Net!Taken(s).type = "tcp"
<1>1. << >> \in Seq(Nat) /\ << >> \in Seq(Net!Socks) /\ Len(<< >>) = 0
  OBVIOUS
<1>2. Net!NoPcb \in 0 .. NPcbs /\ BufSize \in Nat
  BY SocketsAssumption DEF Net!NoPcb
<1>3. /\ ~Net!Blank.used /\ ~Net!Blank.buf /\ Net!Blank.pcb = Net!NoPcb /\ Net!Blank.queue = << >>
      /\ Net!Blank.read = << >> /\ Net!Blank.rx = << >> /\ Net!Blank.state = "closed"
      /\ Net!Blank.used \in BOOLEAN /\ Net!Blank.buf \in BOOLEAN /\ Net!Blank.dropped \in BOOLEAN
      /\ DOMAIN Net!Blank = SockFields
  BY DEF Net!Blank, SockFields
<1>4. \A s : /\ Net!Taken(s).used /\ ~Net!Taken(s).buf /\ Net!Taken(s).pcb = Net!NoPcb
             /\ Net!Taken(s).queue = << >> /\ Net!Taken(s).state = "closed"
             /\ Net!Taken(s).read = << >> /\ Net!Taken(s).rx = << >> /\ Net!Taken(s).type = "tcp"
             /\ Net!Taken(s).used \in BOOLEAN /\ Net!Taken(s).buf \in BOOLEAN
             /\ Net!Taken(s).dropped \in BOOLEAN /\ DOMAIN Net!Taken(s) = SockFields
  BY DEF Net!Blank, Net!Taken, SockFields
<1>5. SockTyped(Net!Blank)
  BY <1>1, <1>2, <1>3 DEF SockTyped
<1>6. ASSUME NEW s PROVE SockTyped(Net!Taken(s))
  <2>1. Len(Net!Taken(s).rx) <= BufSize
    BY <1>1, <1>2, <1>4
  <2> QED BY <1>1, <1>2, <1>4, <2>1 DEF SockTyped
<1> QED BY <1>3, <1>4, <1>5, <1>6

\* What a call is in the middle of.
LEMMA CallFacts ==
  ASSUME NetTyped, NEW t \in Threads
  PROVE  /\ pc[t] = Net!Idle \/ pc[t] \in [at : {"found", "taken", "closing", "marked"}, sock : Net!Socks]
         /\ pc[t].at = "idle" <=> pc[t] = Net!Idle
         /\ pc[t].at # "idle" => pc[t].sock \in Net!Socks
BY SockConstants DEF NetTyped, SockCalls

\* A change in one slot.
LEMMA OneSlot ==
  ASSUME NetTyped, NEW s \in Net!Socks, NEW new, SockTyped(new), sock' = [sock EXCEPT ![s] = new]
  PROVE  /\ sock' = [r \in Net!Socks |-> sock'[r]] /\ \A r \in Net!Socks : SockTyped(sock'[r])
         /\ sock'[s] = new /\ \A r \in Net!Socks \ {s} : sock'[r] = sock[r]
<1>1. DOMAIN sock = Net!Socks /\ \A r \in Net!Socks : SockTyped(sock[r])
  BY DEF NetTyped
<1>2. sock' = [r \in Net!Socks |-> IF r = s THEN new ELSE sock[r]]
  BY <1>1
<1> QED BY <1>1, <1>2

\* What stays when nobody gets or loses a slot.
LEMMA OwnersStay ==
  ASSUME SockOwners, shandle' = shandle,
         \A s \in Net!Socks : sock'[s].used = sock[s].used /\ sock'[s].queue = sock[s].queue,
         \A s \in Net!Socks, t \in Threads : InCall(s, t)' <=> InCall(s, t),
         NetTyped
  PROVE  SockOwners'
<1>1. \A s, q \in Net!Socks : InQueue(s, q)' <=> InQueue(s, q)
  BY DEF InQueue
<1>2. \A h \in Net!Handles : shandle[h] # Net!NoSock => shandle[h] \in Net!Socks
  BY DEF NetTyped
<1>3. SockNamed'
  BY <1>1, <1>2 DEF SockOwners, SockNamed
<1>4. SockOnce'
  BY <1>1, <1>2 DEF SockOwners, SockOnce
<1>5. SockSomebody'
  BY <1>1 DEF SockOwners, SockSomebody
<1> QED BY <1>3, <1>4, <1>5 DEF SockOwners

LEMMA CountedStay ==
  ASSUME SockCounted, buffers' = buffers,
         \A s \in Net!Socks : (Keeping(s) /\ sock[s].buf)' <=> Keeping(s) /\ sock[s].buf
  PROVE  SockCounted'
<1>1. {s \in Net!Socks : Keeping(s) /\ sock[s].buf}' = {s \in Net!Socks : Keeping(s) /\ sock[s].buf}
  OBVIOUS
<1> QED BY <1>1 DEF SockCounted

LEMMA BytesStay ==
  ASSUME SockBytes,
         \A s \in Net!Socks : Keeping(s)' =>
            /\ Keeping(s) /\ SockStream(s)' = SockStream(s) /\ sock'[s].dropped = sock[s].dropped
            /\ sock'[s].pcb = sock[s].pcb \/ sock'[s].pcb = Net!NoPcb
            /\ sock'[s].pcb # Net!NoPcb => pcb'[sock[s].pcb].arrived = pcb[sock[s].pcb].arrived
  PROVE  SockBytes'
BY DEF SockBytes

\* A call or a callback on one socket that is in use, or given up: nobody gets or loses it.
LEMMA SlotChange ==
  ASSUME NetInv, ~overlapped, NEW s \in Net!Socks, NEW new, SockTyped(new),
         sock' = [sock EXCEPT ![s] = new],
         new.used = sock[s].used, new.queue = sock[s].queue, new.buf = sock[s].buf,
         UNCHANGED <<shandle, buffers, pc, overlapped>>,
         pcb' \in [Net!Pcbs -> [state : PcbStates, arg : Net!Socks \cup {Net!NoSock}, arrived : Nat]],
         \A t \in Threads : pc[t].at = "taken" => pc[t].sock # s
  PROVE  /\ NetTyped' /\ SockOwners' /\ SockCalled' /\ SockCounted'
         /\ sock'[s] = new /\ \A r \in Net!Socks \ {s} : sock'[r] = sock[r]
         /\ \A r \in Net!Socks : Keeping(r)' <=> Keeping(r)
         /\ \A r, q \in Net!Socks : InQueue(r, q)' <=> InQueue(r, q)
<1>1. /\ NetTyped /\ SockOwners /\ SockCalled /\ SockCounted
  BY DEF NetInv, SockOwned
<1>2. /\ sock' = [r \in Net!Socks |-> sock'[r]] /\ \A r \in Net!Socks : SockTyped(sock'[r])
      /\ sock'[s] = new /\ \A r \in Net!Socks \ {s} : sock'[r] = sock[r]
  BY <1>1, OneSlot
<1>3. \A r \in Net!Socks : /\ sock'[r].used = sock[r].used /\ sock'[r].queue = sock[r].queue
                           /\ sock'[r].buf = sock[r].buf
  BY <1>2
<1>4. \A r \in Net!Socks : Keeping(r)' <=> Keeping(r)
  BY <1>3 DEF Keeping, Releasing
<1>5. \A r, q \in Net!Socks : InQueue(r, q)' <=> InQueue(r, q)
  BY <1>3 DEF InQueue
<1>6. NetTyped'
  BY <1>1, <1>2 DEF NetTyped
<1>7. SockOwners'
  <2>1. \A r \in Net!Socks, t \in Threads : InCall(r, t)' <=> InCall(r, t)
    BY DEF InCall
  <2> QED BY <1>1, <1>3, <2>1, OwnersStay
<1>8. SockCalled'
  BY <1>1, <1>2, <1>3, CallFacts DEF SockCalled
<1>9. SockCounted'
  BY <1>1, <1>3, <1>4, CountedStay
<1> QED BY <1>2, <1>4, <1>5, <1>6, <1>7, <1>8, <1>9

\* A handle's socket.
LEMMA HandleFacts ==
  ASSUME NetInv, ~overlapped, NEW h \in Net!Handles, shandle[h] # Net!NoSock
  PROVE  /\ shandle[h] \in Net!Socks /\ sock[shandle[h]].used /\ Keeping(shandle[h])
         /\ SockTyped(sock[shandle[h]])
         /\ \A q \in Net!Socks : ~InQueue(shandle[h], q)
         /\ \A t \in Threads : /\ pc[t].at \in {"found", "taken", "closing", "marked"} => pc[t].sock # shandle[h]
         /\ sock[shandle[h]].pcb # Net!NoPcb =>
              /\ sock[shandle[h]].pcb \in Net!Pcbs /\ pcb[sock[shandle[h]].pcb].state # "free"
              /\ \A r \in Net!Socks : Keeping(r) /\ sock[r].pcb = sock[shandle[h]].pcb => r = shandle[h]
<1>1. NetTyped /\ SockOwners /\ SockCalled /\ SockBlocks
  BY DEF NetInv, SockOwned
<1>2. shandle[h] \in Net!Socks /\ sock[shandle[h]].used /\ Keeping(shandle[h])
  BY <1>1 DEF NetTyped, SockOwners, SockNamed, Keeping
<1>3. SockTyped(sock[shandle[h]])
  BY <1>1, <1>2 DEF NetTyped
<1>4. \A q \in Net!Socks : ~InQueue(shandle[h], q)
  BY <1>1 DEF SockOwners, SockOnce
<1>5. \A t \in Threads : pc[t].at \in {"found", "taken", "closing", "marked"} => pc[t].sock # shandle[h]
  BY <1>1, <1>2 DEF SockOwners, SockOnce, InCall, SockCalled
<1>6. sock[shandle[h]].pcb # Net!NoPcb =>
              /\ sock[shandle[h]].pcb \in Net!Pcbs /\ pcb[sock[shandle[h]].pcb].state # "free"
              /\ \A r \in Net!Socks : Keeping(r) /\ sock[r].pcb = sock[shandle[h]].pcb => r = shandle[h]
  BY <1>1, <1>2, <1>3, SockConstants DEF SockBlocks, SockTyped
<1> QED BY <1>2, <1>3, <1>4, <1>5, <1>6

\* A change in one control block.
LEMMA OneBlock ==
  ASSUME NetTyped, NEW p \in Net!Pcbs, NEW new, pcb' = [pcb EXCEPT ![p] = new],
         new \in [state : PcbStates, arg : Net!Socks \cup {Net!NoSock}, arrived : Nat]
  PROVE  /\ pcb' \in [Net!Pcbs -> [state : PcbStates, arg : Net!Socks \cup {Net!NoSock}, arrived : Nat]]
         /\ pcb'[p] = new /\ \A q \in Net!Pcbs \ {p} : pcb'[q] = pcb[q]
BY DEF NetTyped

\* What stays when no state, control block or accept queue changes.
LEMMA StatesStay ==
  ASSUME NetTyped, SockStates, SockBlocks,
         \A s \in Net!Socks :
            /\ sock'[s].state = sock[s].state /\ sock'[s].pcb = sock[s].pcb
            /\ sock'[s].queue = sock[s].queue /\ sock'[s].type = sock[s].type
            /\ Keeping(s)' <=> Keeping(s),
         \A p \in Net!Pcbs :
            \/ pcb'[p] = pcb[p]
            \/ pcb'[p].state = pcb[p].state /\ pcb'[p].arg = pcb[p].arg /\ pcb[p].state \notin {"free", "new"}
  PROVE  SockStates' /\ SockBlocks'
<1>1. \A s, q \in Net!Socks : InQueue(s, q)' <=> InQueue(s, q)
  BY DEF InQueue
<1>2. \A s \in Net!Socks : sock[s].pcb # Net!NoPcb => sock[s].pcb \in Net!Pcbs
  BY SockConstants DEF NetTyped, SockTyped
<1>3. \A p \in Net!Pcbs : pcb[p].arg # Net!NoSock => pcb[p].arg \in Net!Socks
  BY DEF NetTyped
<1>4. \A p \in Net!Pcbs : pcb'[p].state = pcb[p].state /\ pcb'[p].arg = pcb[p].arg
  OBVIOUS
<1>5. SockStates'
  BY <1>1, <1>2, <1>4 DEF SockStates
<1>6. SockBlocks'
  <2>1. ASSUME NEW p \in Net!Pcbs
        PROVE  /\ pcb'[p].state = "free" => pcb'[p] = Net!FreePcb
               /\ pcb'[p].state = "new" => pcb'[p].arrived = 0
               /\ pcb'[p].state \notin {"free", "new"} => pcb'[p].arg # Net!NoSock
               /\ \A a \in Net!Socks : pcb'[p].arg = a => sock'[a].pcb = p /\ Keeping(a)'
               /\ pcb'[p].state = "listen" => sock'[pcb'[p].arg].state = "listening"
               /\ pcb'[p].state # "free" => \E s \in Net!Socks : Keeping(s)' /\ sock'[s].pcb = p
    <3>1. /\ pcb'[p].state = "free" => pcb'[p] = Net!FreePcb
          /\ pcb'[p].state = "new" => pcb'[p].arrived = 0
          /\ pcb'[p].state \notin {"free", "new"} => pcb'[p].arg # Net!NoSock
      BY <1>4 DEF SockBlocks
    <3>2. \A a \in Net!Socks : pcb'[p].arg = a => sock'[a].pcb = p /\ Keeping(a)'
      BY <1>4, SockConstants DEF SockBlocks
    <3>3. pcb'[p].state = "listen" => sock'[pcb'[p].arg].state = "listening"
      BY <1>3, <1>4 DEF SockBlocks
    <3>4. pcb'[p].state # "free" => \E s \in Net!Socks : Keeping(s)' /\ sock'[s].pcb = p
      BY <1>4 DEF SockBlocks
    <3> QED BY <3>1, <3>2, <3>3, <3>4
  <2>2. \A s \in Net!Socks : Keeping(s)' /\ sock'[s].pcb # Net!NoPcb => pcb'[sock'[s].pcb].state # "free"
    BY <1>2, <1>4 DEF SockBlocks
  <2>3. \A s, r \in Net!Socks :
         Keeping(s)' /\ Keeping(r)' /\ sock'[s].pcb # Net!NoPcb /\ sock'[s].pcb = sock'[r].pcb => s = r
    BY DEF SockBlocks
  <2>4. \A p \in Net!Pcbs : pcb'[p].arg # Net!NoSock => pcb'[p].arg \in Net!Socks
    BY <1>3, <1>4
  <2>5. \A p \in Net!Pcbs : pcb'[p].arg # Net!NoSock => (sock[pcb[p].arg].pcb = p /\ Keeping(pcb[p].arg))'
    BY <2>1, <2>4
  <2> QED BY <2>1, <2>2, <2>3, <2>5, <1>4 DEF SockBlocks
<1> QED BY <1>5, <1>6

\* A change in one socket and in its control block, which it keeps or loses.
LEMMA BlockChange ==
  ASSUME NetTyped, SockStates, SockBlocks, NEW s \in Net!Socks, NEW p \in Net!Pcbs, sock[s].pcb = p, Keeping(s),
         \A r \in Net!Socks \ {s} : sock'[r] = sock[r],
         \A q \in Net!Pcbs \ {p} : pcb'[q] = pcb[q],
         \A r \in Net!Socks : Keeping(r)' <=> Keeping(r),
         \A r, q \in Net!Socks : InQueue(r, q)' <=> InQueue(r, q),
         /\ sock'[s].queue # << >> => sock'[s].state = "listening"
         /\ sock'[s].state = "bound" => sock'[s].pcb = p /\ pcb'[p].state = "new"
         /\ sock'[s].state = "listening" => sock'[s].type = "tcp" /\ sock'[s].pcb = p /\ pcb'[p].state = "listen"
         /\ \A q \in Net!Socks : InQueue(s, q) => sock'[s].state \in {"connected", "error"},
         \/ /\ sock'[s].pcb = p /\ pcb'[p].arg = s /\ pcb'[p].state # "free"
            /\ pcb'[p].state = "new" => pcb'[p].arrived = 0
            /\ pcb'[p].state = "listen" => sock'[s].state = "listening"
         \/ sock'[s].pcb = Net!NoPcb /\ pcb'[p] = Net!FreePcb
  PROVE  SockStates' /\ SockBlocks'
<1>1. \A r \in Net!Socks \ {s} : /\ sock'[r].pcb = sock[r].pcb /\ sock'[r].state = sock[r].state
                                 /\ sock'[r].queue = sock[r].queue /\ sock'[r].type = sock[r].type
  OBVIOUS
<1>2. \A r \in Net!Socks \ {s} : Keeping(r) /\ sock[r].pcb # Net!NoPcb => sock[r].pcb \in Net!Pcbs \ {p}
  BY SockConstants DEF NetTyped, SockTyped, SockBlocks
<1>3. \A q \in Net!Pcbs : pcb[q].arg # Net!NoSock => pcb[q].arg \in Net!Socks
  BY DEF NetTyped
<1>4. \A q \in Net!Pcbs \ {p} : pcb[q].arg # Net!NoSock => pcb[q].arg \in Net!Socks \ {s}
  BY <1>3 DEF SockBlocks
<1>5. SockStates'
  <2>1. ASSUME NEW r \in Net!Socks
        PROVE  (/\ sock[r].queue # << >> => Keeping(r) /\ sock[r].state = "listening"
                /\ Keeping(r) /\ sock[r].state = "bound" =>
                      sock[r].pcb # Net!NoPcb /\ pcb[sock[r].pcb].state = "new"
                /\ Keeping(r) /\ sock[r].state = "listening" =>
                      sock[r].type = "tcp" /\ sock[r].pcb # Net!NoPcb /\ pcb[sock[r].pcb].state = "listen"
                /\ \A q \in Net!Socks : InQueue(r, q) => sock[r].state \in {"connected", "error"})'
    <3>1. CASE r = s
      BY <3>1, SockConstants
    <3>2. CASE r # s
      BY <1>1, <1>2, <3>2 DEF SockStates
    <3> QED BY <3>1, <3>2
  <2> QED BY <2>1 DEF SockStates
<1>6. \A q \in Net!Pcbs :
         /\ pcb'[q].state = "free" => pcb'[q] = Net!FreePcb
         /\ pcb'[q].state = "new" => pcb'[q].arrived = 0
         /\ pcb'[q].state \notin {"free", "new"} => pcb'[q].arg # Net!NoSock
  <2>1. CASE sock'[s].pcb = p /\ pcb'[p].arg = s /\ pcb'[p].state # "free" /\ (pcb'[p].state = "new" => pcb'[p].arrived = 0)
    BY <2>1, SockConstants DEF SockBlocks
  <2>2. CASE sock'[s].pcb = Net!NoPcb /\ pcb'[p] = Net!FreePcb
    BY <2>2, SockConstants DEF SockBlocks
  <2> QED BY <2>1, <2>2
<1>7. ASSUME NEW q \in Net!Pcbs, NEW a \in Net!Socks, pcb'[q].arg = a
      PROVE  sock'[a].pcb = q /\ Keeping(a)'
  <2>1. CASE q = p
    BY <1>7, <2>1, SockConstants
  <2>2. CASE q # p
    <3>1. pcb[q].arg = a /\ a # s
      BY <1>7, <2>2, <1>4, SockConstants
    <3> QED BY <2>2, <3>1, SockConstants DEF SockBlocks
  <2> QED BY <2>1, <2>2
<1>8. ASSUME NEW q \in Net!Pcbs
      PROVE  (pcb[q].arg # Net!NoSock => sock[pcb[q].arg].pcb = q /\ Keeping(pcb[q].arg))'
  <2>1. pcb'[q].arg # Net!NoSock => pcb'[q].arg \in Net!Socks
    BY <1>3, SockConstants
  <2> QED BY <1>7, <2>1
<1>9. ASSUME NEW q \in Net!Pcbs
      PROVE  (pcb[q].state = "listen" => sock[pcb[q].arg].state = "listening")'
  <2>1. CASE q = p
    BY <2>1, SockConstants
  <2>2. CASE q # p
    BY <2>2, <1>4 DEF SockBlocks
  <2> QED BY <2>1, <2>2
<1>10. ASSUME NEW q \in Net!Pcbs
       PROVE  (pcb[q].state # "free" => \E r \in Net!Socks : Keeping(r) /\ sock[r].pcb = q)'
  <2>1. CASE q = p
    BY <2>1, SockConstants
  <2>2. CASE q # p
    <3>1. ASSUME pcb[q].state # "free" PROVE \E r \in Net!Socks : Keeping(r)' /\ sock'[r].pcb = q
      <4>1. PICK r \in Net!Socks : Keeping(r) /\ sock[r].pcb = q
        BY <3>1 DEF SockBlocks
      <4> QED BY <2>2, <4>1
    <3> QED BY <2>2, <3>1
  <2> QED BY <2>1, <2>2
<1>11. \A r \in Net!Socks : Keeping(r)' /\ sock'[r].pcb # Net!NoPcb => pcb'[sock'[r].pcb].state # "free"
  BY <1>1, <1>2 DEF SockBlocks
<1>12. \A r, q \in Net!Socks :
         Keeping(r)' /\ Keeping(q)' /\ sock'[r].pcb # Net!NoPcb /\ sock'[r].pcb = sock'[q].pcb => r = q
  BY <1>1, <1>2 DEF SockBlocks
<1>13. SockBlocks'
  BY <1>6, <1>8, <1>9, <1>10, <1>11, <1>12 DEF SockBlocks
<1> QED BY <1>5, <1>13

LEMMA NetBind ==
  ASSUME NetInv, ~overlapped, NEW t \in Threads, NEW h \in Net!Handles, Net!Bind(t, h)
  PROVE  NetInv'
<1> DEFINE s == shandle[h]
           new == [sock[s] EXCEPT !.state = "bound"]
<1>1. NetTyped /\ SockStates /\ SockBlocks /\ SockBytes
  BY DEF NetInv, SockOwned
<1>2. /\ s # Net!NoSock /\ sock' = [sock EXCEPT ![s] = new] /\ sock[s].pcb # Net!NoPcb
      /\ pcb[sock[s].pcb].state = "new" /\ UNCHANGED <<pcb, shandle, buffers, pc, overlapped>>
  BY DEF Net!Bind
<1>3. /\ s \in Net!Socks /\ SockTyped(sock[s]) /\ \A q \in Net!Socks : ~InQueue(s, q)
      /\ sock[s].pcb \in Net!Pcbs /\ Keeping(s) /\ \A u \in Threads : pc[u].at = "taken" => pc[u].sock # s
  BY <1>2, HandleFacts
<1>4. /\ SockTyped(new) /\ new.used = sock[s].used /\ new.queue = sock[s].queue /\ new.buf = sock[s].buf
      /\ new.pcb = sock[s].pcb /\ new.state = "bound" /\ new.type = sock[s].type /\ new.read = sock[s].read
      /\ new.rx = sock[s].rx /\ new.dropped = sock[s].dropped
  BY <1>3 DEF SockTyped, SockFields
<1> HIDE DEF new
<1>5. /\ NetTyped' /\ SockOwners' /\ SockCalled' /\ SockCounted'
      /\ sock'[s] = new /\ \A r \in Net!Socks \ {s} : sock'[r] = sock[r]
      /\ \A r \in Net!Socks : Keeping(r)' <=> Keeping(r)
      /\ \A r, q \in Net!Socks : InQueue(r, q)' <=> InQueue(r, q)
  <2>1. pcb' \in [Net!Pcbs -> [state : PcbStates, arg : Net!Socks \cup {Net!NoSock}, arrived : Nat]]
    BY <1>1, <1>2 DEF NetTyped
  <2> QED BY <1>2, <1>3, <1>4, <2>1, SlotChange
<1> HIDE DEF s
<1>6. sock[s].queue = << >>
  BY <1>1, <1>2, <1>3 DEF SockStates
<1>7. SockStates'
  BY <1>1, <1>2, <1>3, <1>4, <1>5, <1>6 DEF SockStates
<1>8. SockBlocks'
  <2>1. \A r \in Net!Socks : sock'[r].pcb = sock[r].pcb
    BY <1>4, <1>5
  <2>2. \A p \in Net!Pcbs : pcb[p].arg # Net!NoSock => pcb[p].arg \in Net!Socks
    BY <1>1 DEF NetTyped
  <2>3. \A p \in Net!Pcbs : pcb[p].state = "listen" =>
            pcb[p].arg \in Net!Socks /\ sock'[pcb[p].arg] = sock[pcb[p].arg]
    BY <1>1, <1>2, <1>5, <2>2 DEF SockBlocks
  <2> QED BY <1>1, <1>2, <1>5, <2>1, <2>2, <2>3 DEF SockBlocks
<1>9. SockBytes'
  <2>1. \A r \in Net!Socks : /\ SockStream(r)' = SockStream(r)
                             /\ sock'[r].dropped = sock[r].dropped /\ sock'[r].pcb = sock[r].pcb
    BY <1>4, <1>5 DEF SockStream
  <2> QED BY <1>1, <1>2, <1>5, <2>1, BytesStay
<1> QED BY <1>2, <1>5, <1>7, <1>8, <1>9 DEF NetInv, SockOwned
LEMMA NetListen ==
  ASSUME NetInv, ~overlapped, NEW t \in Threads, NEW h \in Net!Handles, Net!Listen(t, h)
  PROVE  NetInv'
<1> DEFINE s == shandle[h]
           new == [sock[s] EXCEPT !.state = "listening", !.queue = << >>]
<1>1. NetTyped /\ SockStates /\ SockBlocks /\ SockBytes
  BY DEF NetInv, SockOwned
<1>2. /\ s # Net!NoSock /\ sock' = [sock EXCEPT ![s] = new] /\ sock[s].type = "tcp"
      /\ sock[s].state = "bound" /\ UNCHANGED <<shandle, buffers, pc, overlapped>>
      /\ pcb' = [pcb EXCEPT ![sock[s].pcb] = [@ EXCEPT !.state = "listen", !.arg = s]]
  BY DEF Net!Listen
<1>3. /\ s \in Net!Socks /\ SockTyped(sock[s]) /\ \A q \in Net!Socks : ~InQueue(s, q)
      /\ Keeping(s) /\ \A u \in Threads : pc[u].at = "taken" => pc[u].sock # s
      /\ sock[s].pcb # Net!NoPcb =>
           /\ sock[s].pcb \in Net!Pcbs
           /\ \A r \in Net!Socks : Keeping(r) /\ sock[r].pcb = sock[s].pcb => r = s
  BY <1>2, HandleFacts
<1> HIDE DEF s
<1>4. sock[s].pcb \in Net!Pcbs /\ pcb[sock[s].pcb].state = "new" /\ sock[s].queue = << >>
  BY <1>1, <1>2, <1>3 DEF SockStates
<1>5. PICK p \in Net!Pcbs : p = sock[s].pcb
  BY <1>4
<1>6. PICK b : b = [pcb[p] EXCEPT !.state = "listen", !.arg = s]
  OBVIOUS
<1>7. /\ b \in [state : PcbStates, arg : Net!Socks \cup {Net!NoSock}, arrived : Nat]
      /\ b.state = "listen" /\ b.arg = s /\ pcb' = [pcb EXCEPT ![p] = b]
  BY <1>1, <1>2, <1>3, <1>5, <1>6 DEF NetTyped, PcbStates
<1>8. /\ pcb' \in [Net!Pcbs -> [state : PcbStates, arg : Net!Socks \cup {Net!NoSock}, arrived : Nat]]
      /\ pcb'[p] = b /\ \A q \in Net!Pcbs \ {p} : pcb'[q] = pcb[q]
  BY <1>1, <1>7, OneBlock
<1>9. /\ SockTyped(new) /\ new.used = sock[s].used /\ new.queue = sock[s].queue /\ new.buf = sock[s].buf
      /\ new.pcb = p /\ new.state = "listening" /\ new.type = "tcp" /\ new.read = sock[s].read
      /\ new.rx = sock[s].rx /\ new.dropped = sock[s].dropped
  BY <1>2, <1>3, <1>4, <1>5 DEF SockTyped, SockFields
<1> HIDE DEF new
<1>10. /\ NetTyped' /\ SockOwners' /\ SockCalled' /\ SockCounted'
       /\ sock'[s] = new /\ \A r \in Net!Socks \ {s} : sock'[r] = sock[r]
       /\ \A r \in Net!Socks : Keeping(r)' <=> Keeping(r)
       /\ \A r, q \in Net!Socks : InQueue(r, q)' <=> InQueue(r, q)
  BY <1>2, <1>3, <1>8, <1>9, SlotChange
<1>11. SockStates' /\ SockBlocks'
  <2>1. sock'[s].state = "listening" /\ sock'[s].type = "tcp" /\ sock'[s].pcb = p /\ pcb'[p].state = "listen" /\ pcb'[p].arg = s
    BY <1>7, <1>8, <1>9, <1>10
  <2> QED BY <1>1, <1>3, <1>5, <1>8, <1>10, <2>1, BlockChange
<1>13. SockBytes'
  <2>1. \A r \in Net!Socks : /\ SockStream(r)' = SockStream(r)
                             /\ sock'[r].dropped = sock[r].dropped /\ sock'[r].pcb = sock[r].pcb
    BY <1>5, <1>9, <1>10 DEF SockStream
  <2>2. b.arrived = pcb[p].arrived
    BY <1>1, <1>6 DEF NetTyped
  <2>3. \A r \in Net!Socks : sock[r].pcb # Net!NoPcb => pcb'[sock[r].pcb].arrived = pcb[sock[r].pcb].arrived
    BY <1>1, <1>8, <2>2, SockConstants DEF NetTyped, SockTyped
  <2> QED BY <1>1, <1>10, <2>1, <2>3, BytesStay
<1> QED BY <1>2, <1>10, <1>11, <1>13 DEF NetInv, SockOwned

LEMMA NetConnect ==
  ASSUME NetInv, ~overlapped, NEW t \in Threads, NEW h \in Net!Handles, NEW ok \in BOOLEAN, Net!Connect(t, h, ok)
  PROVE  NetInv'
<1> DEFINE s == shandle[h]
           into == IF ok THEN "connecting" ELSE "error"
           kind == IF ok THEN "syn" ELSE pcb[sock[s].pcb].state
           new == [sock[s] EXCEPT !.state = into]
<1>1. NetTyped /\ SockStates /\ SockBlocks /\ SockBytes
  BY DEF NetInv, SockOwned
<1>2. /\ s # Net!NoSock /\ sock' = [sock EXCEPT ![s] = new] /\ sock[s].pcb # Net!NoPcb
      /\ sock[s].state = "closed" /\ UNCHANGED <<shandle, buffers, pc, overlapped>>
      /\ pcb' = [pcb EXCEPT ![sock[s].pcb] = [pcb[sock[s].pcb] EXCEPT !.state = kind, !.arg = s]]
  BY DEF Net!Connect
<1>3. /\ s \in Net!Socks /\ SockTyped(sock[s]) /\ \A q \in Net!Socks : ~InQueue(s, q)
      /\ Keeping(s) /\ \A u \in Threads : pc[u].at = "taken" => pc[u].sock # s
      /\ sock[s].pcb \in Net!Pcbs /\ pcb[sock[s].pcb].state # "free"
  BY <1>2, HandleFacts
<1> HIDE DEF s
<1>4. sock[s].queue = << >>
  BY <1>1, <1>2, <1>3 DEF SockStates
<1>5. PICK p \in Net!Pcbs : p = sock[s].pcb
  BY <1>3
<1>6. PICK b : b = [pcb[p] EXCEPT !.state = kind, !.arg = s]
  OBVIOUS
<1>7. /\ b \in [state : PcbStates, arg : Net!Socks \cup {Net!NoSock}, arrived : Nat]
      /\ b.state \in {"syn", pcb[p].state} /\ b.arg = s /\ b.arrived = pcb[p].arrived
      /\ pcb' = [pcb EXCEPT ![p] = b]
  BY <1>1, <1>2, <1>3, <1>5, <1>6 DEF NetTyped, PcbStates
<1>8. /\ pcb' \in [Net!Pcbs -> [state : PcbStates, arg : Net!Socks \cup {Net!NoSock}, arrived : Nat]]
      /\ pcb'[p] = b /\ \A q \in Net!Pcbs \ {p} : pcb'[q] = pcb[q]
  BY <1>1, <1>7, OneBlock
<1>9. /\ SockTyped(new) /\ new.used = sock[s].used /\ new.queue = sock[s].queue /\ new.buf = sock[s].buf
      /\ new.pcb = p /\ new.state \in {"connecting", "error"} /\ new.read = sock[s].read
      /\ new.rx = sock[s].rx /\ new.dropped = sock[s].dropped
  BY <1>2, <1>3, <1>4, <1>5 DEF SockTyped, SockFields
<1> HIDE DEF new
<1>10. /\ NetTyped' /\ SockOwners' /\ SockCalled' /\ SockCounted'
       /\ sock'[s] = new /\ \A r \in Net!Socks \ {s} : sock'[r] = sock[r]
       /\ \A r \in Net!Socks : Keeping(r)' <=> Keeping(r)
       /\ \A r, q \in Net!Socks : InQueue(r, q)' <=> InQueue(r, q)
  BY <1>2, <1>3, <1>8, <1>9, SlotChange
<1>11. SockStates' /\ SockBlocks'
  <2>1. pcb[p].state # "listen"
    <3>1. ASSUME pcb[p].state = "listen" PROVE FALSE
      <4>1. pcb[p].arg \in Net!Socks /\ sock[pcb[p].arg].pcb = p /\ Keeping(pcb[p].arg) /\ sock[pcb[p].arg].state = "listening"
        BY <1>1, <3>1 DEF SockBlocks, NetTyped
      <4>2. pcb[p].arg = s
        BY <1>1, <1>3, <1>5, <4>1, SockConstants DEF SockBlocks
      <4> QED BY <1>2, <4>1, <4>2
    <3> QED BY <3>1
  <2>2. /\ b.state # "free" /\ b.state # "listen"
        /\ b.state = "new" => b.arrived = 0
    BY <1>1, <1>3, <1>5, <1>7, <2>1 DEF SockBlocks
  <2>3. /\ sock'[s].state \in {"connecting", "error"} /\ sock'[s].queue = << >> /\ sock'[s].pcb = p
        /\ pcb'[p] = b
    BY <1>4, <1>8, <1>9, <1>10
  <2>4. /\ pcb'[p].arg = s /\ pcb'[p].state # "free" /\ pcb'[p].state # "listen"
        /\ (pcb'[p].state = "new" => pcb'[p].arrived = 0)
    BY <1>7, <2>2, <2>3
  <2> QED BY <1>1, <1>3, <1>5, <1>8, <1>10, <2>3, <2>4, BlockChange
<1>12. SockBytes'
  <2>1. \A r \in Net!Socks : /\ SockStream(r)' = SockStream(r)
                             /\ sock'[r].dropped = sock[r].dropped /\ sock'[r].pcb = sock[r].pcb
    BY <1>5, <1>9, <1>10 DEF SockStream
  <2>2. \A r \in Net!Socks : sock[r].pcb # Net!NoPcb => pcb'[sock[r].pcb].arrived = pcb[sock[r].pcb].arrived
    BY <1>1, <1>7, <1>8, SockConstants DEF NetTyped, SockTyped
  <2> QED BY <1>1, <1>10, <2>1, <2>2, BytesStay
<1> QED BY <1>2, <1>10, <1>11, <1>12 DEF NetInv, SockOwned

LEMMA NetMin ==
  ASSUME NEW a \in Nat, NEW b \in Nat
  PROVE  Net!Min({a, b}) = IF a <= b THEN a ELSE b
BY DEF Net!Min

LEMMA NetRecv ==
  ASSUME NetInv, ~overlapped, NEW t \in Threads, NEW h \in Net!Handles, NEW len \in Nat, Net!Recv(t, h, len)
  PROVE  NetInv'
<1> DEFINE s == shandle[h]
<1>1. NetTyped /\ SockStates /\ SockBlocks /\ SockBytes
  BY DEF NetInv, SockOwned
<1>2. PICK n : n = Net!Min({len, Len(sock[s].rx)})
  OBVIOUS
<1>3. PICK old : old = sock[s]
  OBVIOUS
<1> DEFINE new == [old EXCEPT !.read = @ \o SubSeq(old.rx, 1, n), !.rx = SubSeq(@, n + 1, Len(@))]
<1>4. /\ s # Net!NoSock /\ sock' = [sock EXCEPT ![s] = new]
      /\ UNCHANGED <<pcb, shandle, buffers, pc, overlapped>>
  BY <1>2, <1>3 DEF Net!Recv
<1>5. /\ s \in Net!Socks /\ SockTyped(old) /\ Keeping(s)
      /\ \A u \in Threads : pc[u].at = "taken" => pc[u].sock # s
  BY <1>3, <1>4, HandleFacts
<1> HIDE DEF s
<1>6. Len(old.rx) \in Nat /\ old.rx \in Seq(Nat) /\ old.read \in Seq(Nat) /\ Len(old.rx) <= BufSize
  BY <1>5 DEF SockTyped
<1>7. n \in 0 .. Len(old.rx)
  <2>1. PICK m \in Nat : m = Len(old.rx)
    BY <1>6
  <2>2. n = Net!Min({len, m})
    BY <1>2, <1>3, <2>1
  <2> QED BY <2>1, <2>2, NetMin
<1>8. PICK first : first = SubSeq(old.rx, 1, n)
  OBVIOUS
<1>9. PICK rest : rest = SubSeq(old.rx, n + 1, Len(old.rx))
  OBVIOUS
<1>10. /\ first \in Seq(Nat) /\ rest \in Seq(Nat) /\ Len(rest) <= Len(old.rx)
       /\ first \o rest = old.rx
  <2>1. PICK q : q = old.rx
    OBVIOUS
  <2>2. q \in Seq(Nat) /\ n \in 0 .. Len(q) /\ Len(q) \in 0 .. Len(q)
        /\ 1 \in Nat \ {0} /\ n + 1 \in Nat \ {0}
    BY ONLY <1>6, <1>7, <2>1
  <2>3. /\ first \in Seq(Nat) /\ rest \in Seq(Nat)
        /\ Len(rest) = IF n + 1 <= Len(q) THEN Len(q) - (n + 1) + 1 ELSE 0
    BY ONLY <1>8, <1>9, <2>1, <2>2, TakenOf
  <2>4. first \o rest = SubSeq(old.rx, 1, Len(old.rx))
    <3>1. 1 \in 1 .. Len(old.rx) + 1 /\ n \in 1 - 1 .. Len(old.rx) /\ Len(old.rx) \in n .. Len(old.rx)
      BY <1>6, <1>7
    <3> QED BY <1>6, <1>8, <1>9, <3>1, ConcatAdjacentSubSeq
  <2>5. Len(rest) <= Len(old.rx)
    BY ONLY <1>6, <1>7, <2>1, <2>3
  <2> QED BY <1>6, <2>3, <2>4, <2>5, SubSeqFull
<1>11. /\ DOMAIN new = SockFields /\ new.used = old.used /\ new.queue = old.queue /\ new.buf = old.buf
       /\ new.pcb = old.pcb /\ new.state = old.state /\ new.type = old.type /\ new.dropped = old.dropped
       /\ new.read = old.read \o first /\ new.rx = rest
  BY <1>5, <1>8, <1>9 DEF SockTyped, SockFields
<1> HIDE DEF new
<1>12. SockTyped(new)
  <2>1. new.read \in Seq(Nat) /\ new.rx \in Seq(Nat) /\ Len(new.rx) <= BufSize
    BY <1>6, <1>10, <1>11, ConcatProperties, SocketsAssumption
  <2> QED BY <1>5, <1>11, <2>1 DEF SockTyped
<1>13. new.read \o new.rx = old.read \o old.rx
  <2>1. PICK all \in Seq(Nat) : all = old.read
    BY <1>6
  <2>2. first \in Seq(Nat) /\ rest \in Seq(Nat)
    BY <1>10
  <2>3. (all \o first) \o rest = all \o (first \o rest)
    BY <2>2, NumbersAssociative
  <2> QED BY <1>10, <1>11, <2>1, <2>3
<1>14. /\ NetTyped' /\ SockOwners' /\ SockCalled' /\ SockCounted'
       /\ sock'[s] = new /\ \A r \in Net!Socks \ {s} : sock'[r] = sock[r]
       /\ \A r \in Net!Socks : Keeping(r)' <=> Keeping(r)
       /\ \A r, q \in Net!Socks : InQueue(r, q)' <=> InQueue(r, q)
  <2>1. pcb' \in [Net!Pcbs -> [state : PcbStates, arg : Net!Socks \cup {Net!NoSock}, arrived : Nat]]
    BY <1>1, <1>4 DEF NetTyped
  <2>2. new.used = sock[s].used /\ new.queue = sock[s].queue /\ new.buf = sock[s].buf
    BY <1>3, <1>11
  <2> QED BY <1>4, <1>5, <1>12, <2>1, <2>2, SlotChange
<1>15. SockStates' /\ SockBlocks'
  <2>1. \A r \in Net!Socks : /\ sock'[r].state = sock[r].state /\ sock'[r].pcb = sock[r].pcb
                             /\ sock'[r].queue = sock[r].queue /\ sock'[r].type = sock[r].type
    BY <1>3, <1>11, <1>14
  <2> QED BY <1>1, <1>4, <1>14, <2>1, StatesStay
<1>16. SockBytes'
  <2>1. \A r \in Net!Socks : /\ SockStream(r)' = SockStream(r)
                             /\ sock'[r].dropped = sock[r].dropped /\ sock'[r].pcb = sock[r].pcb
    BY <1>3, <1>11, <1>13, <1>14 DEF SockStream
  <2> QED BY <1>1, <1>4, <1>14, <2>1, BytesStay
<1> QED BY <1>4, <1>14, <1>15, <1>16 DEF NetInv, SockOwned

LEMMA NetSend ==
  ASSUME NetInv, ~overlapped, NEW t \in Threads, NEW h \in Net!Handles, NEW vec, NEW room, Net!Send(t, h, vec, room)
  PROVE  NetInv'
<1> DEFINE s == shandle[h]
<1>1. NetTyped /\ SockStates /\ SockBlocks /\ SockBytes
  BY DEF NetInv, SockOwned
<1>2. PICK out : out = Net!Outgoing(Len(sock[s].wire), vec, room)
  OBVIOUS
<1>3. PICK old : old = sock[s]
  OBVIOUS
<1> DEFINE new == [old EXCEPT !.wire = @ \o out, !.cut = Net!Cuts(vec, room)]
<1>4. /\ s # Net!NoSock /\ sock' = [sock EXCEPT ![s] = new]
      /\ UNCHANGED <<pcb, shandle, buffers, pc, overlapped>>
  BY <1>2, <1>3 DEF Net!Send
<1>5. /\ s \in Net!Socks /\ SockTyped(old) /\ Keeping(s)
      /\ \A u \in Threads : pc[u].at = "taken" => pc[u].sock # s
  BY <1>3, <1>4, HandleFacts
<1> HIDE DEF s
<1>6. /\ DOMAIN new = SockFields /\ new.used = old.used /\ new.queue = old.queue /\ new.buf = old.buf
      /\ new.pcb = old.pcb /\ new.state = old.state /\ new.type = old.type /\ new.dropped = old.dropped
      /\ new.read = old.read /\ new.rx = old.rx
  BY <1>5 DEF SockTyped, SockFields
<1> HIDE DEF new
<1>7. SockTyped(new)
  BY <1>5, <1>6 DEF SockTyped
<1>8. /\ NetTyped' /\ SockOwners' /\ SockCalled' /\ SockCounted'
      /\ sock'[s] = new /\ \A r \in Net!Socks \ {s} : sock'[r] = sock[r]
      /\ \A r \in Net!Socks : Keeping(r)' <=> Keeping(r)
      /\ \A r, q \in Net!Socks : InQueue(r, q)' <=> InQueue(r, q)
  <2>1. pcb' \in [Net!Pcbs -> [state : PcbStates, arg : Net!Socks \cup {Net!NoSock}, arrived : Nat]]
    BY <1>1, <1>4 DEF NetTyped
  <2>2. new.used = sock[s].used /\ new.queue = sock[s].queue /\ new.buf = sock[s].buf
    BY <1>3, <1>6
  <2> QED BY <1>4, <1>5, <1>7, <2>1, <2>2, SlotChange
<1>9. SockStates' /\ SockBlocks'
  <2>1. \A r \in Net!Socks : /\ sock'[r].state = sock[r].state /\ sock'[r].pcb = sock[r].pcb
                             /\ sock'[r].queue = sock[r].queue /\ sock'[r].type = sock[r].type
    BY <1>3, <1>6, <1>8
  <2> QED BY <1>1, <1>4, <1>8, <2>1, StatesStay
<1>10. SockBytes'
  <2>1. \A r \in Net!Socks : /\ SockStream(r)' = SockStream(r)
                             /\ sock'[r].dropped = sock[r].dropped /\ sock'[r].pcb = sock[r].pcb
    BY <1>3, <1>6, <1>8 DEF SockStream
  <2> QED BY <1>1, <1>4, <1>8, <2>1, BytesStay
<1> QED BY <1>4, <1>8, <1>9, <1>10 DEF NetInv, SockOwned

\* The socket a callback is for.
LEMMA CallbackFacts ==
  ASSUME NetInv, ~overlapped, NEW p \in Net!Pcbs, pcb[p].state \notin {"free", "new"}
  PROVE  /\ pcb[p].arg \in Net!Socks /\ SockTyped(sock[pcb[p].arg]) /\ sock[pcb[p].arg].pcb = p
         /\ Keeping(pcb[p].arg)
         /\ \A t \in Threads : pc[t].at = "taken" => pc[t].sock # pcb[p].arg
         /\ pcb[p].state # "listen" => sock[pcb[p].arg].state # "listening" /\ sock[pcb[p].arg].queue = << >>
         /\ \A r \in Net!Socks : Keeping(r) /\ sock[r].pcb = p => r = pcb[p].arg
<1>1. NetTyped /\ SockStates /\ SockBlocks /\ SockCalled
  BY DEF NetInv, SockOwned
<1>2. pcb[p].arg \in Net!Socks /\ sock[pcb[p].arg].pcb = p /\ Keeping(pcb[p].arg)
  BY <1>1 DEF SockBlocks, NetTyped
<1>3. SockTyped(sock[pcb[p].arg])
  BY <1>1, <1>2 DEF NetTyped
<1>4. \A t \in Threads : pc[t].at = "taken" => pc[t].sock # pcb[p].arg
  BY <1>1, <1>2, BlankFacts, SockConstants DEF SockCalled
<1>5. pcb[p].state # "listen" => sock[pcb[p].arg].state # "listening" /\ sock[pcb[p].arg].queue = << >>
  BY <1>1, <1>2 DEF SockStates
<1>6. \A r \in Net!Socks : Keeping(r) /\ sock[r].pcb = p => r = pcb[p].arg
  BY <1>1, <1>2, SockConstants DEF SockBlocks
<1> QED BY <1>2, <1>3, <1>4, <1>5, <1>6

LEMMA NetConnectedFinished ==
  ASSUME NetInv, ~overlapped, NEW p \in Net!Pcbs, Net!Connected(p) \/ Net!Finished(p) \/ Net!Failed(p)
  PROVE  NetInv'
<1>1. NetTyped /\ SockStates /\ SockBlocks /\ SockBytes
  BY DEF NetInv, SockOwned
<1>2. PICK s : s = pcb[p].arg
  OBVIOUS
<1>3. PICK new, b :
        /\ \/ /\ new = [sock[s] EXCEPT !.state = "connected"] /\ b = [pcb[p] EXCEPT !.state = "open"]
              /\ pcb[p].state = "syn"
           \/ /\ new = [sock[s] EXCEPT !.state = "error"] /\ b = [pcb[p] EXCEPT !.state = "half"]
              /\ pcb[p].state = "open"
           \/ /\ new = [sock[s] EXCEPT !.state = "error", !.pcb = Net!NoPcb] /\ b = Net!FreePcb
              /\ pcb[p].state \in {"syn", "open", "half"}
        /\ sock' = [sock EXCEPT ![s] = new] /\ pcb' = [pcb EXCEPT ![p] = b]
        /\ UNCHANGED <<shandle, buffers, pc, overlapped>>
  <2>1. CASE Net!Connected(p)
    BY <1>2, <2>1 DEF Net!Connected
  <2>2. CASE Net!Finished(p)
    BY <1>2, <2>2 DEF Net!Finished
  <2>3. CASE Net!Failed(p)
    BY <1>2, <2>3 DEF Net!Failed
  <2> QED BY <2>1, <2>2, <2>3
<1>4. pcb[p].state \in {"syn", "open", "half"}
  BY <1>3
<1>5. /\ s \in Net!Socks /\ SockTyped(sock[s]) /\ sock[s].pcb = p /\ Keeping(s)
      /\ \A t \in Threads : pc[t].at = "taken" => pc[t].sock # s
      /\ sock[s].queue = << >> /\ \A r \in Net!Socks : Keeping(r) /\ sock[r].pcb = p => r = s
  BY <1>2, <1>4, CallbackFacts
<1>6. pcb[p] \in [state : PcbStates, arg : Net!Socks \cup {Net!NoSock}, arrived : Nat]
  BY <1>1 DEF NetTyped
<1>7. /\ b \in [state : PcbStates, arg : Net!Socks \cup {Net!NoSock}, arrived : Nat]
      /\ \/ b.state \in {"open", "half"} /\ b.arg = s /\ b.arrived = pcb[p].arrived /\ new.pcb = p
         \/ b = Net!FreePcb /\ new.pcb = Net!NoPcb
  <2>1. CASE b = Net!FreePcb /\ new = [sock[s] EXCEPT !.state = "error", !.pcb = Net!NoPcb]
    BY <1>5, <2>1, SockConstants DEF SockTyped, SockFields
  <2>2. CASE b = [pcb[p] EXCEPT !.state = "open"] /\ new = [sock[s] EXCEPT !.state = "connected"]
    BY <1>2, <1>5, <1>6, <2>2 DEF PcbStates, SockTyped, SockFields
  <2>3. CASE b = [pcb[p] EXCEPT !.state = "half"] /\ new = [sock[s] EXCEPT !.state = "error"]
    BY <1>2, <1>5, <1>6, <2>3 DEF PcbStates, SockTyped, SockFields
  <2> QED BY ONLY <1>3, <2>1, <2>2, <2>3
<1>8. /\ pcb' \in [Net!Pcbs -> [state : PcbStates, arg : Net!Socks \cup {Net!NoSock}, arrived : Nat]]
      /\ pcb'[p] = b /\ \A q \in Net!Pcbs \ {p} : pcb'[q] = pcb[q]
  BY <1>1, <1>3, <1>7, OneBlock
<1>9. /\ DOMAIN new = SockFields /\ new.used = sock[s].used /\ new.queue = sock[s].queue
      /\ new.buf = sock[s].buf /\ new.state \in {"connected", "error"} /\ new.read = sock[s].read
      /\ new.rx = sock[s].rx /\ new.dropped = sock[s].dropped
  BY <1>3, <1>5 DEF SockTyped, SockFields
<1>10. SockTyped(new)
  BY <1>5, <1>7, <1>9, SockConstants DEF SockTyped
<1>11. /\ NetTyped' /\ SockOwners' /\ SockCalled' /\ SockCounted'
       /\ sock'[s] = new /\ \A r \in Net!Socks \ {s} : sock'[r] = sock[r]
       /\ \A r \in Net!Socks : Keeping(r)' <=> Keeping(r)
       /\ \A r, q \in Net!Socks : InQueue(r, q)' <=> InQueue(r, q)
  BY <1>3, <1>5, <1>8, <1>9, <1>10, SlotChange
<1>12. SockStates' /\ SockBlocks'
  <2>1. sock'[s].state \in {"connected", "error"} /\ sock'[s].queue = << >>
    BY <1>5, <1>9, <1>11
  <2>2. \/ sock'[s].pcb = p /\ pcb'[p].arg = s /\ pcb'[p].state \in {"open", "half"}
        \/ sock'[s].pcb = Net!NoPcb /\ pcb'[p] = Net!FreePcb
    BY <1>7, <1>8, <1>11
  <2> QED BY <1>1, <1>5, <1>8, <1>11, <2>1, <2>2, BlockChange
<1>13. SockBytes'
  <2>1. \A r \in Net!Socks : SockStream(r)' = SockStream(r) /\ sock'[r].dropped = sock[r].dropped
    BY <1>9, <1>11 DEF SockStream
  <2>2. \A r \in Net!Socks : Keeping(r) /\ r # s => sock[r].pcb # p
    BY <1>5
  <2>3. ASSUME NEW r \in Net!Socks, Keeping(r)
        PROVE  /\ sock'[r].pcb = sock[r].pcb \/ sock'[r].pcb = Net!NoPcb
               /\ sock'[r].pcb # Net!NoPcb => pcb'[sock[r].pcb].arrived = pcb[sock[r].pcb].arrived
    <3>1. CASE r = s
      BY <1>5, <1>7, <1>8, <1>11, <3>1, SockConstants
    <3>2. CASE r # s
      BY <1>1, <1>8, <1>11, <2>2, <2>3, <3>2, SockConstants DEF NetTyped, SockTyped
    <3> QED BY <3>1, <3>2
  <2> QED BY <1>1, <1>11, <2>1, <2>3, BytesStay
<1> QED BY <1>3, <1>11, <1>12, <1>13 DEF NetInv, SockOwned

\* What arrives goes behind what arrived.
Grown(all, m, whole, k, at) ==
    /\ DOMAIN all = 1 .. m /\ DOMAIN whole = 1 .. m + k
    /\ \A i \in 1 .. m : all[i] \in Nat /\ whole[i] = all[i]
    /\ \A i \in 1 .. k : whole[m + i] = at + i

LEMMA StreamOrder ==
  ASSUME NEW m \in Nat, NEW k \in Nat, NEW at \in Nat, NEW all, NEW whole,
         Grown(all, m, whole, k, at), Rising(all), UpTo(all, at)
  PROVE  /\ Rising(whole) /\ UpTo(whole, at + k)
         /\ m = at /\ Gapless(all) => Gapless(whole)
<1> USE DEF Grown
<1>1. ASSUME NEW i \in 1 .. m + k, i > m PROVE \E j \in 1 .. k : i = m + j /\ whole[i] = at + j
  <2>1. PICK j \in Int : j = i - m
    OBVIOUS
  <2>2. j \in 1 .. k /\ i = m + j
    BY <1>1, <2>1
  <2> QED BY <2>2
<1>2. ASSUME NEW i \in 1 .. m + k, i <= m PROVE i \in 1 .. m /\ whole[i] = all[i] /\ all[i] \in Nat /\ all[i] <= at
  <2>1. i \in 1 .. m
    BY <1>2
  <2> QED BY <2>1 DEF UpTo
<1>3. ASSUME NEW i \in 1 .. m + k, NEW j \in 1 .. m + k, i < j PROVE whole[i] < whole[j]
  <2>1. CASE j <= m
    <3>1. i <= m
      BY <1>3, <2>1
    <3>2. i \in 1 .. m /\ j \in 1 .. m /\ whole[i] = all[i] /\ whole[j] = all[j]
      BY <1>2, <2>1, <3>1
    <3>3. all[i] < all[j]
      BY <1>3, <3>2 DEF Rising
    <3> QED BY <3>2, <3>3
  <2>2. CASE j > m
    <3>1. PICK b \in 1 .. k : j = m + b /\ whole[j] = at + b
      BY <1>1, <2>2
    <3>2. CASE i <= m
      <4>1. PICK v \in Nat : v = whole[i] /\ v <= at
        BY <1>2, <3>2
      <4> QED BY <3>1, <4>1
    <3>3. CASE i > m
      <4>1. PICK a \in 1 .. k : i = m + a /\ whole[i] = at + a
        BY <1>1, <3>3
      <4> QED BY <1>3, <3>1, <4>1
    <3> QED BY <3>2, <3>3
  <2> QED BY <2>1, <2>2
<1>4. ASSUME NEW i \in 1 .. m + k PROVE whole[i] <= at + k
  <2>1. CASE i <= m
    <3>1. PICK v \in Nat : v = whole[i] /\ v <= at
      BY <1>2, <2>1
    <3> QED BY <3>1
  <2>2. CASE i > m
    <3>1. PICK a \in 1 .. k : i = m + a /\ whole[i] = at + a
      BY <1>1, <2>2
    <3> QED BY <3>1
  <2> QED BY <2>1, <2>2
<1>5. ASSUME m = at, Gapless(all), NEW i \in 1 .. m + k PROVE whole[i] = i
  <2>1. CASE i <= m
    <3>1. i \in 1 .. m /\ whole[i] = all[i]
      BY <1>2, <2>1
    <3> QED BY <1>5, <3>1 DEF Gapless
  <2>2. CASE i > m
    <3>1. PICK a \in 1 .. k : i = m + a /\ whole[i] = at + a
      BY <1>1, <2>2
    <3> QED BY <1>5, <3>1
  <2> QED BY <2>1, <2>2
<1>6. Rising(whole)
  BY <1>3 DEF Rising
<1>7. UpTo(whole, at + k)
  BY <1>4 DEF UpTo
<1>8. m = at /\ Gapless(all) => Gapless(whole)
  BY <1>5 DEF Gapless
<1> QED BY <1>6, <1>7, <1>8

LEMMA StreamGrows ==
  ASSUME NEW all \in Seq(Nat), NEW more \in Seq(Nat), NEW at \in Nat, NEW k \in Nat,
         Len(more) = k, \A i \in 1 .. k : more[i] = at + i,
         Rising(all), UpTo(all, at)
  PROVE  /\ all \o more \in Seq(Nat) /\ Len(all \o more) = Len(all) + k
         /\ Rising(all \o more) /\ UpTo(all \o more, at + k)
         /\ Len(all) = at /\ Gapless(all) => Gapless(all \o more)
<1>1. PICK S : S = Nat
  OBVIOUS
<1>2. all \in Seq(S) /\ more \in Seq(S)
  BY <1>1
<1>3. /\ all \o more \in Seq(S) /\ Len(all \o more) = Len(all) + Len(more)
      /\ \A i \in 1 .. Len(all) + Len(more) : (all \o more)[i] = IF i <= Len(all) THEN all[i] ELSE more[i - Len(all)]
  BY <1>2, ConcatProperties
<1>4. PICK m \in Nat : m = Len(all)
  OBVIOUS
<1>5. PICK whole : whole = all \o more
  OBVIOUS
<1>6. whole \in Seq(Nat) /\ Len(whole) = m + k
  BY <1>1, <1>3, <1>4, <1>5
<1>7. DOMAIN all = 1 .. m /\ DOMAIN whole = 1 .. m + k
  BY <1>4, <1>6
<1>8. \A i \in 1 .. m + k : whole[i] = IF i <= m THEN all[i] ELSE more[i - m]
  BY <1>3, <1>4, <1>5
<1>9. \A i \in 1 .. m : all[i] \in Nat
  BY <1>4
<1>10. \A i \in 1 .. m : all[i] \in Nat /\ whole[i] = all[i]
  <2>1. \A i \in 1 .. m : i \in 1 .. m + k /\ i <= m
    OBVIOUS
  <2> QED BY <1>8, <1>9, <2>1
<1>11. \A i \in 1 .. k : whole[m + i] = at + i
  <2>1. \A i \in 1 .. k : m + i \in 1 .. m + k /\ ~(m + i <= m) /\ (m + i) - m = i
    OBVIOUS
  <2> QED BY <1>8, <2>1
<1>12. /\ Rising(whole) /\ UpTo(whole, at + k)
       /\ m = at /\ Gapless(all) => Gapless(whole)
  <2>1. Grown(all, m, whole, k, at)
    BY <1>7, <1>10, <1>11 DEF Grown
  <2> QED BY <2>1, StreamOrder
<1>13. all \o more \in Seq(Nat) /\ Len(all \o more) = Len(all) + k
  BY <1>4, <1>5, <1>6
<1>14. Rising(all \o more) /\ UpTo(all \o more, at + k)
  BY <1>5, <1>12
<1>15. Len(all) = at /\ Gapless(all) => Gapless(all \o more)
  BY <1>4, <1>5, <1>12
<1> QED BY <1>13, <1>14, <1>15

LEMMA NetArrive ==
  ASSUME NetInv, ~overlapped, NEW p \in Net!Pcbs, NEW n \in Nat, Net!Arrive(p, n)
  PROVE  NetInv'
<1>1. NetTyped /\ SockStates /\ SockBlocks /\ SockBytes
  BY DEF NetInv, SockOwned
<1>2. PICK s : s = pcb[p].arg
  OBVIOUS
<1>3. PICK old : old = sock[s]
  OBVIOUS
<1>4. PICK k : k = Net!Min({n, BufSize - Len(old.rx)})
  OBVIOUS
<1>5. pcb[p].state = "open"
  BY DEF Net!Arrive
<1>6. /\ s \in Net!Socks /\ SockTyped(old) /\ old.pcb = p /\ Keeping(s)
      /\ \A t \in Threads : pc[t].at = "taken" => pc[t].sock # s
      /\ \A r \in Net!Socks : Keeping(r) /\ sock[r].pcb = p => r = s
  BY <1>2, <1>3, <1>5, CallbackFacts
<1>7. pcb[p] \in [state : PcbStates, arg : Net!Socks \cup {Net!NoSock}, arrived : Nat]
  BY <1>1 DEF NetTyped
<1>8. PICK at \in Nat : at = pcb[p].arrived
  BY <1>7
<1>9. old.rx \in Seq(Nat) /\ Len(old.rx) \in Nat /\ Len(old.rx) <= BufSize /\ old.read \in Seq(Nat)
  BY <1>6 DEF SockTyped
<1>9a. PICK len \in Nat : len = Len(old.rx)
  BY <1>9
<1>10. k \in Nat /\ k <= n /\ len + k <= BufSize
  <2>1. len <= BufSize /\ BufSize \in Nat
    BY <1>9, <1>9a, SocketsAssumption
  <2>2. PICK m \in Nat : m = BufSize - len
    BY <2>1
  <2>3. k = Net!Min({n, m})
    BY <1>4, <1>9a, <2>2
  <2>4. k = IF n <= m THEN n ELSE m
    BY <2>3, NetMin
  <2> QED BY <2>1, <2>2, <2>4
<1>11. PICK more : more = [i \in 1 .. k |-> at + i]
  OBVIOUS
<1>12. more \in Seq(Nat) /\ Len(more) = k /\ \A i \in 1 .. k : more[i] = at + i
  BY <1>8, <1>10, <1>11
<1> DEFINE new == [old EXCEPT !.rx = @ \o more, !.dropped = @ \/ k < n]
           b == [pcb[p] EXCEPT !.arrived = @ + n]
<1>13. /\ sock' = [sock EXCEPT ![s] = new] /\ pcb' = [pcb EXCEPT ![p] = b]
       /\ UNCHANGED <<shandle, buffers, pc, overlapped>>
  BY <1>2, <1>3, <1>4, <1>8, <1>11 DEF Net!Arrive
<1>14. /\ b \in [state : PcbStates, arg : Net!Socks \cup {Net!NoSock}, arrived : Nat]
       /\ b.state = pcb[p].state /\ b.arg = pcb[p].arg /\ b.arrived = at + n
  BY <1>7, <1>8
<1>15. /\ DOMAIN new = SockFields /\ new.used = old.used /\ new.queue = old.queue /\ new.buf = old.buf
       /\ new.pcb = p /\ new.state = old.state /\ new.type = old.type /\ new.read = old.read
       /\ new.rx = old.rx \o more /\ new.dropped = (old.dropped \/ k < n)
  BY <1>6 DEF SockTyped, SockFields
<1> HIDE DEF new, b
<1>16. /\ pcb' \in [Net!Pcbs -> [state : PcbStates, arg : Net!Socks \cup {Net!NoSock}, arrived : Nat]]
       /\ pcb'[p] = b /\ \A q \in Net!Pcbs \ {p} : pcb'[q] = pcb[q]
  BY <1>1, <1>13, <1>14, OneBlock
<1>17. new.rx \in Seq(Nat) /\ Len(new.rx) <= BufSize
  <2>1. Len(old.rx \o more) = Len(old.rx) + Len(more) /\ old.rx \o more \in Seq(Nat)
    BY <1>9, <1>12, ConcatProperties
  <2>2. Len(new.rx) = len + k
    BY <1>9a, <1>12, <1>15, <2>1
  <2> QED BY <1>10, <1>15, <2>1, <2>2
<1>18. SockTyped(new)
  <2>1. new.dropped \in BOOLEAN
    BY <1>6, <1>15 DEF SockTyped
  <2> QED BY <1>6, <1>15, <1>17, <2>1 DEF SockTyped
<1>19. /\ NetTyped' /\ SockOwners' /\ SockCalled' /\ SockCounted'
       /\ sock'[s] = new /\ \A r \in Net!Socks \ {s} : sock'[r] = sock[r]
       /\ \A r \in Net!Socks : Keeping(r)' <=> Keeping(r)
       /\ \A r, q \in Net!Socks : InQueue(r, q)' <=> InQueue(r, q)
  BY <1>3, <1>6, <1>13, <1>15, <1>16, <1>18, SlotChange
<1>20. SockStates' /\ SockBlocks'
  <2>1. \A r \in Net!Socks : /\ sock'[r].state = sock[r].state /\ sock'[r].pcb = sock[r].pcb
                             /\ sock'[r].queue = sock[r].queue /\ sock'[r].type = sock[r].type
    BY <1>3, <1>6, <1>15, <1>19
  <2>2. \A q \in Net!Pcbs : \/ pcb'[q] = pcb[q]
                            \/ /\ pcb'[q].state = pcb[q].state /\ pcb'[q].arg = pcb[q].arg
                               /\ pcb[q].state \notin {"free", "new"}
    BY <1>5, <1>14, <1>16
  <2> QED BY <1>1, <1>19, <2>1, <2>2, StatesStay
<1>21. SockBytes'
  <2>1. PICK a, c \in Seq(Nat) : a = old.read /\ c = old.rx
    BY <1>9
  <2>2. PICK all \in Seq(Nat) : all = a \o c
    BY ConcatProperties
  <2>3. SockStream(s) = all /\ SockStream(s)' = all \o more
    <3>1. (a \o c) \o more = a \o (c \o more)
      BY <1>12, NumbersAssociative
    <3> QED BY <1>3, <1>15, <1>19, <2>1, <2>2, <3>1 DEF SockStream
  <2>4. /\ Rising(all) /\ UpTo(all, at)
        /\ ~old.dropped => Gapless(all) /\ Len(all) = at
    BY <1>1, <1>3, <1>6, <1>8, <2>3, SockConstants DEF SockBytes
  <2>5. /\ all \o more \in Seq(Nat) /\ Len(all \o more) = Len(all) + k
        /\ Rising(all \o more) /\ UpTo(all \o more, at + k)
        /\ Len(all) = at /\ Gapless(all) => Gapless(all \o more)
    BY <1>10, <1>12, <2>4, StreamGrows
  <2>6. PICK whole \in Seq(Nat) : whole = all \o more
    BY <2>5
  <2>7. UpTo(whole, at + n)
    <3>1. ASSUME NEW i \in DOMAIN whole PROVE whole[i] <= at + n
      <4>1. whole[i] \in Nat /\ whole[i] <= at + k
        BY <2>5, <2>6 DEF UpTo
      <4> QED BY <1>10, <4>1
    <3> QED BY <3>1 DEF UpTo
  <2>8. ~(old.dropped \/ k < n) => Len(whole) = at + n /\ Gapless(whole)
    <3>1. ASSUME ~(old.dropped \/ k < n) PROVE Len(whole) = at + n /\ Gapless(whole)
      <4>1. k = n /\ Gapless(all) /\ Len(all) = at
        BY <1>10, <2>4, <3>1
      <4> QED BY <2>5, <2>6, <4>1
    <3> QED BY <3>1
  <2>9. ASSUME NEW r \in Net!Socks, Keeping(r)
        PROVE  (/\ Rising(SockStream(r))
                /\ ~sock[r].dropped => Gapless(SockStream(r))
                /\ sock[r].pcb # Net!NoPcb =>
                     /\ UpTo(SockStream(r), pcb[sock[r].pcb].arrived)
                     /\ ~sock[r].dropped => Len(SockStream(r)) = pcb[sock[r].pcb].arrived)'
    <3>1. CASE r = s
      <4>1. SockStream(s)' = whole /\ sock'[s].pcb = p /\ pcb'[p].arrived = at + n
            /\ sock'[s].dropped = (old.dropped \/ k < n)
        BY <1>14, <1>15, <1>16, <1>19, <2>3, <2>6
      <4> QED BY <3>1, <4>1, <2>5, <2>6, <2>7, <2>8
    <3>2. CASE r # s
      <4>1. SockStream(r)' = SockStream(r) /\ sock'[r] = sock[r]
        BY <1>19, <3>2 DEF SockStream
      <4>2. sock[r].pcb # Net!NoPcb => pcb'[sock[r].pcb].arrived = pcb[sock[r].pcb].arrived
        BY <1>1, <1>6, <1>16, <2>9, <3>2, SockConstants DEF NetTyped, SockTyped
      <4> QED BY <1>1, <2>9, <4>1, <4>2 DEF SockBytes
    <3> QED BY <3>1, <3>2
  <2> QED BY <1>19, <2>9 DEF SockBytes
<1> QED BY <1>13, <1>19, <1>20, <1>21 DEF NetInv, SockOwned

\* The first of the free ones.
LEMMA NetLeast ==
  ASSUME NEW S \in SUBSET Nat, S # {}
  PROVE  Net!Min(S) \in S
<1>1. \E x \in S : \A y \in S : x <= y
  BY LeastExists
<1> QED BY <1>1 DEF Net!Min

\* A change of what one call is in the middle of.
LEMMA OneCall ==
  ASSUME NetTyped, NEW t \in Threads, NEW new \in SockCalls, pc' = [pc EXCEPT ![t] = new]
  PROVE  pc' \in [Threads -> SockCalls] /\ pc'[t] = new /\ \A u \in Threads \ {t} : pc'[u] = pc[u]
BY DEF NetTyped

\* What stays when no slot gets or loses a control block.
LEMMA BlocksStay ==
  ASSUME NetTyped, SockBlocks, pcb' = pcb,
         \A r \in Net!Socks : Keeping(r) /\ sock[r].pcb # Net!NoPcb =>
            Keeping(r)' /\ sock'[r].pcb = sock[r].pcb /\ sock'[r].state = sock[r].state,
         \A r \in Net!Socks : Keeping(r)' /\ sock'[r].pcb # Net!NoPcb =>
            Keeping(r) /\ sock'[r].pcb = sock[r].pcb
  PROVE  SockBlocks'
<1>1. ASSUME NEW p \in Net!Pcbs
      PROVE  (/\ pcb[p].state = "free" => pcb[p] = Net!FreePcb
              /\ pcb[p].state = "new" => pcb[p].arrived = 0
              /\ pcb[p].state \notin {"free", "new"} => pcb[p].arg # Net!NoSock
              /\ pcb[p].arg # Net!NoSock => sock[pcb[p].arg].pcb = p /\ Keeping(pcb[p].arg)
              /\ pcb[p].state = "listen" => sock[pcb[p].arg].state = "listening"
              /\ pcb[p].state # "free" => \E s \in Net!Socks : Keeping(s) /\ sock[s].pcb = p)'
  <2>1. /\ pcb[p].state = "free" => pcb[p] = Net!FreePcb
        /\ pcb[p].state = "new" => pcb[p].arrived = 0
        /\ pcb[p].state \notin {"free", "new"} => pcb[p].arg # Net!NoSock
    BY DEF SockBlocks
  <2>a. PICK a : a = pcb[p].arg
    OBVIOUS
  <2>b. a # Net!NoSock => a \in Net!Socks /\ sock[a].pcb = p /\ p # Net!NoPcb /\ Keeping(a)
    BY <2>a, SockConstants DEF SockBlocks, NetTyped
  <2>c. a # Net!NoSock => sock'[a].pcb = p /\ Keeping(a)' /\ sock'[a].state = sock[a].state
    BY <2>b
  <2>2. pcb'[p].arg # Net!NoSock => sock'[pcb'[p].arg].pcb = p /\ Keeping(pcb[p].arg)'
    BY <2>a, <2>c
  <2>3. pcb[p].state = "listen" => sock'[pcb[p].arg].state = "listening"
    BY <2>a, <2>c, <2>1 DEF SockBlocks
  <2>4. pcb[p].state # "free" => \E s \in Net!Socks : Keeping(s)' /\ sock'[s].pcb = p
    BY SockConstants DEF SockBlocks
  <2> QED BY <2>1, <2>2, <2>3, <2>4
<1>2. \A s \in Net!Socks : Keeping(s)' /\ sock'[s].pcb # Net!NoPcb => pcb'[sock'[s].pcb].state # "free"
  BY DEF SockBlocks
<1>3. \A s, r \in Net!Socks :
         Keeping(s)' /\ Keeping(r)' /\ sock'[s].pcb # Net!NoPcb /\ sock'[s].pcb = sock'[r].pcb => s = r
  BY DEF SockBlocks
<1> QED BY <1>1, <1>2, <1>3 DEF SockBlocks

LEMMA NetOpenFind ==
  ASSUME NetInv, ~overlapped, NEW t \in Threads, Net!OpenFind(t)
  PROVE  NetInv'
<1>1. NetTyped /\ SockOwners /\ SockCalled /\ SockStates /\ SockBlocks /\ SockCounted /\ SockBytes
  BY DEF NetInv, SockOwned
<1>2. PICK s : s = Net!Min(Net!FreeSlots)
  OBVIOUS
<1>3. s \in Net!Socks /\ ~sock[s].used
  <2>1. Net!FreeSlots \in SUBSET Nat /\ Net!FreeSlots # {}
    BY SockConstants DEF Net!OpenFind, Net!FreeSlots
  <2> QED BY <1>2, <2>1, NetLeast DEF Net!FreeSlots
<1>4. PICK new \in SockCalls : new = [at |-> "found", sock |-> s]
  BY <1>3 DEF SockCalls
<1>5. /\ pc[t].at = "idle" /\ pc' = [pc EXCEPT ![t] = new] /\ new.at = "found" /\ new.sock = s
      /\ UNCHANGED <<sock, pcb, shandle, buffers, overlapped>>
  BY <1>2, <1>4, SockConstants DEF Net!OpenFind
<1>6. pc' \in [Threads -> SockCalls] /\ pc'[t] = new /\ \A u \in Threads \ {t} : pc'[u] = pc[u]
  BY <1>1, <1>5, OneCall
<1>7. NetTyped'
  BY <1>1, <1>5, <1>6 DEF NetTyped
<1>8. \A r \in Net!Socks : Keeping(r)' <=> Keeping(r)
  BY <1>5, <1>6 DEF Keeping, Releasing
<1>9. SockOwners'
  <2>1. \A r \in Net!Socks, u \in Threads : InCall(r, u)' <=> InCall(r, u)
    BY <1>5, <1>6 DEF InCall
  <2> QED BY <1>1, <1>5, <2>1, OwnersStay
<1>10. SockCalled'
  BY <1>1, <1>3, <1>5, <1>6 DEF SockCalled
<1>11. SockStates' /\ SockBlocks'
  BY <1>1, <1>5, <1>8, StatesStay
<1>12. SockCounted'
  BY <1>1, <1>5, <1>8, CountedStay
<1>13. SockBytes'
  <2>1. \A r \in Net!Socks : SockStream(r)' = SockStream(r)
    BY <1>5 DEF SockStream
  <2> QED BY <1>1, <1>5, <1>8, <2>1, BytesStay
<1> QED BY <1>5, <1>7, <1>9, <1>10, <1>11, <1>12, <1>13 DEF NetInv, SockOwned

LEMMA NetOpenTake ==
  ASSUME NetInv, ~overlapped, NEW t \in Threads, Net!OpenTake(t)
  PROVE  NetInv'
<1>1. NetTyped /\ SockOwners /\ SockCalled /\ SockStates /\ SockBlocks /\ SockCounted /\ SockBytes
  BY DEF NetInv, SockOwned
<1>2. PICK s \in Net!Socks : s = pc[t].sock /\ pc[t].at = "found"
  BY <1>1, CallFacts DEF Net!OpenTake
<1>3. PICK doing \in SockCalls : doing = [at |-> "taken", sock |-> s]
  BY <1>2 DEF SockCalls
<1>4. PICK new : new = Net!Taken(s)
  OBVIOUS
<1>5. /\ sock' = [sock EXCEPT ![s] = new] /\ pc' = [pc EXCEPT ![t] = doing]
      /\ doing.at = "taken" /\ doing.sock = s /\ UNCHANGED <<pcb, shandle, buffers>>
      /\ overlapped' = (overlapped \/ \E u \in Threads \ {t} :
                            pc[u].at \in {"found", "taken", "marked"} /\ pc[u].sock = s)
  BY <1>2, <1>3, <1>4 DEF Net!OpenTake
<1>6. /\ SockTyped(new) /\ new.used /\ ~new.buf /\ new.pcb = Net!NoPcb /\ new.queue = << >>
      /\ new.state = "closed" /\ new.read = << >> /\ new.rx = << >>
  BY <1>4, BlankFacts
<1>7. pc' \in [Threads -> SockCalls] /\ pc'[t] = doing /\ \A u \in Threads \ {t} : pc'[u] = pc[u]
  BY <1>1, <1>5, OneCall
<1>8. /\ sock' = [r \in Net!Socks |-> sock'[r]] /\ \A r \in Net!Socks : SockTyped(sock'[r])
      /\ sock'[s] = new /\ \A r \in Net!Socks \ {s} : sock'[r] = sock[r]
  BY <1>1, <1>5, <1>6, OneSlot
<1>9. NetTyped'
  BY <1>1, <1>5, <1>7, <1>8 DEF NetTyped
<1>10. ASSUME ~overlapped' PROVE SockOwned'
  <2>1. \A u \in Threads \ {t} : pc[u].at \in {"found", "taken", "marked"} => pc[u].sock # s
    BY <1>5, <1>10
  <2>2. ~sock[s].used /\ ~Keeping(s)
    BY <1>1, <1>2, <2>1 DEF SockCalled, Keeping, Releasing
  <2>3. sock[s].queue = << >>
    BY <1>1, <2>2 DEF SockStates
  <2>4. \A r, q \in Net!Socks : InQueue(r, q)' <=> InQueue(r, q)
    BY <1>6, <1>8, <2>3 DEF InQueue
  <2>5. \A r \in Net!Socks : Keeping(r)' <=> Keeping(r) \/ r = s
    BY <1>2, <1>5, <1>6, <1>7, <1>8 DEF Keeping, Releasing
  <2>6. \A r \in Net!Socks, u \in Threads : InCall(r, u)' <=> InCall(r, u) \/ (r = s /\ u = t)
    BY <1>2, <1>5, <1>7 DEF InCall
  <2>7. /\ \A h \in Net!Handles : shandle[h] # s
        /\ \A q \in Net!Socks : ~InQueue(s, q)
        /\ \A u \in Threads : ~InCall(s, u)
    BY <1>1, <2>2, SockConstants DEF SockOwners, SockNamed
  <2>8. \A r \in Net!Socks : sock'[r].used <=> sock[r].used \/ r = s
    BY <1>6, <1>8
  <2>9. SockNamed'
    <3>1. \A h \in Net!Handles : shandle[h] # Net!NoSock => shandle[h] \in Net!Socks
      BY <1>1 DEF NetTyped
    <3> QED BY <1>1, <1>5, <2>4, <2>6, <2>8, <3>1 DEF SockOwners, SockNamed
  <2>10. SockOnce'
    <3>1. \A h \in Net!Handles : shandle[h] # Net!NoSock => shandle[h] \in Net!Socks
      BY <1>1 DEF NetTyped
    <3>2. \A q \in Net!Socks : Net!IsInjective(sock[q].queue)'
      BY <1>1, <1>6, <1>8, <2>3 DEF SockOwners, SockOnce
    <3> QED BY <1>1, <1>5, <2>4, <2>6, <2>7, <3>1, <3>2 DEF SockOwners, SockOnce
  <2>11. SockSomebody'
    BY <1>1, <1>5, <2>4, <2>6, <2>8 DEF SockOwners, SockSomebody
  <2>12. SockCalled'
    <3>1. \A u \in Threads \ {t} : pc[u].at \in {"found", "taken", "marked"} =>
             pc[u].sock \in Net!Socks \ {s} /\ sock'[pc[u].sock] = sock[pc[u].sock]
      BY <1>1, <1>8, <2>1, CallFacts
    <3> QED BY <1>1, <1>4, <1>5, <1>7, <1>8, <3>1 DEF SockCalled
  <2>13. SockStates'
    BY <1>1, <1>5, <1>6, <1>8, <2>2, <2>4, <2>5, <2>7 DEF SockStates
  <2>14. SockBlocks'
    BY <1>1, <1>5, <1>6, <1>8, <2>2, <2>5, BlocksStay
  <2>15. SockCounted'
    BY <1>1, <1>5, <1>6, <1>8, <2>2, <2>5, CountedStay
  <2>16. SockBytes'
    <3>1. SockStream(s)' = << >>
      BY <1>6, <1>8 DEF SockStream
    <3>2. \A r \in Net!Socks \ {s} : SockStream(r)' = SockStream(r)
      BY <1>8 DEF SockStream
    <3>3. Rising(<< >>) /\ Gapless(<< >>)
      BY DEF Rising, Gapless
    <3> QED BY <1>1, <1>5, <1>6, <1>8, <2>5, <3>1, <3>2, <3>3 DEF SockBytes
  <2> QED BY <2>9, <2>10, <2>11, <2>12, <2>13, <2>14, <2>15, <2>16 DEF SockOwned, SockOwners
<1> QED BY <1>9, <1>10 DEF NetInv

LEMMA NetOpenFails ==
  ASSUME NetInv, ~overlapped, NEW t \in Threads, Net!OpenNoBuffer(t) \/ Net!OpenNoPcb(t)
  PROVE  NetInv'
<1>1. NetTyped /\ SockOwners /\ SockCalled /\ SockStates /\ SockBlocks /\ SockCounted /\ SockBytes
  BY DEF NetInv, SockOwned
<1>2. PICK s \in Net!Socks : s = pc[t].sock /\ pc[t].at = "taken" /\ sock[s] = Net!Taken(s)
  BY <1>1, CallFacts DEF Net!OpenNoBuffer, Net!OpenNoPcb, SockCalled
<1>3. PICK new : /\ new \in {[sock[s] EXCEPT !.used = FALSE], [sock[s] EXCEPT !.used = FALSE, !.buf = TRUE]}
                 /\ sock' = [sock EXCEPT ![s] = new] /\ pc' = [pc EXCEPT ![t] = Net!Idle]
                 /\ UNCHANGED <<pcb, shandle, buffers, overlapped>>
  <2>1. CASE Net!OpenNoBuffer(t)
    BY <1>2, <2>1 DEF Net!OpenNoBuffer
  <2>2. CASE Net!OpenNoPcb(t)
    BY <1>2, <2>2 DEF Net!OpenNoPcb
  <2> QED BY <2>1, <2>2
<1>4. /\ SockTyped(sock[s]) /\ sock[s].used /\ ~sock[s].buf /\ sock[s].pcb = Net!NoPcb /\ sock[s].queue = << >>
  BY <1>2, BlankFacts
<1>5. /\ DOMAIN new = SockFields /\ ~new.used /\ new.used \in BOOLEAN /\ new.buf \in BOOLEAN
      /\ new.pcb = Net!NoPcb /\ new.queue = << >> /\ new.rx = sock[s].rx /\ new.read = sock[s].read
      /\ new.dropped = sock[s].dropped
  BY <1>3, <1>4 DEF SockTyped, SockFields
<1>6. SockTyped(new)
  BY <1>4, <1>5 DEF SockTyped
<1>7. pc' \in [Threads -> SockCalls] /\ pc'[t].at = "idle" /\ \A u \in Threads \ {t} : pc'[u] = pc[u]
  BY <1>1, <1>3, SockConstants, OneCall
<1>8. /\ sock' = [r \in Net!Socks |-> sock'[r]] /\ \A r \in Net!Socks : SockTyped(sock'[r])
      /\ sock'[s] = new /\ \A r \in Net!Socks \ {s} : sock'[r] = sock[r]
  BY <1>1, <1>3, <1>6, OneSlot
<1>9. NetTyped'
  BY <1>1, <1>3, <1>7, <1>8 DEF NetTyped
<1>10. ~Releasing(s) /\ Keeping(s)
  BY <1>1, <1>2, <1>4 DEF SockCalled, Releasing, Keeping
<1>11. \A r, q \in Net!Socks : InQueue(r, q)' <=> InQueue(r, q)
  BY <1>4, <1>5, <1>8 DEF InQueue
<1>12. \A r \in Net!Socks : Keeping(r)' <=> Keeping(r) /\ r # s
  BY <1>2, <1>5, <1>7, <1>8, <1>10 DEF Keeping, Releasing
<1>13. InCall(s, t) /\ \A r \in Net!Socks, u \in Threads : InCall(r, u)' <=> InCall(r, u) /\ u # t
  BY <1>2, <1>7 DEF InCall
<1>14. /\ \A h \in Net!Handles : shandle[h] # s
       /\ \A q \in Net!Socks : ~InQueue(s, q)
       /\ \A u \in Threads : InCall(s, u) => u = t
  BY <1>1, <1>13, SockConstants DEF SockOwners, SockOnce
<1>15. \A r \in Net!Socks : sock'[r].used <=> sock[r].used /\ r # s
  BY <1>5, <1>8
<1>16. \A h \in Net!Handles : shandle[h] # Net!NoSock => shandle[h] \in Net!Socks
  BY <1>1 DEF NetTyped
<1>17. \A r \in Net!Socks : InCall(r, t) => r = s
  BY <1>2 DEF InCall
<1>18. SockNamed'
  BY <1>1, <1>3, <1>11, <1>13, <1>14, <1>15, <1>16 DEF SockOwners, SockNamed
<1>19. SockOnce'
  <2>1. \A q \in Net!Socks : Net!IsInjective(sock[q].queue)'
    BY <1>1, <1>4, <1>5, <1>8 DEF SockOwners, SockOnce
  <2> QED BY <1>1, <1>3, <1>11, <1>13, <1>16, <2>1 DEF SockOwners, SockOnce
<1>20. SockSomebody'
  BY <1>1, <1>3, <1>11, <1>13, <1>15, <1>17 DEF SockOwners, SockSomebody
<1>21. SockCalled'
  <2>1. \A u \in Threads \ {t} : pc[u].at \in {"found", "taken", "marked"} =>
           pc[u].sock \in Net!Socks \ {s} /\ sock'[pc[u].sock] = sock[pc[u].sock]
    <3>1. \A u \in Threads \ {t} : pc[u].at \in {"found", "taken", "marked"} => pc[u].sock # s
      BY <1>1, <1>4, <1>14 DEF SockCalled, InCall
    <3> QED BY <1>1, <1>8, <3>1, CallFacts
  <2> QED BY <1>1, <1>7, <2>1 DEF SockCalled
<1>22. SockStates'
  BY <1>1, <1>3, <1>5, <1>8, <1>11, <1>12, <1>14 DEF SockStates
<1>23. SockBlocks'
  BY <1>1, <1>3, <1>4, <1>5, <1>8, <1>12, BlocksStay
<1>24. SockCounted'
  BY <1>1, <1>3, <1>4, <1>8, <1>12, CountedStay
<1>25. SockBytes'
  <2>1. \A r \in Net!Socks \ {s} : SockStream(r)' = SockStream(r)
    BY <1>8 DEF SockStream
  <2> QED BY <1>1, <1>3, <1>8, <1>12, <2>1, BytesStay
<1> QED BY <1>3, <1>9, <1>18, <1>19, <1>20, <1>21, <1>22, <1>23, <1>24, <1>25 DEF NetInv, SockOwned, SockOwners

LEMMA NetClose ==
  ASSUME NetInv, ~overlapped, NEW t \in Threads, NEW h \in Net!Handles, Net!Close(t, h)
  PROVE  NetInv'
<1>1. NetTyped /\ SockOwners /\ SockCalled /\ SockStates /\ SockBlocks /\ SockCounted /\ SockBytes
  BY DEF NetInv, SockOwned
<1>2. PICK s \in Net!Socks : s = shandle[h] /\ sock[s].used
  BY HandleFacts DEF Net!Close
<1>3. PICK new \in SockCalls : new = [at |-> "closing", sock |-> s]
  BY DEF SockCalls
<1>4. /\ pc[t].at = "idle" /\ pc' = [pc EXCEPT ![t] = new] /\ new.at = "closing" /\ new.sock = s
      /\ shandle' = [shandle EXCEPT ![h] = Net!NoSock]
      /\ UNCHANGED <<sock, pcb, buffers, overlapped>>
  BY <1>2, <1>3, SockConstants DEF Net!Close
<1>5. pc' \in [Threads -> SockCalls] /\ pc'[t] = new /\ \A u \in Threads \ {t} : pc'[u] = pc[u]
  BY <1>1, <1>4, OneCall
<1>6. /\ shandle' \in [Net!Handles -> Net!Socks \cup {Net!NoSock}] /\ shandle'[h] = Net!NoSock
      /\ \A g \in Net!Handles \ {h} : shandle'[g] = shandle[g]
  BY <1>1, <1>4 DEF NetTyped
<1>7. NetTyped'
  BY <1>1, <1>4, <1>5, <1>6 DEF NetTyped
<1>8. \A r \in Net!Socks : Keeping(r)' <=> Keeping(r)
  BY <1>4, <1>5 DEF Keeping, Releasing
<1>9. \A r, q \in Net!Socks : InQueue(r, q)' <=> InQueue(r, q)
  BY <1>4 DEF InQueue
<1>10. \A r \in Net!Socks, u \in Threads : InCall(r, u)' <=> InCall(r, u) \/ (r = s /\ u = t)
  BY <1>4, <1>5 DEF InCall
<1>11. /\ \A g \in Net!Handles \ {h} : shandle[g] # s
       /\ \A q \in Net!Socks : ~InQueue(s, q)
       /\ \A u \in Threads : ~InCall(s, u)
  BY <1>1, <1>2, SockConstants DEF SockOwners, SockOnce
<1>12. \A g \in Net!Handles : shandle'[g] # Net!NoSock =>
          shandle'[g] \in Net!Socks /\ shandle'[g] = shandle[g] /\ g # h
  BY <1>6
<1>13. SockNamed'
  BY <1>1, <1>2, <1>4, <1>9, <1>10, <1>12 DEF SockOwners, SockNamed
<1>14. SockOnce'
  BY <1>1, <1>4, <1>9, <1>10, <1>11, <1>12 DEF SockOwners, SockOnce
<1>15. SockSomebody'
  <2>1. ASSUME NEW r \in Net!Socks, sock'[r].used
        PROVE  \/ \E g \in Net!Handles : shandle'[g] = r
               \/ \E q \in Net!Socks : InQueue(r, q)'
               \/ \E u \in Threads : InCall(r, u)'
    <3>1. CASE r = s
      BY <1>10, <3>1
    <3>2. CASE r # s
      BY <1>1, <1>2, <1>4, <1>6, <1>9, <1>10, <2>1, <3>2 DEF SockOwners, SockSomebody
    <3> QED BY <3>1, <3>2
  <2> QED BY <2>1 DEF SockSomebody
<1>16. SockCalled'
  BY <1>1, <1>4, <1>5 DEF SockCalled
<1>17. SockStates' /\ SockBlocks'
  BY <1>1, <1>4, <1>8, StatesStay
<1>18. SockCounted'
  BY <1>1, <1>4, <1>8, CountedStay
<1>19. SockBytes'
  <2>1. \A r \in Net!Socks : SockStream(r)' = SockStream(r)
    BY <1>4 DEF SockStream
  <2> QED BY <1>1, <1>4, <1>8, <2>1, BytesStay
<1> QED BY <1>4, <1>7, <1>13, <1>14, <1>15, <1>16, <1>17, <1>18, <1>19 DEF NetInv, SockOwned, SockOwners

LEMMA NetCloseMark ==
  ASSUME NetInv, ~overlapped, NEW t \in Threads, Net!CloseMark(t)
  PROVE  NetInv'
<1>1. NetTyped /\ SockOwners /\ SockCalled /\ SockStates /\ SockBlocks /\ SockCounted /\ SockBytes
  BY DEF NetInv, SockOwned
<1>2. PICK s \in Net!Socks : s = pc[t].sock /\ pc[t].at = "closing"
  BY <1>1, CallFacts DEF Net!CloseMark
<1>3. InCall(s, t) /\ sock[s].used
  BY <1>1, <1>2 DEF InCall, SockOwners, SockNamed
<1>4. PICK doing : doing = [pc[t] EXCEPT !.at = "marked"]
  OBVIOUS
<1>5. PICK new : new = [sock[s] EXCEPT !.used = FALSE]
  OBVIOUS
<1>6. /\ sock' = [sock EXCEPT ![s] = new] /\ pc' = [pc EXCEPT ![t] = doing]
      /\ UNCHANGED <<pcb, shandle, buffers, overlapped>>
  BY <1>2, <1>3, <1>4, <1>5 DEF Net!CloseMark
<1>7. doing \in SockCalls /\ doing.at = "marked" /\ doing.sock = s
  <2>1. pc[t] \in [at : {"found", "taken", "closing", "marked"}, sock : Net!Socks]
    BY <1>1, <1>2, CallFacts, SockConstants
  <2> QED BY <1>2, <1>4, <2>1 DEF SockCalls
<1>8. SockTyped(sock[s])
  BY <1>1 DEF NetTyped
<1>9. /\ DOMAIN new = SockFields /\ ~new.used /\ new.used \in BOOLEAN /\ new.buf = sock[s].buf
      /\ new.pcb = sock[s].pcb /\ new.queue = sock[s].queue /\ new.rx = sock[s].rx /\ new.read = sock[s].read
      /\ new.dropped = sock[s].dropped /\ new.state = sock[s].state /\ new.type = sock[s].type
  BY <1>5, <1>8 DEF SockTyped, SockFields
<1>10. SockTyped(new)
  BY <1>8, <1>9 DEF SockTyped
<1>11. pc' \in [Threads -> SockCalls] /\ pc'[t] = doing /\ \A u \in Threads \ {t} : pc'[u] = pc[u]
  BY <1>1, <1>6, <1>7, OneCall
<1>12. /\ sock' = [r \in Net!Socks |-> sock'[r]] /\ \A r \in Net!Socks : SockTyped(sock'[r])
       /\ sock'[s] = new /\ \A r \in Net!Socks \ {s} : sock'[r] = sock[r]
  BY <1>1, <1>6, <1>10, OneSlot
<1>13. NetTyped'
  BY <1>1, <1>6, <1>11, <1>12 DEF NetTyped
<1>14. \A r, q \in Net!Socks : InQueue(r, q)' <=> InQueue(r, q)
  BY <1>9, <1>12 DEF InQueue
<1>15. \A r \in Net!Socks : Keeping(r)' <=> Keeping(r)
  <2>1. Keeping(s) /\ Keeping(s)'
    BY <1>3, <1>7, <1>11 DEF Keeping, Releasing
  <2>2. \A r \in Net!Socks \ {s} : Keeping(r)' <=> Keeping(r)
    BY <1>2, <1>7, <1>11, <1>12 DEF Keeping, Releasing
  <2> QED BY <2>1, <2>2
<1>16. \A r \in Net!Socks, u \in Threads : InCall(r, u)' <=> InCall(r, u) /\ u # t
  BY <1>7, <1>11 DEF InCall
<1>17. /\ \A h \in Net!Handles : shandle[h] # s
       /\ \A q \in Net!Socks : ~InQueue(s, q)
       /\ \A u \in Threads : InCall(s, u) => u = t
  BY <1>1, <1>3, SockConstants DEF SockOwners, SockOnce
<1>18. \A r \in Net!Socks : sock'[r].used <=> sock[r].used /\ r # s
  BY <1>9, <1>12
<1>19. \A h \in Net!Handles : shandle[h] # Net!NoSock => shandle[h] \in Net!Socks
  BY <1>1 DEF NetTyped
<1>20. \A r \in Net!Socks : InCall(r, t) => r = s
  BY <1>2 DEF InCall
<1>21. SockNamed'
  BY <1>1, <1>6, <1>14, <1>16, <1>17, <1>18, <1>19 DEF SockOwners, SockNamed
<1>22. SockOnce'
  <2>1. \A q \in Net!Socks : Net!IsInjective(sock[q].queue)'
    BY <1>1, <1>9, <1>12 DEF SockOwners, SockOnce
  <2> QED BY <1>1, <1>6, <1>14, <1>16, <1>19, <2>1 DEF SockOwners, SockOnce
<1>23. SockSomebody'
  BY <1>1, <1>6, <1>14, <1>16, <1>18, <1>20 DEF SockOwners, SockSomebody
<1>24. SockCalled'
  <2>1. \A u \in Threads \ {t} : pc[u].at \in {"found", "taken", "marked"} =>
           pc[u].sock \in Net!Socks \ {s} /\ sock'[pc[u].sock] = sock[pc[u].sock]
    <3>1. \A u \in Threads \ {t} : pc[u].at \in {"found", "taken", "marked"} => pc[u].sock # s
      BY <1>1, <1>3, <1>17 DEF SockCalled, InCall
    <3> QED BY <1>1, <1>12, <3>1, CallFacts
  <2> QED BY <1>1, <1>7, <1>9, <1>11, <1>12, <2>1 DEF SockCalled
<1>25. SockStates' /\ SockBlocks'
  BY <1>1, <1>6, <1>9, <1>12, <1>15, StatesStay
<1>26. SockCounted'
  BY <1>1, <1>6, <1>9, <1>12, <1>15, CountedStay
<1>27. SockBytes'
  <2>1. \A r \in Net!Socks : SockStream(r)' = SockStream(r)
    BY <1>9, <1>12 DEF SockStream
  <2> QED BY <1>1, <1>6, <1>9, <1>12, <1>15, <2>1, BytesStay
<1> QED BY <1>6, <1>13, <1>21, <1>22, <1>23, <1>24, <1>25, <1>26, <1>27 DEF NetInv, SockOwned, SockOwners

\* The accept queue when its first connection leaves, and when one comes.
LEMMA QueueTail ==
  ASSUME NEW q \in Seq(Net!Socks), q # << >>, Net!IsInjective(q)
  PROVE  /\ Tail(q) \in Seq(Net!Socks) /\ Net!IsInjective(Tail(q))
         /\ Head(q) \in Net!Socks /\ Head(q) \in Net!Range(q)
         /\ \A x : x \in Net!Range(Tail(q)) <=> x \in Net!Range(q) /\ x # Head(q)
<1>1. PICK n \in Nat : n = Len(q) /\ n > 0 /\ DOMAIN q = 1 .. n
  OBVIOUS
<1>2. /\ Head(q) \in Net!Socks /\ Tail(q) \in Seq(Net!Socks) /\ Len(Tail(q)) = n - 1
      /\ DOMAIN Tail(q) = 1 .. n - 1 /\ \A i \in 1 .. n - 1 : Tail(q)[i] = q[i + 1]
  BY <1>1, HeadTailProperties
<1>3. Head(q) = q[1] /\ 1 \in 1 .. n
  BY <1>1
<1>4. \A i, j \in 1 .. n : q[i] = q[j] => i = j
  BY <1>1 DEF Net!IsInjective
<1>5. \A i \in 1 .. n - 1 : i + 1 \in 1 .. n /\ i + 1 # 1
  BY <1>1
<1>6. Net!IsInjective(Tail(q))
  <2>1. ASSUME NEW i \in 1 .. n - 1, NEW j \in 1 .. n - 1, Tail(q)[i] = Tail(q)[j] PROVE i = j
    <3>1. i + 1 = j + 1
      BY <1>2, <1>4, <1>5, <2>1
    <3> QED BY <3>1
  <2> QED BY <1>2, <2>1 DEF Net!IsInjective
<1>7. ASSUME NEW x, x \in Net!Range(Tail(q)) PROVE x \in Net!Range(q) /\ x # Head(q)
  <2>1. PICK i \in 1 .. n - 1 : x = Tail(q)[i]
    BY <1>2, <1>7 DEF Net!Range
  <2>2. x = q[i + 1] /\ i + 1 \in 1 .. n /\ i + 1 # 1
    BY <1>2, <1>5, <2>1
  <2> QED BY <1>1, <1>3, <1>4, <2>2 DEF Net!Range
<1>8. ASSUME NEW x, x \in Net!Range(q), x # Head(q) PROVE x \in Net!Range(Tail(q))
  <2>1. PICK i \in 1 .. n : x = q[i]
    BY <1>1, <1>8 DEF Net!Range
  <2>2. PICK j \in 1 .. n - 1 : i = j + 1
    <3>1. i # 1
      BY <1>3, <1>8, <2>1
    <3>2. i - 1 \in 1 .. n - 1 /\ i = (i - 1) + 1
      BY <1>1, <3>1
    <3> QED BY <3>2
  <2> QED BY <1>2, <2>1, <2>2 DEF Net!Range
<1>9. Head(q) \in Net!Range(q)
  BY <1>1, <1>3 DEF Net!Range
<1> QED BY <1>2, <1>6, <1>7, <1>8, <1>9

LEMMA QueueAppend ==
  ASSUME NEW q \in Seq(Net!Socks), Net!IsInjective(q), NEW c \in Net!Socks, c \notin Net!Range(q)
  PROVE  /\ Append(q, c) \in Seq(Net!Socks) /\ Append(q, c) # << >> /\ Net!IsInjective(Append(q, c))
         /\ \A x : x \in Net!Range(Append(q, c)) <=> x \in Net!Range(q) \/ x = c
<1>1. PICK n \in Nat : n = Len(q) /\ DOMAIN q = 1 .. n
  OBVIOUS
<1>2. PICK r : r = Append(q, c)
  OBVIOUS
<1>3. /\ r \in Seq(Net!Socks) /\ r # << >> /\ Len(r) = n + 1 /\ r[n + 1] = c /\ \A i \in 1 .. n : r[i] = q[i]
  BY <1>1, <1>2, AppendProperties
<1>4. DOMAIN r = 1 .. n + 1 /\ \A i \in 1 .. n + 1 : i \in 1 .. n \/ i = n + 1
  BY <1>1, <1>3
<1>5. \A i, j \in 1 .. n : q[i] = q[j] => i = j
  BY <1>1 DEF Net!IsInjective
<1>6. \A i \in 1 .. n : q[i] # c
  BY <1>1 DEF Net!Range
<1>7. Net!IsInjective(r)
  BY <1>3, <1>4, <1>5, <1>6 DEF Net!IsInjective
<1>8. ASSUME NEW x, x \in Net!Range(r) PROVE x \in Net!Range(q) \/ x = c
  <2>1. PICK i \in 1 .. n + 1 : x = r[i]
    BY <1>4, <1>8 DEF Net!Range
  <2> QED BY <1>1, <1>3, <1>4, <2>1 DEF Net!Range
<1>9. ASSUME NEW x, x \in Net!Range(q) PROVE x \in Net!Range(r)
  <2>1. PICK i \in 1 .. n : x = q[i]
    BY <1>1, <1>9 DEF Net!Range
  <2>2. i \in 1 .. n + 1 /\ r[i] = x
    BY <1>1, <1>3, <2>1
  <2> QED BY <1>4, <2>2 DEF Net!Range
<1>10. c \in Net!Range(r)
  <2>1. n + 1 \in 1 .. n + 1
    BY <1>1
  <2> QED BY <1>3, <1>4, <2>1 DEF Net!Range
<1> QED BY <1>2, <1>3, <1>7, <1>8, <1>9, <1>10

LEMMA QueueEmpty == Net!IsInjective(<< >>) /\ Net!Range(<< >>) = {}
BY DEF Net!IsInjective, Net!Range

LEMMA NetAccept ==
  ASSUME NetInv, ~overlapped, NEW t \in Threads, NEW h \in Net!Handles, Net!Accept(t, h)
  PROVE  NetInv'
<1>1. NetTyped /\ SockOwners /\ SockCalled /\ SockStates /\ SockBlocks /\ SockCounted /\ SockBytes
  BY DEF NetInv, SockOwned
<1>2. PICK s \in Net!Socks : s = shandle[h] /\ sock[s].used
  BY HandleFacts DEF Net!Accept
<1>3. /\ s # Net!NoSock /\ SockTyped(sock[s]) /\ \A u \in Threads : pc[u].at = "taken" => pc[u].sock # s
  BY <1>2, HandleFacts, SockConstants
<1>4. PICK queue : queue = sock[s].queue
  OBVIOUS
<1>5. /\ queue \in Seq(Net!Socks) /\ queue # << >> /\ Net!IsInjective(queue)
  BY <1>1, <1>2, <1>3, <1>4 DEF SockTyped, SockOwners, SockOnce, Net!Accept
<1>6. PICK c : c = Head(queue)
  OBVIOUS
<1>7. /\ Tail(queue) \in Seq(Net!Socks) /\ Net!IsInjective(Tail(queue)) /\ c \in Net!Socks
      /\ c \in Net!Range(queue)
      /\ \A x : x \in Net!Range(Tail(queue)) <=> x \in Net!Range(queue) /\ x # c
  BY <1>5, <1>6, QueueTail
<1>8. InQueue(c, s) /\ sock[c].used
  BY <1>1, <1>4, <1>7 DEF InQueue, SockOwners, SockNamed
<1>9. PICK new : new = [sock[s] EXCEPT !.queue = Tail(queue)]
  OBVIOUS
<1>10. /\ sock' = [sock EXCEPT ![s] = new] /\ pc[t].at = "idle"
       /\ UNCHANGED <<pcb, buffers, overlapped>>
       /\ \/ /\ Net!FreeHandles # {} /\ pc' = pc
             /\ shandle' = [shandle EXCEPT ![Net!Min(Net!FreeHandles)] = c]
          \/ /\ shandle' = shandle /\ pc' = [pc EXCEPT ![t] = [at |-> "closing", sock |-> c]]
  BY <1>2, <1>4, <1>6, <1>9, SockConstants DEF Net!Accept
<1>11. /\ DOMAIN new = SockFields /\ new.used = sock[s].used /\ new.buf = sock[s].buf
       /\ new.pcb = sock[s].pcb /\ new.queue = Tail(queue) /\ new.rx = sock[s].rx /\ new.read = sock[s].read
       /\ new.dropped = sock[s].dropped /\ new.state = sock[s].state /\ new.type = sock[s].type
  BY <1>3, <1>9 DEF SockTyped, SockFields
<1>12. SockTyped(new)
  BY <1>3, <1>7, <1>11 DEF SockTyped
<1>13. /\ sock' = [r \in Net!Socks |-> sock'[r]] /\ \A r \in Net!Socks : SockTyped(sock'[r])
       /\ sock'[s] = new /\ \A r \in Net!Socks \ {s} : sock'[r] = sock[r]
  BY <1>1, <1>10, <1>12, OneSlot
<1>14. \A r \in Net!Socks : /\ sock'[r].used = sock[r].used /\ sock'[r].buf = sock[r].buf
                            /\ sock'[r].pcb = sock[r].pcb /\ sock'[r].state = sock[r].state
                            /\ sock'[r].type = sock[r].type /\ sock'[r].dropped = sock[r].dropped
                            /\ SockStream(r)' = SockStream(r)
  BY <1>11, <1>13 DEF SockStream
<1>15. \A r, q \in Net!Socks : InQueue(r, q)' <=> InQueue(r, q) /\ r # c
  <2>1. \A r \in Net!Socks : InQueue(r, s)' <=> InQueue(r, s) /\ r # c
    BY <1>4, <1>7, <1>11, <1>13 DEF InQueue
  <2>2. \A r, q \in Net!Socks : q # s => (InQueue(r, q)' <=> InQueue(r, q))
    BY <1>13 DEF InQueue
  <2>3. \A q \in Net!Socks : q # s => ~InQueue(c, q)
    BY <1>1, <1>7, <1>8 DEF SockOwners, SockOnce
  <2> QED BY <2>1, <2>2, <2>3
<1>16. \A q \in Net!Socks : Net!IsInjective(sock[q].queue)'
  BY <1>1, <1>7, <1>11, <1>13 DEF SockOwners, SockOnce
<1>17. /\ \A g \in Net!Handles : shandle[g] # c
       /\ \A u \in Threads : ~InCall(c, u)
  BY <1>1, <1>7, <1>8, SockConstants DEF SockOwners, SockOnce
<1>18. \A g \in Net!Handles : shandle[g] # Net!NoSock => shandle[g] \in Net!Socks
  BY <1>1 DEF NetTyped
<1>19. /\ shandle' \in [Net!Handles -> Net!Socks \cup {Net!NoSock}] /\ pc' \in [Threads -> SockCalls]
       /\ \A r \in Net!Socks : Releasing(r)' <=> Releasing(r)
       /\ SockOwners'
  <2>1. CASE Net!FreeHandles # {} /\ pc' = pc /\ shandle' = [shandle EXCEPT ![Net!Min(Net!FreeHandles)] = c]
    <3>1. PICK f \in Net!Handles : f = Net!Min(Net!FreeHandles) /\ shandle[f] = Net!NoSock
      <4>1. Net!FreeHandles \in SUBSET Nat
        BY DEF Net!FreeHandles, Net!Handles
      <4> QED BY <2>1, <4>1, NetLeast DEF Net!FreeHandles
    <3>2. /\ shandle' \in [Net!Handles -> Net!Socks \cup {Net!NoSock}] /\ shandle'[f] = c
          /\ \A g \in Net!Handles \ {f} : shandle'[g] = shandle[g]
      BY <1>1, <1>7, <2>1, <3>1 DEF NetTyped
    <3>3. \A r \in Net!Socks, u \in Threads : InCall(r, u)' <=> InCall(r, u)
      BY <2>1 DEF InCall
    <3>4. SockNamed'
      BY <1>1, <1>8, <1>14, <1>15, <1>18, <3>2, <3>3 DEF SockOwners, SockNamed
    <3>5. SockOnce'
      <4>1. \A g \in Net!Handles : shandle'[g] # Net!NoSock =>
               \/ g = f /\ shandle'[g] = c
               \/ g # f /\ shandle'[g] = shandle[g] /\ shandle[g] # c
        BY <1>17, <3>2
      <4>2. \A g, k \in Net!Handles : shandle'[g] # Net!NoSock /\ shandle'[g] = shandle'[k] => g = k
        BY <1>1, <4>1 DEF SockOwners, SockOnce
      <4>3. \A p, q, r \in Net!Socks : InQueue(r, p)' /\ InQueue(r, q)' => p = q
        BY <1>1, <1>15 DEF SockOwners, SockOnce
      <4>4. \A u, v \in Threads, r \in Net!Socks : InCall(r, u)' /\ InCall(r, v)' => u = v
        BY <1>1, <3>3 DEF SockOwners, SockOnce
      <4>5. \A g \in Net!Handles, q \in Net!Socks : shandle'[g] # Net!NoSock => ~InQueue(shandle[g], q)'
        <5>1. ASSUME NEW g \in Net!Handles, NEW q \in Net!Socks, NEW r \in Net!Socks, shandle'[g] = r
              PROVE  ~InQueue(r, q)'
          BY <1>1, <1>15, <1>18, <4>1, <5>1, SockConstants DEF SockOwners, SockOnce
        <5>2. \A g \in Net!Handles : shandle'[g] # Net!NoSock => shandle'[g] \in Net!Socks
          BY <3>2
        <5> QED BY <5>1, <5>2
      <4>6. \A g \in Net!Handles, u \in Threads : shandle'[g] # Net!NoSock => ~InCall(shandle[g], u)'
        <5>1. ASSUME NEW g \in Net!Handles, NEW u \in Threads, NEW r \in Net!Socks, shandle'[g] = r
              PROVE  ~InCall(r, u)'
          BY <1>1, <1>17, <3>3, <4>1, <5>1, SockConstants DEF SockOwners, SockOnce
        <5>2. \A g \in Net!Handles : shandle'[g] # Net!NoSock => shandle'[g] \in Net!Socks
          BY <3>2
        <5> QED BY <5>1, <5>2
      <4>7. \A q, r \in Net!Socks, u \in Threads : InQueue(r, q)' => ~InCall(r, u)'
        BY <1>1, <1>15, <3>3 DEF SockOwners, SockOnce
      <4> QED BY <1>16, <4>2, <4>3, <4>4, <4>5, <4>6, <4>7 DEF SockOnce
    <3>6. SockSomebody'
      <4>1. ASSUME NEW r \in Net!Socks, sock'[r].used
            PROVE  \/ \E g \in Net!Handles : shandle'[g] = r
                   \/ \E q \in Net!Socks : InQueue(r, q)'
                   \/ \E u \in Threads : InCall(r, u)'
        <5>1. CASE r = c
          BY <3>2, <5>1
        <5>2. CASE r # c
          <6>1. \A g \in Net!Handles : shandle[g] = r => shandle'[g] = r
            BY <3>1, <3>2, SockConstants
          <6> QED BY <1>1, <1>14, <1>15, <3>3, <4>1, <5>2, <6>1 DEF SockOwners, SockSomebody
        <5> QED BY <5>1, <5>2
      <4> QED BY <4>1 DEF SockSomebody
    <3>7. \A r \in Net!Socks : Releasing(r)' <=> Releasing(r)
      BY <2>1 DEF Releasing
    <3> QED BY <1>1, <2>1, <3>2, <3>4, <3>5, <3>6, <3>7 DEF SockOwners, NetTyped
  <2>2. CASE shandle' = shandle /\ pc' = [pc EXCEPT ![t] = [at |-> "closing", sock |-> c]]
    <3>1. PICK doing \in SockCalls : doing = [at |-> "closing", sock |-> c]
      BY <1>7 DEF SockCalls
    <3>2. pc' \in [Threads -> SockCalls] /\ pc'[t] = doing /\ \A u \in Threads \ {t} : pc'[u] = pc[u]
      BY <1>1, <2>2, <3>1, OneCall
    <3>3. doing.at = "closing" /\ doing.sock = c
      BY <3>1
    <3>4. \A r \in Net!Socks, u \in Threads : InCall(r, u)' <=> InCall(r, u) \/ (r = c /\ u = t)
      BY <1>10, <3>2, <3>3 DEF InCall
    <3>5. SockNamed'
      BY <1>1, <1>8, <1>14, <1>15, <1>18, <2>2, <3>4 DEF SockOwners, SockNamed
    <3>6. SockOnce'
      BY <1>1, <1>15, <1>16, <1>17, <1>18, <2>2, <3>4 DEF SockOwners, SockOnce
    <3>7. SockSomebody'
      BY <1>1, <1>14, <1>15, <2>2, <3>4 DEF SockOwners, SockSomebody
    <3>8. \A r \in Net!Socks : Releasing(r)' <=> Releasing(r)
      BY <1>10, <3>2, <3>3 DEF Releasing
    <3> QED BY <1>1, <2>2, <3>2, <3>5, <3>6, <3>7, <3>8 DEF SockOwners, NetTyped
  <2> QED BY <1>10, <2>1, <2>2
<1>20. NetTyped'
  BY <1>1, <1>10, <1>13, <1>19 DEF NetTyped
<1>21. \A r \in Net!Socks : Keeping(r)' <=> Keeping(r)
  BY <1>14, <1>19 DEF Keeping
<1>22. SockCalled'
  <2>1. \A u \in Threads : \/ pc'[u] = pc[u]
                           \/ pc'[u].at = "closing"
    BY <1>1, <1>10 DEF NetTyped
  <2>2. \A u \in Threads : pc[u].at = "taken" => sock'[pc[u].sock] = sock[pc[u].sock]
    BY <1>1, <1>3, <1>13, CallFacts
  <2>3. \A u \in Threads : pc[u].at # "idle" => sock'[pc[u].sock].used = sock[pc[u].sock].used
    BY <1>1, <1>14, CallFacts
  <2> QED BY <1>1, <2>1, <2>2, <2>3 DEF SockCalled
<1>23. SockStates'
  <2>1. \A r \in Net!Socks : sock'[r].queue # << >> => sock[r].queue # << >>
    BY <1>4, <1>5, <1>13
  <2> QED BY <1>1, <1>10, <1>14, <1>15, <1>21, <2>1 DEF SockStates
<1>24. SockBlocks'
  BY <1>1, <1>10, <1>14, <1>21, BlocksStay
<1>25. SockCounted'
  BY <1>1, <1>10, <1>14, <1>21, CountedStay
<1>26. SockBytes'
  BY <1>1, <1>10, <1>14, <1>21, BytesStay
<1> QED BY <1>10, <1>19, <1>20, <1>22, <1>23, <1>24, <1>25, <1>26 DEF NetInv, SockOwned

\* The first free control block.
LEMMA FirstFreePcb ==
  ASSUME NetTyped, SockBlocks, Net!FreePcbs # {}
  PROVE  Net!Min(Net!FreePcbs) \in Net!Pcbs /\ pcb[Net!Min(Net!FreePcbs)] = Net!FreePcb
<1>1. Net!FreePcbs \in SUBSET Nat
  BY SockConstants DEF Net!FreePcbs
<1>2. Net!Min(Net!FreePcbs) \in Net!FreePcbs
  BY <1>1, NetLeast
<1> QED BY <1>2 DEF Net!FreePcbs, SockBlocks

LEMMA NetOpenDone ==
  ASSUME NetInv, ~overlapped, NEW t \in Threads, NEW type, Net!OpenDone(t, type)
  PROVE  NetInv'
<1>1. NetTyped /\ SockOwners /\ SockCalled /\ SockStates /\ SockBlocks /\ SockCounted /\ SockBytes
  BY DEF NetInv, SockOwned
<1>2. PICK s \in Net!Socks : s = pc[t].sock /\ pc[t].at = "taken" /\ sock[s] = Net!Taken(s)
  BY <1>1, CallFacts DEF Net!OpenDone, SockCalled
<1>3. PICK p \in Net!Pcbs : p = Net!Min(Net!FreePcbs) /\ pcb[p] = Net!FreePcb
  <2>1. Net!FreePcbs # {}
    BY DEF Net!OpenDone
  <2> QED BY <1>1, <2>1, FirstFreePcb
<1>4. PICK new : new = [sock[s] EXCEPT !.type = type, !.pcb = p, !.buf = TRUE]
  OBVIOUS
<1>5. PICK b : b = [pcb[p] EXCEPT !.state = "new"]
  OBVIOUS
<1>6. /\ sock' = [sock EXCEPT ![s] = new] /\ pcb' = [pcb EXCEPT ![p] = b] /\ buffers' = buffers + 1
      /\ overlapped' = overlapped
      /\ \/ /\ Net!FreeHandles # {} /\ pc' = [pc EXCEPT ![t] = Net!Idle]
            /\ shandle' = [shandle EXCEPT ![Net!Min(Net!FreeHandles)] = s]
         \/ /\ shandle' = shandle /\ pc' = [pc EXCEPT ![t] = [at |-> "closing", sock |-> s]]
  BY <1>2, <1>3, <1>4, <1>5 DEF Net!OpenDone
<1>7. /\ SockTyped(sock[s]) /\ sock[s].used /\ ~sock[s].buf /\ sock[s].pcb = Net!NoPcb /\ sock[s].queue = << >>
      /\ sock[s].state = "closed" /\ sock[s].read = << >> /\ sock[s].rx = << >>
  BY <1>2, BlankFacts
<1>8. /\ DOMAIN new = SockFields /\ new.used /\ new.used \in BOOLEAN /\ new.buf
      /\ new.pcb = p /\ new.queue = << >> /\ new.rx = << >> /\ new.read = << >> /\ new.state = "closed"
      /\ new.dropped = sock[s].dropped
  BY <1>4, <1>7 DEF SockTyped, SockFields
<1>9. SockTyped(new)
  BY <1>3, <1>7, <1>8, SockConstants DEF SockTyped
<1>10. /\ b \in [state : PcbStates, arg : Net!Socks \cup {Net!NoSock}, arrived : Nat]
       /\ b.state = "new" /\ b.arg = Net!NoSock /\ b.arrived = 0
  BY <1>3, <1>5, SockConstants DEF PcbStates
<1>11. /\ pcb' \in [Net!Pcbs -> [state : PcbStates, arg : Net!Socks \cup {Net!NoSock}, arrived : Nat]]
       /\ pcb'[p] = b /\ \A q \in Net!Pcbs \ {p} : pcb'[q] = pcb[q]
  BY <1>1, <1>6, <1>10, OneBlock
<1>12. /\ sock' = [r \in Net!Socks |-> sock'[r]] /\ \A r \in Net!Socks : SockTyped(sock'[r])
       /\ sock'[s] = new /\ \A r \in Net!Socks \ {s} : sock'[r] = sock[r]
  BY <1>1, <1>6, <1>9, OneSlot
<1>13. \A r, q \in Net!Socks : InQueue(r, q)' <=> InQueue(r, q)
  BY <1>7, <1>8, <1>12 DEF InQueue
<1>14. \A r \in Net!Socks : sock'[r].used = sock[r].used
  <2>1. sock[s].used = TRUE /\ new.used = TRUE
    BY <1>7, <1>8 DEF SockTyped
  <2> QED BY <1>12, <2>1
<1>15. \A q \in Net!Socks : Net!IsInjective(sock[q].queue)'
  BY <1>1, <1>7, <1>8, <1>12 DEF SockOwners, SockOnce
<1>16. InCall(s, t) /\ \A r \in Net!Socks : InCall(r, t) => r = s
  BY <1>2 DEF InCall
<1>17. /\ \A h \in Net!Handles : shandle[h] # s
       /\ \A q \in Net!Socks : ~InQueue(s, q)
       /\ \A u \in Threads : InCall(s, u) => u = t
  BY <1>1, <1>16, SockConstants DEF SockOwners, SockOnce
<1>18. \A g \in Net!Handles : shandle[g] # Net!NoSock => shandle[g] \in Net!Socks
  BY <1>1 DEF NetTyped
<1>19. /\ shandle' \in [Net!Handles -> Net!Socks \cup {Net!NoSock}] /\ pc' \in [Threads -> SockCalls]
       /\ pc'[t].at \in {"idle", "closing"} /\ \A u \in Threads \ {t} : pc'[u] = pc[u]
       /\ SockOwners'
  <2>1. CASE /\ Net!FreeHandles # {} /\ pc' = [pc EXCEPT ![t] = Net!Idle]
             /\ shandle' = [shandle EXCEPT ![Net!Min(Net!FreeHandles)] = s]
    <3>1. PICK f \in Net!Handles : f = Net!Min(Net!FreeHandles) /\ shandle[f] = Net!NoSock
      <4>1. Net!FreeHandles \in SUBSET Nat
        BY DEF Net!FreeHandles, Net!Handles
      <4> QED BY <2>1, <4>1, NetLeast DEF Net!FreeHandles
    <3>2. /\ shandle' \in [Net!Handles -> Net!Socks \cup {Net!NoSock}] /\ shandle'[f] = s
          /\ \A g \in Net!Handles \ {f} : shandle'[g] = shandle[g]
      BY <1>1, <2>1, <3>1 DEF NetTyped
    <3>3. pc' \in [Threads -> SockCalls] /\ pc'[t].at = "idle" /\ \A u \in Threads \ {t} : pc'[u] = pc[u]
      BY <1>1, <2>1, SockConstants, OneCall
    <3>4. \A r \in Net!Socks, u \in Threads : InCall(r, u)' <=> InCall(r, u) /\ u # t
      BY <3>3 DEF InCall
    <3>5. SockNamed'
      BY <1>1, <1>7, <1>13, <1>14, <1>18, <3>2, <3>4 DEF SockOwners, SockNamed
    <3>6. SockOnce'
      <4>1. \A g \in Net!Handles : shandle'[g] # Net!NoSock =>
               \/ g = f /\ shandle'[g] = s
               \/ g # f /\ shandle'[g] = shandle[g] /\ shandle[g] # s
        BY <1>17, <3>2
      <4>2. \A g, k \in Net!Handles : shandle'[g] # Net!NoSock /\ shandle'[g] = shandle'[k] => g = k
        BY <1>1, <4>1 DEF SockOwners, SockOnce
      <4>3. \A o, q, r \in Net!Socks : InQueue(r, o)' /\ InQueue(r, q)' => o = q
        BY <1>1, <1>13 DEF SockOwners, SockOnce
      <4>4. \A u, v \in Threads, r \in Net!Socks : InCall(r, u)' /\ InCall(r, v)' => u = v
        BY <1>1, <3>4 DEF SockOwners, SockOnce
      <4>5. \A g \in Net!Handles : shandle'[g] # Net!NoSock => shandle'[g] \in Net!Socks
        BY <3>2
      <4>6. \A g \in Net!Handles, q \in Net!Socks : shandle'[g] # Net!NoSock => ~InQueue(shandle[g], q)'
        <5>1. ASSUME NEW g \in Net!Handles, NEW q \in Net!Socks, NEW r \in Net!Socks, shandle'[g] = r
              PROVE  ~InQueue(r, q)'
          BY <1>1, <1>13, <1>17, <4>1, <5>1, SockConstants DEF SockOwners, SockOnce
        <5> QED BY <4>5, <5>1
      <4>7. \A g \in Net!Handles, u \in Threads : shandle'[g] # Net!NoSock => ~InCall(shandle[g], u)'
        <5>1. ASSUME NEW g \in Net!Handles, NEW u \in Threads, NEW r \in Net!Socks, shandle'[g] = r
              PROVE  ~InCall(r, u)'
          BY <1>1, <1>17, <3>4, <4>1, <5>1, SockConstants DEF SockOwners, SockOnce
        <5> QED BY <4>5, <5>1
      <4>8. \A q, r \in Net!Socks, u \in Threads : InQueue(r, q)' => ~InCall(r, u)'
        BY <1>1, <1>13, <3>4 DEF SockOwners, SockOnce
      <4> QED BY <1>15, <4>2, <4>3, <4>4, <4>6, <4>7, <4>8 DEF SockOnce
    <3>7. SockSomebody'
      <4>1. ASSUME NEW r \in Net!Socks, sock'[r].used
            PROVE  \/ \E g \in Net!Handles : shandle'[g] = r
                   \/ \E q \in Net!Socks : InQueue(r, q)'
                   \/ \E u \in Threads : InCall(r, u)'
        <5>1. CASE r = s
          BY <3>2, <5>1
        <5>2. CASE r # s
          <6>1. \A g \in Net!Handles : shandle[g] = r => shandle'[g] = r
            BY <3>1, <3>2, SockConstants
          <6> QED BY <1>1, <1>13, <1>14, <1>16, <3>4, <4>1, <5>2, <6>1 DEF SockOwners, SockSomebody
        <5> QED BY <5>1, <5>2
      <4> QED BY <4>1 DEF SockSomebody
    <3> QED BY <3>2, <3>3, <3>5, <3>6, <3>7 DEF SockOwners
  <2>2. CASE shandle' = shandle /\ pc' = [pc EXCEPT ![t] = [at |-> "closing", sock |-> s]]
    <3>1. PICK doing \in SockCalls : doing = [at |-> "closing", sock |-> s]
      BY DEF SockCalls
    <3>2. pc' \in [Threads -> SockCalls] /\ pc'[t] = doing /\ \A u \in Threads \ {t} : pc'[u] = pc[u]
      BY <1>1, <2>2, <3>1, OneCall
    <3>3. doing.at = "closing" /\ doing.sock = s
      BY <3>1
    <3>4. \A r \in Net!Socks, u \in Threads : InCall(r, u)' <=> InCall(r, u)
      BY <1>16, <3>2, <3>3 DEF InCall
    <3>5. SockNamed'
      BY <1>1, <1>13, <1>14, <1>18, <2>2, <3>4 DEF SockOwners, SockNamed
    <3>6. SockOnce'
      BY <1>1, <1>13, <1>15, <1>18, <2>2, <3>4 DEF SockOwners, SockOnce
    <3>7. SockSomebody'
      BY <1>1, <1>13, <1>14, <2>2, <3>4 DEF SockOwners, SockSomebody
    <3> QED BY <1>1, <2>2, <3>2, <3>3, <3>5, <3>6, <3>7 DEF SockOwners, NetTyped
  <2> QED BY <1>6, <2>1, <2>2
<1>20. NetTyped'
  BY <1>1, <1>6, <1>11, <1>12, <1>19 DEF NetTyped
<1>21. \A r \in Net!Socks : Keeping(r)' <=> Keeping(r)
  BY <1>2, <1>14, <1>19 DEF Keeping, Releasing
<1>22. Keeping(s)
  BY <1>7 DEF Keeping
<1>23. SockCalled'
  <2>1. \A u \in Threads \ {t} : pc[u].at = "taken" => pc[u].sock \in Net!Socks \ {s}
    BY <1>1, <1>17, CallFacts DEF InCall
  <2>2. \A u \in Threads : pc[u].at # "idle" => sock'[pc[u].sock].used = sock[pc[u].sock].used
    BY <1>1, <1>14, CallFacts
  <2> QED BY <1>1, <1>12, <1>19, <2>1, <2>2 DEF SockCalled
<1>24. \A r \in Net!Socks : Keeping(r) /\ sock[r].pcb # Net!NoPcb => sock[r].pcb \in Net!Pcbs \ {p} /\ r # s
  BY <1>1, <1>3, <1>7, SockConstants DEF SockBlocks, NetTyped, SockTyped
<1>25. SockStates'
  BY <1>1, <1>8, <1>11, <1>12, <1>13, <1>21, <1>24, <1>17 DEF SockStates
<1>26. SockBlocks'
  <2>1. ASSUME NEW q \in Net!Pcbs
        PROVE  (/\ pcb[q].state = "free" => pcb[q] = Net!FreePcb
                /\ pcb[q].state = "new" => pcb[q].arrived = 0
                /\ pcb[q].state \notin {"free", "new"} => pcb[q].arg # Net!NoSock
                /\ pcb[q].arg # Net!NoSock => sock[pcb[q].arg].pcb = q /\ Keeping(pcb[q].arg)
                /\ pcb[q].state = "listen" => sock[pcb[q].arg].state = "listening"
                /\ pcb[q].state # "free" => \E r \in Net!Socks : Keeping(r) /\ sock[r].pcb = q)'
    <3>1. CASE q = p
      BY <1>8, <1>10, <1>11, <1>12, <1>21, <1>22, <3>1
    <3>2. CASE q # p
      <4>1. pcb'[q] = pcb[q] /\ q # Net!NoPcb
        BY <1>11, <3>2, SockConstants
      <4>2. PICK a : a = pcb[q].arg
        OBVIOUS
      <4>3. a # Net!NoSock => a \in Net!Socks \ {s} /\ sock[a].pcb = q /\ Keeping(a)
        BY <1>1, <1>7, <4>1, <4>2 DEF SockBlocks, NetTyped
      <4>4. a # Net!NoSock => sock'[a].pcb = q /\ Keeping(a)' /\ sock'[a].state = sock[a].state
        BY <1>12, <1>21, <4>3
      <4>5. pcb'[q].arg # Net!NoSock => sock'[pcb'[q].arg].pcb = q /\ Keeping(pcb[q].arg)'
        BY <4>1, <4>2, <4>4
      <4>6. pcb[q].state # "free" => \E r \in Net!Socks : Keeping(r)' /\ sock'[r].pcb = q
        <5>1. ASSUME pcb[q].state # "free" PROVE \E r \in Net!Socks : Keeping(r)' /\ sock'[r].pcb = q
          <6>1. PICK r \in Net!Socks : Keeping(r) /\ sock[r].pcb = q
            BY <1>1, <5>1 DEF SockBlocks
          <6> QED BY <1>12, <1>21, <1>24, <4>1, <6>1
        <5> QED BY <5>1
      <4>7. pcb[q].state = "listen" => sock'[pcb[q].arg].state = "listening"
        BY <1>1, <4>2, <4>4 DEF SockBlocks
      <4> QED BY <1>1, <4>1, <4>5, <4>6, <4>7 DEF SockBlocks
    <3> QED BY <3>1, <3>2
  <2>2. \A r \in Net!Socks : Keeping(r)' /\ sock'[r].pcb # Net!NoPcb => pcb'[sock'[r].pcb].state # "free"
    BY <1>1, <1>8, <1>10, <1>11, <1>12, <1>21, <1>24 DEF SockBlocks
  <2>3. \A r, q \in Net!Socks :
         Keeping(r)' /\ Keeping(q)' /\ sock'[r].pcb # Net!NoPcb /\ sock'[r].pcb = sock'[q].pcb => r = q
    BY <1>1, <1>8, <1>12, <1>21, <1>24 DEF SockBlocks
  <2> QED BY <2>1, <2>2, <2>3 DEF SockBlocks
<1>27. SockCounted'
  <2>1. PICK H : H = {r \in Net!Socks : Keeping(r) /\ sock[r].buf}
    OBVIOUS
  <2>2. IsFiniteSet(H) /\ s \notin H
    <3>1. IsFiniteSet(Net!Socks)
      BY FS_Interval, SocketsAssumption DEF Net!Socks
    <3> QED BY <1>7, <2>1, <3>1, FS_Subset
  <2>3. {r \in Net!Socks : Keeping(r) /\ sock[r].buf}' = H \cup {s}
    BY <1>8, <1>12, <1>21, <1>22, <2>1
  <2>4. Cardinality(H \cup {s}) = Cardinality(H) + 1
    BY <2>2, FS_AddElement
  <2> QED BY <1>1, <1>6, <2>1, <2>3, <2>4 DEF SockCounted
<1>28. SockBytes'
  <2>1. SockStream(s)' = << >>
    BY <1>8, <1>12 DEF SockStream
  <2>2. \A r \in Net!Socks \ {s} : SockStream(r)' = SockStream(r)
    BY <1>12 DEF SockStream
  <2>3. Rising(<< >>) /\ Gapless(<< >>) /\ UpTo(<< >>, 0) /\ Len(<< >>) = 0
    BY DEF Rising, Gapless, UpTo
  <2>4. /\ Rising(SockStream(s))' /\ Gapless(SockStream(s))' /\ UpTo(SockStream(s)', pcb'[p].arrived)
        /\ Len(SockStream(s)') = pcb'[p].arrived
    BY <1>10, <1>11, <2>1, <2>3
  <2>5. ASSUME NEW r \in Net!Socks, Keeping(r)'
        PROVE  (/\ Rising(SockStream(r))
                /\ ~sock[r].dropped => Gapless(SockStream(r))
                /\ sock[r].pcb # Net!NoPcb =>
                     /\ UpTo(SockStream(r), pcb[sock[r].pcb].arrived)
                     /\ ~sock[r].dropped => Len(SockStream(r)) = pcb[sock[r].pcb].arrived)'
    <3>1. CASE r = s
      BY <1>8, <1>12, <2>4, <3>1
    <3>2. CASE r # s
      BY <1>1, <1>11, <1>12, <1>21, <1>24, <2>2, <2>5, <3>2 DEF SockBytes
    <3> QED BY <3>1, <3>2
  <2> QED BY <2>5 DEF SockBytes
<1> QED BY <1>6, <1>19, <1>20, <1>23, <1>25, <1>26, <1>27, <1>28 DEF NetInv, SockOwned

LEMMA NetIncoming ==
  ASSUME NetInv, ~overlapped, NEW p \in Net!Pcbs, NEW room \in BOOLEAN, Net!Incoming(p, room)
  PROVE  NetInv'
<1>1. NetTyped /\ SockOwners /\ SockCalled /\ SockStates /\ SockBlocks /\ SockCounted /\ SockBytes
  BY DEF NetInv, SockOwned
<1>2. pcb[p].state = "listen" /\ Net!FreeSlots # {}
  BY DEF Net!Incoming
<1>3. PICK s \in Net!Socks : s = pcb[p].arg
  BY <1>2, CallbackFacts
<1>4. /\ SockTyped(sock[s]) /\ sock[s].pcb = p /\ sock[s].used /\ sock[s].state = "listening"
      /\ \A t \in Threads : pc[t].at = "taken" => pc[t].sock # s
  BY <1>1, <1>2, <1>3, CallbackFacts DEF Net!Incoming, Net!Called, SockBlocks
<1>5. PICK c \in Net!Socks : c = Net!Min(Net!FreeSlots) /\ ~sock[c].used
  <2>1. Net!FreeSlots \in SUBSET Nat
    BY SockConstants DEF Net!FreeSlots
  <2> QED BY <1>2, <2>1, NetLeast DEF Net!FreeSlots
<1>6. PICK q \in 0 .. NPcbs : /\ q = (IF Net!FreePcbs = {} THEN Net!NoPcb ELSE Net!Min(Net!FreePcbs))
                              /\ q = Net!NoPcb \/ (q \in Net!Pcbs /\ pcb[q] = Net!FreePcb)
  <2>1. CASE Net!FreePcbs = {}
    BY <2>1, SockConstants
  <2>2. CASE Net!FreePcbs # {}
    BY <1>1, <2>2, FirstFreePcb, SockConstants
  <2> QED BY <2>1, <2>2
<1>7. c # s /\ p # q
  BY <1>2, <1>4, <1>5, <1>6, SockConstants
<1>8. /\ overlapped' = (overlapped \/ Net!Clashes(c)) /\ UNCHANGED <<shandle, pc>>
  BY <1>5 DEF Net!Incoming
<1>9. CASE ~room
  <2>1. PICK new : new = [Net!Blank EXCEPT !.state = "connected", !.pcb = q]
    OBVIOUS
  <2>2. sock' = [sock EXCEPT ![c] = new] /\ UNCHANGED <<pcb, buffers>>
    BY <1>5, <1>6, <1>9, <2>1 DEF Net!Incoming
  <2>3. /\ ~new.used /\ ~new.buf /\ new.queue = << >> /\ new.pcb = q /\ SockTyped(new)
    BY <1>6, <2>1, BlankFacts, SockConstants DEF SockTyped, SockFields, Net!Blank
  <2>4. /\ sock' = [r \in Net!Socks |-> sock'[r]] /\ \A r \in Net!Socks : SockTyped(sock'[r])
        /\ sock'[c] = new /\ \A r \in Net!Socks \ {c} : sock'[r] = sock[r]
    BY <1>1, <2>2, <2>3, OneSlot
  <2>5. NetTyped'
    BY <1>1, <1>8, <2>2, <2>4 DEF NetTyped
  <2>6. ASSUME ~overlapped' PROVE SockOwned'
    <3>1. \A t \in Threads : pc[t].at \in {"found", "marked"} => pc[t].sock # c
      BY <1>8, <2>6 DEF Net!Clashes
    <3>2. ~Keeping(c)
      BY <1>5, <3>1 DEF Keeping, Releasing
    <3>3. sock[c].queue = << >>
      BY <1>1, <3>2 DEF SockStates
    <3>4. \A r, x \in Net!Socks : InQueue(r, x)' <=> InQueue(r, x)
      BY <2>3, <2>4, <3>3 DEF InQueue
    <3>5. \A r \in Net!Socks : Keeping(r)' <=> Keeping(r)
      BY <1>5, <1>8, <2>3, <2>4 DEF Keeping, Releasing
    <3>6. \A r \in Net!Socks : sock'[r].used = sock[r].used /\ sock'[r].queue = sock[r].queue
      <4>1. sock[c].used = FALSE /\ new.used = FALSE
        BY <1>1, <1>5, <2>3 DEF NetTyped, SockTyped
      <4> QED BY <2>3, <2>4, <3>3, <4>1
    <3>7. SockOwners'
      <4>1. \A r \in Net!Socks, t \in Threads : InCall(r, t)' <=> InCall(r, t)
        BY <1>8 DEF InCall
      <4> QED BY <1>1, <1>8, <3>6, <4>1, OwnersStay
    <3>8. SockCalled'
      <4>1. \A t \in Threads : pc[t].at \in {"found", "taken", "marked"} =>
               pc[t].sock \in Net!Socks \ {c} /\ sock'[pc[t].sock] = sock[pc[t].sock]
        <5>1. \A t \in Threads : pc[t].at = "taken" => pc[t].sock # c
          BY <1>1, <1>5 DEF SockOwners, SockNamed, InCall
        <5> QED BY <1>1, <2>4, <3>1, <5>1, CallFacts
      <4> QED BY <1>1, <1>8, <4>1 DEF SockCalled
    <3>9. SockStates'
      BY <1>1, <1>5, <2>2, <2>3, <2>4, <3>2, <3>4, <3>5 DEF SockStates, SockOwners, SockNamed
    <3>10. SockBlocks'
      BY <1>1, <2>2, <2>4, <3>2, <3>5, BlocksStay
    <3>11. SockCounted'
      BY <1>1, <2>2, <2>4, <3>2, <3>5, CountedStay
    <3>12. SockBytes'
      <4>1. \A r \in Net!Socks \ {c} : SockStream(r)' = SockStream(r)
        BY <2>4 DEF SockStream
      <4> QED BY <1>1, <2>2, <2>4, <3>2, <3>5, <4>1, BytesStay
    <3> QED BY <3>7, <3>8, <3>9, <3>10, <3>11, <3>12 DEF SockOwned
  <2> QED BY <2>5, <2>6 DEF NetInv
<1>10. CASE room
  <2>1. PICK new : new = [Net!Taken(c) EXCEPT !.state = "connected", !.pcb = q, !.buf = TRUE]
    OBVIOUS
  <2>2. PICK more : more = [sock[s] EXCEPT !.queue = Append(sock[s].queue, c)]
    OBVIOUS
  <2>3. PICK b : b = [state |-> "open", arg |-> c, arrived |-> 0]
    OBVIOUS
  <2>4. /\ sock' = [sock EXCEPT ![c] = new, ![s] = more]
        /\ pcb' = [x \in Net!Pcbs |-> IF x = q THEN b ELSE pcb[x]]
        /\ buffers' = buffers + 1
    BY <1>1, <1>3, <1>5, <1>6, <1>7, <1>10, <2>1, <2>2, <2>3 DEF Net!Incoming, NetTyped
  <2>5. /\ new.used /\ new.buf /\ new.queue = << >> /\ new.pcb = q /\ new.state = "connected"
        /\ new.read = << >> /\ new.rx = << >> /\ SockTyped(new)
    BY <1>6, <2>1, BlankFacts, SockConstants DEF SockTyped, SockFields, Net!Blank, Net!Taken
  <2>6. PICK queue : queue = sock[s].queue
    OBVIOUS
  <2>7. queue \in Seq(Net!Socks) /\ Net!IsInjective(queue) /\ c \notin Net!Range(queue)
    <3>1. ~InQueue(c, s)
      BY <1>1, <1>5 DEF SockOwners, SockNamed
    <3> QED BY <1>1, <1>4, <2>6, <3>1 DEF SockTyped, SockOwners, SockOnce, InQueue
  <2>8. /\ Append(queue, c) \in Seq(Net!Socks) /\ Net!IsInjective(Append(queue, c))
        /\ \A x : x \in Net!Range(Append(queue, c)) <=> x \in Net!Range(queue) \/ x = c
    BY <2>7, QueueAppend
  <2>9. /\ DOMAIN more = SockFields /\ more.used = sock[s].used /\ more.queue = Append(queue, c)
        /\ more.buf = sock[s].buf /\ more.pcb = p /\ more.state = "listening" /\ more.type = sock[s].type
        /\ more.read = sock[s].read /\ more.rx = sock[s].rx /\ more.dropped = sock[s].dropped
    BY <1>4, <2>2, <2>6 DEF SockTyped, SockFields
  <2>10. SockTyped(more)
    BY <1>4, <2>8, <2>9 DEF SockTyped
  <2>11. /\ sock' = [r \in Net!Socks |-> sock'[r]] /\ \A r \in Net!Socks : SockTyped(sock'[r])
         /\ sock'[c] = new /\ sock'[s] = more /\ \A r \in Net!Socks \ {c, s} : sock'[r] = sock[r]
    <3>1. DOMAIN sock = Net!Socks /\ \A r \in Net!Socks : SockTyped(sock[r])
      BY <1>1 DEF NetTyped
    <3>2. sock' = [r \in Net!Socks |-> IF r = s THEN more ELSE IF r = c THEN new ELSE sock[r]]
      BY <2>4, <3>1
    <3> QED BY <1>7, <2>5, <2>10, <3>1, <3>2
  <2>12. /\ b \in [state : PcbStates, arg : Net!Socks \cup {Net!NoSock}, arrived : Nat]
         /\ b.state = "open" /\ b.arg = c /\ b.arrived = 0
    BY <2>3 DEF PcbStates
  <2>13. /\ pcb' \in [Net!Pcbs -> [state : PcbStates, arg : Net!Socks \cup {Net!NoSock}, arrived : Nat]]
         /\ \A x \in Net!Pcbs : pcb'[x] = IF x = q THEN b ELSE pcb[x]
    BY <1>1, <2>4, <2>12 DEF NetTyped
  <2>14. NetTyped'
    BY <1>1, <1>8, <2>4, <2>11, <2>13 DEF NetTyped
  <2>15. ASSUME ~overlapped' PROVE SockOwned'
    <3>1. \A t \in Threads : pc[t].at \in {"found", "marked"} => pc[t].sock # c
      BY <1>8, <2>15 DEF Net!Clashes
    <3>2. ~Keeping(c)
      BY <1>5, <3>1 DEF Keeping, Releasing
    <3>3. sock[c].queue = << >>
      BY <1>1, <3>2 DEF SockStates
    <3>4. \A r, x \in Net!Socks : InQueue(r, x)' <=> InQueue(r, x) \/ (r = c /\ x = s)
      <4>1. \A r \in Net!Socks : InQueue(r, s)' <=> InQueue(r, s) \/ r = c
        BY <2>6, <2>8, <2>9, <2>11 DEF InQueue
      <4>2. \A r, x \in Net!Socks : x # s => (InQueue(r, x)' <=> InQueue(r, x))
        BY <2>5, <2>11, <3>3 DEF InQueue
      <4> QED BY <4>1, <4>2
    <3>5. \A r \in Net!Socks : sock'[r].used <=> sock[r].used \/ r = c
      BY <1>4, <2>5, <2>9, <2>11
    <3>6. \A r \in Net!Socks : Keeping(r)' <=> Keeping(r) \/ r = c
      BY <1>8, <3>5, <3>2 DEF Keeping, Releasing
    <3>7. \A r \in Net!Socks \ {c} :
             /\ sock'[r].buf = sock[r].buf /\ sock'[r].pcb = sock[r].pcb /\ sock'[r].state = sock[r].state
             /\ sock'[r].type = sock[r].type /\ sock'[r].dropped = sock[r].dropped
             /\ SockStream(r)' = SockStream(r)
      BY <1>4, <2>9, <2>11 DEF SockStream
    <3>8. /\ \A h \in Net!Handles : shandle[h] # c
          /\ \A x \in Net!Socks : ~InQueue(c, x)
          /\ \A t \in Threads : ~InCall(c, t)
      BY <1>1, <1>5, SockConstants DEF SockOwners, SockNamed
    <3>9. \A g \in Net!Handles : shandle[g] # Net!NoSock => shandle[g] \in Net!Socks
      BY <1>1 DEF NetTyped
    <3>10. \A r \in Net!Socks, t \in Threads : InCall(r, t)' <=> InCall(r, t)
      BY <1>8 DEF InCall
    <3>11. SockNamed'
      BY <1>1, <1>8, <3>4, <3>5, <3>9, <3>10 DEF SockOwners, SockNamed
    <3>12. SockOnce'
      <4>1. \A x \in Net!Socks : Net!IsInjective(sock[x].queue)'
        BY <1>1, <2>5, <2>8, <2>9, <2>11, QueueEmpty DEF SockOwners, SockOnce
      <4> QED BY <1>1, <1>8, <3>4, <3>8, <3>9, <3>10, <4>1 DEF SockOwners, SockOnce
    <3>13. SockSomebody'
      BY <1>1, <1>8, <3>4, <3>5, <3>10 DEF SockOwners, SockSomebody
    <3>14. SockCalled'
      <4>1. \A t \in Threads : pc[t].at \in {"found", "taken", "marked"} => pc[t].sock \in Net!Socks \ {c}
        <5>1. \A t \in Threads : pc[t].at = "taken" => pc[t].sock # c
          BY <1>1, <1>5 DEF SockOwners, SockNamed, InCall
        <5> QED BY <1>1, <3>1, <5>1, CallFacts
      <4>2. \A t \in Threads : pc[t].at = "taken" => sock'[pc[t].sock] = sock[pc[t].sock]
        BY <1>4, <2>11, <4>1
      <4> QED BY <1>1, <1>8, <3>5, <4>1, <4>2 DEF SockCalled
    <3>15. \A r \in Net!Socks : Keeping(r) /\ sock[r].pcb # Net!NoPcb => sock[r].pcb \in Net!Pcbs \ {q} /\ r # c
      BY <1>1, <1>6, <3>2, SockConstants DEF SockBlocks, NetTyped, SockTyped
    <3>16. SockStates'
      <4>1. ASSUME NEW r \in Net!Socks
            PROVE  (/\ sock[r].queue # << >> => Keeping(r) /\ sock[r].state = "listening"
                    /\ Keeping(r) /\ sock[r].state = "bound" =>
                          sock[r].pcb # Net!NoPcb /\ pcb[sock[r].pcb].state = "new"
                    /\ Keeping(r) /\ sock[r].state = "listening" =>
                          sock[r].type = "tcp" /\ sock[r].pcb # Net!NoPcb /\ pcb[sock[r].pcb].state = "listen"
                    /\ \A x \in Net!Socks : InQueue(r, x) => sock[r].state \in {"connected", "error"})'
        <5>1. CASE r = c
          BY <2>5, <2>11, <5>1
        <5>2. CASE r # c
          <6>1. sock'[r].queue # << >> => Keeping(r) /\ sock[r].state = "listening"
            BY <1>1, <1>4, <2>11, <5>2 DEF SockStates, Keeping
          <6>2. Keeping(r) /\ sock[r].pcb # Net!NoPcb => pcb'[sock[r].pcb] = pcb[sock[r].pcb]
            BY <2>13, <3>15
          <6> QED BY <1>1, <3>4, <3>6, <3>7, <5>2, <6>1, <6>2 DEF SockStates
        <5> QED BY <5>1, <5>2
      <4> QED BY <4>1 DEF SockStates
    <3>17. SockBlocks'
      <4>1. ASSUME NEW x \in Net!Pcbs
            PROVE  (/\ pcb[x].state = "free" => pcb[x] = Net!FreePcb
                    /\ pcb[x].state = "new" => pcb[x].arrived = 0
                    /\ pcb[x].state \notin {"free", "new"} => pcb[x].arg # Net!NoSock
                    /\ pcb[x].arg # Net!NoSock => sock[pcb[x].arg].pcb = x /\ Keeping(pcb[x].arg)
                    /\ pcb[x].state = "listen" => sock[pcb[x].arg].state = "listening"
                    /\ pcb[x].state # "free" => \E r \in Net!Socks : Keeping(r) /\ sock[r].pcb = x)'
        <5>1. CASE x = q
          BY <2>5, <2>11, <2>12, <2>13, <3>6, <5>1, SockConstants
        <5>2. CASE x # q
          <6>1. pcb'[x] = pcb[x] /\ x # Net!NoPcb
            BY <2>13, <5>2, SockConstants
          <6>2. PICK a : a = pcb[x].arg
            OBVIOUS
          <6>3. a # Net!NoSock => a \in Net!Socks \ {c} /\ sock[a].pcb = x /\ Keeping(a)
            BY <1>1, <3>2, <6>1, <6>2 DEF SockBlocks, NetTyped
          <6>4. a # Net!NoSock => sock'[a].pcb = x /\ Keeping(a)' /\ sock'[a].state = sock[a].state
            BY <3>6, <3>7, <6>3
          <6>5. pcb'[x].arg # Net!NoSock => sock'[pcb'[x].arg].pcb = x /\ Keeping(pcb[x].arg)'
            BY <6>1, <6>2, <6>4
          <6>6. pcb[x].state # "free" => \E r \in Net!Socks : Keeping(r)' /\ sock'[r].pcb = x
            <7>1. ASSUME pcb[x].state # "free" PROVE \E r \in Net!Socks : Keeping(r)' /\ sock'[r].pcb = x
              <8>1. PICK r \in Net!Socks : Keeping(r) /\ sock[r].pcb = x
                BY <1>1, <7>1 DEF SockBlocks
              <8> QED BY <3>2, <3>6, <3>7, <8>1
            <7> QED BY <7>1
          <6>7. pcb[x].state = "listen" => sock'[pcb[x].arg].state = "listening"
            BY <1>1, <6>2, <6>4 DEF SockBlocks
          <6> QED BY <1>1, <6>1, <6>5, <6>6, <6>7 DEF SockBlocks
        <5> QED BY <5>1, <5>2
      <4>2. \A r \in Net!Socks : Keeping(r)' /\ sock'[r].pcb # Net!NoPcb => pcb'[sock'[r].pcb].state # "free"
        <5>1. ASSUME NEW r \in Net!Socks, Keeping(r)', sock'[r].pcb # Net!NoPcb
              PROVE  pcb'[sock'[r].pcb].state # "free"
          <6>1. CASE r = c
            <7>1. q \in Net!Pcbs /\ sock'[r].pcb = q
              BY <1>6, <2>5, <2>11, <5>1, <6>1
            <7> QED BY <2>12, <2>13, <7>1
          <6>2. CASE r # c
            BY <1>1, <2>13, <3>6, <3>7, <3>15, <5>1, <6>2 DEF SockBlocks
          <6> QED BY <6>1, <6>2
        <5> QED BY <5>1
      <4>3. \A r, x \in Net!Socks :
             Keeping(r)' /\ Keeping(x)' /\ sock'[r].pcb # Net!NoPcb /\ sock'[r].pcb = sock'[x].pcb => r = x
        <5>1. \A r \in Net!Socks \ {c} : Keeping(r)' /\ sock'[r].pcb # Net!NoPcb => sock'[r].pcb # q
          BY <3>6, <3>7, <3>15
        <5>2. sock'[c].pcb = q
          BY <2>5, <2>11
        <5> QED BY <1>1, <3>6, <3>7, <5>1, <5>2 DEF SockBlocks
      <4> QED BY <4>1, <4>2, <4>3 DEF SockBlocks
    <3>18. SockCounted'
      <4>1. PICK H : H = {r \in Net!Socks : Keeping(r) /\ sock[r].buf}
        OBVIOUS
      <4>2. IsFiniteSet(H) /\ c \notin H
        <5>1. IsFiniteSet(Net!Socks)
          BY FS_Interval, SocketsAssumption DEF Net!Socks
        <5> QED BY <3>2, <4>1, <5>1, FS_Subset
      <4>3. {r \in Net!Socks : Keeping(r) /\ sock[r].buf}' = H \cup {c}
        BY <2>5, <2>11, <3>6, <3>7, <4>1
      <4>4. Cardinality(H \cup {c}) = Cardinality(H) + 1
        BY <4>2, FS_AddElement
      <4> QED BY <1>1, <2>4, <4>1, <4>3, <4>4 DEF SockCounted
    <3>19. SockBytes'
      <4>1. SockStream(c)' = << >>
        BY <2>5, <2>11 DEF SockStream
      <4>2. Rising(<< >>) /\ Gapless(<< >>) /\ UpTo(<< >>, 0) /\ Len(<< >>) = 0
        BY DEF Rising, Gapless, UpTo
      <4>3. /\ Rising(SockStream(c))' /\ Gapless(SockStream(c))'
            /\ q # Net!NoPcb => /\ UpTo(SockStream(c)', pcb'[q].arrived)
                               /\ Len(SockStream(c)') = pcb'[q].arrived
        BY <1>6, <2>12, <2>13, <4>1, <4>2
      <4>4. ASSUME NEW r \in Net!Socks, Keeping(r)'
            PROVE  (/\ Rising(SockStream(r))
                    /\ ~sock[r].dropped => Gapless(SockStream(r))
                    /\ sock[r].pcb # Net!NoPcb =>
                         /\ UpTo(SockStream(r), pcb[sock[r].pcb].arrived)
                         /\ ~sock[r].dropped => Len(SockStream(r)) = pcb[sock[r].pcb].arrived)'
        <5>1. CASE r = c
          BY <2>5, <2>11, <4>3, <5>1
        <5>2. CASE r # c
          BY <1>1, <2>13, <3>6, <3>7, <3>15, <4>4, <5>2 DEF SockBytes
        <5> QED BY <5>1, <5>2
      <4> QED BY <4>4 DEF SockBytes
    <3> QED BY <3>11, <3>12, <3>13, <3>14, <3>16, <3>17, <3>18, <3>19 DEF SockOwned, SockOwners
  <2> QED BY <2>14, <2>15 DEF NetInv
<1> QED BY <1>9, <1>10

LEMMA NetCloseRelease ==
  ASSUME NetInv, ~overlapped, NEW t \in Threads, Net!CloseRelease(t)
  PROVE  NetInv'
<1>1. NetTyped /\ SockOwners /\ SockCalled /\ SockStates /\ SockBlocks /\ SockCounted /\ SockBytes
  BY DEF NetInv, SockOwned
<1>2. PICK s \in Net!Socks : s = pc[t].sock /\ pc[t].at = "marked"
  BY <1>1, CallFacts DEF Net!CloseRelease
<1>3. ~sock[s].used /\ Releasing(s) /\ Keeping(s)
  BY <1>1, <1>2 DEF SockCalled, Releasing, Keeping
<1>4. PICK gone : gone = Net!Released(s)
  OBVIOUS
<1>5. \A r \in Net!Socks : r \in gone <=> r = s \/ InQueue(r, s)
  <2>1. \A r \in Net!Socks : r \in Net!Children(s) <=> InQueue(r, s)
    <3>1. CASE sock[s].queue = << >>
      <4>1. \A r \in Net!Socks : ~InQueue(r, s)
        BY <3>1, QueueEmpty DEF InQueue
      <4> QED BY <3>1, <4>1, QueueEmpty DEF Net!Children
    <3>2. CASE sock[s].queue # << >>
      BY <1>1, <1>3, <3>2 DEF SockStates, Net!Children, InQueue
    <3> QED BY <3>1, <3>2
  <2>2. \A r \in Net!Socks : InQueue(r, s) => sock[r].used
    BY <1>1 DEF SockOwners, SockNamed
  <2> QED BY <1>4, <2>1, <2>2 DEF Net!Released
<1>6. gone \subseteq Net!Socks
  <2>1. Net!Children(s) \subseteq Net!Socks
    <3>1. sock[s].queue \in Seq(Net!Socks)
      BY <1>1 DEF NetTyped, SockTyped
    <3> QED BY <3>1 DEF Net!Children, Net!Range
  <2> QED BY <1>4, <2>1 DEF Net!Released
<1>7. /\ sock' = [c \in Net!Socks |->
                    IF c = s THEN Net!Dropped(c)
                    ELSE IF c \in gone THEN [Net!Dropped(c) EXCEPT !.used = FALSE] ELSE sock[c]]
      /\ pcb' = [p \in Net!Pcbs |-> IF \E c \in gone : sock[c].pcb = p THEN Net!FreePcb ELSE pcb[p]]
      /\ buffers' = buffers - Net!Cardinality({c \in gone : sock[c].buf})
      /\ pc' = [pc EXCEPT ![t] = Net!Idle] /\ UNCHANGED <<shandle, overlapped>>
  BY <1>2, <1>4 DEF Net!CloseRelease
<1>8. pc' \in [Threads -> SockCalls] /\ pc'[t].at = "idle" /\ \A u \in Threads \ {t} : pc'[u] = pc[u]
  BY <1>1, <1>7, SockConstants, OneCall
<1>9. ASSUME NEW r \in gone
      PROVE  /\ SockTyped(sock'[r]) /\ ~sock'[r].used /\ ~sock'[r].buf /\ sock'[r].pcb = Net!NoPcb
             /\ sock'[r].queue = << >>
  <2>1. r \in Net!Socks /\ SockTyped(sock[r])
    BY <1>1, <1>6 DEF NetTyped
  <2>2. PICK low \in BOOLEAN : /\ low = (IF r \in Net!FreeSlots THEN FALSE ELSE sock[r].used)
                               /\ r = s => low = FALSE
    BY <1>3, <2>1 DEF SockTyped
  <2>3. Net!Dropped(r) = [sock[r] EXCEPT !.used = low, !.pcb = Net!NoPcb, !.buf = FALSE, !.queue = << >>]
    BY <2>2 DEF Net!Dropped
  <2>4. sock'[r] = [sock[r] EXCEPT !.used = FALSE, !.pcb = Net!NoPcb, !.buf = FALSE, !.queue = << >>]
    <3>1. CASE r = s
      BY <1>7, <2>1, <2>2, <2>3, <3>1
    <3>2. CASE r # s
      <4>1. PICK d : d = Net!Dropped(r)
        OBVIOUS
      <4>2. sock'[r] = [d EXCEPT !.used = FALSE]
        BY <1>7, <2>1, <3>2, <4>1
      <4>3. /\ DOMAIN d = SockFields /\ \A f \in SockFields \ {"used"} :
                 d[f] = [sock[r] EXCEPT !.used = FALSE, !.pcb = Net!NoPcb, !.buf = FALSE, !.queue = << >>][f]
        BY <2>1, <2>3, <4>1 DEF SockTyped, SockFields
      <4> QED BY <2>1, <2>3, <4>1, <4>2, <4>3 DEF SockTyped, SockFields
    <3> QED BY <3>1, <3>2
  <2>5. << >> \in Seq(Net!Socks) /\ Net!NoPcb \in 0 .. NPcbs
    BY SocketsAssumption DEF Net!NoPcb
  <2>6. /\ DOMAIN sock'[r] = SockFields /\ sock'[r].used = FALSE /\ sock'[r].buf = FALSE
        /\ sock'[r].pcb = Net!NoPcb /\ sock'[r].queue = << >> /\ sock'[r].read = sock[r].read
        /\ sock'[r].rx = sock[r].rx /\ sock'[r].dropped = sock[r].dropped
    BY <2>1, <2>4 DEF SockTyped, SockFields
  <2>7. SockTyped(sock'[r])
    BY <2>1, <2>5, <2>6 DEF SockTyped
  <2> QED BY <2>6, <2>7
<1>10. \A r \in Net!Socks \ gone : sock'[r] = sock[r]
  BY <1>5, <1>7
<1>11. sock' = [r \in Net!Socks |-> sock'[r]] /\ \A r \in Net!Socks : SockTyped(sock'[r])
  <2>1. sock' = [r \in Net!Socks |-> sock'[r]]
    BY <1>7
  <2>2. \A r \in Net!Socks : SockTyped(sock[r])
    BY <1>1 DEF NetTyped
  <2> QED BY <1>9, <1>10, <2>1, <2>2
<1>12. /\ pcb' \in [Net!Pcbs -> [state : PcbStates, arg : Net!Socks \cup {Net!NoSock}, arrived : Nat]]
       /\ \A p \in Net!Pcbs : \/ /\ pcb'[p] = Net!FreePcb
                                 /\ \E c \in gone : sock[c].pcb = p
                              \/ /\ pcb'[p] = pcb[p]
                                 /\ \A c \in gone : sock[c].pcb # p
  BY <1>1, <1>7, SockConstants DEF NetTyped
<1>13. \A r \in gone : Keeping(r)
  BY <1>1, <1>3, <1>5, <1>6 DEF SockOwners, SockNamed, Keeping
<1>14. \A r \in Net!Socks : Keeping(r)' <=> Keeping(r) /\ r \notin gone
  <2>1. ASSUME NEW r \in Net!Socks, r \notin gone PROVE Keeping(r)' <=> Keeping(r)
    BY <1>2, <1>5, <1>8, <1>10, <2>1 DEF Keeping, Releasing
  <2>2. ASSUME NEW r \in gone, NEW u \in Threads \ {t}, pc[u].at = "marked", pc[u].sock = r PROVE FALSE
    <3>1. CASE r = s
      BY <1>1, <1>2, <2>2, <3>1 DEF SockCalled
    <3>2. CASE r # s
      BY <1>1, <1>5, <1>6, <2>2, <3>2 DEF SockCalled, SockOwners, SockNamed
    <3> QED BY <3>1, <3>2
  <2>3. ASSUME NEW r \in gone PROVE ~Keeping(r)'
    BY <1>8, <1>9, <2>2 DEF Keeping, Releasing
  <2> QED BY <1>6, <2>1, <2>3
<1>15. \A r, q \in Net!Socks : InQueue(r, q)' <=> InQueue(r, q) /\ q # s
  <2>1. \A r \in Net!Socks, q \in gone : ~InQueue(r, q)'
    BY <1>9, QueueEmpty DEF InQueue
  <2>2. \A q \in gone : q # s => sock[q].queue = << >>
    BY <1>1, <1>5, <1>6 DEF SockStates
  <2>3. \A r \in Net!Socks, q \in gone : q # s => ~InQueue(r, q)
    BY <2>2, QueueEmpty DEF InQueue
  <2>4. \A r \in Net!Socks, q \in Net!Socks \ gone : InQueue(r, q)' <=> InQueue(r, q)
    BY <1>10 DEF InQueue
  <2> QED BY <1>5, <1>6, <2>1, <2>3, <2>4
<1>16. \A r \in Net!Socks, u \in Threads : InCall(r, u)' <=> InCall(r, u)
  BY <1>2, <1>8 DEF InCall
<1>17. \A g \in Net!Handles : shandle[g] # Net!NoSock => shandle[g] \in Net!Socks
  BY <1>1 DEF NetTyped
<1>18. /\ \A g \in Net!Handles : shandle[g] # Net!NoSock => shandle[g] \notin gone
       /\ \A r, q \in Net!Socks : InQueue(r, q) /\ q # s => r \notin gone
       /\ \A r \in Net!Socks, u \in Threads : InCall(r, u) => r \notin gone
  BY <1>1, <1>3, <1>5, <1>17 DEF SockOwners, SockNamed, SockOnce
<1>19. \A r \in Net!Socks : sock'[r].used <=> sock[r].used /\ r \notin gone
  BY <1>9, <1>10
<1>20. SockNamed'
  BY <1>1, <1>7, <1>15, <1>16, <1>17, <1>18, <1>19 DEF SockOwners, SockNamed
<1>21. SockOnce'
  <2>1. \A q \in Net!Socks : Net!IsInjective(sock[q].queue)'
    BY <1>1, <1>9, <1>10, QueueEmpty DEF SockOwners, SockOnce
  <2> QED BY <1>1, <1>7, <1>15, <1>16, <1>17, <2>1 DEF SockOwners, SockOnce
<1>22. SockSomebody'
  BY <1>1, <1>5, <1>7, <1>15, <1>16, <1>19 DEF SockOwners, SockSomebody
<1>23. SockCalled'
  <2>1. \A u \in Threads : pc[u].at \in {"found", "taken", "marked"} => pc[u].sock \in Net!Socks
    BY <1>1, CallFacts
  <2>2. \A u \in Threads : pc[u].at \in {"found", "marked"} => ~sock'[pc[u].sock].used
    BY <1>1, <1>19, <2>1 DEF SockCalled
  <2>3. \A u \in Threads : pc[u].at = "taken" => sock'[pc[u].sock] = sock[pc[u].sock]
    BY <1>10, <1>18, <2>1 DEF InCall
  <2> QED BY <1>1, <1>8, <2>2, <2>3 DEF SockCalled
<1>24. ASSUME NEW r \in Net!Socks \ gone, Keeping(r), sock[r].pcb # Net!NoPcb
       PROVE  sock[r].pcb \in Net!Pcbs /\ pcb'[sock[r].pcb] = pcb[sock[r].pcb]
  <2>1. sock[r].pcb \in Net!Pcbs
    BY <1>1, <1>24, SockConstants DEF NetTyped, SockTyped
  <2>2. \A c \in gone : sock[c].pcb # sock[r].pcb
    BY <1>1, <1>6, <1>13, <1>24 DEF SockBlocks
  <2> QED BY <1>12, <2>1, <2>2
<1>25. SockStates'
  <2>1. ASSUME NEW r \in Net!Socks
        PROVE  (/\ sock[r].queue # << >> => Keeping(r) /\ sock[r].state = "listening"
                /\ Keeping(r) /\ sock[r].state = "bound" =>
                      sock[r].pcb # Net!NoPcb /\ pcb[sock[r].pcb].state = "new"
                /\ Keeping(r) /\ sock[r].state = "listening" =>
                      sock[r].type = "tcp" /\ sock[r].pcb # Net!NoPcb /\ pcb[sock[r].pcb].state = "listen"
                /\ \A q \in Net!Socks : InQueue(r, q) => sock[r].state \in {"connected", "error"})'
    <3>1. CASE r \in gone
      BY <1>9, <1>14, <1>15, <1>18, <3>1
    <3>2. CASE r \notin gone
      BY <1>1, <1>10, <1>14, <1>15, <1>24, <3>2 DEF SockStates
    <3> QED BY <3>1, <3>2
  <2> QED BY <2>1 DEF SockStates
<1>26. SockBlocks'
  <2>1. ASSUME NEW p \in Net!Pcbs
        PROVE  (/\ pcb[p].state = "free" => pcb[p] = Net!FreePcb
                /\ pcb[p].state = "new" => pcb[p].arrived = 0
                /\ pcb[p].state \notin {"free", "new"} => pcb[p].arg # Net!NoSock
                /\ pcb[p].arg # Net!NoSock => sock[pcb[p].arg].pcb = p /\ Keeping(pcb[p].arg)
                /\ pcb[p].state = "listen" => sock[pcb[p].arg].state = "listening"
                /\ pcb[p].state # "free" => \E r \in Net!Socks : Keeping(r) /\ sock[r].pcb = p)'
    <3>1. CASE pcb'[p] = Net!FreePcb
      BY <3>1, SockConstants
    <3>2. CASE pcb'[p] = pcb[p] /\ \A c \in gone : sock[c].pcb # p
      <4>1. PICK a : a = pcb[p].arg
        OBVIOUS
      <4>2. a # Net!NoSock => a \in Net!Socks \ gone /\ sock[a].pcb = p /\ Keeping(a)
        <5>1. a \in Net!Socks \cup {Net!NoSock}
          BY <1>1, <4>1 DEF NetTyped
        <5>2. a # Net!NoSock => sock[a].pcb = p /\ Keeping(a)
          BY <1>1, <4>1 DEF SockBlocks
        <5>3. a \in gone => sock[a].pcb # p
          BY <3>2
        <5> QED BY <5>1, <5>2, <5>3
      <4>3. a # Net!NoSock => sock'[a].pcb = p /\ Keeping(a)' /\ sock'[a].state = sock[a].state
        BY <1>10, <1>14, <4>2
      <4>4. pcb'[p].arg # Net!NoSock => sock'[pcb'[p].arg].pcb = p /\ Keeping(pcb[p].arg)'
        BY <3>2, <4>1, <4>3
      <4>5. pcb[p].state # "free" => \E r \in Net!Socks : Keeping(r)' /\ sock'[r].pcb = p
        <5>1. ASSUME pcb[p].state # "free" PROVE \E r \in Net!Socks : Keeping(r)' /\ sock'[r].pcb = p
          <6>1. PICK r \in Net!Socks : Keeping(r) /\ sock[r].pcb = p
            BY <1>1, <5>1 DEF SockBlocks
          <6>2. r \notin gone
            BY <3>2, <6>1
          <6> QED BY <1>10, <1>14, <6>1, <6>2
        <5> QED BY <5>1
      <4>6. pcb[p].state = "listen" => sock'[pcb[p].arg].state = "listening"
        BY <1>1, <4>1, <4>3 DEF SockBlocks
      <4> QED BY <1>1, <3>2, <4>4, <4>5, <4>6 DEF SockBlocks
    <3> QED BY <1>12, <3>1, <3>2
  <2>2. \A r \in Net!Socks : Keeping(r)' /\ sock'[r].pcb # Net!NoPcb => pcb'[sock'[r].pcb].state # "free"
    BY <1>1, <1>10, <1>14, <1>24 DEF SockBlocks
  <2>3. \A r, q \in Net!Socks :
         Keeping(r)' /\ Keeping(q)' /\ sock'[r].pcb # Net!NoPcb /\ sock'[r].pcb = sock'[q].pcb => r = q
    BY <1>1, <1>10, <1>14 DEF SockBlocks
  <2> QED BY <2>1, <2>2, <2>3 DEF SockBlocks
<1>27. buffers' \in Nat /\ SockCounted'
  <2>1. PICK H : H = {r \in Net!Socks : Keeping(r) /\ sock[r].buf}
    OBVIOUS
  <2>2. PICK G : G = {c \in gone : sock[c].buf}
    OBVIOUS
  <2>3. IsFiniteSet(H) /\ G \subseteq H
    <3>1. IsFiniteSet(Net!Socks)
      BY FS_Interval, SocketsAssumption DEF Net!Socks
    <3>2. IsFiniteSet(H)
      BY <2>1, <3>1, FS_Subset
    <3> QED BY <1>6, <1>13, <2>1, <2>2, <3>2
  <2>4. {r \in Net!Socks : Keeping(r) /\ sock[r].buf}' = H \ G
    BY <1>9, <1>10, <1>14, <2>1, <2>2
  <2>5. Cardinality(H \ G) = Cardinality(H) - Cardinality(G) /\ IsFiniteSet(H \ G)
    <3>1. H \cap G = G /\ IsFiniteSet(G)
      BY <2>3, FS_Subset
    <3> QED BY <2>3, <3>1, FS_Difference
  <2>6. Net!Cardinality(G) = Cardinality(G)
    BY DEF Net!Cardinality, Cardinality
  <2>7. buffers' = Cardinality(H \ G)
    BY <1>1, <1>7, <2>1, <2>2, <2>5, <2>6 DEF SockCounted
  <2>8. Cardinality(H \ G) \in Nat
    BY <2>5, FS_CardinalityType
  <2> QED BY <2>4, <2>7, <2>8 DEF SockCounted
<1>28. NetTyped'
  BY <1>1, <1>7, <1>8, <1>11, <1>12, <1>27 DEF NetTyped
<1>29. SockBytes'
  <2>1. \A r \in Net!Socks \ gone : SockStream(r)' = SockStream(r)
    BY <1>10 DEF SockStream
  <2> QED BY <1>1, <1>10, <1>14, <1>24, <2>1, BytesStay
<1> QED BY <1>7, <1>20, <1>21, <1>22, <1>23, <1>25, <1>26, <1>27, <1>28, <1>29 DEF NetInv, SockOwned, SockOwners

LEMMA NetInit ==
  ASSUME Net!Init
  PROVE  NetInv
<1>1. /\ sock = [s \in Net!Socks |-> Net!Blank] /\ pcb = [p \in Net!Pcbs |-> Net!FreePcb]
      /\ shandle = [h \in Net!Handles |-> Net!NoSock] /\ buffers = 0
      /\ pc = [t \in Threads |-> Net!Idle] /\ overlapped = FALSE
  BY DEF Net!Init
<1>2. \A s \in Net!Socks : sock[s] = Net!Blank /\ ~Keeping(s)
  BY <1>1, BlankFacts, SockConstants DEF Keeping, Releasing
<1>3. \A s, q \in Net!Socks : ~InQueue(s, q)
  BY <1>2, BlankFacts, QueueEmpty DEF InQueue
<1>4. \A s \in Net!Socks, t \in Threads : ~InCall(s, t)
  BY <1>1, SockConstants DEF InCall
<1>5. NetTyped
  <2>1. sock = [s \in Net!Socks |-> sock[s]]
    BY <1>1
  <2>2. /\ pcb \in [Net!Pcbs -> [state : PcbStates, arg : Net!Socks \cup {Net!NoSock}, arrived : Nat]]
        /\ shandle \in [Net!Handles -> Net!Socks \cup {Net!NoSock}] /\ buffers \in Nat
        /\ pc \in [Threads -> SockCalls] /\ overlapped \in BOOLEAN
    BY <1>1, SockConstants
  <2>3. \A s \in Net!Socks : SockTyped(sock[s])
    BY <1>2, BlankFacts
  <2> QED BY <2>1, <2>2, <2>3 DEF NetTyped
<1>6. SockOwners
  <2>1. SockNamed
    BY <1>1, <1>3, <1>4 DEF SockNamed
  <2>2. SockOnce
    BY <1>1, <1>2, <1>3, <1>4, BlankFacts, QueueEmpty DEF SockOnce
  <2>3. SockSomebody
    BY <1>2, BlankFacts DEF SockSomebody
  <2> QED BY <2>1, <2>2, <2>3 DEF SockOwners
<1>7. SockCalled
  BY <1>1, SockConstants DEF SockCalled
<1>8. SockStates
  BY <1>2, <1>3, BlankFacts DEF SockStates
<1>9. SockBlocks
  BY <1>1, <1>2, SockConstants DEF SockBlocks
<1>10. SockCounted
  <2>1. {s \in Net!Socks : Keeping(s) /\ sock[s].buf} = {}
    BY <1>2
  <2> QED BY <1>1, <2>1, FS_EmptySet DEF SockCounted
<1>11. SockBytes
  BY <1>2 DEF SockBytes
<1> QED BY <1>5, <1>6, <1>7, <1>8, <1>9, <1>10, <1>11 DEF NetInv, SockOwned

LEMMA NetSteps ==
  ASSUME NetInv, Net!Next \/ UNCHANGED sockVars
  PROVE  NetInv'
<1>1. ASSUME UNCHANGED sockVars PROVE NetInv'
  <2>1. /\ sock' = sock /\ pcb' = pcb /\ shandle' = shandle /\ buffers' = buffers /\ pc' = pc
        /\ overlapped' = overlapped
    BY <1>1 DEF sockVars
  <2>2. /\ \A s \in Net!Socks : Keeping(s)' <=> Keeping(s)
        /\ \A s, q \in Net!Socks : InQueue(s, q)' <=> InQueue(s, q)
        /\ \A s \in Net!Socks, t \in Threads : InCall(s, t)' <=> InCall(s, t)
    BY <2>1 DEF Keeping, Releasing, InQueue, InCall
  <2>3. NetTyped'
    BY <2>1 DEF NetInv, NetTyped
  <2>4. ASSUME ~overlapped PROVE SockOwned'
    <3>1. NetTyped /\ SockOwners /\ SockCalled /\ SockStates /\ SockBlocks /\ SockCounted /\ SockBytes
      BY <2>4 DEF NetInv, SockOwned
    <3>2. SockOwners'
      BY <2>1, <2>2, <3>1, OwnersStay
    <3>3. SockCalled'
      BY <2>1, <3>1 DEF SockCalled
    <3>4. SockStates' /\ SockBlocks'
      BY <2>1, <2>2, <3>1, StatesStay
    <3>5. SockCounted'
      BY <2>1, <2>2, <3>1, CountedStay
    <3>6. SockBytes'
      <4>1. \A s \in Net!Socks : SockStream(s)' = SockStream(s)
        BY <2>1 DEF SockStream
      <4> QED BY <2>1, <2>2, <3>1, <4>1, BytesStay
    <3> QED BY <3>2, <3>3, <3>4, <3>5, <3>6 DEF SockOwned
  <2> QED BY <2>1, <2>3, <2>4 DEF NetInv
<1>2. ASSUME ~overlapped, Net!Event PROVE NetInv'
  <2>1. PICK p \in Net!Pcbs :
          \/ Net!Connected(p) \/ Net!Finished(p) \/ Net!Failed(p)
          \/ \E b \in BOOLEAN : Net!Incoming(p, b)
          \/ \E n \in 1 .. 2 : Net!Arrive(p, n)
    BY <1>2 DEF Net!Event
  <2>2. CASE Net!Connected(p) \/ Net!Finished(p) \/ Net!Failed(p)
    BY <1>2, <2>2, NetConnectedFinished
  <2>3. CASE \E b \in BOOLEAN : Net!Incoming(p, b)
    BY <1>2, <2>3, NetIncoming
  <2>4. CASE \E n \in 1 .. 2 : Net!Arrive(p, n)
    BY <1>2, <2>4, NetArrive
  <2> QED BY <2>1, <2>2, <2>3, <2>4
<1>3. ASSUME ~overlapped, NEW t \in Threads, Net!Call(t) PROVE NetInv'
  <2>1. \/ Net!OpenFind(t) \/ Net!OpenTake(t) \/ Net!OpenNoBuffer(t) \/ Net!OpenNoPcb(t)
        \/ \E type \in Types : Net!OpenDone(t, type)
        \/ Net!CloseMark(t) \/ Net!CloseRelease(t)
        \/ \E h \in Net!Handles :
              \/ Net!Bind(t, h) \/ Net!Listen(t, h) \/ Net!Accept(t, h) \/ Net!Close(t, h)
              \/ \E ok \in BOOLEAN : Net!Connect(t, h, ok)
              \/ \E n \in 1 .. 2 : Net!Recv(t, h, n)
              \/ \E vec \in Vectors : \E room \in [DOMAIN vec -> 0 .. 2] : Net!Send(t, h, vec, room)
    BY <1>3 DEF Net!Call
  <2>2. CASE Net!OpenFind(t)
    BY <1>3, <2>2, NetOpenFind
  <2>3. CASE Net!OpenTake(t)
    BY <1>3, <2>3, NetOpenTake
  <2>4. CASE Net!OpenNoBuffer(t) \/ Net!OpenNoPcb(t)
    BY <1>3, <2>4, NetOpenFails
  <2>5. CASE \E type \in Types : Net!OpenDone(t, type)
    BY <1>3, <2>5, NetOpenDone
  <2>6. CASE Net!CloseMark(t)
    BY <1>3, <2>6, NetCloseMark
  <2>7. CASE Net!CloseRelease(t)
    BY <1>3, <2>7, NetCloseRelease
  <2>8. ASSUME NEW h \in Net!Handles,
               \/ Net!Bind(t, h) \/ Net!Listen(t, h) \/ Net!Accept(t, h) \/ Net!Close(t, h)
               \/ \E ok \in BOOLEAN : Net!Connect(t, h, ok)
               \/ \E n \in 1 .. 2 : Net!Recv(t, h, n)
               \/ \E vec \in Vectors : \E room \in [DOMAIN vec -> 0 .. 2] : Net!Send(t, h, vec, room)
        PROVE  NetInv'
    <3>1. CASE Net!Bind(t, h)
      BY <1>3, <3>1, NetBind
    <3>2. CASE Net!Listen(t, h)
      BY <1>3, <3>2, NetListen
    <3>3. CASE Net!Accept(t, h)
      BY <1>3, <3>3, NetAccept
    <3>4. CASE Net!Close(t, h)
      BY <1>3, <3>4, NetClose
    <3>5. CASE \E ok \in BOOLEAN : Net!Connect(t, h, ok)
      BY <1>3, <3>5, NetConnect
    <3>6. CASE \E n \in 1 .. 2 : Net!Recv(t, h, n)
      BY <1>3, <3>6, NetRecv
    <3>7. CASE \E vec \in Vectors : \E room \in [DOMAIN vec -> 0 .. 2] : Net!Send(t, h, vec, room)
      BY <1>3, <3>7, NetSend
    <3> QED BY <2>8, <3>1, <3>2, <3>3, <3>4, <3>5, <3>6, <3>7
  <2> QED BY <2>1, <2>2, <2>3, <2>4, <2>5, <2>6, <2>7, <2>8
<1>4. ASSUME Net!Next PROVE NetInv'
  <2>1. \/ ~overlapped /\ (Net!Event \/ \E t \in Threads : Net!Call(t))
        \/ UNCHANGED sockVars
    BY <1>4 DEF Net!Next, Net!vars, sockVars
  <2> QED BY <1>1, <1>2, <1>3, <2>1
<1> QED BY <1>1, <1>4

\* The one that answers for a socket in use.
LEMMA OneNames ==
  ASSUME NetInv, ~overlapped, NEW s \in Net!Socks, sock[s].used
  PROVE  \E x : Net!NamedBy(s) = {x}
<1>1. /\ NetTyped /\ SockOwners /\ SockNamed /\ SockOnce /\ SockSomebody /\ SockCalled /\ SockStates
  BY DEF NetInv, SockOwned, SockOwners
<1>2. PICK H, Q, C, P : /\ H = {h \in Net!Handles : shandle[h] = s}
                        /\ Q = {q \in Net!Socks : sock[q].used /\ s \in Net!Range(sock[q].queue)}
                        /\ C = {t \in Threads : pc[t].at \in {"taken", "closing", "marked"} /\ pc[t].sock = s}
                        /\ P = {t \in Threads : pc[t].at = "marked" /\ s \in Net!Children(pc[t].sock)}
  OBVIOUS
<1>3. Net!NamedBy(s) = {<<"handle", h>> : h \in H} \cup {<<"queue", q>> : q \in Q}
                         \cup {<<"call", t>> : t \in C} \cup {<<"parent", t>> : t \in P}
  BY <1>2 DEF Net!NamedBy
<1>4. s # Net!NoSock /\ \A t \in Threads : pc[t].at \in {"taken", "closing", "marked"} => pc[t].sock \in Net!Socks
  BY <1>1, CallFacts, SockConstants
<1>5. \A t \in P : t \in Threads /\ pc[t].at = "marked" /\ pc[t].sock \in Net!Socks /\ InQueue(s, pc[t].sock)
  BY <1>2, <1>4 DEF Net!Children, InQueue
<1>6. \A q \in Q : q \in Net!Socks /\ InQueue(s, q)
  BY <1>2 DEF InQueue
<1>7. \A t \in C : InCall(s, t)
  BY <1>1, <1>2 DEF InCall, SockCalled
<1>8. CASE \E h \in Net!Handles : shandle[h] = s
  <2>1. PICK h \in Net!Handles : shandle[h] = s
    BY <1>8
  <2>2. H = {h}
    BY <1>1, <1>2, <1>4, <2>1 DEF SockOnce
  <2>3. Q = {}
    BY <1>1, <1>4, <1>6, <2>1 DEF SockOnce
  <2>4. C = {}
    BY <1>1, <1>2, <1>4, <1>7, <2>1 DEF SockOnce
  <2>5. P = {}
    BY <1>1, <1>4, <1>5, <2>1 DEF SockOnce
  <2>6. Net!NamedBy(s) = {<<"handle", h>>}
    BY <1>3, <2>2, <2>3, <2>4, <2>5
  <2> QED BY <2>6
<1>9. CASE \E q \in Net!Socks : InQueue(s, q)
  <2>1. PICK q \in Net!Socks : InQueue(s, q)
    BY <1>9
  <2>2. H = {}
    BY <1>1, <1>2, <1>4, <2>1 DEF SockOnce
  <2>3. C = {}
    BY <1>1, <1>2, <1>7, <2>1 DEF SockOnce
  <2>4. \A p \in Q : p = q
    BY <1>1, <1>6, <2>1 DEF SockOnce
  <2>5. \A t \in P : pc[t].sock = q
    BY <1>1, <1>5, <2>1 DEF SockOnce
  <2>6. CASE sock[q].used
    <3>1. Q = {q}
      BY <1>2, <2>1, <2>4, <2>6 DEF InQueue
    <3>2. P = {}
      BY <1>1, <1>5, <2>5, <2>6 DEF SockCalled
    <3>3. Net!NamedBy(s) = {<<"queue", q>>}
      BY <1>3, <2>2, <2>3, <3>1, <3>2
    <3> QED BY <3>3
  <2>7. CASE ~sock[q].used
    <3>1. Q = {}
      BY <1>2, <2>4, <2>7
    <3>2. sock[q].queue # << >>
      BY <2>1, QueueEmpty DEF InQueue
    <3>3. Keeping(q) /\ sock[q].state = "listening"
      BY <1>1, <3>2 DEF SockStates
    <3>4. sock[q].type = "tcp"
      BY <1>1, <3>3 DEF SockStates
    <3>5. PICK t \in Threads : pc[t].at = "marked" /\ pc[t].sock = q
      BY <2>7, <3>3 DEF Keeping, Releasing
    <3>6. t \in P
      BY <1>2, <2>1, <3>3, <3>4, <3>5 DEF Net!Children, InQueue
    <3>7. \A u \in P : u = t
      BY <1>1, <1>5, <2>5, <3>5 DEF SockCalled
    <3>8. P = {t}
      BY <3>6, <3>7
    <3>9. Net!NamedBy(s) = {<<"parent", t>>}
      BY <1>3, <2>2, <2>3, <3>1, <3>8
    <3> QED BY <3>9
  <2> QED BY <2>6, <2>7
<1>10. CASE \E t \in Threads : InCall(s, t)
  <2>1. PICK t \in Threads : InCall(s, t)
    BY <1>10
  <2>2. H = {}
    BY <1>1, <1>2, <1>4, <2>1 DEF SockOnce
  <2>3. Q = {} /\ P = {}
    BY <1>1, <1>5, <1>6, <2>1 DEF SockOnce
  <2>4. C = {t}
    <3>1. t \in C
      BY <1>2, <2>1 DEF InCall
    <3>2. \A u \in C : u = t
      BY <1>1, <1>2, <1>7, <2>1 DEF SockOnce
    <3> QED BY <3>1, <3>2
  <2>5. Net!NamedBy(s) = {<<"call", t>>}
    BY <1>3, <2>2, <2>3, <2>4
  <2> QED BY <2>5
<1> QED BY <1>1, <1>8, <1>9, <1>10 DEF SockSomebody

\* What the runs check of the sockets follows.
LEMMA NetSound ==
  ASSUME NetInv
  PROVE  Net!TypeOK /\ Net!OneOwner /\ Net!CallbackFits /\ Net!NothingLeaks /\ Net!OwnBytes
<1>1. NetTyped
  BY DEF NetInv
<1>2. ASSUME ~overlapped PROVE SockOwners /\ SockCalled /\ SockBlocks /\ SockCounted /\ SockBytes
  BY <1>2 DEF NetInv, SockOwned
<1>3. Net!TypeOK
  BY <1>1, SockConstants DEF NetTyped, SockTyped, Net!TypeOK
<1>4. Net!OneOwner
  <2>1. ASSUME ~overlapped, NEW s \in Net!Socks, sock[s].used PROVE Net!Cardinality(Net!NamedBy(s)) = 1
    <3>1. PICK x : Net!NamedBy(s) = {x}
      BY <2>1, OneNames
    <3>2. Net!Cardinality({x}) = Cardinality({x})
      BY DEF Net!Cardinality, Cardinality
    <3> QED BY <3>1, <3>2, FS_Singleton
  <2> QED BY <2>1 DEF Net!OneOwner
<1>5. Net!CallbackFits
  BY <1>2 DEF SockBlocks, Net!CallbackFits
<1>6. Net!NothingLeaks
  <2>1. ASSUME ~overlapped, NEW holding,
               holding = {s \in Net!Socks : sock[s].used \/ \E t \in Threads : pc[t].at = "marked" /\ pc[t].sock = s}
        PROVE  /\ buffers = Net!Cardinality({s \in holding : sock[s].buf})
               /\ \A p \in Net!Pcbs : pcb[p].state # "free" => \E s \in holding : sock[s].pcb = p
    <3>1. \A s \in Net!Socks : s \in holding <=> Keeping(s)
      BY <2>1 DEF Keeping, Releasing
    <3>2. {s \in holding : sock[s].buf} = {s \in Net!Socks : Keeping(s) /\ sock[s].buf}
      BY <2>1, <3>1
    <3>3. PICK B : B = {s \in holding : sock[s].buf}
      OBVIOUS
    <3>4. Net!Cardinality(B) = Cardinality(B)
      BY DEF Net!Cardinality, Cardinality
    <3>5. buffers = Net!Cardinality({s \in holding : sock[s].buf})
      BY <1>2, <2>1, <3>2, <3>3, <3>4 DEF SockCounted
    <3>6. \A p \in Net!Pcbs : pcb[p].state # "free" => \E s \in holding : sock[s].pcb = p
      BY <1>2, <2>1, <3>1 DEF SockBlocks
    <3> QED BY <3>5, <3>6
  <2> QED BY <2>1 DEF Net!NothingLeaks
<1>7. Net!OwnBytes
  <2>1. ASSUME ~overlapped, NEW s \in Net!Socks, sock[s].used
        PROVE  /\ Rising(SockStream(s))
               /\ ~sock[s].dropped => Gapless(SockStream(s))
               /\ sock[s].pcb # Net!NoPcb /\ ~sock[s].dropped => Len(SockStream(s)) = pcb[sock[s].pcb].arrived
    BY <1>2, <2>1 DEF Keeping, SockBytes
  <2> QED BY <2>1 DEF Net!OwnBytes, SockStream, Rising, Gapless
<1> QED BY <1>3, <1>4, <1>5, <1>6, <1>7

-------------------------------------------------------------------------------
(* Files (vfs.c and the file calls of wasi.c) *)

\* What is in a handle.
LEMMA HandleKinds ==
  /\ \A d \in DirHandles : d.type = "dir" /\ d # Fs!Unused /\ d \notin OpenFiles
  /\ \A f \in OpenFiles : f.type = "file" /\ f # Fs!Unused /\ f \notin DirHandles
  /\ Fs!Unused.type = "unused" /\ Fs!NotListing.on = FALSE
  /\ \A l \in Listings : l.on = TRUE
<1>1. Fs!Unused.type = "unused" /\ Fs!NotListing.on = FALSE
  BY DEF Fs!Unused, Fs!NotListing
<1>2. \A d \in DirHandles : d.type = "dir"
  BY DEF DirHandles
<1>3. \A f \in OpenFiles : f.type = "file"
  BY DEF OpenFiles
<1>4. \A l \in Listings : l.on = TRUE
  BY DEF Listings
<1> QED BY <1>1, <1>2, <1>3, <1>4

\* A handle that is used is a directory or a file.
LEMMA FileHandle ==
  ASSUME FilesTyped, NEW h \in Fs!Handles
  PROVE  /\ Fs!IsFile(h) <=> fhandle[h] \in OpenFiles
         /\ Fs!IsFile(h) => /\ fhandle[h].name \in FileNames /\ fhandle[h].pos \in Nat
                            /\ fhandle[h].write \in BOOLEAN
                            /\ file[fhandle[h].name] \in Seq(FileBytes)
                            /\ Len(file[fhandle[h].name]) \in 0 .. MaxSize
         /\ fhandle[h] # Fs!Unused /\ ~Fs!IsFile(h) => fhandle[h] \in DirHandles
<1>1. fhandle[h] \in {Fs!Unused} \cup DirHandles \cup OpenFiles
  BY DEF FilesTyped
<1>2. Fs!IsFile(h) <=> fhandle[h] \in OpenFiles
  BY <1>1, HandleKinds DEF Fs!IsFile
<1>3. Fs!IsFile(h) => /\ fhandle[h].name \in FileNames /\ fhandle[h].pos \in Nat
                      /\ fhandle[h].write \in BOOLEAN
  BY <1>2 DEF OpenFiles
<1>4. \A n \in FileNames : file[n] \in Seq(FileBytes) /\ Len(file[n]) \in 0 .. MaxSize
  <2>1. /\ file \in [FileNames -> Seq(FileBytes)] /\ MaxSize \in Nat
        /\ \A n \in FileNames : Len(file[n]) <= MaxSize
    BY FilesAssumption DEF FilesTyped
  <2> SUFFICES ASSUME NEW n \in FileNames
               PROVE  file[n] \in Seq(FileBytes) /\ Len(file[n]) \in 0 .. MaxSize
    OBVIOUS
  <2>2. file[n] \in Seq(FileBytes) /\ Len(file[n]) <= MaxSize
    BY ONLY <2>1, n \in FileNames
  <2>3. Len(file[n]) \in Nat
    BY ONLY <2>2, LenProperties
  <2> QED BY ONLY <2>1, <2>2, <2>3
<1>5. fhandle[h] # Fs!Unused /\ ~Fs!IsFile(h) => fhandle[h] \in DirHandles
  BY ONLY <1>1, <1>2
<1>6. Fs!IsFile(h) => /\ file[fhandle[h].name] \in Seq(FileBytes)
                      /\ Len(file[fhandle[h].name]) \in 0 .. MaxSize
  BY ONLY <1>3, <1>4
<1> QED BY ONLY <1>2, <1>3, <1>5, <1>6

\* The smaller of two numbers.
LEMMA FilesMin ==
  ASSUME NEW a \in Int, NEW b \in Int
  PROVE  Fs!Min({a, b}) = IF a <= b THEN a ELSE b
BY DEF Fs!Min

LEMMA FilesMax ==
  ASSUME NEW a \in Int, NEW b \in Int
  PROVE  Fs!Max({a, b}) = IF a >= b THEN a ELSE b
BY DEF Fs!Max

\* The search for a handle finds one if there is one.
LEMMA FreeHandle ==
  ASSUME FilesTyped, Fs!FreeHandles # {}
  PROVE  Fs!Min(Fs!FreeHandles) \in Fs!Handles /\ fhandle[Fs!Min(Fs!FreeHandles)] = Fs!Unused
<1>1. Fs!FreeHandles \in SUBSET Nat
  BY FilesAssumption DEF Fs!FreeHandles, Fs!Handles
<1>2. \E x \in Fs!FreeHandles : \A y \in Fs!FreeHandles : x <= y
  BY <1>1, LeastExists
<1>3. Fs!Min(Fs!FreeHandles) \in Fs!FreeHandles
  BY <1>2 DEF Fs!Min
<1> QED BY <1>3 DEF Fs!FreeHandles

\* The root directory at the start, nothing open.
LEMMA FilesInit == Fs!Init => FilesInv
<1> SUFFICES ASSUME Fs!Init PROVE FilesInv
  OBVIOUS
<1>1. \A h \in Fs!Handles : ~Fs!IsFile(h)
  BY HandleKinds DEF Fs!Init, Fs!IsFile
<1>2. \A n \in FileNames : file[n] = << >> /\ Len(file[n]) = 0 /\ saved[n] = 0
  BY DEF Fs!Init
<1>3. FilesTyped
  <2>1. Fs!IsInjective(order) /\ order \in Seq(FileNames) /\ dirs = {}
    BY FilesAssumption DEF Fs!Init, Fs!IsInjective
  <2>2. file \in [FileNames -> Seq(FileBytes)] /\ saved \in [FileNames -> Fs!Offsets]
    BY <1>2, FilesAssumption DEF Fs!Init, Fs!Offsets
  <2>3. fhandle \in [Fs!Handles -> {Fs!Unused}] /\ listing = Fs!NotListing
    BY DEF Fs!Init, Fs!NotListing
  <2> QED BY <1>2, <2>1, <2>2, <2>3, FilesAssumption DEF FilesTyped
<1>4. listing.on = FALSE
  BY HandleKinds DEF Fs!Init, Fs!NotListing
<1> QED BY <1>1, <1>2, <1>3, <1>4 DEF FilesInv, FilesOpen, FilesSaved, FilesListed

\* Steps that only report something.
LEMMA FilesAlone ==
  ASSUME FilesInv, UNCHANGED <<order, dirs, file, saved, fhandle, listing>>
  PROVE  FilesInv'
BY DEF FilesInv, FilesTyped, FilesOpen, FilesSaved, FilesListed, Fs!IsFile, Fs!Present

\* Putting back the position there is.
LEMMA SamePosition ==
  ASSUME FilesInv, NEW h \in Fs!Handles, Fs!IsFile(h)
  PROVE  fhandle = [fhandle EXCEPT ![h].pos = fhandle[h].pos]
<1>1. fhandle[h] \in OpenFiles /\ fhandle \in [Fs!Handles -> {Fs!Unused} \cup DirHandles \cup OpenFiles]
  BY FileHandle DEF FilesInv, FilesTyped
<1>2. [fhandle[h] EXCEPT !.pos = fhandle[h].pos] = fhandle[h]
  BY <1>1 DEF OpenFiles
<1>3. [fhandle EXCEPT ![h].pos = fhandle[h].pos]
        = [fhandle EXCEPT ![h] = [fhandle[h] EXCEPT !.pos = fhandle[h].pos]]
  OBVIOUS
<1> QED BY <1>1, <1>2, <1>3

\* A call on an open file: its bytes, if it is open for writing, and its position.
LEMMA BytesChange ==
  ASSUME FilesInv, NEW h \in Fs!Handles, Fs!IsFile(h),
         NEW b \in Seq(FileBytes), NEW p \in Nat, p <= Len(b), Len(b) <= MaxSize,
         fhandle[h].write \/ b = file[fhandle[h].name],
         file' = [file EXCEPT ![fhandle[h].name] = b],
         fhandle' = [fhandle EXCEPT ![h].pos = p],
         UNCHANGED <<order, dirs, saved, listing>>
  PROVE  FilesInv'
<1> DEFINE n == fhandle[h].name
<1>1. /\ n \in FileNames /\ fhandle[h] \in OpenFiles /\ fhandle[h].write \in BOOLEAN
      /\ fhandle \in [Fs!Handles -> {Fs!Unused} \cup DirHandles \cup OpenFiles]
      /\ file \in [FileNames -> Seq(FileBytes)]
  BY FileHandle DEF FilesInv, FilesTyped
<1>2. file' \in [FileNames -> Seq(FileBytes)] /\ file'[n] = b
      /\ \A m \in FileNames \ {n} : file'[m] = file[m]
  BY <1>1
<1>3. /\ fhandle'[h] \in OpenFiles /\ fhandle'[h].name = n /\ fhandle'[h].pos = p
      /\ fhandle'[h].write = fhandle[h].write
      /\ \A g \in Fs!Handles \ {h} : fhandle'[g] = fhandle[g]
      /\ fhandle' \in [Fs!Handles -> {Fs!Unused} \cup DirHandles \cup OpenFiles]
  <2> DEFINE new == [fhandle[h] EXCEPT !.pos = p]
  <2>1. new \in OpenFiles /\ new.name = n /\ new.pos = p /\ new.write = fhandle[h].write
    BY <1>1 DEF OpenFiles
  <2>2. fhandle' = [fhandle EXCEPT ![h] = new]
    OBVIOUS
  <2> HIDE DEF new
  <2> QED BY <1>1, <2>1, <2>2
<1>4. \A g \in Fs!Handles : /\ Fs!IsFile(g)' <=> Fs!IsFile(g)
                            /\ Fs!IsFile(g) => /\ fhandle'[g].name = fhandle[g].name
                                               /\ fhandle'[g].write = fhandle[g].write
  BY <1>3, HandleKinds DEF Fs!IsFile
<1> HIDE DEF n
<1>5. FilesTyped'
  BY <1>2, <1>3 DEF FilesInv, FilesTyped, Fs!Present
<1>6. FilesOpen'
  <2> SUFFICES ASSUME NEW g \in Fs!Handles, Fs!IsFile(g)'
               PROVE  /\ fhandle'[g].name \in Fs!Present'
                      /\ fhandle'[g].pos <= Len(file'[fhandle'[g].name])
                      /\ fhandle'[g].write => \A i \in Fs!Handles \ {g} :
                           Fs!IsFile(i)' => fhandle'[i].name # fhandle'[g].name
    BY DEF FilesOpen
  <2>1. /\ fhandle'[g].name \in Fs!Present'
        /\ fhandle'[g].write => \A i \in Fs!Handles \ {g} :
             Fs!IsFile(i)' => fhandle'[i].name # fhandle'[g].name
    BY <1>4 DEF FilesInv, FilesOpen, Fs!Present
  <2>2. CASE g = h
    BY <1>2, <1>3, <2>1, <2>2
  <2>3. CASE g # h
    <3>1. fhandle'[g] = fhandle[g] /\ Fs!IsFile(g) /\ fhandle[g].name \in FileNames
      BY <1>3, <1>4, <2>3, FileHandle DEF FilesInv
    <3>2. fhandle[g].pos <= Len(file[fhandle[g].name])
      BY <3>1 DEF FilesInv, FilesOpen
    <3>3. CASE fhandle[g].name = n
      <4>1. ~fhandle[h].write
        BY <2>3, <3>1, <3>3 DEF FilesInv, FilesOpen, n
      <4> QED BY <1>2, <2>1, <3>1, <3>2, <3>3, <4>1 DEF n
    <3>4. CASE fhandle[g].name # n
      BY <1>2, <2>1, <3>1, <3>2, <3>4
    <3> QED BY <3>3, <3>4
  <2> QED BY <2>2, <2>3
<1>7. FilesSaved'
  <2> SUFFICES ASSUME NEW m \in FileNames, saved'[m] # Len(file'[m])
               PROVE  \E g \in Fs!Handles : Fs!IsFile(g)' /\ fhandle'[g].name = m /\ fhandle'[g].write
    BY DEF FilesSaved
  <2>1. CASE m = n /\ fhandle[h].write
    BY <1>3, <1>4, <2>1
  <2>2. CASE m # n \/ ~fhandle[h].write
    <3>1. file'[m] = file[m]
      BY <1>2, <2>2 DEF n
    <3>2. PICK g \in Fs!Handles : Fs!IsFile(g) /\ fhandle[g].name = m /\ fhandle[g].write
      BY <3>1 DEF FilesInv, FilesSaved
    <3> QED BY <1>4, <3>2
  <2> QED BY <2>1, <2>2
<1>8. FilesListed'
  <2>1. \A g \in Fs!Handles : fhandle[g] \in DirHandles => fhandle'[g] = fhandle[g]
    BY <1>1, <1>3, HandleKinds
  <2> QED BY <2>1 DEF FilesInv, FilesListed
<1> QED BY <1>5, <1>6, <1>7, <1>8 DEF FilesInv

\* Where a seek ends, and what it does to the file on its way.
LEMMA SeekFacts ==
  ASSUME FilesInv, NEW h \in Fs!Handles, Fs!IsFile(h), NEW at \in Fs!Offsets
  PROVE  LET old == file[fhandle[h].name]
             new == Fs!SeekBytes(h, at)
             pos == Fs!SeekPos(h, at)
         IN  /\ new \in Seq(FileBytes) /\ Len(new) \in 0 .. MaxSize
             /\ pos \in Nat /\ pos <= Len(new) /\ Len(old) <= Len(new)
             /\ fhandle[h].write \/ new = old
             /\ fhandle[h].write => pos = at
             /\ ~fhandle[h].write => pos = Fs!Min({at, Len(old)})
             /\ new # old => at > Len(old)
             /\ Fs!IsPrefix(old, new)
<1> DEFINE old == file[fhandle[h].name]
           new == Fs!SeekBytes(h, at)
           pos == Fs!SeekPos(h, at)
<1>1. /\ old \in Seq(FileBytes) /\ Len(old) \in 0 .. MaxSize /\ fhandle[h].write \in BOOLEAN
      /\ at \in 0 .. MaxSize /\ MaxSize \in Nat
  BY FileHandle, FilesAssumption DEF FilesInv, Fs!Offsets
<1>2. Fs!IsPrefix(old, old)
  BY <1>1 DEF Fs!IsPrefix
<1>3. new = IF fhandle[h].write /\ at > Len(old) THEN Fs!Grown(old, at) ELSE old
  BY DEF Fs!SeekBytes, Fs!Size
<1>4. pos = IF fhandle[h].write THEN at ELSE Fs!Min({at, Len(old)})
  BY DEF Fs!SeekPos, Fs!Size
<1>5. Fs!Min({at, Len(old)}) = IF at <= Len(old) THEN at ELSE Len(old)
  BY <1>1, FilesMin
<1> HIDE DEF old, new, pos
<1>6. CASE fhandle[h].write /\ at > Len(old)
  <2> DEFINE more == [i \in 1 .. at - Len(old) |-> Fs!Junk]
  <2>1. more \in Seq(FileBytes) /\ Len(more) = at - Len(old)
    <3>1. at - Len(old) \in Nat
      BY <1>1, <1>6
    <3> QED BY <3>1 DEF FileBytes
  <2>2. new = old \o more
    BY <1>3, <1>6 DEF Fs!Grown
  <2> HIDE DEF more
  <2>3. new \in Seq(FileBytes) /\ Len(new) = at /\ Len(old) \in Nat
    BY <1>1, <2>1, <2>2
  <2>4. \A i \in 1 .. Len(old) : new[i] = old[i]
    BY <1>1, <2>1, <2>2
  <2>5. SubSeq(old, 1, Len(old)) = SubSeq(new, 1, Len(old))
    BY <1>1, <1>6, <2>3, <2>4
  <2>6. Fs!IsPrefix(old, new)
    BY <1>1, <1>6, <2>3, <2>5 DEF Fs!IsPrefix
  <2> QED BY <1>1, <1>4, <1>6, <2>3, <2>6 DEF old, new, pos
<1>7. CASE ~(fhandle[h].write /\ at > Len(old))
  <2>1. new = old /\ pos \in Nat /\ pos <= Len(old)
    BY <1>1, <1>3, <1>4, <1>5, <1>7
  <2> QED BY <1>1, <1>2, <1>4, <1>7, <2>1 DEF old, new, pos
<1> QED BY <1>6, <1>7

\* Payload written over a file, or behind its end.
LEMMA WrittenFacts ==
  ASSUME NEW old \in Seq(FileBytes), NEW at \in Nat, at <= Len(old), NEW b \in Payload
  PROVE  /\ Fs!WrittenAt(old, at, <<b>>) \in Seq(FileBytes)
         /\ Len(Fs!WrittenAt(old, at, <<b>>)) = IF Len(old) >= at + 1 THEN Len(old) ELSE at + 1
<1> DEFINE n == IF Len(old) >= at + 1 THEN Len(old) ELSE at + 1
           ws == [i \in 1 .. n |-> IF i \in at + 1 .. at + 1 THEN <<b>>[i - at] ELSE old[i]]
<1>1. Len(<<b>>) = 1 /\ <<b>>[1] = b /\ Len(old) \in Nat /\ n \in Nat
  OBVIOUS
<1>2. Fs!Max({Len(old), at + 1}) = n
  BY <1>1, FilesMax
<1>3. Fs!WrittenAt(old, at, <<b>>) = ws
  BY <1>1, <1>2 DEF Fs!WrittenAt
<1>4. \A i \in 1 .. n : ws[i] \in FileBytes
  <2> SUFFICES ASSUME NEW i \in 1 .. n PROVE ws[i] \in FileBytes
    OBVIOUS
  <2>1. CASE i = at + 1
    <3>1. i - at = 1
      BY <2>1
    <3>2. ws[i] = <<b>>[i - at]
      BY <2>1
    <3> QED BY <1>1, <3>1, <3>2 DEF FileBytes
  <2>2. CASE i # at + 1
    <3>1. i \in 1 .. Len(old)
      BY <1>1, <2>2
    <3>2. ws[i] = old[i]
      BY <2>2
    <3> QED BY <3>1, <3>2
  <2> QED BY <2>1, <2>2
<1>5. ws \in [1 .. n -> FileBytes]
  BY <1>4
<1> HIDE DEF n
<1>6. ws \in Seq(FileBytes) /\ Len(ws) = n
  BY <1>1, <1>5
<1> QED BY <1>3, <1>6 DEF n

\* What is read lies inside the file.
LEMMA ReadFacts ==
  ASSUME NEW bytes \in Seq(FileBytes), NEW at \in Nat, at <= Len(bytes), NEW len \in Nat
  PROVE  Len(Fs!ReadAt(bytes, at, len)) \in Nat /\ at + Len(Fs!ReadAt(bytes, at, len)) <= Len(bytes)
<1> DEFINE to == IF at + len <= Len(bytes) THEN at + len ELSE Len(bytes)
<1>1. Len(bytes) \in Nat /\ Fs!Min({at + len, Len(bytes)}) = to
  BY FilesMin
<1>2. Fs!ReadAt(bytes, at, len) = SubSeq(bytes, at + 1, to)
  BY <1>1 DEF Fs!ReadAt
<1>3. to \in Nat /\ to >= at /\ to <= Len(bytes)
  BY <1>1
<1> HIDE DEF to
<1>4. Len(SubSeq(bytes, at + 1, to)) = to - at
  BY <1>1, <1>3
<1> QED BY <1>1, <1>2, <1>3, <1>4

\* The calls that read, write and seek in an open file, or set its size.
LEMMA FdReadKeeps ==
  ASSUME FilesInv, NEW h \in Fs!Handles, NEW len \in ReadLens, Fs!FdRead(h, len) PROVE FilesInv'
<1> DEFINE b == file[fhandle[h].name]
           p == fhandle[h].pos + Len(Fs!ReadAt(b, fhandle[h].pos, len))
<1>1. Fs!IsFile(h) /\ len \in Nat
  BY FilesAssumption DEF Fs!FdRead
<1>2. /\ b \in Seq(FileBytes) /\ Len(b) <= MaxSize /\ fhandle[h].name \in FileNames
      /\ fhandle[h].pos \in Nat /\ fhandle[h].pos <= Len(b)
  BY <1>1, FileHandle, FilesAssumption DEF FilesInv, FilesOpen
<1>3. p \in Nat /\ p <= Len(b)
  BY <1>1, <1>2, ReadFacts
<1>4. fhandle' = [fhandle EXCEPT ![h].pos = p] /\ UNCHANGED <<order, dirs, file, saved, listing>>
  BY DEF Fs!FdRead
<1>5. file' = [file EXCEPT ![fhandle[h].name] = b]
  BY <1>2, <1>4 DEF FilesInv, FilesTyped
<1> HIDE DEF b, p
<1>6. fhandle[h].write \/ b = file[fhandle[h].name]
  BY DEF b
<1> QED BY <1>1, <1>2, <1>3, <1>4, <1>5, <1>6, BytesChange

LEMMA FdSeekKeeps ==
  ASSUME FilesInv, NEW h \in Fs!Handles, NEW w \in {"set", "cur", "end"}, NEW by \in Fs!Offsets,
         Fs!FdSeek(h, w, by)
  PROVE  FilesInv'
<1>1. Fs!IsFile(h)
  BY DEF Fs!FdSeek
<1>2. /\ fhandle[h].pos \in Nat /\ Len(file[fhandle[h].name]) \in Nat /\ by \in Nat
      /\ MaxSize \in Nat
  BY <1>1, FileHandle, FilesAssumption DEF FilesInv, Fs!Offsets
<1>3. ASSUME NEW target \in Nat, target <= MaxSize,
             file' = [file EXCEPT ![fhandle[h].name] = Fs!SeekBytes(h, target)],
             fhandle' = [fhandle EXCEPT ![h].pos = Fs!SeekPos(h, target)],
             UNCHANGED <<order, dirs, saved, listing>>
      PROVE  FilesInv'
  <2> DEFINE b == Fs!SeekBytes(h, target)
             p == Fs!SeekPos(h, target)
  <2>1. target \in Fs!Offsets
    BY <1>2, <1>3 DEF Fs!Offsets
  <2>2. /\ b \in Seq(FileBytes) /\ Len(b) \in 0 .. MaxSize /\ p \in Nat /\ p <= Len(b)
        /\ fhandle[h].write \/ b = file[fhandle[h].name]
    BY <1>1, <2>1, SeekFacts
  <2>3. file' = [file EXCEPT ![fhandle[h].name] = b] /\ fhandle' = [fhandle EXCEPT ![h].pos = p]
    BY <1>3
  <2> HIDE DEF b, p
  <2>4. Len(b) <= MaxSize
    BY <1>2, <2>2
  <2> QED BY <1>1, <1>3, <2>2, <2>3, <2>4, BytesChange
<1> DEFINE target == CASE w = "set" -> by
                       [] w = "cur" -> fhandle[h].pos + by
                       [] w = "end" -> Fs!Size(fhandle[h].name) + by
<1>4. target \in Nat
  <2>1. CASE w = "set"
    <3>1. target = by
      BY <2>1
    <3> QED BY <1>2, <3>1
  <2>2. CASE w = "cur"
    <3>1. target = fhandle[h].pos + by
      BY <2>2
    <3> QED BY <1>2, <3>1
  <2>3. CASE w = "end"
    <3>1. target = Len(file[fhandle[h].name]) + by
      BY <2>3 DEF Fs!Size
    <3> HIDE DEF target
    <3> QED BY <1>2, <3>1
  <2> QED BY <2>1, <2>2, <2>3
<1>5. /\ target <= MaxSize /\ UNCHANGED <<order, dirs, saved, listing>>
      /\ file' = [file EXCEPT ![fhandle[h].name] = Fs!SeekBytes(h, target)]
      /\ fhandle' = [fhandle EXCEPT ![h].pos = Fs!SeekPos(h, target)]
  BY DEF Fs!FdSeek
<1> HIDE DEF target
<1> QED BY <1>3, <1>4, <1>5

LEMMA FdPreadKeeps ==
  ASSUME FilesInv, NEW h \in Fs!Handles, NEW len, NEW at \in Fs!Offsets, Fs!FdPread(h, at, len)
  PROVE  FilesInv'
<1> DEFINE b == Fs!SeekBytes(h, at)
           p == fhandle[h].pos
<1>1. Fs!IsFile(h) /\ file' = [file EXCEPT ![fhandle[h].name] = b]
      /\ UNCHANGED <<order, dirs, saved, fhandle, listing>>
  BY DEF Fs!FdPread
<1>2. /\ p \in Nat /\ p <= Len(file[fhandle[h].name])
      /\ Len(file[fhandle[h].name]) \in Nat
  BY <1>1, FileHandle DEF FilesInv, FilesOpen
<1>3. /\ b \in Seq(FileBytes) /\ Len(b) \in 0 .. MaxSize /\ Len(file[fhandle[h].name]) <= Len(b)
      /\ fhandle[h].write \/ b = file[fhandle[h].name]
  BY <1>1, SeekFacts
<1>4. fhandle' = [fhandle EXCEPT ![h].pos = p]
  BY <1>1, SamePosition
<1> HIDE DEF b, p
<1>5. p <= Len(b) /\ Len(b) <= MaxSize
  BY <1>2, <1>3, FilesAssumption
<1> QED BY <1>1, <1>2, <1>3, <1>4, <1>5, BytesChange

LEMMA FdWriteKeeps ==
  ASSUME FilesInv, NEW h \in Fs!Handles, NEW c \in Payload, Fs!FdWrite(h, <<c>>) PROVE FilesInv'
<1>1. Fs!IsFile(h) /\ UNCHANGED <<order, dirs, saved, listing>>
  BY DEF Fs!FdWrite
<1>2. CASE UNCHANGED <<file, fhandle>>
  BY <1>1, <1>2, FilesAlone
<1>3. CASE /\ fhandle[h].write /\ fhandle[h].pos + Len(<<c>>) <= MaxSize
           /\ file' = [file EXCEPT ![fhandle[h].name] = Fs!WrittenAt(@, fhandle[h].pos, <<c>>)]
           /\ fhandle' = [fhandle EXCEPT ![h].pos = @ + Len(<<c>>)]
  <2> DEFINE old == file[fhandle[h].name]
             b == Fs!WrittenAt(old, fhandle[h].pos, <<c>>)
             p == fhandle[h].pos + 1
  <2>1. /\ old \in Seq(FileBytes) /\ Len(old) \in 0 .. MaxSize /\ fhandle[h].name \in FileNames
        /\ fhandle[h].pos \in Nat /\ fhandle[h].pos <= Len(old) /\ Len(<<c>>) = 1
    BY <1>1, FileHandle DEF FilesInv, FilesOpen
  <2>2. b \in Seq(FileBytes) /\ Len(b) = IF Len(old) >= p THEN Len(old) ELSE p
    BY <2>1, WrittenFacts
  <2>3. file' = [file EXCEPT ![fhandle[h].name] = b]
    BY <1>3, <2>1 DEF FilesInv, FilesTyped
  <2>4. fhandle' = [fhandle EXCEPT ![h].pos = p] /\ p <= MaxSize
    BY <1>3, <2>1
  <2>5. p \in Nat /\ p <= Len(b) /\ Len(b) <= MaxSize
    BY <2>1, <2>2, <2>4, FilesAssumption
  <2> HIDE DEF b, p
  <2> QED BY <1>1, <1>3, <2>2, <2>3, <2>4, <2>5, BytesChange
<1> QED BY <1>2, <1>3 DEF Fs!FdWrite

LEMMA FdPwriteKeeps ==
  ASSUME FilesInv, NEW h \in Fs!Handles, NEW c \in Payload, NEW at \in Fs!Offsets,
         Fs!FdPwrite(h, at, <<c>>)
  PROVE  FilesInv'
<1> DEFINE old == file[fhandle[h].name]
           b == IF fhandle[h].write THEN Fs!WrittenAt(Fs!SeekBytes(h, at), at, <<c>>) ELSE old
           p == fhandle[h].pos
<1>1. Fs!IsFile(h) /\ at + 1 <= MaxSize /\ UNCHANGED <<order, dirs, saved, fhandle, listing>>
  BY DEF Fs!FdPwrite
<1>2. /\ old \in Seq(FileBytes) /\ Len(old) \in 0 .. MaxSize /\ fhandle[h].name \in FileNames
      /\ p \in Nat /\ p <= Len(old)
  BY <1>1, FileHandle DEF FilesInv, FilesOpen
<1>3. at \in Nat /\ MaxSize \in Nat
  BY FilesAssumption DEF Fs!Offsets
<1>4. file' = [file EXCEPT ![fhandle[h].name] = b]
  BY <1>2 DEF Fs!FdPwrite, FilesInv, FilesTyped
<1>5. b \in Seq(FileBytes) /\ p <= Len(b) /\ Len(b) <= MaxSize
  <2>1. CASE fhandle[h].write
    <3> DEFINE sb == Fs!SeekBytes(h, at)
    <3>1. sb \in Seq(FileBytes) /\ Len(sb) \in 0 .. MaxSize /\ at <= Len(sb) /\ Len(old) <= Len(sb)
      BY <1>1, <2>1, SeekFacts
    <3>2. /\ Fs!WrittenAt(sb, at, <<c>>) \in Seq(FileBytes)
          /\ Len(Fs!WrittenAt(sb, at, <<c>>)) = IF Len(sb) >= at + 1 THEN Len(sb) ELSE at + 1
      BY <1>3, <3>1, WrittenFacts
    <3>3. b = Fs!WrittenAt(sb, at, <<c>>)
      BY <2>1
    <3>4. PICK m \in Nat : m = Len(sb) /\ m <= MaxSize /\ at <= m /\ Len(old) <= m
      BY <1>3, <3>1
    <3>5. PICK k \in Nat : k = Len(b) /\ k = IF m >= at + 1 THEN m ELSE at + 1
      BY <1>3, <3>2, <3>3, <3>4
    <3>6. m <= k /\ k <= MaxSize
      BY <1>1, <1>3, <3>4, <3>5
    <3>7. Len(old) <= k
      BY <1>2, <3>4, <3>6
    <3> QED BY <1>2, <3>2, <3>3, <3>5, <3>6, <3>7
  <2>2. CASE ~fhandle[h].write
    BY <1>2, <1>3, <2>2
  <2> QED BY <2>1, <2>2
<1>6. fhandle' = [fhandle EXCEPT ![h].pos = p]
  BY <1>1, SamePosition
<1>7. fhandle[h].write \/ b = old
  OBVIOUS
<1> HIDE DEF b, p
<1> QED BY <1>1, <1>2, <1>4, <1>5, <1>6, <1>7, BytesChange

LEMMA FdSetSizeKeeps ==
  ASSUME FilesInv, NEW h \in Fs!Handles, NEW n \in Fs!Offsets, Fs!FdSetSize(h, n) PROVE FilesInv'
<1> DEFINE old == file[fhandle[h].name]
           sb == Fs!SeekBytes(h, n)
           b == IF fhandle[h].write THEN SubSeq(sb, 1, n) ELSE old
           p == Fs!SeekPos(h, n)
<1>1. Fs!IsFile(h) /\ UNCHANGED <<order, dirs, saved, listing>>
      /\ fhandle' = [fhandle EXCEPT ![h].pos = p]
  BY DEF Fs!FdSetSize
<1>2. /\ old \in Seq(FileBytes) /\ Len(old) \in 0 .. MaxSize /\ fhandle[h].name \in FileNames
      /\ n \in 0 .. MaxSize /\ MaxSize \in Nat
  BY <1>1, FileHandle, FilesAssumption DEF FilesInv, Fs!Offsets
<1>3. file' = [file EXCEPT ![fhandle[h].name] = b]
  BY <1>2 DEF Fs!FdSetSize, FilesInv, FilesTyped
<1>4. /\ sb \in Seq(FileBytes) /\ Len(sb) \in 0 .. MaxSize /\ p \in Nat /\ p <= Len(sb)
      /\ fhandle[h].write => p = n
      /\ fhandle[h].write \/ sb = old
  BY <1>1, SeekFacts
<1> HIDE DEF sb, p
<1>5. b \in Seq(FileBytes) /\ p <= Len(b) /\ Len(b) <= MaxSize
  <2>1. CASE fhandle[h].write
    <3>1. n <= Len(sb) /\ p = n
      BY <1>4, <2>1
    <3>2. SubSeq(sb, 1, n) \in Seq(FileBytes) /\ Len(SubSeq(sb, 1, n)) = n
      BY <1>2, <1>4, <3>1
    <3> QED BY <1>2, <2>1, <3>1, <3>2
  <2>2. CASE ~fhandle[h].write
    BY <1>2, <1>4, <2>2
  <2> QED BY <2>1, <2>2
<1>6. fhandle[h].write \/ b = old
  OBVIOUS
<1> HIDE DEF b
<1> QED BY <1>1, <1>2, <1>3, <1>4, <1>5, <1>6, BytesChange

\* A name put in at a slot: the names behind it move up.
LEMMA InsertFacts ==
  ASSUME NEW S, NEW s \in Seq(S), Fs!IsInjective(s), NEW e \in S, e \notin Fs!Range(s),
         NEW i \in 1 .. Len(s) + 1
  PROVE  /\ Fs!InsertAt(s, i, e) \in Seq(S) /\ Fs!IsInjective(Fs!InsertAt(s, i, e))
         /\ Fs!Range(Fs!InsertAt(s, i, e)) = Fs!Range(s) \cup {e}
<1> DEFINE a == SubSeq(s, 1, i - 1)
           b == SubSeq(s, i, Len(s))
           c == a \o <<e>>
           t == c \o b
<1>1. PICK n \in Nat : n = Len(s) /\ DOMAIN s = 1 .. n /\ i \in 1 .. n + 1
  OBVIOUS
<1>2. a \in Seq(S) /\ Len(a) = i - 1 /\ \A j \in 1 .. i - 1 : a[j] = s[j]
  BY <1>1
<1>3. b \in Seq(S) /\ Len(b) = n - i + 1 /\ \A j \in 1 .. n - i + 1 : b[j] = s[j + i - 1]
  BY <1>1
<1> HIDE DEF a, b
<1>4. c \in Seq(S) /\ Len(c) = i /\ c[i] = e /\ \A j \in 1 .. i - 1 : c[j] = a[j]
  <2>1. Len(a) \in Nat /\ Len(a) + 1 = i /\ a \in Seq(S) /\ e \in S
    BY ONLY <1>1, <1>2
  <2>2. c \in Seq(S) /\ Len(c) = Len(a) + 1
        /\ \A j \in 1 .. Len(a) + 1 : c[j] = IF j <= Len(a) THEN a[j] ELSE e
    <3>1. c = Append(a, e)
      BY <2>1, AppendIsConcat
    <3> HIDE DEF c
    <3> QED BY <2>1, <3>1, AppendProperties
  <2> HIDE DEF a, c
  <2> QED BY ONLY <1>1, <2>1, <2>2
<1> HIDE DEF c
<1>5. /\ t \in Seq(S) /\ Len(t) = n + 1 /\ DOMAIN t = 1 .. n + 1
      /\ \A j \in 1 .. i : t[j] = c[j]
      /\ \A j \in i + 1 .. n + 1 : t[j] = b[j - i]
  <2>1. PICK k \in Nat : k = n - i + 1 /\ Len(b) = k /\ n + 1 = i + k
    <3>1. n - i + 1 \in Nat /\ n + 1 = i + (n - i + 1)
      BY ONLY <1>1
    <3> QED BY ONLY <1>3, <3>1
  <2>2. t \in Seq(S) /\ Len(t) = i + k
        /\ \A j \in 1 .. i + k : t[j] = IF j <= i THEN c[j] ELSE b[j - i]
    <3>1. /\ t \in Seq(S) /\ Len(t) = Len(c) + Len(b)
          /\ \A j \in 1 .. Len(c) + Len(b) : t[j] = IF j <= Len(c) THEN c[j] ELSE b[j - Len(c)]
      BY <1>3, <1>4, ConcatProperties
    <3> HIDE DEF t
    <3> QED BY <1>4, <2>1, <3>1
  <2> HIDE DEF t
  <2> QED BY <1>1, <2>1, <2>2
<1>6. t[i] = e /\ \A j \in 1 .. n + 1 : /\ j < i => t[j] = s[j] /\ j \in 1 .. n
                                        /\ j > i => t[j] = s[j - 1] /\ j - 1 \in 1 .. n
  <2>1. t[i] = e
    BY <1>1, <1>4, <1>5
  <2>2. ASSUME NEW j \in 1 .. n + 1, j < i PROVE t[j] = s[j] /\ j \in 1 .. n
    BY <1>1, <1>2, <1>4, <1>5, <2>2
  <2>3. ASSUME NEW j \in 1 .. n + 1, j > i PROVE t[j] = s[j - 1] /\ j - 1 \in 1 .. n
    <3>1. j \in i + 1 .. n + 1 /\ j - i \in 1 .. n - i + 1 /\ (j - i) + i - 1 = j - 1
      BY <1>1, <2>3
    <3>2. t[j] = b[j - i] /\ b[j - i] = s[(j - i) + i - 1]
      BY <1>3, <1>5, <3>1
    <3>3. j - 1 \in 1 .. n
      BY <1>1, <2>3
    <3> QED BY <3>1, <3>2, <3>3
  <2> QED BY <2>1, <2>2, <2>3
<1> HIDE DEF t
<1>7. \A j \in 1 .. n : s[j] # e /\ \A k \in 1 .. n : s[j] = s[k] => j = k
  BY <1>1 DEF Fs!Range, Fs!IsInjective
<1>8. Fs!IsInjective(t)
  <2> SUFFICES ASSUME NEW j \in 1 .. n + 1, NEW k \in 1 .. n + 1, t[j] = t[k], j < k PROVE FALSE
    BY <1>1, <1>5 DEF Fs!IsInjective
  <2>1. CASE k < i
    BY <1>1, <1>6, <1>7, <2>1
  <2>2. CASE k = i
    BY <1>1, <1>6, <1>7, <2>2
  <2>3. CASE k > i /\ j = i
    BY <1>1, <1>6, <1>7, <2>3
  <2>4. CASE k > i /\ j < i
    <3>1. t[k] = s[k - 1] /\ k - 1 \in 1 .. n /\ t[j] = s[j] /\ j \in 1 .. n
      BY <1>6, <2>4
    <3>2. j # k - 1
      BY <1>1, <2>4
    <3> QED BY <1>7, <3>1, <3>2
  <2>5. CASE k > i /\ j > i
    <3>1. t[k] = s[k - 1] /\ k - 1 \in 1 .. n /\ t[j] = s[j - 1] /\ j - 1 \in 1 .. n
      BY <1>6, <2>5
    <3> QED BY <1>7, <3>1
  <2> QED BY <1>1, <2>1, <2>2, <2>3, <2>4, <2>5
<1>9. Fs!Range(t) = Fs!Range(s) \cup {e}
  <2>1. ASSUME NEW j \in 1 .. n + 1 PROVE t[j] \in Fs!Range(s) \cup {e}
    <3>1. j < i \/ j = i \/ j > i
      BY <1>1
    <3> QED BY <1>1, <1>6, <3>1 DEF Fs!Range
  <2>2. ASSUME NEW j \in 1 .. n PROVE \E k \in 1 .. n + 1 : t[k] = s[j]
    <3>1. CASE j < i
      BY <1>1, <1>6, <3>1
    <3>2. CASE j >= i
      <4>1. j + 1 \in 1 .. n + 1 /\ j + 1 > i /\ (j + 1) - 1 = j
        BY <1>1, <3>2
      <4>2. t[j + 1] = s[(j + 1) - 1]
        BY <1>6, <4>1
      <4> QED BY <4>1, <4>2
    <3> QED BY <1>1, <3>1, <3>2
  <2>3. \A x \in Fs!Range(t) : x \in Fs!Range(s) \cup {e}
    BY <1>5, <2>1 DEF Fs!Range
  <2>4. ASSUME NEW x \in Fs!Range(s) PROVE x \in Fs!Range(t)
    <3>1. PICK j \in 1 .. n : x = s[j]
      BY <1>1 DEF Fs!Range
    <3>2. PICK k \in 1 .. n + 1 : t[k] = x
      BY <2>2, <3>1
    <3> QED BY <1>5, <3>2 DEF Fs!Range
  <2>5. e \in Fs!Range(t)
    BY <1>1, <1>5, <1>6 DEF Fs!Range
  <2> QED BY <2>3, <2>4, <2>5
<1>10. Fs!InsertAt(s, i, e) = t
  BY DEF Fs!InsertAt, t, c, a, b
<1> QED BY <1>5, <1>8, <1>9, <1>10

\* A slot freed: the names behind it move down.
LEMMA RemoveFacts ==
  ASSUME NEW S, NEW s \in Seq(S), Fs!IsInjective(s), NEW i \in DOMAIN s
  PROVE  /\ Fs!RemoveAt(s, i) \in Seq(S) /\ Fs!IsInjective(Fs!RemoveAt(s, i))
         /\ Fs!Range(Fs!RemoveAt(s, i)) = Fs!Range(s) \ {s[i]}
<1> DEFINE a == SubSeq(s, 1, i - 1)
           b == SubSeq(s, i + 1, Len(s))
           t == a \o b
<1>1. PICK n \in Nat : n = Len(s) /\ DOMAIN s = 1 .. n /\ i \in 1 .. n
  OBVIOUS
<1>2. a \in Seq(S) /\ Len(a) = i - 1 /\ \A j \in 1 .. i - 1 : a[j] = s[j]
  BY <1>1
<1>3. b \in Seq(S) /\ Len(b) = n - i /\ \A j \in 1 .. n - i : b[j] = s[j + i]
  <2>1. SubSeq(s, i + 1, n) \in Seq(S)
    BY <1>1
  <2>2. Len(SubSeq(s, i + 1, n)) = n - i
    BY <1>1
  <2>3. \A j \in 1 .. n - i : SubSeq(s, i + 1, n)[j] = s[j + i]
    BY <1>1
  <2> QED BY <1>1, <2>1, <2>2, <2>3
<1> HIDE DEF a, b
<1>4. /\ t \in Seq(S) /\ Len(t) = n - 1 /\ DOMAIN t = 1 .. n - 1
      /\ \A j \in 1 .. i - 1 : t[j] = a[j]
      /\ \A j \in i .. n - 1 : t[j] = b[j - i + 1]
  <2>1. PICK k \in Nat : k = n - i /\ Len(b) = k
    BY <1>1, <1>3
  <2>2. PICK p \in Nat : p = i - 1 /\ Len(a) = p /\ p + k = n - 1
    <3>1. i - 1 \in Nat /\ (i - 1) + k = n - 1
      BY <1>1, <2>1
    <3> QED BY <1>2, <3>1
  <2>3. t \in Seq(S) /\ Len(t) = p + k
        /\ \A j \in 1 .. p + k : t[j] = IF j <= p THEN a[j] ELSE b[j - p]
    <3>1. /\ t \in Seq(S) /\ Len(t) = Len(a) + Len(b)
          /\ \A j \in 1 .. Len(a) + Len(b) : t[j] = IF j <= Len(a) THEN a[j] ELSE b[j - Len(a)]
      BY <1>2, <1>3, ConcatProperties
    <3>2. Len(a) = p /\ Len(b) = k
      BY <2>1, <2>2
    <3> HIDE DEF t
    <3> QED BY <3>1, <3>2
  <2> HIDE DEF t
  <2>4. DOMAIN t = 1 .. n - 1 /\ Len(t) = n - 1
    BY <2>2, <2>3
  <2>5. \A j \in 1 .. i - 1 : t[j] = a[j]
    BY <1>1, <2>2, <2>3
  <2>6. \A j \in i .. n - 1 : t[j] = b[j - i + 1]
    <3>1. \A j \in i .. n - 1 : j - p = j - i + 1 /\ ~(j <= p) /\ j \in 1 .. p + k
      BY <1>1, <2>2
    <3> QED BY <2>3, <3>1
  <2> QED BY <2>3, <2>4, <2>5, <2>6
<1>5. \A j \in 1 .. n - 1 : /\ j < i => t[j] = s[j] /\ j \in 1 .. n
                            /\ j >= i => t[j] = s[j + 1] /\ j + 1 \in 1 .. n
  <2>1. ASSUME NEW j \in 1 .. n - 1, j < i PROVE t[j] = s[j] /\ j \in 1 .. n
    BY <1>1, <1>2, <1>4, <2>1
  <2>2. ASSUME NEW j \in 1 .. n - 1, j >= i PROVE t[j] = s[j + 1] /\ j + 1 \in 1 .. n
    <3>1. j \in i .. n - 1 /\ j - i + 1 \in 1 .. n - i /\ (j - i + 1) + i = j + 1
      BY <1>1, <2>2
    <3>2. t[j] = b[j - i + 1] /\ b[j - i + 1] = s[(j - i + 1) + i]
      BY <1>3, <1>4, <3>1
    <3> QED BY <1>1, <2>2, <3>1, <3>2
  <2> QED BY <2>1, <2>2
<1> HIDE DEF t
<1>6. \A j, k \in 1 .. n : s[j] = s[k] => j = k
  BY <1>1 DEF Fs!IsInjective
<1>7. Fs!IsInjective(t)
  <2> SUFFICES ASSUME NEW j \in 1 .. n - 1, NEW k \in 1 .. n - 1, t[j] = t[k], j < k PROVE FALSE
    BY <1>1, <1>4 DEF Fs!IsInjective
  <2>1. CASE k < i
    BY <1>1, <1>5, <1>6, <2>1
  <2>2. CASE k >= i /\ j < i
    <3>1. t[k] = s[k + 1] /\ k + 1 \in 1 .. n /\ t[j] = s[j] /\ j \in 1 .. n /\ j # k + 1
      BY <1>1, <1>5, <2>2
    <3> QED BY <1>6, <3>1
  <2>3. CASE j >= i
    <3>1. t[k] = s[k + 1] /\ k + 1 \in 1 .. n /\ t[j] = s[j + 1] /\ j + 1 \in 1 .. n
      BY <1>1, <1>5, <2>3
    <3> QED BY <1>6, <3>1
  <2>4. k < i \/ (k >= i /\ j < i) \/ j >= i
    BY <1>1
  <2> QED BY ONLY <2>1, <2>2, <2>3, <2>4
<1>8. Fs!Range(t) = Fs!Range(s) \ {s[i]}
  <2>1. ASSUME NEW j \in 1 .. n - 1 PROVE t[j] \in Fs!Range(s) \ {s[i]}
    <3>1. CASE j < i
      <4>1. t[j] = s[j] /\ j \in 1 .. n /\ j # i
        BY ONLY <1>1, <1>5, <3>1, j \in 1 .. n - 1
      <4> QED BY <1>1, <1>6, <4>1 DEF Fs!Range
    <3>2. CASE j >= i
      <4>1. t[j] = s[j + 1] /\ j + 1 \in 1 .. n /\ j + 1 # i
        BY <1>1, <1>5, <3>2
      <4> QED BY <1>1, <1>6, <4>1 DEF Fs!Range
    <3> QED BY <1>1, <3>1, <3>2
  <2>2. ASSUME NEW j \in 1 .. n, s[j] # s[i] PROVE \E k \in 1 .. n - 1 : t[k] = s[j]
    <3>1. CASE j < i
      BY <1>1, <1>5, <3>1
    <3>2. CASE j > i
      <4>1. j - 1 \in 1 .. n - 1 /\ j - 1 >= i /\ (j - 1) + 1 = j
        BY <1>1, <3>2
      <4>2. t[j - 1] = s[(j - 1) + 1]
        BY <1>5, <4>1
      <4> QED BY <4>1, <4>2
    <3>3. j < i \/ j > i
      <4>1. j # i
        BY <2>2
      <4> QED BY <1>1, <4>1
    <3> QED BY ONLY <3>1, <3>2, <3>3
  <2>3. \A x \in Fs!Range(t) : x \in Fs!Range(s) \ {s[i]}
    BY <1>4, <2>1 DEF Fs!Range
  <2>4. \A x \in Fs!Range(s) \ {s[i]} : x \in Fs!Range(t)
    <3> SUFFICES ASSUME NEW x \in Fs!Range(s), x # s[i] PROVE x \in Fs!Range(t)
      OBVIOUS
    <3>1. PICK j \in 1 .. n : s[j] = x
      BY <1>1 DEF Fs!Range
    <3>2. PICK k \in 1 .. n - 1 : t[k] = x
      BY <2>2, <3>1
    <3> QED BY <1>4, <3>2 DEF Fs!Range
  <2> QED BY <2>3, <2>4
<1>9. Fs!RemoveAt(s, i) = t
  BY DEF Fs!RemoveAt, t, a, b
<1> QED BY <1>4, <1>7, <1>8, <1>9

\* A name added to the directory, or taken out.
LEMMA AddedFacts ==
  ASSUME FilesTyped, NEW n \in FileNames, n \notin Fs!Present, Fs!Added(n, order, order')
  PROVE  /\ order' \in Seq(FileNames) /\ Fs!IsInjective(order')
         /\ Fs!Range(order') = Fs!Range(order) \cup {n}
<1>1. PICK i \in 1 .. Len(order) + 1 : order' = Fs!InsertAt(order, i, n)
  BY DEF Fs!Added
<1>2. order \in Seq(FileNames) /\ Fs!IsInjective(order) /\ n \notin Fs!Range(order)
  BY DEF FilesTyped, Fs!Present
<1> QED BY <1>1, <1>2, InsertFacts

\* A handle that is not used gets a directory or a file; the others stay.
LEMMA OneHandle ==
  ASSUME FilesTyped, NEW h \in Fs!Handles, fhandle[h] = Fs!Unused,
         NEW new \in DirHandles \cup OpenFiles, fhandle' = [fhandle EXCEPT ![h] = new]
  PROVE  /\ fhandle' \in [Fs!Handles -> {Fs!Unused} \cup DirHandles \cup OpenFiles]
         /\ fhandle'[h] = new /\ (Fs!IsFile(h)' <=> new \in OpenFiles) /\ ~Fs!IsFile(h)
         /\ \A g \in Fs!Handles \ {h} : fhandle'[g] = fhandle[g] /\ (Fs!IsFile(g)' <=> Fs!IsFile(g))
BY HandleKinds DEF FilesTyped, Fs!IsFile

LEMMA NewHandles ==
  ASSUME NEW n \in FileNames \cup {"/"}
  PROVE  /\ Fs!NewDir(n) \in DirHandles
         /\ \A w \in BOOLEAN : n \in FileNames =>
              /\ Fs!NewFile(n, w) \in OpenFiles /\ Fs!NewFile(n, w).name = n
              /\ Fs!NewFile(n, w).pos = 0 /\ Fs!NewFile(n, w).write = w
BY DEF Fs!NewDir, Fs!NewFile, DirHandles, OpenFiles

\* A file is created, cleared or opened as it is; a directory only opened.
LEMMA PathOpenKeeps ==
  ASSUME FilesInv, NEW n \in Opened, NEW w \in BOOLEAN, NEW c \in BOOLEAN, NEW tr \in BOOLEAN,
         Fs!PathOpen(n, w, c, tr)
  PROVE  FilesInv'
<1>1. n \in FileNames /\ MaxSize \in Nat
  BY FilesAssumption
<1>2. PICK h \in Fs!Handles : h = Fs!Min(Fs!FreeHandles) /\ fhandle[h] = Fs!Unused /\ FilesTyped
  BY FreeHandle DEF FilesInv, Fs!PathOpen
<1>3. PICK new \in DirHandles \cup OpenFiles :
        /\ new = IF Fs!IsDir(n) THEN Fs!NewDir(n) ELSE Fs!NewFile(n, w)
        /\ new \in OpenFiles => new.name = n /\ new.pos = 0 /\ new.write = w /\ ~Fs!IsDir(n)
  BY <1>1, NewHandles, HandleKinds
<1>4. fhandle' = [fhandle EXCEPT ![h] = new] /\ dirs' = dirs
  BY <1>2, <1>3 DEF Fs!PathOpen
<1>5. /\ fhandle' \in [Fs!Handles -> {Fs!Unused} \cup DirHandles \cup OpenFiles]
      /\ fhandle'[h] = new /\ (Fs!IsFile(h)' <=> new \in OpenFiles) /\ ~Fs!IsFile(h)
      /\ \A g \in Fs!Handles \ {h} : fhandle'[g] = fhandle[g] /\ (Fs!IsFile(g)' <=> Fs!IsFile(g))
  BY <1>2, <1>4, OneHandle
<1>6. /\ order' \in Seq(FileNames) /\ Fs!IsInjective(order')
      /\ Fs!Present' = Fs!Present \cup {n}
      /\ n \in Fs!Present => order' = order
  <2>1. CASE n \in Fs!Present
    BY <1>2, <2>1 DEF Fs!PathOpen, FilesTyped, Fs!Present
  <2>2. CASE n \notin Fs!Present
    BY <1>1, <1>2, <2>2, AddedFacts DEF Fs!PathOpen, Fs!Present
  <2> QED BY <2>1, <2>2
<1>7. /\ file' = IF Fs!Clears(n, tr) THEN [file EXCEPT ![n] = << >>] ELSE file
      /\ saved' = IF Fs!Clears(n, tr) \/ n \notin Fs!Present THEN [saved EXCEPT ![n] = 0] ELSE saved
      /\ listing' = listing \/ listing' = Fs!NotListing
      /\ n \notin Fs!Present => listing' = Fs!NotListing
  BY DEF Fs!PathOpen, Fs!Clears
<1>8. \A g \in Fs!Handles : Fs!IsFile(g) /\ fhandle[g].name = n =>
        ~Fs!Clears(n, tr) /\ ~w /\ ~fhandle[g].write
  BY DEF FilesInv, FilesOpen, Fs!PathOpen, Fs!OpenOn, Fs!Clears
<1>9. /\ file' \in [FileNames -> Seq(FileBytes)] /\ saved' \in [FileNames -> Fs!Offsets]
      /\ \A m \in FileNames : /\ m # n \/ ~Fs!Clears(n, tr) => file'[m] = file[m] /\ saved'[m] = saved[m]
                              /\ m = n /\ Fs!Clears(n, tr) => Len(file'[m]) = 0 /\ saved'[m] = 0
  <2>1. << >> \in Seq(FileBytes) /\ Len(<< >>) = 0 /\ 0 \in Fs!Offsets
    BY <1>1 DEF Fs!Offsets
  <2>2. file \in [FileNames -> Seq(FileBytes)] /\ saved \in [FileNames -> Fs!Offsets]
    BY <1>2 DEF FilesTyped
  <2>3. n \notin Fs!Present => Fs!Clears(n, tr)
    BY DEF Fs!Clears
  <2> QED BY <1>1, <1>7, <2>1, <2>2, <2>3
<1>10. FilesTyped'
  <2>1. \A m \in FileNames : Len(file'[m]) <= MaxSize
    BY <1>1, <1>2, <1>9 DEF FilesTyped
  <2>2. dirs' \subseteq Fs!Present'
    BY <1>2, <1>4, <1>6 DEF FilesTyped
  <2>3. listing' \in {Fs!NotListing} \cup Listings
    BY <1>2, <1>7 DEF FilesTyped
  <2> QED BY <1>5, <1>6, <1>9, <2>1, <2>2, <2>3 DEF FilesTyped
<1>11. FilesOpen'
  <2> SUFFICES ASSUME NEW g \in Fs!Handles, Fs!IsFile(g)'
               PROVE  /\ fhandle'[g].name \in Fs!Present'
                      /\ fhandle'[g].pos <= Len(file'[fhandle'[g].name])
                      /\ fhandle'[g].write => \A i \in Fs!Handles \ {g} :
                           Fs!IsFile(i)' => fhandle'[i].name # fhandle'[g].name
    BY DEF FilesOpen
  <2>1. CASE g = h
    <3>1. fhandle'[g].name = n /\ fhandle'[g].pos = 0 /\ fhandle'[g].write = w
      BY <1>3, <1>5, <2>1
    <3>2. 0 <= Len(file'[n])
      BY <1>1, <1>9
    <3>3. \A i \in Fs!Handles \ {g} : Fs!IsFile(i)' /\ fhandle'[i].name = n => ~w
      BY <1>5, <1>8, <2>1
    <3> QED BY <1>6, <3>1, <3>2, <3>3
  <2>2. CASE g # h
    <3>1. fhandle'[g] = fhandle[g] /\ Fs!IsFile(g) /\ fhandle[g].name \in FileNames
      BY <1>2, <1>5, <2>2, FileHandle
    <3>2. file'[fhandle[g].name] = file[fhandle[g].name]
      BY <1>8, <1>9, <3>1
    <3>3. /\ fhandle[g].name \in Fs!Present /\ fhandle[g].pos <= Len(file[fhandle[g].name])
          /\ fhandle[g].write => \A i \in Fs!Handles \ {g} :
               Fs!IsFile(i) => fhandle[i].name # fhandle[g].name
      BY <3>1 DEF FilesInv, FilesOpen
    <3>4. fhandle[g].write => \A i \in Fs!Handles \ {g} :
            Fs!IsFile(i)' => fhandle'[i].name # fhandle[g].name
      <4> SUFFICES ASSUME fhandle[g].write, NEW i \in Fs!Handles \ {g}, Fs!IsFile(i)'
                   PROVE  fhandle'[i].name # fhandle[g].name
        OBVIOUS
      <4>1. CASE i = h
        BY <1>3, <1>5, <1>8, <3>1, <4>1
      <4>2. CASE i # h
        BY <1>5, <3>3, <4>2
      <4> QED BY <4>1, <4>2
    <3> QED BY <1>6, <3>1, <3>2, <3>3, <3>4
  <2> QED BY <2>1, <2>2
<1>12. FilesSaved'
  <2> SUFFICES ASSUME NEW m \in FileNames, saved'[m] # Len(file'[m])
               PROVE  \E g \in Fs!Handles : Fs!IsFile(g)' /\ fhandle'[g].name = m /\ fhandle'[g].write
    BY DEF FilesSaved
  <2>1. file'[m] = file[m] /\ saved'[m] = saved[m]
    BY <1>9
  <2>2. PICK g \in Fs!Handles : Fs!IsFile(g) /\ fhandle[g].name = m /\ fhandle[g].write
    BY <2>1 DEF FilesInv, FilesSaved
  <2> QED BY <1>5, <2>2
<1>13. FilesListed'
  <2>1. CASE listing' = Fs!NotListing
    BY <2>1, HandleKinds DEF FilesListed
  <2>2. CASE listing' = listing /\ order' = order
    <3>1. listing.on /\ listing.via \in Fs!Handles => listing.via # h
      BY <1>2, HandleKinds DEF FilesInv, FilesListed
    <3> QED BY <1>5, <2>2, <3>1 DEF FilesInv, FilesListed
  <2> QED BY <1>6, <1>7, <2>1, <2>2
<1> QED BY <1>10, <1>11, <1>12, <1>13 DEF FilesInv

\* Closing and flushing write the size to the directory; only a writer has another.
LEMMA FdCloseKeeps ==
  ASSUME FilesInv, NEW h \in Fs!Handles, Fs!FdClose(h) PROVE FilesInv'
<1>1. /\ fhandle[h] # Fs!Unused /\ fhandle' = [fhandle EXCEPT ![h] = Fs!Unused]
      /\ UNCHANGED <<order, dirs, file>> /\ FilesTyped
      /\ saved' = IF Fs!IsFile(h) /\ fhandle[h].write
                  THEN [saved EXCEPT ![fhandle[h].name] = Len(file[fhandle[h].name])] ELSE saved
      /\ listing' = IF listing.on /\ listing.via = h THEN Fs!NotListing ELSE listing
  BY DEF Fs!FdClose, Fs!Size, FilesInv
<1>2. /\ fhandle' \in [Fs!Handles -> {Fs!Unused} \cup DirHandles \cup OpenFiles]
      /\ ~Fs!IsFile(h)'
      /\ \A g \in Fs!Handles \ {h} : fhandle'[g] = fhandle[g] /\ (Fs!IsFile(g)' <=> Fs!IsFile(g))
  BY <1>1, HandleKinds DEF FilesTyped, Fs!IsFile
<1>3. saved' \in [FileNames -> Fs!Offsets]
  BY <1>1, FileHandle DEF FilesTyped, Fs!Offsets
<1>4. FilesTyped'
  BY <1>1, <1>2, <1>3 DEF FilesTyped, Fs!Present
<1>5. FilesOpen'
  BY <1>1, <1>2 DEF FilesInv, FilesOpen, Fs!Present
<1>6. FilesSaved'
  <2> SUFFICES ASSUME NEW m \in FileNames, saved'[m] # Len(file'[m])
               PROVE  \E g \in Fs!Handles : Fs!IsFile(g)' /\ fhandle'[g].name = m /\ fhandle'[g].write
    BY DEF FilesSaved
  <2>1. saved'[m] = saved[m] /\ ~(Fs!IsFile(h) /\ fhandle[h].write /\ fhandle[h].name = m)
    BY <1>1, FileHandle DEF FilesTyped
  <2>2. PICK g \in Fs!Handles : Fs!IsFile(g) /\ fhandle[g].name = m /\ fhandle[g].write
    BY <1>1, <2>1 DEF FilesInv, FilesSaved
  <2> QED BY <1>2, <2>1, <2>2
<1>7. FilesListed'
  <2>1. CASE listing' = Fs!NotListing
    BY <2>1, HandleKinds DEF FilesListed
  <2>2. CASE listing' = listing /\ ~(listing.on /\ listing.via = h)
    BY <1>1, <1>2, <2>2 DEF FilesInv, FilesListed
  <2> QED BY <1>1, <2>1, <2>2
<1> QED BY <1>4, <1>5, <1>6, <1>7 DEF FilesInv

LEMMA FdSyncKeeps ==
  ASSUME FilesInv, NEW h \in Fs!Handles, Fs!FdSync(h) PROVE FilesInv'
<1>1. /\ Fs!IsFile(h) /\ UNCHANGED <<order, dirs, file, fhandle, listing>> /\ FilesTyped
      /\ saved' = [saved EXCEPT ![fhandle[h].name] =
                     IF fhandle[h].write THEN Len(file[fhandle[h].name]) ELSE @]
  BY DEF Fs!FdSync, Fs!Size, FilesInv
<1>2. saved' \in [FileNames -> Fs!Offsets]
  BY <1>1, FileHandle DEF FilesTyped, Fs!Offsets
<1>3. FilesTyped'
  BY <1>1, <1>2 DEF FilesTyped, Fs!Present
<1>4. FilesOpen' /\ FilesListed'
  BY <1>1 DEF FilesInv, FilesOpen, FilesListed, Fs!Present, Fs!IsFile
<1>5. FilesSaved'
  <2> SUFFICES ASSUME NEW m \in FileNames, saved'[m] # Len(file'[m])
               PROVE  \E g \in Fs!Handles : Fs!IsFile(g)' /\ fhandle'[g].name = m /\ fhandle'[g].write
    BY DEF FilesSaved
  <2>1. saved'[m] = saved[m]
    BY <1>1, FileHandle DEF FilesTyped
  <2>2. PICK g \in Fs!Handles : Fs!IsFile(g) /\ fhandle[g].name = m /\ fhandle[g].write
    BY <1>1, <2>1 DEF FilesInv, FilesSaved
  <2> QED BY <1>1, <2>2 DEF Fs!IsFile
<1> QED BY <1>3, <1>4, <1>5 DEF FilesInv

\* A change of the directory: no listing goes on, and what is open is still there.
LEMMA DirectoryChange ==
  ASSUME FilesInv, fhandle' = fhandle, listing' = Fs!NotListing,
         order' \in Seq(FileNames), Fs!IsInjective(order'), dirs' \subseteq Fs!Present',
         file' \in [FileNames -> Seq(FileBytes)], saved' \in [FileNames -> Fs!Offsets],
         \A m \in FileNames : Len(file'[m]) <= MaxSize,
         \A h \in Fs!Handles : Fs!IsFile(h) =>
            fhandle[h].name \in Fs!Present' /\ file'[fhandle[h].name] = file[fhandle[h].name],
         \A m \in FileNames : \/ saved'[m] = Len(file'[m])
                              \/ saved'[m] = saved[m] /\ file'[m] = file[m]
  PROVE  FilesInv'
<1>1. FilesTyped'
  BY DEF FilesInv, FilesTyped
<1>2. \A h \in Fs!Handles : Fs!IsFile(h)' <=> Fs!IsFile(h)
  BY DEF Fs!IsFile
<1>3. FilesOpen'
  BY <1>2 DEF FilesInv, FilesOpen
<1>4. FilesSaved'
  <2> SUFFICES ASSUME NEW m \in FileNames, saved'[m] # Len(file'[m])
               PROVE  \E g \in Fs!Handles : Fs!IsFile(g)' /\ fhandle'[g].name = m /\ fhandle'[g].write
    BY DEF FilesSaved
  <2>1. saved[m] # Len(file[m])
    OBVIOUS
  <2>2. PICK g \in Fs!Handles : Fs!IsFile(g) /\ fhandle[g].name = m /\ fhandle[g].write
    BY <2>1 DEF FilesInv, FilesSaved
  <2> QED BY <1>2, <2>2
<1>5. FilesListed'
  BY HandleKinds DEF FilesListed
<1> QED BY <1>1, <1>3, <1>4, <1>5 DEF FilesInv

LEMMA PathMkdirKeeps ==
  ASSUME FilesInv, NEW n \in FileNames, Fs!PathMkdir(n) PROVE FilesInv'
<1>1. /\ n \notin Fs!Present /\ Fs!Added(n, order, order') /\ dirs' = dirs \cup {n}
      /\ listing' = Fs!NotListing /\ UNCHANGED <<file, saved, fhandle>> /\ FilesTyped
  BY DEF Fs!PathMkdir, FilesInv
<1>2. /\ order' \in Seq(FileNames) /\ Fs!IsInjective(order')
      /\ Fs!Present' = Fs!Present \cup {n}
  BY <1>1, AddedFacts DEF Fs!Present
<1>3. dirs' \subseteq Fs!Present'
  BY <1>1, <1>2 DEF FilesTyped
<1>4. \A h \in Fs!Handles : Fs!IsFile(h) => fhandle[h].name \in Fs!Present'
  BY <1>2 DEF FilesInv, FilesOpen
<1>5. /\ file' \in [FileNames -> Seq(FileBytes)] /\ saved' \in [FileNames -> Fs!Offsets]
      /\ \A m \in FileNames : Len(file'[m]) <= MaxSize
  BY <1>1 DEF FilesTyped
<1> QED BY <1>1, <1>2, <1>3, <1>4, <1>5, DirectoryChange

LEMMA PathUnlinkKeeps ==
  ASSUME FilesInv, NEW n \in FileNames, Fs!PathUnlink(n) PROVE FilesInv'
<1>1. PICK i \in DOMAIN order : order[i] = n /\ order' = Fs!RemoveAt(order, i)
  BY DEF Fs!PathUnlink
<1>2. /\ dirs' = dirs \ {n} /\ file' = [file EXCEPT ![n] = << >>] /\ saved' = [saved EXCEPT ![n] = 0]
      /\ listing' = Fs!NotListing /\ fhandle' = fhandle /\ FilesTyped
      /\ \A h \in Fs!Handles : fhandle[h] # Fs!Unused => fhandle[h].name # n
  BY DEF Fs!PathUnlink, FilesInv
<1>3. /\ order' \in Seq(FileNames) /\ Fs!IsInjective(order')
      /\ Fs!Present' = Fs!Present \ {n}
  BY <1>1, <1>2, RemoveFacts DEF Fs!Present, FilesTyped
<1>4. dirs' \subseteq Fs!Present'
  BY <1>2, <1>3 DEF FilesTyped
<1>5. \A h \in Fs!Handles : Fs!IsFile(h) => fhandle[h].name # n
  BY <1>2, HandleKinds DEF Fs!IsFile
<1>6. MaxSize \in Nat /\ << >> \in Seq(FileBytes) /\ Len(<< >>) = 0 /\ 0 \in Fs!Offsets
  BY FilesAssumption DEF Fs!Offsets
<1>7. /\ file' \in [FileNames -> Seq(FileBytes)] /\ saved' \in [FileNames -> Fs!Offsets]
      /\ \A m \in FileNames : IF m = n THEN Len(file'[m]) = 0 /\ saved'[m] = 0
                              ELSE file'[m] = file[m] /\ saved'[m] = saved[m]
  BY <1>2, <1>6 DEF FilesTyped
<1>8. \A m \in FileNames : Len(file'[m]) <= MaxSize
  BY <1>2, <1>6, <1>7 DEF FilesTyped
<1>9. \A h \in Fs!Handles : Fs!IsFile(h) =>
        fhandle[h].name \in Fs!Present' /\ file'[fhandle[h].name] = file[fhandle[h].name]
  BY <1>2, <1>3, <1>5, <1>7, FileHandle DEF FilesInv, FilesOpen
<1>10. \A m \in FileNames : \/ saved'[m] = Len(file'[m])
                            \/ saved'[m] = saved[m] /\ file'[m] = file[m]
  BY <1>7
<1> QED BY <1>2, <1>3, <1>4, <1>7, <1>8, <1>9, <1>10, DirectoryChange

LEMMA PathRenameKeeps ==
  ASSUME FilesInv, NEW old \in FileNames, NEW new \in FileNames, Fs!PathRename(old, new) PROVE FilesInv'
<1>1. PICK i \in DOMAIN order : order[i] = old /\ Fs!Added(new, Fs!RemoveAt(order, i), order')
  BY DEF Fs!PathRename
<1>2. /\ dirs' = IF Fs!IsDir(old) THEN (dirs \ {old}) \cup {new} ELSE dirs
      /\ file' = [file EXCEPT ![new] = file[old], ![old] = << >>]
      /\ saved' = [saved EXCEPT ![new] = saved[old], ![old] = 0]
      /\ listing' = Fs!NotListing /\ fhandle' = fhandle /\ FilesTyped
      /\ old \in Fs!Present /\ new \notin Fs!Present
      /\ \A h \in Fs!Handles : fhandle[h] # Fs!Unused => fhandle[h].name # old
  BY DEF Fs!PathRename, FilesInv
<1>3. PICK rest \in Seq(FileNames) : /\ rest = Fs!RemoveAt(order, i) /\ Fs!IsInjective(rest)
                                     /\ Fs!Range(rest) = Fs!Present \ {old}
  BY <1>1, <1>2, RemoveFacts DEF Fs!Present, FilesTyped
<1>4. PICK j \in 1 .. Len(rest) + 1 : order' = Fs!InsertAt(rest, j, new)
  BY <1>1, <1>3 DEF Fs!Added
<1>5. /\ order' \in Seq(FileNames) /\ Fs!IsInjective(order')
      /\ Fs!Present' = (Fs!Present \ {old}) \cup {new}
  <2>1. new \notin Fs!Range(rest)
    BY <1>2, <1>3
  <2> QED BY <1>3, <1>4, <2>1, InsertFacts DEF Fs!Present
<1>6. dirs' \subseteq Fs!Present'
  BY <1>2, <1>5 DEF FilesTyped, Fs!IsDir
<1>7. \A h \in Fs!Handles : Fs!IsFile(h) =>
        fhandle[h].name # old /\ fhandle[h].name # new /\ fhandle[h].name \in FileNames
  <2>1. \A h \in Fs!Handles : Fs!IsFile(h) => fhandle[h] # Fs!Unused
    BY HandleKinds DEF Fs!IsFile
  <2> QED BY <1>2, <2>1, FileHandle DEF FilesInv, FilesOpen
<1>8. /\ MaxSize \in Nat /\ << >> \in Seq(FileBytes) /\ Len(<< >>) = 0 /\ 0 \in Fs!Offsets
      /\ file[old] \in Seq(FileBytes) /\ Len(file[old]) <= MaxSize /\ saved[old] \in Fs!Offsets
  BY <1>2, FilesAssumption DEF Fs!Offsets, FilesTyped
<1>9. /\ file' \in [FileNames -> Seq(FileBytes)] /\ saved' \in [FileNames -> Fs!Offsets]
      /\ file'[old] = << >> /\ saved'[old] = 0 /\ file'[new] = file[old] /\ saved'[new] = saved[old]
      /\ \A m \in FileNames \ {old, new} : file'[m] = file[m] /\ saved'[m] = saved[m]
  <2>1. old # new
    BY <1>2
  <2>2. file \in [FileNames -> Seq(FileBytes)] /\ saved \in [FileNames -> Fs!Offsets]
    BY <1>2 DEF FilesTyped
  <2> QED BY <1>2, <1>8, <2>1, <2>2
<1>10. ASSUME NEW m \in FileNames PROVE Len(file'[m]) <= MaxSize
  <2>1. CASE m = old
    BY <1>8, <1>9, <2>1
  <2>2. CASE m = new
    BY <1>8, <1>9, <2>2
  <2>3. CASE m \in FileNames \ {old, new}
    BY <1>2, <1>9, <2>3 DEF FilesTyped
  <2> QED BY <2>1, <2>2, <2>3
<1>11. \A h \in Fs!Handles : Fs!IsFile(h) =>
        fhandle[h].name \in Fs!Present' /\ file'[fhandle[h].name] = file[fhandle[h].name]
  BY <1>5, <1>7, <1>9 DEF FilesInv, FilesOpen
<1>12. saved[old] = Len(file[old])
  BY <1>7 DEF FilesInv, FilesSaved
<1>13. ASSUME NEW m \in FileNames
       PROVE  \/ saved'[m] = Len(file'[m])
              \/ saved'[m] = saved[m] /\ file'[m] = file[m]
  <2>1. CASE m = old
    BY <1>8, <1>9, <2>1
  <2>2. CASE m = new
    BY <1>9, <1>12, <2>2
  <2>3. CASE m \in FileNames \ {old, new}
    BY <1>9, <2>3
  <2> QED BY <2>1, <2>2, <2>3
<1> QED BY <1>2, <1>5, <1>6, <1>9, <1>10, <1>11, <1>13, DirectoryChange

\* The greatest of some numbers up to a bound.
LEMMA GreatestIs ==
  ASSUME NEW n \in Nat, NEW S \in SUBSET (0 .. n), 0 \in S
  PROVE  Fs!Max(S) \in S /\ \A y \in S : y <= Fs!Max(S)
<1> DEFINE R == {k \in 0 .. n : n - k \in S}
<1>1. R \in SUBSET Nat /\ n \in R
  OBVIOUS
<1>2. PICK k \in R : \A y \in R : k <= y
  <2>1. R # {}
    BY <1>1
  <2> HIDE DEF R
  <2> QED BY <1>1, <2>1, LeastExists
<1>3. n - k \in S
  BY <1>2
<1>4. ASSUME NEW y \in S PROVE y <= n - k
  <2>1. n - y \in R
    OBVIOUS
  <2>2. k <= n - y
    BY <1>2, <2>1
  <2> QED BY <2>2
<1>5. \E x \in S : \A y \in S : y <= x
  BY <1>3, <1>4
<1> QED BY <1>5 DEF Fs!Max

\* One name is at most two characters long.
LEMMA NameLengths ==
  ASSUME NEW s \in Seq(FileNames)
  PROVE  /\ Len(s) = 0 => Fs!LenOf(s) = 0
         /\ Len(s) = 1 => Fs!LenOf(s) \in Nat /\ Fs!LenOf(s) <= HeaderLen + 2
<1> DEFINE C == {i \in DOMAIN s : s[i] \in Long}
<1>1. \A S : Fs!Cardinality(S) = Cardinality(S)
  BY DEF Fs!Cardinality, Cardinality
<1>2. Fs!LenOf(s) = Len(s) * (HeaderLen + 1) + Cardinality(C)
  BY <1>1 DEF Fs!LenOf
<1>3. HeaderLen \in Nat
  BY FilesAssumption
<1>4. CASE Len(s) = 0
  <2>1. C = {}
    BY <1>4
  <2>2. Cardinality(C) = 0
    BY <2>1, FS_EmptySet
  <2> HIDE DEF C
  <2> QED BY <1>2, <1>3, <1>4, <2>2
<1>5. CASE Len(s) = 1
  <2>1. C = {} \/ C = {1}
    <3>1. DOMAIN s = {1}
      BY <1>5
    <3> QED BY <3>1
  <2>2. Cardinality(C) \in {0, 1}
    <3>1. Cardinality({}) = 0 /\ Cardinality({1}) = 1
      BY FS_EmptySet, FS_Singleton
    <3> HIDE DEF C
    <3> QED BY <2>1, <3>1
  <2> HIDE DEF C
  <2>3. Len(s) * (HeaderLen + 1) = HeaderLen + 1
    BY <1>3, <1>5
  <2> QED BY <1>2, <1>3, <2>2, <2>3, <1>5
<1> QED BY <1>4, <1>5

\* The entries of a page that the program gets whole: some names in their order, and at
\* least one if there is one and the buffer holds it.
LEMMA PageFacts ==
  ASSUME FilesTyped, NEW start \in Nat, NEW len \in Nat, NEW page, page = Fs!PageFrom(start, len)
  PROVE  /\ page.read \in Nat /\ page.whole \in Seq(FileNames)
         /\ page.whole = SubSeq(order, start + 1, start + Len(page.whole))
         /\ page.whole # << >> => start + Len(page.whole) <= Len(order)
         /\ start < Len(order) /\ len >= HeaderLen + 2 => page.whole # << >>
<1> DEFINE rest == SubSeq(order, start + 1, Len(order))
           K == {k \in 0 .. Len(rest) :
                   \A j \in 0 .. k - 1 : Fs!LenOf(SubSeq(rest, 1, j)) + HeaderLen <= len}
           taken == Fs!Max(K)
           names == SubSeq(rest, 1, taken)
           M == {k \in 0 .. taken : \A j \in 1 .. k : Fs!LenOf(SubSeq(names, 1, j)) <= len}
           m == Fs!Max(M)
<1>1. PICK n \in Nat : n = Len(order) /\ order \in Seq(FileNames) /\ DOMAIN order = 1 .. n
  BY DEF FilesTyped
<1>2. /\ rest \in Seq(FileNames) /\ Len(rest) = IF start < n THEN n - start ELSE 0
      /\ \A j \in 1 .. Len(rest) : rest[j] = order[start + j]
  <2>1. CASE start < n
    BY <1>1, <2>1
  <2>2. CASE start >= n
    BY <1>1, <2>2
  <2> QED BY <1>1, <2>1, <2>2
<1>3. PICK r \in Nat : r = Len(rest)
  BY <1>2
<1>4. page.whole = SubSeq(names, 1, m)
      /\ page.read = start + taken + IF Fs!LenOf(names) < len THEN 1 ELSE 0
  BY DEF Fs!PageFrom
<1> HIDE DEF rest
<1>5. taken \in 0 .. r /\ taken \in K /\ \A k \in K : k <= taken
  <2>1. K \in SUBSET (0 .. r) /\ 0 \in K
    BY <1>3
  <2> HIDE DEF K
  <2> QED BY <1>3, <2>1, GreatestIs
<1>6. HeaderLen \in Nat
  BY FilesAssumption
<1>7. r > 0 /\ len >= HeaderLen => taken >= 1
  <2> SUFFICES ASSUME r > 0, len >= HeaderLen PROVE 1 \in K
    BY <1>3, <1>5
  <2>1. SubSeq(rest, 1, 0) \in Seq(FileNames) /\ Len(SubSeq(rest, 1, 0)) = 0
    BY <1>2
  <2>2. Fs!LenOf(SubSeq(rest, 1, 0)) = 0
    BY <2>1, NameLengths
  <2> QED BY <1>3, <1>6, <2>2
<1> HIDE DEF K, taken
<1>8. /\ names \in Seq(FileNames) /\ Len(names) = taken
      /\ \A j \in 1 .. taken : names[j] = rest[j]
  BY <1>2, <1>3, <1>5
<1> HIDE DEF names
<1>9. m \in 0 .. taken /\ m \in M /\ \A k \in M : k <= m
  <2>1. M \in SUBSET (0 .. taken) /\ 0 \in M /\ taken \in Nat
    BY <1>3, <1>5
  <2> HIDE DEF M
  <2> QED BY <2>1, GreatestIs
<1>10. taken >= 1 /\ len >= HeaderLen + 2 => m >= 1
  <2> SUFFICES ASSUME taken >= 1, len >= HeaderLen + 2 PROVE 1 \in M
    BY <1>5, <1>9
  <2>1. SubSeq(names, 1, 1) \in Seq(FileNames) /\ Len(SubSeq(names, 1, 1)) = 1
    BY <1>3, <1>5, <1>8
  <2>2. Fs!LenOf(SubSeq(names, 1, 1)) \in Nat /\ Fs!LenOf(SubSeq(names, 1, 1)) <= HeaderLen + 2
    BY <2>1, NameLengths
  <2>3. \A j \in 1 .. 1 : Fs!LenOf(SubSeq(names, 1, j)) <= len
    BY <1>6, <2>2
  <2> QED BY <1>3, <1>5, <2>3
<1> HIDE DEF M, m
<1>11. /\ page.whole \in Seq(FileNames) /\ Len(page.whole) = m
       /\ \A j \in 1 .. m : page.whole[j] = order[start + j]
  <2>1. page.whole \in Seq(FileNames) /\ Len(page.whole) = m
        /\ \A j \in 1 .. m : page.whole[j] = names[j]
    BY <1>3, <1>4, <1>5, <1>8, <1>9
  <2>2. \A j \in 1 .. m : j \in 1 .. taken /\ j \in 1 .. Len(rest)
    BY <1>3, <1>5, <1>9
  <2> QED BY <1>2, <1>8, <2>1, <2>2
<1>12. m # 0 => start + m <= n
  BY <1>2, <1>3, <1>5, <1>9
<1>13. page.whole = SubSeq(order, start + 1, start + m)
  <2>1. CASE m = 0
    BY <1>1, <1>11, <2>1
  <2>2. CASE m # 0
    BY <1>1, <1>3, <1>5, <1>9, <1>11, <1>12, <2>2
  <2> QED BY <2>1, <2>2
<1>14. page.read \in Nat
  BY <1>3, <1>4, <1>5
<1>15. page.whole # << >> <=> m # 0
  BY <1>3, <1>5, <1>9, <1>11
<1>16. start < n => r > 0
  BY <1>2, <1>3
<1>17. start < n /\ len >= HeaderLen + 2 => page.whole # << >>
  <2> SUFFICES ASSUME start < n, len >= HeaderLen + 2 PROVE m # 0
    BY <1>15
  <2>1. taken >= 1
    BY <1>6, <1>7, <1>16
  <2> QED BY <1>9, <1>10, <2>1
<1> QED BY <1>1, <1>11, <1>12, <1>13, <1>14, <1>15, <1>17

\* The program opens the root and lists it from the start.
LEMMA ListStartKeeps ==
  ASSUME FilesInv, NEW own \in BOOLEAN, Fs!ListStart(own) PROVE FilesInv'
<1>1. PICK h \in Fs!Handles : h = Fs!Min(Fs!FreeHandles) /\ fhandle[h] = Fs!Unused /\ FilesTyped
  BY FreeHandle DEF FilesInv, Fs!ListStart
<1>2. PICK new \in DirHandles : new = Fs!NewDir("/")
  BY NewHandles
<1>3. /\ fhandle' = IF own THEN [fhandle EXCEPT ![h] = new] ELSE fhandle
      /\ listing' = [on |-> TRUE, via |-> IF own THEN h ELSE NHandles, cookie |-> 0, seen |-> << >>]
      /\ UNCHANGED <<order, dirs, file, saved>>
  BY <1>1, <1>2 DEF Fs!ListStart
<1>4. /\ fhandle' \in [Fs!Handles -> {Fs!Unused} \cup DirHandles \cup OpenFiles]
      /\ \A g \in Fs!Handles : /\ Fs!IsFile(g)' <=> Fs!IsFile(g)
                               /\ Fs!IsFile(g) => fhandle'[g] = fhandle[g]
      /\ own => fhandle'[h] \in DirHandles
  <2>1. CASE own
    <3>1. new \notin OpenFiles /\ new \in DirHandles \cup OpenFiles
      BY HandleKinds
    <3> QED BY <1>1, <1>3, <2>1, <3>1, OneHandle
  <2>2. CASE ~own
    BY <1>1, <1>3, <2>2 DEF FilesTyped, Fs!IsFile
  <2> QED BY <2>1, <2>2
<1>5. listing' \in Listings
  <2>1. NHandles \in 0 .. NHandles /\ h \in 0 .. NHandles
    BY FilesAssumption DEF Fs!Handles
  <2> QED BY <1>3, <2>1 DEF Listings
<1>6. FilesTyped'
  BY <1>1, <1>3, <1>4, <1>5 DEF FilesTyped, Fs!Present
<1>7. FilesOpen'
  BY <1>3, <1>4 DEF FilesInv, FilesOpen, Fs!Present
<1>8. FilesSaved'
  BY <1>3, <1>4 DEF FilesInv, FilesSaved
<1>9. FilesListed'
  <2>1. listing'.via = (IF own THEN h ELSE NHandles) /\ listing'.cookie = 0 /\ listing'.seen = << >>
    BY <1>3
  <2>2. NHandles \notin Fs!Handles
    BY FilesAssumption DEF Fs!Handles
  <2>3. 0 <= Len(order') /\ SubSeq(order', 1, 0) = << >>
    BY <1>6 DEF FilesTyped
  <2> QED BY <1>4, <2>1, <2>2, <2>3 DEF FilesListed
<1> QED BY <1>6, <1>7, <1>8, <1>9 DEF FilesInv

\* One page: where it starts, and what the program and its descriptor have after it.
PageTurned(start, page, len) ==
    /\ page = Fs!PageFrom(start, len)
    /\ listing \in Listings /\ len \in Nat /\ len >= HeaderLen + 2
    /\ listing.via = NHandles => start = listing.cookie
    /\ listing' = IF page.whole = << >> THEN Fs!NotListing
                  ELSE [listing EXCEPT !.cookie = @ + Len(page.whole), !.seen = @ \o page.whole]
    /\ IF listing.via \in Fs!Handles
       THEN /\ fhandle[listing.via] \in DirHandles
            /\ fhandle' = [fhandle EXCEPT ![listing.via].at = Fs!Min({page.read, Len(order)})]
       ELSE fhandle' = fhandle
    /\ UNCHANGED <<order, dirs, file, saved>>

LEMMA ListPageFacts ==
  ASSUME FilesInv, NEW len \in BufLens, Fs!ListPage(len)
  PROVE  \E start \in Nat : \E page : PageTurned(start, page, len)
<1> USE DEF PageTurned
<1>1. listing \in Listings /\ listing.on
  BY HandleKinds DEF Fs!ListPage, FilesInv, FilesTyped
<1>2. listing.via \in 0 .. NHandles /\ listing.cookie \in Nat
  BY <1>1 DEF Listings
<1>3. NHandles \notin Fs!Handles /\ len \in Nat
  BY FilesAssumption DEF Fs!Handles
<1>4. len >= HeaderLen + 2 /\ UNCHANGED <<order, dirs, file, saved>>
  BY DEF Fs!ListPage
<1>5. CASE listing.via \in Fs!Handles
  <2>1. fhandle[listing.via] \in DirHandles
    BY <1>1, <1>5 DEF FilesInv, FilesListed
  <2>2. PICK start \in Nat : start = fhandle[listing.via].at + listing.cookie
    BY <1>2, <2>1 DEF DirHandles
  <2>3. /\ listing' = IF Fs!PageFrom(start, len).whole = << >> THEN Fs!NotListing
                      ELSE [listing EXCEPT !.cookie = @ + Len(Fs!PageFrom(start, len).whole),
                                           !.seen = @ \o Fs!PageFrom(start, len).whole]
        /\ fhandle' = [fhandle EXCEPT ![listing.via].at =
                         Fs!Min({Fs!PageFrom(start, len).read, Len(order)})]
    BY <1>5, <2>2 DEF Fs!ListPage, Fs!Page
  <2>4. listing.via # NHandles
    BY <1>3, <1>5
  <2> QED BY <1>1, <1>3, <1>4, <1>5, <2>1, <2>3, <2>4
<1>6. CASE listing.via \notin Fs!Handles
  <2>1. 0 + listing.cookie = listing.cookie
    BY <1>2
  <2>2. /\ listing' = IF Fs!PageFrom(listing.cookie, len).whole = << >> THEN Fs!NotListing
                      ELSE [listing EXCEPT !.cookie = @ + Len(Fs!PageFrom(listing.cookie, len).whole),
                                           !.seen = @ \o Fs!PageFrom(listing.cookie, len).whole]
        /\ fhandle' = fhandle
    BY <1>6, <2>1 DEF Fs!ListPage, Fs!Page
  <2> QED BY <1>1, <1>2, <1>3, <1>4, <1>6, <2>2
<1> QED BY <1>5, <1>6

LEMMA ListPageKeeps ==
  ASSUME FilesInv, NEW len \in BufLens, Fs!ListPage(len) PROVE FilesInv'
<1> USE DEF PageTurned
<1>20. PICK start \in Nat : \E page : PageTurned(start, page, len)
  BY ListPageFacts
<1>1. PICK page : PageTurned(start, page, len)
  BY <1>20
<1>2. FilesTyped
  BY DEF FilesInv
<1>3. page.read \in Nat /\ page.whole \in Seq(FileNames)
  BY <1>1, <1>2, PageFacts
<1>4. PICK n \in Nat : n = Len(order) /\ order \in Seq(FileNames)
  BY <1>2 DEF FilesTyped
<1>5. PICK at \in Nat : at = Fs!Min({page.read, Len(order)})
  <2>1. PICK r \in Nat : r = page.read
    BY <1>3
  <2>2. Fs!Min({r, n}) = IF r <= n THEN r ELSE n
    BY FilesMin
  <2>3. Fs!Min({r, n}) \in Nat
    BY <2>2
  <2> QED BY <1>4, <2>1, <2>3
<1>14. PICK m \in Nat : m = Len(page.whole)
  BY <1>3
<1>15. /\ page.whole = SubSeq(order, start + 1, start + m)
       /\ page.whole # << >> => start + m <= n
  BY <1>1, <1>2, <1>4, <1>14, PageFacts
<1>6. /\ fhandle' \in [Fs!Handles -> {Fs!Unused} \cup DirHandles \cup OpenFiles]
      /\ \A g \in Fs!Handles : /\ Fs!IsFile(g)' <=> Fs!IsFile(g)
                               /\ Fs!IsFile(g) => fhandle'[g] = fhandle[g]
      /\ \A g \in Fs!Handles : fhandle[g] \in DirHandles => fhandle'[g] \in DirHandles
  <2>1. CASE listing.via \in Fs!Handles
    <3>1. PICK v \in Fs!Handles : v = listing.via
      BY <2>1
    <3>2. PICK new \in DirHandles : new = [fhandle[v] EXCEPT !.at = at]
      BY <1>1, <2>1, <3>1 DEF DirHandles
    <3>3. fhandle' = [fhandle EXCEPT ![v] = new]
      BY <1>1, <1>5, <2>1, <3>1, <3>2
    <3>4. fhandle \in [Fs!Handles -> {Fs!Unused} \cup DirHandles \cup OpenFiles] /\ fhandle[v] \in DirHandles
      BY <1>1, <1>2, <2>1, <3>1 DEF FilesTyped
    <3> QED BY <3>2, <3>3, <3>4, HandleKinds DEF Fs!IsFile
  <2>2. CASE listing.via \notin Fs!Handles
    BY <1>1, <1>2, <2>2 DEF FilesTyped, Fs!IsFile
  <2> QED BY <2>1, <2>2
<1>7. \/ listing' = Fs!NotListing
      \/ /\ page.whole # << >> /\ listing' \in Listings /\ listing'.via = listing.via
         /\ listing'.cookie = listing.cookie + Len(page.whole)
         /\ listing'.seen = listing.seen \o page.whole
  <2>1. CASE page.whole = << >>
    BY <1>1, <2>1
  <2>2. CASE page.whole # << >>
    <3>1. PICK k \in Nat : k = listing.cookie + m
      <4>1. listing.cookie \in Nat
        BY <1>1 DEF Listings
      <4> QED BY <4>1
    <3>2. PICK s \in Seq(FileNames) : s = listing.seen \o page.whole
      <4>1. listing.seen \in Seq(FileNames)
        BY <1>1 DEF Listings
      <4>2. listing.seen \o page.whole \in Seq(FileNames)
        BY <1>3, <4>1, ConcatProperties
      <4> QED BY <4>2
    <3>3. listing' = [listing EXCEPT !.cookie = k, !.seen = s]
      BY <1>1, <1>14, <2>2, <3>1, <3>2
    <3>4. listing \in Listings
      BY <1>1
    <3> QED BY <1>14, <2>2, <3>1, <3>2, <3>3, <3>4 DEF Listings
  <2> QED BY <2>1, <2>2
<1>8. FilesTyped'
  BY <1>1, <1>2, <1>6, <1>7 DEF FilesTyped, Fs!Present
<1>9. FilesOpen'
  BY <1>1, <1>6 DEF FilesInv, FilesOpen, Fs!Present
<1>10. FilesSaved'
  BY <1>1, <1>6 DEF FilesInv, FilesSaved
<1>11. FilesListed'
  <2>1. CASE listing' = Fs!NotListing
    BY <2>1, HandleKinds DEF FilesListed
  <2>2. CASE /\ page.whole # << >> /\ listing' \in Listings /\ listing'.via = listing.via
             /\ listing'.cookie = listing.cookie + Len(page.whole)
             /\ listing'.seen = listing.seen \o page.whole
    <3>1. listing.on
      BY <1>1, HandleKinds
    <3>2. listing.via \in Fs!Handles => fhandle'[listing.via] \in DirHandles
      BY <1>1, <1>6
    <3>3. ASSUME listing.via = NHandles
          PROVE  listing'.cookie <= Len(order) /\ listing'.seen = SubSeq(order, 1, listing'.cookie)
      <4>2. /\ listing.cookie = start /\ start + m <= n
            /\ listing.seen = SubSeq(order, 1, start)
            /\ page.whole = SubSeq(order, start + 1, start + m)
        BY <1>1, <1>15, <2>2, <3>1, <3>3 DEF FilesInv, FilesListed
      <4>3. SubSeq(order, 1, start) \o SubSeq(order, start + 1, start + m) = SubSeq(order, 1, start + m)
        BY <1>4, <4>2
      <4> QED BY <1>4, <1>14, <2>2, <4>2, <4>3
    <3> QED BY <1>1, <2>2, <3>2, <3>3 DEF FilesListed
  <2> QED BY <1>7, <2>1, <2>2
<1> QED BY <1>8, <1>9, <1>10, <1>11 DEF FilesInv

\* Every call keeps the invariant.
LEMMA FilesSteps ==
  ASSUME FilesInv, Fs!Next \/ UNCHANGED fileVars
  PROVE  FilesInv'
<1>1. CASE UNCHANGED fileVars
  BY <1>1, FilesAlone DEF fileVars
<1>2. ASSUME NEW n \in FileNames,
             Fs!PathOpenFails(n) \/ Fs!PathMkdir(n) \/ Fs!PathUnlink(n) \/ Fs!PathFilestat(n)
      PROVE  FilesInv'
  <2>1. CASE Fs!PathOpenFails(n) \/ Fs!PathFilestat(n)
    <3>1. UNCHANGED <<order, dirs, file, saved, fhandle, listing>>
      BY <2>1 DEF Fs!PathOpenFails, Fs!PathFilestat
    <3> QED BY <3>1, FilesAlone
  <2> QED BY <1>2, <2>1, PathMkdirKeeps, PathUnlinkKeeps
<1>3. ASSUME NEW h \in Fs!Handles, Fs!FdClose(h) \/ Fs!FdSync(h) \/ Fs!FdFilestat(h)
      PROVE  FilesInv'
  <2>1. CASE Fs!FdFilestat(h)
    <3>1. UNCHANGED <<order, dirs, file, saved, fhandle, listing>>
      BY <2>1 DEF Fs!FdFilestat
    <3> QED BY <3>1, FilesAlone
  <2> QED BY <1>3, <2>1, FdCloseKeeps, FdSyncKeeps
<1>4. ASSUME NEW n \in Opened, NEW w \in BOOLEAN, NEW c \in BOOLEAN, NEW t \in BOOLEAN,
             Fs!PathOpen(n, w, c, t)
      PROVE  FilesInv'
  BY <1>4, PathOpenKeeps
<1>5. ASSUME NEW m \in FileNames, NEW n \in FileNames, Fs!PathRename(m, n) PROVE FilesInv'
  BY <1>5, PathRenameKeeps
<1>6. ASSUME NEW h \in Fs!Handles, NEW len \in ReadLens, Fs!FdRead(h, len) PROVE FilesInv'
  BY <1>6, FdReadKeeps
<1>7. ASSUME NEW h \in Fs!Handles, NEW len \in ReadLens, NEW at \in Fs!Offsets, Fs!FdPread(h, at, len)
      PROVE  FilesInv'
  BY <1>7, FdPreadKeeps
<1>8. ASSUME NEW h \in Fs!Handles, NEW b \in Payload, Fs!FdWrite(h, <<b>>) PROVE FilesInv'
  BY <1>8, FdWriteKeeps
<1>9. ASSUME NEW h \in Fs!Handles, NEW b \in Payload, NEW at \in Fs!Offsets, Fs!FdPwrite(h, at, <<b>>)
      PROVE  FilesInv'
  BY <1>9, FdPwriteKeeps
<1>10. ASSUME NEW h \in Fs!Handles, NEW w \in {"set", "cur", "end"}, NEW by \in Fs!Offsets,
              Fs!FdSeek(h, w, by)
       PROVE  FilesInv'
  BY <1>10, FdSeekKeeps
<1>11. ASSUME NEW h \in Fs!Handles, NEW n \in Fs!Offsets, Fs!FdSetSize(h, n) PROVE FilesInv'
  BY <1>11, FdSetSizeKeeps
<1>12. ASSUME NEW own \in BOOLEAN, Fs!ListStart(own) PROVE FilesInv'
  BY <1>12, ListStartKeeps
<1>13. ASSUME NEW len \in BufLens, Fs!ListPage(len) PROVE FilesInv'
  BY <1>13, ListPageKeeps
<1>14. Fs!FileCall => FilesInv'
  BY ONLY <1>2, <1>3, <1>4, <1>5, <1>6, <1>7, <1>8, <1>9, <1>10, <1>11, Zenon DEF Fs!FileCall
<1> QED BY ONLY FilesInv, Fs!Next \/ UNCHANGED fileVars, <1>1, <1>12, <1>13, <1>14, Zenon DEF Fs!Next

\* The invariant is what the runs check.
LEMMA FilesSound == FilesInv => Fs!TypeOK /\ Fs!PositionInside /\ Fs!SavedWhenClosed
<1> SUFFICES ASSUME FilesInv PROVE Fs!TypeOK /\ Fs!PositionInside /\ Fs!SavedWhenClosed
  OBVIOUS
<1>1. FilesTyped /\ FilesOpen /\ FilesSaved /\ MaxSize \in Nat
  BY FilesAssumption DEF FilesInv
<1>2. Fs!Present \subseteq FileNames
  BY <1>1 DEF FilesTyped, Fs!Present, Fs!Range
<1>3. \A n \in FileNames : file[n] \in Seq(Payload \cup {Fs!Junk}) /\ saved[n] \in Fs!Offsets
  BY <1>1 DEF FilesTyped, FileBytes
<1>4. ASSUME NEW h \in Fs!Handles
      PROVE  \/ fhandle[h] = Fs!Unused
             \/ fhandle[h].type = "dir" /\ fhandle[h].at \in Nat
             \/ fhandle[h].type = "file" /\ fhandle[h].name \in Fs!Present /\ fhandle[h].pos \in Fs!Offsets
  <2>1. CASE Fs!IsFile(h)
    <3>1. fhandle[h].pos \in Nat /\ Len(file[fhandle[h].name]) \in 0 .. MaxSize
      BY <1>1, <2>1, FileHandle
    <3>2. fhandle[h].name \in Fs!Present /\ fhandle[h].pos <= Len(file[fhandle[h].name])
      BY <1>1, <2>1 DEF FilesOpen
    <3>3. fhandle[h].pos \in Fs!Offsets
      BY <1>1, <3>1, <3>2 DEF Fs!Offsets
    <3> QED BY <2>1, <3>2, <3>3 DEF Fs!IsFile
  <2>2. CASE ~Fs!IsFile(h) /\ fhandle[h] # Fs!Unused
    <3>1. fhandle[h] \in DirHandles
      BY <1>1, <2>2, FileHandle
    <3> QED BY <3>1 DEF DirHandles
  <2> QED BY <2>1, <2>2
<1>5. Fs!TypeOK
  BY <1>1, <1>2, <1>3, <1>4 DEF Fs!TypeOK, FilesTyped
<1>6. Fs!PositionInside
  BY <1>1 DEF FilesOpen, Fs!PositionInside, Fs!Size
<1>7. Fs!SavedWhenClosed
  BY <1>1, <1>2 DEF FilesSaved, Fs!SavedWhenClosed, Fs!Size, Fs!OpenOn
<1> QED BY <1>5, <1>6, <1>7

\* Which calls report bytes or entries.
LEMMA FileResults ==
  ASSUME Fs!Next
  PROVE  \/ result'.call \in {"none", "stat"}
         \/ \E own \in BOOLEAN : Fs!ListStart(own)
         \/ \E len \in BufLens : Fs!ListPage(len)
         \/ \E h \in Fs!Handles, len \in ReadLens, at \in Fs!Offsets : Fs!FdPread(h, at, len)
<1> DEFINE Other == result'.call \in {"none", "stat"}
<1>1. result' = Fs!NoResult => Other
  BY DEF Fs!NoResult
<1>2. ASSUME NEW n \in FileNames,
             Fs!PathOpenFails(n) \/ Fs!PathMkdir(n) \/ Fs!PathUnlink(n) \/ Fs!PathFilestat(n)
      PROVE  Other
  BY <1>1, <1>2 DEF Fs!PathOpenFails, Fs!PathMkdir, Fs!PathUnlink, Fs!PathFilestat
<1>3. ASSUME NEW h \in Fs!Handles, Fs!FdClose(h) \/ Fs!FdSync(h) \/ Fs!FdFilestat(h)
      PROVE  Other
  BY <1>1, <1>3 DEF Fs!FdClose, Fs!FdSync, Fs!FdFilestat
<1>4. ASSUME NEW n \in Opened, NEW w \in BOOLEAN, NEW c \in BOOLEAN, NEW t \in BOOLEAN,
             Fs!PathOpen(n, w, c, t)
      PROVE  Other
  BY <1>1, <1>4 DEF Fs!PathOpen
<1>5. ASSUME NEW m \in FileNames, NEW n \in FileNames, Fs!PathRename(m, n) PROVE Other
  BY <1>1, <1>5 DEF Fs!PathRename
<1>6. ASSUME NEW h \in Fs!Handles, NEW len \in ReadLens, Fs!FdRead(h, len) PROVE Other
  BY <1>1, <1>6 DEF Fs!FdRead
<1>7. ASSUME NEW h \in Fs!Handles, NEW b \in Payload, Fs!FdWrite(h, <<b>>) PROVE Other
  BY <1>1, <1>7 DEF Fs!FdWrite
<1>8. ASSUME NEW h \in Fs!Handles, NEW b \in Payload, NEW at \in Fs!Offsets, Fs!FdPwrite(h, at, <<b>>)
      PROVE  Other
  BY <1>1, <1>8 DEF Fs!FdPwrite
<1>9. ASSUME NEW h \in Fs!Handles, NEW w \in {"set", "cur", "end"}, NEW by \in Fs!Offsets,
             Fs!FdSeek(h, w, by)
      PROVE  Other
  BY <1>1, <1>9 DEF Fs!FdSeek
<1>10. ASSUME NEW h \in Fs!Handles, NEW n \in Fs!Offsets, Fs!FdSetSize(h, n) PROVE Other
  BY <1>1, <1>10 DEF Fs!FdSetSize
<1> HIDE DEF Other
<1>11. Fs!FileCall => \/ Other
                      \/ \E h \in Fs!Handles, len \in ReadLens, at \in Fs!Offsets : Fs!FdPread(h, at, len)
  BY ONLY <1>2, <1>3, <1>4, <1>5, <1>6, <1>7, <1>8, <1>9, <1>10, Zenon DEF Fs!FileCall
<1>12. \/ Other
       \/ \E own \in BOOLEAN : Fs!ListStart(own)
       \/ \E len \in BufLens : Fs!ListPage(len)
       \/ \E h \in Fs!Handles, len \in ReadLens, at \in Fs!Offsets : Fs!FdPread(h, at, len)
  BY ONLY Fs!Next, <1>11, Zenon DEF Fs!Next
<1> QED BY <1>12 DEF Other

\* A read at an offset: what it returns, and what it leaves alone.
LEMMA PreadStep ==
  ASSUME FilesInv, Fs!Next \/ UNCHANGED fileVars, result' # result, result'.call = "pread"
  PROVE  LET n == fhandle[result'.h].name IN
         /\ fhandle' = fhandle
         /\ result'.got = Fs!ReadAt(file'[n], Fs!Min({result'.at, Len(file'[n])}), result'.len)
         /\ Fs!IsPrefix(file[n], file'[n])
         /\ file' # file => fhandle[result'.h].write /\ result'.at > Fs!Size(n)
<1>1. PICK h \in Fs!Handles, len \in ReadLens, at \in Fs!Offsets : Fs!FdPread(h, at, len)
  <2>1. Fs!Next
    BY DEF fileVars
  <2>2. result'.call \notin {"none", "stat"}
    OBVIOUS
  <2>3. \A own \in BOOLEAN : ~Fs!ListStart(own)
    BY DEF Fs!ListStart
  <2>4. \A len \in BufLens : ~Fs!ListPage(len)
    BY DEF Fs!ListPage
  <2> QED BY <2>1, <2>2, <2>3, <2>4, FileResults
<1>2. PICK n : n = fhandle[h].name
  OBVIOUS
<1>3. PICK new : new = Fs!SeekBytes(h, at)
  OBVIOUS
<1>4. /\ Fs!IsFile(h) /\ file' = [file EXCEPT ![n] = new] /\ fhandle' = fhandle
      /\ result'.h = h /\ result'.at = at /\ result'.len = len
      /\ result'.got = Fs!ReadAt(new, Fs!SeekPos(h, at), len)
  BY <1>1, <1>2, <1>3 DEF Fs!FdPread
<1>5. n \in FileNames /\ file \in [FileNames -> Seq(FileBytes)] /\ Len(file[n]) \in Nat /\ at \in Nat
      /\ fhandle[h].write \in BOOLEAN
  BY <1>2, <1>4, FileHandle, FilesAssumption DEF FilesInv, FilesTyped, Fs!Offsets
<1>6. /\ Len(new) \in Nat /\ Fs!SeekPos(h, at) <= Len(new)
      /\ fhandle[h].write \/ new = file[n]
      /\ fhandle[h].write => Fs!SeekPos(h, at) = at
      /\ ~fhandle[h].write => Fs!SeekPos(h, at) = Fs!Min({at, Len(file[n])})
      /\ new # file[n] => at > Len(file[n])
      /\ Fs!IsPrefix(file[n], new)
  <2>1. \A k \in 0 .. MaxSize : k \in Nat
    OBVIOUS
  <2> QED BY <1>2, <1>3, <1>4, <2>1, SeekFacts
<1>7. file'[n] = new
  BY <1>4, <1>5
<1>8. Fs!SeekPos(h, at) = Fs!Min({at, Len(new)})
  <2>1. CASE fhandle[h].write
    <3>1. at <= Len(new)
      BY <1>6, <2>1
    <3>2. Fs!Min({at, Len(new)}) = at
      BY <1>5, <1>6, <3>1, FilesMin
    <3> QED BY <1>6, <2>1, <3>2
  <2>2. CASE ~fhandle[h].write
    BY <1>6, <2>2
  <2> QED BY <2>1, <2>2
<1>9. file' # file => new # file[n]
  BY <1>4, <1>5
<1> QED BY <1>2, <1>4, <1>6, <1>7, <1>8, <1>9 DEF Fs!Size

\* A listing ends with a page when there is nothing left behind its cookie.
LEMMA ListedStep ==
  ASSUME FilesInv, Fs!Next \/ UNCHANGED fileVars,
         listing.on, listing.via = NHandles, ~listing'.on, result'.call = "readdir"
  PROVE  listing.seen = order
<1>1. PICK len \in BufLens : Fs!ListPage(len)
  <2>1. Fs!Next
    BY DEF fileVars
  <2>2. result'.call \notin {"none", "stat"}
    OBVIOUS
  <2>3. \A own \in BOOLEAN : ~Fs!ListStart(own)
    BY DEF Fs!ListStart
  <2>4. \A h \in Fs!Handles, m \in ReadLens, at \in Fs!Offsets : ~Fs!FdPread(h, at, m)
    BY DEF Fs!FdPread
  <2> QED BY <2>1, <2>2, <2>3, <2>4, FileResults
<1> USE DEF PageTurned
<1>20. PICK start \in Nat : \E page : PageTurned(start, page, len)
  BY <1>1, ListPageFacts
<1>2. PICK page : PageTurned(start, page, len)
  BY <1>20
<1>3. page.whole = << >>
  <2>1. ASSUME page.whole # << >> PROVE listing'.on = listing.on
    BY <1>2, <2>1 DEF Listings
  <2> QED BY <2>1
<1>4. PICK n \in Nat : n = Len(order) /\ order \in Seq(FileNames)
  BY DEF FilesInv, FilesTyped
<1>5. ~(start < n)
  BY <1>2, <1>3, <1>4, PageFacts DEF FilesInv
<1>6. listing.cookie <= n /\ listing.seen = SubSeq(order, 1, listing.cookie) /\ start = listing.cookie
  BY <1>2, <1>4 DEF FilesInv, FilesListed
<1>7. listing.cookie = n
  BY <1>5, <1>6
<1>8. SubSeq(order, 1, n) = order
  BY <1>4
<1> QED BY <1>6, <1>7, <1>8

-------------------------------------------------------------------------------
(* The parts side by side (Io)                                              *)

\* A step of another part leaves files and sockets alone.
LEMMA HandleParts ==
  ASSUME [IoNext]_ioVars
  PROVE  (Fs!Next \/ UNCHANGED fileVars) /\ (Net!Next \/ UNCHANGED sockVars)
BY DEF IoNext, FileStep, SockStep, DiskStep, CardStep, DnsStep, EchoStep, WebStep, DeskStep,
       QueueStep, ioVars

LEMMA FilesInvariant == IoSpec => []FilesInv
<1>1. IoInit => FilesInv
  BY FilesInit DEF IoInit
<1>2. FilesInv /\ [IoNext]_ioVars => FilesInv'
  BY HandleParts, FilesSteps
<1> QED BY <1>1, <1>2, PTL DEF IoSpec

LEMMA NetInvariant == IoSpec => []NetInv
<1>1. IoInit => NetInv
  BY NetInit DEF IoInit
<1>2. NetInv /\ [IoNext]_ioVars => NetInv'
  BY HandleParts, NetSteps
<1> QED BY <1>1, <1>2, PTL DEF IoSpec

\* Whatever fails or interleaves, as long as no slot is taken inside another call's window: every
\* socket in use is named by exactly one handle, accept queue or half-done call, lwIP calls back
\* with the socket that holds the connection, no receive buffer or control block leaks, and a
\* program reads its own connection's bytes in order (net_socket.c:39-400, vfs.c:109-132).
THEOREM SocketsAreOwned == IoSpec => []SocketsOwned
<1>1. NetInv => SocketsOwned
  BY NetSound DEF SocketsOwned
<1> QED BY <1>1, NetInvariant, PTL

\* No descriptor stands past the end of its file, however the file is cut, grown, renamed or
\* removed between two calls, and a directory entry that does not have the size of its file
\* belongs to one that is open for writing (vfs.c:97-477, wasi.c:960-1116).
THEOREM FilesAreKept == IoSpec => []FilesKept
<1>1. FilesInv => FilesKept
  BY FilesSound DEF FilesKept
<1> QED BY <1>1, FilesInvariant, PTL

\* A read at an offset returns the bytes there and moves no descriptor, and paging through the
\* root by cookies shows every entry once and in order, whatever the sizes of the buffers
\* (wasi.c:1054-1188).
THEOREM ReadsAreExact == IoSpec => ReadsExact
<1>1. FilesInv /\ [IoNext]_ioVars =>
        [result' # result /\ result'.call = "pread" =>
            LET n == fhandle[result'.h].name IN
            /\ fhandle' = fhandle
            /\ result'.got = Fs!ReadAt(file'[n], Fs!Min({result'.at, Len(file'[n])}), result'.len)
            /\ Fs!IsPrefix(file[n], file'[n])
            /\ file' # file => fhandle[result'.h].write /\ result'.at > Fs!Size(n)]_(Fs!vars)
  BY HandleParts, PreadStep
<1>2. FilesInv /\ [IoNext]_ioVars =>
        [listing.on /\ listing.via = NHandles /\ ~listing'.on /\ result'.call = "readdir"
            => listing.seen = order]_(Fs!vars)
  BY HandleParts, ListedStep
<1> QED BY <1>1, <1>2, FilesInvariant, PTL DEF IoSpec, ReadsExact, Fs!PreadPure, Fs!ListedAll
=================================================================================
