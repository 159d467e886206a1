------------------------------ MODULE Sockets ------------------------------
(***************************************************************************)
(* The socket table of net_socket.c under the socket calls of wasi.c and   *)
(* the socket handles of vfs.c.  lwIP (external) is a pool of protocol     *)
(* control blocks; what arrives for one calls back with the socket number  *)
(* it was given as argument, from whichever thread polls the network.      *)
(*                                                                         *)
(* Interrupts stay enabled in net_socket.c: a thread can lose the CPU      *)
(* between finding a free slot and taking it, and between giving up a slot *)
(* and releasing what it held.  A slot taken by another in one of these    *)
(* windows is recorded in "overlapped".                                    *)
(***************************************************************************)
EXTENDS Naturals, Sequences, SequencesExt, FiniteSetsExt

CONSTANTS Threads,
          NSockets,     \* NET_MAX_SOCKETS
          NHandles,     \* VFS_MAX_HANDLES
          NPcbs,        \* control blocks lwIP has
          QueueLen,     \* places in accept_queue
          BufSize,      \* NET_SOCKET_BUF_SIZE
          Types,        \* subset of {"tcp", "udp"}
          Vectors,      \* scatter lists of wasi_sock_send
          MaxBytes      \* bound: bytes each way on a connection

VARIABLES sock,         \* g_sockets
          pcb,          \* lwIP's control blocks
          handle,       \* socket handles: the socket, or NoSock
          buffers,      \* receive buffers allocated on the heap
          pc,           \* what each thread is in the middle of
          overlapped

vars == <<sock, pcb, handle, buffers, pc, overlapped>>

Socks == 0 .. NSockets - 1
NoSock == NSockets
Handles == 0 .. NHandles - 1
Pcbs == 1 .. NPcbs
NoPcb == 0

(* read, wire, dropped and cut are history: the bytes the program got and
   sent, whether arriving bytes found the buffer full, and whether a list of
   buffers was cut in one that was not its last. *)
Blank == [used |-> FALSE, type |-> "tcp", state |-> "closed", pcb |-> NoPcb,
          queue |-> << >>, buf |-> FALSE, rx |-> << >>,
          read |-> << >>, wire |-> << >>, dropped |-> FALSE, cut |-> FALSE]
FreePcb == [state |-> "free", arg |-> NoSock, arrived |-> 0]
Idle == [at |-> "idle"]

FreeSlots == {s \in Socks : ~sock[s].used}
FreePcbs == {p \in Pcbs : pcb[p].state = "free"}
FreeHandles == {h \in Handles : handle[h] = NoSock}
Taken(s) == [Blank EXCEPT !.used = TRUE]
Clashes(s) == \E t \in Threads : pc[t].at \in {"found", "marked"} /\ pc[t].sock = s

Init ==
    /\ sock = [s \in Socks |-> Blank]
    /\ pcb = [p \in Pcbs |-> FreePcb]
    /\ handle = [h \in Handles |-> NoSock]
    /\ buffers = 0
    /\ pc = [t \in Threads |-> Idle]
    /\ overlapped = FALSE
-----------------------------------------------------------------------------
(* wasi_sock_open: allocate_socket_slot finds a slot and takes it;
   net_socket_create gets a buffer and a control block, each of which may
   fail; the handle may fail too, and the socket is closed again. *)
OpenFind(t) ==
    /\ pc[t] = Idle
    /\ FreeSlots # {}
    /\ pc' = [pc EXCEPT ![t] = [at |-> "found", sock |-> Min(FreeSlots)]]
    /\ UNCHANGED <<sock, pcb, handle, buffers, overlapped>>

OpenTake(t) ==
    /\ pc[t].at = "found"
    /\ LET s == pc[t].sock IN
       /\ sock' = [sock EXCEPT ![s] = Taken(s)]
       /\ overlapped' = (overlapped \/ \E u \in Threads \ {t} :
                            pc[u].at \in {"found", "taken", "marked"} /\ pc[u].sock = s)
       /\ pc' = [pc EXCEPT ![t] = [at |-> "taken", sock |-> s]]
    /\ UNCHANGED <<pcb, handle, buffers>>

OpenNoBuffer(t) ==
    /\ pc[t].at = "taken"
    /\ sock' = [sock EXCEPT ![pc[t].sock].used = FALSE]
    /\ pc' = [pc EXCEPT ![t] = Idle]
    /\ UNCHANGED <<pcb, handle, buffers, overlapped>>

(* The buffer is freed, the pointer stays in the unused slot. *)
OpenNoPcb(t) ==
    /\ pc[t].at = "taken"
    /\ sock' = [sock EXCEPT ![pc[t].sock].used = FALSE, ![pc[t].sock].buf = TRUE]
    /\ pc' = [pc EXCEPT ![t] = Idle]
    /\ UNCHANGED <<pcb, handle, buffers, overlapped>>

OpenDone(t, type) ==
    LET s == pc[t].sock
        p == Min(FreePcbs)
    IN  /\ pc[t].at = "taken"
        /\ FreePcbs # {}
        /\ sock' = [sock EXCEPT ![s].type = type, ![s].pcb = p, ![s].buf = TRUE]
        /\ pcb' = [pcb EXCEPT ![p].state = "new"]
        /\ buffers' = buffers + 1
        /\ IF FreeHandles # {}
           THEN /\ handle' = [handle EXCEPT ![Min(FreeHandles)] = s]
                /\ pc' = [pc EXCEPT ![t] = Idle]
           ELSE /\ pc' = [pc EXCEPT ![t] = [at |-> "closing", sock |-> s]]
                /\ UNCHANGED handle
        /\ UNCHANGED overlapped

(* Calls of a program on a handle of its own. *)
Bind(t, h) ==
    LET s == handle[h] IN
    /\ pc[t] = Idle /\ s # NoSock
    /\ sock[s].used /\ sock[s].pcb # NoPcb
    /\ pcb[sock[s].pcb].state = "new"
    /\ sock' = [sock EXCEPT ![s].state = "bound"]
    /\ UNCHANGED <<pcb, handle, buffers, pc, overlapped>>

Listen(t, h) ==
    LET s == handle[h] IN
    /\ pc[t] = Idle /\ s # NoSock
    /\ sock[s].used /\ sock[s].type = "tcp" /\ sock[s].state = "bound"
    /\ sock' = [sock EXCEPT ![s].state = "listening", ![s].queue = << >>]
    /\ pcb' = [pcb EXCEPT ![sock[s].pcb].state = "listen", ![sock[s].pcb].arg = s]
    /\ UNCHANGED <<handle, buffers, pc, overlapped>>

Connect(t, h, ok) ==
    LET s == handle[h] IN
    /\ pc[t] = Idle /\ s # NoSock
    /\ sock[s].used /\ sock[s].type = "tcp" /\ sock[s].state = "closed"
    /\ sock[s].pcb # NoPcb
    /\ sock' = [sock EXCEPT ![s].state = IF ok THEN "connecting" ELSE "error"]
    /\ pcb' = [pcb EXCEPT ![sock[s].pcb].state = IF ok THEN "syn" ELSE @, ![sock[s].pcb].arg = s]
    /\ UNCHANGED <<handle, buffers, pc, overlapped>>

(* The child leaves the queue and gets a handle, or is closed. *)
Accept(t, h) ==
    LET s == handle[h] IN
    /\ pc[t] = Idle /\ s # NoSock
    /\ sock[s].used /\ sock[s].state = "listening" /\ sock[s].queue # << >>
    /\ sock' = [sock EXCEPT ![s].queue = Tail(@)]
    /\ IF FreeHandles # {}
       THEN /\ handle' = [handle EXCEPT ![Min(FreeHandles)] = Head(sock[s].queue)]
            /\ UNCHANGED pc
       ELSE /\ pc' = [pc EXCEPT ![t] = [at |-> "closing", sock |-> Head(sock[s].queue)]]
            /\ UNCHANGED handle
    /\ UNCHANGED <<pcb, buffers, overlapped>>

(* net_socket_recv: what is in the buffer, up to the length asked for. *)
Recv(t, h, len) ==
    LET s == handle[h]
        n == Min({len, Len(sock[s].rx)})
    IN  /\ pc[t] = Idle /\ s # NoSock
        /\ sock[s].used /\ sock[s].rx # << >>
        /\ sock' = [sock EXCEPT ![s].read = @ \o SubSeq(sock[s].rx, 1, n),
                                ![s].rx = SubSeq(@, n + 1, Len(@))]
        /\ UNCHANGED <<pcb, handle, buffers, pc, overlapped>>

(* wasi_sock_send: every buffer of the list goes out as far as there is room,
   and polls; only a buffer of which nothing goes out ends the loop.  room
   gives the free space that each buffer finds. *)
Fits(vec, room, i) == Min({vec[i], room[i]})
Before(vec, i) == FoldSeq(LAMBDA n, sum : n + sum, 0, SubSeq(vec, 1, i - 1))
Reached(vec, room) == {i \in DOMAIN vec : \A j \in 1 .. i : room[j] > 0}
\* A slip, for Outgoing.
OutgoingFromStart(next, vec, room) ==
    FlattenSeq([i \in 1 .. Cardinality(Reached(vec, room)) |->
                   [k \in 1 .. Fits(vec, room, i) |-> next + k]])

Outgoing(next, vec, room) ==
    FlattenSeq([i \in 1 .. Cardinality(Reached(vec, room)) |->
                   [k \in 1 .. Fits(vec, room, i) |-> next + Before(vec, i) + k]])
Cuts(vec, room) ==
    \E i \in Reached(vec, room) : Fits(vec, room, i) < vec[i] /\ i + 1 \in Reached(vec, room)

Send(t, h, vec, room) ==
    LET s == handle[h]
        out == Outgoing(Len(sock[s].wire), vec, room)
    IN  /\ pc[t] = Idle /\ s # NoSock
        /\ sock[s].used /\ sock[s].state = "connected" /\ sock[s].pcb # NoPcb
        /\ ~sock[s].cut
        /\ Len(sock[s].wire) + Len(out) <= MaxBytes
        /\ sock' = [sock EXCEPT ![s].wire = @ \o out, ![s].cut = Cuts(vec, room)]
        /\ UNCHANGED <<pcb, handle, buffers, pc, overlapped>>

(* vfs_close frees the handle; net_socket_close gives up the slot and then
   releases what the slot holds at that time. *)
Close(t, h) ==
    /\ pc[t] = Idle /\ handle[h] # NoSock
    /\ handle' = [handle EXCEPT ![h] = NoSock]
    /\ pc' = [pc EXCEPT ![t] = [at |-> "closing", sock |-> handle[h]]]
    /\ UNCHANGED <<sock, pcb, buffers, overlapped>>

CloseMark(t) ==
    /\ pc[t].at = "closing"
    /\ IF sock[pc[t].sock].used
       THEN /\ sock' = [sock EXCEPT ![pc[t].sock].used = FALSE]
            /\ pc' = [pc EXCEPT ![t].at = "marked"]
       ELSE /\ pc' = [pc EXCEPT ![t] = Idle]
            /\ UNCHANGED sock
    /\ UNCHANGED <<pcb, handle, buffers, overlapped>>

Children(s) ==
    IF sock[s].type = "tcp" /\ sock[s].state = "listening" THEN Range(sock[s].queue) ELSE {}
Released(s) == {s} \cup {c \in Children(s) : sock[c].used}
Dropped(s) == [sock[s] EXCEPT !.used = IF s \in FreeSlots THEN FALSE ELSE @,
                              !.pcb = NoPcb, !.buf = FALSE, !.queue = << >>]

\* A slip, for CloseRelease.
CloseReleaseAttached(t) ==
    LET s == pc[t].sock
        gone == Released(s)
    IN  /\ pc[t].at = "marked"
        /\ sock' = [c \in Socks |->
                       IF c = s THEN Dropped(c)
                       ELSE IF c \in gone THEN [Dropped(c) EXCEPT !.used = FALSE] ELSE sock[c]]
        /\ buffers' = buffers - Cardinality({c \in gone : sock[c].buf})
        /\ pc' = [pc EXCEPT ![t] = Idle]
        /\ UNCHANGED <<pcb, handle, overlapped>>

CloseRelease(t) ==
    LET s == pc[t].sock
        gone == Released(s)
    IN  /\ pc[t].at = "marked"
        /\ sock' = [c \in Socks |->
                       IF c = s THEN Dropped(c)
                       ELSE IF c \in gone THEN [Dropped(c) EXCEPT !.used = FALSE] ELSE sock[c]]
        /\ pcb' = [p \in Pcbs |-> IF \E c \in gone : sock[c].pcb = p THEN FreePcb ELSE pcb[p]]
        /\ buffers' = buffers - Cardinality({c \in gone : sock[c].buf})
        /\ pc' = [pc EXCEPT ![t] = Idle]
        /\ UNCHANGED <<handle, overlapped>>
-----------------------------------------------------------------------------
(* What arrives.  A callback looks up the socket by its argument. *)
Called(p) == pcb[p].arg \in Socks /\ sock[pcb[p].arg].used

(* tcp_accept_callback: no room in the queue, no slot or no buffer refuses
   the connection, and lwIP frees its control block.  lwIP calls back without
   a control block when it has none left; the callback does not look, and
   queues a connected socket that has no connection. *)
Incoming(p, buffer) ==
    LET s == pcb[p].arg
        c == Min(FreeSlots)
        q == IF FreePcbs = {} THEN NoPcb ELSE Min(FreePcbs)
    IN  /\ pcb[p].state = "listen" /\ Called(p)
        /\ Len(sock[s].queue) < QueueLen
        /\ FreeSlots # {}
        /\ overlapped' = (overlapped \/ Clashes(c))
        /\ IF buffer
           THEN /\ sock' = [sock EXCEPT
                       ![c] = [Taken(c) EXCEPT !.state = "connected", !.pcb = q, !.buf = TRUE],
                       ![s].queue = Append(@, c)]
                /\ pcb' = [x \in Pcbs |-> IF x = q THEN [state |-> "open", arg |-> c, arrived |-> 0]
                                         ELSE pcb[x]]
                /\ buffers' = buffers + 1
           ELSE /\ sock' = [sock EXCEPT ![c] = [Blank EXCEPT !.state = "connected", !.pcb = q]]
                /\ UNCHANGED <<pcb, buffers>>
        /\ UNCHANGED <<handle, pc>>

Connected(p) ==
    /\ pcb[p].state = "syn" /\ Called(p)
    /\ pcb' = [pcb EXCEPT ![p].state = "open"]
    /\ sock' = [sock EXCEPT ![pcb[p].arg].state = "connected"]
    /\ UNCHANGED <<handle, buffers, pc, overlapped>>

(* tcp_recv_callback keeps what fits and acknowledges it; lwIP has taken the
   segment from the stream either way. *)
Arrive(p, n) ==
    LET s == pcb[p].arg
        k == Min({n, BufSize - Len(sock[s].rx)})
    IN  /\ pcb[p].state = "open" /\ Called(p)
        /\ pcb[p].arrived + n <= MaxBytes
        /\ pcb' = [pcb EXCEPT ![p].arrived = @ + n]
        /\ sock' = [sock EXCEPT ![s].rx = @ \o [i \in 1 .. k |-> pcb[p].arrived + i],
                                ![s].dropped = @ \/ k < n]
        /\ UNCHANGED <<handle, buffers, pc, overlapped>>

Finished(p) ==
    /\ pcb[p].state = "open" /\ Called(p)
    /\ pcb' = [pcb EXCEPT ![p].state = "half"]
    /\ sock' = [sock EXCEPT ![pcb[p].arg].state = "error"]
    /\ UNCHANGED <<handle, buffers, pc, overlapped>>

(* tcp_err_callback: lwIP has freed the control block; used is not looked at. *)
Failed(p) ==
    /\ pcb[p].state \in {"syn", "open", "half"}
    /\ pcb' = [pcb EXCEPT ![p] = FreePcb]
    /\ sock' = [sock EXCEPT ![pcb[p].arg].state = "error", ![pcb[p].arg].pcb = NoPcb]
    /\ UNCHANGED <<handle, buffers, pc, overlapped>>

Event ==
    \E p \in Pcbs :
       \/ Connected(p) \/ Finished(p) \/ Failed(p)
       \/ \E b \in BOOLEAN : Incoming(p, b)
       \/ \E n \in 1 .. 2 : Arrive(p, n)

Call(t) ==
    \/ OpenFind(t) \/ OpenTake(t) \/ OpenNoBuffer(t) \/ OpenNoPcb(t)
    \/ \E type \in Types : OpenDone(t, type)
    \/ CloseMark(t) \/ CloseRelease(t)
    \/ \E h \in Handles :
          \/ Bind(t, h) \/ Listen(t, h) \/ Accept(t, h) \/ Close(t, h)
          \/ \E ok \in BOOLEAN : Connect(t, h, ok)
          \/ \E n \in 1 .. 2 : Recv(t, h, n)
          \/ \E vec \in Vectors : \E room \in [DOMAIN vec -> 0 .. 2] : Send(t, h, vec, room)

(* Past an overlap, which gives a slot two owners, nothing is explored. *)
Next ==
    \/ ~overlapped /\ (Event \/ \E t \in Threads : Call(t))
    \/ overlapped /\ UNCHANGED vars

Spec == Init /\ [][Next]_vars
-----------------------------------------------------------------------------
TypeOK ==
    /\ \A s \in Socks : sock[s].pcb \in Pcbs \cup {NoPcb} /\ sock[s].queue \in Seq(Socks)
    /\ \A p \in Pcbs : pcb[p].arg \in Socks \cup {NoSock}
    /\ handle \in [Handles -> Socks \cup {NoSock}]
    /\ buffers \in Nat

(* Who answers for a slot: the handle, accept queue or half-done call that
   names it. *)
NamedBy(s) ==
    {<<"handle", h>> : h \in {h \in Handles : handle[h] = s}}
    \cup {<<"queue", q>> : q \in {q \in Socks : sock[q].used /\ s \in Range(sock[q].queue)}}
    \cup {<<"call", t>> : t \in {t \in Threads : pc[t].at \in {"taken", "closing", "marked"} /\ pc[t].sock = s}}
    \cup {<<"parent", t>> : t \in {t \in Threads : pc[t].at = "marked" /\ s \in Children(pc[t].sock)}}

(* Every socket in use is somebody's, and only one's: no call, failure or
   callback leaves one without an owner or gives it two
   (net_socket.c:39-356, vfs.c:109-132). *)
OneOwner ==
    ~overlapped => \A s \in Socks : sock[s].used => Cardinality(NamedBy(s)) = 1

(* lwIP calls back for a connection with the number of the socket that holds
   it, however often slots and control blocks are reused: no late event of a
   closed connection reaches the slot's next socket
   (net_socket.c:113-251, 318-400). *)
CallbackFits ==
    ~overlapped =>
        \A p \in Pcbs : pcb[p].arg # NoSock => sock[pcb[p].arg].pcb = p

(* Receive buffers and control blocks are the sockets': none leaks on a
   failed or refused open, and none is freed twice
   (net_socket.c:50-87, 133-137, 335-355). *)
NothingLeaks ==
    ~overlapped =>
        LET holding == {s \in Socks : sock[s].used \/ \E t \in Threads : pc[t].at = "marked" /\ pc[t].sock = s}
        IN  /\ buffers = Cardinality({s \in holding : sock[s].buf})
            /\ \A p \in Pcbs : pcb[p].state # "free" => \E s \in holding : sock[s].pcb = p

(* A program reads its own connection's bytes, in order, and all of them
   unless the buffer was full when they arrived (net_socket.c:284-390). *)
OwnBytes ==
    ~overlapped => \A s \in Socks : sock[s].used =>
        LET all == sock[s].read \o sock[s].rx IN
        /\ \A i, j \in DOMAIN all : i < j => all[i] < all[j]
        /\ ~sock[s].dropped => \A i \in DOMAIN all : all[i] = i
        /\ sock[s].pcb # NoPcb /\ ~sock[s].dropped => Len(all) = pcb[sock[s].pcb].arrived

(* What goes out is what the program passed, in order and without a gap,
   unless a list of buffers was cut before its last one (wasi.c:1672-1706). *)
SentInOrder ==
    \A s \in Socks : ~sock[s].cut => \A i \in DOMAIN sock[s].wire : sock[s].wire[i] = i
=============================================================================
