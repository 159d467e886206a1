-------------------------------- MODULE MCIo --------------------------------
(***************************************************************************)
(* Files, sockets, the disk, the network card, what the kernel does over   *)
(* the network for programs, the PS/2 devices and the input queue.  They   *)
(* share no state here: a behaviour exercises one part.                    *)
(***************************************************************************)
EXTENDS Io, TLC

VARIABLES part,
          server, received, page

(* Empty; one byte; line ends inside; a first line like a chunk size; the
   last chunk inside a chunk; sizes above nine; the header line of chunks quoted, in a
   line of its own and not, and the word alone. *)
Bodies == {<< >>, <<<<"x">>>>, <<<<"x", "CR", "LF">>, <<"1">>>>, <<<<"1", "CR", "LF", "x",
             "y">>>>,
           <<<<"0", "CR", "LF", "CR", "LF">>, <<"x">>>>, <<<<"x">>, <<"LF">>, <<"0">>>>,
           <<<<"x", "y", "z", "x", "y", "z", "x", "y", "z", "1">>>>,
           <<<<"x", "LF">>, <<"coding", "chunked">>>>, <<<<"x", "coding">>, <<"chunked">>>>,
           <<<<"chunked", "LF", "1", "CR", "LF", "x">>>>}

Drag == [dx |-> 3, left |-> TRUE, overflow |-> FALSE]
Jump == [dx |-> 3, left |-> FALSE, overflow |-> TRUE]

H == INSTANCE HttpReply WITH
    Chunkings <- Bodies, MaxLen <- 28, rx <- received

SomeFiles == <<"a", "bb">>
SomeVectors == {<<1, 1>>, <<2>>, <<2, 1>>}
SomePorts == {<<"none", "sata">>, <<"none", "cdrom">>}
SomeRuns == ("t1" :> 2) @@ ("t2" :> 1)
SomeMotions == {Drag, Jump}

replyVars == <<server, received, page>>

(* The sockets: two programs with two slots; one that accepts, with three, one more
   than lwIP has control blocks; and one connection, with what it sends and receives. *)
NoBytes ==
    /\ \A s \in Net!Socks : sock'[s].type = "tcp" /\ sock'[s].wire = << >>
    /\ \A p \in Net!Pcbs : pcb'[p].arrived = 0
Slots(n) ==
    /\ \A s \in Net!Socks : s >= n => sock'[s] = Net!Blank
    /\ \A p \in Net!Pcbs : p > n => pcb'[p] = Net!FreePcb
    /\ \A t \in Threads : pc'[t].at # "idle" => pc'[t].sock < n
Alone == pc'["t2"] = Net!Idle
TwoPrograms == NoBytes /\ Slots(2)
OneServer == NoBytes /\ Alone
OneConnection == Alone /\ Slots(1) /\ shandle'[1] = Net!NoSock

\* Many keys, or both devices with a few bytes each.
FewBytes == kbd'.typed <= 1 \/ kbd'.typed + 2 * Len(dev'.sent) <= 4

(* A part that is not exercised stays in one initial state. *)
Init ==
    /\ part \in {"files", "sockets", "accepts", "bytes", "disk", "card", "resolve", "ping",
          "client", "reply", "ps2", "queue"}
    /\ IoInit
    /\ H!Init
    /\ part = "reply" \/ server = [chunks |-> << >>, mark |-> "close"]
    /\ part = "ps2" \/ (dev.on /\ mouse.ready /\ kbd.locked = {})
    /\ part = "queue" \/ buffer = [i \in Queue!Slot |-> "key"]

Next ==
    /\ UNCHANGED part
    /\ \/ part = "reply" /\ H!Next /\ UNCHANGED ioVars
       \/ /\ \/ part = "files" /\ FileStep
             \/ part = "sockets" /\ SockStep /\ TwoPrograms
             \/ part = "accepts" /\ SockStep /\ OneServer
             \/ part = "bytes" /\ SockStep /\ OneConnection
             \/ part = "disk" /\ DiskStep
             \/ part = "card" /\ CardStep
             \/ part = "resolve" /\ DnsStep
             \/ part = "ping" /\ EchoStep
             \/ part = "client" /\ WebStep
             \/ part = "ps2" /\ DeskStep /\ FewBytes
             \/ part = "queue" /\ QueueStep
          /\ UNCHANGED replyVars

Spec == Init /\ [][Next]_<<part, ioVars, replyVars>>

(* What the server of the sockets sends is in the order the program passed it, gaps only
   where a list of buffers was cut (wasi.c:1672-1706); a page is what the server sent,
   without framing and without gaps, and its marked end is noticed at once, wherever the
   answer is cut (net.c:600-1000). *)
BytesInOrder ==
    /\ Net!SentInOrder
    /\ part = "reply" => H!PagePrefix /\ H!WholePage /\ H!EndNoticed
=============================================================================
