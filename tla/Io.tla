---------------------------------- MODULE Io ----------------------------------
(***************************************************************************)
(* Files, sockets, the disk, the network card, what net.c does over the    *)
(* network for programs, and keyboard and mouse, side by side.  They share *)
(* no state: each is driven by its own calls, callbacks and interrupts,    *)
(* and a step of one leaves the others alone.                              *)
(***************************************************************************)
EXTENDS Integers, Sequences

CONSTANTS FileNames, Opened, Long, StartFiles, Payload, \* Files
          NHandles, HeaderLen, BufLens, ReadLens, MaxSize,
          NPcbs, QueueLen, BufSize, Types, Vectors, MaxBytes, \* Sockets
          NSectors, Chunk, Ports, Values,               \* Storage
          RingSize, Width, MaxPackets,                  \* Virtqueue
          Threads,                                      \* that use the network
          Names, TableSize,                             \* Resolver
          PingCount, MaxRuns,                           \* Ping
          NSockets, MaxRedirects,                       \* HttpClient, Sockets
          Keys, Shifts, Alts, Ctrls, MaxKeys,           \* Ps2: the keyboard
          Extended, Grey, FakeShift,
          Motions, MaxReports, Lengths, ScreenWidth,    \* Ps2: the mouse
          Events, Capacity, Wrap                        \* InputQueue

ASSUME FilesAssumption ==
    /\ StartFiles \in Seq(FileNames)
    /\ \A i, j \in DOMAIN StartFiles : i # j => StartFiles[i] # StartFiles[j]
    /\ Opened \subseteq FileNames /\ BufLens \subseteq Nat /\ ReadLens \subseteq Nat
    /\ NHandles \in Nat /\ HeaderLen \in Nat /\ MaxSize \in Nat

ASSUME SocketsAssumption ==
    /\ NSockets \in Nat /\ NPcbs \in Nat /\ BufSize \in Nat

ASSUME StorageAssumption == NSectors \in Nat \ {0} /\ Chunk \in Nat \ {0}

ASSUME CardAssumption ==
    /\ RingSize \in Nat \ {0} /\ Width \in Nat /\ Width % RingSize = 0 /\ Width > RingSize
    /\ MaxPackets \in Nat

ASSUME RequestsAssumption ==
    /\ {"none", "nobody"} \cap Threads = {}
    /\ TableSize \in Nat /\ MaxRedirects \in Nat \ {0}
    /\ PingCount \in Nat \ {0} /\ MaxRuns \in [Threads -> Nat]

ASSUME EventsAssumption ==
    /\ Shifts \cup Alts \cup Ctrls \subseteq Keys \ {"E0"}
    /\ Shifts \cap (Alts \cup Ctrls) = {}
    /\ FakeShift \in Shifts /\ Grey \subseteq Extended \ Shifts /\ Extended \subseteq Keys
    /\ Lengths \subseteq Nat \ {0} /\ ScreenWidth \in Nat
    /\ Motions \subseteq [dx : Int, left : BOOLEAN, overflow : BOOLEAN]
    /\ Capacity \in Nat \ {0} /\ Wrap \in Nat \ {0}

VARIABLES order, dirs, file, saved, fhandle, listing, result,
          sock, pcb, shandle, buffers, pc, overlapped,
          driver, ready, disk, call, dma, table, port, work,
          rx, poll, got, tx, transmitted,
          lookup, ctx, queries, cache,
          ping, state, echoes,
          slot, op, heap, astray,
          kbd, dev, controller, irq, mode, mouse, heard, crossed,
          buffer, head, tail, waiting, dropped, popped

Fs == INSTANCE Files WITH Names <- FileNames, Bytes <- Payload, handle <- fhandle

Net == INSTANCE Sockets WITH handle <- shandle

Disk == INSTANCE Storage

Card == INSTANCE Virtqueue WITH Size <- RingSize, sent <- transmitted

Dns == INSTANCE Resolver WITH call <- lookup

Echo == INSTANCE Ping WITH Count <- PingCount

Web == INSTANCE HttpClient WITH socket <- slot, held <- heap

Desk == INSTANCE Ps2 WITH
    MaxPackets <- MaxReports, Sizes <- Lengths, Width <- ScreenWidth, out <- controller

Queue == INSTANCE InputQueue WITH size <- waiting, out <- popped

fileVars == <<order, dirs, file, saved, fhandle, listing, result>>
sockVars == <<sock, pcb, shandle, buffers, pc, overlapped>>
diskVars == <<driver, ready, disk, call, dma, table, port, work>>
cardVars == <<rx, poll, got, tx, transmitted>>
dnsVars == <<lookup, ctx, queries, cache>>
pingVars == <<ping, state, echoes>>
webVars == <<slot, op, heap, astray>>
ps2Vars == <<kbd, dev, controller, irq, mode, mouse, heard, crossed>>
queueVars == <<buffer, head, tail, waiting, dropped, popped>>
ioVars == <<fileVars, sockVars, diskVars, cardVars, dnsVars, pingVars, webVars, ps2Vars,
            queueVars>>

IoInit ==
    /\ Fs!Init
    /\ Net!Init
    /\ Disk!Init
    /\ Card!Init
    /\ Dns!Init
    /\ Echo!Init
    /\ Web!Init
    /\ Desk!Init
    /\ Queue!Init

FileStep ==
    Fs!Next /\ UNCHANGED <<sockVars, diskVars, cardVars, dnsVars, pingVars, webVars, ps2Vars, queueVars>>
SockStep ==
    Net!Next /\ UNCHANGED <<fileVars, diskVars, cardVars, dnsVars, pingVars, webVars, ps2Vars, queueVars>>
DiskStep ==
    Disk!Next /\ UNCHANGED <<fileVars, sockVars, cardVars, dnsVars, pingVars, webVars, ps2Vars, queueVars>>
CardStep ==
    Card!Next /\ UNCHANGED <<fileVars, sockVars, diskVars, dnsVars, pingVars, webVars, ps2Vars, queueVars>>
DnsStep  ==
    Dns!Next /\ UNCHANGED <<fileVars, sockVars, diskVars, cardVars, pingVars, webVars, ps2Vars, queueVars>>
EchoStep ==
    Echo!Next /\ UNCHANGED <<fileVars, sockVars, diskVars, cardVars, dnsVars, webVars, ps2Vars, queueVars>>
WebStep  ==
    Web!Next /\ UNCHANGED <<fileVars, sockVars, diskVars, cardVars, dnsVars, pingVars, ps2Vars, queueVars>>
DeskStep ==
    Desk!Next /\ UNCHANGED <<fileVars, sockVars, diskVars, cardVars, dnsVars, pingVars, webVars, queueVars>>
QueueStep ==
    Queue!Next /\ UNCHANGED <<fileVars, sockVars, diskVars, cardVars, dnsVars, pingVars, webVars, ps2Vars>>

IoNext == FileStep \/ SockStep \/ DiskStep \/ CardStep \/ DnsStep \/ EchoStep \/ WebStep
          \/ DeskStep \/ QueueStep

IoSpec == IoInit /\ [][IoNext]_ioVars
-------------------------------------------------------------------------------
(* A descriptor stands inside its file and what was written is in the
   directory once the file is closed, however it is cut, grown, renamed or
   removed between two calls (vfs.c:97-477, wasi.c:960-1116). *)
FilesKept == Fs!TypeOK /\ Fs!PositionInside /\ Fs!SavedWhenClosed

(* A read at an offset moves no descriptor, and paging through a directory
   that does not change shows every entry once (wasi.c:1054-1188). *)
ReadsExact == Fs!PreadPure /\ Fs!ListedAll

(* Every socket, receive buffer and control block has one owner through all
   calls, failures and callbacks, a callback finds the socket it is for, and a
   program reads the bytes of its own connection in the order of arrival, gaps
   only where the buffer was full (net_socket.c:39-400, vfs.c:109-132). *)
SocketsOwned ==
    Net!TypeOK /\ Net!OneOwner /\ Net!CallbackFits /\ Net!NothingLeaks /\ Net!OwnBytes

(* A sector holds only what was meant for it and a request that succeeded was
   carried out, also after a timeout; the network card and the driver never
   both own a buffer and no packet is doubled or reordered when the indices
   wrap (drivers/ahci.c:270-390, storage.c:84-160, drivers/virtio_net.c:199-262). *)
DevicesSound ==
    /\ Disk!TypeOK /\ Disk!OnlyWhatWasWritten /\ Disk!DoneMeansDone
    /\ Card!BuffersPartitioned /\ Card!ReceivedInOrder /\ Card!SentAsPassed

(* What the kernel waits for is the answer to the program's own question, an
   address it asked for and the echo of the very request of a ping that runs
   alone; and each fetch gives back what it took (net.c:47-600, 680-1180). *)
AnswersOwned ==
    /\ Dns!TypeOK /\ Dns!OwnAddress
    /\ Echo!TypeOK /\ Echo!AloneExact
    /\ Web!TypeOK /\ Web!AllReturned

(* A client touches another one's socket only by closing the number of a
   connection that timed out a second time (net.c:880-960). *)
OnlyAfterTimeout == Web!OnlyAfterTimeout

(* While no byte went to the wrong handler every scan code and packet is heard
   whole and in order and no modifier stays set but by a held key, one the keyboard
   wraps in a Shift among them; the queue behind the handlers keeps its counters
   in agreement (mouse.c:206-360, idt.c:425-511, input.c:37-80). *)
InputKept == Desk!StreamsKept /\ Desk!NeverStuck /\ Queue!Consistent

(* Bytes begin to go to the wrong handler only when the mouse's empties the
   controller; and the ring of events is a queue that counts what it refuses
   (mouse.c:324, input.c:37-80). *)
InputSteps == Desk!OnlyTheDrainCrosses /\ Queue!ImplementsFifo
===============================================================================
