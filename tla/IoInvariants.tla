------------------------------ MODULE IoInvariants ------------------------------
(***************************************************************************)
(* The inductive invariants of the parts of Io: what every step of a part  *)
(* relies on and keeps, strong enough to imply what the runs check.        *)
(***************************************************************************)
EXTENDS Io, FiniteSets

-------------------------------------------------------------------------------
(* Names (net_resolve_host) *)

DnsCalls ==
    {Dns!NoCall} \cup [at : {"wait", "ok", "failed"}, name : Names, addr : Names \cup {"none"},
                       over : SUBSET Names]

(* An answer that may be written into the frame of a thread that waits is to a
   question of that thread, the one it waits for or one it gave up. *)
DnsInv ==
    /\ lookup \in [Threads -> DnsCalls] /\ IsFiniteSet(queries)
    /\ Dns!TypeOK /\ Dns!OwnAddress
    /\ \A t \in Threads : lookup[t].at = "wait" =>
        /\ \A q \in queries : q.arg = t => q.name \in {lookup[t].name} \cup lookup[t].over
        /\ ctx[t].resolved => ctx[t].addr \in {lookup[t].name} \cup lookup[t].over
-------------------------------------------------------------------------------
(* Echoes (net_ping) *)

Places == {"none", "number", "send", "wait", "pause"}
Requests == [by : Threads, run : Nat, seq : Nat]
Commands == [at : Places, run : Nat, seq : Nat, rx : Nat,
             counted : Requests \cup {Echo!Nothing}, alone : BOOLEAN]
The(t) == [by |-> t, run |-> ping[t].run, seq |-> ping[t].seq]

EchoTypes ==
    /\ ping \in [Threads -> Commands]
    /\ state \in [seq : 0 .. PingCount, received : BOOLEAN, heard : Requests \cup {Echo!Nothing}]
    /\ echoes \subseteq Requests
    /\ \A e \in echoes : e.run \in 1 .. MaxRuns[e.by] /\ e.seq \in 1 .. PingCount

(* Each thread's numbers: what it has counted is behind what it has sent. *)
Counting(t) ==
    /\ ping[t].run <= MaxRuns[t] /\ ping[t].seq <= PingCount /\ ping[t].rx <= PingCount
    /\ Echo!Running(t) => ping[t].run >= 1 /\ ping[t].seq >= 1
    /\ ping[t].at \in {"number", "send", "wait"} => ping[t].rx < ping[t].seq
    /\ ping[t].at = "pause" => ping[t].rx <= ping[t].seq
    /\ ping[t].at = "send" => state.seq >= 1
    /\ ping[t].at # "pause" => ping[t].counted = Echo!Nothing

(* While a command is alone all that is out there, was heard or was counted is
   its own, and only the request waited on has the number waited for. *)
Solitude(t) ==
    Echo!Running(t) /\ ping[t].alone =>
        /\ \A u \in Threads \ {t} : ~Echo!Running(u)
        /\ \A e \in echoes :
            /\ e.by = t /\ e.run = ping[t].run /\ e.seq <= ping[t].seq
            /\ ping[t].at \in {"number", "send"} => e.seq < ping[t].seq
        /\ ping[t].at \in {"send", "wait"} => state.seq = ping[t].seq
        /\ ping[t].at = "wait" /\ state.received => state.heard = The(t)
        /\ ping[t].at = "pause" => ping[t].counted \in {Echo!Nothing, The(t)}

EchoInv == EchoTypes /\ \A t \in Threads : Counting(t) /\ Solitude(t)
-------------------------------------------------------------------------------
(* Fetches and downloads (net_http_fetch, net_http_download) *)

WebPlaces == {"none", "resolve", "connect", "again", "connecting", "retrying", "last",
              "session", "handshake", "sent", "read", "header", "reading", "body"}
WebOps == [at : WebPlaces, what : {"none", "fetch", "download"}, https : BOOLEAN, scheme : BOOLEAN,
           sock : Web!Sockets \cup {Web!None}, closed : BOOLEAN, redirects : 0 .. MaxRedirects]
Held == [Web!Kinds -> -1 .. 1]
SlotStates == {"free", "closed", "connecting", "connected"}
Slots == [owner : Threads \cup {"nobody"}, state : SlotStates]

(* Where a call has a socket. *)
Holding == WebPlaces \ {"none", "resolve", "again"}

(* What a call has allocated, by its place. *)
Due(o, h) ==
    /\ h["request"] = IF o.at \in {"session", "handshake", "sent"} THEN 1 ELSE 0
    /\ h["tls"] = IF o.at = "handshake" \/ (o.https /\ o.at \in {"sent", "read", "header", "reading", "body"})
                  THEN 1 ELSE 0
    /\ h["file"] = IF o.at = "body" THEN 1 ELSE 0
    /\ h["header"] = IF o.at = "reading" THEN 1 ELSE 0
    /\ o.at \in {"session", "handshake"} => o.https

WebTypes ==
    /\ slot \in [Web!Sockets -> Slots]
    /\ op \in [Threads -> WebOps]
    /\ heap \in [Threads -> Held]
    /\ astray \in BOOLEAN

(* A socket taken is in the hands of the call that took it. *)
Taken(s) ==
    /\ slot[s].state = "free" <=> slot[s].owner = "nobody"
    /\ slot[s].owner \in Threads =>
        /\ op[slot[s].owner].sock = s
        /\ op[slot[s].owner].at \in Holding /\ ~op[slot[s].owner].closed

(* The number in the hands of a call is its own socket's, until it is closed. *)
Fetching(t) ==
    /\ Due(op[t], heap[t])
    /\ op[t].closed => op[t].at \in {"again", "last"} \/ astray
    /\ ~astray /\ op[t].at \in Holding /\ ~op[t].closed => Web!Mine(t)

WebInv ==
    /\ WebTypes
    /\ \A s \in Web!Sockets : Taken(s)
    /\ \A t \in Threads : Fetching(t)
-------------------------------------------------------------------------------
(* The disk (storage_read_sectors, storage_write_sectors, ahci_rw_sectors) *)

Cells == (Values \cup {"blank"}) \X Nat
Tables == [lba : Nat, count : Nat, write : BOOLEAN]
Works == {Disk!NoWork} \cup [on : {TRUE}, lba : Nat, count : Nat, write : BOOLEAN]
Calls == [at : {"check", "wait", "done", "failed"}, lba : Nat, left : Nat, write : BOOLEAN,
          boot : BOOLEAN, from : Nat, data : Seq(Cells)]

DiskTypes ==
    /\ driver \in {"unprobed", "ahci", "pio", "none"} /\ ready \in BOOLEAN
    /\ disk \in [Disk!Sectors -> Cells] /\ dma \in [1 .. Chunk -> Cells]
    /\ table \in Tables /\ work \in Works
    /\ port \in [ci : BOOLEAN, busy : BOOLEAN, error : BOOLEAN, halted : BOOLEAN]
    /\ call \in Calls \cup {Disk!NoCall}

(* The drive executes the command in the table, which stays while it does;
   a write that may still be executed finds the right sectors in the buffer. *)
Commanded ==
    /\ work.on <=> port.busy
    /\ work.on => /\ port.ci /\ work.lba = table.lba /\ work.count = table.count
                  /\ work.write = table.write
    /\ table.lba + table.count <= NSectors /\ table.count <= Chunk
    /\ port.ci /\ table.write => \A i \in 1 .. table.count : dma[i][2] = table.lba + i - 1

(* Only ahci_rw_sectors writes by the table, never for the test read. *)
Testing ==
    /\ driver # "ahci" => ~table.write
    /\ call.at # "idle" /\ call.boot => ~table.write /\ ~call.write

(* The sectors of a call, and how far it is. *)
Shape ==
    /\ Len(call.data) >= 1 /\ call.left <= Len(call.data)
    /\ call.from + Len(call.data) <= NSectors
    /\ call.at \in {"check", "wait"} => call.left >= 1 /\ call.lba = call.from + Disk!Done
    /\ call.at = "done" => call.left = 0
    /\ call.write => \A i \in 1 .. Len(call.data) : call.data[i][2] = call.from + i - 1

(* What is behind the call is on the disk, and no command is on its way that
   could change it. *)
Behind ==
    /\ call.at # "failed" => \A i \in 1 .. Disk!Done : disk[call.from + i - 1] = call.data[i]
    /\ call.at \in {"check", "done"} /\ Disk!Done > 0 => ~(port.ci /\ table.write)

(* The command waited for is the call's own chunk, not executed or whole. *)
Waiting ==
    call.at = "wait" =>
        /\ table.lba = call.lba /\ table.count = Disk!Count /\ table.write = call.write
        /\ port.ci /\ call.write => \A i \in 1 .. table.count : dma[i] = call.data[Disk!Done + i]
        /\ ~port.ci => \A i \in 1 .. table.count :
              IF call.write THEN disk[call.lba + i - 1] = call.data[Disk!Done + i]
              ELSE dma[i] = disk[call.lba + i - 1]

DiskInv ==
    /\ DiskTypes /\ Commanded /\ Testing /\ Disk!OnlyWhatWasWritten
    /\ call.at # "idle" => Shape /\ Behind /\ Waiting
-------------------------------------------------------------------------------
(* The network card (virtio_net_poll, virtio_net_output) *)

RingIndices == 0 .. Width - 1
RxQueues == [avail : [Card!Buffers -> Card!Buffers], availIdx : RingIndices,
             used : [Card!Buffers -> Card!Buffers], usedIdx : RingIndices, lastUsed : RingIndices,
             buf : [Card!Buffers -> Nat], seen : RingIndices, arrived : Nat]
TxQueues == [at : {"idle", "filled", "wait"}, availIdx : RingIndices, usedIdx : RingIndices,
             lastUsed : RingIndices, seen : RingIndices, buf : Nat, next : Nat]
Polls == [at : {"out"}] \cup [at : {"ring", "index"}, b : Card!Buffers]

CardTypes ==
    /\ rx \in RxQueues /\ tx \in TxQueues /\ poll \in Polls
    /\ got \in Seq(Nat) /\ transmitted \in Seq(Nat)

\* p packets wait for the driver, each in the buffer of its place; the place
\* being polled is the first of them.
Indices(p) ==
    /\ p <= RingSize /\ p <= rx.arrived
    /\ rx.availIdx = (rx.lastUsed + RingSize) % Width
    /\ rx.usedIdx = (rx.lastUsed + p) % Width /\ rx.seen = rx.usedIdx
    /\ poll.at # "out" => p > 0 /\ poll.b = rx.lastUsed % RingSize
Filled(p) ==
    /\ \A b \in Card!Buffers : rx.avail[b] = b
    /\ \A j \in 0 .. p - 1 : LET b == (rx.lastUsed + j) % RingSize IN
          rx.used[b] = b /\ rx.buf[b] = rx.arrived - p + j + 1

\* The packets up to the nth were handed over or dropped.
Ascending(n) ==
    /\ \A i, j \in 1 .. Len(got) : i < j => got[i] < got[j]
    /\ \A i \in 1 .. Len(got) : got[i] >= 1 /\ got[i] <= n

Handled(p) == IF poll.at = "out" THEN rx.arrived - p ELSE rx.arrived - p + 1
Receiving == \E p \in Nat : Indices(p) /\ Filled(p) /\ Ascending(Handled(p))

\* The transmit buffer holds the packet after those that were sent, until the
\* card has sent it.
Transmitting ==
    /\ tx.seen = tx.usedIdx
    /\ tx.at \in {"idle", "filled"} => tx.availIdx = tx.lastUsed
    /\ tx.at = "wait" => tx.availIdx = Card!Inc(tx.lastUsed)
    /\ tx.usedIdx \in {tx.lastUsed, tx.availIdx}
    /\ LET due == tx.at = "filled" \/ (tx.at = "wait" /\ tx.usedIdx = tx.lastUsed) IN
       /\ due => tx.buf = Len(transmitted) + 1 /\ tx.next = Len(transmitted) + 2
       /\ ~due => tx.next = Len(transmitted) + 1
    /\ \A i \in 1 .. Len(transmitted) : transmitted[i] = i

CardInv == CardTypes /\ Receiving /\ Transmitting
-------------------------------------------------------------------------------
(* Keyboard and mouse (idt_handle_irq, mouse_handler) *)

KeyBytes == [aux : {FALSE}, code : Desk!Codes, at : {0}, of : {0}, bit3 : {FALSE}]
MouseBytes == [aux : {TRUE}, code : {<< >>}, at : Nat, of : Nat, bit3 : BOOLEAN]

Modes == [shift : BOOLEAN, alt : BOOLEAN, ctrl : BOOLEAN, layout : {"EN", "RU"}, extended : BOOLEAN]

DeskTypes ==
    /\ kbd \in [held : SUBSET Keys, queue : Seq(Desk!Codes), sent : Seq(Desk!Codes),
                typed : Nat, locked : SUBSET Grey]
    /\ dev \in [on : BOOLEAN, queue : Seq(MouseBytes), sent : Seq(Motions)]
    /\ controller \in {<< >>} \cup {<<b>> : b \in KeyBytes \cup MouseBytes}
    /\ mode \in Modes
    /\ mouse \in [ready : BOOLEAN, size : Lengths, packet : Seq(MouseBytes), x : Int, left : BOOLEAN]
    /\ heard \in [codes : Seq(Desk!Codes), packets : Seq(Seq(MouseBytes))]

\* The last code of a group of keys is one going down.
LastDown(group, codes) ==
    \E i \in 1 .. Len(codes) :
        /\ codes[i][1] \in group /\ codes[i][2] = "down"
        /\ \A j \in 1 .. Len(codes) : j > i /\ codes[j][1] \in group => codes[j][2] = "down"
PrefixLast(codes) == codes # << >> /\ codes[Len(codes)] = Desk!Prefix

\* The flags follow the codes heard.
Flags ==
    \/ crossed
    \/ /\ mode.shift => LastDown(Shifts, heard.codes)
       /\ mode.alt => LastDown(Alts, heard.codes)
       /\ mode.ctrl => LastDown(Ctrls, heard.codes)
       /\ mode.extended => PrefixLast(heard.codes)

\* A key of the group whose last code is going down is held; or a grey key that was
\* wrapped in it.
KeysHeld ==
    /\ LastDown(Shifts, kbd.sent) => kbd.held \cap (Shifts \cup kbd.locked) # {}
    /\ LastDown(Alts, kbd.sent) => kbd.held \cap Alts # {}
    /\ LastDown(Ctrls, kbd.sent) => kbd.held \cap Ctrls # {}
    /\ ~PrefixLast(kbd.sent)

\* The bytes of the mouse that its driver has not taken follow those it has,
\* and end with the last byte of the last packet.
MouseRest == (IF controller # << >> /\ controller[1].aux THEN controller ELSE << >>) \o dev.queue
Follows(b, c) ==
    IF b.at < mouse.size THEN c.of = b.of /\ c.at = b.at + 1 ELSE c.of = b.of + 1 /\ c.at = 1
Chain(rest, n, got1, last) ==
    /\ rest = << >> => n = last /\ got1 = 0
    /\ rest # << >> => /\ rest[1].of = n + 1 /\ rest[1].at = got1 + 1
                       /\ rest[Len(rest)].of = last /\ rest[Len(rest)].at = mouse.size
    /\ \A i \in 1 .. Len(rest) - 1 : Follows(rest[i], rest[i + 1])
    /\ \A i \in 1 .. Len(rest) : rest[i].at = 1 => rest[i].bit3
Chained ==
    /\ Chain(MouseRest, Len(heard.packets), Len(mouse.packet), Len(dev.sent))
    /\ Len(mouse.packet) < mouse.size
    /\ \A i \in 1 .. Len(mouse.packet) :
          mouse.packet[i].of = Len(heard.packets) + 1 /\ mouse.packet[i].at = i

Cut ==
    \A i \in 1 .. Len(heard.packets) : \A j \in 1 .. Len(heard.packets[i]) :
        heard.packets[i][j].of = i /\ heard.packets[i][j].at = j

DeskInv ==
    /\ DeskTypes /\ Flags /\ KeysHeld
    /\ ~crossed =>
        /\ 1 \in irq => controller # << >> /\ ~controller[1].aux
        /\ heard.codes \o Desk!InTransit = kbd.sent
        /\ Chained /\ Cut
-------------------------------------------------------------------------------
(* The queue of events (input_push, input_pop) *)

QueueInv == Queue!TypeOK /\ Queue!Consistent
-------------------------------------------------------------------------------
(* Files (vfs.c and the file calls of wasi.c) *)

FileBytes == Payload \cup {Fs!Junk}
DirHandles == [type : {"dir"}, name : FileNames \cup {"/"}, at : Nat]
OpenFiles == [type : {"file"}, name : FileNames, pos : Nat, write : BOOLEAN]
Listings == [on : {TRUE}, via : 0 .. NHandles, cookie : Nat, seen : Seq(FileNames)]

FilesTyped ==
    /\ order \in Seq(FileNames) /\ Fs!IsInjective(order) /\ dirs \subseteq Fs!Present
    /\ file \in [FileNames -> Seq(FileBytes)]
    /\ \A n \in FileNames : Len(file[n]) <= MaxSize
    /\ saved \in [FileNames -> Fs!Offsets]
    /\ fhandle \in [Fs!Handles -> {Fs!Unused} \cup DirHandles \cup OpenFiles]
    /\ listing \in {Fs!NotListing} \cup Listings

(* An open file is there, no descriptor stands past its end, and one that is open
   for writing is not open a second time. *)
FilesOpen ==
    \A h \in Fs!Handles : Fs!IsFile(h) =>
        /\ fhandle[h].name \in Fs!Present
        /\ fhandle[h].pos <= Len(file[fhandle[h].name])
        /\ fhandle[h].write => \A g \in Fs!Handles \ {h} :
             Fs!IsFile(g) => fhandle[g].name # fhandle[h].name

(* Also of names that are not there: the next file of that name begins with them. *)
FilesSaved ==
    \A n \in FileNames : saved[n] # Len(file[n]) =>
        \E h \in Fs!Handles : Fs!IsFile(h) /\ fhandle[h].name = n /\ fhandle[h].write

(* The listing through an own descriptor has a directory there; the one that opens the
   root anew has seen the names up to its cookie. *)
FilesListed ==
    listing.on =>
        /\ listing.via \in Fs!Handles => fhandle[listing.via] \in DirHandles
        /\ listing.via = NHandles => /\ listing.cookie <= Len(order)
                                     /\ listing.seen = SubSeq(order, 1, listing.cookie)

FilesInv == FilesTyped /\ FilesOpen /\ FilesSaved /\ FilesListed
-------------------------------------------------------------------------------
(* Sockets (net_socket.c under wasi.c and vfs.c) *)

SockFields == {"used", "type", "state", "pcb", "queue", "buf", "rx", "read", "wire", "dropped", "cut"}
PcbStates == {"free", "new", "listen", "syn", "open", "half"}
SockCalls == {Net!Idle} \cup [at : {"found", "taken", "closing", "marked"}, sock : Net!Socks]

\* What is sent is built with a fold: nothing is said of it.
SockTyped(r) ==
    /\ DOMAIN r = SockFields
    /\ r.used \in BOOLEAN /\ r.buf \in BOOLEAN /\ r.dropped \in BOOLEAN
    /\ r.pcb \in 0 .. NPcbs /\ r.queue \in Seq(Net!Socks)
    /\ r.read \in Seq(Nat) /\ r.rx \in Seq(Nat) /\ Len(r.rx) <= BufSize

NetTyped ==
    /\ sock = [s \in Net!Socks |-> sock[s]]
    /\ \A s \in Net!Socks : SockTyped(sock[s])
    /\ pcb \in [Net!Pcbs -> [state : PcbStates, arg : Net!Socks \cup {Net!NoSock}, arrived : Nat]]
    /\ shandle \in [Net!Handles -> Net!Socks \cup {Net!NoSock}]
    /\ buffers \in Nat
    /\ pc \in [Threads -> SockCalls]
    /\ overlapped \in BOOLEAN

(* A slot that is given up but not released yet still holds what it held. *)
Releasing(s) == \E t \in Threads : pc[t].at = "marked" /\ pc[t].sock = s
Keeping(s) == sock[s].used \/ Releasing(s)
InQueue(s, q) == s \in Net!Range(sock[q].queue)
InCall(s, t) == pc[t].at \in {"taken", "closing"} /\ pc[t].sock = s

\* Only slots in use are named,
SockNamed ==
    /\ \A h \in Net!Handles : shandle[h] # Net!NoSock => sock[shandle[h]].used
    /\ \A q, s \in Net!Socks : InQueue(s, q) => sock[s].used
    /\ \A t \in Threads, s \in Net!Socks : InCall(s, t) => sock[s].used

\* once,
SockOnce ==
    /\ \A g, h \in Net!Handles : shandle[g] # Net!NoSock /\ shandle[g] = shandle[h] => g = h
    /\ \A p, q, s \in Net!Socks : InQueue(s, p) /\ InQueue(s, q) => p = q
    /\ \A q \in Net!Socks : Net!IsInjective(sock[q].queue)
    /\ \A t, u \in Threads, s \in Net!Socks : InCall(s, t) /\ InCall(s, u) => t = u
    /\ \A h \in Net!Handles, q \in Net!Socks : shandle[h] # Net!NoSock => ~InQueue(shandle[h], q)
    /\ \A h \in Net!Handles, t \in Threads : shandle[h] # Net!NoSock => ~InCall(shandle[h], t)
    /\ \A q, s \in Net!Socks, t \in Threads : InQueue(s, q) => ~InCall(s, t)

\* and all of them.
SockSomebody ==
    \A s \in Net!Socks : sock[s].used =>
        \/ \E h \in Net!Handles : shandle[h] = s
        \/ \E q \in Net!Socks : InQueue(s, q)
        \/ \E t \in Threads : InCall(s, t)

SockOwners == SockNamed /\ SockOnce /\ SockSomebody

(* What the calls that are not done rely on. *)
SockCalled ==
    /\ \A t \in Threads : pc[t].at = "found" => ~sock[pc[t].sock].used
    /\ \A t \in Threads : pc[t].at = "taken" => sock[pc[t].sock] = Net!Taken(pc[t].sock)
    /\ \A t \in Threads : pc[t].at = "marked" => ~sock[pc[t].sock].used
    /\ \A t, u \in Threads :
         pc[t].at = "marked" /\ pc[u].at = "marked" /\ pc[t].sock = pc[u].sock => t = u

(* The state of a socket and that of its control block. *)
SockStates ==
    \A s \in Net!Socks :
        /\ sock[s].queue # << >> => Keeping(s) /\ sock[s].state = "listening"
        /\ Keeping(s) /\ sock[s].state = "bound" =>
              sock[s].pcb # Net!NoPcb /\ pcb[sock[s].pcb].state = "new"
        /\ Keeping(s) /\ sock[s].state = "listening" =>
              sock[s].type = "tcp" /\ sock[s].pcb # Net!NoPcb /\ pcb[sock[s].pcb].state = "listen"
        /\ \A q \in Net!Socks : InQueue(s, q) => sock[s].state \in {"connected", "error"}

(* Control blocks and the slots that hold them. *)
SockBlocks ==
    /\ \A p \in Net!Pcbs :
         /\ pcb[p].state = "free" => pcb[p] = Net!FreePcb
         /\ pcb[p].state = "new" => pcb[p].arrived = 0
         /\ pcb[p].state \notin {"free", "new"} => pcb[p].arg # Net!NoSock
         /\ pcb[p].arg # Net!NoSock => sock[pcb[p].arg].pcb = p /\ Keeping(pcb[p].arg)
         /\ pcb[p].state = "listen" => sock[pcb[p].arg].state = "listening"
         /\ pcb[p].state # "free" => \E s \in Net!Socks : Keeping(s) /\ sock[s].pcb = p
    /\ \A s \in Net!Socks : Keeping(s) /\ sock[s].pcb # Net!NoPcb => pcb[sock[s].pcb].state # "free"
    /\ \A s, r \in Net!Socks :
         Keeping(s) /\ Keeping(r) /\ sock[s].pcb # Net!NoPcb /\ sock[s].pcb = sock[r].pcb => s = r

SockCounted == buffers = Cardinality({s \in Net!Socks : Keeping(s) /\ sock[s].buf})

(* What was read and what waits to be read. *)
Rising(q) == \A i, j \in DOMAIN q : i < j => q[i] < q[j]
UpTo(q, n) == \A i \in DOMAIN q : q[i] <= n
Gapless(q) == \A i \in DOMAIN q : q[i] = i
SockStream(s) == sock[s].read \o sock[s].rx
SockBytes ==
    \A s \in Net!Socks : Keeping(s) =>
        /\ Rising(SockStream(s))
        /\ ~sock[s].dropped => Gapless(SockStream(s))
        /\ sock[s].pcb # Net!NoPcb =>
             /\ UpTo(SockStream(s), pcb[sock[s].pcb].arrived)
             /\ ~sock[s].dropped => Len(SockStream(s)) = pcb[sock[s].pcb].arrived

SockOwned == SockOwners /\ SockCalled /\ SockStates /\ SockBlocks /\ SockCounted /\ SockBytes

\* Past an overlap nothing is claimed.
NetInv == NetTyped /\ (~overlapped => SockOwned)
===============================================================================
