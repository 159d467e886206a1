----------------------------- MODULE Virtqueue -----------------------------
(***************************************************************************)
(* The receive and transmit queues of drivers/virtio_net.c.  The driver    *)
(* offers buffers by number in the available ring, the device (external)   *)
(* gives them back in the used ring; every index runs freely and wraps.    *)
(* The device works between any two stores of the driver.  One thread      *)
(* polls and sends at a time: net_poll keeps polls 5 ms apart, which is    *)
(* taken to be longer than a poll lasts.                                   *)
(***************************************************************************)
EXTENDS Naturals, Sequences

CONSTANTS Size,         \* VIRTIO_NET_QUEUE_SIZE, the size the device agreed to
          Width,        \* index arithmetic is modulo Width (2^16)
          MaxPackets    \* bound: packets in each direction

VARIABLES rx,           \* receive queue and its buffers
          poll,         \* where virtio_net_poll is
          got,          \* history: packets handed to lwIP
          tx,           \* transmit queue, its buffer and where output is
          sent          \* history: packets the device sent

vars == <<rx, poll, got, tx, sent>>

QueueShape == Size \in Nat \ {0} /\ Width % Size = 0 /\ Width > Size
Buffers == 0 .. Size - 1
Inc(i) == (i + 1) % Width
Empty == 0              \* no packet; packets are 1, 2, ...

(* virtio_net_init offers every buffer. *)
Init ==
    /\ rx = [avail |-> [i \in Buffers |-> i], availIdx |-> Size % Width,
             used |-> [i \in Buffers |-> 0], usedIdx |-> 0, lastUsed |-> 0,
             buf |-> [b \in Buffers |-> Empty],
             seen |-> 0, arrived |-> 0]
    /\ poll = [at |-> "out"]
    /\ got = << >>
    /\ tx = [at |-> "idle", availIdx |-> 0, usedIdx |-> 0, lastUsed |-> 0, seen |-> 0,
             buf |-> Empty, next |-> 1]
    /\ sent = << >>
-----------------------------------------------------------------------------
(* The device fills the next buffer it was offered. *)
DeviceReceives ==
    LET b == rx.avail[rx.seen % Size] IN
    /\ rx.seen # rx.availIdx
    /\ rx.arrived < MaxPackets
    /\ rx' = [rx EXCEPT !.buf[b] = rx.arrived + 1, !.arrived = @ + 1, !.seen = Inc(@),
                        !.used[rx.usedIdx % Size] = b, !.usedIdx = Inc(@)]
    /\ UNCHANGED <<poll, got, tx, sent>>

(* virtio_net_poll: the packet goes to lwIP, or is dropped for want of a
   pbuf; its buffer goes back into the ring, and then the index moves. *)
PollTakes(pbuf) ==
    LET b == rx.used[rx.lastUsed % Size] IN
    /\ poll.at = "out"
    /\ rx.usedIdx # rx.lastUsed
    /\ got' = IF pbuf THEN Append(got, rx.buf[b]) ELSE got
    /\ poll' = [at |-> "ring", b |-> b]
    /\ UNCHANGED <<rx, tx, sent>>

PollReturns ==
    /\ poll.at = "ring"
    /\ rx' = [rx EXCEPT !.avail[rx.availIdx % Size] = poll.b]
    /\ poll' = [poll EXCEPT !.at = "index"]
    /\ UNCHANGED <<got, tx, sent>>

PollAdvances ==
    /\ poll.at = "index"
    /\ rx' = [rx EXCEPT !.availIdx = Inc(@), !.lastUsed = Inc(@)]
    /\ poll' = [at |-> "out"]
    /\ UNCHANGED <<got, tx, sent>>

(* virtio_net_output: one buffer, filled, published, and waited for. *)
OutputFills ==
    /\ tx.at = "idle" /\ tx.next <= MaxPackets
    /\ tx' = [tx EXCEPT !.at = "filled", !.buf = tx.next, !.next = @ + 1]
    /\ UNCHANGED <<rx, poll, got, sent>>

OutputPublishes ==
    /\ tx.at = "filled"
    /\ tx' = [tx EXCEPT !.at = "wait", !.availIdx = Inc(@)]
    /\ UNCHANGED <<rx, poll, got, sent>>

OutputReturns ==
    /\ tx.at = "wait"
    /\ tx.usedIdx # tx.lastUsed
    /\ tx' = [tx EXCEPT !.at = "idle", !.lastUsed = tx.usedIdx]
    /\ UNCHANGED <<rx, poll, got, sent>>

DeviceSends ==
    /\ tx.seen # tx.availIdx
    /\ sent' = Append(sent, tx.buf)
    /\ tx' = [tx EXCEPT !.seen = Inc(@), !.usedIdx = Inc(@)]
    /\ UNCHANGED <<rx, poll, got>>

Quiet ==
    /\ rx.arrived = MaxPackets /\ rx.usedIdx = rx.lastUsed
    /\ tx.next > MaxPackets /\ tx.at = "idle"
    /\ UNCHANGED vars

Next ==
    \/ DeviceReceives \/ PollReturns \/ PollAdvances
    \/ \E pbuf \in BOOLEAN : PollTakes(pbuf)
    \/ OutputFills \/ OutputPublishes \/ OutputReturns \/ DeviceSends
    \/ Quiet

Spec == Init /\ [][Next]_vars
-----------------------------------------------------------------------------
(* The places of a ring between two indices, the second excluded. *)
Between(from, to) == {(from + k) % Size : k \in 0 .. ((to + Width - from) % Width) - 1}
Offered == {rx.avail[i] : i \in Between(rx.seen, rx.availIdx)}
Pending == {rx.used[i] : i \in Between(rx.lastUsed, rx.usedIdx)}

(* Every receive buffer is in exactly one place, with the device or waiting
   for the driver, also when the indices wrap: none is lost and none is
   offered twice (drivers/virtio_net.c:231-262). *)
BuffersPartitioned ==
    /\ Offered \cup Pending = Buffers
    /\ Offered \cap Pending = {}

(* lwIP gets the packets in the order they arrived, each at most once and
   none from a buffer that was already filled again
   (drivers/virtio_net.c:231-262). *)
ReceivedInOrder ==
    /\ \A i, j \in DOMAIN got : i < j => got[i] < got[j]
    /\ \A i \in DOMAIN got : got[i] # Empty

(* Each packet lwIP sends goes out once and as it was, although all share
   one buffer (drivers/virtio_net.c:199-229). *)
SentAsPassed == \A i \in DOMAIN sent : sent[i] = i
=============================================================================
