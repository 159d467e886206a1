-------------------------------- MODULE KHeap --------------------------------
(***************************************************************************)
(* The kernel's heap (kheap.c), called by several threads.  Every call     *)
(* runs with interrupts off but kheap_realloc, which allocates, copies and *)
(* frees in separate sections.  val is what the owner of a block has       *)
(* written into it; a new block holds anything.                            *)
(***************************************************************************)
EXTENDS FreeList

CONSTANTS Threads, Requests, Values, MaxLive

VARIABLES heap,         \* g_kheap_head: headers by address
          used,         \* g_kheap_used
          val,          \* payload in use -> what is in it
          owned,        \* payloads allocated and not yet freed
          busy          \* thread -> its reallocation under way

vars == <<heap, used, val, owned, busy>>

Bytes == 0 .. Arena - 1
Null == Arena
Idle == [pc |-> "idle", old |-> Null, new |-> Null, size |-> 0]

(* Assumed of the constants: requests are at most the arena, so 64-bit sizes
   do not wrap. *)
SmallRequests == Requests \subseteq 1 .. Arena

Init ==
    /\ heap = [a \in {0} |-> Header0]
    /\ used = 0
    /\ val = [p \in {} |-> 0]
    /\ owned = {}
    /\ busy = [t \in Threads |-> Idle]

(* kheap_alloc: the first block of the list that is large enough. *)
CanAlloc(n) == Fitting(heap, Rounded(n)) # {}

Allocated(n) ==
    LET a == Min(Fitting(heap, Rounded(n)))
    IN  /\ heap' = Carved(heap, a, Rounded(n))
        /\ used' = used + Payload(heap', a)
        /\ owned' = owned \cup {a + Header}
        /\ \E v \in Values : val' = [p \in owned' |-> IF p \in owned THEN val[p] ELSE v]

Release(p) ==
    LET a == p - Header
        h == [heap EXCEPT ![a].used = FALSE]
    IN  /\ heap' = Joined(h)
        /\ used' = used - Payload(heap, a)
        /\ owned' = owned \ {p}
        /\ val' = [q \in owned' |-> val[q]]

(* A payload nobody is about to move or free. *)
Untouched(p) == p \in owned /\ \A t \in Threads : p \notin {busy[t].old, busy[t].new}

Alloc(t, n) ==
    /\ busy[t] = Idle
    /\ Cardinality(owned) < MaxLive
    /\ CanAlloc(n)
    /\ Allocated(n)
    /\ UNCHANGED busy

(* No block is large enough: the null pointer. *)
AllocNone(t, n) ==
    /\ busy[t] = Idle
    /\ ~CanAlloc(n)
    /\ UNCHANGED vars

Write(p, v) ==
    /\ Untouched(p)
    /\ val' = [val EXCEPT ![p] = v]
    /\ UNCHANGED <<heap, used, owned, busy>>

Free(t, p) ==
    /\ busy[t] = Idle
    /\ Untouched(p)
    /\ Release(p)
    /\ UNCHANGED busy

(* A pointer that is no payload in use, freed before for one, is looked up
   and ignored. *)
FreeUnknown(t, p) ==
    /\ busy[t] = Idle
    /\ ~\E a \in DOMAIN heap : a + Header = p /\ heap[a].used
    /\ UNCHANGED vars

(* kheap_realloc: the size is read in a section of its own. *)
ReallocStart(t, p, n) ==
    /\ busy[t] = Idle
    /\ Untouched(p)
    /\ Payload(heap, p - Header) < n
    /\ busy' = [busy EXCEPT ![t] = [pc |-> "alloc", old |-> p, new |-> Null, size |-> n]]
    /\ UNCHANGED <<heap, used, val, owned>>

ReallocFits(t, p, n) ==
    /\ busy[t] = Idle
    /\ Untouched(p)
    /\ Payload(heap, p - Header) >= n
    /\ UNCHANGED vars

\* A slip, for ReallocMove.
ReallocMoveFreeing(t) ==
    /\ busy[t].pc = "alloc"
    /\ CanAlloc(busy[t].size)
    /\ Allocated(busy[t].size)
    /\ busy' = [busy EXCEPT ![t].pc = "free",
                  ![t].new = Min(Fitting(heap, Rounded(busy[t].size))) + Header]

ReallocMove(t) ==
    /\ busy[t].pc = "alloc"
    /\ CanAlloc(busy[t].size)
    /\ Allocated(busy[t].size)
    /\ busy' = [busy EXCEPT ![t].pc = "copy",
                  ![t].new = Min(Fitting(heap, Rounded(busy[t].size))) + Header]

(* The old block stays as it was. *)
ReallocFails(t) ==
    /\ busy[t].pc = "alloc"
    /\ ~CanAlloc(busy[t].size)
    /\ busy' = [busy EXCEPT ![t] = Idle]
    /\ UNCHANGED <<heap, used, val, owned>>

ReallocCopy(t) ==
    /\ busy[t].pc = "copy"
    /\ val' = [val EXCEPT ![busy[t].new] = val[busy[t].old]]
    /\ busy' = [busy EXCEPT ![t].pc = "free"]
    /\ UNCHANGED <<heap, used, owned>>

ReallocFree(t) ==
    /\ busy[t].pc = "free"
    /\ Release(busy[t].old)
    /\ busy' = [busy EXCEPT ![t] = Idle]

Next == \E t \in Threads :
    \/ \E n \in Requests : Alloc(t, n) \/ AllocNone(t, n)
    \/ \E p \in owned : Free(t, p)
    \/ \E p \in {a + Header : a \in DOMAIN heap} : FreeUnknown(t, p)
    \/ \E p \in owned, n \in Requests : ReallocStart(t, p, n) \/ ReallocFits(t, p, n)
    \/ \E p \in owned, v \in Values : Write(p, v)
    \/ ReallocMove(t) \/ ReallocFails(t) \/ ReallocCopy(t) \/ ReallocFree(t)

Spec == Init /\ [][Next]_vars
-----------------------------------------------------------------------------
(* After any sequence of calls of any threads the headers tile the arena and
   exactly the payloads handed out are marked used, two free blocks never
   stay side by side (so that freeing everything gives the whole arena back)
   and g_kheap_used is the number of bytes in them (kheap.c:44-126). *)
BlocksInUse == {a \in DOMAIN heap : heap[a].used}
BytesInUse == UNION {a + Header .. heap[a].next - 1 : a \in BlocksInUse}
HeapSound ==
    /\ Tiled(heap)
    /\ NoNeighboursFree(heap)
    /\ owned = {a + Header : a \in BlocksInUse}
    /\ used = Cardinality(BytesInUse)

(* A reallocation takes the contents along, whatever the other threads do
   between its sections, and leaves the old block alone when it fails
   (kheap.c:130-154). *)
ReallocKeeps ==
    [][\A t \in Threads : busy[t].pc = "free" /\ busy'[t] = Idle =>
          val'[busy[t].new] = val[busy[t].old] /\ busy[t].new \in owned']_vars

(* The heap implements an allocator of regions that never overlap. *)
Regions == INSTANCE Allocator WITH
    live <- [p \in owned |-> [last |-> p + Payload(heap, p - Header) - 1, value |-> val[p]]]
ImplementsAllocator == Regions!Spec
=============================================================================
