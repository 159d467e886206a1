------------------------------ MODULE UserHeap ------------------------------
(***************************************************************************)
(* The heap a program carries in its own memory (apps/woos_mem.h).  It is  *)
(* single threaded, starts with the first allocation, trusts the pointers  *)
(* it is given, and computes sizes in 32 bits, which wrap at Width here.   *)
(***************************************************************************)
EXTENDS FreeList

CONSTANTS Width,        \* 2^32
          Requests,     \* sizes asked of woos_malloc and woos_realloc
          Counts        \* element counts asked of woos_calloc

VARIABLES heap,         \* g_wasm_heap_head: headers by address
          asked         \* payload in use -> the size the program wanted

vars == <<heap, asked>>

(* Assumed of the constants: the arena is far below the wrapping point. *)
WrapAbove == Arena < Width /\ Width % Align = 0

WrapRounded(n) == (((n + Align - 1) % Width) \div Align) * Align

Started == IF heap = << >> THEN [a \in {0} |-> Header0] ELSE heap

Init ==
    /\ heap = << >>
    /\ asked = << >>

Fits(h, n) == {a \in Fitting(h, WrapRounded(n)) : h[a].size > Header}
CanAlloc(h, n) == n # 0 /\ Fits(h, n) # {}
Taken(h, n) == Min(Fits(h, n))

With(p, n) == [q \in DOMAIN asked \cup {p} |-> IF q = p THEN n ELSE asked[q]]
Without(f, p) == [q \in DOMAIN f \ {p} |-> f[q]]

Malloc(n) ==
    /\ CanAlloc(Started, n)
    /\ heap' = Carved(Started, Taken(Started, n), WrapRounded(n))
    /\ asked' = With(Taken(Started, n) + Header, n)

(* Nothing fits; the arena is set up all the same. *)
MallocNone(n) ==
    /\ ~CanAlloc(Started, n)
    /\ heap' = IF n = 0 THEN heap ELSE Started
    /\ UNCHANGED asked

\* A slip, for Released.
ReleasedUnjoined(h, p) == [h EXCEPT ![p - Header].used = FALSE]

Released(h, p) == Joined([h EXCEPT ![p - Header].used = FALSE])

Free(p) ==
    /\ p \in DOMAIN asked
    /\ heap' = Released(heap, p)
    /\ asked' = Without(asked, p)

ReallocInPlace(p, n) ==
    /\ p \in DOMAIN asked
    /\ Payload(heap, p - Header) >= n
    /\ asked' = With(p, n)
    /\ UNCHANGED heap

ReallocMoves(p, n) ==
    /\ p \in DOMAIN asked
    /\ Payload(heap, p - Header) < n
    /\ CanAlloc(heap, n)
    /\ heap' = Released(Carved(heap, Taken(heap, n), WrapRounded(n)), p)
    /\ asked' = Without(With(Taken(heap, n) + Header, n), p)

ReallocFails(p, n) ==
    /\ p \in DOMAIN asked
    /\ Payload(heap, p - Header) < n
    /\ ~CanAlloc(heap, n)
    /\ UNCHANGED vars

(* The product wraps before it is asked for, and only so much is cleared. *)
Calloc(k, n) ==
    LET total == (k * n) % Width
    IN  /\ CanAlloc(Started, total)
        /\ heap' = Carved(Started, Taken(Started, total), WrapRounded(total))
        /\ asked' = With(Taken(Started, total) + Header, k * n)

Next ==
    \/ \E n \in Requests : Malloc(n) \/ MallocNone(n)
    \/ \E p \in DOMAIN asked : Free(p)
    \/ \E p \in DOMAIN asked, n \in Requests :
          ReallocInPlace(p, n) \/ ReallocMoves(p, n) \/ ReallocFails(p, n)
    \/ \E k \in Counts, n \in Requests : Calloc(k, n)

Spec == Init /\ [][Next]_vars
-----------------------------------------------------------------------------
(* The headers tile the arena after any calls, although woos_free neither
   searches the block nor looks whether it is in use (woos_mem.h:40-89). *)
UserHeapSound ==
    heap # << >> =>
        /\ Tiled(heap)
        /\ NoNeighboursFree(heap)
        /\ DOMAIN asked = {a + Header : a \in {b \in DOMAIN heap : heap[b].used}}

(* Wrapping is the only way to get less than was asked for: a size whose
   rounding, or a product that, stays inside 32 bits gets its bytes
   (woos_mem.h:47, 141). *)
EnoughUnlessWrapped ==
    \A p \in DOMAIN asked :
        asked[p] + Align <= Width => Payload(heap, p - Header) >= asked[p]
=============================================================================
