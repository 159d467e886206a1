-------------------------------- MODULE Heaps --------------------------------
(***************************************************************************)
(* Pages and page tables, the heap of the kernel and the heap a program    *)
(* carries in its own memory, side by side.  They share no state: a step   *)
(* of one leaves the others alone.                                         *)
(***************************************************************************)
EXTENDS Memory

CONSTANTS KArena, KHeader, KAlign,              \* KHeap
          Threads, KRequests, Values, MaxLive,
          UArena, UHeader, UAlign,              \* UserHeap
          Width, URequests, Counts

VARIABLES heap, used, val, owned, busy,
          uheap, asked

K == INSTANCE KHeap WITH
    Arena <- KArena, Header <- KHeader, Align <- KAlign, Requests <- KRequests

U == INSTANCE UserHeap WITH
    Arena <- UArena, Header <- UHeader, Align <- UAlign, Requests <- URequests, heap <- uheap

ASSUME HeapsAssumption ==
    /\ K!HeapShape /\ K!SmallRequests
    /\ U!HeapShape /\ U!WrapAbove
    /\ Width \in Nat /\ URequests \subseteq Nat /\ Counts \subseteq Nat

heapVars == <<heap, used, val, owned, busy>>
userVars == <<uheap, asked>>
heapsVars == <<vars, heapVars, userVars>>

HeapsInit == Init /\ K!Init /\ U!Init

PageStep == Next /\ UNCHANGED <<heapVars, userVars>>
KernelStep == K!Next /\ UNCHANGED <<vars, userVars>>
ProgramStep == U!Next /\ UNCHANGED <<vars, heapVars>>

HeapsNext == PageStep \/ KernelStep \/ ProgramStep

HeapsSpec == HeapsInit /\ [][HeapsNext]_heapsVars
-------------------------------------------------------------------------------
(* The headers tile both heaps after any calls, the kernel's heap counts what
   is in use, and a program gets less than it asked for only when a size wraps
   (kheap.c:44-154, woos_mem.h:40-141). *)
HeapsSound == K!HeapSound /\ U!UserHeapSound /\ U!EnoughUnlessWrapped

(* The kernel's heap is an allocator of disjoint blocks that keep what is
   written, and a reallocation takes the contents along, whatever other
   threads do between its sections, and leaves the old block alone when it
   fails (kheap.c:44-154). *)
HeapImplemented == K!ImplementsAllocator /\ K!ReallocKeeps
===============================================================================
