------------------------------ MODULE MCMemory ------------------------------
(***************************************************************************)
(* The page allocator with the page tables, the kernel's heap and a        *)
(* program's heap.  They share no state: a behaviour exercises one part.   *)
(***************************************************************************)
EXTENDS Heaps

VARIABLE part

Part(b, n, u) == [base |-> b, length |-> n, usable |-> u]

(* No map; two regions that cut pages in two; two that overlap. *)
SmallMaps == {<< >>,
              <<Part(0, 7, TRUE), Part(7, 2, FALSE), Part(9, 11, TRUE)>>,
              <<Part(0, 17, TRUE), Part(15, 5, TRUE)>>}

TwoPages == {<<1, 0, 0>>, <<1, 1, 1>>}

PartsInit ==
    /\ HeapsInit
    /\ \/ part = "pages"
       \/ part \in {"kheap", "uheap"} /\ ~pmm.ready

PartsNext ==
    /\ UNCHANGED part
    /\ \/ part = "pages" /\ PageStep
       \/ part = "kheap" /\ KernelStep
       \/ part = "uheap" /\ ProgramStep

PartsSpec == PartsInit /\ [][PartsNext]_<<part, heapsVars>>
=============================================================================
