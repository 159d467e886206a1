--------------------------- MODULE AddressSpaces ---------------------------
(***************************************************************************)
(* What vmm.c promises: every address space is a table of its own from     *)
(* user pages to frames.  A call works on the space it names and on no     *)
(* other; mapping may fail for want of memory and then changes nothing.    *)
(***************************************************************************)
EXTENDS Naturals

CONSTANTS Roots,        \* names of address spaces (their PML4 frames)
          UserPages,    \* virtual pages above 4 GiB
          Frames        \* physical frames; 0 is "not mapped"

VARIABLE maps           \* live spaces -> (virtual page -> frame or 0)

Empty == [v \in UserPages |-> 0]

Init == maps = [s \in {} |-> Empty]

Create(s) ==
    /\ s \notin DOMAIN maps
    /\ maps' = [t \in DOMAIN maps \cup {s} |-> IF t = s THEN Empty ELSE maps[t]]

Map(s, v, f) ==
    /\ s \in DOMAIN maps
    /\ maps' = [maps EXCEPT ![s][v] = f]

Unmap(s, v) == Map(s, v, 0)

Destroy(s) ==
    /\ s \in DOMAIN maps
    /\ maps' = [t \in DOMAIN maps \ {s} |-> maps[t]]

Next == \E s \in Roots :
    \/ Create(s)
    \/ Destroy(s)
    \/ \E v \in UserPages : Unmap(s, v) \/ \E f \in Frames : Map(s, v, f)

Spec == Init /\ [][Next]_maps
=============================================================================
