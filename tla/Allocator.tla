------------------------------ MODULE Allocator ------------------------------
(***************************************************************************)
(* What a heap promises: an allocation is a region of the arena that       *)
(* overlaps no other, it stays until it is freed, and a reallocation keeps *)
(* what was written into it.  live maps the first byte of a region to its  *)
(* last and to what its owner has written into its first bytes.            *)
(***************************************************************************)
EXTENDS Naturals, FiniteSetsExt

CONSTANTS Bytes, Values

VARIABLE live

Init == live = [p \in {} |-> 0]

Alloc == \E p \in Bytes :
    /\ DOMAIN live' = DOMAIN live \cup {p}
    /\ \E q \in p .. Max(Bytes), v \in Values :
          /\ \A a \in DOMAIN live : q < a \/ live[a].last < p
          /\ live' = [a \in DOMAIN live \cup {p} |->
                         IF a = p THEN [last |-> q, value |-> v] ELSE live[a]]

Free == \E p \in DOMAIN live :
    live' = [a \in DOMAIN live \ {p} |-> live[a]]

Write == \E p \in DOMAIN live, v \in Values :
    live' = [live EXCEPT ![p].value = v]

Next == Alloc \/ Free \/ Write

Spec == Init /\ [][Next]_live
=============================================================================
