------------------------------ MODULE FreeList ------------------------------
(***************************************************************************)
(* What the kernel's heap (kheap.c) and the programs' heap (woos_mem.h)    *)
(* have in common: block headers at addresses of one arena, linked in the  *)
(* order of the addresses.  A list is a function from header addresses to  *)
(* headers; End stands for the null pointer at its end.                    *)
(***************************************************************************)
EXTENDS Naturals, FiniteSets, FiniteSetsExt

CONSTANTS Arena,        \* bytes of the arena
          Header,       \* sizeof of the block header
          Align         \* rounding of a request

End == Arena

(* Assumed of the constants: headers keep the alignment. *)
HeapShape ==
    /\ Arena \in Nat /\ Header \in Nat \ {0} /\ Align \in Nat \ {0}
    /\ Arena > Header /\ Header % Align = 0 /\ Arena % Align = 0

Header0 == [size |-> Arena, next |-> End, used |-> FALSE]

Rounded(n) == ((n + Align - 1) \div Align) * Align

Payload(h, a) == IF h[a].size <= Header THEN 0 ELSE h[a].size - Header

Fitting(h, need) == {a \in DOMAIN h : ~h[a].used /\ Payload(h, a) >= need}

(* Block a is used for need bytes; what is left becomes a block of its own
   when it is worth a header and the smallest payload. *)
Carved(h, a, need) ==
    LET rest == Payload(h, a) - need
        b    == a + Header + need
    IN  IF rest < Header + Align THEN [h EXCEPT ![a].used = TRUE]
        ELSE [c \in DOMAIN h \cup {b} |->
                 CASE c = b -> [size |-> rest, next |-> h[a].next, used |-> FALSE]
                   [] c = a -> [size |-> Header + need, next |-> b, used |-> TRUE]
                   [] OTHER -> h[c]]

(* A block goes into the one before it when both are free and touch. *)
Joins(h, b) ==
    \E a \in DOMAIN h : h[a].next = b /\ a + h[a].size = b /\ ~h[a].used /\ ~h[b].used
Remaining(h) == {b \in DOMAIN h : ~Joins(h, b)}
LastOf(h, a) ==
    Max({b \in DOMAIN h : a <= b /\ \A c \in Remaining(h) : c <= a \/ b < c})

(* Every run of free blocks that touch becomes one; as they touch, their sizes
   add up to the end of the last. *)
Joined(h) ==
    [a \in Remaining(h) |->
        [size |-> LastOf(h, a) + h[LastOf(h, a)].size - a,
         next |-> h[LastOf(h, a)].next,
         used |-> h[a].used]]

(* The blocks follow each other without a gap or an overlap from the start of
   the arena to its end, each with its payload at an aligned address. *)
Tiled(h) ==
    /\ 0 \in DOMAIN h
    /\ \A a \in DOMAIN h :
          /\ a % Align = 0 /\ h[a].size >= Header
          /\ h[a].next = a + h[a].size
          /\ h[a].next \in DOMAIN h \cup {End}
          /\ \A b \in DOMAIN h : a < b => h[a].next <= b

NoNeighboursFree(h) ==
    \A a \in DOMAIN h : h[a].next # End => h[a].used \/ h[h[a].next].used
=============================================================================
