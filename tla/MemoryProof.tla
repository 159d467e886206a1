----------------------------- MODULE MemoryProof -----------------------------
(***************************************************************************)
(* Proofs about physical pages and page tables, and about the heap of the  *)
(* kernel and the one of a program, for any number of pages, any memory    *)
(* map, any number of spaces and any shape of the tables, any arena, size  *)
(* of the headers, alignment, requests and threads.                        *)
(*                                                                         *)
(* The tables of all spaces are four sets of pages, one per level.  What   *)
(* keeps them apart is said level by level: within a level no two entries  *)
(* point to the same table, and the levels have no page in common.  That   *)
(* the spaces share nothing follows from this, and each operation disturbs *)
(* it at one entry.                                                        *)
(*                                                                         *)
(* A heap is a chain of headers.  Taking a block splits one, giving it     *)
(* back joins the runs of free ones: what both keep is shown once, for any *)
(* arena, and serves the two heaps.                                        *)
(***************************************************************************)
EXTENDS Heaps, TLAPS, WellFoundedInduction, FiniteSetTheorems, FunctionTheorems

-----------------------------------------------------------------------------
(* The page allocator *)

Pmm == [bitmap : SUBSET Pages, total : Nat, free : Nat, last : Pages, ready : BOOLEAN]

(* Reserved pages have their bit set for ever. *)
Kept(p) == p \in Pmm /\ Reserved \subseteq p.bitmap

(* The count of free pages moves with the bitmap. *)
InStep(p, q) == q.free + Cardinality(Clear(p)) = p.free + Cardinality(Clear(q))

\* Page numbers are naturals, and there are finitely many.
LEMMA PageFacts ==
  /\ Pages \subseteq Nat /\ IsFiniteSet(Pages) /\ 0 \in Reserved /\ Reserved \subseteq Pages
  /\ \A p : Clear(p) \subseteq Pages /\ IsFiniteSet(Clear(p))
  /\ \A p : Cardinality(Clear(p)) \in Nat
<1>1. Pages \subseteq Nat /\ IsFiniteSet(Pages)
  BY MemoryAssumption, FS_Interval DEF Pages
<1>2. 0 \in Reserved /\ Reserved \subseteq Pages
  BY MemoryAssumption DEF Reserved
<1>3. ASSUME NEW p PROVE Clear(p) \subseteq Pages /\ IsFiniteSet(Clear(p))
  BY <1>1, FS_Subset DEF Clear
<1>4. ASSUME NEW p PROVE Cardinality(Clear(p)) \in Nat
  BY <1>3, FS_CardinalityType
<1> QED BY <1>1, <1>2, <1>3, <1>4

\* Min of a set of page numbers is its least element.
LEMMA MinFacts ==
  ASSUME NEW S \in SUBSET Nat, S # {}
  PROVE  Min(S) \in S /\ \A x \in S : Min(S) <= x
<1> DEFINE R == {p \in Nat \X Nat : p[1] < p[2]}
<1>1. IsWellFoundedOn(R, Nat)
  <2>1. R = OpToRel(<, Nat)
    BY DEF OpToRel
  <2> QED BY <2>1, NatLessThanWellFounded
<1>2. PICK x \in S : \A y \in S : ~ (<<y, x>> \in R)
  BY <1>1, WFMin
<1>3. x \in Nat /\ \A y \in S : y \in Nat /\ ~ (y < x)
  BY <1>2
<1>4. \E i \in S : \A j \in S : i <= j
  BY <1>3
<1> QED BY <1>4 DEF Min

\* pmm_alloc_page finds a page that is free and never page 0.
LEMMA FoundFacts ==
  ASSUME NEW p, Kept(p), CanAlloc(p)
  PROVE  Found(p) \in Clear(p) /\ Found(p) \in Pages \ Reserved /\ Found(p) # 0
<1> DEFINE up == {i \in Clear(p) : i >= p.last}
<1>1. Clear(p) \in SUBSET Nat /\ up \in SUBSET Nat /\ Clear(p) # {}
  BY PageFacts DEF CanAlloc
<1>2. CASE up # {}
  <2>1. Min(up) \in up
    BY <1>1, <1>2, MinFacts
  <2>2. Found(p) = Min(up)
    BY <1>2 DEF Found
  <2> QED BY <2>1, <2>2, PageFacts DEF Kept, Clear
<1>3. CASE up = {}
  <2>1. Found(p) \in Clear(p)
    BY <1>1, <1>3, MinFacts DEF Found
  <2> QED BY <2>1, PageFacts DEF Kept, Clear
<1> QED BY <1>2, <1>3

\* pmm_alloc_page sets one bit and counts one page less.
LEMMA TakenFacts ==
  ASSUME NEW p, Kept(p), CanAlloc(p)
  PROVE  /\ Kept(Taken(p)) /\ Taken(p).ready = p.ready
         /\ Taken(p).bitmap = p.bitmap \cup {Found(p)}
         /\ Clear(Taken(p)) = Clear(p) \ {Found(p)}
         /\ InStep(p, Taken(p))
<1>1. Found(p) \in Clear(p) /\ Found(p) \in Pages
  BY FoundFacts
<1>2. p.free \in Nat /\ p.free # 0 /\ p \in Pmm
  BY DEF Kept, Pmm, CanAlloc
<1>3. Kept(Taken(p)) /\ Taken(p).ready = p.ready /\ Taken(p).free = p.free - 1
      /\ Taken(p).bitmap = p.bitmap \cup {Found(p)}
  <2>1. p.bitmap \cup {Found(p)} \in SUBSET Pages /\ p.free - 1 \in Nat
    BY <1>1, <1>2 DEF Pmm
  <2>2. /\ Taken(p) \in Pmm /\ Taken(p).ready = p.ready /\ Taken(p).free = p.free - 1
        /\ Taken(p).bitmap = p.bitmap \cup {Found(p)}
    <3> DEFINE b == p.bitmap \cup {Found(p)}
               f == p.free - 1
               l == Found(p)
    <3>1. Taken(p) = [p EXCEPT !.bitmap = b, !.free = f, !.last = l]
      BY DEF Taken
    <3>2. b \in SUBSET Pages /\ f \in Nat /\ l \in Pages
      BY <1>1, <2>1
    <3> HIDE DEF b, f, l
    <3>3. Taken(p) \in Pmm /\ Taken(p).bitmap = b /\ Taken(p).free = f /\ Taken(p).ready = p.ready
      BY <1>2, <3>1, <3>2 DEF Pmm
    <3> QED BY <3>3 DEF b, f
  <2> QED BY <2>2 DEF Kept
<1>4. Clear(Taken(p)) = Clear(p) \ {Found(p)}
  BY <1>3 DEF Clear
<1>5. Cardinality(Clear(Taken(p))) = Cardinality(Clear(p)) - 1 /\ Cardinality(Clear(p)) \in Nat
  BY <1>1, <1>4, PageFacts, FS_RemoveElement
<1>6. InStep(p, Taken(p))
  BY <1>2, <1>3, <1>5 DEF InStep
<1> QED BY <1>3, <1>4, <1>6

\* Pages whose bits were set and that are not reserved become free again.
LEMMA GivenBack ==
  ASSUME NEW p, Kept(p), NEW q, Kept(q), NEW S \in SUBSET (p.bitmap \ Reserved),
         q.bitmap = p.bitmap \ S, q.free = p.free + Cardinality(S)
  PROVE  Clear(q) = Clear(p) \cup S /\ InStep(p, q)
<1>1. p.bitmap \subseteq Pages /\ p.free \in Nat
  BY DEF Kept, Pmm
<1>2. Clear(q) = Clear(p) \cup S /\ Clear(p) \cap S = {} /\ S \subseteq Pages
  BY <1>1 DEF Clear
<1>3. IsFiniteSet(S) /\ IsFiniteSet(Clear(p)) /\ Cardinality(S) \in Nat /\ Cardinality(Clear(p)) \in Nat
  BY <1>2, PageFacts, FS_Subset, FS_CardinalityType
<1>4. Cardinality(Clear(q)) = Cardinality(Clear(p)) + Cardinality(S)
  <2>1. Cardinality(Clear(p) \cup S)
          = Cardinality(Clear(p)) + Cardinality(S) - Cardinality(Clear(p) \cap S)
    BY <1>3, FS_Union
  <2>2. Cardinality(Clear(p) \cap S) = 0
    BY <1>2, FS_EmptySet
  <2> QED BY <1>2, <1>3, <2>1, <2>2
<1> QED BY <1>1, <1>2, <1>3, <1>4 DEF InStep

\* pmm_free_page on pages that were handed out clears their bits and counts them.
LEMMA FreedFacts ==
  ASSUME NEW p, Kept(p), p.ready, NEW S \in SUBSET (p.bitmap \ Reserved)
  PROVE  /\ Kept(Freed(p, S)) /\ Freed(p, S).ready = p.ready
         /\ Freed(p, S).bitmap = p.bitmap \ S
         /\ Clear(Freed(p, S)) = Clear(p) \cup S
         /\ InStep(p, Freed(p, S))
<1> DEFINE given == {i \in S : i \in p.bitmap \ Reserved}
<1>1. given = S /\ S \subseteq Pages /\ IsFiniteSet(S) /\ Cardinality(S) \in Nat
  <2>1. S \subseteq Pages
    BY DEF Kept, Pmm
  <2> QED BY <2>1, PageFacts, FS_Subset, FS_CardinalityType
<1>2. Freed(p, S) = [p EXCEPT !.bitmap = @ \ S, !.free = @ + Cardinality(S),
                              !.last = Min(S \cup {@})]
  <2> HIDE DEF given
  <2>1. Freed(p, S) = [p EXCEPT !.bitmap = @ \ given, !.free = @ + Cardinality(given),
                              !.last = Min(given \cup {@})]
    BY DEF Freed, given
  <2> QED BY <1>1, <2>1
<1>3. Min(S \cup {p.last}) \in Pages
  <2>1. S \cup {p.last} \in SUBSET Nat /\ S \cup {p.last} \subseteq Pages
    BY <1>1, PageFacts DEF Kept, Pmm
  <2> QED BY <2>1, MinFacts
<1>4. /\ Kept(Freed(p, S)) /\ Freed(p, S).ready = p.ready /\ Freed(p, S).bitmap = p.bitmap \ S
      /\ Freed(p, S).free = p.free + Cardinality(S)
  <2>1. p \in Pmm /\ p.bitmap \ S \in SUBSET Pages /\ p.free + Cardinality(S) \in Nat
    BY <1>1 DEF Kept, Pmm
  <2>2. /\ Freed(p, S) \in Pmm /\ Freed(p, S).ready = p.ready
        /\ Freed(p, S).bitmap = p.bitmap \ S /\ Freed(p, S).free = p.free + Cardinality(S)
    <3> DEFINE b == p.bitmap \ S
               f == p.free + Cardinality(S)
               l == Min(S \cup {p.last})
               q == Freed(p, S)
    <3>1. q = [p EXCEPT !.bitmap = b, !.free = f, !.last = l]
      BY <1>2
    <3>2. p \in Pmm /\ b \in SUBSET Pages /\ f \in Nat /\ l \in Pages
      BY <1>3, <2>1
    <3> HIDE DEF b, f, l, q
    <3>3. q \in Pmm /\ q.bitmap = b /\ q.free = f /\ q.ready = p.ready
      BY <3>1, <3>2 DEF Pmm
    <3> QED BY <3>3 DEF b, f, q
  <2> QED BY <2>2 DEF Kept
<1> QED BY <1>4, GivenBack

(* The pages of a run. *)
Span(r) == r[1] .. r[1] + r[2] - 1

\* pmm_alloc_pages_multi sets the bits of a run of free pages.
LEMMA TakenRunFacts ==
  ASSUME NEW p, Kept(p), NEW n \in RunSizes, CanAllocRun(p, n)
  PROVE  LET r == <<Min(RunsFound(p, n)), n>>
         IN  /\ r \in Pages \X RunSizes /\ Span(r) \subseteq Clear(p)
             /\ Kept(TakenRun(p, n)) /\ TakenRun(p, n).ready = p.ready
             /\ TakenRun(p, n).bitmap = p.bitmap \cup Span(r)
             /\ Clear(TakenRun(p, n)) = Clear(p) \ Span(r)
             /\ InStep(p, TakenRun(p, n))
<1> DEFINE first == Min(RunsFound(p, n))
           r == <<first, n>>
<1>1. first \in RunsFound(p, n)
  BY PageFacts, MinFacts DEF CanAllocRun, RunsFound
<1>2. first \in Pages /\ first \in Nat /\ n \in Nat /\ n # 0 /\ Span(r) = first .. first + n - 1
      /\ Span(r) \subseteq Clear(p)
  BY <1>1, PageFacts, MemoryAssumption DEF RunsFound, Span
<1> HIDE DEF first
<1>3. p.free \in Nat /\ p.free >= n /\ p \in Pmm
  BY DEF Kept, Pmm, CanAllocRun
<1>4. /\ Kept(TakenRun(p, n)) /\ TakenRun(p, n).ready = p.ready
      /\ TakenRun(p, n).free = p.free - n /\ TakenRun(p, n).bitmap = p.bitmap \cup Span(r)
  <2>1. TakenRun(p, n) = [p EXCEPT !.bitmap = @ \cup Span(r), !.free = @ - n]
    BY <1>2 DEF TakenRun, first
  <2>2. p.bitmap \cup Span(r) \in SUBSET Pages
    BY <1>2, <1>3, PageFacts DEF Pmm
  <2>3. p.free - n \in Nat
    BY <1>2, <1>3
  <2>4. /\ TakenRun(p, n) \in Pmm /\ TakenRun(p, n).ready = p.ready
        /\ TakenRun(p, n).free = p.free - n /\ TakenRun(p, n).bitmap = p.bitmap \cup Span(r)
    <3> DEFINE b == p.bitmap \cup Span(r)
               f == p.free - n
               q == TakenRun(p, n)
    <3>1. q = [p EXCEPT !.bitmap = b, !.free = f]
      BY <2>1
    <3>2. b \in SUBSET Pages /\ f \in Nat /\ p.last \in Pages
      BY <1>3, <2>2, <2>3 DEF Pmm
    <3> HIDE DEF b, f, q
    <3>3. q \in Pmm /\ q.bitmap = b /\ q.free = f /\ q.ready = p.ready
      BY <1>3, <3>1, <3>2 DEF Pmm
    <3> QED BY <3>3 DEF b, f, q
  <2> QED BY <2>4 DEF Kept
<1>5. Clear(TakenRun(p, n)) = Clear(p) \ Span(r)
  BY <1>4 DEF Clear
<1>6. Cardinality(Clear(p) \ Span(r)) = Cardinality(Clear(p)) - n /\ Cardinality(Clear(p)) \in Nat
  <2>1. Cardinality(Span(r)) = n
    BY <1>2, FS_Interval
  <2>2. Clear(p) \cap Span(r) = Span(r)
    BY <1>2
  <2> HIDE DEF r
  <2>3. Cardinality(Clear(p) \ Span(r)) = Cardinality(Clear(p)) - Cardinality(Clear(p) \cap Span(r))
    BY PageFacts, FS_Difference
  <2> QED BY <2>1, <2>2, <2>3, PageFacts
<1>7. InStep(p, TakenRun(p, n))
  BY <1>2, <1>3, <1>4, <1>5, <1>6 DEF InStep
<1> QED BY <1>2, <1>4, <1>5, <1>7 DEF first

\* pmm_free_pages_multi gives a whole run back.
LEMMA FreedRunFacts ==
  ASSUME NEW p, Kept(p), NEW r, Span(r) \subseteq p.bitmap \ Reserved
  PROVE  /\ Kept(FreedRun(p, r)) /\ FreedRun(p, r).ready = p.ready
         /\ FreedRun(p, r).bitmap = p.bitmap \ Span(r)
         /\ Clear(FreedRun(p, r)) = Clear(p) \cup Span(r)
         /\ InStep(p, FreedRun(p, r))
<1>1. Span(r) \cap p.bitmap = Span(r) /\ Cardinality(Span(r)) \in Nat
  <2>1. Span(r) \subseteq Pages
    BY DEF Kept, Pmm
  <2> QED BY <2>1, PageFacts, FS_Subset, FS_CardinalityType
<1>2. FreedRun(p, r) = [p EXCEPT !.bitmap = @ \ Span(r), !.free = @ + Cardinality(Span(r))]
  BY <1>1 DEF FreedRun, Span
<1> HIDE DEF Span
<1>3. /\ Kept(FreedRun(p, r)) /\ FreedRun(p, r).ready = p.ready
      /\ FreedRun(p, r).bitmap = p.bitmap \ Span(r)
      /\ FreedRun(p, r).free = p.free + Cardinality(Span(r))
  <2>1. p \in Pmm /\ p.bitmap \ Span(r) \in SUBSET Pages
        /\ p.free + Cardinality(Span(r)) \in Nat
    BY <1>1 DEF Kept, Pmm
  <2>2. /\ FreedRun(p, r) \in Pmm /\ FreedRun(p, r).ready = p.ready
        /\ FreedRun(p, r).bitmap = p.bitmap \ Span(r)
        /\ FreedRun(p, r).free = p.free + Cardinality(Span(r))
    <3> DEFINE b == p.bitmap \ Span(r)
               f == p.free + Cardinality(Span(r))
               q == FreedRun(p, r)
    <3>1. q = [p EXCEPT !.bitmap = b, !.free = f]
      BY <1>2
    <3>2. b \in SUBSET Pages /\ f \in Nat /\ p.last \in Pages
      BY <2>1 DEF Pmm
    <3> HIDE DEF b, f, q
    <3>3. q \in Pmm /\ q.bitmap = b /\ q.free = f /\ q.ready = p.ready
      BY <2>1, <3>1, <3>2 DEF Pmm
    <3> QED BY <3>3 DEF b, f, q
  <2> QED BY <2>2 DEF Kept
<1> QED BY <1>3, GivenBack

\* Two calls that keep the count in step keep it together.
LEMMA InStepTwice ==
  ASSUME NEW p, NEW q, NEW r, Kept(p), Kept(q), Kept(r), InStep(p, q), InStep(q, r)
  PROVE  InStep(p, r)
<1>1. p.free \in Nat /\ q.free \in Nat /\ r.free \in Nat
  BY DEF Kept, Pmm
<1> QED BY <1>1, PageFacts DEF InStep

-----------------------------------------------------------------------------
(* The tables: m stands for the contents of the pages, S for the PML4s. *)

Mem == [Pages -> [Slots -> Pages]]
User == UserFrom .. High

Pdpts(m, S) == {m[s][0] : s \in S}
Pds(m, S)   == {m[d][i] : d \in Pdpts(m, S), i \in User} \ {0}
Pts(m, S)   == {m[d][j] : d \in Pds(m, S), j \in Slots} \ {0}
Tables(m, S) == S \cup Pdpts(m, S) \cup Pds(m, S) \cup Pts(m, S)

(* A table is where it is once, and on one level. *)
Tree(m, S) ==
  /\ 0 \notin S \cup Pdpts(m, S)
  /\ \A s, t \in S : m[s][0] = m[t][0] => s = t
  /\ \A d, e \in Pdpts(m, S) : \A i, k \in User :
       m[d][i] # 0 /\ m[d][i] = m[e][k] => d = e /\ i = k
  /\ \A d, e \in Pds(m, S) : \A j, k \in Slots :
       m[d][j] # 0 /\ m[d][j] = m[e][k] => d = e /\ j = k
  /\ S \cap Pdpts(m, S) = {}
  /\ (S \cup Pdpts(m, S)) \cap Pds(m, S) = {}
  /\ (S \cup Pdpts(m, S) \cup Pds(m, S)) \cap Pts(m, S) = {}

(* The tables on the way to v, and the frame they have for it, as Phys finds them. *)
PdOf(m, s, v) == m[m[s][0]][v[1]]
PtOf(m, s, v) == IF PdOf(m, s, v) = 0 THEN 0 ELSE m[PdOf(m, s, v)][v[2]]
FrameIn(m, s, v) == IF PtOf(m, s, v) = 0 THEN 0 ELSE m[PtOf(m, s, v)][v[3]]

\* Indices of tables, and the blank table.
LEMMA Shapes ==
  /\ User \subseteq Slots /\ 0 \in Slots /\ Slots \subseteq Nat /\ IsFiniteSet(Slots)
  /\ \A v \in UserPages : v[1] \in User /\ v[1] \in Slots /\ v[2] \in Slots /\ v[3] \in Slots
  /\ Blank \in [Slots -> Pages] /\ \A i \in Slots : Blank[i] = 0
<1>1. User \subseteq Slots /\ 0 \in Slots /\ Slots \subseteq Nat
  BY MemoryAssumption DEF User, Slots
<1>2. IsFiniteSet(Slots)
  BY MemoryAssumption, FS_Interval DEF Slots
<1>3. \A v \in UserPages : v[1] \in User /\ v[2] \in Slots /\ v[3] \in Slots
  BY MemoryAssumption DEF User
<1>4. Blank \in [Slots -> Pages] /\ \A i \in Slots : Blank[i] = 0
  BY PageFacts DEF Blank
<1> QED BY <1>1, <1>2, <1>3, <1>4

\* The levels are pages.
LEMMA Levels ==
  ASSUME NEW m \in Mem, NEW S \in SUBSET Pages
  PROVE  /\ Pdpts(m, S) \subseteq Pages /\ Pds(m, S) \subseteq Pages /\ Pts(m, S) \subseteq Pages
         /\ Tables(m, S) \subseteq Pages /\ 0 \notin Pds(m, S) \cup Pts(m, S)
         /\ \A s \in S : m[s][0] \in Pdpts(m, S)
         /\ \A d \in Pdpts(m, S), i \in User : m[d][i] \in Pds(m, S) \cup {0}
         /\ \A d \in Pds(m, S), j \in Slots : m[d][j] \in Pts(m, S) \cup {0}
<1>1. Pdpts(m, S) \subseteq Pages
  BY Shapes DEF Mem, Pdpts
<1>2. Pds(m, S) \subseteq Pages
  BY <1>1, Shapes DEF Mem, Pds
<1>3. Pts(m, S) \subseteq Pages
  BY <1>2, Shapes DEF Mem, Pts
<1>4. 0 \notin Pds(m, S) \cup Pts(m, S)
  BY DEF Pds, Pts
<1>5. /\ \A s \in S : m[s][0] \in Pdpts(m, S)
      /\ \A d \in Pdpts(m, S), i \in User : m[d][i] \in Pds(m, S) \cup {0}
      /\ \A d \in Pds(m, S), j \in Slots : m[d][j] \in Pts(m, S) \cup {0}
  BY DEF Pdpts, Pds, Pts
<1> QED BY <1>1, <1>2, <1>3, <1>4, <1>5 DEF Tables

\* The tables on the way to a page are on their levels.
LEMMA Ways ==
  ASSUME NEW m \in Mem, NEW S \in SUBSET Pages, NEW s \in S, NEW v \in UserPages
  PROVE  /\ m[s][0] \in Pdpts(m, S) /\ v[1] \in User /\ v[2] \in Slots /\ v[3] \in Slots
         /\ PdOf(m, s, v) = 0 \/ PdOf(m, s, v) \in Pds(m, S)
         /\ PtOf(m, s, v) = 0 \/ (PtOf(m, s, v) \in Pts(m, S) /\ PdOf(m, s, v) \in Pds(m, S))
<1>1. m[s][0] \in Pdpts(m, S) /\ v[1] \in User /\ v[2] \in Slots /\ v[3] \in Slots
  BY Levels, Shapes
<1>2. PdOf(m, s, v) = 0 \/ PdOf(m, s, v) \in Pds(m, S)
  BY <1>1 DEF PdOf, Pds
<1>3. PtOf(m, s, v) = 0 \/ (PtOf(m, s, v) \in Pts(m, S) /\ PdOf(m, s, v) \in Pds(m, S))
  BY <1>1, <1>2 DEF PtOf, Pts
<1> QED BY <1>1, <1>2, <1>3

\* Only the tables matter: what is written to other pages or into page tables at the
\* last level changes neither the tree nor where its tables are.
LEMMA OffTheTree ==
  ASSUME NEW m \in Mem, NEW w \in Mem, NEW S \in SUBSET Pages,
         \A x \in S \cup Pdpts(m, S) \cup Pds(m, S) : w[x] = m[x]
  PROVE  /\ Pdpts(w, S) = Pdpts(m, S) /\ Pds(w, S) = Pds(m, S) /\ Pts(w, S) = Pts(m, S)
         /\ Tables(w, S) = Tables(m, S) /\ (Tree(m, S) => Tree(w, S))
<1>1. Pdpts(w, S) = Pdpts(m, S)
  BY DEF Pdpts
<1>2. Pds(w, S) = Pds(m, S)
  BY <1>1 DEF Pds
<1>3. Pts(w, S) = Pts(m, S)
  BY <1>2 DEF Pts
<1>4. Tree(m, S) => Tree(w, S)
  BY <1>1, <1>2, <1>3 DEF Tree
<1> QED BY <1>1, <1>2, <1>3, <1>4 DEF Tables

\* A frame is found through tables only.
LEMMA SameFrames ==
  ASSUME NEW m \in Mem, NEW w \in Mem, NEW S \in SUBSET Pages,
         \A x \in Tables(m, S) : w[x] = m[x]
  PROVE  \A s \in S, v \in UserPages : FrameIn(w, s, v) = FrameIn(m, s, v)
<1> SUFFICES ASSUME NEW s \in S, NEW v \in UserPages
             PROVE  FrameIn(w, s, v) = FrameIn(m, s, v)
  OBVIOUS
<1>1. s \in Tables(m, S) /\ m[s][0] \in Tables(m, S)
  BY Ways DEF Tables
<1>2. PdOf(w, s, v) = PdOf(m, s, v)
  BY <1>1 DEF PdOf
<1>3. PdOf(m, s, v) # 0 => w[PdOf(m, s, v)] = m[PdOf(m, s, v)]
  BY Ways DEF Tables
<1>4. PtOf(w, s, v) = PtOf(m, s, v)
  BY <1>2, <1>3 DEF PtOf
<1>5. PtOf(m, s, v) # 0 => w[PtOf(m, s, v)] = m[PtOf(m, s, v)]
  BY Ways DEF Tables
<1> QED BY <1>4, <1>5 DEF FrameIn

(* A blank table n linked at an entry of d that was empty. *)
Link(m, w, n, d, i) ==
  /\ w \in Mem
  /\ \A x \in Pages \ {n, d} : w[x] = m[x]
  /\ \A k \in Slots : w[n][k] = 0
  /\ w[d][i] = n
  /\ \A k \in Slots \ {i} : w[d][k] = m[d][k]

\* A page directory linked into the second level.
LEMMA LinkPd ==
  ASSUME NEW m \in Mem, NEW S \in SUBSET Pages, Tree(m, S), NEW w,
         NEW n \in Pages \ {0}, n \notin Tables(m, S),
         NEW d \in Pdpts(m, S), NEW i \in User, m[d][i] = 0,
         Link(m, w, n, d, i)
  PROVE  /\ Tree(w, S) /\ Pdpts(w, S) = Pdpts(m, S) /\ Pds(w, S) = Pds(m, S) \cup {n}
         /\ Pts(w, S) = Pts(m, S) /\ w[d][i] = n
         /\ \A s \in S : w[s] = m[s]
         /\ \A s \in S, v \in UserPages : FrameIn(w, s, v) = FrameIn(m, s, v)
<1>1. /\ n \notin S /\ n \notin Pdpts(m, S) /\ n \notin Pds(m, S) /\ n \notin Pts(m, S)
      /\ d \notin S /\ d \notin Pds(m, S) /\ d \notin Pts(m, S) /\ d # n /\ d \in Pages
      /\ i \in Slots
  BY Levels, Shapes DEF Tables, Tree
<1>2. \A s \in S : w[s] = m[s]
  BY <1>1 DEF Link
<1>3. Pdpts(w, S) = Pdpts(m, S)
  BY <1>2 DEF Pdpts
<1>4. \A e \in Pdpts(m, S), k \in User : w[e][k] = IF e = d /\ k = i THEN n ELSE m[e][k]
  BY <1>1, Levels, Shapes DEF Link
<1>5. Pds(w, S) = Pds(m, S) \cup {n}
  BY <1>3, <1>4 DEF Pds
<1>6. \A e \in Pds(m, S), k \in Slots : w[e][k] = m[e][k]
  BY <1>1, Levels DEF Link
<1>7. \A k \in Slots : w[n][k] = 0
  BY DEF Link
<1>8. Pts(w, S) = Pts(m, S)
  BY <1>5, <1>6, <1>7 DEF Pts
<1>9. Tree(w, S)
  <2>1. \A s, t \in S : w[s][0] = w[t][0] => s = t
    BY <1>2 DEF Tree
  <2>2. ASSUME NEW e \in Pdpts(w, S), NEW f \in Pdpts(w, S), NEW k \in User, NEW l \in User,
               w[e][k] # 0, w[e][k] = w[f][l]
        PROVE  e = f /\ k = l
    <3>1. \A g \in Pdpts(m, S), o \in User : m[g][o] # n
      BY <1>1, Levels
    <3> QED BY <1>3, <1>4, <2>2, <3>1 DEF Tree
  <2>3. ASSUME NEW e \in Pds(w, S), NEW f \in Pds(w, S), NEW k \in Slots, NEW l \in Slots,
               w[e][k] # 0, w[e][k] = w[f][l]
        PROVE  e = f /\ k = l
    BY <1>5, <1>6, <1>7, <2>3 DEF Tree
  <2>4. /\ 0 \notin S \cup Pdpts(w, S) /\ S \cap Pdpts(w, S) = {}
        /\ (S \cup Pdpts(w, S)) \cap Pds(w, S) = {}
        /\ (S \cup Pdpts(w, S) \cup Pds(w, S)) \cap Pts(w, S) = {}
    BY <1>1, <1>3, <1>5, <1>8 DEF Tree
  <2> QED BY <2>1, <2>2, <2>3, <2>4 DEF Tree
<1>10. ASSUME NEW s \in S, NEW v \in UserPages PROVE FrameIn(w, s, v) = FrameIn(m, s, v)
  <2>1. w[s][0] = m[s][0]
    BY <1>2
  <2>2. CASE m[s][0] = d /\ v[1] = i
    <3>1. PdOf(m, s, v) = 0 /\ PdOf(w, s, v) = n
      BY <2>1, <2>2 DEF PdOf, Link
    <3>2. PtOf(m, s, v) = 0 /\ PtOf(w, s, v) = 0
      BY <1>7, <3>1, Ways DEF PtOf
    <3> QED BY <3>2 DEF FrameIn
  <2>3. CASE ~(m[s][0] = d /\ v[1] = i)
    <3>1. PdOf(w, s, v) = PdOf(m, s, v)
      BY <1>4, <2>1, <2>3, Ways DEF PdOf
    <3>2. PtOf(w, s, v) = PtOf(m, s, v)
      BY <1>6, <3>1, Ways DEF PtOf
    <3>3. \A x \in Pts(m, S) : w[x] = m[x]
      BY <1>1, Levels DEF Link
    <3> QED BY <3>2, <3>3, Ways DEF FrameIn
  <2> QED BY <2>2, <2>3
<1> QED BY <1>2, <1>3, <1>5, <1>8, <1>9, <1>10 DEF Link

\* A page table linked into the third level.
LEMMA LinkPt ==
  ASSUME NEW m \in Mem, NEW S \in SUBSET Pages, Tree(m, S), NEW w,
         NEW n \in Pages \ {0}, n \notin Tables(m, S),
         NEW d \in Pds(m, S), NEW i \in Slots, m[d][i] = 0,
         Link(m, w, n, d, i)
  PROVE  /\ Tree(w, S) /\ Pdpts(w, S) = Pdpts(m, S) /\ Pds(w, S) = Pds(m, S)
         /\ Pts(w, S) = Pts(m, S) \cup {n} /\ w[d][i] = n
         /\ \A x \in S \cup Pdpts(m, S) : w[x] = m[x]
         /\ \A s \in S, v \in UserPages : FrameIn(w, s, v) = FrameIn(m, s, v)
<1>1. /\ n \notin S /\ n \notin Pdpts(m, S) /\ n \notin Pds(m, S) /\ n \notin Pts(m, S)
      /\ d \notin S /\ d \notin Pdpts(m, S) /\ d \notin Pts(m, S) /\ d # n /\ d \in Pages
  BY Levels, Shapes DEF Tables, Tree
<1>2. \A x \in S \cup Pdpts(m, S) : w[x] = m[x]
  BY <1>1, Levels DEF Link
<1>3. Pdpts(w, S) = Pdpts(m, S)
  BY <1>2 DEF Pdpts
<1>4. Pds(w, S) = Pds(m, S)
  BY <1>2, <1>3 DEF Pds
<1>5. \A e \in Pds(m, S), k \in Slots : w[e][k] = IF e = d /\ k = i THEN n ELSE m[e][k]
  BY <1>1, Levels DEF Link
<1>6. Pts(w, S) = Pts(m, S) \cup {n}
  BY <1>4, <1>5 DEF Pts
<1>7. Tree(w, S)
  <2>1. \A s, t \in S : w[s][0] = w[t][0] => s = t
    BY <1>2 DEF Tree
  <2>2. \A e, f \in Pdpts(w, S) : \A k, l \in User :
          w[e][k] # 0 /\ w[e][k] = w[f][l] => e = f /\ k = l
    BY <1>2, <1>3 DEF Tree
  <2>3. ASSUME NEW e \in Pds(w, S), NEW f \in Pds(w, S), NEW k \in Slots, NEW l \in Slots,
               w[e][k] # 0, w[e][k] = w[f][l]
        PROVE  e = f /\ k = l
    <3>1. \A g \in Pds(m, S), o \in Slots : m[g][o] # n
      BY <1>1, Levels
    <3> QED BY <1>4, <1>5, <2>3, <3>1 DEF Tree
  <2>4. /\ 0 \notin S \cup Pdpts(w, S) /\ S \cap Pdpts(w, S) = {}
        /\ (S \cup Pdpts(w, S)) \cap Pds(w, S) = {}
        /\ (S \cup Pdpts(w, S) \cup Pds(w, S)) \cap Pts(w, S) = {}
    BY <1>1, <1>3, <1>4, <1>6 DEF Tree
  <2> QED BY <2>1, <2>2, <2>3, <2>4 DEF Tree
<1>8. ASSUME NEW s \in S, NEW v \in UserPages PROVE FrameIn(w, s, v) = FrameIn(m, s, v)
  <2>1. PdOf(w, s, v) = PdOf(m, s, v)
    BY <1>2, Ways DEF PdOf
  <2>2. CASE PdOf(m, s, v) = d /\ v[2] = i
    <3>1. d # 0
      BY Levels
    <3>2. PtOf(m, s, v) = 0 /\ PtOf(w, s, v) = n
      BY <2>1, <2>2, <3>1 DEF PtOf, Link
    <3>3. w[n][v[3]] = 0
      BY Ways DEF Link
    <3> QED BY <3>2, <3>3 DEF FrameIn
  <2>3. CASE ~(PdOf(m, s, v) = d /\ v[2] = i)
    <3>1. PtOf(w, s, v) = PtOf(m, s, v)
      BY <1>5, <2>1, <2>3, Ways DEF PtOf
    <3>2. \A x \in Pts(m, S) : w[x] = m[x]
      BY <1>1, Levels DEF Link
    <3> QED BY <3>1, <3>2, Ways DEF FrameIn
  <2> QED BY <2>2, <2>3
<1> QED BY <1>2, <1>3, <1>4, <1>6, <1>7, <1>8 DEF Link
(* Entry k of page n written with f. *)
Writes(m, w, n, k, f) ==
  /\ w \in Mem
  /\ \A x \in Pages \ {n} : w[x] = m[x]
  /\ w[n][k] = f
  /\ \A i \in Slots \ {k} : w[n][i] = m[n][i]

\* What is written to an entry of a last-level table changes the frame of one page of
\* one space.
LEMMA WriteFrame ==
  ASSUME NEW m \in Mem, NEW S \in SUBSET Pages, Tree(m, S), NEW w,
         NEW s \in S, NEW v \in UserPages, NEW f \in Pages,
         PtOf(m, s, v) # 0, Writes(m, w, PtOf(m, s, v), v[3], f)
  PROVE  /\ Tree(w, S) /\ Tables(w, S) = Tables(m, S)
         /\ FrameIn(w, s, v) = f
         /\ \A t \in S, u \in UserPages :
              t # s \/ u # v => FrameIn(w, t, u) = FrameIn(m, t, u)
<1> DEFINE pt == PtOf(m, s, v)
<1>1. pt \in Pts(m, S) /\ pt \in Pages /\ PdOf(m, s, v) \in Pds(m, S) /\ PdOf(m, s, v) # 0
  BY Ways, Levels
<1>2. \A x \in S \cup Pdpts(m, S) \cup Pds(m, S) : w[x] = m[x]
  <2> HIDE DEF pt
  <2>1. \A x \in S \cup Pdpts(m, S) \cup Pds(m, S) : x \in Pages \ {pt}
    BY <1>1, Levels DEF Tree
  <2> QED BY <2>1 DEF Writes, pt
<1>3. Tree(w, S) /\ Tables(w, S) = Tables(m, S)
  BY <1>2, OffTheTree DEF Writes
<1>4. ASSUME NEW t \in S, NEW u \in UserPages
      PROVE  PtOf(w, t, u) = PtOf(m, t, u)
  <2>1. PdOf(w, t, u) = PdOf(m, t, u)
    BY <1>2, Ways DEF PdOf
  <2>2. PdOf(m, t, u) # 0 => w[PdOf(m, t, u)] = m[PdOf(m, t, u)]
    BY <1>2, Ways
  <2> QED BY <2>1, <2>2 DEF PtOf
<1>5. FrameIn(w, s, v) = f
  BY <1>4 DEF FrameIn, Writes
<1>6. ASSUME NEW t \in S, NEW u \in UserPages, PtOf(m, t, u) = pt, u[3] = v[3]
      PROVE  t = s /\ u = v
  <2>1. /\ \A d, e \in Pdpts(m, S) : \A i, k \in User :
             m[d][i] # 0 /\ m[d][i] = m[e][k] => d = e /\ i = k
        /\ \A d, e \in Pds(m, S) : \A j, k \in Slots :
             m[d][j] # 0 /\ m[d][j] = m[e][k] => d = e /\ j = k
        /\ \A x, y \in S : m[x][0] = m[y][0] => x = y
    BY DEF Tree
  <2>2. PdOf(m, t, u) \in Pds(m, S) /\ PdOf(m, t, u) # 0
    BY <1>6, Ways, Levels
  <2>3. PdOf(m, t, u) = PdOf(m, s, v) /\ u[2] = v[2]
    <3>1. m[PdOf(m, t, u)][u[2]] = m[PdOf(m, s, v)][v[2]] /\ m[PdOf(m, t, u)][u[2]] # 0
      BY <1>1, <1>6, <2>2 DEF PtOf
    <3> QED BY <1>1, <2>1, <2>2, <3>1, Ways
  <2>4. m[t][0] = m[s][0] /\ u[1] = v[1]
    <3>1. m[m[t][0]][u[1]] = m[m[s][0]][v[1]] /\ m[m[t][0]][u[1]] # 0
      BY <2>2, <2>3 DEF PdOf
    <3> QED BY <2>1, <3>1, Ways
  <2>5. t = s
    BY <2>1, <2>4
  <2>6. u \in User \X Slots \X Slots /\ v \in User \X Slots \X Slots
    BY MemoryAssumption DEF User
  <2> QED BY <1>6, <2>3, <2>4, <2>5, <2>6
<1>7. ASSUME NEW t \in S, NEW u \in UserPages, t # s \/ u # v
      PROVE  FrameIn(w, t, u) = FrameIn(m, t, u)
  <2> DEFINE q == PtOf(m, t, u)
  <2>1. q = 0 \/ (q \in Pts(m, S) /\ q \in Pages)
    BY Ways, Levels
  <2>2. q # pt \/ u[3] # v[3]
    BY <1>6, <1>7
  <2>3. q # 0 => w[q][u[3]] = m[q][u[3]]
    BY <2>1, <2>2, Ways DEF Writes
  <2> QED BY <1>4, <2>3 DEF FrameIn
<1> QED BY <1>3, <1>5, <1>7

(* A PML4 and its PDPT, on two pages that are no tables. *)
Builds(m, w, S, T, root, pdpt) ==
  /\ T = S \cup {root}
  /\ m \in Mem /\ S \in SUBSET Pages /\ Tree(m, S)
  /\ w \in Mem /\ root \in Pages \ {0} /\ pdpt \in Pages \ {0} /\ root # pdpt
  /\ {root, pdpt} \cap Tables(m, S) = {}
  /\ \A x \in Pages \ {root, pdpt} : w[x] = m[x]
  /\ w[root][0] = pdpt
  /\ \A i \in User : w[pdpt][i] = 0

\* A new space has no user page mapped, and the others keep theirs.
LEMMA NewSpace ==
  ASSUME NEW m, NEW S, NEW w, NEW root, NEW pdpt, NEW T,
         Builds(m, w, S, T, root, pdpt)
  PROVE  /\ Tree(w, T) /\ Tables(w, T) = Tables(m, S) \cup {root, pdpt}
         /\ \A s \in S, v \in UserPages : FrameIn(w, s, v) = FrameIn(m, s, v)
         /\ \A v \in UserPages : FrameIn(w, root, v) = 0
<1>0. /\ w \in Mem /\ root \in Pages \ {0} /\ pdpt \in Pages \ {0} /\ root # pdpt
      /\ root \notin Tables(m, S) /\ pdpt \notin Tables(m, S)
      /\ w[root][0] = pdpt /\ \A i \in User : w[pdpt][i] = 0
      /\ m \in Mem /\ S \in SUBSET Pages /\ Tree(m, S) /\ T = S \cup {root}
  BY DEF Builds
<1>1. \A x \in Tables(m, S) : w[x] = m[x]
  BY <1>0, Levels DEF Builds
<1>2. \A s \in S, v \in UserPages : FrameIn(w, s, v) = FrameIn(m, s, v)
  BY <1>0, <1>1, SameFrames
<1>3. ASSUME NEW v \in UserPages PROVE FrameIn(w, root, v) = 0
  <2>1. PdOf(w, root, v) = 0
    BY <1>0, Shapes DEF PdOf
  <2> QED BY <2>1 DEF FrameIn, PtOf
<1>4. Pdpts(w, T) = Pdpts(m, S) \cup {pdpt}
  BY <1>0, <1>1 DEF Pdpts, Tables
<1>5. Pds(w, T) = Pds(m, S)
  <2>1. \A d \in Pdpts(m, S), i \in User : w[d][i] = m[d][i]
    BY <1>1 DEF Tables
  <2>2. \A i \in User : w[pdpt][i] = 0
    BY <1>0
  <2>3. Pds(w, T) \subseteq Pds(m, S)
    BY <1>4, <2>1, <2>2 DEF Pds
  <2>4. Pds(m, S) \subseteq Pds(w, T)
    BY <1>4, <2>1 DEF Pds
  <2> QED BY <2>3, <2>4
<1>6. Pts(w, T) = Pts(m, S)
  <2>1. \A d \in Pds(m, S), i \in Slots : w[d][i] = m[d][i]
    BY <1>0, <1>1 DEF Tables
  <2> QED BY <1>5, <2>1 DEF Pts
<1>7. Tree(w, T)
  <2>1. /\ root \notin S /\ root \notin Pdpts(m, S) /\ root \notin Pds(m, S) /\ root \notin Pts(m, S)
        /\ pdpt \notin S /\ pdpt \notin Pdpts(m, S) /\ pdpt \notin Pds(m, S) /\ pdpt \notin Pts(m, S)
    BY <1>0 DEF Tables
  <2>2. /\ 0 \notin T \cup Pdpts(w, T)
        /\ T \cap Pdpts(w, T) = {} /\ (T \cup Pdpts(w, T)) \cap Pds(w, T) = {}
        /\ (T \cup Pdpts(w, T) \cup Pds(w, T)) \cap Pts(w, T) = {}
    <3>1. /\ 0 \notin S \cup Pdpts(m, S)
          /\ S \cap Pdpts(m, S) = {} /\ (S \cup Pdpts(m, S)) \cap Pds(m, S) = {}
          /\ (S \cup Pdpts(m, S) \cup Pds(m, S)) \cap Pts(m, S) = {}
      BY <1>0 DEF Tree
    <3> QED BY <1>0, <1>4, <1>5, <1>6, <2>1, <3>1
  <2>3. \A s, t \in T : w[s][0] = w[t][0] => s = t
    <3>1. \A s \in S : w[s][0] = m[s][0] /\ m[s][0] # pdpt
      BY <1>0, <1>1, <2>1, Levels DEF Tables
    <3> QED BY <1>0, <3>1 DEF Tree
  <2>4. ASSUME NEW d \in Pdpts(w, T), NEW e \in Pdpts(w, T), NEW i \in User, NEW k \in User,
               w[d][i] # 0, w[d][i] = w[e][k]
        PROVE  d = e /\ i = k
    <3>1. d \in Pdpts(m, S) /\ e \in Pdpts(m, S)
      BY <1>0, <1>4, <2>4
    <3>2. w[d] = m[d] /\ w[e] = m[e]
      BY <1>1, <3>1 DEF Tables
    <3> QED BY <1>0, <2>4, <3>1, <3>2 DEF Tree
  <2>5. \A d, e \in Pds(w, T) : \A i, k \in Slots :
          w[d][i] # 0 /\ w[d][i] = w[e][k] => d = e /\ i = k
    <3>1. \A d \in Pds(m, S) : w[d] = m[d]
      BY <1>0, <1>1 DEF Tables
    <3> QED BY <1>0, <1>5, <3>1 DEF Tree
  <2> QED BY <2>2, <2>3, <2>4, <2>5 DEF Tree
<1>8. Tables(w, T) = Tables(m, S) \cup {root, pdpt}
  BY <1>0, <1>4, <1>5, <1>6 DEF Tables
<1> QED BY <1>2, <1>3, <1>7, <1>8

\* The tables of some of the spaces are among those of all, level by level.
LEMMA Within ==
  ASSUME NEW m, NEW S, NEW A \in SUBSET S
  PROVE  /\ Pdpts(m, A) \subseteq Pdpts(m, S) /\ Pds(m, A) \subseteq Pds(m, S)
         /\ Pts(m, A) \subseteq Pts(m, S) /\ Tables(m, A) \subseteq Tables(m, S)
<1>1. Pdpts(m, A) \subseteq Pdpts(m, S)
  BY DEF Pdpts
<1>2. Pds(m, A) \subseteq Pds(m, S)
  BY <1>1 DEF Pds
<1>3. Pts(m, A) \subseteq Pts(m, S)
  BY <1>2 DEF Pts
<1> QED BY <1>1, <1>2, <1>3 DEF Tables

\* Different spaces have different tables.
LEMMA Apart ==
  ASSUME NEW m \in Mem, NEW S \in SUBSET Pages, Tree(m, S),
         NEW A \in SUBSET S, NEW B \in SUBSET S, A \cap B = {}
  PROVE  Tree(m, A) /\ Tables(m, A) \cap Tables(m, B) = {}
<1>1. /\ Pdpts(m, A) \subseteq Pdpts(m, S) /\ Pdpts(m, B) \subseteq Pdpts(m, S)
      /\ Pds(m, A) \subseteq Pds(m, S) /\ Pds(m, B) \subseteq Pds(m, S)
      /\ Pts(m, A) \subseteq Pts(m, S) /\ Pts(m, B) \subseteq Pts(m, S)
  BY Within
<1>2. Tree(m, A)
  BY <1>1 DEF Tree
<1>3. /\ \A d, e \in Pdpts(m, S) : \A i, k \in User :
           m[d][i] # 0 /\ m[d][i] = m[e][k] => d = e /\ i = k
      /\ \A d, e \in Pds(m, S) : \A j, k \in Slots :
           m[d][j] # 0 /\ m[d][j] = m[e][k] => d = e /\ j = k
  BY DEF Tree
<1>4. Pdpts(m, A) \cap Pdpts(m, B) = {}
  BY DEF Pdpts, Tree
<1>5. Pds(m, A) \cap Pds(m, B) = {}
  <2> SUFFICES ASSUME NEW x, x \in Pds(m, A), x \in Pds(m, B) PROVE FALSE
    OBVIOUS
  <2>1. PICK d \in Pdpts(m, A), i \in User : x = m[d][i] /\ x # 0
    BY DEF Pds
  <2>2. PICK e \in Pdpts(m, B), k \in User : x = m[e][k]
    BY DEF Pds
  <2>3. d \in Pdpts(m, S) /\ e \in Pdpts(m, S) /\ m[d][i] # 0 /\ m[d][i] = m[e][k]
    BY <1>1, <2>1, <2>2
  <2>4. d = e
    BY <1>3, <2>3
  <2> QED BY <1>4, <2>4
<1>6. Pts(m, A) \cap Pts(m, B) = {}
  <2> SUFFICES ASSUME NEW x, x \in Pts(m, A), x \in Pts(m, B) PROVE FALSE
    OBVIOUS
  <2>1. PICK d \in Pds(m, A), i \in Slots : x = m[d][i] /\ x # 0
    BY DEF Pts
  <2>2. PICK e \in Pds(m, B), k \in Slots : x = m[e][k]
    BY DEF Pts
  <2>3. d \in Pds(m, S) /\ e \in Pds(m, S) /\ m[d][i] # 0 /\ m[d][i] = m[e][k]
    BY <1>1, <2>1, <2>2
  <2>4. d = e
    BY <1>3, <2>3
  <2> QED BY <1>5, <2>4
<1>7. Tables(m, A) \cap Tables(m, B) = {}
  BY <1>1, <1>4, <1>5, <1>6 DEF Tables, Tree
<1> QED BY <1>2, <1>7

\* The tables of all spaces are those of some and those of the others.
LEMMA Together ==
  ASSUME NEW m, NEW S, NEW A \in SUBSET S, NEW B \in SUBSET S, \A s \in S : s \in A \/ s \in B
  PROVE  Tables(m, S) = Tables(m, A) \cup Tables(m, B)
<1>2. Pdpts(m, S) \subseteq Pdpts(m, A) \cup Pdpts(m, B)
  BY DEF Pdpts
<1>3. Pds(m, S) \subseteq Pds(m, A) \cup Pds(m, B)
  <2> SUFFICES ASSUME NEW x \in Pds(m, S) PROVE x \in Pds(m, A) \/ x \in Pds(m, B)
    OBVIOUS
  <2>1. PICK d \in Pdpts(m, S), i \in User : x = m[d][i] /\ x # 0
    BY DEF Pds
  <2>2. d \in Pdpts(m, A) \/ d \in Pdpts(m, B)
    BY <1>2
  <2> QED BY <2>1, <2>2 DEF Pds
<1>4. Pts(m, S) \subseteq Pts(m, A) \cup Pts(m, B)
  <2> SUFFICES ASSUME NEW x \in Pts(m, S) PROVE x \in Pts(m, A) \/ x \in Pts(m, B)
    OBVIOUS
  <2>1. PICK d \in Pds(m, S), j \in Slots : x = m[d][j] /\ x # 0
    BY DEF Pts
  <2>2. d \in Pds(m, A) \/ d \in Pds(m, B)
    BY <1>3
  <2> QED BY <2>1, <2>2 DEF Pts
<1>5. Tables(m, S) \subseteq Tables(m, A) \cup Tables(m, B)
  BY <1>2, <1>3, <1>4 DEF Tables
<1>6. Tables(m, A) \subseteq Tables(m, S) /\ Tables(m, B) \subseteq Tables(m, S)
  BY Within
<1> QED BY <1>5, <1>6

-----------------------------------------------------------------------------
(* The invariant *)

RunPages(R) == UNION {Span(r) : r \in R}

(* Every page handed out has its bit set and one use. *)
Owned(p, m, S, H, R) ==
  /\ Tree(m, S)
  /\ Tables(m, S) \cup H \cup RunPages(R) \subseteq p.bitmap \ Reserved
  /\ Tables(m, S) \cap H = {}
  /\ (Tables(m, S) \cup H) \cap RunPages(R) = {}
  /\ \A r, q \in R : r # q => Span(r) \cap Span(q) = {}

Typed(p, m, S, H, R) ==
  /\ Kept(p)
  /\ m \in Mem
  /\ S \in SUBSET Pages
  /\ H \in SUBSET Pages
  /\ R \in SUBSET (Pages \X RunSizes)

Sound(p, m, S, H, R) ==
  /\ Typed(p, m, S, H, R)
  /\ Owned(p, m, S, H, R)
  /\ p.ready \/ S \cup H \cup R = {}

Inv == Sound(pmm, mem, spaces, held, runs)

(* What is in use, as the levels of the tables say it. *)
Used(m, S, H, R) == Tables(m, S) \cup H \cup RunPages(R)

(* What one step may do to the pages. *)
Fair(p, m, S, H, R) ==
  /\ InStep(pmm, p)
  /\ Clear(p) \cup Used(m, S, H, R) = Clear(pmm) \cup Used(mem, spaces, held, runs)

(* What vmm_map_page may have done so far. *)
Reached(p, m) ==
  /\ Kept(p) /\ p.ready = pmm.ready /\ m \in Mem
  /\ Owned(p, m, spaces, held, runs)
  /\ Fair(p, m, spaces, held, runs)
  /\ \A s \in spaces, v \in UserPages : FrameIn(m, s, v) = FrameIn(mem, s, v)

\* A page that is taken and linked as a table is what the step may do.
LEMMA TakenAsTable ==
  ASSUME Kept(pmm), NEW p, NEW m, Reached(p, m), CanAlloc(p), NEW w \in Mem, Tree(w, spaces),
         Tables(w, spaces) = Tables(m, spaces) \cup {Found(p)},
         \A s \in spaces, v \in UserPages : FrameIn(w, s, v) = FrameIn(m, s, v)
  PROVE  Reached(Taken(p), w)
<1> DEFINE n == Found(p)
           q == Taken(p)
<1>1. /\ Kept(p) /\ p.ready = pmm.ready /\ Owned(p, m, spaces, held, runs)
      /\ Fair(p, m, spaces, held, runs)
      /\ \A s \in spaces, v \in UserPages : FrameIn(m, s, v) = FrameIn(mem, s, v)
  BY DEF Reached
<1>2. n \in Clear(p) /\ n \in Pages \ Reserved
  BY <1>1, FoundFacts
<1>3. /\ Kept(q) /\ q.ready = p.ready /\ q.bitmap = p.bitmap \cup {n}
      /\ Clear(q) = Clear(p) \ {n} /\ InStep(p, q)
  BY <1>1, TakenFacts
<1> HIDE DEF n, q
<1>4. Owned(q, w, spaces, held, runs)
  BY <1>1, <1>2, <1>3 DEF Owned, Clear, n
<1>5. Fair(q, w, spaces, held, runs)
  <2>1. InStep(pmm, q)
    BY <1>1, <1>3, InStepTwice DEF Fair
  <2> QED BY <1>1, <1>2, <1>3, <2>1 DEF Fair, Used, n
<1> QED BY <1>1, <1>3, <1>4, <1>5 DEF Reached, q

(* Where vmm_map_page stands on its way down. *)
Walks == [ok : BOOLEAN, pmm : Pmm, mem : Mem, at : Pages]

\* One level of vmm_map_page: the entry leads to a table, or a page is missing, or a
\* blank table is linked.
LEMMA OneLevel ==
  ASSUME NEW s \in Walks, s.ok, NEW i \in Slots, Kept(s.pmm), s.at \in s.pmm.bitmap
  PROVE  LET t == Descend(s, i)
         IN  /\ t \in Walks
             /\ \/ /\ s.mem[s.at][i] # 0
                   /\ t.ok /\ t.pmm = s.pmm /\ t.mem = s.mem /\ t.at = s.mem[s.at][i]
                \/ s.mem[s.at][i] = 0 /\ ~t.ok /\ t.pmm = s.pmm /\ t.mem = s.mem
                \/ /\ s.mem[s.at][i] = 0 /\ CanAlloc(s.pmm) /\ t.ok
                   /\ t.pmm = Taken(s.pmm) /\ t.at = Found(s.pmm)
                   /\ Link(s.mem, t.mem, t.at, s.at, i)
<1> DEFINE t == Descend(s, i)
           n == Found(s.pmm)
<1>0. s.ok \in BOOLEAN /\ s.pmm \in Pmm /\ s.mem \in Mem /\ s.at \in Pages
  BY DEF Walks
<1>1. CASE s.mem[s.at][i] # 0
  <2>1. t = [s EXCEPT !.at = s.mem[s.at][i]]
    BY <1>1 DEF Descend
  <2>2. s.mem[s.at][i] \in Pages
    BY <1>0 DEF Mem
  <2>3. t.ok /\ t.pmm = s.pmm /\ t.mem = s.mem /\ t.at = s.mem[s.at][i] /\ t \in Walks
    <3> DEFINE a == s.mem[s.at][i]
    <3>1. a \in Pages /\ t = [s EXCEPT !.at = a]
      BY <2>1, <2>2
    <3> HIDE DEF a, t
    <3>2. t.ok /\ t.pmm = s.pmm /\ t.mem = s.mem /\ t.at = a /\ t \in Walks
      BY <3>1 DEF Walks
    <3> QED BY <3>2 DEF a, t
  <2> QED BY <1>1, <2>3
<1>2. CASE s.mem[s.at][i] = 0 /\ ~CanAlloc(s.pmm)
  <2>1. t = [s EXCEPT !.ok = FALSE]
    BY <1>2 DEF Descend
  <2>2. t.ok = FALSE /\ t.pmm = s.pmm /\ t.mem = s.mem /\ t \in Walks
    BY <2>1 DEF Walks
  <2> QED BY <1>2, <2>2
<1>3. CASE s.mem[s.at][i] = 0 /\ CanAlloc(s.pmm)
  <2> DEFINE w == [s.mem EXCEPT ![n] = Blank, ![s.at][i] = n]
  <2>1. t = [ok |-> TRUE, pmm |-> Taken(s.pmm), at |-> n, mem |-> w]
    BY <1>3 DEF Descend
  <2>2. n \in Pages /\ n # s.at
    BY <1>3, FoundFacts DEF Clear
  <2> HIDE DEF n
  <2>3. Link(s.mem, w, n, s.at, i)
    <3> DEFINE m == s.mem
               d == s.at
               v == [m EXCEPT ![n] = Blank]
               row == [m[d] EXCEPT ![i] = n]
    <3>1. m \in [Pages -> [Slots -> Pages]] /\ d \in Pages
      BY <1>0 DEF Mem
    <3>2. row \in [Slots -> Pages] /\ row[i] = n /\ \A k \in Slots \ {i} : row[k] = m[d][k]
      <4>1. m[d] \in [Slots -> Pages]
        BY <3>1
      <4> HIDE DEF m, d
      <4> QED BY <2>2, <4>1
    <3>3. w = [m EXCEPT ![n] = Blank, ![d] = row]
      <4> HIDE DEF row
      <4>1. w = [v EXCEPT ![d][i] = n]
        OBVIOUS
      <4>2. v[d] = m[d]
        BY <2>2, <3>1
      <4>3. w = [v EXCEPT ![d] = [v[d] EXCEPT ![i] = n]]
        BY <4>1
      <4> QED BY <4>2, <4>3 DEF row
    <3> HIDE DEF m, d, row, v, w
    <3>4. /\ w \in [Pages -> [Slots -> Pages]] /\ w[n] = Blank /\ w[d] = row
          /\ \A x \in Pages \ {n, d} : w[x] = m[x]
      <4>1. Blank \in [Slots -> Pages]
        BY Shapes
      <4>2. n # d
        BY <2>2 DEF d
      <4> QED BY <2>2, <3>1, <3>2, <3>3, <4>1, <4>2
    <3>5. \A k \in Slots : w[n][k] = 0
      BY <3>4, Shapes
    <3>6. Link(m, w, n, d, i)
      BY <3>2, <3>4, <3>5 DEF Link, Mem
    <3> QED BY <3>6 DEF m, d
  <2> HIDE DEF w
  <2>4. t.ok /\ t.pmm = Taken(s.pmm) /\ t.at = n /\ t.mem = w
    BY <2>1
  <2>5. t \in Walks
    <3>1. Taken(s.pmm) \in Pmm /\ w \in Mem
      BY <1>3, <2>3, TakenFacts DEF Kept, Link
    <3> QED BY <2>1, <2>2, <3>1 DEF Walks
  <2> QED BY <1>3, <2>3, <2>4, <2>5 DEF n
<1> HIDE DEF t
<1>4. s.mem[s.at][i] = 0 \/ s.mem[s.at][i] # 0
  OBVIOUS
<1> QED BY <1>1, <1>2, <1>3, <1>4 DEF t

\* Where a walk that succeeds ends, and what any walk has done to the pages: a failing
\* one has linked blank tables only, and they are in the tree.
LEMMA WholeWalk ==
  ASSUME Inv, NEW r \in spaces, NEW v \in UserPages
  PROVE  LET t == Walked(r, v)
         IN  /\ Reached(t.pmm, t.mem)
             /\ t.ok => t.at = PtOf(t.mem, r, v) /\ t.at # 0
<1> DEFINE S == spaces
           s0 == [ok |-> TRUE, pmm |-> pmm, mem |-> mem, at |-> r]
           s1 == Descend(s0, 0)
           s2 == Descend(s1, v[1])
           s3 == Descend(s2, v[2])
<1>0. /\ Kept(pmm) /\ mem \in Mem /\ S \in SUBSET Pages /\ Owned(pmm, mem, S, held, runs)
      /\ r \in S /\ v[1] \in User /\ v[1] \in Slots /\ v[2] \in Slots /\ 0 \in Slots
  BY Shapes DEF Inv, Sound, Typed
<1>1. s0 \in Walks /\ s0.ok /\ s0.pmm = pmm /\ s0.mem = mem /\ s0.at = r
  BY <1>0 DEF Walks, Kept
<1>2. Reached(pmm, mem)
  BY <1>0, PageFacts DEF Reached, Fair, InStep
<1>3. Tree(mem, S) /\ Tables(mem, S) \subseteq pmm.bitmap
  BY <1>0 DEF Owned
<1> HIDE DEF s0, S
<1>4. s1 \in Walks /\ s1.ok /\ s1.pmm = pmm /\ s1.mem = mem /\ s1.at = mem[r][0]
      /\ s1.at \in Pdpts(mem, S)
  <2>1. mem[r][0] \in Pdpts(mem, S) /\ mem[r][0] # 0
    BY <1>0, <1>3, Levels DEF Tree
  <2>2. r \in pmm.bitmap
    BY <1>0, <1>3 DEF Tables
  <2> QED BY <1>0, <1>1, <2>1, <2>2, OneLevel
<1> HIDE DEF s1
<1>5. /\ s2 \in Walks /\ Reached(s2.pmm, s2.mem)
      /\ s2.ok => s2.at = PdOf(s2.mem, r, v) /\ s2.at # 0 /\ s2.at \in Pds(s2.mem, S)
  <2> DEFINE d == mem[r][0]
             i == v[1]
  <2>1. s1.at \in s1.pmm.bitmap
    BY <1>3, <1>4 DEF Tables
  <2>2. /\ s2 \in Walks
        /\ \/ mem[d][i] # 0 /\ s2.ok /\ s2.pmm = pmm /\ s2.mem = mem /\ s2.at = mem[d][i]
           \/ ~s2.ok /\ s2.pmm = pmm /\ s2.mem = mem
           \/ /\ mem[d][i] = 0 /\ CanAlloc(pmm) /\ s2.ok
              /\ s2.pmm = Taken(pmm) /\ s2.at = Found(pmm)
              /\ Link(mem, s2.mem, s2.at, d, i)
    BY <1>0, <1>4, <2>1, OneLevel
  <2> HIDE DEF s2
  <2>3. CASE mem[d][i] # 0 /\ s2.ok /\ s2.pmm = pmm /\ s2.mem = mem /\ s2.at = mem[d][i]
    <3>1. mem[d][i] \in Pds(mem, S)
      BY <1>0, <1>4, <2>3, Levels
    <3> QED BY <1>2, <2>2, <2>3, <3>1 DEF PdOf
  <2>4. CASE ~s2.ok /\ s2.pmm = pmm /\ s2.mem = mem
    BY <1>2, <2>2, <2>4
  <2>5. CASE /\ mem[d][i] = 0 /\ CanAlloc(pmm) /\ s2.ok
             /\ s2.pmm = Taken(pmm) /\ s2.at = Found(pmm)
             /\ Link(mem, s2.mem, s2.at, d, i)
    <3> DEFINE n == s2.at
               w == s2.mem
    <3>1. n \in Pages \ {0} /\ n \notin Tables(mem, S)
      BY <1>0, <1>3, <2>5, FoundFacts DEF Clear
    <3>2. d \in Pdpts(mem, S) /\ i \in User /\ Link(mem, w, n, d, i)
      BY <1>0, <1>4, <2>5
    <3> HIDE DEF n, w, d, i
    <3>3. /\ Tree(w, S) /\ Pdpts(w, S) = Pdpts(mem, S) /\ Pds(w, S) = Pds(mem, S) \cup {n}
          /\ Pts(w, S) = Pts(mem, S) /\ w[d][i] = n /\ \A s \in S : w[s] = mem[s]
          /\ \A s \in S, u \in UserPages : FrameIn(w, s, u) = FrameIn(mem, s, u)
      BY <1>0, <1>3, <2>5, <3>1, <3>2, LinkPd
    <3>4. Tables(w, S) = Tables(mem, S) \cup {n} /\ w \in Mem
      BY <3>2, <3>3 DEF Tables, Link
    <3>5. Reached(Taken(pmm), w)
      BY <1>0, <1>2, <2>5, <3>3, <3>4, TakenAsTable DEF n, S
    <3>6. PdOf(w, r, v) = n
      BY <1>0, <3>3 DEF PdOf, d, i
    <3> QED BY <2>2, <2>5, <3>1, <3>3, <3>5, <3>6 DEF n, w
  <2> QED BY <2>2, <2>3, <2>4, <2>5
<1> HIDE DEF s2
<1>6. /\ Reached(s3.pmm, s3.mem)
      /\ s3.ok => s3.at = PtOf(s3.mem, r, v) /\ s3.at # 0
  <2>1. CASE ~s2.ok
    BY <1>5, <2>1 DEF Descend
  <2>2. CASE s2.ok
    <3> DEFINE m == s2.mem
               p == s2.pmm
               d == s2.at
               i == v[2]
    <3>1. /\ Kept(p) /\ m \in Mem /\ Tree(m, S) /\ Tables(m, S) \subseteq p.bitmap
          /\ d = PdOf(m, r, v) /\ d # 0 /\ d \in Pds(m, S) /\ i \in Slots
          /\ Reached(p, m)
      BY <1>0, <1>5, <2>2 DEF Reached, Owned, S
    <3>2. d \in p.bitmap
      BY <3>1 DEF Tables
    <3>3. \/ m[d][i] # 0 /\ s3.ok /\ s3.pmm = p /\ s3.mem = m /\ s3.at = m[d][i]
          \/ ~s3.ok /\ s3.pmm = p /\ s3.mem = m
          \/ /\ m[d][i] = 0 /\ CanAlloc(p) /\ s3.ok
             /\ s3.pmm = Taken(p) /\ s3.at = Found(p)
             /\ Link(m, s3.mem, s3.at, d, i)
      BY <1>5, <2>2, <3>1, <3>2, OneLevel
    <3> HIDE DEF s3, m, p, d, i
    <3>4. CASE m[d][i] # 0 /\ s3.ok /\ s3.pmm = p /\ s3.mem = m /\ s3.at = m[d][i]
      <4>1. PtOf(m, r, v) = m[d][i]
        BY <3>1 DEF PtOf, i
      <4> QED BY <3>1, <3>4, <4>1
    <3>5. CASE ~s3.ok /\ s3.pmm = p /\ s3.mem = m
      BY <3>1, <3>5
    <3>6. CASE /\ m[d][i] = 0 /\ CanAlloc(p) /\ s3.ok
               /\ s3.pmm = Taken(p) /\ s3.at = Found(p)
               /\ Link(m, s3.mem, s3.at, d, i)
      <4> DEFINE n == s3.at
                 w == s3.mem
      <4>1. n \in Pages \ {0} /\ n \notin Tables(m, S)
        BY <3>1, <3>6, FoundFacts DEF Clear
      <4>2. Link(m, w, n, d, i)
        BY <3>6
      <4> HIDE DEF n, w
      <4>3. /\ Tree(w, S) /\ Pdpts(w, S) = Pdpts(m, S) /\ Pds(w, S) = Pds(m, S)
            /\ Pts(w, S) = Pts(m, S) \cup {n} /\ w[d][i] = n
            /\ \A x \in S \cup Pdpts(m, S) : w[x] = m[x]
            /\ \A s \in S, u \in UserPages : FrameIn(w, s, u) = FrameIn(m, s, u)
        BY <1>0, <3>1, <3>6, <4>1, <4>2, LinkPt
      <4>4. Tables(w, S) = Tables(m, S) \cup {n} /\ w \in Mem
        BY <4>2, <4>3 DEF Tables, Link
      <4>5. Reached(Taken(p), w)
        BY <1>0, <3>1, <3>6, <4>3, <4>4, TakenAsTable DEF n, S
      <4>6. PtOf(w, r, v) = n
        <5>1. m[r][0] \in Pdpts(m, S)
          BY <1>0, <3>1, Levels
        <5>2. PdOf(w, r, v) = d
          BY <1>0, <3>1, <4>3, <5>1 DEF PdOf
        <5> QED BY <3>1, <4>3, <5>2 DEF PtOf, i
      <4> QED BY <3>6, <4>1, <4>5, <4>6 DEF n, w
    <3> QED BY <3>3, <3>4, <3>5, <3>6
  <2> QED BY <2>1, <2>2
<1> QED BY <1>6 DEF Walked, s3, s2, s1, s0
-----------------------------------------------------------------------------
(* The steps *)

(* What each step keeps. *)
Good(p, m, S, H, R) == Sound(p, m, S, H, R) /\ Fair(p, m, S, H, R)

\* The parts of the invariant.
LEMMA InvFacts ==
  ASSUME Inv
  PROVE  /\ Kept(pmm) /\ mem \in Mem /\ spaces \in SUBSET Pages /\ held \in SUBSET Pages
         /\ runs \in SUBSET (Pages \X RunSizes)
         /\ Tree(mem, spaces)
         /\ Tables(mem, spaces) \cup held \cup RunPages(runs) \subseteq pmm.bitmap \ Reserved
         /\ Tables(mem, spaces) \cap held = {}
         /\ (Tables(mem, spaces) \cup held) \cap RunPages(runs) = {}
         /\ \A r, q \in runs : r # q => Span(r) \cap Span(q) = {}
         /\ spaces \subseteq Tables(mem, spaces)
         /\ \A r \in runs : Span(r) \subseteq RunPages(runs)
         /\ spaces # {} \/ held # {} \/ runs # {} => pmm.ready
  BY DEF Inv, Sound, Typed, Owned, Tables, RunPages

\* What is the case when nothing changes.
LEMMA Stays ==
  ASSUME Inv PROVE Good(pmm, mem, spaces, held, runs)
  BY PageFacts, InvFacts DEF Good, Inv, Fair, InStep

\* A page is handed to a caller.
LEMMA AllocPageStep ==
  ASSUME Inv, AllocPage PROVE Good(pmm', mem', spaces', held', runs')
<1> DEFINE n == Found(pmm)
           q == Taken(pmm)
<1>1. CanAlloc(pmm) /\ pmm' = q /\ held' = held \cup {n} /\ UNCHANGED <<mem, spaces, runs>>
  BY DEF AllocPage
<1>2. n \in Clear(pmm) /\ n \in Pages \ Reserved /\ q.ready
  BY <1>1, InvFacts, FoundFacts, TakenFacts DEF CanAlloc
<1>3. /\ Kept(q) /\ q.bitmap = pmm.bitmap \cup {n}
      /\ Clear(q) = Clear(pmm) \ {n} /\ InStep(pmm, q)
  BY <1>1, InvFacts, TakenFacts
<1> HIDE DEF n, q
<1>4. Typed(q, mem, spaces, held', runs)
  BY <1>1, <1>2, <1>3, InvFacts DEF Typed
<1>5. Owned(q, mem, spaces, held', runs)
  BY <1>1, <1>2, <1>3, InvFacts DEF Owned, Clear
<1>6. Clear(q) \cup Used(mem, spaces, held', runs) = Clear(pmm) \cup Used(mem, spaces, held, runs)
  BY <1>1, <1>2, <1>3 DEF Used
<1> QED BY <1>1, <1>2, <1>3, <1>4, <1>5, <1>6 DEF Good, Sound, Fair

\* A caller gives a page back.
LEMMA FreePageStep ==
  ASSUME Inv, NEW p \in Pages, FreePage(p) PROVE Good(pmm', mem', spaces', held', runs')
<1> DEFINE q == Freed(pmm, {p})
<1>1. p \in held /\ pmm' = q /\ held' = held \ {p} /\ UNCHANGED <<mem, spaces, runs>>
  BY DEF FreePage
<1>2. {p} \in SUBSET (pmm.bitmap \ Reserved) /\ pmm.ready
  BY <1>1, InvFacts
<1>3. /\ Kept(q) /\ q.ready = pmm.ready /\ q.bitmap = pmm.bitmap \ {p}
      /\ Clear(q) = Clear(pmm) \cup {p} /\ InStep(pmm, q)
  BY <1>2, InvFacts, FreedFacts
<1> HIDE DEF q
<1>4. Typed(q, mem, spaces, held', runs)
  BY <1>1, <1>3, InvFacts DEF Typed
<1>5. Owned(q, mem, spaces, held', runs)
  BY <1>1, <1>2, <1>3, InvFacts DEF Owned
<1>6. Clear(q) \cup Used(mem, spaces, held', runs) = Clear(pmm) \cup Used(mem, spaces, held, runs)
  BY <1>1, <1>3 DEF Used
<1> QED BY <1>1, <1>2, <1>3, <1>4, <1>5, <1>6 DEF Good, Sound, Fair

\* A run of pages is handed out.
LEMMA AllocRunStep ==
  ASSUME Inv, NEW n \in RunSizes, AllocRun(n) PROVE Good(pmm', mem', spaces', held', runs')
<1> DEFINE q == TakenRun(pmm, n)
           r == <<Min(RunsFound(pmm, n)), n>>
<1>1. CanAllocRun(pmm, n) /\ pmm' = q /\ runs' = runs \cup {r} /\ UNCHANGED <<mem, spaces, held>>
  BY DEF AllocRun
<1>2. /\ r \in Pages \X RunSizes /\ Span(r) \subseteq Clear(pmm)
      /\ Kept(q) /\ q.ready = pmm.ready /\ q.bitmap = pmm.bitmap \cup Span(r)
      /\ Clear(q) = Clear(pmm) \ Span(r) /\ InStep(pmm, q) /\ pmm.ready
  BY <1>1, InvFacts, TakenRunFacts DEF CanAllocRun
<1> HIDE DEF q, r
<1>3. RunPages(runs') = RunPages(runs) \cup Span(r)
  BY <1>1 DEF RunPages
<1>4. Span(r) \cap pmm.bitmap = {} /\ Span(r) \cap Reserved = {}
  BY <1>2, InvFacts DEF Clear, Kept
<1>5. Typed(q, mem, spaces, held, runs')
  BY <1>1, <1>2, InvFacts DEF Typed
<1>6. Owned(q, mem, spaces, held, runs')
  <2>1. \A s, t \in runs' : s # t => Span(s) \cap Span(t) = {}
    BY <1>1, <1>4, InvFacts
  <2> QED BY <1>2, <1>3, <1>4, <2>1, InvFacts DEF Owned
<1>7. Clear(q) \cup Used(mem, spaces, held, runs') = Clear(pmm) \cup Used(mem, spaces, held, runs)
  BY <1>2, <1>3 DEF Used
<1> QED BY <1>1, <1>2, <1>5, <1>6, <1>7 DEF Good, Sound, Fair

\* A run of pages is given back.
LEMMA FreeRunStep ==
  ASSUME Inv, NEW r \in runs, FreeRun(r) PROVE Good(pmm', mem', spaces', held', runs')
<1> DEFINE q == FreedRun(pmm, r)
<1>1. pmm' = q /\ runs' = runs \ {r} /\ UNCHANGED <<mem, spaces, held>>
  BY DEF FreeRun
<1>2. Span(r) \subseteq pmm.bitmap \ Reserved /\ pmm.ready
  BY InvFacts
<1>3. /\ Kept(q) /\ q.ready = pmm.ready /\ q.bitmap = pmm.bitmap \ Span(r)
      /\ Clear(q) = Clear(pmm) \cup Span(r) /\ InStep(pmm, q)
  BY <1>2, InvFacts, FreedRunFacts
<1> HIDE DEF q
<1>4. RunPages(runs') = RunPages(runs) \ Span(r)
  <2>1. RunPages(runs') \subseteq RunPages(runs) \ Span(r)
    BY <1>1, InvFacts DEF RunPages
  <2>2. RunPages(runs) \ Span(r) \subseteq RunPages(runs')
    BY <1>1 DEF RunPages
  <2> QED BY <2>1, <2>2
<1>5. Typed(q, mem, spaces, held, runs')
  BY <1>1, <1>3, InvFacts DEF Typed
<1>6. Owned(q, mem, spaces, held, runs')
  <2>1. \A s, t \in runs' : s # t => Span(s) \cap Span(t) = {}
    BY <1>1, InvFacts
  <2>2. (Tables(mem, spaces) \cup held) \cap Span(r) = {}
    BY InvFacts
  <2> QED BY <1>2, <1>3, <1>4, <2>1, <2>2, InvFacts DEF Owned
<1>7. Clear(q) \cup Used(mem, spaces, held, runs') = Clear(pmm) \cup Used(mem, spaces, held, runs)
  <2>1. Span(r) \subseteq RunPages(runs)
    BY InvFacts
  <2> QED BY <1>3, <1>4, <2>1 DEF Used
<1> QED BY <1>1, <1>2, <1>3, <1>5, <1>6, <1>7 DEF Good, Sound, Fair

(* The frames of the spaces of S are those of the state before. *)
SameIn(m, S) == \A s \in S, v \in UserPages : FrameIn(m, s, v) = FrameIn(mem, s, v)

\* The second page is missing: the first is given back, with the contents of a PML4.
LEMMA CreateSpaceFailsStep ==
  ASSUME Inv, CreateSpaceFails
  PROVE  Good(pmm', mem', spaces', held', runs') /\ SameIn(mem', spaces)
<1> DEFINE n == Found(pmm)
           p == Taken(pmm)
           q == Freed(p, {n})
           row == mem[KernelPml4]
           w == [mem EXCEPT ![n] = row]
<1>1. CanAlloc(pmm) /\ pmm' = q /\ mem' = w /\ UNCHANGED <<spaces, held, runs>>
  BY DEF CreateSpaceFails
<1>2. n \in Clear(pmm) /\ n \in Pages \ Reserved /\ pmm.ready
  BY <1>1, InvFacts, FoundFacts DEF CanAlloc
<1>3. /\ Kept(p) /\ p.ready = pmm.ready /\ p.bitmap = pmm.bitmap \cup {n}
      /\ Clear(p) = Clear(pmm) \ {n} /\ InStep(pmm, p)
  BY <1>1, InvFacts, TakenFacts
<1> HIDE DEF n, p
<1>4. {n} \in SUBSET (p.bitmap \ Reserved)
  BY <1>2, <1>3
<1>5. /\ Kept(q) /\ q.ready = pmm.ready /\ q.bitmap = pmm.bitmap /\ Clear(q) = Clear(pmm)
      /\ InStep(p, q)
  <2>1. /\ Kept(q) /\ q.ready = p.ready /\ q.bitmap = p.bitmap \ {n}
        /\ Clear(q) = Clear(p) \cup {n} /\ InStep(p, q)
    BY <1>2, <1>3, <1>4, FreedFacts
  <2> HIDE DEF q
  <2> QED BY <1>2, <1>3, <2>1 DEF Clear
<1> HIDE DEF q
<1>6. InStep(pmm, q)
  BY <1>3, <1>5, InvFacts, InStepTwice
<1>7. w \in Mem /\ \A x \in Pages \ {n} : w[x] = mem[x]
  <2>1. row \in [Slots -> Pages]
    BY InvFacts, MemoryAssumption DEF Mem
  <2> HIDE DEF row
  <2> QED BY <1>2, <2>1, InvFacts DEF Mem
<1> HIDE DEF w
<1>8. \A x \in Tables(mem, spaces) : w[x] = mem[x]
  BY <1>2, <1>7, InvFacts, Levels DEF Clear
<1>9. Tree(w, spaces) /\ Tables(w, spaces) = Tables(mem, spaces)
  <2>1. \A x \in spaces \cup Pdpts(mem, spaces) \cup Pds(mem, spaces) : w[x] = mem[x]
    BY <1>8 DEF Tables
  <2> QED BY <1>7, <2>1, InvFacts, OffTheTree
<1>10. SameIn(w, spaces)
  BY <1>7, <1>8, InvFacts, SameFrames DEF SameIn
<1>11. Typed(q, w, spaces, held, runs) /\ Owned(q, w, spaces, held, runs)
  BY <1>5, <1>7, <1>9, InvFacts DEF Typed, Owned
<1>12. Clear(q) \cup Used(w, spaces, held, runs) = Clear(pmm) \cup Used(mem, spaces, held, runs)
  BY <1>5, <1>9 DEF Used
<1> QED BY <1>1, <1>2, <1>5, <1>6, <1>10, <1>11, <1>12 DEF Good, Sound, Fair

\* A new space is on two pages of its own and maps nothing.
LEMMA CreateSpaceStep ==
  ASSUME Inv, CreateSpace
  PROVE  /\ Good(pmm', mem', spaces', held', runs') /\ SameIn(mem', spaces)
         /\ \E r \in Pages \ spaces :
              spaces' = spaces \cup {r} /\ \A v \in UserPages : FrameIn(mem', r, v) = 0
<1> DEFINE root == Found(pmm)
           p == Taken(pmm)
           pdpt == Found(p)
           q == Taken(p)
           old == mem[mem[KernelPml4][0]]
           row == [mem[KernelPml4] EXCEPT ![0] = pdpt]
           low == [i \in Slots |-> IF i < UserFrom THEN old[i] ELSE 0]
           w == [mem EXCEPT ![root] = row, ![pdpt] = low]
           S == spaces \cup {root}
<1>1. CanAlloc(pmm) /\ CanAlloc(p) /\ pmm' = q /\ mem' = w /\ spaces' = S /\ UNCHANGED <<held, runs>>
  BY DEF CreateSpace
<1>2. root \in Clear(pmm) /\ root \in Pages \ Reserved /\ root # 0 /\ pmm.ready
  BY <1>1, InvFacts, FoundFacts DEF CanAlloc
<1>3. /\ Kept(p) /\ p.ready = pmm.ready /\ p.bitmap = pmm.bitmap \cup {root}
      /\ Clear(p) = Clear(pmm) \ {root} /\ InStep(pmm, p)
  BY <1>1, InvFacts, TakenFacts
<1> HIDE DEF root, p
<1>4. pdpt \in Clear(p) /\ pdpt \in Pages \ Reserved /\ pdpt # 0
  BY <1>1, <1>3, FoundFacts
<1>5. /\ Kept(q) /\ q.ready = p.ready /\ q.bitmap = p.bitmap \cup {pdpt}
      /\ Clear(q) = Clear(p) \ {pdpt} /\ InStep(p, q)
  BY <1>1, <1>3, TakenFacts
<1> HIDE DEF q, pdpt
<1>6. InStep(pmm, q)
  BY <1>3, <1>5, InvFacts, InStepTwice
<1>7. /\ w \in Mem /\ \A x \in Pages \ {root, pdpt} : w[x] = mem[x]
      /\ w[root][0] = pdpt /\ \A i \in User : w[pdpt][i] = 0
  <2>1. row \in [Slots -> Pages] /\ row[0] = pdpt
    <3>1. mem[KernelPml4] \in [Slots -> Pages]
      BY InvFacts, MemoryAssumption DEF Mem
    <3> QED BY <1>4, <3>1, Shapes
  <2>2. low \in [Slots -> Pages] /\ \A i \in User : low[i] = 0
    <3>1. old \in [Slots -> Pages]
      <4>1. mem[KernelPml4][0] \in Pages
        BY InvFacts, MemoryAssumption, Shapes DEF Mem
      <4> QED BY <4>1, InvFacts DEF Mem
    <3> HIDE DEF old
    <3>2. \A i \in User : ~(i < UserFrom) /\ i \in Slots
      BY MemoryAssumption, Shapes DEF User
    <3> QED BY <3>1, <3>2, PageFacts
  <2>3. root # pdpt
    BY <1>3, <1>4
  <2> HIDE DEF row, low
  <2> QED BY <1>2, <1>4, <2>1, <2>2, <2>3, InvFacts DEF Mem
<1> HIDE DEF w
<1>8. /\ root # pdpt /\ pdpt \in Clear(pmm) /\ {root, pdpt} \cap Tables(mem, spaces) = {}
      /\ root \in Pages \ {0} /\ pdpt \in Pages \ {0}
  BY <1>2, <1>3, <1>4, InvFacts DEF Clear
<1>9. /\ Tree(w, S) /\ Tables(w, S) = Tables(mem, spaces) \cup {root, pdpt}
      /\ SameIn(w, spaces)
      /\ \A v \in UserPages : FrameIn(w, root, v) = 0
  <2> HIDE DEF S
  <2>1. /\ Tree(w, S) /\ Tables(w, S) = Tables(mem, spaces) \cup {root, pdpt}
        /\ \A s \in spaces, v \in UserPages : FrameIn(w, s, v) = FrameIn(mem, s, v)
        /\ \A v \in UserPages : FrameIn(w, root, v) = 0
    <3>1. mem \in Mem /\ spaces \in SUBSET Pages /\ Tree(mem, spaces)
      BY InvFacts
    <3>2. Builds(mem, w, spaces, S, root, pdpt)
      BY <1>7, <1>8, <3>1 DEF Builds, S
    <3> QED BY <3>2, NewSpace
  <2> QED BY <2>1 DEF SameIn
<1>10. S \subseteq Pages /\ root \notin spaces
  BY <1>8, InvFacts
<1> HIDE DEF S
<1>11. Typed(q, w, S, held, runs)
  BY <1>5, <1>7, <1>10, InvFacts DEF Typed
<1>12. Owned(q, w, S, held, runs)
  <2>1. q.bitmap = pmm.bitmap \cup {root, pdpt}
    BY <1>3, <1>5
  <2>2. {root, pdpt} \cap pmm.bitmap = {} /\ {root, pdpt} \cap Reserved = {}
    BY <1>2, <1>4, <1>8 DEF Clear
  <2> QED BY <1>9, <2>1, <2>2, InvFacts DEF Owned
<1>13. Clear(q) \cup Used(w, S, held, runs) = Clear(pmm) \cup Used(mem, spaces, held, runs)
  BY <1>2, <1>3, <1>5, <1>8, <1>9 DEF Used
<1>14. spaces' = spaces \cup {root}
  BY <1>1 DEF S
<1> QED BY <1>1, <1>2, <1>3, <1>5, <1>6, <1>8, <1>9, <1>10, <1>11, <1>12, <1>13, <1>14
        DEF Good, Sound, Fair

(* The frame of v in space s becomes f, and no other changes. *)
OnlyFrame(m, s, v, f) ==
  /\ FrameIn(m, s, v) = f
  /\ \A t \in spaces, u \in UserPages :
       t # s \/ u # v => FrameIn(m, t, u) = FrameIn(mem, t, u)

\* One entry of one last-level table is cleared.
LEMMA UnmapPageStep ==
  ASSUME Inv, NEW s \in spaces, NEW v \in UserPages, UnmapPage(s, v)
  PROVE  Good(pmm', mem', spaces', held', runs') /\ OnlyFrame(mem', s, v, 0)
<1> DEFINE pt == PtOf(mem, s, v)
           k == v[3]
           row == [mem[pt] EXCEPT ![k] = 0]
           w == [mem EXCEPT ![pt] = row]
<1>1. mem[s][0] # 0 /\ Phys(s, v) # 0
  <2>1. mem[s][0] \in Pdpts(mem, spaces)
    BY DEF Pdpts
  <2>2. 0 \notin Pdpts(mem, spaces)
    BY InvFacts DEF Tree
  <2> QED BY <2>1, <2>2 DEF UnmapPage
<1>2. PdOf(mem, s, v) # 0 /\ pt # 0 /\ pt = mem[mem[mem[s][0]][v[1]]][v[2]]
  BY <1>1 DEF Phys, PdOf, PtOf
<1>3. mem' = w /\ UNCHANGED <<pmm, spaces, held, runs>>
  BY <1>2 DEF UnmapPage
<1>4. pt \in Pages /\ k \in Slots /\ 0 \in Pages
  BY <1>2, InvFacts, Ways, Levels, PageFacts
<1> HIDE DEF pt, k
<1>5. Writes(mem, w, pt, k, 0)
  <2>1. row \in [Slots -> Pages] /\ row[k] = 0 /\ \A i \in Slots \ {k} : row[i] = mem[pt][i]
    BY <1>4, InvFacts DEF Mem
  <2> HIDE DEF row
  <2> QED BY <1>4, <2>1, InvFacts DEF Writes, Mem
<1> HIDE DEF w
<1>6. /\ Tree(w, spaces) /\ Tables(w, spaces) = Tables(mem, spaces)
      /\ OnlyFrame(w, s, v, 0) /\ w \in Mem
  <2>1. PtOf(mem, s, v) # 0 /\ Writes(mem, w, PtOf(mem, s, v), v[3], 0) /\ w \in Mem
    BY <1>2, <1>5 DEF pt, k, Writes
  <2>2. /\ Tree(w, spaces) /\ Tables(w, spaces) = Tables(mem, spaces)
        /\ FrameIn(w, s, v) = 0
        /\ \A t \in spaces, u \in UserPages :
             t # s \/ u # v => FrameIn(w, t, u) = FrameIn(mem, t, u)
    BY <1>4, <2>1, InvFacts, WriteFrame
  <2> QED BY <2>1, <2>2 DEF OnlyFrame
<1>7. Typed(pmm, w, spaces, held, runs) /\ Owned(pmm, w, spaces, held, runs)
  BY <1>6, InvFacts DEF Typed, Owned
<1>8. Fair(pmm, w, spaces, held, runs)
  BY <1>6, Stays DEF Good, Fair, Used
<1> QED BY <1>3, <1>6, <1>7, <1>8, InvFacts DEF Good, Sound

\* A mapping changes one frame of one space, or fails and changes none.
LEMMA MapPageStep ==
  ASSUME Inv, NEW s \in spaces, NEW v \in UserPages, NEW f \in held, MapPage(s, v, f)
  PROVE  /\ Good(pmm', mem', spaces', held', runs')
         /\ OnlyFrame(mem', s, v, f) \/ SameIn(mem', spaces)
<1> DEFINE t == Walked(s, v)
<1>1. /\ pmm' = t.pmm /\ UNCHANGED <<spaces, held, runs>>
      /\ mem' = IF t.ok THEN [t.mem EXCEPT ![t.at] = [t.mem[t.at] EXCEPT ![v[3]] = f]] ELSE t.mem
  BY DEF MapPage
<1>2. Reached(t.pmm, t.mem) /\ (t.ok => t.at = PtOf(t.mem, s, v) /\ t.at # 0)
  BY WholeWalk
<1> DEFINE p == t.pmm
           m == t.mem
           pt == t.at
           k == v[3]
<1>3. /\ Kept(p) /\ p.ready = pmm.ready /\ m \in Mem /\ Owned(p, m, spaces, held, runs)
      /\ Fair(p, m, spaces, held, runs) /\ SameIn(m, spaces)
      /\ Typed(p, m, spaces, held, runs) /\ pmm.ready
  BY <1>2, InvFacts DEF Reached, SameIn, Typed
<1>4. CASE ~t.ok
  <2>1. pmm' = p /\ mem' = m
    BY <1>1, <1>4
  <2> HIDE DEF p, m
  <2> QED BY <1>1, <1>3, <2>1 DEF Good, Sound
<1>5. CASE t.ok
  <2> DEFINE row == [m[pt] EXCEPT ![k] = f]
             w == [m EXCEPT ![pt] = row]
  <2>1. pmm' = p /\ mem' = w /\ pt = PtOf(m, s, v) /\ pt # 0
    BY <1>1, <1>2, <1>5
  <2> HIDE DEF t, p, m, pt, k
  <2>2. pt \in Pages /\ k \in Slots /\ f \in Pages
    BY <1>3, <2>1, InvFacts, Ways, Levels DEF k
  <2>3. Writes(m, w, pt, k, f)
    <3>1. row \in [Slots -> Pages] /\ row[k] = f /\ \A i \in Slots \ {k} : row[i] = m[pt][i]
      BY <1>3, <2>2 DEF Mem
    <3> HIDE DEF row
    <3> QED BY <1>3, <2>2, <3>1 DEF Writes, Mem
  <2> HIDE DEF w
  <2>4. /\ Tree(w, spaces) /\ Tables(w, spaces) = Tables(m, spaces) /\ w \in Mem
        /\ FrameIn(w, s, v) = f
        /\ \A x \in spaces, u \in UserPages :
             x # s \/ u # v => FrameIn(w, x, u) = FrameIn(m, x, u)
    <3>1. PtOf(m, s, v) # 0 /\ Writes(m, w, PtOf(m, s, v), v[3], f) /\ w \in Mem
      BY <2>1, <2>3 DEF k, Writes
    <3>2. Tree(m, spaces)
      BY <1>3 DEF Owned
    <3> QED BY <1>3, <2>2, <3>1, <3>2, InvFacts, WriteFrame
  <2>5. OnlyFrame(w, s, v, f)
    BY <1>3, <2>4 DEF OnlyFrame, SameIn
  <2>6. Typed(p, w, spaces, held, runs) /\ Owned(p, w, spaces, held, runs)
        /\ Fair(p, w, spaces, held, runs)
    BY <1>3, <2>4 DEF Typed, Owned, Fair, Used
  <2> QED BY <1>1, <1>3, <2>1, <2>5, <2>6 DEF Good, Sound
<1> QED BY <1>4, <1>5

\* vmm_destroy_address_space frees the tables of the space and no other page.
LEMMA TablesOfIs ==
  ASSUME Inv, NEW s \in spaces PROVE TablesOf(s) = Tables(mem, {s})
<1>1. Pdpts(mem, {s}) = {mem[s][0]}
  BY DEF Pdpts
<1>2. Pds(mem, {s}) = {mem[mem[s][0]][i] : i \in User} \ {0}
  BY <1>1 DEF Pds
<1>3. Pts(mem, {s}) = (UNION {{mem[pd][j] : j \in Slots} : pd \in Pds(mem, {s})}) \ {0}
  BY DEF Pts
<1> QED BY <1>1, <1>2, <1>3 DEF TablesOf, Tables, User

\* The tables of one space are given back and the others stay.
LEMMA DestroySpaceStep ==
  ASSUME Inv, NEW s \in spaces, DestroySpace(s)
  PROVE  Good(pmm', mem', spaces', held', runs') /\ mem' = mem
<1> DEFINE T == Tables(mem, {s})
           S == spaces \ {s}
           q == Freed(pmm, T)
<1>1. pmm' = q /\ spaces' = S /\ UNCHANGED <<mem, held, runs>>
  BY TablesOfIs DEF DestroySpace
<1>2. /\ Tree(mem, S) /\ Tables(mem, S) \cap T = {}
      /\ Tables(mem, spaces) = Tables(mem, S) \cup T
  <2> DEFINE A == {s}
  <2>1. /\ S \in SUBSET spaces /\ A \in SUBSET spaces /\ S \cap A = {}
        /\ \A t \in spaces : t \in S \/ t \in A
    OBVIOUS
  <2>2. T = Tables(mem, A)
    OBVIOUS
  <2>3. mem \in Mem /\ spaces \in SUBSET Pages /\ Tree(mem, spaces)
    BY InvFacts
  <2> HIDE DEF S, A, T, q
  <2> QED BY <2>1, <2>2, <2>3, Apart, Together
<1>3. T \in SUBSET (pmm.bitmap \ Reserved) /\ pmm.ready
  BY <1>2, InvFacts
<1> HIDE DEF T
<1>4. /\ Kept(q) /\ q.ready = pmm.ready /\ q.bitmap = pmm.bitmap \ T
      /\ Clear(q) = Clear(pmm) \cup T /\ InStep(pmm, q)
  BY <1>3, InvFacts, FreedFacts
<1> HIDE DEF q
<1>5. Typed(q, mem, S, held, runs)
  BY <1>4, InvFacts DEF Typed
<1> HIDE DEF S
<1>6. Owned(q, mem, S, held, runs)
  BY <1>2, <1>3, <1>4, InvFacts DEF Owned
<1>7. Clear(q) \cup Used(mem, S, held, runs) = Clear(pmm) \cup Used(mem, spaces, held, runs)
  BY <1>2, <1>4 DEF Used
<1> QED BY <1>1, <1>3, <1>4, <1>5, <1>6, <1>7 DEF Good, Sound, Fair
-----------------------------------------------------------------------------
(* The invariant holds *)

\* pmm_init over any memory map, with the boot tables.
LEMMA Initially == Init => Inv /\ spaces = {}
<1> SUFFICES ASSUME Init PROVE Inv /\ spaces = {}
  OBVIOUS
<1>1. PICK map \in MemoryMaps : pmm = AfterInit(map)
  BY DEF Init
<1>2. Kept(pmm)
  <2> DEFINE usable == UNION {RegionPages(map[k]) : k \in DOMAIN map}
             b == Pages \ (usable \ Reserved)
             total == Counted(map, Pages)
             free == Counted(map, Pages \ Reserved)
  <2>1. pmm = [bitmap |-> b, total |-> total, free |-> free, last |-> 0, ready |-> free # 0]
    BY <1>1 DEF AfterInit
  <2>2. b \in SUBSET Pages /\ Reserved \subseteq b
    BY PageFacts
  <2>3. ASSUME NEW S \in SUBSET Pages PROVE Counted(map, S) \in Nat
    <3>1. map \in Seq(Region)
      BY MemoryAssumption
    <3>2. DOMAIN map = 1 .. Len(map) /\ Len(map) \in Nat
      BY <3>1
    <3>3. IsFiniteSet(DOMAIN map) /\ IsFiniteSet(S)
      <4>1. IsFiniteSet(1 .. Len(map))
        BY <3>2, FS_Interval
      <4>2. IsFiniteSet(S)
        BY FS_Subset, PageFacts
      <4> QED BY <3>2, <4>1, <4>2
    <3> DEFINE kps == {kp \in (DOMAIN map) \X S : kp[2] \in RegionPages(map[kp[1]])}
    <3>4. IsFiniteSet((DOMAIN map) \X S)
      BY <3>3, FS_Product
    <3>5. kps \in SUBSET ((DOMAIN map) \X S)
      OBVIOUS
    <3> HIDE DEF kps
    <3>6. Cardinality(kps) \in Nat
      BY <3>4, <3>5, FS_Subset, FS_CardinalityType
    <3> QED BY <3>6 DEF Counted, kps
  <2>4. total \in Nat /\ free \in Nat /\ 0 \in Pages
    BY <2>3, PageFacts
  <2> HIDE DEF b, total, free
  <2> QED BY <2>1, <2>2, <2>4 DEF Kept, Pmm
<1>3. mem \in Mem
  <2>1. KernelPml4 \in Pages /\ KernelPdpt \in Pages /\ KernelPd \in Pages
    BY MemoryAssumption
  <2>2. /\ [Blank EXCEPT ![0] = KernelPdpt] \in [Slots -> Pages]
        /\ [Blank EXCEPT ![0] = KernelPd] \in [Slots -> Pages]
    BY <2>1, Shapes
  <2> QED BY <2>2, Shapes DEF Init, Mem
<1>4. spaces = {} /\ held = {} /\ runs = {}
  BY DEF Init
<1>5. Pdpts(mem, spaces) = {} /\ Pds(mem, spaces) = {} /\ Pts(mem, spaces) = {}
  BY <1>4 DEF Pdpts, Pds, Pts
<1>6. Tree(mem, spaces) /\ Tables(mem, spaces) = {} /\ RunPages(runs) = {}
  BY <1>4, <1>5 DEF Tree, Tables, RunPages
<1> QED BY <1>2, <1>3, <1>4, <1>6 DEF Inv, Sound, Typed, Owned

\* Each step keeps the invariant, loses no page and miscounts none.
LEMMA GoodStep ==
  ASSUME Inv, [Next]_vars PROVE Good(pmm', mem', spaces', held', runs')
<1>1. CASE UNCHANGED vars
  BY <1>1, Stays DEF vars
<1>2. CASE AllocPage
  BY <1>2, AllocPageStep
<1>3. CASE Refused
  BY <1>3, Stays DEF Refused, vars
<1>4. CASE CreateSpace
  BY <1>4, CreateSpaceStep
<1>5. CASE CreateSpaceFails
  BY <1>5, CreateSpaceFailsStep
<1>6. ASSUME NEW p \in Pages, FreePage(p) PROVE Good(pmm', mem', spaces', held', runs')
  BY <1>6, FreePageStep
<1>7. ASSUME NEW n \in RunSizes, AllocRun(n) PROVE Good(pmm', mem', spaces', held', runs')
  BY <1>7, AllocRunStep
<1>8. ASSUME NEW r \in runs, FreeRun(r) PROVE Good(pmm', mem', spaces', held', runs')
  BY <1>8, FreeRunStep
<1>9. ASSUME NEW s \in spaces, DestroySpace(s) PROVE Good(pmm', mem', spaces', held', runs')
  BY <1>9, DestroySpaceStep
<1>10. ASSUME NEW s \in spaces, NEW v \in UserPages, UnmapPage(s, v)
       PROVE  Good(pmm', mem', spaces', held', runs')
  BY <1>10, UnmapPageStep
<1>11. ASSUME NEW s \in spaces, NEW v \in UserPages, NEW f \in held, MapPage(s, v, f)
       PROVE  Good(pmm', mem', spaces', held', runs')
  BY <1>11, MapPageStep
<1> QED BY <1>1, <1>2, <1>3, <1>4, <1>5, <1>6, <1>7, <1>8, <1>9, <1>10, <1>11 DEF Next

\* The invariant is inductive.
LEMMA InvStep == Inv /\ [Next]_vars => Inv'
  BY GoodStep DEF Good, Inv

\* The invariant holds throughout: the theorems below follow from it.
THEOREM Invariance == Spec => []Inv
<1>1. Init => Inv
  BY Initially
<1> QED BY <1>1, InvStep, PTL DEF Spec

-----------------------------------------------------------------------------
(* What the invariant gives *)

\* As many pages as there are entries that point to them.
LEMMA CountedByEntries ==
  ASSUME NEW I, IsFiniteSet(I), NEW T, NEW f \in [I -> T],
         \A i, k \in I : f[i] = f[k] => i = k,
         \A x \in T : \E i \in I : f[i] = x
  PROVE  IsFiniteSet(T) /\ Cardinality(T) = Cardinality(I)
<1>1. f \in Bijection(I, T)
  BY Fun_IsBij
<1>2. ExistsBijection(I, T)
  BY <1>1, Fun_ExistsBij
<1> QED BY <1>2, FS_Bijection

\* Two sets without common members count together.
LEMMA CountedTogether ==
  ASSUME NEW A, NEW B, NEW C, IsFiniteSet(A), IsFiniteSet(B),
         \A x : x \in C <=> x \in A \/ x \in B, \A x \in A : x \notin B
  PROVE  IsFiniteSet(C) /\ Cardinality(C) = Cardinality(A) + Cardinality(B)
<1>1. IsFiniteSet(A \cup B) /\ Cardinality(A \cup B)
        = Cardinality(A) + Cardinality(B) - Cardinality(A \cap B)
  BY FS_Union
<1>2. C = A \cup B /\ A \cap B = {}
  OBVIOUS
<1>3. Cardinality(A \cap B) = 0 /\ Cardinality(A) \in Nat /\ Cardinality(B) \in Nat
  BY <1>2, FS_EmptySet, FS_CardinalityType
<1> QED BY <1>1, <1>2, <1>3

\* An address space has one table for each entry that is present.
LEMMA TablesCounted ==
  ASSUME Inv, NEW s \in spaces
  PROVE  Cardinality(TablesOf(s)) =
          2 + Cardinality({i \in User : mem[mem[s][0]][i] # 0})
            + Cardinality({ij \in User \X Slots :
                 mem[mem[s][0]][ij[1]] # 0 /\ mem[mem[mem[s][0]][ij[1]]][ij[2]] # 0})
<1> DEFINE d == mem[s][0]
           A == {s}
           I == {i \in User : mem[d][i] # 0}
           IJ == {ij \in User \X Slots : mem[d][ij[1]] # 0 /\ mem[mem[d][ij[1]]][ij[2]] # 0}
<1>1. Tree(mem, A)
  <2>1. A \in SUBSET spaces /\ {} \in SUBSET spaces /\ A \cap {} = {}
    OBVIOUS
  <2> HIDE DEF A
  <2> QED BY <2>1, InvFacts, Apart
<1>2. mem \in Mem /\ A \in SUBSET Pages
  BY InvFacts
<1>3. Pdpts(mem, A) = {d} /\ d # s
  BY <1>1 DEF Pdpts, Tree
<1> DEFINE D == Pds(mem, A)
           P == Pts(mem, A)
<1>4. D = {mem[d][i] : i \in User} \ {0}
  BY <1>3 DEF Pds
<1>5. P = {mem[e][j] : e \in D, j \in Slots} \ {0}
  BY DEF Pts
<1>6. /\ \A i, k \in User : mem[d][i] # 0 /\ mem[d][i] = mem[d][k] => i = k
      /\ \A e, g \in D : \A j, k \in Slots : mem[e][j] # 0 /\ mem[e][j] = mem[g][k] => e = g /\ j = k
      /\ s \notin D /\ d \notin D /\ s \notin P /\ d \notin P /\ D \cap P = {}
  <2>1. \A e, g \in Pdpts(mem, A) : \A i, k \in User :
          mem[e][i] # 0 /\ mem[e][i] = mem[g][k] => e = g /\ i = k
    BY <1>1 DEF Tree
  <2>2. \A e, g \in D : \A j, k \in Slots : mem[e][j] # 0 /\ mem[e][j] = mem[g][k] => e = g /\ j = k
    BY <1>1 DEF Tree
  <2>3. /\ (A \cup Pdpts(mem, A)) \cap D = {}
        /\ (A \cup Pdpts(mem, A) \cup D) \cap P = {}
    BY <1>1 DEF Tree
  <2> HIDE DEF D, P
  <2>4. d \in Pdpts(mem, A)
    BY <1>3
  <2> HIDE DEF d
  <2>5. \A i, k \in User : mem[d][i] # 0 /\ mem[d][i] = mem[d][k] => i = k
    BY <2>1, <2>4
  <2>6. s \in A \cup Pdpts(mem, A) /\ d \in A \cup Pdpts(mem, A)
    BY <2>4
  <2>7. s \notin D /\ d \notin D /\ s \notin P /\ d \notin P /\ D \cap P = {}
    BY <2>3, <2>6
  <2> QED BY <2>2, <2>5, <2>7
<1>7. TablesOf(s) = ({s, d} \cup D) \cup P
  BY <1>3, TablesOfIs DEF Tables
<1>8. IsFiniteSet(User) /\ IsFiniteSet(Slots) /\ IsFiniteSet(User \X Slots)
  <2>1. IsFiniteSet(User) /\ IsFiniteSet(Slots)
    BY Shapes, FS_Subset
  <2> QED BY <2>1, FS_Product
<1> HIDE DEF d, D, P, A
<1>9. IsFiniteSet(D) /\ Cardinality(D) = Cardinality(I) /\ Cardinality(I) \in Nat
  <2> DEFINE f == [i \in I |-> mem[d][i]]
  <2>1. I \in SUBSET User
    OBVIOUS
  <2>2. IsFiniteSet(I)
    BY <1>8, <2>1, FS_Subset
  <2>3. f \in [I -> D] /\ (\A i, k \in I : f[i] = f[k] => i = k) /\ \A x \in D : \E i \in I : f[i] = x
    BY <1>4, <1>6
  <2> HIDE DEF f, I
  <2> QED BY <2>2, <2>3, CountedByEntries, FS_CardinalityType
<1>10. IsFiniteSet(P) /\ Cardinality(P) = Cardinality(IJ) /\ Cardinality(IJ) \in Nat
  <2> DEFINE f == [ij \in IJ |-> mem[mem[d][ij[1]]][ij[2]]]
  <2>1. IJ \in SUBSET (User \X Slots)
    OBVIOUS
  <2>2. IsFiniteSet(IJ)
    BY <1>8, <2>1, FS_Subset
  <2>3. f \in [IJ -> P]
    BY <1>4, <1>5
  <2>4. ASSUME NEW x \in IJ, NEW y \in IJ, f[x] = f[y] PROVE x = y
    <3>1. /\ x \in User \X Slots /\ mem[d][x[1]] \in D /\ mem[mem[d][x[1]]][x[2]] # 0
          /\ y \in User \X Slots /\ mem[d][y[1]] \in D
          /\ mem[mem[d][x[1]]][x[2]] = mem[mem[d][y[1]]][y[2]]
      BY <1>4, <2>4
    <3>2. mem[d][x[1]] = mem[d][y[1]] /\ x[2] = y[2]
      BY <1>6, <3>1
    <3>3. x[1] = y[1]
      BY <1>4, <1>6, <3>1, <3>2
    <3> QED BY <3>1, <3>2, <3>3
  <2>5. ASSUME NEW x \in P PROVE \E ij \in IJ : f[ij] = x
    <3>1. PICK e \in D, j \in Slots : x = mem[e][j] /\ x # 0
      BY <1>5
    <3>2. PICK i \in User : e = mem[d][i] /\ e # 0
      BY <1>4
    <3>3. <<i, j>> \in IJ /\ f[<<i, j>>] = x
      BY <3>1, <3>2
    <3> QED BY <3>3
  <2> HIDE DEF f, IJ
  <2> QED BY <2>2, <2>3, <2>4, <2>5, CountedByEntries, FS_CardinalityType
<1>11. Cardinality({s, d}) = 2 /\ IsFiniteSet({s, d})
  <2>1. {s, d} = {s} \cup {d}
    OBVIOUS
  <2>2. IsFiniteSet({s}) /\ Cardinality({s}) = 1
    BY FS_Singleton
  <2> QED BY <1>3, <2>1, <2>2, FS_AddElement
<1> DEFINE sd == {s, d}
           sdD == sd \cup D
           all == sdD \cup P
<1>12. /\ \A x : x \in sdD <=> x \in sd \/ x \in D
       /\ \A x \in sd : x \notin D
       /\ \A x : x \in all <=> x \in sdD \/ x \in P
       /\ \A x \in sdD : x \notin P
  BY <1>6
<1>13. TablesOf(s) = all /\ Cardinality(sd) = 2 /\ IsFiniteSet(sd)
  BY <1>7, <1>11
<1> HIDE DEF sd, sdD, all
<1>14. IsFiniteSet(sdD) /\ Cardinality(sdD) = 2 + Cardinality(D)
  BY <1>9, <1>12, <1>13, CountedTogether
<1>15. Cardinality(all) = 2 + Cardinality(D) + Cardinality(P)
  BY <1>10, <1>12, <1>14, CountedTogether
<1>16. Cardinality(TablesOf(s)) = 2 + Cardinality(I) + Cardinality(IJ)
  <2> HIDE DEF I, IJ, D, P
  <2> QED BY <1>9, <1>10, <1>13, <1>15
<1> QED BY <1>16, Zenon DEF d, I, IJ

\* The tables of one space are among those of all.
LEMMA TablesWithin ==
  ASSUME Inv, NEW s \in spaces PROVE TablesOf(s) \subseteq Tables(mem, spaces)
<1> DEFINE A == {s}
<1>1. A \in SUBSET spaces /\ TablesOf(s) = Tables(mem, A)
  BY TablesOfIs
<1> HIDE DEF A
<1> QED BY <1>1, Within

\* The three uses a page can have.
LEMMA UseForms ==
  \A x \in Uses :
     \/ \E p \in held : x = <<"held", p, p>>
     \/ \E r \in runs : \E p \in Span(r) : x = <<"run", r, p>>
     \/ \E s \in spaces : \E p \in TablesOf(s) : x = <<"space", s, p>>
  BY DEF Uses, Span

\* What is in use is what the tables, the callers and the runs have.
LEMMA InUseIs == Inv => InUse = Used(mem, spaces, held, runs)
<1> SUFFICES ASSUME Inv PROVE InUse = Used(mem, spaces, held, runs)
  OBVIOUS
<1>1. \A s \in spaces : TablesOf(s) \subseteq Tables(mem, spaces)
  BY TablesWithin
<1>2. ASSUME NEW x \in Tables(mem, spaces) PROVE \E s \in spaces : x \in TablesOf(s)
  <2>1. \A s \in spaces : s \in TablesOf(s) /\ mem[s][0] \in TablesOf(s)
    BY DEF TablesOf
  <2>2. \A s \in spaces, i \in User : mem[mem[s][0]][i] # 0 => mem[mem[s][0]][i] \in TablesOf(s)
    BY DEF TablesOf, User
  <2>3. ASSUME NEW s \in spaces, NEW i \in User, NEW j \in Slots, mem[mem[s][0]][i] # 0,
               mem[mem[mem[s][0]][i]][j] # 0
        PROVE  mem[mem[mem[s][0]][i]][j] \in TablesOf(s)
    <3> DEFINE pd == mem[mem[s][0]][i]
    <3>1. mem[s][0] \in Pdpts(mem, {s})
      BY DEF Pdpts
    <3>2. pd \in Pds(mem, {s})
      BY <2>3, <3>1 DEF Pds
    <3>3. mem[pd][j] \in Pts(mem, {s})
      BY <2>3, <3>2 DEF Pts
    <3> QED BY <3>3, TablesOfIs DEF Tables
  <2>4. CASE x \in spaces
    BY <2>1, <2>4
  <2>5. CASE x \in Pdpts(mem, spaces)
    BY <2>1, <2>5 DEF Pdpts
  <2>6. ASSUME NEW y \in Pds(mem, spaces)
        PROVE  \E s \in spaces, i \in User : y = mem[mem[s][0]][i] /\ y # 0
    <3>1. PICK d \in Pdpts(mem, spaces), i \in User : y = mem[d][i] /\ y # 0
      BY DEF Pds
    <3>2. PICK s \in spaces : d = mem[s][0]
      BY DEF Pdpts
    <3> QED BY <3>1, <3>2
  <2>7. CASE x \in Pds(mem, spaces)
    BY <2>2, <2>6, <2>7
  <2>8. CASE x \in Pts(mem, spaces)
    <3>1. PICK e \in Pds(mem, spaces), j \in Slots : x = mem[e][j] /\ x # 0
      BY <2>8 DEF Pts
    <3>2. PICK s \in spaces, i \in User : e = mem[mem[s][0]][i] /\ e # 0
      BY <2>6
    <3> QED BY <2>3, <3>1, <3>2
  <2> QED BY <2>4, <2>5, <2>7, <2>8 DEF Tables
<1>3. Used(mem, spaces, held, runs) \subseteq InUse
  <2> SUFFICES ASSUME NEW x \in Used(mem, spaces, held, runs) PROVE \E u \in Uses : u[3] = x
    BY DEF InUse
  <2>1. CASE x \in held
    <3>1. <<"held", x, x>> \in Uses
      BY <2>1 DEF Uses
    <3> QED BY <3>1
  <2>2. CASE x \in RunPages(runs)
    <3>1. PICK r \in runs : x \in Span(r)
      BY <2>2 DEF RunPages
    <3>2. <<"run", r, x>> \in Uses
      BY <3>1 DEF Uses, Span
    <3> QED BY <3>2
  <2>3. CASE x \in Tables(mem, spaces)
    <3>1. PICK s \in spaces : x \in TablesOf(s)
      BY <1>2, <2>3
    <3>2. <<"space", s, x>> \in Uses
      BY <3>1 DEF Uses
    <3> QED BY <3>2
  <2> QED BY <2>1, <2>2, <2>3 DEF Used
<1>4. ASSUME NEW u \in Uses PROVE u[3] \in Used(mem, spaces, held, runs)
  <2>1. \A p \in held : p \in Used(mem, spaces, held, runs)
    BY DEF Used
  <2>2. \A r \in runs : \A p \in Span(r) : p \in Used(mem, spaces, held, runs)
    BY DEF Used, RunPages
  <2>3. \A s \in spaces : \A p \in TablesOf(s) : p \in Used(mem, spaces, held, runs)
    BY <1>1 DEF Used
  <2> QED BY <2>1, <2>2, <2>3, UseForms
<1> QED BY <1>3, <1>4 DEF InUse

\* One use of every page follows from the four levels.
LEMMA InvOneUse == Inv => OneUse
<1> SUFFICES ASSUME Inv PROVE OneUse
  OBVIOUS
<1>1. ASSUME NEW u \in Uses PROVE u[3] \in pmm.bitmap \ Reserved
  <2>1. u[3] \in InUse
    BY DEF InUse
  <2> QED BY <2>1, InUseIs, InvFacts DEF Used
<1>2. \A s \in spaces : TablesOf(s) \subseteq Tables(mem, spaces)
  BY TablesWithin
<1>3. ASSUME NEW s \in spaces, NEW t \in spaces, s # t PROVE TablesOf(s) \cap TablesOf(t) = {}
  <2> DEFINE A == {s}
             B == {t}
  <2>1. A \in SUBSET spaces /\ B \in SUBSET spaces /\ A \cap B = {}
    BY <1>3
  <2>2. TablesOf(s) = Tables(mem, A) /\ TablesOf(t) = Tables(mem, B)
    BY TablesOfIs
  <2> HIDE DEF A, B
  <2> QED BY <2>1, <2>2, InvFacts, Apart
<1>4. ASSUME NEW u \in Uses, NEW w \in Uses, u # w PROVE u[3] # w[3]
  <2>1. ASSUME NEW p \in held, u = <<"held", p, p>> PROVE u[3] # w[3]
    <3>1. ASSUME NEW q \in held, w = <<"held", q, q>> PROVE u[3] # w[3]
      BY <1>4, <2>1, <3>1
    <3>2. ASSUME NEW r \in runs, NEW q \in Span(r), w = <<"run", r, q>> PROVE u[3] # w[3]
      BY <2>1, <3>2, InvFacts
    <3>3. ASSUME NEW s \in spaces, NEW q \in TablesOf(s), w = <<"space", s, q>> PROVE u[3] # w[3]
      BY <1>2, <2>1, <3>3, InvFacts
    <3> QED BY <3>1, <3>2, <3>3, UseForms
  <2>2. ASSUME NEW r \in runs, NEW p \in Span(r), u = <<"run", r, p>> PROVE u[3] # w[3]
    <3>1. ASSUME NEW q \in held, w = <<"held", q, q>> PROVE u[3] # w[3]
      BY <2>2, <3>1, InvFacts
    <3>2. ASSUME NEW t \in runs, NEW q \in Span(t), w = <<"run", t, q>> PROVE u[3] # w[3]
      <4>1. CASE r = t
        BY <1>4, <2>2, <3>2, <4>1
      <4>2. CASE r # t
        BY <2>2, <3>2, <4>2, InvFacts
      <4> QED BY <4>1, <4>2
    <3>3. ASSUME NEW s \in spaces, NEW q \in TablesOf(s), w = <<"space", s, q>> PROVE u[3] # w[3]
      BY <1>2, <2>2, <3>3, InvFacts
    <3> QED BY <3>1, <3>2, <3>3, UseForms
  <2>3. ASSUME NEW s \in spaces, NEW p \in TablesOf(s), u = <<"space", s, p>> PROVE u[3] # w[3]
    <3>1. ASSUME NEW q \in held, w = <<"held", q, q>> PROVE u[3] # w[3]
      BY <1>2, <2>3, <3>1, InvFacts
    <3>2. ASSUME NEW t \in runs, NEW q \in Span(t), w = <<"run", t, q>> PROVE u[3] # w[3]
      BY <1>2, <2>3, <3>2, InvFacts
    <3>3. ASSUME NEW t \in spaces, NEW q \in TablesOf(t), w = <<"space", t, q>> PROVE u[3] # w[3]
      <4>1. CASE s = t
        BY <1>4, <2>3, <3>3, <4>1
      <4>2. CASE s # t
        BY <1>3, <2>3, <3>3, <4>2
      <4> QED BY <4>1, <4>2
    <3> QED BY <3>1, <3>2, <3>3, UseForms
  <2> QED BY <2>1, <2>2, <2>3, UseForms
<1>5. \A s \in spaces : Cardinality(TablesOf(s)) =
          2 + Cardinality({i \in UserFrom .. High : mem[mem[s][0]][i] # 0})
            + Cardinality({ij \in (UserFrom .. High) \X Slots :
                 mem[mem[s][0]][ij[1]] # 0 /\ mem[mem[mem[s][0]][ij[1]]][ij[2]] # 0})
  BY TablesCounted DEF User
<1> QED BY <1>1, <1>4, <1>5 DEF OneUse

\* Every page handed out has one use, whatever the loader's memory map, the number of
\* pages and of spaces, and the order of calls, failing ones included.
THEOREM EveryPageHasOneUse == Spec => []PagesOwned
<1>1. Inv => TypeOK
  BY InvFacts DEF TypeOK, Kept, Pmm, Mem
<1>2. Inv => PagesOwned
  BY <1>1, InvOneUse DEF PagesOwned
<1> QED BY <1>2, Invariance, PTL

\* The free counter follows the bitmap through every call.
THEOREM CountFollowsBitmap == Spec => NoDrift
<1> DEFINE A == pmm'.free + Cardinality(Clear(pmm)) = pmm.free + Cardinality(Clear(pmm'))
<1>1. Inv /\ [Next]_vars => A
  BY GoodStep DEF Good, Fair, InStep
<1> HIDE DEF A
<1>2. Spec => [][A]_vars
  BY <1>1, Invariance, PTL DEF Spec
<1> QED BY <1>2 DEF NoDrift, A

\* No step leaks a page or uses one that was neither free nor in use.
THEOREM NoPageIsLost == Spec => NothingLost
<1> DEFINE A == Clear(pmm') \cup InUse' = Clear(pmm) \cup InUse
           I == InUse = Used(mem, spaces, held, runs)
<1>1. Inv => I
  BY InUseIs
<1>2. Inv /\ I /\ I' /\ [Next]_vars => A
  <2> SUFFICES ASSUME Inv, I, I', [Next]_vars PROVE A
    OBVIOUS
  <2>1. InUse' = Used(mem', spaces', held', runs')
    OBVIOUS
  <2>2. Clear(pmm') \cup Used(mem', spaces', held', runs')
          = Clear(pmm) \cup Used(mem, spaces, held, runs)
    BY GoodStep DEF Good, Fair
  <2> QED BY <2>1, <2>2
<1> HIDE DEF A, I
<1>3. Spec => [][A]_vars
  BY <1>1, <1>2, Invariance, PTL DEF Spec
<1> QED BY <1>3 DEF NothingLost, A
-----------------------------------------------------------------------------
(* The address spaces that the tables implement *)

MapsOf(m, S) == [s \in S |-> [v \in UserPages |-> FrameIn(m, s, v)]]

\* What vmm_get_phys answers.
LEMMA PhysIs ==
  Inv => [s \in spaces |-> [v \in UserPages |-> Phys(s, v)]] = MapsOf(mem, spaces)
<1> SUFFICES ASSUME Inv
             PROVE  [s \in spaces |-> [v \in UserPages |-> Phys(s, v)]] = MapsOf(mem, spaces)
  OBVIOUS
<1>1. ASSUME NEW s \in spaces, NEW v \in UserPages PROVE Phys(s, v) = FrameIn(mem, s, v)
  <2>1. mem[s][0] # 0
    <3>1. mem[s][0] \in Pdpts(mem, spaces)
      BY DEF Pdpts
    <3> QED BY <3>1, InvFacts DEF Tree
  <2> QED BY <2>1 DEF Phys, FrameIn, PtOf, PdOf
<1> QED BY <1>1 DEF MapsOf

\* The maps after a step that changes the frame of one page, or none.
LEMMA MapsAfter ==
  ASSUME NEW m, NEW s \in spaces, NEW v \in UserPages, NEW f
  PROVE  /\ SameIn(m, spaces) => MapsOf(m, spaces) = MapsOf(mem, spaces)
         /\ OnlyFrame(m, s, v, f) =>
              MapsOf(m, spaces) = [MapsOf(mem, spaces) EXCEPT ![s][v] = f]
<1>1. SameIn(m, spaces) => MapsOf(m, spaces) = MapsOf(mem, spaces)
  BY DEF SameIn, MapsOf
<1>2. ASSUME OnlyFrame(m, s, v, f)
      PROVE  MapsOf(m, spaces) = [MapsOf(mem, spaces) EXCEPT ![s][v] = f]
  <2> DEFINE M == MapsOf(mem, spaces)
             row == [u \in UserPages |-> FrameIn(mem, s, u)]
             new == [row EXCEPT ![v] = f]
  <2>1. M = [t \in spaces |-> [u \in UserPages |-> FrameIn(mem, t, u)]]
    BY DEF MapsOf
  <2>2. [M EXCEPT ![s][v] = f] = [M EXCEPT ![s] = new]
    BY <2>1
  <2>3. new = [u \in UserPages |-> FrameIn(m, s, u)]
    BY <1>2 DEF OnlyFrame
  <2>4. \A t \in spaces \ {s} : M[t] = [u \in UserPages |-> FrameIn(m, t, u)]
    BY <1>2, <2>1 DEF OnlyFrame
  <2> HIDE DEF new, row
  <2>5. [M EXCEPT ![s] = new] = [t \in spaces |-> IF t = s THEN new ELSE M[t]]
    BY <2>1
  <2>6. [t \in spaces |-> IF t = s THEN new ELSE M[t]] = MapsOf(m, spaces)
    BY <2>3, <2>4 DEF MapsOf
  <2> QED BY <2>2, <2>5, <2>6
<1> QED BY <1>1, <1>2

(* The maps of AddressSpaces. *)
Maps == [s \in spaces |-> [v \in UserPages |-> Phys(s, v)]]

\* There are no spaces at first.
LEMMA MapsInit == Init => Abstract!Init
<1> SUFFICES ASSUME Init PROVE Abstract!Init
  OBVIOUS
<1>1. spaces = {}
  BY Initially
<1> QED BY <1>1 DEF Abstract!Init

\* Every step of vmm.c is a step on one address space, or changes none.
LEMMA MapsStep ==
  ASSUME Inv, [Next]_vars, Maps = MapsOf(mem, spaces), Maps' = MapsOf(mem', spaces')
  PROVE  Maps' = Maps \/ Abstract!Next
<1>1. ASSUME SameIn(mem', spaces), spaces' = spaces PROVE Maps' = Maps
  BY <1>1 DEF SameIn, MapsOf
<1>2. CASE UNCHANGED <<mem, spaces>>
  BY <1>2
<1>3. CASE CreateSpaceFails
  BY <1>1, <1>3, CreateSpaceFailsStep DEF CreateSpaceFails
<1>4. CASE CreateSpace
  <2>1. SameIn(mem', spaces)
    BY <1>4, CreateSpaceStep
  <2>2. PICK r \in Pages \ spaces :
          spaces' = spaces \cup {r} /\ \A v \in UserPages : FrameIn(mem', r, v) = 0
    BY <1>4, CreateSpaceStep
  <2>3. DOMAIN Maps = spaces /\ r \notin spaces
    BY DEF Maps
  <2>4. Maps' = [t \in spaces \cup {r} |-> IF t = r THEN [v \in UserPages |-> 0] ELSE Maps[t]]
    BY <2>1, <2>2 DEF MapsOf, SameIn
  <2>5. Abstract!Create(r)
    BY <2>3, <2>4 DEF Abstract!Create, Abstract!Empty, Maps
  <2> QED BY <2>5 DEF Abstract!Next
<1>5. ASSUME NEW s \in spaces, DestroySpace(s) PROVE Maps' = Maps \/ Abstract!Next
  <2>1. mem' = mem /\ spaces' = spaces \ {s}
    BY <1>5 DEF DestroySpace
  <2>2. DOMAIN Maps = spaces /\ s \in Pages
    BY InvFacts DEF Maps
  <2>3. Maps' = [t \in spaces \ {s} |-> Maps[t]]
    BY <2>1 DEF MapsOf
  <2>4. Abstract!Destroy(s)
    BY <2>2, <2>3 DEF Abstract!Destroy, Maps
  <2> QED BY <2>2, <2>4 DEF Abstract!Next
<1>6. ASSUME NEW s \in spaces, NEW v \in UserPages, NEW f \in Pages,
             OnlyFrame(mem', s, v, f), spaces' = spaces
      PROVE  Abstract!Map(s, v, f)
  <2>1. Maps' = [Maps EXCEPT ![s][v] = f]
    BY <1>6, MapsAfter
  <2>2. DOMAIN Maps = spaces
    BY DEF Maps
  <2> QED BY <2>1, <2>2 DEF Abstract!Map, Maps
<1>7. ASSUME NEW s \in spaces, NEW v \in UserPages, UnmapPage(s, v)
      PROVE  Maps' = Maps \/ Abstract!Next
  <2>1. OnlyFrame(mem', s, v, 0) /\ spaces' = spaces /\ s \in Pages /\ 0 \in Pages
    BY <1>7, UnmapPageStep, InvFacts, PageFacts DEF UnmapPage
  <2>2. Abstract!Unmap(s, v)
    BY <1>6, <2>1 DEF Abstract!Unmap
  <2> QED BY <2>1, <2>2 DEF Abstract!Next
<1>8. ASSUME NEW s \in spaces, NEW v \in UserPages, NEW f \in held, MapPage(s, v, f)
      PROVE  Maps' = Maps \/ Abstract!Next
  <2>1. (OnlyFrame(mem', s, v, f) \/ SameIn(mem', spaces)) /\ spaces' = spaces
        /\ s \in Pages /\ f \in Pages
    BY <1>8, MapPageStep, InvFacts DEF MapPage
  <2>2. CASE SameIn(mem', spaces)
    BY <1>1, <2>1, <2>2
  <2>3. CASE OnlyFrame(mem', s, v, f)
    <3>1. Abstract!Map(s, v, f)
      BY <1>6, <2>1, <2>3
    <3> QED BY <2>1, <3>1 DEF Abstract!Next
  <2> QED BY <2>1, <2>2, <2>3
<1>9. /\ AllocPage \/ Refused \/ UNCHANGED vars => UNCHANGED <<mem, spaces>>
      /\ \A p : FreePage(p) => UNCHANGED <<mem, spaces>>
      /\ \A n : AllocRun(n) => UNCHANGED <<mem, spaces>>
      /\ \A r : FreeRun(r) => UNCHANGED <<mem, spaces>>
  BY DEF AllocPage, Refused, FreePage, AllocRun, FreeRun, vars
<1> QED BY <1>2, <1>3, <1>4, <1>5, <1>7, <1>8, <1>9 DEF Next

\* The page tables give each address space a map of its own: no call on one space
\* changes what another has mapped, and a mapping that fails changes none.
THEOREM TablesAreSpaces == Spec => ImplementsSpaces
<1> DEFINE E == Maps = MapsOf(mem, spaces)
<1>1. Inv => E
  BY PhysIs DEF Maps
<1>2. Inv /\ E /\ E' /\ [Next]_vars => [Abstract!Next]_Maps
  BY MapsStep
<1> HIDE DEF E
<1>3. Spec => Abstract!Init /\ [][Abstract!Next]_Maps
  BY <1>1, <1>2, MapsInit, Invariance, PTL DEF Spec
<1> QED BY <1>3, PTL DEF ImplementsSpaces, Abstract!Spec, Maps

\* All that the run checks of the pages' steps.
THEOREM PagesAreImplemented == Spec => PagesImplemented
  BY CountFollowsBitmap, NoPageIsLost, TablesAreSpaces DEF PagesImplemented

-----------------------------------------------------------------------------
(* Lists of headers, whatever heap they are of: A is the size of the arena,
   Hd that of a header, Al the alignment. *)

Blk == [size : Nat, next : Nat, used : BOOLEAN]

(* The headers follow each other from the start of the arena to its end. *)
Chain(h, A) ==
    /\ h \in [DOMAIN h -> Blk]
    /\ DOMAIN h \subseteq 0 .. A - 1
    /\ 0 \in DOMAIN h
    /\ \A a \in DOMAIN h :
          /\ h[a].next = a + h[a].size
          /\ h[a].next \in DOMAIN h \cup {A}
          /\ a < h[a].next
    /\ \A a, b \in DOMAIN h : a < b => h[a].next <= b

Shaped(h, Hd, Al) == \A a \in DOMAIN h : h[a].size >= Hd /\ a % Al = 0

Parted(h, A) == \A a \in DOMAIN h : h[a].next # A => h[a].used \/ h[h[a].next].used

UsedOf(h) == {a \in DOMAIN h : h[a].used}
LoadOf(h, a, Hd) == IF h[a].size <= Hd THEN 0 ELSE h[a].size - Hd

JoinsIn(h, b) ==
    \E a \in DOMAIN h : h[a].next = b /\ a + h[a].size = b /\ ~h[a].used /\ ~h[b].used
RemainingIn(h) == {b \in DOMAIN h : ~JoinsIn(h, b)}
RunOf(h, a) == {b \in DOMAIN h : a <= b /\ \A c \in RemainingIn(h) : c <= a \/ b < c}
LastIn(h, a) == Max(RunOf(h, a))
JoinedList(h) ==
    [a \in RemainingIn(h) |->
        [size |-> LastIn(h, a) + h[LastIn(h, a)].size - a,
         next |-> h[LastIn(h, a)].next,
         used |-> h[a].used]]

CarvedList(h, a, need, Hd, Al) ==
    IF LoadOf(h, a, Hd) - need < Hd + Al THEN [h EXCEPT ![a].used = TRUE]
    ELSE [c \in DOMAIN h \cup {a + Hd + need} |->
             CASE c = a + Hd + need ->
                     [size |-> LoadOf(h, a, Hd) - need, next |-> h[a].next, used |-> FALSE]
               [] c = a -> [size |-> Hd + need, next |-> a + Hd + need, used |-> TRUE]
               [] OTHER -> h[c]]

\* Max of a bounded set of naturals is its greatest element.
LEMMA MaxFacts ==
  ASSUME NEW S \in SUBSET Nat, S # {}, NEW m \in Nat, \A x \in S : x <= m
  PROVE  Max(S) \in S /\ \A x \in S : x <= Max(S)
<1> DEFINE T == {y \in Nat : \A x \in S : x <= y}
<1>1. T \in SUBSET Nat /\ T # {}
  OBVIOUS
<1>2. Min(T) \in T /\ \A y \in T : Min(T) <= y
  BY <1>1, MinFacts
<1>3. PICK u \in T : \A y \in T : u <= y
  BY <1>2
<1>4. u \in S
  <2>1. SUFFICES ASSUME u \notin S PROVE FALSE
    OBVIOUS
  <2>2. \A x \in S : x \in Nat /\ u \in Nat /\ x < u
    BY <1>3, <2>1
  <2>3. u # 0
    <3>1. PICK x \in S : TRUE
      OBVIOUS
    <3>2. x \in Nat /\ u \in Nat /\ x < u
      BY <2>2
    <3> QED BY <3>2
  <2>4. u - 1 \in Nat /\ \A x \in S : x <= u - 1
    BY <1>3, <2>2, <2>3
  <2>5. u - 1 \in T
    BY <2>4
  <2> QED BY <1>3, <2>5
<1>5. \E x \in S : \A y \in S : y <= x
  BY <1>3, <1>4
<1> QED BY <1>5 DEF Max

\* What is known of a list's headers.
LEMMA ChainFacts ==
  ASSUME NEW h, NEW A \in Nat, Chain(h, A)
  PROVE  /\ DOMAIN h \subseteq Nat /\ IsFiniteSet(DOMAIN h)
         /\ \A a \in DOMAIN h : /\ a \in Nat /\ a < A
                                /\ h[a].size \in Nat /\ h[a].next \in Nat
                                /\ h[a].used \in BOOLEAN
                                /\ h[a] = [size |-> h[a].size, next |-> h[a].next,
                                           used |-> h[a].used]
                                /\ h[a].next <= A
<1>1. DOMAIN h \subseteq 0 .. A - 1 /\ DOMAIN h \subseteq Nat
  BY DEF Chain
<1>2. IsFiniteSet(DOMAIN h)
  <2>1. 0 \in Int /\ A - 1 \in Int
    OBVIOUS
  <2>2. IsFiniteSet(0 .. A - 1)
    BY <2>1, FS_Interval
  <2> QED BY <1>1, <2>2, FS_Subset
<1>3. ASSUME NEW a \in DOMAIN h
      PROVE  h[a] \in Blk /\ h[a].next \in DOMAIN h \cup {A} /\ a \in 0 .. A - 1
  BY <1>1, <1>3 DEF Chain
<1> QED BY <1>1, <1>2, <1>3 DEF Blk

\* Every header but the first has one before it, and only one.
LEMMA Before ==
  ASSUME NEW h, NEW A \in Nat, Chain(h, A), NEW b \in DOMAIN h \cup {A}, b # 0
  PROVE  \E a \in DOMAIN h : h[a].next = b
<1> DEFINE S == {c \in DOMAIN h : c < b}
<1>1. b \in Nat /\ b <= A
  BY ChainFacts
<1>2. S \in SUBSET Nat /\ 0 \in S /\ \A x \in S : x <= b
  BY <1>1, ChainFacts DEF Chain
<1>3. Max(S) \in S /\ \A x \in S : x <= Max(S)
  BY <1>1, <1>2, MaxFacts
<1>4. PICK a \in S : \A x \in S : x <= a
  BY <1>3
<1>5. h[a].next <= b
  BY <1>1, <1>4, ChainFacts DEF Chain
<1>6. h[a].next \in Nat /\ a \in Nat /\ a < h[a].next /\ h[a].next \in DOMAIN h \cup {A}
  BY <1>4, ChainFacts DEF Chain
<1>7. CASE h[a].next = b
  BY <1>4, <1>7
<1>8. CASE h[a].next < b
  <2>1. h[a].next \in S
    BY <1>1, <1>6, <1>8
  <2> QED BY <1>4, <1>6, <2>1
<1> QED BY <1>1, <1>5, <1>6, <1>7, <1>8

LEMMA OneBefore ==
  ASSUME NEW h, NEW A \in Nat, Chain(h, A), NEW a \in DOMAIN h, NEW b \in DOMAIN h,
         h[a].next = h[b].next
  PROVE  a = b
<1>1. a \in Nat /\ b \in Nat /\ a < h[a].next /\ b < h[b].next
      /\ h[a].next \in Nat /\ h[b].next \in Nat
  BY ChainFacts DEF Chain
<1>2. (a < b => h[a].next <= b) /\ (b < a => h[b].next <= a)
  BY DEF Chain
<1> QED BY <1>1, <1>2

\* The run of free blocks that becomes the block at a.
LEMMA Runs ==
  ASSUME NEW h, NEW A \in Nat, Chain(h, A), NEW a \in RemainingIn(h)
  PROVE  LET z == LastIn(h, a)
         IN  /\ z \in DOMAIN h /\ a <= z
             /\ \A c \in RemainingIn(h) : c <= a \/ z < c
             /\ h[z].next \in RemainingIn(h) \cup {A}
             /\ h[a].used => z = a
             /\ ~h[a].used => ~h[z].used
<1>1. a \in DOMAIN h /\ a \in Nat /\ RemainingIn(h) \subseteq DOMAIN h /\ DOMAIN h \subseteq Nat
  BY ChainFacts DEF RemainingIn
<1>2. a \in RunOf(h, a) /\ RunOf(h, a) \in SUBSET Nat /\ \A x \in RunOf(h, a) : x <= A
  BY <1>1, ChainFacts DEF RunOf
<1>3. LastIn(h, a) \in RunOf(h, a) /\ \A x \in RunOf(h, a) : x <= LastIn(h, a)
  BY <1>2, MaxFacts DEF LastIn
<1>4. PICK z : z = LastIn(h, a)
  OBVIOUS
<1>5. /\ z \in DOMAIN h /\ z \in Nat /\ a <= z /\ h[z].next \in Nat /\ z < h[z].next
      /\ \A c \in RemainingIn(h) : c <= a \/ z < c
      /\ \A x \in RunOf(h, a) : x <= z
  BY <1>3, <1>4, ChainFacts DEF RunOf, Chain
<1>6. h[z].next \in RemainingIn(h) \cup {A}
  <2>1. SUFFICES ASSUME h[z].next \in DOMAIN h, h[z].next \notin RemainingIn(h) PROVE FALSE
    BY <1>5 DEF Chain
  <2>2. PICK n : n = h[z].next
    OBVIOUS
  <2>3. ASSUME NEW c \in RemainingIn(h) PROVE c <= a \/ n < c
    <3>1. c \in DOMAIN h /\ c \in Nat /\ c # n /\ n \in Nat
      BY <1>1, <1>5, <2>1, <2>2
    <3>2. z < c => n <= c
      BY <1>5, <2>2, <3>1 DEF Chain
    <3> QED BY <1>5, <3>1, <3>2
  <2>4. n \in RunOf(h, a)
    BY <1>1, <1>5, <2>1, <2>2, <2>3 DEF RunOf
  <2> QED BY <1>5, <2>2, <2>4
<1>7. ASSUME NEW b \in DOMAIN h, a < b, b <= z PROVE JoinsIn(h, b)
  <2>1. b \notin RemainingIn(h)
    BY <1>1, <1>5, <1>7
  <2> QED BY <2>1 DEF RemainingIn
<1>8. h[a].used => z = a
  <2>1. SUFFICES ASSUME h[a].used, z # a PROVE FALSE
    OBVIOUS
  <2>2. PICK n : n = h[a].next
    OBVIOUS
  <2>3. a < z /\ n <= z /\ a < n /\ n \in Nat /\ n \in DOMAIN h \cup {A} /\ z < A
    BY <1>1, <1>5, <2>1, <2>2, ChainFacts DEF Chain
  <2>4. n \in DOMAIN h
    BY <1>5, <2>3
  <2>5. JoinsIn(h, n)
    BY <1>7, <2>3, <2>4
  <2>6. PICK x \in DOMAIN h : h[x].next = n /\ ~h[x].used
    BY <2>5 DEF JoinsIn
  <2>7. x = a
    BY <1>1, <2>2, <2>6, OneBefore
  <2> QED BY <2>1, <2>6, <2>7
<1>9. ~h[a].used => ~h[z].used
  <2>1. CASE z = a
    BY <2>1
  <2>2. CASE z # a
    <3>1. JoinsIn(h, z)
      BY <1>1, <1>5, <1>7, <2>2
    <3> QED BY <3>1 DEF JoinsIn
  <2> QED BY <2>1, <2>2
<1> QED BY <1>4, <1>5, <1>6, <1>8, <1>9

\* kheap_free and woos_free join every run of free blocks that touch.
LEMMA JoinedFacts ==
  ASSUME NEW h, NEW A \in Nat, NEW Hd \in Nat, NEW Al, Chain(h, A), Shaped(h, Hd, Al)
  PROVE  /\ Chain(JoinedList(h), A) /\ Shaped(JoinedList(h), Hd, Al) /\ Parted(JoinedList(h), A)
         /\ UsedOf(JoinedList(h)) = UsedOf(h)
         /\ \A a \in UsedOf(h) : JoinedList(h)[a] = h[a]
<1> DEFINE R == RemainingIn(h)
<1>1. R \subseteq DOMAIN h /\ DOMAIN h \subseteq 0 .. A - 1 /\ DOMAIN h \subseteq Nat
  BY ChainFacts DEF RemainingIn, Chain
<1>2. PICK j : j = JoinedList(h)
  OBVIOUS
<1>3. DOMAIN j = R
  BY <1>2 DEF JoinedList
<1>4. ASSUME NEW a \in R
      PROVE  \E z \in DOMAIN h :
                /\ a \in Nat /\ z \in Nat /\ a <= z /\ z < h[z].next
                /\ h[z].next = z + h[z].size /\ h[z].next \in Nat /\ h[z].size \in Nat
                /\ \A c \in R : c <= a \/ z < c
                /\ h[z].next \in R \cup {A}
                /\ (h[a].used => z = a) /\ (~h[a].used => ~h[z].used)
                /\ j[a] = [size |-> h[z].next - a, next |-> h[z].next, used |-> h[a].used]
  <2>1. PICK z : z = LastIn(h, a)
    OBVIOUS
  <2>2. /\ z \in DOMAIN h /\ a <= z
        /\ \A c \in R : c <= a \/ z < c
        /\ h[z].next \in R \cup {A}
        /\ (h[a].used => z = a) /\ (~h[a].used => ~h[z].used)
    BY <2>1, Runs
  <2>3. /\ a \in Nat /\ z \in Nat /\ z < h[z].next
        /\ h[z].next = z + h[z].size /\ h[z].next \in Nat /\ h[z].size \in Nat
    BY <1>1, <2>2, ChainFacts DEF Chain
  <2>4. j[a] = [size |-> z + h[z].size - a, next |-> h[z].next, used |-> h[a].used]
    BY <1>2, <2>1 DEF JoinedList
  <2> QED BY <2>2, <2>3, <2>4
<1> HIDE DEF R
<1>5. 0 \in R
  <2>1. 0 \in DOMAIN h
    BY DEF Chain
  <2>2. ~JoinsIn(h, 0)
    <3>1. SUFFICES ASSUME NEW a \in DOMAIN h, h[a].next = 0 PROVE FALSE
      BY DEF JoinsIn
    <3>2. a \in Nat /\ a < h[a].next
      BY <1>1 DEF Chain
    <3> QED BY <3>1, <3>2
  <2> QED BY <2>1, <2>2 DEF R, RemainingIn
<1>6. ASSUME NEW a \in R
      PROVE  /\ j[a] \in Blk /\ j[a].next = a + j[a].size
             /\ j[a].next \in R \cup {A} /\ a < j[a].next
             /\ \A b \in R : a < b => j[a].next <= b
             /\ j[a].used = h[a].used
  <2>1. PICK z \in DOMAIN h :
                /\ a \in Nat /\ z \in Nat /\ a <= z /\ z < h[z].next
                /\ h[z].next = z + h[z].size /\ h[z].next \in Nat /\ h[z].size \in Nat
                /\ \A c \in R : c <= a \/ z < c
                /\ h[z].next \in R \cup {A}
                /\ j[a] = [size |-> h[z].next - a, next |-> h[z].next, used |-> h[a].used]
    BY <1>4
  <2>2. h[a].used \in BOOLEAN
    BY <1>1, ChainFacts
  <2>3. h[z].next - a \in Nat /\ h[z].next = a + (h[z].next - a)
    BY <2>1
  <2>4. j[a] \in Blk /\ j[a].next = a + j[a].size /\ a < j[a].next /\ j[a].used = h[a].used
    BY <2>1, <2>2, <2>3 DEF Blk
  <2>5. ASSUME NEW b \in R, a < b PROVE j[a].next <= b
    <3>1. b \in DOMAIN h /\ b \in Nat /\ z < b
      BY <1>1, <2>1, <2>5
    <3>2. h[z].next <= b
      BY <3>1 DEF Chain
    <3> QED BY <2>1, <3>2
  <2> QED BY <2>1, <2>4, <2>5
<1>7. Chain(j, A)
  <2>1. j \in [R -> Blk]
    <3>1. j = [a \in R |-> j[a]]
      BY <1>2, <1>3 DEF JoinedList, R
    <3> QED BY <1>6, <3>1
  <2> QED BY <1>1, <1>3, <1>5, <1>6, <2>1 DEF Chain
<1>8. Shaped(j, Hd, Al)
  <2>1. SUFFICES ASSUME NEW a \in R PROVE j[a].size >= Hd /\ a % Al = 0
    BY <1>3 DEF Shaped
  <2>2. PICK z \in DOMAIN h :
                /\ a \in Nat /\ z \in Nat /\ a <= z
                /\ h[z].next = z + h[z].size /\ h[z].next \in Nat /\ h[z].size \in Nat
                /\ j[a] = [size |-> h[z].next - a, next |-> h[z].next, used |-> h[a].used]
    BY <1>4
  <2>3. h[z].size >= Hd /\ a % Al = 0
    BY <1>1 DEF Shaped
  <2> QED BY <2>2, <2>3
<1>9. Parted(j, A)
  <2>1. SUFFICES ASSUME NEW a \in R, j[a].next # A, ~j[a].used, ~j[j[a].next].used PROVE FALSE
    BY <1>3 DEF Parted
  <2>2. PICK z \in DOMAIN h :
                /\ h[z].next = z + h[z].size
                /\ h[z].next \in R \cup {A}
                /\ (~h[a].used => ~h[z].used)
                /\ j[a] = [size |-> h[z].next - a, next |-> h[z].next, used |-> h[a].used]
    BY <1>4
  <2>3. h[z].next \in R /\ ~h[z].used /\ ~j[h[z].next].used
    BY <1>6, <2>1, <2>2
  <2>4. ~h[h[z].next].used
    BY <1>6, <2>3
  <2>5. JoinsIn(h, h[z].next)
    BY <2>2, <2>3, <2>4 DEF JoinsIn
  <2> QED BY <2>3, <2>5 DEF R, RemainingIn
<1>10. ASSUME NEW a \in UsedOf(h) PROVE a \in R /\ j[a] = h[a]
  <2>1. a \in DOMAIN h /\ h[a].used
    BY DEF UsedOf
  <2>2. a \in R
    BY <2>1 DEF R, RemainingIn, JoinsIn
  <2>3. PICK z \in DOMAIN h :
                /\ (h[a].used => z = a)
                /\ h[z].next = z + h[z].size /\ h[z].next \in Nat /\ h[z].size \in Nat
                /\ j[a] = [size |-> h[z].next - a, next |-> h[z].next, used |-> h[a].used]
    BY <1>4, <2>2
  <2>4. z = a
    BY <2>1, <2>3
  <2>5. h[a].next - a = h[a].size
    BY <1>1, <2>1, <2>3, <2>4
  <2> QED BY <2>1, <2>2, <2>3, <2>4, <2>5, ChainFacts
<1>11. UsedOf(j) = UsedOf(h)
  <2>1. ASSUME NEW a \in UsedOf(j) PROVE a \in UsedOf(h)
    <3>1. a \in R /\ j[a].used
      BY <1>3 DEF UsedOf
    <3> QED BY <1>1, <1>6, <3>1 DEF UsedOf
  <2>2. ASSUME NEW a \in UsedOf(h) PROVE a \in UsedOf(j)
    BY <1>3, <1>10 DEF UsedOf
  <2> QED BY <2>1, <2>2
<1> QED BY <1>2, <1>7, <1>8, <1>9, <1>10, <1>11

Freeing(g, h, a) == g = [h EXCEPT ![a].used = FALSE]

\* Marking a block free changes nothing but that.
LEMMA Unmarked ==
  ASSUME NEW h, NEW A \in Nat, NEW Hd \in Nat, NEW Al, Chain(h, A), Shaped(h, Hd, Al),
         NEW a \in DOMAIN h, NEW g, Freeing(g, h, a)
  PROVE  /\ Chain(g, A) /\ Shaped(g, Hd, Al)
         /\ UsedOf(g) = UsedOf(h) \ {a}
         /\ \A c \in UsedOf(g) : g[c] = h[c]
<1>1. g = [h EXCEPT ![a].used = FALSE]
  BY DEF Freeing
<1>2. DOMAIN g = DOMAIN h /\ \A c \in DOMAIN h : c # a => g[c] = h[c]
  BY <1>1
<1>3. h[a] \in Blk /\ h \in [DOMAIN h -> Blk]
  BY DEF Chain
<1>4. g[a].size = h[a].size /\ g[a].next = h[a].next /\ g[a].used = FALSE /\ g[a] \in Blk
  BY <1>1, <1>3 DEF Blk
<1>5. g \in [DOMAIN g -> Blk]
  BY <1>1, <1>2, <1>3, <1>4
<1>6. \A c \in DOMAIN h : g[c].size = h[c].size /\ g[c].next = h[c].next
  BY <1>2, <1>4
<1>7. Chain(g, A)
  BY <1>2, <1>5, <1>6 DEF Chain
<1>8. Shaped(g, Hd, Al)
  BY <1>2, <1>6 DEF Shaped
<1>9. UsedOf(g) = UsedOf(h) \ {a}
  BY <1>2, <1>4 DEF UsedOf
<1>10. \A c \in UsedOf(g) : g[c] = h[c]
  BY <1>2, <1>9 DEF UsedOf
<1> QED BY ONLY <1>7, <1>8, <1>9, <1>10

\* Freeing a block: its neighbours are free or used as before, and the list is
\* in order again.
LEMMA FreedBlock ==
  ASSUME NEW h, NEW A \in Nat, NEW Hd \in Nat, NEW Al, Chain(h, A), Shaped(h, Hd, Al),
         NEW a \in DOMAIN h, NEW g, Freeing(g, h, a), NEW j, j = JoinedList(g)
  PROVE  /\ Chain(j, A) /\ Shaped(j, Hd, Al) /\ Parted(j, A)
         /\ UsedOf(j) = UsedOf(h) \ {a}
         /\ \A c \in UsedOf(j) : j[c] = h[c]
<1>2. /\ Chain(g, A) /\ Shaped(g, Hd, Al)
      /\ UsedOf(g) = UsedOf(h) \ {a}
      /\ \A c \in UsedOf(g) : g[c] = h[c]
  BY Unmarked
<1>3. /\ Chain(JoinedList(g), A) /\ Shaped(JoinedList(g), Hd, Al) /\ Parted(JoinedList(g), A)
      /\ UsedOf(JoinedList(g)) = UsedOf(g)
      /\ \A c \in UsedOf(g) : JoinedList(g)[c] = g[c]
  BY <1>2, JoinedFacts
<1> QED BY <1>2, <1>3

-----------------------------------------------------------------------------
(* Multiples of the alignment *)

Multiple(n, s) == \E q \in Nat : n = q * s

LEMMA Divided ==
  ASSUME NEW s \in Nat \ {0}, NEW x \in Nat
  PROVE  /\ x % s \in 0 .. s - 1 /\ x \div s \in Nat /\ x = (x \div s) * s + (x % s)
<1>1. x % s \in 0 .. s - 1
  OBVIOUS
<1>2. (x \div s) \in Nat /\ x = (x \div s) * s + (x % s)
  OBVIOUS
<1> QED BY <1>1, <1>2

LEMMA Further ==
  ASSUME NEW s \in Nat \ {0}, NEW a \in Nat, NEW b \in Nat, a < b
  PROVE  a * s + s <= b * s /\ a * s \in Nat /\ b * s \in Nat
<1>1. PICK d \in Nat : b = a + 1 + d
  <2>1. b - a - 1 \in Nat /\ b = a + 1 + (b - a - 1)
    OBVIOUS
  <2> QED BY <2>1
<1>2. b * s = a * s + s + d * s
  BY <1>1
<1>3. d * s \in Nat /\ a * s \in Nat /\ d * s >= 0
  OBVIOUS
<1> QED BY <1>2, <1>3

\* A multiple is what leaves no remainder.
LEMMA NoRemainder ==
  ASSUME NEW s \in Nat \ {0}, NEW n \in Nat
  PROVE  n % s = 0 <=> Multiple(n, s)
<1>1. PICK q \in Nat : q = n \div s
  BY Divided
<1>2. PICK r \in 0 .. s - 1 : r = n % s
  BY Divided
<1>3. n = q * s + r
  BY <1>1, <1>2, Divided
<1>4. ASSUME r = 0 PROVE Multiple(n, s)
  <2>1. n = q * s
    <3>1. q * s \in Nat
      OBVIOUS
    <3> QED BY <1>3, <1>4, <3>1
  <2> QED BY <2>1 DEF Multiple
<1>5. ASSUME NEW p \in Nat, n = p * s PROVE r = 0
  <2>1. p * s = q * s + r
    BY <1>3, <1>5
  <2>2. CASE p = q
    <3>1. q * s \in Nat
      OBVIOUS
    <3> QED BY <2>1, <2>2, <3>1
  <2>3. CASE p < q
    <3>1. p * s + s <= q * s /\ p * s \in Nat /\ q * s \in Nat
      BY <2>3, Further
    <3> QED BY <2>1, <3>1
  <2>4. CASE q < p
    <3>1. q * s + s <= p * s /\ p * s \in Nat /\ q * s \in Nat
      BY <2>4, Further
    <3> QED BY <2>1, <3>1
  <2> QED BY <2>2, <2>3, <2>4
<1> QED BY <1>2, <1>4, <1>5 DEF Multiple

LEMMA AddMultiples ==
  ASSUME NEW s \in Nat \ {0}, NEW m \in Nat, NEW n \in Nat, m % s = 0, n % s = 0
  PROVE  (m + n) % s = 0
<1>1. PICK p \in Nat : m = p * s
  BY NoRemainder DEF Multiple
<1>2. PICK q \in Nat : n = q * s
  BY NoRemainder DEF Multiple
<1>3. m + n = (p + q) * s /\ p + q \in Nat /\ m + n \in Nat
  BY <1>1, <1>2
<1>4. Multiple(m + n, s)
  BY <1>3 DEF Multiple
<1> QED BY <1>3, <1>4, NoRemainder

\* Rounding up gives a multiple that is large enough.
LEMMA RoundedUp ==
  ASSUME NEW s \in Nat \ {0}, NEW x \in Nat
  PROVE  /\ (x \div s) * s \in Nat /\ ((x \div s) * s) % s = 0
         /\ \A n \in Nat : x = n + s - 1 => (x \div s) * s >= n
<1>1. PICK q \in Nat : q = x \div s
  BY Divided
<1>2. PICK r \in 0 .. s - 1 : r = x % s
  BY Divided
<1>3. x = q * s + r
  BY <1>1, <1>2, Divided
<1>4. PICK k \in Nat : k = q * s
  OBVIOUS
<1>5. k % s = 0
  <2>1. Multiple(k, s)
    BY <1>4 DEF Multiple
  <2> QED BY <2>1, NoRemainder
<1>6. \A n \in Nat : x = n + s - 1 => k >= n
  BY <1>3, <1>4
<1> QED BY <1>1, <1>4, <1>5, <1>6

-----------------------------------------------------------------------------
(* Using a block *)

\* A free block that is large enough is used for the request; what is left
\* over, when it is a block of its own, is free and the block after it is not.
LEMMA CarvedBlock ==
  ASSUME NEW h, NEW A \in Nat, NEW Hd \in Nat \ {0}, NEW Al \in Nat \ {0},
         Chain(h, A), Shaped(h, Hd, Al), Parted(h, A), Hd % Al = 0,
         NEW a \in DOMAIN h, ~h[a].used, h[a].size > Hd,
         NEW need \in Nat, need % Al = 0, LoadOf(h, a, Hd) >= need,
         NEW j, j = CarvedList(h, a, need, Hd, Al)
  PROVE  /\ Chain(j, A) /\ Shaped(j, Hd, Al) /\ Parted(j, A)
         /\ UsedOf(j) = UsedOf(h) \cup {a} /\ a \notin UsedOf(h)
         /\ \A c \in UsedOf(h) : j[c] = h[c]
         /\ LoadOf(j, a, Hd) >= need
<1>1. PICK load : load = LoadOf(h, a, Hd)
  OBVIOUS
<1>2. /\ a \in Nat /\ a < A /\ h[a].size \in Nat /\ load \in Nat /\ load >= need
      /\ load = h[a].size - Hd /\ h[a].next = a + h[a].size
      /\ h[a] = [size |-> h[a].size, next |-> h[a].next, used |-> h[a].used]
      /\ h[a].next \in Nat /\ h[a].next \in DOMAIN h \cup {A}
      /\ h[a].next <= A
      /\ DOMAIN h \subseteq Nat /\ DOMAIN h \subseteq 0 .. A - 1 /\ 0 \in DOMAIN h
  BY <1>1, ChainFacts DEF LoadOf, Chain
<1>3. a \notin UsedOf(h)
  BY DEF UsedOf
<1>4. CASE load - need < Hd + Al
  <2>1. j = [h EXCEPT ![a].used = TRUE]
    BY <1>1, <1>4 DEF CarvedList
  <2>2. DOMAIN j = DOMAIN h /\ \A c \in DOMAIN h : c # a => j[c] = h[c]
    BY <2>1
  <2>3. j[a] = [size |-> h[a].size, next |-> h[a].next, used |-> TRUE]
    BY <1>2, <2>1
  <2>4. j \in [DOMAIN j -> Blk]
    <3>3. [size |-> h[a].size, next |-> h[a].next, used |-> TRUE] \in Blk
      BY <1>2 DEF Blk
    <3>4. \A c \in DOMAIN h : h[c] \in Blk
      BY DEF Chain
    <3>1. \A c \in DOMAIN j : j[c] \in Blk
      BY <2>2, <2>3, <3>3, <3>4
    <3>2. j = [c \in DOMAIN j |-> j[c]]
      BY <2>1
    <3> QED BY <3>1, <3>2
  <2>5. \A c \in DOMAIN h : /\ j[c].size = h[c].size /\ j[c].next = h[c].next
                            /\ h[c].used => j[c].used
    BY <2>2, <2>3
  <2>6. Chain(j, A)
    BY <2>2, <2>4, <2>5 DEF Chain
  <2>7. Shaped(j, Hd, Al)
    BY <2>2, <2>5 DEF Shaped
  <2>8. Parted(j, A)
    <3>1. SUFFICES ASSUME NEW c \in DOMAIN h, h[c].next # A
                   PROVE  j[c].used \/ j[h[c].next].used
      BY <2>2, <2>5 DEF Parted
    <3>2. h[c].next \in DOMAIN h
      BY <3>1 DEF Chain
    <3> QED BY <2>5, <3>1, <3>2 DEF Parted
  <2>9. UsedOf(j) = UsedOf(h) \cup {a}
    BY <2>2, <2>3 DEF UsedOf
  <2>10. \A c \in UsedOf(h) : j[c] = h[c]
    BY <1>3, <2>2 DEF UsedOf
  <2>11. LoadOf(j, a, Hd) >= need
    BY <1>1, <1>2, <2>3 DEF LoadOf
  <2> QED BY <1>3, <2>6, <2>7, <2>8, <2>9, <2>10, <2>11
<1>5. CASE ~(load - need < Hd + Al)
  <2>1. PICK b : b = a + Hd + need
    OBVIOUS
  <2>2. PICK n : n = h[a].next
    OBVIOUS
  <2>3. PICK rest : rest = load - need
    OBVIOUS
  <2>4. /\ b \in Nat /\ rest \in Nat /\ n \in Nat /\ rest >= Hd /\ Hd + need >= Hd
        /\ a < b /\ b < n /\ b + rest = n /\ b < A /\ Hd + need \in Nat /\ b = a + (Hd + need)
    BY <1>2, <1>5, <2>1, <2>2, <2>3
  <2>5. j = [c \in DOMAIN h \cup {b} |->
               CASE c = b -> [size |-> rest, next |-> n, used |-> FALSE]
                 [] c = a -> [size |-> Hd + need, next |-> b, used |-> TRUE]
                 [] OTHER -> h[c]]
    BY <1>1, <1>5, <2>1, <2>2, <2>3 DEF CarvedList
  <2>6. b \notin DOMAIN h
    <3>1. ASSUME b \in DOMAIN h PROVE n <= b
      BY <2>2, <2>4, <3>1 DEF Chain
    <3> QED BY <2>4, <3>1
  <2>7. /\ DOMAIN j = DOMAIN h \cup {b}
        /\ j[b] = [size |-> rest, next |-> n, used |-> FALSE]
        /\ j[a] = [size |-> Hd + need, next |-> b, used |-> TRUE]
        /\ \A c \in DOMAIN h : c # a => j[c] = h[c]
    BY <2>5, <2>6, <2>4
  <2>8. ASSUME NEW c \in DOMAIN j
        PROVE  /\ j[c] \in Blk /\ j[c].next = c + j[c].size
               /\ j[c].next \in DOMAIN j \cup {A} /\ c < j[c].next
               /\ j[c].size >= Hd /\ c % Al = 0
    <3>1. CASE c = b
      <4>1. (Hd + need) % Al = 0
        BY AddMultiples
      <4>2. a % Al = 0
        BY DEF Shaped
      <4>3. b % Al = 0
        BY <1>2, <2>4, <4>1, <4>2, AddMultiples
      <4>4. j[c] \in Blk /\ j[c].next = n /\ j[c].size = rest
        <5>1. [size |-> rest, next |-> n, used |-> FALSE] \in Blk
          BY <2>4 DEF Blk
        <5>2. j[c] = [size |-> rest, next |-> n, used |-> FALSE]
          BY <2>7, <3>1
        <5> QED BY ONLY <5>1, <5>2
      <4>5. n \in DOMAIN j \cup {A}
        BY <1>2, <2>2, <2>7
      <4> QED BY <2>4, <3>1, <4>3, <4>4, <4>5
    <3>2. CASE c = a
      <4>1. a % Al = 0
        BY DEF Shaped
      <4>2. j[c] \in Blk /\ j[c].next = b /\ j[c].size = Hd + need
        <5>1. [size |-> Hd + need, next |-> b, used |-> TRUE] \in Blk
          BY <2>4 DEF Blk
        <5>2. j[c] = [size |-> Hd + need, next |-> b, used |-> TRUE]
          BY <2>7, <3>2
        <5> QED BY ONLY <5>1, <5>2
      <4> QED BY <2>4, <2>7, <3>2, <4>1, <4>2
    <3>3. CASE c # a /\ c # b
      <4>1. c \in DOMAIN h /\ j[c] = h[c]
        BY <2>7, <3>3
      <4> QED BY <2>7, <4>1 DEF Chain, Shaped
    <3> QED BY <3>1, <3>2, <3>3
  <2>9. ASSUME NEW c \in DOMAIN j, NEW d \in DOMAIN j, c < d PROVE j[c].next <= d
    <3>1. CASE d = b
      <4>1. CASE c = a
        BY <2>4, <2>7, <3>1, <4>1
      <4>2. CASE c \in DOMAIN h /\ c # a
        <5>1. c < n
          BY <1>2, <2>4, <2>9, <3>1, <4>2
        <5>2. c < a
          <6>1. a < c => n <= c
            BY <2>2, <4>2 DEF Chain
          <6> QED BY <1>2, <2>4, <4>2, <5>1, <6>1
        <5>3. h[c].next <= a /\ h[c].next \in Nat
          BY <4>2, <5>2, ChainFacts DEF Chain
        <5> QED BY <1>2, <2>4, <2>7, <3>1, <4>2, <5>3
      <4> QED BY <2>4, <2>7, <2>9, <3>1, <4>1, <4>2
    <3>2. CASE d # b /\ c = b
      <4>1. d \in DOMAIN h /\ d \in Nat /\ a < d
        BY <1>2, <2>4, <2>7, <2>9, <3>2
      <4>2. n <= d
        BY <2>2, <4>1 DEF Chain
      <4> QED BY <2>7, <3>2, <4>2
    <3>3. CASE d # b /\ c = a
      <4>1. d \in DOMAIN h /\ d \in Nat
        BY <1>2, <2>7, <3>3
      <4>2. n <= d
        BY <2>2, <2>9, <3>3, <4>1 DEF Chain
      <4> QED BY <2>4, <2>7, <3>3, <4>1, <4>2
    <3>4. CASE d # b /\ c # a /\ c # b
      <4>1. c \in DOMAIN h /\ d \in DOMAIN h /\ j[c] = h[c]
        BY <2>7, <3>4
      <4> QED BY <2>9, <4>1 DEF Chain
    <3> QED BY <3>1, <3>2, <3>3, <3>4
  <2>10. Chain(j, A)
    <3>1. j \in [DOMAIN j -> Blk]
      <4>1. j = [c \in DOMAIN j |-> j[c]]
        BY <2>5
      <4> QED BY <2>8, <4>1
    <3>2. DOMAIN j \subseteq 0 .. A - 1 /\ 0 \in DOMAIN j
      BY <1>2, <2>4, <2>7
    <3> QED BY <2>8, <2>9, <3>1, <3>2 DEF Chain
  <2>11. Shaped(j, Hd, Al)
    BY <2>8 DEF Shaped
  <2>12. Parted(j, A)
    <3>1. SUFFICES ASSUME NEW c \in DOMAIN j, j[c].next # A, ~j[c].used, ~j[j[c].next].used
                   PROVE  FALSE
      BY DEF Parted
    <3>2. c # a
      BY <2>7, <3>1
    <3>3. CASE c = b
      <4>1. n # A /\ ~j[n].used
        BY <2>7, <3>1, <3>3
      <4>2. n \in DOMAIN h /\ n # a
        BY <1>2, <2>2, <2>4, <4>1
      <4>3. ~h[n].used
        BY <2>7, <4>1, <4>2
      <4> QED BY <2>2, <4>1, <4>3 DEF Parted
    <3>4. CASE c # b
      <4>1. c \in DOMAIN h /\ j[c] = h[c]
        BY <2>7, <3>2, <3>4
      <4>2. h[c].next \in DOMAIN h /\ h[c].next # A
        BY <3>1, <4>1 DEF Chain
      <4>3. h[c].next # a
        BY <2>7, <3>1, <4>1
      <4>4. ~h[h[c].next].used
        BY <2>7, <3>1, <4>1, <4>2, <4>3
      <4> QED BY <3>1, <4>1, <4>2, <4>4 DEF Parted
    <3> QED BY <3>3, <3>4
  <2>13. UsedOf(j) = UsedOf(h) \cup {a}
    BY <2>6, <2>7, <2>4 DEF UsedOf
  <2>14. \A c \in UsedOf(h) : j[c] = h[c]
    BY <1>3, <2>7 DEF UsedOf
  <2>15. LoadOf(j, a, Hd) >= need
    BY <2>7 DEF LoadOf
  <2> QED BY <1>3, <2>10, <2>11, <2>12, <2>13, <2>14, <2>15
<1> QED BY <1>4, <1>5

-----------------------------------------------------------------------------
(* The bytes in use *)

BytesOf(h, Hd) == UNION {a + Hd .. h[a].next - 1 : a \in UsedOf(h)}

\* A block more in use is as many bytes more as it has payload.
LEMMA BytesGrow ==
  ASSUME NEW h, NEW k, NEW A \in Nat, NEW Hd \in Nat, NEW Al,
         Chain(h, A), Chain(k, A), Shaped(k, Hd, Al),
         NEW a, a \notin UsedOf(h), UsedOf(k) = UsedOf(h) \cup {a},
         \A c \in UsedOf(h) : k[c] = h[c]
  PROVE  /\ Cardinality(BytesOf(h, Hd)) \in Nat
         /\ LoadOf(k, a, Hd) \in Nat
         /\ Cardinality(BytesOf(k, Hd)) = Cardinality(BytesOf(h, Hd)) + LoadOf(k, a, Hd)
<1> DEFINE I == a + Hd .. k[a].next - 1
<1>1. UsedOf(h) \subseteq DOMAIN h /\ UsedOf(k) \subseteq DOMAIN k /\ a \in DOMAIN k
  BY DEF UsedOf
<1>2. /\ a \in Nat /\ k[a].size \in Nat /\ k[a].next \in Nat /\ k[a].next = a + k[a].size
      /\ k[a].size >= Hd
  BY <1>1, ChainFacts DEF Chain, Shaped
<1>3. IsFiniteSet(I) /\ Cardinality(I) = LoadOf(k, a, Hd) /\ LoadOf(k, a, Hd) \in Nat
  <2>1. a + Hd \in Int /\ k[a].next - 1 \in Int
    BY <1>2
  <2>2. IsFiniteSet(I) /\ Cardinality(I) =
           IF a + Hd > k[a].next - 1 THEN 0 ELSE (k[a].next - 1) - (a + Hd) + 1
    BY <2>1, FS_Interval
  <2>3. LoadOf(k, a, Hd) \in Nat /\ LoadOf(k, a, Hd) = k[a].size - Hd
    BY <1>2 DEF LoadOf
  <2>4. CASE a + Hd > k[a].next - 1
    BY <1>2, <2>2, <2>3, <2>4
  <2>5. CASE ~(a + Hd > k[a].next - 1)
    BY <1>2, <2>2, <2>3, <2>5
  <2> QED BY <2>2, <2>3, <2>4, <2>5
<1>4. IsFiniteSet(BytesOf(h, Hd)) /\ Cardinality(BytesOf(h, Hd)) \in Nat
  <2>1. ASSUME NEW c \in UsedOf(h), NEW x \in c + Hd .. h[c].next - 1 PROVE x \in 0 .. A - 1
    <3>1. c \in Nat /\ h[c].next \in Nat /\ h[c].next <= A
      BY <1>1, ChainFacts
    <3> QED BY <2>1, <3>1
  <2>2. BytesOf(h, Hd) \subseteq 0 .. A - 1
    BY <2>1 DEF BytesOf
  <2>3. 0 \in Int /\ A - 1 \in Int
    OBVIOUS
  <2>4. IsFiniteSet(0 .. A - 1)
    BY <2>3, FS_Interval
  <2>5. IsFiniteSet(BytesOf(h, Hd))
    BY <2>2, <2>4, FS_Subset
  <2> QED BY <2>5, FS_CardinalityType
<1>5. BytesOf(k, Hd) = BytesOf(h, Hd) \cup I
  <2>1. \A c \in UsedOf(h) : k[c].next = h[c].next
    OBVIOUS
  <2> QED BY <2>1 DEF BytesOf
<1>6. BytesOf(h, Hd) \cap I = {}
  <2>1. SUFFICES ASSUME NEW c \in UsedOf(h), NEW x \in c + Hd .. k[c].next - 1, x \in I
                 PROVE  FALSE
    BY DEF BytesOf
  <2>2. c \in DOMAIN k /\ c # a /\ c \in Nat /\ k[c].next \in Nat
    BY <1>1, ChainFacts
  <2>3. (c < a => k[c].next <= a) /\ (a < c => k[a].next <= c)
    BY <1>1, <2>2 DEF Chain
  <2> QED BY <1>2, <2>1, <2>2, <2>3
<1> HIDE DEF I
<1>7. Cardinality(BytesOf(h, Hd) \cup I)
        = Cardinality(BytesOf(h, Hd)) + Cardinality(I) - Cardinality(BytesOf(h, Hd) \cap I)
  BY <1>3, <1>4, FS_Union
<1>8. Cardinality(BytesOf(h, Hd) \cap I) = 0
  BY <1>6, FS_EmptySet
<1> QED BY <1>3, <1>4, <1>5, <1>7, <1>8

-----------------------------------------------------------------------------
(* The kernel's heap *)

KList ==
    /\ Chain(heap, KArena) /\ Shaped(heap, KHeader, KAlign) /\ Parted(heap, KArena)
    /\ \A a \in UsedOf(heap) : heap[a].size > KHeader
    /\ owned = {a + KHeader : a \in UsedOf(heap)}
    /\ used = Cardinality(BytesOf(heap, KHeader))
    /\ val \in [owned -> Values]

Moving == [pc : {"idle", "alloc", "copy", "free"}, old : Nat, new : Nat, size : Nat]

(* What a thread is moving is in use, its contents are copied when the copy
   is done, and no other thread is moving it. *)
OneMove(o, v, b) ==
    /\ b.pc = "idle" => b = K!Idle
    /\ b.pc # "idle" => b.old \in o
    /\ b.pc = "alloc" => b.new = KArena /\ b.size \in KRequests
    /\ b.pc \in {"copy", "free"} => b.new \in o /\ b.new # b.old
    /\ b.pc = "free" => v[b.new] = v[b.old]
MovesApart(b, c) == \A x \in {b.old, b.new} \cap {c.old, c.new} : x = KArena
Moves(o, v, f) ==
    /\ f \in [Threads -> Moving]
    /\ \A t \in Threads : OneMove(o, v, f[t])
    /\ \A t, u \in Threads : t # u => MovesApart(f[t], f[u])

KInv == KList /\ Moves(owned, val, busy)

\* The constants and the operators of the kernel's heap.
LEMMA KShape ==
  /\ KArena \in Nat /\ KHeader \in Nat \ {0} /\ KAlign \in Nat \ {0}
  /\ KArena > KHeader /\ KHeader % KAlign = 0
  /\ KRequests \subseteq Nat \ {0}
  /\ \A h, a : K!Payload(h, a) = LoadOf(h, a, KHeader)
  /\ \A h, a, n : K!Carved(h, a, n) = CarvedList(h, a, n, KHeader, KAlign)
  /\ \A h : K!Joined(h) = JoinedList(h)
  /\ \A S : K!Min(S) = Min(S)
<1>1. /\ KArena \in Nat /\ KHeader \in Nat \ {0} /\ KAlign \in Nat \ {0}
      /\ KArena > KHeader /\ KHeader % KAlign = 0 /\ KRequests \subseteq 1 .. KArena
  BY HeapsAssumption DEF K!HeapShape, K!SmallRequests
<1>2. KRequests \subseteq Nat \ {0}
  BY <1>1
<1>3. \A h, a : K!Payload(h, a) = LoadOf(h, a, KHeader)
  BY DEF K!Payload, LoadOf
<1>4. \A h, a, n : K!Carved(h, a, n) = CarvedList(h, a, n, KHeader, KAlign)
  <2>1. SUFFICES ASSUME NEW h, NEW a, NEW n
                 PROVE  K!Carved(h, a, n) = CarvedList(h, a, n, KHeader, KAlign)
    OBVIOUS
  <2>2. PICK load : load = LoadOf(h, a, KHeader)
    OBVIOUS
  <2>3. K!Payload(h, a) = load
    BY <1>3, <2>2
  <2>4. K!Carved(h, a, n) =
          IF load - n < KHeader + KAlign THEN [h EXCEPT ![a].used = TRUE]
          ELSE [c \in DOMAIN h \cup {a + KHeader + n} |->
                   CASE c = a + KHeader + n ->
                           [size |-> load - n, next |-> h[a].next, used |-> FALSE]
                     [] c = a -> [size |-> KHeader + n, next |-> a + KHeader + n, used |-> TRUE]
                     [] OTHER -> h[c]]
    BY ONLY <2>3 DEF K!Carved
  <2>5. CarvedList(h, a, n, KHeader, KAlign) =
          IF load - n < KHeader + KAlign THEN [h EXCEPT ![a].used = TRUE]
          ELSE [c \in DOMAIN h \cup {a + KHeader + n} |->
                   CASE c = a + KHeader + n ->
                           [size |-> load - n, next |-> h[a].next, used |-> FALSE]
                     [] c = a -> [size |-> KHeader + n, next |-> a + KHeader + n, used |-> TRUE]
                     [] OTHER -> h[c]]
    BY ONLY <2>2 DEF CarvedList
  <2> QED BY ONLY <2>4, <2>5
<1>5. \A S : K!Max(S) = Max(S) /\ K!Min(S) = Min(S)
  BY DEF K!Max, Max, K!Min, Min
<1>6. \A h : K!Remaining(h) = RemainingIn(h)
  BY DEF K!Remaining, RemainingIn, K!Joins, JoinsIn
<1>7. \A h, a : K!LastOf(h, a) = LastIn(h, a)
  BY <1>5, <1>6 DEF K!LastOf, LastIn, RunOf
<1>8. \A h : K!Joined(h) = JoinedList(h)
  BY <1>6, <1>7 DEF K!Joined, JoinedList
<1> QED BY <1>1, <1>2, <1>3, <1>4, <1>5, <1>8

\* A payload is a header further than its block.
LEMMA Payloads ==
  ASSUME KList, NEW p \in owned
  PROVE  /\ p \in Nat /\ p < KArena /\ p - KHeader \in UsedOf(heap) /\ p - KHeader \in DOMAIN heap
         /\ p - KHeader \in Nat /\ (p - KHeader) + KHeader = p
         /\ LoadOf(heap, p - KHeader, KHeader) = heap[p - KHeader].next - p
<1>1. PICK a \in UsedOf(heap) : p = a + KHeader
  BY DEF KList
<1>2. /\ a \in DOMAIN heap /\ a \in Nat /\ heap[a].size \in Nat /\ heap[a].next \in Nat
      /\ heap[a].next = a + heap[a].size /\ heap[a].size > KHeader /\ heap[a].next <= KArena
  BY KShape, ChainFacts DEF KList, UsedOf, Chain
<1>3. p - KHeader = a
  BY <1>1, <1>2, KShape
<1>4. LoadOf(heap, a, KHeader) = heap[a].size - KHeader
  BY <1>2, KShape DEF LoadOf
<1> QED BY <1>1, <1>2, <1>3, <1>4, KShape

\* kheap_alloc: one block more, and nothing else changes.
LEMMA KAllocated ==
  ASSUME KList, NEW n \in KRequests, K!CanAlloc(n), K!Allocated(n)
  PROVE  /\ KList'
         /\ \E a : /\ a = K!Min(K!Fitting(heap, K!Rounded(n)))
                   /\ a \notin UsedOf(heap) /\ UsedOf(heap') = UsedOf(heap) \cup {a}
                   /\ a + KHeader \notin owned /\ owned' = owned \cup {a + KHeader}
         /\ \A c \in UsedOf(heap) : heap'[c] = heap[c]
         /\ \A p \in owned : val'[p] = val[p]
<1>1. PICK need : need = K!Rounded(n)
  OBVIOUS
<1>2. need \in Nat /\ need % KAlign = 0 /\ need >= n /\ n \in Nat \ {0}
  <2>1. n \in Nat \ {0} /\ n + KAlign - 1 \in Nat
    BY KShape
  <2>2. /\ ((n + KAlign - 1) \div KAlign) * KAlign \in Nat
        /\ (((n + KAlign - 1) \div KAlign) * KAlign) % KAlign = 0
        /\ ((n + KAlign - 1) \div KAlign) * KAlign >= n
    BY <2>1, KShape, RoundedUp
  <2> QED BY <1>1, <2>1, <2>2 DEF K!Rounded
<1>3. PICK F : F = K!Fitting(heap, need)
  OBVIOUS
<1>4. F = {a \in DOMAIN heap : ~heap[a].used /\ LoadOf(heap, a, KHeader) >= need} /\ F # {}
  BY <1>1, <1>3, KShape DEF K!Fitting, K!CanAlloc
<1>5. PICK a \in F : a = K!Min(F)
  <2>1. F \in SUBSET Nat
    BY <1>4, KShape, ChainFacts DEF KList
  <2>2. Min(F) \in F
    BY <1>4, <2>1, MinFacts
  <2> QED BY <2>2, KShape
<1>6. /\ a \in DOMAIN heap /\ a \in Nat /\ ~heap[a].used /\ heap[a].size \in Nat
      /\ LoadOf(heap, a, KHeader) >= need
  BY <1>4, <1>5, KShape, ChainFacts DEF KList
<1>7. heap[a].size > KHeader
  BY <1>2, <1>6, KShape DEF LoadOf
<1>8. heap' = CarvedList(heap, a, need, KHeader, KAlign)
  BY <1>1, <1>3, <1>5, KShape DEF K!Allocated
<1>9. /\ Chain(heap', KArena) /\ Shaped(heap', KHeader, KAlign) /\ Parted(heap', KArena)
      /\ UsedOf(heap') = UsedOf(heap) \cup {a} /\ a \notin UsedOf(heap)
      /\ \A c \in UsedOf(heap) : heap'[c] = heap[c]
      /\ LoadOf(heap', a, KHeader) >= need
  <2> DEFINE j == heap'
  <2>1. j = CarvedList(heap, a, need, KHeader, KAlign)
    BY <1>8
  <2> HIDE DEF j
  <2>2. /\ Chain(heap, KArena) /\ Shaped(heap, KHeader, KAlign) /\ Parted(heap, KArena)
    BY DEF KList
  <2>3. /\ Chain(j, KArena) /\ Shaped(j, KHeader, KAlign) /\ Parted(j, KArena)
        /\ UsedOf(j) = UsedOf(heap) \cup {a} /\ a \notin UsedOf(heap)
        /\ \A c \in UsedOf(heap) : j[c] = heap[c]
        /\ LoadOf(j, a, KHeader) >= need
    BY <1>2, <1>6, <1>7, <2>1, <2>2, KShape, CarvedBlock
  <2> QED BY <2>3 DEF j
<1>10. /\ used' = used + LoadOf(heap', a, KHeader)
       /\ owned' = owned \cup {a + KHeader}
       /\ \E v \in Values : val' = [p \in owned' |-> IF p \in owned THEN val[p] ELSE v]
  BY <1>1, <1>3, <1>5, KShape DEF K!Allocated
<1>11. a + KHeader \notin owned
  <2>1. SUFFICES ASSUME a + KHeader \in owned PROVE FALSE
    OBVIOUS
  <2>2. (a + KHeader) - KHeader \in UsedOf(heap)
    BY <2>1, Payloads
  <2> QED BY <1>6, <1>9, <2>2, KShape
<1>12. \A c \in UsedOf(heap') : heap'[c].size > KHeader
  <2>1. heap'[a].size > KHeader
    <3>1. a \in DOMAIN heap'
      BY <1>9 DEF UsedOf
    <3>2. heap'[a].size \in Nat
      BY <1>9, <3>1, KShape, ChainFacts
    <3> QED BY <1>2, <1>9, <3>2, KShape DEF LoadOf
  <2> QED BY <1>9, <2>1 DEF KList
<1>13. owned' = {c + KHeader : c \in UsedOf(heap')}
  BY <1>9, <1>10 DEF KList
<1>14. used' = Cardinality(BytesOf(heap', KHeader))
  <2> DEFINE k == heap'
  <2>1. /\ Chain(k, KArena) /\ Shaped(k, KHeader, KAlign)
        /\ UsedOf(k) = UsedOf(heap) \cup {a} /\ a \notin UsedOf(heap)
        /\ \A c \in UsedOf(heap) : k[c] = heap[c]
    BY <1>9
  <2>2. used' = used + LoadOf(k, a, KHeader)
    BY <1>10
  <2> HIDE DEF k
  <2>3. Cardinality(BytesOf(k, KHeader))
           = Cardinality(BytesOf(heap, KHeader)) + LoadOf(k, a, KHeader)
    BY <2>1, KShape, BytesGrow DEF KList
  <2>4. used' = Cardinality(BytesOf(k, KHeader))
    BY <2>2, <2>3 DEF KList
  <2> QED BY <2>4 DEF k
<1>15. val' \in [owned' -> Values] /\ \A p \in owned : val'[p] = val[p]
  BY <1>10 DEF KList
<1>16. KList'
  BY <1>9, <1>12, <1>13, <1>14, <1>15 DEF KList
<1>17. a = K!Min(K!Fitting(heap, K!Rounded(n)))
  BY <1>1, <1>3, <1>5
<1> QED BY <1>9, <1>10, <1>11, <1>15, <1>16, <1>17

\* kheap_free: one block less.
LEMMA KReleased ==
  ASSUME KList, NEW p \in owned, K!Release(p)
  PROVE  /\ KList'
         /\ UsedOf(heap') = UsedOf(heap) \ {p - KHeader} /\ owned' = owned \ {p}
         /\ \A c \in UsedOf(heap') : heap'[c] = heap[c]
         /\ \A q \in owned' : val'[q] = val[q]
<1>1. PICK a : a = p - KHeader
  OBVIOUS
<1>2. a \in UsedOf(heap) /\ a \in DOMAIN heap /\ a \in Nat /\ p = a + KHeader
  BY <1>1, Payloads
<1>3. PICK g : Freeing(g, heap, a)
  BY DEF Freeing
<1>4. /\ heap' = JoinedList(g)
      /\ used' = used - LoadOf(heap, a, KHeader)
      /\ owned' = owned \ {p}
      /\ val' = [q \in owned' |-> val[q]]
  BY <1>1, <1>3, KShape DEF K!Release, Freeing
<1>5. PICK j : j = JoinedList(g)
  OBVIOUS
<1>6. Chain(heap, KArena) /\ Shaped(heap, KHeader, KAlign)
  BY DEF KList
<1>7. /\ Chain(j, KArena) /\ Shaped(j, KHeader, KAlign) /\ Parted(j, KArena)
      /\ UsedOf(j) = UsedOf(heap) \ {a}
      /\ \A c \in UsedOf(j) : j[c] = heap[c]
  BY <1>2, <1>3, <1>5, <1>6, KShape, FreedBlock
<1>8. heap' = j
  BY <1>4, <1>5
<1>9. \A c \in UsedOf(j) : j[c].size > KHeader
  BY <1>7 DEF KList
<1>10. owned' = {c + KHeader : c \in UsedOf(j)}
  <2>1. ASSUME NEW c \in UsedOf(heap), c # a PROVE c + KHeader # p
    <3>1. c \in Nat
      BY <1>6, KShape, ChainFacts DEF UsedOf
    <3> QED BY <1>2, <2>1, <3>1, KShape
  <2> QED BY <1>2, <1>4, <1>7, <2>1 DEF KList
<1>11. used' = Cardinality(BytesOf(j, KHeader))
  <2>1. a \notin UsedOf(j) /\ UsedOf(heap) = UsedOf(j) \cup {a}
    BY <1>2, <1>7
  <2>2. \A c \in UsedOf(j) : heap[c] = j[c]
    BY <1>7
  <2>3. /\ Cardinality(BytesOf(j, KHeader)) \in Nat /\ LoadOf(heap, a, KHeader) \in Nat
        /\ Cardinality(BytesOf(heap, KHeader))
              = Cardinality(BytesOf(j, KHeader)) + LoadOf(heap, a, KHeader)
    <3>1. KArena \in Nat /\ KHeader \in Nat
      BY KShape
    <3>2. Chain(j, KArena)
      BY <1>7
    <3> QED BY <1>6, <2>1, <2>2, <3>1, <3>2, BytesGrow
  <2>4. used = Cardinality(BytesOf(heap, KHeader))
    BY DEF KList
  <2> QED BY <1>4, <2>3, <2>4
<1>12. val' \in [owned' -> Values] /\ \A q \in owned' : val'[q] = val[q]
  BY <1>4 DEF KList
<1>13. KList'
  BY <1>7, <1>8, <1>9, <1>10, <1>11, <1>12 DEF KList
<1> QED BY <1>1, <1>4, <1>7, <1>8, <1>12, <1>13

LEMMA KInitially == K!Init => KInv
<1> SUFFICES ASSUME K!Init PROVE KInv
  OBVIOUS
<1>1. PICK head : head = [size |-> KArena, next |-> KArena, used |-> FALSE]
  OBVIOUS
<1>2. heap = [a \in {0} |-> head] /\ used = 0 /\ owned = {} /\ val = [p \in {} |-> 0]
      /\ busy = [t \in Threads |-> K!Idle]
  BY <1>1 DEF K!Init, K!Header0, K!End
<1>3. DOMAIN heap = {0} /\ heap[0] = head /\ head \in Blk /\ head.next = KArena
      /\ head.size = KArena /\ ~head.used
  BY <1>1, <1>2, KShape DEF Blk
<1>4. Chain(heap, KArena)
  <2>1. heap \in [DOMAIN heap -> Blk]
    BY <1>2, <1>3
  <2> QED BY <1>3, <2>1, KShape DEF Chain
<1>5. Shaped(heap, KHeader, KAlign) /\ Parted(heap, KArena)
  <2>1. 0 % KAlign = 0
    <3>1. KAlign \in Nat \ {0}
      BY KShape
    <3> QED BY <3>1
  <2> QED BY <1>3, <2>1, KShape DEF Shaped, Parted
<1>6. UsedOf(heap) = {}
  BY <1>3 DEF UsedOf
<1>7. BytesOf(heap, KHeader) = {} /\ Cardinality(BytesOf(heap, KHeader)) = 0
  <2>1. BytesOf(heap, KHeader) = {}
    BY <1>6 DEF BytesOf
  <2> QED BY <2>1, FS_EmptySet
<1>8. KList
  BY <1>2, <1>4, <1>5, <1>6, <1>7 DEF KList
<1>9. K!Idle = [pc |-> "idle", old |-> KArena, new |-> KArena, size |-> 0] /\ K!Idle \in Moving
  BY KShape DEF K!Idle, K!Null, Moving
<1>10. \A t \in Threads : OneMove(owned, val, busy[t])
  BY <1>2, <1>9 DEF OneMove
<1>11. \A t, u \in Threads : MovesApart(busy[t], busy[u])
  BY <1>2, <1>9 DEF MovesApart
<1>12. busy \in [Threads -> Moving]
  BY <1>2, <1>9
<1> QED BY <1>8, <1>10, <1>11, <1>12 DEF KInv, Moves

\* More blocks, or the loss of one that nobody moves, disturb no move.
LEMMA MovesKept ==
  ASSUME NEW o, NEW v, NEW f, Moves(o, v, f), NEW o2, NEW v2,
         \A t \in Threads : f[t].pc # "idle" =>
            /\ f[t].old \in o2 /\ v2[f[t].old] = v[f[t].old]
            /\ f[t].pc \in {"copy", "free"} => f[t].new \in o2 /\ v2[f[t].new] = v[f[t].new]
  PROVE  Moves(o2, v2, f)
<1>1. ASSUME NEW t \in Threads PROVE OneMove(o2, v2, f[t])
  <2>1. OneMove(o, v, f[t])
    BY DEF Moves
  <2> QED BY <2>1 DEF OneMove
<1> QED BY <1>1 DEF Moves

\* A thread that starts, continues or ends a move.
LEMMA MovesAfter ==
  ASSUME NEW o, NEW v, NEW f, Moves(o, v, f), NEW t \in Threads, NEW b \in Moving,
         NEW g, g = [f EXCEPT ![t] = b],
         OneMove(o, v, b), \A u \in Threads \ {t} : MovesApart(f[u], b)
  PROVE  Moves(o, v, g)
<1>1. f \in [Threads -> Moving]
  BY DEF Moves
<1>2. g \in [Threads -> Moving] /\ g[t] = b /\ \A u \in Threads \ {t} : g[u] = f[u]
  BY <1>1
<1>3. \A u \in Threads : OneMove(o, v, g[u])
  BY <1>2 DEF Moves
<1>4. ASSUME NEW u \in Threads, NEW w \in Threads, u # w PROVE MovesApart(g[u], g[w])
  <2>1. CASE u = t
    <3>1. MovesApart(f[w], b)
      BY <1>4, <2>1
    <3> QED BY <1>2, <1>4, <2>1, <3>1 DEF MovesApart
  <2>2. CASE w = t
    BY <1>2, <1>4, <2>2
  <2>3. CASE u # t /\ w # t
    BY <1>2, <1>4, <2>3 DEF Moves
  <2> QED BY <2>1, <2>2, <2>3
<1> QED BY <1>2, <1>3, <1>4 DEF Moves

\* What is being moved is owned, and nobody's payload is the null pointer.
LEMMA KMoving ==
  ASSUME KInv, NEW t \in Threads
  PROVE  /\ busy[t] \in Moving /\ OneMove(owned, val, busy[t])
         /\ KArena \notin owned
         /\ \A u \in Threads \ {t} : MovesApart(busy[t], busy[u]) /\ MovesApart(busy[u], busy[t])
<1>1. ASSUME KArena \in owned PROVE FALSE
  <2>1. KArena \in Nat /\ KArena < KArena
    BY <1>1, Payloads DEF KInv
  <2> QED BY <2>1
<1> QED BY <1>1 DEF KInv, Moves

\* A new block: nothing being moved is touched.
LEMMA KNewBlock ==
  ASSUME KInv, NEW n \in KRequests, K!CanAlloc(n), K!Allocated(n)
  PROVE  KList' /\ Moves(owned', val', busy)
<1>1. /\ KList'
      /\ owned \subseteq owned'
      /\ \A p \in owned : val'[p] = val[p]
  BY KAllocated DEF KInv
<1>2. \A t \in Threads : OneMove(owned, val, busy[t])
  BY DEF KInv, Moves
<1>3. \A t \in Threads : busy[t].pc # "idle" =>
            /\ busy[t].old \in owned' /\ val'[busy[t].old] = val[busy[t].old]
            /\ busy[t].pc \in {"copy", "free"} =>
                  busy[t].new \in owned' /\ val'[busy[t].new] = val[busy[t].new]
  BY <1>1, <1>2 DEF OneMove
<1>4. Moves(owned, val, busy)
  BY DEF KInv
<1>5. Moves(owned', val', busy)
  BY <1>3, <1>4, MovesKept
<1> QED BY <1>1, <1>5

LEMMA KAllocStep ==
  ASSUME KInv, NEW t \in Threads, NEW n \in KRequests, K!Alloc(t, n) PROVE KInv'
<1>1. K!CanAlloc(n) /\ K!Allocated(n) /\ busy' = busy
  BY DEF K!Alloc
<1>2. KList' /\ Moves(owned', val', busy)
  BY <1>1, KNewBlock
<1> QED BY <1>1, <1>2 DEF KInv

LEMMA KWriteStep ==
  ASSUME KInv, NEW p \in owned, NEW v \in Values, K!Write(p, v) PROVE KInv'
<1>1. /\ val' = [val EXCEPT ![p] = v]
      /\ \A t \in Threads : p \notin {busy[t].old, busy[t].new}
      /\ heap' = heap /\ used' = used /\ owned' = owned /\ busy' = busy
  BY DEF K!Write, K!Untouched
<1>2. val' \in [owned -> Values] /\ \A q \in owned : q # p => val'[q] = val[q]
  BY <1>1 DEF KInv, KList
<1>3. KList'
  BY <1>1, <1>2 DEF KInv, KList
<1>4. Moves(owned, val, busy) /\ \A t \in Threads : OneMove(owned, val, busy[t])
  BY DEF KInv, Moves
<1>5. \A t \in Threads : busy[t].pc # "idle" =>
            /\ busy[t].old \in owned /\ val'[busy[t].old] = val[busy[t].old]
            /\ busy[t].pc \in {"copy", "free"} =>
                  busy[t].new \in owned /\ val'[busy[t].new] = val[busy[t].new]
  BY <1>1, <1>2, <1>4 DEF OneMove
<1>6. Moves(owned, val', busy)
  BY <1>4, <1>5, MovesKept
<1> QED BY <1>1, <1>3, <1>6 DEF KInv

LEMMA KFreeStep ==
  ASSUME KInv, NEW t \in Threads, NEW p \in owned, K!Free(t, p) PROVE KInv'
<1>1. /\ K!Release(p) /\ busy' = busy
      /\ \A u \in Threads : p \notin {busy[u].old, busy[u].new}
  BY DEF K!Free, K!Untouched
<1>2. KList' /\ owned' = owned \ {p} /\ \A q \in owned' : val'[q] = val[q]
  BY <1>1, KReleased DEF KInv
<1>3. Moves(owned, val, busy) /\ \A u \in Threads : OneMove(owned, val, busy[u])
  BY DEF KInv, Moves
<1>4. \A u \in Threads : busy[u].pc # "idle" =>
            /\ busy[u].old \in owned' /\ val'[busy[u].old] = val[busy[u].old]
            /\ busy[u].pc \in {"copy", "free"} =>
                  busy[u].new \in owned' /\ val'[busy[u].new] = val[busy[u].new]
  BY <1>1, <1>2, <1>3 DEF OneMove
<1>5. Moves(owned', val', busy)
  BY <1>3, <1>4, MovesKept
<1> QED BY <1>1, <1>2, <1>5 DEF KInv

LEMMA KStartStep ==
  ASSUME KInv, NEW t \in Threads, NEW p \in owned, NEW n \in KRequests, K!ReallocStart(t, p, n)
  PROVE  KInv'
<1>1. PICK b : b = [pc |-> "alloc", old |-> p, new |-> KArena, size |-> n]
  OBVIOUS
<1>2. /\ busy' = [busy EXCEPT ![t] = b]
      /\ \A u \in Threads : p \notin {busy[u].old, busy[u].new}
      /\ heap' = heap /\ used' = used /\ owned' = owned /\ val' = val
  BY <1>1 DEF K!ReallocStart, K!Untouched, K!Null
<1>3. b.pc = "alloc" /\ b.old = p /\ b.new = KArena /\ b.size = n /\ b \in Moving
  <2>1. p \in Nat /\ KArena \in Nat /\ n \in Nat
    BY KShape, Payloads DEF KInv
  <2> QED BY <1>1, <2>1 DEF Moving
<1>4. OneMove(owned, val, b)
  BY <1>3 DEF OneMove
<1>5. \A u \in Threads : MovesApart(busy[u], b)
  BY <1>2, <1>3 DEF MovesApart
<1>6. Moves(owned, val, busy')
  BY <1>2, <1>3, <1>4, <1>5, MovesAfter DEF KInv
<1>7. KList'
  BY <1>2 DEF KInv, KList
<1> QED BY <1>2, <1>6, <1>7 DEF KInv

LEMMA KMoveStep ==
  ASSUME KInv, NEW t \in Threads, K!ReallocMove(t) PROVE KInv'
<1>1. PICK n : n = busy[t].size
  OBVIOUS
<1>2. PICK a : a = K!Min(K!Fitting(heap, K!Rounded(n)))
  OBVIOUS
<1>3. busy[t].pc = "alloc" /\ K!CanAlloc(n) /\ K!Allocated(n)
      /\ busy' = [busy EXCEPT ![t].pc = "copy", ![t].new = a + KHeader]
  BY <1>1, <1>2 DEF K!ReallocMove
<1>4. busy[t] \in Moving /\ busy \in [Threads -> Moving] /\ n \in KRequests /\ busy[t].old \in owned
      /\ \A u \in Threads \ {t} : MovesApart(busy[u], busy[t])
  BY <1>1, <1>3, KMoving DEF OneMove, KInv, Moves
<1>5. PICK new : new = a + KHeader
  OBVIOUS
<1>6. KList' /\ Moves(owned', val', busy)
  BY <1>3, <1>4, KNewBlock
<1>7. new \notin owned /\ owned' = owned \cup {new}
  BY <1>2, <1>3, <1>4, <1>5, KAllocated DEF KInv
<1>8. PICK b : b = [pc |-> "copy", old |-> busy[t].old, new |-> new, size |-> n]
  OBVIOUS
<1>9. busy' = [busy EXCEPT ![t] = b]
  <2>1. /\ DOMAIN busy' = Threads /\ \A u \in Threads \ {t} : busy'[u] = busy[u]
        /\ busy' = [u \in Threads |-> busy'[u]]
    BY <1>3, <1>4
  <2>2. busy'[t] = [busy[t] EXCEPT !.pc = "copy", !.new = new]
    BY <1>3, <1>4, <1>5
  <2>3. busy'[t] = b
    BY <1>1, <1>4, <1>8, <2>2 DEF Moving
  <2> QED BY <1>4, <2>1, <2>3
<1>10. new \in Nat
  <2>1. ASSUME NEW p \in owned' PROVE p \in Nat
    <3>1. PICK c \in UsedOf(heap') : p = c + KHeader
      BY <1>6 DEF KList
    <3>2. c \in DOMAIN heap' /\ DOMAIN heap' \subseteq 0 .. KArena - 1
      BY <1>6, <3>1 DEF KList, Chain, UsedOf
    <3> QED BY <3>1, <3>2, KShape
  <2> QED BY <1>7, <2>1
<1>11. /\ b \in Moving /\ b.pc = "copy" /\ b.new = new /\ b.old = busy[t].old
  BY <1>4, <1>8, <1>1, <1>10 DEF Moving
<1>12. OneMove(owned', val', b)
  BY <1>4, <1>7, <1>11 DEF OneMove
<1>13. ASSUME NEW u \in Threads \ {t} PROVE MovesApart(busy[u], b)
  <2>1. \A x \in {busy[u].old, busy[u].new} : x # KArena => x # new
    <3>1. OneMove(owned, val, busy[u]) /\ busy[u] \in Moving
      BY KMoving
    <3>2. \A x \in {busy[u].old, busy[u].new} : x = KArena \/ x \in owned
      BY <3>1 DEF OneMove, Moving, K!Idle, K!Null
    <3> QED BY <1>7, <3>2
  <2>2. MovesApart(busy[u], busy[t])
    BY <1>4
  <2> QED BY <1>11, <2>1, <2>2 DEF MovesApart
<1>14. Moves(owned', val', busy')
  BY <1>6, <1>9, <1>11, <1>12, <1>13, MovesAfter
<1> QED BY <1>6, <1>14 DEF KInv

LEMMA KIdle == K!Idle \in Moving /\ (\A o, v : OneMove(o, v, K!Idle))
               /\ \A b : MovesApart(b, K!Idle)
<1>1. K!Idle = [pc |-> "idle", old |-> KArena, new |-> KArena, size |-> 0] /\ K!Idle \in Moving
  BY KShape DEF K!Idle, K!Null, Moving
<1>2. K!Idle.pc = "idle" /\ K!Idle.old = KArena /\ K!Idle.new = KArena
  BY <1>1
<1>3. \A o, v : OneMove(o, v, K!Idle)
  BY <1>2 DEF OneMove
<1>4. \A b : MovesApart(b, K!Idle)
  BY <1>2 DEF MovesApart
<1> QED BY <1>1, <1>3, <1>4

LEMMA KFailsStep ==
  ASSUME KInv, NEW t \in Threads, K!ReallocFails(t) PROVE KInv'
<1>1. /\ busy' = [busy EXCEPT ![t] = K!Idle]
      /\ heap' = heap /\ used' = used /\ owned' = owned /\ val' = val
  BY DEF K!ReallocFails
<1>2. Moves(owned, val, busy')
  BY <1>1, KIdle, MovesAfter DEF KInv
<1>3. KList'
  BY <1>1 DEF KInv, KList
<1> QED BY <1>1, <1>2, <1>3 DEF KInv

LEMMA KCopyStep ==
  ASSUME KInv, NEW t \in Threads, K!ReallocCopy(t)
  PROVE  KInv' /\ val[busy[t].old] \in Values /\ busy[t].new \in owned
<1>1. /\ busy[t].pc = "copy"
      /\ val' = [val EXCEPT ![busy[t].new] = val[busy[t].old]]
      /\ busy' = [busy EXCEPT ![t].pc = "free"]
      /\ heap' = heap /\ used' = used /\ owned' = owned
  BY DEF K!ReallocCopy
<1>2. /\ busy[t] \in Moving /\ busy \in [Threads -> Moving]
      /\ busy[t].old \in owned /\ busy[t].new \in owned /\ busy[t].new # busy[t].old
      /\ KArena \notin owned
      /\ \A u \in Threads \ {t} : MovesApart(busy[u], busy[t])
  BY <1>1, KMoving DEF OneMove, KInv, Moves
<1>3. val \in [owned -> Values] /\ val[busy[t].old] \in Values
  BY <1>2 DEF KInv, KList
<1>4. /\ val' \in [owned -> Values] /\ val'[busy[t].new] = val[busy[t].old]
      /\ \A q \in owned : q # busy[t].new => val'[q] = val[q]
  BY <1>1, <1>2, <1>3
<1>5. KList'
  BY <1>1, <1>4 DEF KInv, KList
<1>6. PICK b : b = [pc |-> "free", old |-> busy[t].old, new |-> busy[t].new, size |-> busy[t].size]
  OBVIOUS
<1>7. busy' = [busy EXCEPT ![t] = b] /\ b \in Moving
      /\ b.pc = "free" /\ b.new = busy[t].new /\ b.old = busy[t].old
  <2>1. /\ DOMAIN busy' = Threads /\ \A u \in Threads \ {t} : busy'[u] = busy[u]
        /\ busy' = [u \in Threads |-> busy'[u]]
    BY <1>1, <1>2
  <2>2. busy'[t] = [busy[t] EXCEPT !.pc = "free"]
    BY <1>1, <1>2
  <2>3. busy'[t] = b
    BY <1>2, <1>6, <2>2 DEF Moving
  <2>4. b \in Moving /\ b.pc = "free" /\ b.new = busy[t].new /\ b.old = busy[t].old
    BY <1>2, <1>6 DEF Moving
  <2>5. busy' = [busy EXCEPT ![t] = b]
    BY <1>2, <2>1, <2>3
  <2> QED BY <2>4, <2>5
<1>8. PICK f : f = busy
  OBVIOUS
<1>9. ASSUME NEW u \in Threads PROVE OneMove(owned, val', busy'[u])
  <2>1. CASE u = t
    <3>1. busy'[u] = b
      BY <1>2, <1>7, <2>1
    <3> QED BY <1>2, <1>4, <1>7, <3>1 DEF OneMove
  <2>2. CASE u # t
    <3>1. busy'[u] = busy[u]
      BY <1>7, <2>2
    <3>2. OneMove(owned, val, busy[u]) /\ MovesApart(busy[u], busy[t])
      BY <1>2, <2>2, KMoving
    <3>3. busy[u].pc # "idle" => busy[u].old # busy[t].new /\ busy[u].old \in owned
      BY <1>2, <3>2 DEF OneMove, MovesApart
    <3>4. busy[u].pc \in {"copy", "free"} => busy[u].new # busy[t].new /\ busy[u].new \in owned
      BY <1>2, <3>2 DEF OneMove, MovesApart
    <3>5. busy[u].pc = "free" => busy[u].pc # "idle"
      OBVIOUS
    <3> QED BY <1>4, <3>1, <3>2, <3>3, <3>4, <3>5 DEF OneMove
  <2> QED BY <2>1, <2>2
<1>10. ASSUME NEW u \in Threads, NEW w \in Threads, u # w PROVE MovesApart(busy'[u], busy'[w])
  <2>1. /\ busy'[u].old = busy[u].old /\ busy'[u].new = busy[u].new
        /\ busy'[w].old = busy[w].old /\ busy'[w].new = busy[w].new
    BY <1>2, <1>7
  <2>2. MovesApart(busy[u], busy[w])
    BY <1>10 DEF KInv, Moves
  <2> QED BY <2>1, <2>2 DEF MovesApart
<1>11. busy' \in [Threads -> Moving]
  BY <1>2, <1>7
<1>12. Moves(owned', val', busy')
  BY <1>1, <1>9, <1>10, <1>11 DEF Moves
<1> QED BY <1>2, <1>3, <1>5, <1>12 DEF KInv

LEMMA KLastStep ==
  ASSUME KInv, NEW t \in Threads, K!ReallocFree(t)
  PROVE  /\ KInv'
         /\ busy[t].old \in owned /\ K!Release(busy[t].old)
         /\ busy[t].new \in owned' /\ val'[busy[t].new] = val[busy[t].old]
<1>1. busy[t].pc = "free" /\ K!Release(busy[t].old) /\ busy' = [busy EXCEPT ![t] = K!Idle]
  BY DEF K!ReallocFree
<1>2. /\ busy[t] \in Moving /\ busy \in [Threads -> Moving]
      /\ busy[t].old \in owned /\ busy[t].new \in owned /\ busy[t].new # busy[t].old
      /\ val[busy[t].new] = val[busy[t].old]
      /\ KArena \notin owned
      /\ \A u \in Threads \ {t} : MovesApart(busy[u], busy[t])
  BY <1>1, KMoving DEF OneMove, KInv, Moves
<1>3. KList' /\ owned' = owned \ {busy[t].old} /\ \A q \in owned' : val'[q] = val[q]
  BY <1>1, <1>2, KReleased DEF KInv
<1>4. ASSUME NEW u \in Threads PROVE OneMove(owned', val', busy'[u])
  <2>1. CASE u = t
    <3>1. busy'[u] = K!Idle
      BY <1>1, <1>2, <2>1
    <3> QED BY <3>1, KIdle
  <2>2. CASE u # t
    <3>1. busy'[u] = busy[u]
      BY <1>1, <2>2
    <3>2. OneMove(owned, val, busy[u]) /\ MovesApart(busy[u], busy[t])
      BY <1>2, <2>2, KMoving
    <3>3. busy[u].pc # "idle" => busy[u].old # busy[t].old /\ busy[u].old \in owned
      BY <1>2, <3>2 DEF OneMove, MovesApart
    <3>4. busy[u].pc \in {"copy", "free"} => busy[u].new # busy[t].old /\ busy[u].new \in owned
      BY <1>2, <3>2 DEF OneMove, MovesApart
    <3> QED BY <1>3, <3>1, <3>2, <3>3, <3>4 DEF OneMove
  <2> QED BY <2>1, <2>2
<1>5. ASSUME NEW u \in Threads, NEW w \in Threads, u # w PROVE MovesApart(busy'[u], busy'[w])
  <2>1. CASE u = t
    <3>1. busy'[u] = K!Idle
      BY <1>1, <1>2, <2>1
    <3>2. MovesApart(busy'[w], K!Idle)
      BY KIdle
    <3> QED BY <3>1, <3>2 DEF MovesApart
  <2>2. CASE w = t
    <3>1. busy'[w] = K!Idle
      BY <1>1, <1>2, <2>2
    <3> QED BY <3>1, KIdle
  <2>3. CASE u # t /\ w # t
    BY <1>1, <1>5, <2>3 DEF KInv, Moves
  <2> QED BY <2>1, <2>2, <2>3
<1>6. busy' \in [Threads -> Moving]
  BY <1>1, <1>2, KIdle
<1>7. Moves(owned', val', busy')
  BY <1>4, <1>5, <1>6 DEF Moves
<1> QED BY <1>1, <1>2, <1>3, <1>7 DEF KInv

\* The invariant of the kernel's heap.
LEMMA KStep == KInv /\ K!Next => KInv'
<1> SUFFICES ASSUME KInv, K!Next PROVE KInv'
  OBVIOUS
<1>1. ASSUME NEW t \in Threads, NEW n \in KRequests, K!Alloc(t, n) PROVE KInv'
  BY <1>1, KAllocStep
<1>2. ASSUME NEW t \in Threads, NEW p \in owned, K!Free(t, p) PROVE KInv'
  BY <1>2, KFreeStep
<1>3. ASSUME NEW t \in Threads, NEW p \in owned, NEW n \in KRequests, K!ReallocStart(t, p, n)
      PROVE  KInv'
  BY <1>3, KStartStep
<1>4. ASSUME NEW p \in owned, NEW v \in Values, K!Write(p, v) PROVE KInv'
  BY <1>4, KWriteStep
<1>5. ASSUME NEW t \in Threads,
             K!ReallocMove(t) \/ K!ReallocFails(t) \/ K!ReallocCopy(t) \/ K!ReallocFree(t)
      PROVE  KInv'
  BY <1>5, KMoveStep, KFailsStep, KCopyStep, KLastStep
<1>6. ASSUME UNCHANGED heapVars PROVE KInv'
  BY <1>6 DEF heapVars, KInv, KList
<1>7. ASSUME NEW t \in Threads, NEW n, NEW p,
             K!AllocNone(t, n) \/ K!FreeUnknown(t, p) \/ K!ReallocFits(t, p, n)
      PROVE  KInv'
  BY <1>6, <1>7 DEF K!AllocNone, K!FreeUnknown, K!ReallocFits, K!vars, heapVars
<1> QED BY <1>1, <1>2, <1>3, <1>4, <1>5, <1>7 DEF K!Next

\* What the runs check of the kernel's heap follows.
LEMMA KSound == KInv => K!HeapSound
<1> SUFFICES ASSUME KInv PROVE K!HeapSound
  OBVIOUS
<1>1. K!Tiled(heap)
  BY KShape DEF KInv, KList, Chain, Shaped, K!Tiled, K!End
<1>2. K!NoNeighboursFree(heap)
  BY DEF KInv, KList, Parted, K!NoNeighboursFree, K!End
<1>3. K!BlocksInUse = UsedOf(heap)
  BY DEF K!BlocksInUse, UsedOf
<1>4. K!BytesInUse = BytesOf(heap, KHeader)
  BY <1>3 DEF K!BytesInUse, BytesOf
<1>5. K!Cardinality(K!BytesInUse) = Cardinality(BytesOf(heap, KHeader))
  BY <1>4 DEF K!Cardinality, Cardinality
<1> QED BY <1>1, <1>2, <1>3, <1>5 DEF KInv, KList, K!HeapSound

-----------------------------------------------------------------------------
(* The regions of the allocator *)

RegionsOf(h, o, v) ==
    [p \in o |-> [last |-> p + LoadOf(h, p - KHeader, KHeader) - 1, value |-> v[p]]]

NewRegion(l, m) == \E p \in 0 .. KArena - 1 :
    /\ DOMAIN m = DOMAIN l \cup {p}
    /\ \E q \in p .. Max(0 .. KArena - 1), v \in Values :
          /\ \A a \in DOMAIN l : q < a \/ l[a].last < p
          /\ m = [a \in DOMAIN l \cup {p} |-> IF a = p THEN [last |-> q, value |-> v] ELSE l[a]]
LostRegion(l, m) == \E p \in DOMAIN l : m = [a \in DOMAIN l \ {p} |-> l[a]]
Written(l, m) == \E p \in DOMAIN l, v \in Values : m = [l EXCEPT ![p].value = v]

LEMMA RegionsIs ==
  /\ K!Regions!Init <=> RegionsOf(heap, owned, val) = [p \in {} |-> 0]
  /\ LET l == RegionsOf(heap, owned, val)
         m == RegionsOf(heap', owned', val')
     IN  NewRegion(l, m) \/ LostRegion(l, m) \/ Written(l, m) => K!Regions!Next
<1>1. K!Regions!Init <=> RegionsOf(heap, owned, val) = [p \in {} |-> 0]
  BY DEF K!Regions!Init, RegionsOf, K!Payload, LoadOf
<1>2. NewRegion(RegionsOf(heap, owned, val), RegionsOf(heap', owned', val')) => K!Regions!Alloc
  BY DEF K!Regions!Alloc, NewRegion, RegionsOf, K!Payload, LoadOf, K!Regions!Max, Max, K!Bytes
<1>3. LostRegion(RegionsOf(heap, owned, val), RegionsOf(heap', owned', val')) => K!Regions!Free
  BY DEF K!Regions!Free, LostRegion, RegionsOf, K!Payload, LoadOf
<1>4. Written(RegionsOf(heap, owned, val), RegionsOf(heap', owned', val')) => K!Regions!Write
  BY DEF K!Regions!Write, Written, RegionsOf, K!Payload, LoadOf
<1> QED BY <1>1, <1>2, <1>3, <1>4 DEF K!Regions!Next

\* A block is a region of its own.
LEMMA RegionApart ==
  ASSUME NEW h, Chain(h, KArena), \A c \in UsedOf(h) : h[c].size > KHeader,
         NEW a \in UsedOf(h), NEW c \in UsedOf(h), a # c
  PROVE  /\ a + KHeader \in 0 .. KArena - 1
         /\ LoadOf(h, a, KHeader) \in Nat \ {0}
         /\ (a + KHeader) + LoadOf(h, a, KHeader) - 1 \in a + KHeader .. KArena - 1
         /\ \/ (a + KHeader) + LoadOf(h, a, KHeader) - 1 < c + KHeader
            \/ (c + KHeader) + LoadOf(h, c, KHeader) - 1 < a + KHeader
<1>1. ASSUME NEW d \in UsedOf(h)
      PROVE  /\ d \in Nat /\ h[d].size \in Nat /\ h[d].next \in Nat /\ h[d].next <= KArena
             /\ h[d].next = d + h[d].size /\ h[d].size > KHeader /\ d \in DOMAIN h
             /\ LoadOf(h, d, KHeader) = h[d].size - KHeader
  BY KShape, ChainFacts DEF UsedOf, Chain, LoadOf
<1>2. (a < c => h[a].next <= c) /\ (c < a => h[c].next <= a)
  BY <1>1 DEF Chain
<1> QED BY <1>1, <1>2, KShape

LEMMA RegionIn ==
  ASSUME NEW h, Chain(h, KArena), \A c \in UsedOf(h) : h[c].size > KHeader,
         NEW a \in UsedOf(h)
  PROVE  /\ a + KHeader \in 0 .. KArena - 1
         /\ (a + KHeader) + LoadOf(h, a, KHeader) - 1 \in a + KHeader .. KArena - 1
         /\ (a + KHeader) - KHeader = a
<1>1. /\ a \in Nat /\ h[a].size \in Nat /\ h[a].next \in Nat /\ h[a].next <= KArena
      /\ h[a].next = a + h[a].size /\ h[a].size > KHeader /\ a \in DOMAIN h
      /\ LoadOf(h, a, KHeader) = h[a].size - KHeader
  BY KShape, ChainFacts DEF UsedOf, Chain, LoadOf
<1> QED BY <1>1, KShape

LEMMA LastByte == Max(0 .. KArena - 1) = KArena - 1
<1> DEFINE S == 0 .. KArena - 1
<1>1. S \in SUBSET Nat /\ KArena - 1 \in S /\ \A x \in S : x <= KArena - 1
  BY KShape
<1>2. Max(S) \in S /\ \A x \in S : x <= Max(S)
  <2>1. KArena - 1 \in Nat
    BY KShape
  <2> QED BY <1>1, <2>1, MaxFacts
<1> QED BY <1>1, <1>2, KShape

\* An allocation is a new region, apart from all others.
LEMMA NewIsNew ==
  ASSUME KInv, NEW n \in KRequests, K!CanAlloc(n), K!Allocated(n)
  PROVE  NewRegion(RegionsOf(heap, owned, val), RegionsOf(heap', owned', val'))
<1>1. PICK a :
         /\ a \notin UsedOf(heap) /\ UsedOf(heap') = UsedOf(heap) \cup {a}
         /\ a + KHeader \notin owned /\ owned' = owned \cup {a + KHeader}
  BY KAllocated DEF KInv
<1>2. /\ KList' /\ KList
      /\ \A c \in UsedOf(heap) : heap'[c] = heap[c]
      /\ \A p \in owned : val'[p] = val[p]
  BY KAllocated DEF KInv
<1>3. PICK h : h = heap'
  OBVIOUS
<1>4. Chain(h, KArena) /\ (\A c \in UsedOf(h) : h[c].size > KHeader) /\ a \in UsedOf(h)
      /\ UsedOf(h) = UsedOf(heap) \cup {a} /\ \A c \in UsedOf(heap) : h[c] = heap[c]
  BY <1>1, <1>2, <1>3 DEF KList
<1>5. PICK p : p = a + KHeader
  OBVIOUS
<1>6. PICK q : q = p + LoadOf(h, a, KHeader) - 1
  OBVIOUS
<1>7. p \in 0 .. KArena - 1 /\ q \in p .. KArena - 1 /\ p - KHeader = a
  BY <1>4, <1>5, <1>6, RegionIn
<1>8. PICK v \in Values : v = val'[p]
  BY <1>1, <1>2, <1>5 DEF KList
<1>9. PICK l : l = RegionsOf(heap, owned, val)
  OBVIOUS
<1>10. PICK m : m = RegionsOf(heap', owned', val')
  OBVIOUS
<1>11. DOMAIN l = owned /\ DOMAIN m = owned \cup {p}
  BY <1>1, <1>5, <1>9, <1>10 DEF RegionsOf
<1>12. ASSUME NEW b \in owned
       PROVE  /\ q < b \/ l[b].last < p
              /\ b # p /\ m[b] = l[b]
  <2>1. b - KHeader \in UsedOf(heap) /\ (b - KHeader) + KHeader = b
    BY <1>2, Payloads
  <2>2. PICK c \in UsedOf(heap) : c = b - KHeader
    BY <2>1
  <2>3. c # a /\ c \in UsedOf(h) /\ h[c] = heap[c] /\ b = c + KHeader
    BY <1>1, <1>4, <2>1, <2>2
  <2>4. \/ p + LoadOf(h, a, KHeader) - 1 < b
        \/ b + LoadOf(h, c, KHeader) - 1 < p
    BY <1>4, <1>5, <2>3, RegionApart
  <2>5. LoadOf(h, c, KHeader) = LoadOf(heap, c, KHeader)
    BY <2>3 DEF LoadOf
  <2>6. l[b] = [last |-> b + LoadOf(heap, c, KHeader) - 1, value |-> val[b]]
    BY <1>9, <2>2 DEF RegionsOf
  <2>7. m[b] = [last |-> b + LoadOf(h, c, KHeader) - 1, value |-> val'[b]]
    BY <1>1, <1>3, <1>10, <2>2 DEF RegionsOf
  <2>8. val'[b] = val[b]
    BY <1>2
  <2> QED BY <1>1, <1>5, <1>6, <2>4, <2>5, <2>6, <2>7, <2>8
<1>13. m[p] = [last |-> q, value |-> v]
  <2>1. p \in owned'
    BY <1>1, <1>5
  <2> QED BY <1>3, <1>6, <1>7, <1>8, <1>10, <2>1 DEF RegionsOf
<1>14. m = [b \in DOMAIN l \cup {p} |-> IF b = p THEN [last |-> q, value |-> v] ELSE l[b]]
  <2>1. m = [b \in owned \cup {p} |-> m[b]]
    BY <1>10, <1>11 DEF RegionsOf
  <2> QED BY <1>11, <1>12, <1>13, <2>1
<1>15. q \in p .. Max(0 .. KArena - 1)
  BY <1>7, LastByte
<1>16. NewRegion(l, m)
  BY <1>7, <1>8, <1>11, <1>12, <1>14, <1>15 DEF NewRegion
<1> QED BY <1>9, <1>10, <1>16

LEMMA LostIsLost ==
  ASSUME KInv, NEW p \in owned, K!Release(p)
  PROVE  LostRegion(RegionsOf(heap, owned, val), RegionsOf(heap', owned', val'))
<1>1. /\ KList' /\ KList
      /\ UsedOf(heap') = UsedOf(heap) \ {p - KHeader} /\ owned' = owned \ {p}
      /\ \A c \in UsedOf(heap') : heap'[c] = heap[c]
      /\ \A q \in owned' : val'[q] = val[q]
  BY KReleased DEF KInv
<1>2. PICK l : l = RegionsOf(heap, owned, val)
  OBVIOUS
<1>3. PICK m : m = RegionsOf(heap', owned', val')
  OBVIOUS
<1>4. DOMAIN l = owned /\ DOMAIN m = owned \ {p} /\ m = [b \in owned \ {p} |-> m[b]]
  BY <1>1, <1>2, <1>3 DEF RegionsOf
<1>5. ASSUME NEW b \in owned \ {p} PROVE m[b] = l[b]
  <2>1. b - KHeader \in UsedOf(heap) /\ (b - KHeader) + KHeader = b /\ (p - KHeader) + KHeader = p
    BY <1>1, Payloads
  <2>2. PICK c : c = b - KHeader
    OBVIOUS
  <2>3. c \in UsedOf(heap')
    BY <1>1, <2>1, <2>2
  <2>4. LoadOf(heap', c, KHeader) = LoadOf(heap, c, KHeader)
    BY <1>1, <2>3 DEF LoadOf
  <2>5. l[b] = [last |-> b + LoadOf(heap, c, KHeader) - 1, value |-> val[b]]
    BY <1>2, <2>2 DEF RegionsOf
  <2>6. m[b] = [last |-> b + LoadOf(heap', c, KHeader) - 1, value |-> val'[b]]
    BY <1>1, <1>3, <2>2 DEF RegionsOf
  <2>7. val'[b] = val[b]
    BY <1>1
  <2> QED BY <2>4, <2>5, <2>6, <2>7
<1>6. m = [b \in DOMAIN l \ {p} |-> l[b]]
  BY <1>4, <1>5
<1>7. LostRegion(l, m)
  BY <1>4, <1>6 DEF LostRegion
<1> QED BY <1>2, <1>3, <1>7

LEMMA WrittenIsWritten ==
  ASSUME NEW p \in owned, NEW v \in Values, val \in [owned -> Values],
         val' = [val EXCEPT ![p] = v], heap' = heap, owned' = owned
  PROVE  Written(RegionsOf(heap, owned, val), RegionsOf(heap', owned', val'))
<1>1. PICK l : l = RegionsOf(heap, owned, val)
  OBVIOUS
<1>2. PICK m : m = RegionsOf(heap', owned', val')
  OBVIOUS
<1>3. /\ DOMAIN l = owned
      /\ \A b \in owned : l[b] = [last |-> b + LoadOf(heap, b - KHeader, KHeader) - 1,
                                  value |-> val[b]]
  BY <1>1 DEF RegionsOf
<1>4. /\ m = [b \in owned |-> m[b]]
      /\ \A b \in owned : m[b] = [last |-> b + LoadOf(heap, b - KHeader, KHeader) - 1,
                                  value |-> val'[b]]
  BY <1>2 DEF RegionsOf
<1>5. l = [b \in owned |-> l[b]]
  BY <1>1, <1>3 DEF RegionsOf
<1>6. \A b \in owned : b # p => m[b] = l[b]
  BY <1>3, <1>4
<1>7. m[p] = [l[p] EXCEPT !.value = v]
  <2>1. val'[p] = v
    OBVIOUS
  <2>2. PICK last : last = p + LoadOf(heap, p - KHeader, KHeader) - 1
    OBVIOUS
  <2>3. l[p] = [last |-> last, value |-> val[p]] /\ m[p] = [last |-> last, value |-> v]
    BY <1>3, <1>4, <2>1, <2>2
  <2> QED BY ONLY <2>3
<1>8. m = [l EXCEPT ![p] = [l[p] EXCEPT !.value = v]]
  BY <1>3, <1>4, <1>5, <1>6, <1>7
<1>9. m = [l EXCEPT ![p].value = v]
  BY <1>8
<1>10. Written(l, m)
  BY <1>3, <1>9 DEF Written
<1> QED BY <1>1, <1>2, <1>10

\* Every step of the kernel's heap allocates, frees or writes a region, or
\* changes none.
LEMMA KRegions ==
  ASSUME KInv, K!Next
  PROVE  K!Regions!Next \/ RegionsOf(heap', owned', val') = RegionsOf(heap, owned, val)
<1> DEFINE l == RegionsOf(heap, owned, val)
           m == RegionsOf(heap', owned', val')
<1>1. ASSUME NewRegion(l, m) \/ LostRegion(l, m) \/ Written(l, m) PROVE K!Regions!Next
  BY <1>1, RegionsIs
<1>2. ASSUME heap' = heap, owned' = owned, val' = val PROVE m = l
  BY <1>2
<1> HIDE DEF l, m
<1>3. ASSUME NEW t \in Threads, NEW n \in KRequests, K!Alloc(t, n) PROVE NewRegion(l, m)
  BY <1>3, NewIsNew DEF K!Alloc, l, m
<1>4. ASSUME NEW t \in Threads, NEW p \in owned, K!Free(t, p) PROVE LostRegion(l, m)
  BY <1>4, LostIsLost DEF K!Free, l, m
<1>5. ASSUME NEW t \in Threads, NEW p \in owned, NEW n \in KRequests, K!ReallocStart(t, p, n)
      PROVE  m = l
  BY <1>2, <1>5 DEF K!ReallocStart
<1>6. ASSUME NEW p \in owned, NEW v \in Values, K!Write(p, v) PROVE Written(l, m)
  BY <1>6, WrittenIsWritten DEF K!Write, KInv, KList, l, m
<1>7. ASSUME NEW t \in Threads, K!ReallocMove(t) PROVE NewRegion(l, m)
  <2>1. busy[t].pc = "alloc" /\ K!CanAlloc(busy[t].size) /\ K!Allocated(busy[t].size)
    BY <1>7 DEF K!ReallocMove
  <2>2. busy[t].size \in KRequests
    BY <2>1, KMoving DEF OneMove
  <2> QED BY <2>1, <2>2, NewIsNew DEF l, m
<1>8. ASSUME NEW t \in Threads, K!ReallocFails(t) PROVE m = l
  BY <1>2, <1>8 DEF K!ReallocFails
<1>9. ASSUME NEW t \in Threads, K!ReallocCopy(t) PROVE Written(l, m)
  <2>1. /\ val' = [val EXCEPT ![busy[t].new] = val[busy[t].old]]
        /\ heap' = heap /\ owned' = owned
    BY <1>9 DEF K!ReallocCopy
  <2>2. val[busy[t].old] \in Values /\ busy[t].new \in owned /\ val \in [owned -> Values]
    BY <1>9, KCopyStep DEF KInv, KList
  <2> QED BY <2>1, <2>2, WrittenIsWritten DEF l, m
<1>10. ASSUME NEW t \in Threads, K!ReallocFree(t) PROVE LostRegion(l, m)
  BY <1>10, KLastStep, LostIsLost DEF l, m
<1>11. ASSUME NEW t \in Threads, NEW n, NEW p,
              K!AllocNone(t, n) \/ K!FreeUnknown(t, p) \/ K!ReallocFits(t, p, n)
       PROVE  m = l
  BY <1>2, <1>11 DEF K!AllocNone, K!FreeUnknown, K!ReallocFits, K!vars
<1>12. K!Regions!Next \/ m = l
  BY <1>1, <1>3, <1>4, <1>5, <1>6, <1>7, <1>8, <1>9, <1>10, <1>11 DEF K!Next
<1> QED BY <1>12 DEF l, m

LEMMA KRegionsInit == K!Init => K!Regions!Init
<1> SUFFICES ASSUME K!Init PROVE K!Regions!Init
  OBVIOUS
<1>1. owned = {}
  BY DEF K!Init
<1>2. RegionsOf(heap, owned, val) = [p \in {} |-> 0]
  BY <1>1 DEF RegionsOf
<1> QED BY <1>2, RegionsIs

\* A reallocation ends with the contents at their new place.
LEMMA KKeepsContents ==
  ASSUME KInv, K!Next
  PROVE  \A t \in Threads : busy[t].pc = "free" /\ busy'[t] = K!Idle =>
             val'[busy[t].new] = val[busy[t].old] /\ busy[t].new \in owned'
<1> SUFFICES ASSUME NEW t \in Threads, busy[t].pc = "free", busy'[t] = K!Idle
             PROVE  val'[busy[t].new] = val[busy[t].old] /\ busy[t].new \in owned'
  OBVIOUS
<1>1. busy \in [Threads -> Moving] /\ K!Idle.pc = "idle"
  BY DEF KInv, Moves, K!Idle
<1>2. busy'[t] # busy[t] /\ busy' # busy
  BY <1>1
<1>3. K!ReallocFree(t)
  <2>1. ASSUME NEW u \in Threads, NEW n \in KRequests, K!Alloc(u, n) PROVE FALSE
    BY <1>2, <2>1 DEF K!Alloc
  <2>2. ASSUME NEW u \in Threads, NEW p \in owned, K!Free(u, p) PROVE FALSE
    BY <1>2, <2>2 DEF K!Free
  <2>3. ASSUME NEW u \in Threads, NEW p \in owned, NEW n \in KRequests, K!ReallocStart(u, p, n)
        PROVE  FALSE
    BY <1>1, <1>2, <2>3 DEF K!ReallocStart, K!Idle
  <2>4. ASSUME NEW p \in owned, NEW v \in Values, K!Write(p, v) PROVE FALSE
    BY <1>2, <2>4 DEF K!Write
  <2>5. ASSUME NEW u \in Threads, NEW n, NEW p,
               K!AllocNone(u, n) \/ K!FreeUnknown(u, p) \/ K!ReallocFits(u, p, n)
        PROVE  FALSE
    BY <1>2, <2>5 DEF K!AllocNone, K!FreeUnknown, K!ReallocFits, K!vars
  <2>6. ASSUME NEW u \in Threads, u # t,
               K!ReallocMove(u) \/ K!ReallocFails(u) \/ K!ReallocCopy(u) \/ K!ReallocFree(u)
        PROVE  FALSE
    BY <1>1, <1>2, <2>6 DEF K!ReallocMove, K!ReallocFails, K!ReallocCopy, K!ReallocFree
  <2>7. ~K!ReallocMove(t) /\ ~K!ReallocFails(t) /\ ~K!ReallocCopy(t)
    BY DEF K!ReallocMove, K!ReallocFails, K!ReallocCopy
  <2> QED BY <2>1, <2>2, <2>3, <2>4, <2>5, <2>6, <2>7 DEF K!Next
<1> QED BY <1>3, KLastStep

-----------------------------------------------------------------------------
(* The heap of a program *)

(* The program's heap is not set up yet, or its headers are in order and the
   payloads in use are those that were asked for, each large enough unless a
   size wrapped. *)
UList(h, f) ==
    /\ Chain(h, UArena) /\ Shaped(h, UHeader, UAlign) /\ Parted(h, UArena)
    /\ DOMAIN f = {a + UHeader : a \in UsedOf(h)}
    /\ f \in [DOMAIN f -> Nat]
    /\ \A a \in UsedOf(h) : f[a + UHeader] + UAlign <= Width =>
                               LoadOf(h, a, UHeader) >= f[a + UHeader]

UInv == (uheap = << >> /\ asked = << >>) \/ UList(uheap, asked)

\* The constants and the operators of the program's heap.
LEMMA UShape ==
  /\ UArena \in Nat /\ UHeader \in Nat \ {0} /\ UAlign \in Nat \ {0}
  /\ UArena > UHeader /\ UHeader % UAlign = 0 /\ Width \in Nat \ {0}
  /\ URequests \subseteq Nat /\ Counts \subseteq Nat
  /\ \A h, a : U!Payload(h, a) = LoadOf(h, a, UHeader)
  /\ \A h, a, n : U!Carved(h, a, n) = CarvedList(h, a, n, UHeader, UAlign)
  /\ \A h : U!Joined(h) = JoinedList(h)
  /\ \A S : U!Min(S) = Min(S)
<1>1. /\ UArena \in Nat /\ UHeader \in Nat \ {0} /\ UAlign \in Nat \ {0}
      /\ UArena > UHeader /\ UHeader % UAlign = 0 /\ UArena < Width
      /\ Width \in Nat /\ URequests \subseteq Nat /\ Counts \subseteq Nat
  BY HeapsAssumption DEF U!HeapShape, U!WrapAbove
<1>2. Width \in Nat \ {0}
  BY <1>1
<1>3. \A h, a : U!Payload(h, a) = LoadOf(h, a, UHeader)
  BY DEF U!Payload, LoadOf
<1>4. \A h, a, n : U!Carved(h, a, n) = CarvedList(h, a, n, UHeader, UAlign)
  <2>1. SUFFICES ASSUME NEW h, NEW a, NEW n
                 PROVE  U!Carved(h, a, n) = CarvedList(h, a, n, UHeader, UAlign)
    OBVIOUS
  <2>2. PICK load : load = LoadOf(h, a, UHeader)
    OBVIOUS
  <2>3. U!Payload(h, a) = load
    BY <1>3, <2>2
  <2>4. U!Carved(h, a, n) =
          IF load - n < UHeader + UAlign THEN [h EXCEPT ![a].used = TRUE]
          ELSE [c \in DOMAIN h \cup {a + UHeader + n} |->
                   CASE c = a + UHeader + n ->
                           [size |-> load - n, next |-> h[a].next, used |-> FALSE]
                     [] c = a -> [size |-> UHeader + n, next |-> a + UHeader + n, used |-> TRUE]
                     [] OTHER -> h[c]]
    BY ONLY <2>3 DEF U!Carved
  <2>5. CarvedList(h, a, n, UHeader, UAlign) =
          IF load - n < UHeader + UAlign THEN [h EXCEPT ![a].used = TRUE]
          ELSE [c \in DOMAIN h \cup {a + UHeader + n} |->
                   CASE c = a + UHeader + n ->
                           [size |-> load - n, next |-> h[a].next, used |-> FALSE]
                     [] c = a -> [size |-> UHeader + n, next |-> a + UHeader + n, used |-> TRUE]
                     [] OTHER -> h[c]]
    BY ONLY <2>2 DEF CarvedList
  <2> QED BY ONLY <2>4, <2>5
<1>5. \A S : U!Max(S) = Max(S) /\ U!Min(S) = Min(S)
  BY DEF U!Max, Max, U!Min, Min
<1>6. \A h : U!Remaining(h) = RemainingIn(h)
  BY DEF U!Remaining, RemainingIn, U!Joins, JoinsIn
<1>7. \A h, a : U!LastOf(h, a) = LastIn(h, a)
  BY <1>5, <1>6 DEF U!LastOf, LastIn, RunOf
<1>8. \A h : U!Joined(h) = JoinedList(h)
  BY <1>6, <1>7 DEF U!Joined, JoinedList
<1> QED BY <1>1, <1>2, <1>3, <1>4, <1>5, <1>8

\* A size is a multiple of the alignment, and large enough unless it wrapped.
LEMMA URounded ==
  ASSUME NEW n \in Nat
  PROVE  /\ U!WrapRounded(n) \in Nat /\ U!WrapRounded(n) % UAlign = 0
         /\ n + UAlign <= Width => U!WrapRounded(n) >= n
<1>1. PICK x \in Nat : x = n + UAlign - 1
  <2>1. n + UAlign - 1 \in Nat
    BY UShape
  <2> QED BY <2>1
<1>2. PICK y \in Nat : y = x % Width
  <2>1. x % Width \in 0 .. Width - 1
    BY UShape, Divided
  <2> QED BY <2>1
<1>3. U!WrapRounded(n) = (y \div UAlign) * UAlign
  BY <1>1, <1>2 DEF U!WrapRounded
<1>4. /\ (y \div UAlign) * UAlign \in Nat /\ ((y \div UAlign) * UAlign) % UAlign = 0
      /\ y = n + UAlign - 1 => (y \div UAlign) * UAlign >= n
  BY UShape, RoundedUp
<1>5. n + UAlign <= Width => y = n + UAlign - 1
  <2>1. SUFFICES ASSUME n + UAlign <= Width PROVE y = x
    BY <1>1
  <2>2. Width \in Nat \ {0} /\ UAlign \in Nat \ {0}
    BY UShape
  <2>3. x \in 0 .. Width - 1
    BY <1>1, <2>1, <2>2
  <2> QED BY <1>2, <2>2, <2>3
<1> QED BY <1>3, <1>4, <1>5

\* The arena set up, if it was not: nothing is in use.
LEMMA UStarted ==
  ASSUME UInv
  PROVE  UList(U!Started, asked) /\ (UList(uheap, asked) => U!Started = uheap)
<1>1. CASE UList(uheap, asked)
  <2>1. 0 \in DOMAIN uheap
    BY <1>1 DEF UList, Chain
  <2>2. uheap # << >>
    <3>1. DOMAIN << >> = {}
      OBVIOUS
    <3> QED BY <2>1, <3>1
  <2> QED BY <1>1, <2>2 DEF U!Started
<1>2. CASE uheap = << >> /\ asked = << >>
  <2>1. PICK head : head = [size |-> UArena, next |-> UArena, used |-> FALSE]
    OBVIOUS
  <2>2. PICK h : h = [a \in {0} |-> head]
    OBVIOUS
  <2>3. U!Started = h
    BY <1>2, <2>1, <2>2 DEF U!Started, U!Header0, U!End
  <2>4. DOMAIN h = {0} /\ h[0] = head /\ head \in Blk /\ head.next = UArena
        /\ head.size = UArena /\ ~head.used
    BY <2>1, <2>2, UShape DEF Blk
  <2>5. Chain(h, UArena)
    <3>1. h \in [DOMAIN h -> Blk]
      BY <2>2, <2>4
    <3> QED BY <2>4, <3>1, UShape DEF Chain
  <2>6. Shaped(h, UHeader, UAlign) /\ Parted(h, UArena)
    <3>1. 0 % UAlign = 0
      <4>1. UAlign \in Nat \ {0}
        BY UShape
      <4> QED BY <4>1
    <3> QED BY <2>4, <3>1, UShape DEF Shaped, Parted
  <2>7. UsedOf(h) = {}
    BY <2>4 DEF UsedOf
  <2>8. DOMAIN asked = {} /\ asked \in [DOMAIN asked -> Nat]
    BY <1>2
  <2>9. UList(h, asked)
    BY <2>5, <2>6, <2>7, <2>8 DEF UList
  <2>10. ~(0 \in DOMAIN uheap)
    BY <1>2
  <2> QED BY <2>3, <2>9, <2>10 DEF UList, Chain
<1> QED BY <1>1, <1>2 DEF UInv

\* A block taken for n bytes: need is n rounded, unless the rounding wrapped.
LEMMA UTaken ==
  ASSUME NEW h, NEW f, UList(h, f), NEW n \in Nat, U!CanAlloc(h, n),
         NEW m \in Nat, m + UAlign <= Width => m = n,
         NEW j, j = U!Carved(h, U!Taken(h, n), U!WrapRounded(n)),
         NEW p, p = U!Taken(h, n) + UHeader,
         NEW g, g = [q \in DOMAIN f \cup {p} |-> IF q = p THEN m ELSE f[q]]
  PROVE  /\ UList(j, g) /\ p \notin DOMAIN f
         /\ \A c \in UsedOf(h) : j[c] = h[c] /\ c \in UsedOf(j)
<1>1. PICK need : need = U!WrapRounded(n)
  OBVIOUS
<1>2. need \in Nat /\ need % UAlign = 0 /\ (n + UAlign <= Width => need >= n)
  BY <1>1, URounded
<1>3. PICK a : a = U!Taken(h, n)
  OBVIOUS
<1>4. Chain(h, UArena) /\ Shaped(h, UHeader, UAlign) /\ Parted(h, UArena)
  BY DEF UList
<1>5. a \in DOMAIN h /\ ~h[a].used /\ LoadOf(h, a, UHeader) >= need /\ h[a].size > UHeader
  <2>1. PICK F : F = U!Fits(h, n)
    OBVIOUS
  <2>2. F \subseteq {b \in DOMAIN h : /\ ~h[b].used /\ LoadOf(h, b, UHeader) >= need
                                     /\ h[b].size > UHeader}
        /\ F # {}
    BY <1>1, <2>1, UShape DEF U!Fits, U!Fitting, U!CanAlloc
  <2>3. F \in SUBSET Nat
    BY <1>4, <2>2, UShape, ChainFacts
  <2>4. a \in F
    BY <1>3, <2>1, <2>2, <2>3, UShape, MinFacts DEF U!Taken
  <2> QED BY <2>2, <2>4
<1>6. j = CarvedList(h, a, need, UHeader, UAlign)
  BY <1>1, <1>3, UShape
<1>7. /\ Chain(j, UArena) /\ Shaped(j, UHeader, UAlign) /\ Parted(j, UArena)
      /\ UsedOf(j) = UsedOf(h) \cup {a} /\ a \notin UsedOf(h)
      /\ \A c \in UsedOf(h) : j[c] = h[c]
      /\ LoadOf(j, a, UHeader) >= need
  BY <1>2, <1>4, <1>5, <1>6, UShape, CarvedBlock
<1>8. p = a + UHeader /\ a \in Nat /\ UsedOf(h) \subseteq Nat
  BY <1>3, <1>4, <1>5, UShape, ChainFacts DEF UsedOf
<1>9. p \notin DOMAIN f
  <2>1. \A c \in UsedOf(h) : c + UHeader # p
    BY <1>7, <1>8, UShape
  <2> QED BY <2>1 DEF UList
<1>10. DOMAIN g = {c + UHeader : c \in UsedOf(j)}
  BY <1>7, <1>8 DEF UList
<1>11. g \in [DOMAIN g -> Nat]
  BY DEF UList
<1>12. ASSUME NEW c \in UsedOf(j), g[c + UHeader] + UAlign <= Width
       PROVE  LoadOf(j, c, UHeader) >= g[c + UHeader]
  <2>1. CASE c = a
    <3>1. g[c + UHeader] = m
      BY <1>8, <2>1
    <3>2. m = n /\ need >= n
      BY <1>2, <1>12, <3>1
    <3>3. LoadOf(j, a, UHeader) \in Nat
      <4>1. a \in DOMAIN j
        BY <1>7 DEF UsedOf
      <4>2. j[a].size \in Nat
        BY <1>7, <4>1, UShape, ChainFacts
      <4> QED BY <4>2, UShape DEF LoadOf
    <3> QED BY <1>2, <1>7, <2>1, <3>1, <3>2, <3>3
  <2>2. CASE c # a
    <3>1. c \in UsedOf(h) /\ j[c] = h[c]
      BY <1>7, <2>2
    <3>2. c + UHeader \in DOMAIN f /\ c + UHeader # p
      BY <1>9, <3>1 DEF UList
    <3>3. g[c + UHeader] = f[c + UHeader]
      BY <3>2
    <3> QED BY <1>12, <3>1, <3>3 DEF UList, LoadOf
  <2> QED BY <2>1, <2>2
<1> QED BY <1>7, <1>9, <1>10, <1>11, <1>12 DEF UList

\* A block given back.
LEMMA UGiven ==
  ASSUME NEW h, NEW f, UList(h, f), NEW p \in DOMAIN f,
         NEW j, j = U!Released(h, p), NEW g, g = [q \in DOMAIN f \ {p} |-> f[q]]
  PROVE  UList(j, g)
<1>1. PICK a \in UsedOf(h) : p = a + UHeader
  BY DEF UList
<1>2. Chain(h, UArena) /\ Shaped(h, UHeader, UAlign)
  BY DEF UList
<1>3. a \in Nat /\ a \in DOMAIN h /\ UsedOf(h) \subseteq Nat
  BY <1>2, UShape, ChainFacts DEF UsedOf
<1>4. p - UHeader = a
  BY <1>1, <1>3, UShape
<1>5. PICK k : Freeing(k, h, a)
  BY DEF Freeing
<1>6. j = JoinedList(k)
  BY <1>4, <1>5, UShape DEF U!Released, Freeing
<1>7. /\ Chain(j, UArena) /\ Shaped(j, UHeader, UAlign) /\ Parted(j, UArena)
      /\ UsedOf(j) = UsedOf(h) \ {a}
      /\ \A c \in UsedOf(j) : j[c] = h[c]
  <2>1. UArena \in Nat /\ UHeader \in Nat
    BY UShape
  <2> QED BY <1>2, <1>3, <1>5, <1>6, <2>1, FreedBlock
<1>8. \A c \in UsedOf(h) : c # a => c + UHeader # p
  BY <1>1, <1>3, UShape
<1>9. DOMAIN g = {c + UHeader : c \in UsedOf(j)}
  BY <1>1, <1>7, <1>8 DEF UList
<1>10. g \in [DOMAIN g -> Nat]
  BY DEF UList
<1>11. ASSUME NEW c \in UsedOf(j), g[c + UHeader] + UAlign <= Width
       PROVE  LoadOf(j, c, UHeader) >= g[c + UHeader]
  <2>1. c \in UsedOf(h) /\ j[c] = h[c] /\ c + UHeader \in DOMAIN g
    BY <1>7, <1>9
  <2>2. g[c + UHeader] = f[c + UHeader]
    BY <2>1
  <2> QED BY <1>11, <2>1, <2>2 DEF UList, LoadOf
<1> QED BY <1>7, <1>9, <1>10, <1>11 DEF UList

LEMMA UInitially == U!Init => UInv
BY DEF U!Init, UInv

\* Every call of the program keeps its heap in order.
LEMMA UStep == UInv /\ U!Next => UInv'
<1> SUFFICES ASSUME UInv, U!Next PROVE UInv'
  OBVIOUS
<1>1. UList(U!Started, asked) /\ (UList(uheap, asked) => U!Started = uheap)
  BY UStarted
<1>2. PICK s : s = U!Started
  OBVIOUS
<1>3. ASSUME NEW n \in Nat, NEW m \in Nat, m + UAlign <= Width => m = n, U!CanAlloc(s, n),
             uheap' = U!Carved(s, U!Taken(s, n), U!WrapRounded(n)),
             asked' = U!With(U!Taken(s, n) + UHeader, m)
      PROVE  UList(uheap', asked')
  <2>1. PICK j : j = uheap'
    OBVIOUS
  <2>2. PICK p : p = U!Taken(s, n) + UHeader
    OBVIOUS
  <2>3. PICK g : g = asked'
    OBVIOUS
  <2>4. g = [q \in DOMAIN asked \cup {p} |-> IF q = p THEN m ELSE asked[q]]
    BY <1>3, <2>2, <2>3 DEF U!With
  <2>5. UList(s, asked) /\ j = U!Carved(s, U!Taken(s, n), U!WrapRounded(n))
    BY <1>1, <1>2, <1>3, <2>1
  <2>6. UList(j, g)
    BY <1>3, <2>2, <2>4, <2>5, UTaken
  <2> QED BY <2>1, <2>3, <2>6
<1>4. ASSUME NEW n \in URequests, U!Malloc(n) PROVE UInv'
  <2>1. n \in Nat
    BY UShape
  <2>2. /\ U!CanAlloc(s, n)
        /\ uheap' = U!Carved(s, U!Taken(s, n), U!WrapRounded(n))
        /\ asked' = U!With(U!Taken(s, n) + UHeader, n)
    BY <1>2, <1>4 DEF U!Malloc
  <2> QED BY <1>3, <2>1, <2>2 DEF UInv
<1>5. ASSUME NEW n \in URequests, U!MallocNone(n) PROVE UInv'
  <2>1. asked' = asked /\ (uheap' = uheap \/ uheap' = U!Started)
    BY <1>5 DEF U!MallocNone
  <2> QED BY <1>1, <2>1 DEF UInv
<1>6. ASSUME NEW k \in Counts, NEW n \in URequests, U!Calloc(k, n) PROVE UInv'
  <2>1. PICK m \in Nat : m = k * n
    <3>1. k \in Nat /\ n \in Nat
      BY UShape
    <3>2. k * n \in Nat
      BY <3>1
    <3> QED BY <3>2
  <2>2. PICK total \in Nat : total = m % Width
    <3>1. m % Width \in 0 .. Width - 1
      BY UShape, Divided
    <3> QED BY <3>1
  <2>3. m + UAlign <= Width => m = total
    <3>1. Width \in Nat \ {0} /\ UAlign \in Nat \ {0}
      BY UShape
    <3>2. m < Width => m % Width = m
      BY <3>1
    <3> QED BY <2>2, <3>1, <3>2
  <2>4. /\ U!CanAlloc(s, total)
        /\ uheap' = U!Carved(s, U!Taken(s, total), U!WrapRounded(total))
        /\ asked' = U!With(U!Taken(s, total) + UHeader, m)
    BY <1>2, <1>6, <2>1, <2>2 DEF U!Calloc
  <2> QED BY <1>3, <2>3, <2>4 DEF UInv
<1>7. ASSUME NEW p \in DOMAIN asked PROVE UList(uheap, asked)
  BY <1>7 DEF UInv
<1>8. ASSUME NEW p \in DOMAIN asked, U!Free(p) PROVE UInv'
  <2>1. PICK j : j = uheap'
    OBVIOUS
  <2>2. PICK g : g = asked'
    OBVIOUS
  <2>3. j = U!Released(uheap, p) /\ g = [q \in DOMAIN asked \ {p} |-> asked[q]]
    BY <1>8, <2>1, <2>2 DEF U!Free, U!Without
  <2>4. UList(j, g)
    BY <1>7, <2>3, UGiven
  <2> QED BY <2>1, <2>2, <2>4 DEF UInv
<1>9. ASSUME NEW p \in DOMAIN asked, NEW n \in URequests, U!ReallocInPlace(p, n) PROVE UInv'
  <2>1. PICK g : g = asked'
    OBVIOUS
  <2>2. /\ uheap' = uheap /\ LoadOf(uheap, p - UHeader, UHeader) >= n
        /\ g = [q \in DOMAIN asked \cup {p} |-> IF q = p THEN n ELSE asked[q]]
    BY <1>9, <2>1, UShape DEF U!ReallocInPlace, U!With
  <2>3. UList(uheap, asked) /\ n \in Nat
    BY <1>7, UShape
  <2>4. DOMAIN g = DOMAIN asked /\ g \in [DOMAIN g -> Nat]
    BY <2>2, <2>3 DEF UList
  <2>5. ASSUME NEW a \in UsedOf(uheap), g[a + UHeader] + UAlign <= Width
        PROVE  LoadOf(uheap, a, UHeader) >= g[a + UHeader]
    <3>1. a + UHeader \in DOMAIN asked
      BY <2>3 DEF UList
    <3>2. CASE a + UHeader = p
      <4>1. a \in Nat
        BY <2>3, UShape, ChainFacts DEF UList, UsedOf
      <4>2. p - UHeader = a
        BY <3>2, <4>1, UShape
      <4> QED BY <2>2, <3>2, <4>2
    <3>3. CASE a + UHeader # p
      <4>1. g[a + UHeader] = asked[a + UHeader]
        BY <2>2, <3>1, <3>3
      <4> QED BY <2>3, <2>5, <4>1 DEF UList
    <3> QED BY <3>2, <3>3
  <2>6. UList(uheap, g)
    BY <2>3, <2>4, <2>5 DEF UList
  <2> QED BY <2>1, <2>2, <2>6 DEF UInv
<1>10. ASSUME NEW p \in DOMAIN asked, NEW n \in URequests, U!ReallocMoves(p, n) PROVE UInv'
  <2>1. UList(uheap, asked) /\ n \in Nat
    BY <1>7, UShape
  <2>2. PICK q : q = U!Taken(uheap, n) + UHeader
    OBVIOUS
  <2>3. PICK j : j = U!Carved(uheap, U!Taken(uheap, n), U!WrapRounded(n))
    OBVIOUS
  <2>4. PICK g : g = [r \in DOMAIN asked \cup {q} |-> IF r = q THEN n ELSE asked[r]]
    OBVIOUS
  <2>5. /\ U!CanAlloc(uheap, n) /\ uheap' = U!Released(j, p)
        /\ asked' = [r \in DOMAIN g \ {p} |-> g[r]]
    BY <1>10, <2>2, <2>3, <2>4 DEF U!ReallocMoves, U!With, U!Without
  <2>6. UList(j, g) /\ q \notin DOMAIN asked
    BY <2>1, <2>2, <2>3, <2>4, <2>5, UTaken
  <2>7. p \in DOMAIN g
    BY <2>4
  <2>8. PICK i : i = uheap'
    OBVIOUS
  <2>9. PICK e : e = asked'
    OBVIOUS
  <2>10. UList(i, e)
    BY <2>5, <2>6, <2>7, <2>8, <2>9, UGiven
  <2> QED BY <2>8, <2>9, <2>10 DEF UInv
<1>11. ASSUME NEW p, NEW n, U!ReallocFails(p, n) PROVE UInv'
  BY <1>11 DEF U!ReallocFails, U!vars, UInv
<1> QED BY <1>4, <1>5, <1>6, <1>8, <1>9, <1>10, <1>11 DEF U!Next

LEMMA USound == UInv => U!UserHeapSound /\ U!EnoughUnlessWrapped
<1> SUFFICES ASSUME UInv PROVE U!UserHeapSound /\ U!EnoughUnlessWrapped
  OBVIOUS
<1>1. CASE uheap = << >> /\ asked = << >>
  <2>1. DOMAIN asked = {}
    BY <1>1
  <2> QED BY <1>1, <2>1 DEF U!UserHeapSound, U!EnoughUnlessWrapped
<1>2. CASE UList(uheap, asked)
  <2>1. U!Tiled(uheap)
    BY <1>2, UShape DEF UList, Chain, Shaped, U!Tiled, U!End
  <2>2. U!NoNeighboursFree(uheap)
    BY <1>2 DEF UList, Parted, U!NoNeighboursFree, U!End
  <2>3. DOMAIN asked = {a + UHeader : a \in {b \in DOMAIN uheap : uheap[b].used}}
    BY <1>2 DEF UList, UsedOf
  <2>4. ASSUME NEW p \in DOMAIN asked, asked[p] + UAlign <= Width
        PROVE  LoadOf(uheap, p - UHeader, UHeader) >= asked[p]
    <3>1. PICK a \in UsedOf(uheap) : p = a + UHeader
      BY <1>2 DEF UList
    <3>2. a \in Nat
      BY <1>2, UShape, ChainFacts DEF UList, UsedOf
    <3>3. p - UHeader = a
      BY <3>1, <3>2, UShape
    <3> QED BY <1>2, <2>4, <3>1, <3>3 DEF UList
  <2> QED BY <2>1, <2>2, <2>3, <2>4, UShape DEF U!UserHeapSound, U!EnoughUnlessWrapped
<1> QED BY <1>1, <1>2 DEF UInv

-----------------------------------------------------------------------------
(* Both heaps *)

BothInv == KInv /\ UInv

LEMMA BothInitially == HeapsInit => BothInv
BY KInitially, UInitially DEF HeapsInit, BothInv

LEMMA BothStep == BothInv /\ [HeapsNext]_heapsVars => BothInv'
<1> SUFFICES ASSUME BothInv, [HeapsNext]_heapsVars PROVE BothInv'
  OBVIOUS
<1>1. ASSUME UNCHANGED heapVars PROVE KInv'
  BY <1>1 DEF heapVars, BothInv, KInv, KList
<1>2. ASSUME UNCHANGED userVars PROVE UInv'
  BY <1>2 DEF userVars, BothInv, UInv
<1>3. CASE PageStep
  BY <1>1, <1>2, <1>3 DEF PageStep, BothInv
<1>4. CASE KernelStep
  BY <1>2, <1>4, KStep DEF KernelStep, BothInv
<1>5. CASE ProgramStep
  BY <1>1, <1>5, UStep DEF ProgramStep, BothInv
<1>6. CASE UNCHANGED heapsVars
  BY <1>1, <1>2, <1>6 DEF heapsVars, BothInv
<1> QED BY <1>3, <1>4, <1>5, <1>6 DEF HeapsNext

LEMMA HeapsInvariance == HeapsSpec => []BothInv
BY BothInitially, BothStep, PTL DEF HeapsSpec

(* Whatever is allocated, moved and freed, by whichever threads: the headers
   tile both arenas, no two free blocks stay side by side, the kernel counts
   the bytes in use, and a program gets less than it asked for only where a
   size wraps (kheap.c:44-154, woos_mem.h:40-141). *)
THEOREM HeapsAreSound == HeapsSpec => []HeapsSound
<1>1. BothInv => HeapsSound
  BY KSound, USound DEF BothInv, HeapsSound
<1> QED BY <1>1, HeapsInvariance, PTL

(* The kernel's heap implements an allocator of disjoint regions that keep
   what was written into them, and a reallocation takes the contents along
   whatever the other threads do between its sections (kheap.c:44-154). *)
THEOREM HeapIsImplemented == HeapsSpec => HeapImplemented
<1>1. HeapsSpec => K!Regions!Init
  BY KRegionsInit DEF HeapsSpec, HeapsInit
<1>2. BothInv /\ [HeapsNext]_heapsVars =>
        K!Regions!Next \/ RegionsOf(heap', owned', val') = RegionsOf(heap, owned, val)
  <2> SUFFICES ASSUME BothInv, [HeapsNext]_heapsVars
               PROVE  K!Regions!Next
                      \/ RegionsOf(heap', owned', val') = RegionsOf(heap, owned, val)
    OBVIOUS
  <2>1. CASE KernelStep
    BY <2>1, KRegions DEF KernelStep, BothInv
  <2>2. CASE UNCHANGED heapVars
    BY <2>2 DEF heapVars
  <2> QED BY <2>1, <2>2 DEF HeapsNext, PageStep, ProgramStep, heapsVars
<1>3. BothInv /\ [HeapsNext]_heapsVars => [K!Regions!Next]_(RegionsOf(heap, owned, val))
  BY <1>2
<1>4. BothInv /\ [HeapsNext]_heapsVars =>
        [\A t \in Threads : busy[t].pc = "free" /\ busy'[t] = K!Idle =>
             val'[busy[t].new] = val[busy[t].old] /\ busy[t].new \in owned']_K!vars
  <2>1. BothInv /\ KernelStep =>
          \A t \in Threads : busy[t].pc = "free" /\ busy'[t] = K!Idle =>
             val'[busy[t].new] = val[busy[t].old] /\ busy[t].new \in owned'
    BY KKeepsContents DEF KernelStep, BothInv
  <2>2. [HeapsNext]_heapsVars => KernelStep \/ UNCHANGED K!vars
    BY DEF HeapsNext, PageStep, ProgramStep, heapsVars, heapVars, K!vars
  <2> QED BY <2>1, <2>2
<1>5. HeapsSpec => K!ReallocKeeps
  BY <1>4, HeapsInvariance, PTL DEF HeapsSpec, K!ReallocKeeps
<1>6. HeapsSpec => K!ImplementsAllocator
  BY <1>1, <1>3, HeapsInvariance, PTL
     DEF HeapsSpec, K!ImplementsAllocator, K!Regions!Spec, RegionsOf, K!Payload, LoadOf
<1> QED BY <1>5, <1>6 DEF HeapImplemented
=============================================================================
