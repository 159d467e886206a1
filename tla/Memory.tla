------------------------------- MODULE Memory -------------------------------
(***************************************************************************)
(* Physical pages (pmm.c) and the page tables built out of them (vmm.c).   *)
(*                                                                         *)
(* The page allocator is a record of its counters and of the bitmap, the   *)
(* latter as the set of the pages whose bit is set.  Page tables are the   *)
(* contents of pages: mem[p][i] is the frame entry i of page p points to,  *)
(* 0 an entry that is not present.  A freed page keeps its contents, as it *)
(* does in the machine.  A table has the indices Low..High only: in the    *)
(* second level (PDPT) those below UserFrom are the 4 GiB of the kernel,   *)
(* which every space shares.                                               *)
(***************************************************************************)
EXTENDS Naturals, Sequences, FiniteSets, FiniteSetsExt

CONSTANTS NPages,       \* PMM_MAX_PAGES
          PageSize,     \* PMM_PAGE_SIZE, in the units of the memory map
          LowPages,     \* pages below PMM_LOW_MEMORY_CUTOFF
          ImagePages,   \* pages of __kernel_start..__kernel_end
          FixedPages,   \* back buffer, GPU surface, kernel heap
          MemoryMaps,   \* the E820 maps the loader may hand over
          RunSizes,     \* page counts asked of pmm_alloc_pages_multi
          KernelPml4, KernelPdpt, KernelPd,
          High, UserFrom,
          UserPages,    \* <<pdpt, pd, pt>> indices of the pages mapped
          MaxSpaces,    \* bound: address spaces alive at once
          MaxHeld       \* bound: single pages and runs held at once

Pages == 0 .. NPages - 1
Slots == 0 .. High
Blank == [i \in Slots |-> 0]

Region == [base : Nat, length : Nat, usable : BOOLEAN]

(* The boot tables lie in the kernel's image, page 0 below the cutoff, and
   pages are mapped above 4 GiB only. *)
ASSUME MemoryAssumption ==
    /\ NPages \in Nat /\ PageSize \in Nat \ {0}
    /\ LowPages \cup ImagePages \cup FixedPages \subseteq Pages
    /\ 0 \in LowPages
    /\ {KernelPml4, KernelPdpt, KernelPd} \subseteq ImagePages \ {0}
    /\ MemoryMaps \subseteq Seq(Region)
    /\ RunSizes \subseteq Nat \ {0}
    /\ High \in Nat /\ UserFrom \in Nat
    /\ UserPages \subseteq (UserFrom .. High) \X Slots \X Slots

VARIABLES pmm,          \* g_pmm and g_pmm_bitmap
          mem,          \* contents of the pages used as tables
          spaces,       \* PML4 pages of the spaces that exist
          held,         \* single pages their callers have not freed
          runs          \* <<first, count>> of multi-page allocations

vars == <<pmm, mem, spaces, held, runs>>

Reserved == LowPages \cup ImagePages \cup FixedPages

(* The whole pages of a region of the memory map. *)
RegionPages(r) ==
    LET first == (r.base + PageSize - 1) \div PageSize
        end   == (r.base + r.length) \div PageSize
    IN  IF r.usable /\ r.length >= PageSize THEN Pages \cap (first .. end - 1) ELSE {}

(* How often pmm_init counts the pages of S: once for every region. *)
Counted(map, S) ==
    Cardinality({kp \in (DOMAIN map) \X S : kp[2] \in RegionPages(map[kp[1]])})

AfterInit(map) ==
    LET usable == UNION {RegionPages(map[k]) : k \in DOMAIN map}
    IN  [bitmap |-> Pages \ (usable \ Reserved),
         total  |-> Counted(map, Pages),
         free   |-> Counted(map, Pages \ Reserved),
         last   |-> 0,
         ready  |-> Counted(map, Pages \ Reserved) # 0]

Clear(p) == Pages \ p.bitmap

CanAlloc(p) == p.ready /\ p.free # 0 /\ Clear(p) # {}

(* The page pmm_alloc_page finds: from last_search_idx up, then from 0. *)
Found(p) ==
    LET up == {i \in Clear(p) : i >= p.last}
    IN  IF up # {} THEN Min(up) ELSE Min(Clear(p))

Taken(p) ==
    [p EXCEPT !.bitmap = @ \cup {Found(p)}, !.free = @ - 1, !.last = Found(p)]

(* pmm_free_page on each page of S; what is reserved, out of range or not
   allocated is ignored. *)
Freed(p, S) ==
    LET given == {i \in S : i \in p.bitmap \ Reserved}
    IN  IF ~p.ready THEN p
        ELSE [p EXCEPT !.bitmap = @ \ given,
                       !.free   = @ + Cardinality(given),
                       !.last   = Min(given \cup {@})]

RunsFound(p, n) == {i \in Pages : i .. i + n - 1 \subseteq Clear(p)}

CanAllocRun(p, n) == p.ready /\ p.free >= n /\ n # 0 /\ RunsFound(p, n) # {}

TakenRun(p, n) ==
    [p EXCEPT !.bitmap = @ \cup (Min(RunsFound(p, n)) .. Min(RunsFound(p, n)) + n - 1),
              !.free   = @ - n]

(* pmm_free_pages_multi looks neither at reserved pages nor at the search
   index. *)
FreedRun(p, r) ==
    LET given == (r[1] .. r[1] + r[2] - 1) \cap p.bitmap
    IN  [p EXCEPT !.bitmap = @ \ given, !.free = @ + Cardinality(given)]
-----------------------------------------------------------------------------
(* One level of vmm_map_page: follow the entry, or link a blank new table. *)
Descend(s, i) ==
    IF ~s.ok THEN s
    ELSE IF s.mem[s.at][i] # 0 THEN [s EXCEPT !.at = s.mem[s.at][i]]
    ELSE IF ~CanAlloc(s.pmm) THEN [s EXCEPT !.ok = FALSE]
    ELSE LET n == Found(s.pmm)
         IN  [ok |-> TRUE, pmm |-> Taken(s.pmm), at |-> n,
              mem |-> [s.mem EXCEPT ![n] = Blank, ![s.at][i] = n]]

Walked(root, v) ==
    Descend(Descend(Descend([ok |-> TRUE, pmm |-> pmm, mem |-> mem, at |-> root],
                            0), v[1]), v[2])

(* The frame vmm_get_phys finds, 0 when a level is not present. *)
Phys(root, v) ==
    LET pdpt == mem[root][0]
        pd   == IF pdpt = 0 THEN 0 ELSE mem[pdpt][v[1]]
        pt   == IF pd = 0 THEN 0 ELSE mem[pd][v[2]]
    IN  IF pt = 0 THEN 0 ELSE mem[pt][v[3]]

\* A slip, for TablesOf.
TablesWithoutPts(root) ==
    LET pdpt == mem[root][0]
    IN  {root, pdpt} \cup ({mem[pdpt][i] : i \in UserFrom .. High} \ {0})

(* The tables vmm_destroy_address_space frees. *)
TablesOf(root) ==
    LET pdpt == mem[root][0]
        pds  == {mem[pdpt][i] : i \in UserFrom .. High} \ {0}
        pts  == (UNION {{mem[pd][j] : j \in Slots} : pd \in pds}) \ {0}
    IN  {root, pdpt} \cup pds \cup pts
-----------------------------------------------------------------------------
Init ==
    /\ \E map \in MemoryMaps : pmm = AfterInit(map)
    /\ mem = [p \in Pages |-> CASE p = KernelPml4 -> [Blank EXCEPT ![0] = KernelPdpt]
                                [] p = KernelPdpt -> [Blank EXCEPT ![0] = KernelPd]
                                [] OTHER -> Blank]
    /\ spaces = {}
    /\ held = {}
    /\ runs = {}

AllocPage ==
    /\ Cardinality(held) < MaxHeld
    /\ CanAlloc(pmm)
    /\ pmm' = Taken(pmm)
    /\ held' = held \cup {Found(pmm)}
    /\ UNCHANGED <<mem, spaces, runs>>

(* pmm_alloc_page answers 0. *)
Refused ==
    /\ ~CanAlloc(pmm)
    /\ UNCHANGED vars

(* A caller frees only what no table maps any more. *)
FreePage(p) ==
    /\ p \in held
    /\ \A s \in spaces, v \in UserPages : Phys(s, v) # p
    /\ pmm' = Freed(pmm, {p})
    /\ held' = held \ {p}
    /\ UNCHANGED <<mem, spaces, runs>>

AllocRun(n) ==
    /\ Cardinality(runs) < MaxHeld
    /\ CanAllocRun(pmm, n)
    /\ pmm' = TakenRun(pmm, n)
    /\ runs' = runs \cup {<<Min(RunsFound(pmm, n)), n>>}
    /\ UNCHANGED <<mem, spaces, held>>

FreeRun(r) ==
    /\ r \in runs
    /\ pmm' = FreedRun(pmm, r)
    /\ runs' = runs \ {r}
    /\ UNCHANGED <<mem, spaces, held>>

\* A slip, for CreateSpace.
CreateSpaceShared ==
    /\ Cardinality(spaces) < MaxSpaces
    /\ CanAlloc(pmm)
    /\ pmm' = Taken(pmm)
    /\ mem' = [mem EXCEPT ![Found(pmm)] = mem[KernelPml4]]
    /\ spaces' = spaces \cup {Found(pmm)}
    /\ UNCHANGED <<held, runs>>

(* The PML4 starts as a copy of the kernel's; its first entry gets a PDPT
   of the space's own, with the kernel's lowest 4 GiB in it. *)
CreateSpace ==
    /\ Cardinality(spaces) < MaxSpaces
    /\ CanAlloc(pmm)
    /\ CanAlloc(Taken(pmm))
    /\ LET root == Found(pmm)
           pdpt == Found(Taken(pmm))
           old  == mem[mem[KernelPml4][0]]
       IN  /\ pmm' = Taken(Taken(pmm))
           /\ mem' = [mem EXCEPT
                  ![root] = [mem[KernelPml4] EXCEPT ![0] = pdpt],
                  ![pdpt] = [i \in Slots |-> IF i < UserFrom THEN old[i] ELSE 0]]
           /\ spaces' = spaces \cup {root}
    /\ UNCHANGED <<held, runs>>

(* The second page is missing: the first one is given back. *)
CreateSpaceFails ==
    /\ CanAlloc(pmm)
    /\ ~CanAlloc(Taken(pmm))
    /\ pmm' = Freed(Taken(pmm), {Found(pmm)})
    /\ mem' = [mem EXCEPT ![Found(pmm)] = mem[KernelPml4]]
    /\ UNCHANGED <<spaces, held, runs>>

(* A failing call leaves the tables it has linked so far. *)
MapPage(s, v, f) ==
    LET w == Walked(s, v)
    IN  /\ s \in spaces
        /\ f \in held
        /\ pmm' = w.pmm
        /\ mem' = IF w.ok THEN [w.mem EXCEPT ![w.at][v[3]] = f] ELSE w.mem
        /\ UNCHANGED <<spaces, held, runs>>

UnmapPage(s, v) ==
    /\ s \in spaces
    /\ Phys(s, v) # 0
    /\ mem' = [mem EXCEPT ![mem[mem[mem[s][0]][v[1]]][v[2]]][v[3]] = 0]
    /\ UNCHANGED <<pmm, spaces, held, runs>>

DestroySpace(s) ==
    /\ s \in spaces
    /\ pmm' = Freed(pmm, TablesOf(s))
    /\ spaces' = spaces \ {s}
    /\ UNCHANGED <<mem, held, runs>>

Next ==
    \/ AllocPage \/ Refused \/ CreateSpace \/ CreateSpaceFails
    \/ \E p \in Pages : FreePage(p)
    \/ \E n \in RunSizes : AllocRun(n)
    \/ \E r \in runs : FreeRun(r)
    \/ \E s \in spaces : DestroySpace(s)
    \/ \E s \in spaces, v \in UserPages :
          UnmapPage(s, v) \/ \E f \in held : MapPage(s, v, f)

Spec == Init /\ [][Next]_vars
-----------------------------------------------------------------------------
(* The counters and the bitmap are what pmm.c keeps them to be. *)
TypeOK ==
    /\ pmm \in [bitmap : SUBSET Pages, total : Nat, free : Nat,
                last : Pages, ready : BOOLEAN]
    /\ mem \in [Pages -> [Slots -> Pages]]
    /\ spaces \subseteq Pages
    /\ held \subseteq Pages
    /\ runs \subseteq Pages \X RunSizes

(* What pages are in use for: <<use, by whom, page>>. *)
Uses ==
    {<<"held", p, p>> : p \in held}
    \cup (UNION {{<<"run", r, p>> : p \in r[1] .. r[1] + r[2] - 1} : r \in runs})
    \cup (UNION {{<<"space", s, p>> : p \in TablesOf(s)} : s \in spaces})

(* Every page that was handed out has one use: a caller's page, a member of
   one run, or a table at one place of one address space; each has its bit
   set and none is reserved.  Failing calls, reused pages with old contents
   and destroyed spaces included (pmm.c, vmm.c). *)
OneUse ==
    /\ \A u, w \in Uses : u # w => u[3] # w[3]
    /\ \A u \in Uses : u[3] \in pmm.bitmap \ Reserved
    /\ \A s \in spaces : Cardinality(TablesOf(s)) =
          2 + Cardinality({i \in UserFrom .. High : mem[mem[s][0]][i] # 0})
            + Cardinality({ij \in (UserFrom .. High) \X Slots :
                 mem[mem[s][0]][ij[1]] # 0 /\ mem[mem[mem[s][0]][ij[1]]][ij[2]] # 0})

(* The types and the one use of every page (pmm.c:75-233, vmm.c:31-220). *)
PagesOwned == TypeOK /\ OneUse

(* No call, failing or not, lets the count of free pages drift from the
   bitmap, even when the loader's map lists a page twice (pmm.c:75-233). *)
NoDrift ==
    [][pmm'.free + Cardinality(Clear(pmm)) = pmm.free + Cardinality(Clear(pmm'))]_vars

(* Nothing is lost: a page that is free or in use stays one or the other, so
   that a space built half-way and destroyed gives back all its tables, and a
   mapping that fails leaves its tables where they are found (vmm.c:60-85). *)
InUse == {u[3] : u \in Uses}
NothingLost == [][Clear(pmm') \cup InUse' = Clear(pmm) \cup InUse]_vars

(* The page tables implement one separate table per address space. *)
Abstract == INSTANCE AddressSpaces WITH
    Roots <- Pages, Frames <- Pages,
    maps <- [s \in spaces |-> [v \in UserPages |-> Phys(s, v)]]
ImplementsSpaces == Abstract!Spec

(* Address spaces are separate maps whatever tables they share, and no step of
   building, using and destroying them loses a page or miscounts one
   (vmm.c:31-220, pmm.c:75-233). *)
PagesImplemented == NoDrift /\ NothingLost /\ ImplementsSpaces
=============================================================================
