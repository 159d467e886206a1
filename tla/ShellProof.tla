---------------------------- MODULE ShellProof ----------------------------
(***************************************************************************)
(* The file manager, the handing over of files and the icons of the        *)
(* desktop, proved from the shell's specification.                         *)
(*                                                                         *)
(* File manager: the disk is a forest that keeps the system's files, the   *)
(* listing is the directory in order, and the menu, the dialog and the     *)
(* clipboard hold what they were opened on.  A rename, a paste or a        *)
(* removal is accounted for path by path: each file's bytes are still      *)
(* there, or it is one of the named exceptions.                            *)
(*                                                                         *)
(* Icons: a scan is followed name by name, what it has placed so far being *)
(* an invariant of its recursion.  What such a recursion gives exists and  *)
(* goes on up to the last name because < is well-founded on Nat.           *)
(***************************************************************************)
EXTENDS Shell, FiniteSetTheorems, SequenceTheorems, WellFoundedInduction, TLAPS
-----------------------------------------------------------------------------
(* Paths. *)

\* What a path starts with.
LEMMA PrefixIs ==
  ASSUME NEW p \in Paths, NEW q \in Paths
  PROVE  IsPrefix(p, q) <=> Len(p) <= Len(q) /\ \A i \in 1 .. Len(p) : p[i] = q[i]
<1>1. PICK m \in Nat, n \in Nat : m = Len(p) /\ n = Len(q) /\ DOMAIN p = 1 .. m /\ DOMAIN q = 1 .. n
  BY DEF Paths
<1>2. CASE m <= n
  <2>1. SubSeq(p, 1, m) = [i \in 1 .. m |-> p[i]] /\ SubSeq(q, 1, m) = [i \in 1 .. m |-> q[i]]
    BY <1>1, <1>2 DEF Paths
  <2> QED BY <1>1, <1>2, <2>1 DEF IsPrefix
<1>3. CASE ~(m <= n)
  BY <1>1, <1>3 DEF IsPrefix
<1> QED BY <1>2, <1>3

\* Two paths with the same names are one.
LEMMA SamePath ==
  ASSUME NEW p \in Paths, NEW q \in Paths, Len(p) = Len(q), \A i \in 1 .. Len(p) : p[i] = q[i]
  PROVE  p = q
BY SeqEqual DEF Paths

LEMMA InFacts ==
  ASSUME NEW p \in Paths, NEW n \in FileNames
  PROVE  /\ Append(p, n) \in Paths /\ Append(p, n) # << >> /\ Len(Append(p, n)) = Len(p) + 1
         /\ Front(Append(p, n)) = p /\ Last(Append(p, n)) = n
         /\ \A i \in 1 .. Len(p) : Append(p, n)[i] = p[i]
<1>1. /\ Append(p, n) \in Seq(FileNames) /\ Append(p, n) # << >> /\ Len(Append(p, n)) = Len(p) + 1
      /\ \A i \in 1 .. Len(p) : Append(p, n)[i] = p[i]
      /\ Append(p, n)[Len(p) + 1] = n
  BY AppendProperties DEF Paths
<1>2. PICK k \in Nat : k = Len(p) /\ DOMAIN p = 1 .. k /\ p \in Seq(FileNames)
  BY DEF Paths
<1> DEFINE a == Append(p, n)
<1> HIDE DEF a
<1>3. SubSeq(a, 1, k) \in Seq(FileNames) /\ Len(SubSeq(a, 1, k)) = k
      /\ \A i \in 1 .. k : SubSeq(a, 1, k)[i] = a[i]
  BY <1>1, <1>2 DEF a
<1>4. SubSeq(a, 1, k) = p
  BY <1>1, <1>2, <1>3, SeqEqual DEF a
<1> QED BY <1>1, <1>2, <1>4 DEF a, Front, Last, Paths

LEMMA FrontFacts ==
  ASSUME NEW p \in Paths, p # << >>
  PROVE  /\ Front(p) \in Paths /\ Len(Front(p)) = Len(p) - 1 /\ Len(p) \in Nat \ {0}
         /\ Last(p) \in FileNames /\ Last(p) = p[Len(p)]
         /\ \A i \in 1 .. Len(p) - 1 : Front(p)[i] = p[i]
<1>1. PICK k \in Nat : k = Len(p) /\ DOMAIN p = 1 .. k /\ p \in Seq(FileNames) /\ k # 0
  BY DEF Paths
<1>2. SubSeq(p, 1, k - 1) \in Seq(FileNames) /\ Len(SubSeq(p, 1, k - 1)) = k - 1
      /\ \A i \in 1 .. k - 1 : SubSeq(p, 1, k - 1)[i] = p[i]
  BY <1>1
<1> QED BY <1>1, <1>2 DEF Front, Last, Paths

\* The start of a path of some length.
LEMMA CutFacts ==
  ASSUME NEW p \in Paths, NEW n \in 0 .. Len(p)
  PROVE  /\ SubSeq(p, 1, n) \in Paths /\ Len(SubSeq(p, 1, n)) = n
         /\ \A i \in 1 .. n : SubSeq(p, 1, n)[i] = p[i]
BY DEF Paths

\* A prefix is a start.
LEMMA PrefixCut ==
  ASSUME NEW p \in Paths, NEW q \in Paths, IsPrefix(p, q)
  PROVE  Len(p) \in 0 .. Len(q) /\ p = SubSeq(q, 1, Len(p))
<1>1. Len(p) \in 0 .. Len(q) /\ \A i \in 1 .. Len(p) : p[i] = q[i]
  BY PrefixIs DEF Paths
<1>2. PICK n \in 0 .. Len(q) : n = Len(p)
  BY <1>1
<1>3. SubSeq(q, 1, n) \in Paths /\ Len(SubSeq(q, 1, n)) = n
      /\ \A i \in 1 .. n : SubSeq(q, 1, n)[i] = q[i]
  BY CutFacts
<1>4. p = SubSeq(q, 1, n)
  BY <1>1, <1>2, <1>3, SamePath
<1> QED BY <1>1, <1>2, <1>4

LEMMA PrefixOfPrefix ==
  ASSUME NEW p \in Paths, NEW q \in Paths, NEW r \in Paths, IsPrefix(p, q), IsPrefix(q, r)
  PROVE  IsPrefix(p, r)
<1>1. Len(p) \in Nat /\ Len(q) \in Nat /\ Len(r) \in Nat
  BY DEF Paths
<1> QED BY <1>1, PrefixIs

LEMMA PrefixSelf == ASSUME NEW p \in Paths PROVE IsPrefix(p, p)
<1>1. Len(p) \in Nat
  BY DEF Paths
<1> QED BY <1>1, PrefixIs

\* A prefix of the same length is the path itself.
LEMMA PrefixWhole ==
  ASSUME NEW p \in Paths, NEW q \in Paths, IsPrefix(p, q), Len(p) >= Len(q)
  PROVE  p = q
<1>1. Len(p) \in Nat /\ Len(q) \in Nat
  BY DEF Paths
<1> QED BY <1>1, PrefixIs, SamePath

\* A shorter prefix is one of the directory.
LEMMA PrefixOfFront ==
  ASSUME NEW p \in Paths, NEW q \in Paths, q # << >>, IsPrefix(p, q), p # q
  PROVE  IsPrefix(p, Front(q))
<1>1. Len(p) \in Nat /\ Len(q) \in Nat
  BY DEF Paths
<1>2. Len(p) <= Len(q) - 1
  BY <1>1, PrefixIs, PrefixWhole
<1> QED BY <1>1, <1>2, PrefixIs, FrontFacts

\* A path that is moved, and moved back.
LEMMA MovedFacts ==
  ASSUME NEW p \in Paths, NEW q \in Paths, IsPrefix(p, q), NEW r \in Paths
  PROVE  /\ r \o Rest(p, q) \in Paths
         /\ Len(r \o Rest(p, q)) = Len(r) + Len(q) - Len(p)
         /\ IsPrefix(r, r \o Rest(p, q))
         /\ p \o Rest(r, r \o Rest(p, q)) = q
         /\ \A i \in 1 .. Len(q) - Len(p) : (r \o Rest(p, q))[Len(r) + i] = q[Len(p) + i]
<1>1. PICK a \in Nat, b \in Nat, c \in Nat : a = Len(p) /\ b = Len(q) /\ c = Len(r) /\ a <= b
  BY PrefixIs DEF Paths
<1>2. p \in Seq(FileNames) /\ q \in Seq(FileNames) /\ r \in Seq(FileNames)
  BY DEF Paths
<1> DEFINE u == Rest(p, q)
           x == r \o u
           v == Rest(r, x)
<1>3. u \in Seq(FileNames) /\ Len(u) = b - a /\ \A i \in 1 .. b - a : u[i] = q[a + i]
  BY <1>1, <1>2 DEF Rest
<1> HIDE DEF u
<1>4. /\ x \in Seq(FileNames) /\ Len(x) = c + (b - a)
      /\ \A i \in 1 .. c + (b - a) : x[i] = IF i <= c THEN r[i] ELSE u[i - c]
  <2>1. /\ x \in Seq(FileNames) /\ Len(x) = Len(r) + Len(u)
        /\ \A i \in 1 .. Len(r) + Len(u) : x[i] = IF i <= Len(r) THEN r[i] ELSE u[i - Len(r)]
    BY <1>2, <1>3, ConcatProperties
  <2> HIDE DEF x
  <2> QED BY ONLY <2>1, <1>1, <1>3
<1> HIDE DEF x
<1>5. \A i \in 1 .. b - a : x[c + i] = q[a + i]
  <2> SUFFICES ASSUME NEW i \in 1 .. b - a PROVE x[c + i] = q[a + i]
    OBVIOUS
  <2>1. c + i \in 1 .. c + (b - a) /\ ~(c + i <= c) /\ (c + i) - c = i
    BY <1>1
  <2> QED BY ONLY <1>3, <1>4, <2>1, i \in 1 .. b - a
<1>6. \A i \in 1 .. c : x[i] = r[i]
  BY <1>1, <1>4
<1>7. IsPrefix(r, x)
  BY <1>1, <1>2, <1>4, <1>6, PrefixIs DEF Paths
<1>8. v \in Seq(FileNames) /\ Len(v) = b - a /\ \A i \in 1 .. b - a : v[i] = x[c + i]
  BY <1>1, <1>4 DEF Rest
<1> HIDE DEF v
<1>9. /\ p \o v \in Seq(FileNames) /\ Len(p \o v) = a + (b - a)
      /\ \A i \in 1 .. a + (b - a) : (p \o v)[i] = IF i <= a THEN p[i] ELSE v[i - a]
  <2>1. /\ p \o v \in Seq(FileNames) /\ Len(p \o v) = Len(p) + Len(v)
        /\ \A i \in 1 .. Len(p) + Len(v) : (p \o v)[i] = IF i <= Len(p) THEN p[i] ELSE v[i - Len(p)]
    BY <1>2, <1>8, ConcatProperties
  <2> QED BY ONLY <2>1, <1>1, <1>8
<1>10. p \o v = q
  <2>1. a + (b - a) = b
    BY <1>1
  <2>2. ASSUME NEW i \in 1 .. b PROVE (p \o v)[i] = q[i]
    <3>1. CASE i <= a
      <4>1. p[i] = q[i] /\ i \in 1 .. a + (b - a)
        BY <1>1, <2>1, <3>1, PrefixIs
      <4> QED BY ONLY <1>9, <3>1, <4>1
    <3>2. CASE i > a
      <4>1. i - a \in 1 .. b - a /\ a + (i - a) = i
        BY <1>1, <3>2
      <4>2. (p \o v)[i] = v[i - a] /\ v[i - a] = x[c + (i - a)]
        <5>1. ~(i <= a) /\ i \in 1 .. a + (b - a)
          BY <1>1, <2>1, <3>2
        <5> QED BY ONLY <1>8, <1>9, <4>1, <5>1
      <4>3. x[c + (i - a)] = q[a + (i - a)]
        BY ONLY <1>5, <4>1
      <4> QED BY ONLY <4>1, <4>2, <4>3
    <3>3. i <= a \/ i > a
      BY <1>1
    <3> QED BY ONLY <3>1, <3>2, <3>3
  <2> QED BY <1>1, <1>2, <1>9, <2>1, <2>2, SeqEqual
<1>11. Len(x) = c + b - a
  BY <1>1, <1>4
<1> QED BY <1>1, <1>4, <1>5, <1>7, <1>10, <1>11 DEF x, u, v, Paths
-----------------------------------------------------------------------------
(* The disk.  It is a forest when every directory on the way to a path is there. *)
Forest(t) ==
  /\ IsFiniteSet(DOMAIN t) /\ DOMAIN t \subseteq Paths
  /\ \A p \in DOMAIN t : \A n \in 0 .. Len(p) - 1 : SubSeq(p, 1, n) \in DOMAIN t

(* What the system needs at the top of the disk. *)
AtTop(p) == Len(p) = 1 /\ p[1] \in System
SystemStays(t) == \A p \in DOMAIN StartTree : AtTop(p) => p \in DOMAIN t

\* What is on the way to a path.
LEMMA OnTheWay ==
  ASSUME NEW t, Forest(t), NEW p \in DOMAIN t, NEW q \in Paths, IsPrefix(q, p)
  PROVE  q \in DOMAIN t
<1>1. p \in Paths /\ Len(p) \in Nat /\ Len(q) \in Nat
  BY DEF Forest, Paths
<1>2. CASE Len(q) >= Len(p)
  BY <1>1, <1>2, PrefixWhole
<1>3. CASE ~(Len(q) >= Len(p))
  <2>1. Len(q) \in 0 .. Len(p) - 1
    BY <1>1, <1>3
  <2>2. q = SubSeq(p, 1, Len(q))
    BY <1>1, PrefixCut
  <2> QED BY <2>1, <2>2 DEF Forest
<1> QED BY <1>2, <1>3

\* It is enough to look at prefixes.
LEMMA ForestIs ==
  ASSUME NEW t, IsFiniteSet(DOMAIN t), DOMAIN t \subseteq Paths,
         \A p \in DOMAIN t : \A q \in Paths : IsPrefix(q, p) => q \in DOMAIN t
  PROVE  Forest(t)
<1> SUFFICES ASSUME NEW p \in DOMAIN t, NEW n \in 0 .. Len(p) - 1
             PROVE  SubSeq(p, 1, n) \in DOMAIN t
  BY DEF Forest
<1>1. p \in Paths /\ Len(p) \in Nat /\ n \in 0 .. Len(p)
  BY DEF Paths
<1>2. SubSeq(p, 1, n) \in Paths /\ Len(SubSeq(p, 1, n)) = n
      /\ \A i \in 1 .. n : SubSeq(p, 1, n)[i] = p[i]
  BY <1>1, CutFacts
<1>3. PICK q \in Paths : q = SubSeq(p, 1, n) /\ Len(q) = n /\ \A i \in 1 .. n : q[i] = p[i]
  BY <1>2
<1>4. IsPrefix(q, p)
  <2>1. Len(q) <= Len(p) /\ \A i \in 1 .. Len(q) : q[i] = p[i]
    BY ONLY <1>1, <1>3, n \in 0 .. Len(p) - 1
  <2> QED BY <1>1, <2>1, PrefixIs
<1> QED BY <1>3, <1>4

\* What lies below a path.
LEMMA BelowFacts ==
  ASSUME Forest(tree), NEW p \in Paths
  PROVE  /\ Below(p) \subseteq Present /\ IsFiniteSet(Below(p))
         /\ \A q \in Below(p) : q \in Paths /\ IsPrefix(p, q)
         /\ p \in Present => p \in Below(p)
  BY FS_Subset, PrefixSelf DEF Below, Present, Forest

\* A path added where its directory is.
LEMMA WithFacts ==
  ASSUME Forest(tree), NEW p \in Paths, NEW b, p \in Present \/ (p # << >> /\ Front(p) \in Present)
  PROVE  /\ Forest(With(p, b)) /\ Present \subseteq DOMAIN With(p, b)
         /\ \A q \in Present : q # p => With(p, b)[q] = tree[q]
<1>1. DOMAIN With(p, b) = Present \cup {p}
  BY DEF With
<1>2. IsFiniteSet(Present \cup {p}) /\ Present \cup {p} \subseteq Paths
  BY FS_AddElement DEF Forest, Present
<1>3. ASSUME NEW q \in Present \cup {p}, NEW r \in Paths, IsPrefix(r, q) PROVE r \in Present \cup {p}
  <2>1. CASE q \in Present
    BY <1>3, <2>1, OnTheWay DEF Present
  <2>2. CASE q = p /\ p \notin Present /\ r # p
    <3>1. IsPrefix(r, Front(p))
      BY <1>3, <2>2, PrefixOfFront
    <3> QED BY <2>2, <3>1, OnTheWay DEF Present
  <2> QED BY <2>1, <2>2
<1>4. Forest(With(p, b))
  BY <1>1, <1>2, <1>3, ForestIs
<1> QED BY <1>1, <1>4 DEF With

LEMMA CreatedFacts ==
  ASSUME Forest(tree), NEW p \in Paths, p # << >>, NEW b
  PROVE  /\ Forest(Created(p, b)) /\ Present \subseteq DOMAIN Created(p, b)
         /\ \A q \in Present : Created(p, b)[q] = tree[q]
<1>1. CASE IsDir(Front(p)) /\ p \notin Present
  BY <1>1, WithFacts DEF Created, IsDir
<1>2. CASE ~(IsDir(Front(p)) /\ p \notin Present)
  BY <1>2 DEF Created, Present
<1> QED BY <1>1, <1>2

LEMMA TruncatedFacts ==
  ASSUME Forest(tree), NEW p \in Paths, p # << >>
  PROVE  /\ Forest(Truncated(p)) /\ Present \subseteq DOMAIN Truncated(p)
         /\ \A q \in Present : q # p => Truncated(p)[q] = tree[q]
<1>1. CASE IsFile(p)
  BY <1>1, WithFacts DEF Truncated, IsFile
<1>2. CASE ~IsFile(p)
  BY <1>2, CreatedFacts DEF Truncated
<1> QED BY <1>1, <1>2

LEMMA CopiedFacts ==
  ASSUME Forest(tree), NEW p \in Paths, p # << >>, NEW q
  PROVE  /\ Forest(Copied(q, p)) /\ Present \subseteq DOMAIN Copied(q, p)
         /\ \A r \in Present : r # p => Copied(q, p)[r] = tree[r]
<1>1. CASE q \notin Present
  BY <1>1 DEF Copied, Present
<1>2. CASE q \in Present /\ IsFile(p)
  <2>1. PICK b : Copied(q, p) = With(p, b)
    BY <1>2 DEF Copied
  <2> QED BY <1>2, <2>1, WithFacts DEF IsFile
<1>3. CASE q \in Present /\ ~IsFile(p)
  <2>1. PICK b : Copied(q, p) = Created(p, b)
    BY <1>3 DEF Copied
  <2> QED BY <2>1, CreatedFacts
<1> QED BY <1>1, <1>2, <1>3

\* Files and empty directories taken away.
LEMMA UnlinkedFacts ==
  ASSUME Forest(tree), NEW gone \in SUBSET Paths
  PROVE  /\ Forest(Unlinked(gone))
         /\ DOMAIN Unlinked(gone) \subseteq Present /\ Present \ gone \subseteq DOMAIN Unlinked(gone)
         /\ \A q \in DOMAIN Unlinked(gone) : Unlinked(gone)[q] = tree[q]
<1> DEFINE D == Present \ {p \in gone : Below(p) = {p}}
<1>1. DOMAIN Unlinked(gone) = D
  BY DEF Unlinked
<1>2. IsFiniteSet(D) /\ D \subseteq Paths
  BY FS_Subset DEF Forest, Present
<1>3. ASSUME NEW q \in D, NEW r \in Paths, IsPrefix(r, q) PROVE r \in D
  <2>1. q \in Present /\ q \in Paths
    BY <1>2
  <2>2. r \in Present
    BY <1>3, <2>1, OnTheWay DEF Present
  <2>3. ASSUME r \in gone, Below(r) = {r} PROVE FALSE
    <3>1. q \in Below(r)
      BY <1>3, <2>1 DEF Below
    <3> QED BY <1>3, <2>3, <3>1
  <2> QED BY <2>2, <2>3
<1>4. Forest(Unlinked(gone))
  BY <1>1, <1>2, <1>3, ForestIs
<1> QED BY <1>1, <1>4 DEF Unlinked

\* The two parts of a disk on which something was renamed.
RenameWorks(old, new) == old \in Present /\ IsDir(Front(new)) /\ new \notin Present
MovedTo(old, new) == IF IsPrefix(old, new) THEN {} ELSE {new \o Rest(old, q) : q \in Below(old)}

LEMMA RenamedIs ==
  ASSUME NEW old, NEW new, RenameWorks(old, new)
  PROVE  /\ DOMAIN Renamed(old, new) = (Present \ Below(old)) \cup MovedTo(old, new)
         /\ \A q \in DOMAIN Renamed(old, new) :
               Renamed(old, new)[q] = IF q \in MovedTo(old, new) THEN tree[old \o Rest(new, q)] ELSE tree[q]
BY DEF RenameWorks, MovedTo, Renamed

\* Where nothing was nothing is below.
LEMMA NothingBelow ==
  ASSUME Forest(tree), NEW new \in Paths, new \notin Present, NEW q \in Present
  PROVE  ~IsPrefix(new, q)
BY OnTheWay DEF Present

LEMMA RenamedForest ==
  ASSUME Forest(tree), NEW old \in Paths, NEW new \in Paths, new # << >>
  PROVE  Forest(Renamed(old, new))
<1>1. CASE ~RenameWorks(old, new)
  BY <1>1 DEF RenameWorks, Renamed
<1>2. CASE RenameWorks(old, new)
  <2> DEFINE moved == MovedTo(old, new)
             D == (Present \ Below(old)) \cup moved
  <2>1. \A q \in Below(old) : q \in Paths /\ q \in Present /\ IsPrefix(old, q)
    BY BelowFacts
  <2>2. \A x \in moved : \E q \in Below(old) : x = new \o Rest(old, q) /\ ~IsPrefix(old, new)
    BY DEF MovedTo
  <2>3. IsFiniteSet(moved)
    <3>1. CASE IsPrefix(old, new)
      BY <3>1, FS_EmptySet DEF MovedTo
    <3>2. CASE ~IsPrefix(old, new)
      <4> DEFINE f == [q \in Below(old) |-> new \o Rest(old, q)]
      <4>1. f \in Surjection(Below(old), moved)
        BY <3>2 DEF MovedTo, Surjection
      <4> QED BY <4>1, BelowFacts, FS_Surjection
    <3> QED BY <3>1, <3>2
  <2>4. moved \subseteq Paths
    BY <2>1, <2>2, MovedFacts
  <2>5. IsFiniteSet(D) /\ D \subseteq Paths
    <3>1. IsFiniteSet(Present \ Below(old)) /\ Present \subseteq Paths
      BY FS_Subset DEF Forest, Present
    <3> HIDE DEF moved
    <3> QED BY <2>3, <2>4, <3>1, FS_Union
  <2>6. ASSUME NEW q \in D, NEW r \in Paths, IsPrefix(r, q) PROVE r \in D
    <3>1. CASE q \in Present \ Below(old)
      <4>1. r \in Present /\ q \in Paths
        BY <2>5, <2>6, <3>1, OnTheWay DEF Present
      <4>2. r \notin Below(old)
        BY <2>1, <2>6, <3>1, <4>1, PrefixOfPrefix DEF Below
      <4> QED BY <4>1, <4>2
    <3>2. CASE q \in moved
      <4>1. PICK x \in Below(old) : q = new \o Rest(old, x) /\ ~IsPrefix(old, new)
        BY <2>2, <3>2
      <4>2. x \in Paths /\ x \in Present /\ IsPrefix(old, x)
        BY <2>1
      <4>3. PICK a \in Nat, b \in Nat, c \in Nat, k \in Nat :
               a = Len(old) /\ b = Len(x) /\ c = Len(new) /\ k = Len(r) /\ a <= b
        BY <4>2, PrefixIs DEF Paths
      <4>4. /\ q \in Paths /\ Len(q) = c + b - a /\ IsPrefix(new, q)
            /\ \A i \in 1 .. b - a : q[c + i] = x[a + i]
        BY <4>1, <4>2, <4>3, MovedFacts
      <4>5. k <= c + b - a /\ \A i \in 1 .. k : r[i] = q[i]
        BY <2>6, <4>3, <4>4, PrefixIs
      <4>6. c <= c + b - a /\ \A i \in 1 .. c : new[i] = q[i]
        BY <4>3, <4>4, PrefixIs
      <4>7. CASE k < c
        <5>1. IsPrefix(r, new) /\ r # new
          BY <4>3, <4>5, <4>6, <4>7, PrefixIs
        <5>2. IsPrefix(r, Front(new)) /\ Front(new) \in Present
          BY <1>2, <5>1, PrefixOfFront DEF RenameWorks, IsDir
        <5>3. r \in Present
          BY <5>2, OnTheWay DEF Present
        <5>4. r \notin Below(old)
          BY <2>1, <4>1, <5>1, PrefixOfPrefix
        <5> QED BY <5>3, <5>4
      <4>8. CASE k >= c
        <5> DEFINE y == SubSeq(x, 1, a + (k - c))
        <5>1. a + (k - c) \in 0 .. Len(x) /\ a <= a + (k - c)
          BY <4>3, <4>5, <4>8
        <5>2. y \in Paths /\ Len(y) = a + (k - c) /\ \A i \in 1 .. a + (k - c) : y[i] = x[i]
          BY <4>2, <5>1, CutFacts
        <5> HIDE DEF y
        <5>3. IsPrefix(y, x)
          BY <4>2, <5>1, <5>2, PrefixIs
        <5>4. IsPrefix(old, y)
          <6>1. \A i \in 1 .. a : old[i] = x[i] /\ i \in 1 .. a + (k - c)
            BY <4>2, <4>3, <5>1, PrefixIs
          <6> QED BY <4>3, <5>1, <5>2, <6>1, PrefixIs
        <5>5. y \in Below(old)
          BY <4>2, <5>2, <5>3, <5>4, OnTheWay DEF Below, Present
        <5> DEFINE z == new \o Rest(old, y)
        <5>6. /\ z \in Paths /\ Len(z) = c + (a + (k - c)) - a /\ IsPrefix(new, z)
              /\ \A i \in 1 .. (a + (k - c)) - a : z[c + i] = y[a + i]
          <6>1. /\ z \in Paths /\ Len(z) = Len(new) + Len(y) - Len(old) /\ IsPrefix(new, z)
                /\ \A i \in 1 .. Len(y) - Len(old) : z[Len(new) + i] = y[Len(old) + i]
            BY <5>2, <5>4, MovedFacts
          <6> HIDE DEF z
          <6> QED BY ONLY <4>3, <5>2, <6>1
        <5> HIDE DEF z
        <5>7. Len(z) = k
          BY <4>3, <5>6
        <5>8. ASSUME NEW i \in 1 .. k PROVE z[i] = r[i]
          <6>1. CASE i <= c
            <7>1. z[i] = new[i] /\ i \in 1 .. c
              BY <4>3, <5>6, <6>1, PrefixIs
            <7> QED BY <4>5, <4>6, <7>1
          <6>2. CASE i > c
            <7>1. /\ i - c \in 1 .. (a + (k - c)) - a /\ c + (i - c) = i /\ i - c \in 1 .. b - a
                  /\ a + (i - c) \in 1 .. a + (k - c)
              BY <4>3, <4>5, <4>8, <6>2
            <7>2. z[i] = y[a + (i - c)] /\ y[a + (i - c)] = x[a + (i - c)]
              BY <5>2, <5>6, <7>1
            <7>3. q[i] = x[a + (i - c)]
              BY <4>4, <7>1
            <7> QED BY <4>5, <7>2, <7>3
          <6> QED BY <4>3, <6>1, <6>2
        <5>9. z = r
          BY <4>3, <5>6, <5>7, <5>8, SamePath
        <5>10. z \in moved
          BY <4>1, <5>5 DEF MovedTo, z
        <5> QED BY <5>9, <5>10
      <4> QED BY <4>3, <4>7, <4>8
    <3> QED BY <3>1, <3>2
  <2>7. DOMAIN Renamed(old, new) = D
    BY <1>2, RenamedIs
  <2> QED BY <2>5, <2>6, <2>7, ForestIs
<1> QED BY <1>1, <1>2

\* What a rename does to a file: it stays, it moves, or it is lost with a
\* directory that was moved into itself.
LEMMA RenamedKeeps ==
  ASSUME Forest(tree), NEW old \in Paths, NEW new \in Paths, new # << >>, NEW p \in Present
  PROVE  \/ \E q \in DOMAIN Renamed(old, new) : Renamed(old, new)[q] = tree[p]
         \/ IsPrefix(old, new) /\ old # new /\ IsPrefix(old, p)
<1>1. CASE ~RenameWorks(old, new)
  BY <1>1 DEF RenameWorks, Renamed, Present
<1>2. CASE RenameWorks(old, new)
  <2>1. p \in Paths
    BY DEF Forest, Present
  <2>2. CASE p \notin Below(old)
    <3>1. p \in DOMAIN Renamed(old, new)
      BY <1>2, <2>2, RenamedIs
    <3>2. p \notin MovedTo(old, new)
      <4> SUFFICES ASSUME p \in MovedTo(old, new) PROVE FALSE
        OBVIOUS
      <4>1. PICK x \in Below(old) : p = new \o Rest(old, x)
        BY DEF MovedTo
      <4>2. IsPrefix(new, p)
        BY <4>1, BelowFacts, MovedFacts
      <4> QED BY <1>2, <4>2, NothingBelow DEF RenameWorks
    <3> QED BY <1>2, <3>1, <3>2, RenamedIs
  <2>3. CASE p \in Below(old) /\ ~IsPrefix(old, new)
    <3>1. IsPrefix(old, p) /\ new \o Rest(old, p) \in MovedTo(old, new)
      BY <2>3, BelowFacts DEF MovedTo
    <3>2. old \o Rest(new, new \o Rest(old, p)) = p
      BY <2>1, <3>1, MovedFacts
    <3>3. Renamed(old, new)[new \o Rest(old, p)] = tree[p]
          /\ new \o Rest(old, p) \in DOMAIN Renamed(old, new)
      BY <1>2, <3>1, <3>2, RenamedIs
    <3> QED BY <3>3
  <2>4. CASE p \in Below(old) /\ IsPrefix(old, new)
    BY <1>2, <2>4, BelowFacts DEF RenameWorks
  <2> QED BY <2>2, <2>3, <2>4
<1> QED BY <1>1, <1>2

\* A rename of something else leaves what is at the top.
LEMMA RenamedStays ==
  ASSUME Forest(tree), SystemStays(tree), NEW old \in Paths, old # << >>, ~AtTop(old), NEW new \in Paths
  PROVE  SystemStays(Renamed(old, new))
<1>1. CASE ~RenameWorks(old, new)
  BY <1>1 DEF RenameWorks, Renamed
<1>2. CASE RenameWorks(old, new)
  <2> SUFFICES ASSUME NEW p \in DOMAIN StartTree, AtTop(p) PROVE p \in DOMAIN Renamed(old, new)
    BY DEF SystemStays
  <2>1. p \in Present /\ p \in Paths
    BY DEF SystemStays, Present, Forest
  <2>2. ASSUME p \in Below(old) PROVE FALSE
    <3>1. IsPrefix(old, p) /\ Len(old) >= 1 /\ Len(p) = 1
      BY <2>2, BelowFacts, FrontFacts DEF AtTop
    <3>2. old = p
      BY <2>1, <3>1, PrefixWhole
    <3> QED BY <3>2
  <2> QED BY <1>2, <2>1, <2>2, RenamedIs
<1> QED BY <1>1, <1>2
-----------------------------------------------------------------------------
(* The listing. *)

\* What is in order before an element of a finite set.
Before(s, e) == {f \in s : Earlier(f, e)}
InLine(s) ==
  /\ IsFiniteSet(s)
  /\ \A e \in s : ~Earlier(e, e)
  /\ \A e \in s : \A f \in s : e # f => Earlier(e, f) \/ Earlier(f, e)
  /\ \A e \in s : \A f \in s : \A g \in s : Earlier(e, f) /\ Earlier(f, g) => Earlier(e, g)

LEMMA BeforeFacts ==
  ASSUME NEW s, InLine(s), NEW e \in s
  PROVE  /\ Cardinality(Before(s, e)) + 1 \in 1 .. Cardinality(s)
         /\ \A f \in s : Earlier(e, f) => Cardinality(Before(s, e)) < Cardinality(Before(s, f))
<1>1. IsFiniteSet(s) /\ Cardinality(s) \in Nat
  BY FS_CardinalityType DEF InLine
<1>2. \A f \in s : IsFiniteSet(Before(s, f)) /\ Cardinality(Before(s, f)) \in Nat
  BY <1>1, FS_Subset, FS_CardinalityType DEF Before
<1>3. Cardinality(Before(s, e)) < Cardinality(s)
  <2>1. Before(s, e) \in SUBSET s /\ e \notin Before(s, e)
    BY DEF InLine, Before
  <2>2. Cardinality(Before(s, e)) <= Cardinality(s) /\ Cardinality(s) # Cardinality(Before(s, e))
    BY <1>1, <2>1, FS_Subset
  <2> QED BY <1>1, <1>2, <2>2
<1>4. ASSUME NEW f \in s, Earlier(e, f) PROVE Cardinality(Before(s, e)) < Cardinality(Before(s, f))
  <2>1. Before(s, e) \in SUBSET Before(s, f)
    BY <1>4 DEF InLine, Before
  <2>2. e \in Before(s, f) /\ e \notin Before(s, e)
    BY <1>4 DEF InLine, Before
  <2>3. Cardinality(Before(s, e)) <= Cardinality(Before(s, f))
        /\ Cardinality(Before(s, f)) # Cardinality(Before(s, e))
    BY <1>2, <2>1, <2>2, FS_Subset
  <2> QED BY <1>2, <2>3
<1> QED BY <1>1, <1>2, <1>3, <1>4

\* The elements in order, one after the other.
LEMMA InOrderFacts ==
  ASSUME NEW s, InLine(s)
  PROVE  /\ Cardinality(s) \in Nat /\ InOrder(s) \in Seq(s) /\ Len(InOrder(s)) = Cardinality(s)
         /\ \A k \in 1 .. Cardinality(s) - 1 : Earlier(InOrder(s)[k], InOrder(s)[k + 1])
<1>1. PICK n \in Nat : n = Cardinality(s)
  BY FS_CardinalityType DEF InLine
<1> DEFINE place == [e \in s |-> Cardinality(Before(s, e)) + 1]
<1>2. \A e \in s : place[e] \in 1 .. n /\ place[e] = Cardinality(Before(s, e)) + 1
                   /\ Cardinality(Before(s, e)) \in Nat
  <2>1. \A e \in s : IsFiniteSet(Before(s, e))
    BY FS_Subset DEF InLine, Before
  <2> QED BY <1>1, <2>1, BeforeFacts, FS_CardinalityType
<1>3. \A e \in s : \A f \in s : Earlier(e, f) => place[e] < place[f]
  BY <1>2, BeforeFacts
<1>4. \A e \in s : \A f \in s : place[e] = place[f] => e = f
  <2>1. \A e \in s : place[e] \in Nat
    BY <1>1, <1>2
  <2> HIDE DEF place
  <2> QED BY <1>3, <2>1 DEF InLine
<1>5. place \in Injection(s, 1 .. n)
  BY <1>2, <1>4 DEF Injection, IsInjective
<1> HIDE DEF place
<1>6. \A k \in 1 .. n : \E e \in s : place[e] = k
  <2>1. IsFiniteSet(1 .. n) /\ Cardinality(1 .. n) = n
    BY <1>1, FS_Interval
  <2>2. place \in Surjection(s, 1 .. n)
    BY <1>1, <1>5, <2>1, FS_Injection
  <2> QED BY <2>2 DEF Surjection
<1>7. \A k \in 1 .. n : InOrder(s)[k] \in s /\ place[InOrder(s)[k]] = k
  <2> SUFFICES ASSUME NEW k \in 1 .. n PROVE InOrder(s)[k] \in s /\ place[InOrder(s)[k]] = k
    OBVIOUS
  <2>1. InOrder(s)[k] = CHOOSE e \in s : Cardinality(Before(s, e)) = k - 1
    BY <1>1 DEF InOrder, Before
  <2>2. \E e \in s : Cardinality(Before(s, e)) = k - 1
    BY <1>2, <1>6
  <2>3. InOrder(s)[k] \in s /\ Cardinality(Before(s, InOrder(s)[k])) = k - 1
    BY <2>1, <2>2
  <2> QED BY <1>2, <2>3
<1>8. DOMAIN InOrder(s) = 1 .. n /\ InOrder(s) \in [1 .. n -> s]
  BY <1>1, <1>7 DEF InOrder
<1>9. InOrder(s) \in Seq(s) /\ Len(InOrder(s)) = n
  BY <1>1, <1>8
<1>10. ASSUME NEW k \in 1 .. n - 1 PROVE Earlier(InOrder(s)[k], InOrder(s)[k + 1])
  <2>1. PICK a \in s, b \in s : a = InOrder(s)[k] /\ b = InOrder(s)[k + 1] /\ place[a] = k /\ place[b] = k + 1
    BY <1>7, <1>10
  <2>2. a # b
    BY <2>1
  <2>3. ~Earlier(b, a)
    BY <1>3, <2>1
  <2> QED BY <2>1, <2>2, <2>3 DEF InLine
<1> QED BY <1>1, <1>9, <1>10
-----------------------------------------------------------------------------
LEMMA RankFacts ==
  ASSUME NEW n \in FileNames
  PROVE  Rank(n) \in Nat /\ Alphabet[Rank(n)] = n
<1>1. \E k \in DOMAIN Alphabet : Alphabet[k] = n
  BY DEF FileNames, Range
<1>2. Rank(n) \in DOMAIN Alphabet /\ Alphabet[Rank(n)] = n
  BY <1>1 DEF Rank
<1>3. DOMAIN Alphabet \subseteq Nat
  BY FolderAssumption DEF FolderAssumption
<1> QED BY <1>2, <1>3

ItemType == [path : Paths, dir : BOOLEAN]

LEMMA EntriesFacts ==
  ASSUME NEW t, Forest(t), NEW p \in Paths
  PROVE  /\ InLine(Entries(t, p))
         /\ \A e \in Entries(t, p) : /\ e \in ItemType /\ e.path \in DOMAIN t
                                     /\ e.path # << >> /\ Front(e.path) = p
<1>1. \A e \in Entries(t, p) : \E q \in Children(t, p) : e = [path |-> q, dir |-> t[q] = Dir]
  BY DEF Entries
<1>2. \A q \in Children(t, p) : q \in Paths /\ q \in DOMAIN t /\ q # << >> /\ Front(q) = p
  BY DEF Children, Forest
<1>3. \A e \in Entries(t, p) : /\ e \in ItemType /\ e.path \in DOMAIN t
                               /\ e.path # << >> /\ Front(e.path) = p
  <2> SUFFICES ASSUME NEW e \in Entries(t, p)
               PROVE  e \in ItemType /\ e.path \in DOMAIN t /\ e.path # << >> /\ Front(e.path) = p
    OBVIOUS
  <2>1. PICK q \in Children(t, p) : e = [path |-> q, dir |-> t[q] = Dir]
    BY <1>1
  <2>2. (t[q] = Dir) \in BOOLEAN /\ q \in Paths
    BY <1>2
  <2>3. e \in ItemType
    BY <2>1, <2>2, Zenon DEF ItemType
  <2>4. e.path = q
    BY <2>1
  <2> QED BY <1>2, <2>3, <2>4
<1>4. IsFiniteSet(Entries(t, p))
  <2>1. IsFiniteSet(Children(t, p))
    BY FS_Subset DEF Children, Forest
  <2> DEFINE f == [q \in Children(t, p) |-> [path |-> q, dir |-> t[q] = Dir]]
  <2>2. f \in Surjection(Children(t, p), Entries(t, p))
    <3>1. f \in [Children(t, p) -> Entries(t, p)]
      BY DEF Entries
    <3>2. \A e \in Entries(t, p) : \E q \in Children(t, p) : f[q] = e
      BY <1>1
    <3> QED BY <3>1, <3>2 DEF Surjection
  <2> QED BY <2>1, <2>2, FS_Surjection
<1>5. \A e \in Entries(t, p) : e.dir \in BOOLEAN /\ Last(e.path) \in FileNames
  BY <1>3, FrontFacts DEF ItemType
<1>6. \A e \in Entries(t, p) : Rank(Last(e.path)) \in Nat /\ Alphabet[Rank(Last(e.path))] = Last(e.path)
  BY <1>5, RankFacts
<1>7. ASSUME NEW e \in Entries(t, p), NEW f \in Entries(t, p), Last(e.path) = Last(f.path)
      PROVE  e = f
  <2>1. e.path \in Paths /\ f.path \in Paths /\ e.path # << >> /\ f.path # << >>
        /\ Front(e.path) = p /\ Front(f.path) = p
    BY <1>3 DEF ItemType
  <2>2. PICK m \in Nat, n \in Nat : m = Len(e.path) /\ n = Len(f.path) /\ m # 0 /\ n # 0
    BY <2>1, FrontFacts
  <2>3. m - 1 = n - 1 /\ m = n
    BY <2>1, <2>2, FrontFacts
  <2>4. \A i \in 1 .. m - 1 : e.path[i] = f.path[i]
    BY <2>1, <2>2, <2>3, FrontFacts
  <2>5. e.path[m] = f.path[m]
    BY <1>7, <2>1, <2>2, <2>3, FrontFacts
  <2>6. \A i \in 1 .. m : e.path[i] = f.path[i]
    BY <2>2, <2>4, <2>5
  <2>7. e.path = f.path
    BY <2>1, <2>2, <2>3, <2>6, SamePath
  <2> QED BY <1>1, <2>7
<1>8. \A e \in Entries(t, p) : ~Earlier(e, e)
  BY <1>6 DEF Earlier
<1>9. ASSUME NEW e \in Entries(t, p), NEW f \in Entries(t, p), e # f
      PROVE  Earlier(e, f) \/ Earlier(f, e)
  <2>1. CASE e.dir # f.dir
    BY <1>5, <2>1 DEF Earlier
  <2>2. CASE e.dir = f.dir
    <3>1. Rank(Last(e.path)) # Rank(Last(f.path))
      BY <1>6, <1>7, <1>9
    <3> QED BY <1>6, <2>2, <3>1 DEF Earlier
  <2> QED BY <2>1, <2>2
<1>10. ASSUME NEW e \in Entries(t, p), NEW f \in Entries(t, p), NEW g \in Entries(t, p),
              Earlier(e, f), Earlier(f, g)
       PROVE  Earlier(e, g)
  <2>1. PICK a \in Nat, b \in Nat, c \in Nat :
           a = Rank(Last(e.path)) /\ b = Rank(Last(f.path)) /\ c = Rank(Last(g.path))
    BY <1>6
  <2>2. e.dir \in BOOLEAN /\ f.dir \in BOOLEAN /\ g.dir \in BOOLEAN
    BY <1>5
  <2>3. IF e.dir # f.dir THEN e.dir ELSE a < b
    BY <1>10, <2>1 DEF Earlier
  <2>4. IF f.dir # g.dir THEN f.dir ELSE b < c
    BY <1>10, <2>1 DEF Earlier
  <2>5. a < b /\ b < c => a < c
    BY <2>1
  <2>6. IF e.dir # g.dir THEN e.dir ELSE a < c
    BY <2>2, <2>3, <2>4, <2>5
  <2> QED BY <2>1, <2>6 DEF Earlier
<1> QED BY <1>3, <1>4, <1>8, <1>9, <1>10 DEF InLine

LEMMA ListedFacts ==
  ASSUME NEW t, Forest(t), NEW p \in Paths, NEW l \in Listed(t, p)
  PROVE  /\ l \in Seq(Entries(t, p)) /\ Len(l) \in Nat
         /\ Len(l) = Min({MAX_ITEMS, Cardinality(Entries(t, p))})
         /\ \A i \in 1 .. Len(l) - 1 : Earlier(l[i], l[i + 1])
<1> DEFINE all == Entries(t, p)
<1>1. InLine(all)
  BY EntriesFacts
<1> HIDE DEF all
<1>2. PICK c \in Nat, m \in Nat : c = Cardinality(all) /\ m = MAX_ITEMS
  BY <1>1, FS_CardinalityType, FolderAssumption DEF InLine, FolderAssumption
<1> DEFINE n == IF c < m THEN c ELSE m
<1>3. PICK s \in SUBSET all : Cardinality(s) = n /\ l = InOrder(s)
  BY <1>2 DEF Listed, kSubset, all
<1>4. InLine(s)
  BY <1>1, <1>3, FS_Subset DEF InLine
<1>5. l \in Seq(s) /\ Len(l) = n /\ n \in Nat /\ \A i \in 1 .. n - 1 : Earlier(l[i], l[i + 1])
  BY <1>3, <1>4, InOrderFacts
<1>6. l \in Seq(all)
  <2>1. Len(l) \in Nat /\ l \in [1 .. Len(l) -> s]
    BY <1>5
  <2>2. l \in [1 .. Len(l) -> all]
    BY ONLY <2>1, s \in SUBSET all
  <2> QED BY <2>1, <2>2
<1>7. n = Min({m, c})
  <2>1. n \in {m, c} /\ \A y \in {m, c} : n <= y
    BY <1>2
  <2>2. \A x \in {m, c} : (\A y \in {m, c} : x <= y) => x = n
    BY <1>2
  <2> QED BY <2>1, <2>2 DEF Min
<1> QED BY <1>2, <1>5, <1>6, <1>7 DEF all
-----------------------------------------------------------------------------
(* The inductive invariant. *)

\* The disk is a forest, and what the system needs is there.
TreeOk(t) == Forest(t) /\ SystemStays(t)

\* Every row is an entry of the directory shown.
RowsOk(l, p) ==
  /\ l \in Seq(ItemType)
  /\ \A i \in 1 .. Len(l) : l[i].path # << >> /\ Front(l[i].path) = p

MenuType == [open : BOOLEAN, sub : {"none", "open with", "new"}, target : Nat, for : Paths]
ClipType == [path : Paths, cut : BOOLEAN]

\* What was cut is not protected.
CutOk == clip.cut /\ clip.path # << >> => Last(clip.path) \notin System

FolderInv ==
  /\ TreeOk(tree)
  /\ path \in Paths /\ RowsOk(items, path)
  /\ sel \in Nat /\ first \in Nat
  /\ menu \in MenuType /\ MenuKeepsItsItem
  /\ clip \in ClipType /\ CutOk
  /\ ListingCurrent

\* A set of numbers that is not empty has a least one.
LEMMA MinFacts ==
  ASSUME NEW S \in SUBSET Nat, S # {}
  PROVE  Min(S) \in S /\ \A x \in S : Min(S) <= x
<1> DEFINE R == {p \in Nat \X Nat : p[1] < p[2]}
<1>1. IsWellFoundedOn(R, Nat)
  <2>1. R = OpToRel(<, Nat)
    BY DEF OpToRel
  <2> QED BY <2>1, NatLessThanWellFounded
<1>2. PICK x \in S : \A y \in S : ~ (<<y, x>> \in R)
  BY <1>1, WFMin
<1>3. x \in Nat /\ \A y \in S : y \in Nat /\ ~ (y < x)
  BY <1>2
<1>4. \E i \in S : \A j \in S : i <= j
  BY <1>3
<1> QED BY <1>4 DEF Min

LEMMA NotAtTop ==
  ASSUME NEW p \in Paths, p # << >>, Last(p) \notin System \/ Len(p) # 1
  PROVE  ~AtTop(p)
BY FrontFacts DEF AtTop

\* A name in the directory shown.
LEMMA InPath ==
  ASSUME path \in Paths, NEW n \in FileNames
  PROVE  In(n) \in Paths /\ In(n) # << >> /\ Front(In(n)) = path
BY InFacts DEF In

LEMMA UniqueIs ==
  /\ UniqueName \in FileNames
  /\ \/ In(UniqueName) \notin {Item(i) : i \in 1 .. Count}
     \/ {In(NewNames[k]) : k \in DOMAIN NewNames} \subseteq {Item(i) : i \in 1 .. Count}
<1> DEFINE free == {k \in DOMAIN NewNames : In(NewNames[k]) \notin {Item(i) : i \in 1 .. Count}}
<1>1. NewNames \in Seq(FileNames) /\ NewNames # << >>
  BY FolderAssumption DEF FolderAssumption
<1>2. Last(NewNames) \in FileNames
  BY <1>1 DEF Last
<1>3. DOMAIN NewNames \subseteq Nat /\ \A k \in DOMAIN NewNames : NewNames[k] \in FileNames
  BY <1>1
<1>4. CASE free = {}
  BY <1>2, <1>4 DEF UniqueName
<1>5. CASE free # {}
  <2>1. Min(free) \in free
    BY <1>3, <1>5, MinFacts
  <2>2. UniqueName = NewNames[Min(free)]
    BY <1>5 DEF UniqueName
  <2> HIDE DEF free
  <2>3. \A k \in free : k \in DOMAIN NewNames /\ In(NewNames[k]) \notin {Item(i) : i \in 1 .. Count}
    BY DEF free
  <2> QED BY <1>3, <2>1, <2>2, <2>3
<1> QED BY <1>4, <1>5

\* The paths of two names.
LEMMA TwoNames ==
  ASSUME NEW a \in FileNames, NEW b \in FileNames
  PROVE  <<a, b>> \in Paths /\ <<a, b>> # << >> /\ Len(<<a, b>>) = 2
BY DEF Paths

LEMMA OneName ==
  ASSUME NEW a \in FileNames
  PROVE  <<a>> \in Paths /\ Len(<<a>>) = 1 /\ <<a>> # << >>
BY DEF Paths

\* What a row shows.
LEMMA ItemFacts ==
  ASSUME FolderInv, NEW i \in 1 .. Count
  PROVE  /\ Item(i) \in Paths /\ Item(i) # << >> /\ Front(Item(i)) = path
         /\ NameOf(i) \in FileNames /\ Len(Item(i)) = Len(path) + 1 /\ Len(path) \in Nat
         /\ items[i].dir \in BOOLEAN
         /\ (IsSystem(i) <=> Last(Item(i)) \in System)
<1>1. items[i] \in ItemType /\ items[i].path # << >> /\ Front(items[i].path) = path
  BY DEF FolderInv, RowsOk, Count
<1>2. items[i].path \in Paths /\ items[i].dir \in BOOLEAN
  BY <1>1 DEF ItemType
<1>3. Len(path) = Len(items[i].path) - 1 /\ Len(items[i].path) \in Nat \ {0}
      /\ Last(items[i].path) \in FileNames
  BY <1>1, <1>2, FrontFacts
<1> QED BY <1>1, <1>2, <1>3 DEF Item, NameOf, IsSystem

\* Two paths in one directory, or the same length.
LEMMA SameLength ==
  ASSUME NEW p \in Paths, NEW q \in Paths, Len(p) = Len(q), IsPrefix(p, q)
  PROVE  p = q
<1>1. Len(p) \in Nat
  BY DEF Paths
<1> QED BY <1>1, PrefixWhole
-----------------------------------------------------------------------------
(* What the operations do to the disk. *)

\* Where the bytes of a file are, or the exception it falls under.
Accounted(p) ==
  \/ \E q \in DOMAIN tree' : tree'[q] = tree[p]
  \/ Len(p) = 2 /\ p[1] = RECYCLE /\ p \notin DOMAIN tree'
  \/ clip.path # << >> /\ p = In(Last(clip.path)) /\ ~clip.cut
  \/ clip.cut /\ IsPrefix(clip.path, path) /\ IsPrefix(clip.path, p)
  \/ Front(p) = path /\ p \notin {Item(i) : i \in 1 .. Count}
  \/ {In(NewNames[k]) : k \in DOMAIN NewNames} \subseteq {Item(i) : i \in 1 .. Count}
  \/ p \in Alien

\* The disk stays a forest, keeps what the system needs, and loses nothing.
Careful == TreeOk(tree') /\ \A p \in Present : Accounted(p)

\* A disk on which everything stays.
LEMMA AllStays ==
  ASSUME FolderInv, Forest(tree'), \A p \in Present : p \in DOMAIN tree' /\ tree'[p] = tree[p]
  PROVE  Careful
BY DEF Careful, Accounted, FolderInv, TreeOk, SystemStays, Present

LEMMA NothingDone == ASSUME FolderInv, UNCHANGED tree PROVE Careful
BY AllStays DEF FolderInv, TreeOk, Present

\* A rename that moves nothing into itself.
LEMMA RenameCareful ==
  ASSUME FolderInv, NEW old \in Paths, old # << >>, ~AtTop(old), NEW new \in Paths, new # << >>,
         tree' = Renamed(old, new), IsPrefix(old, new) => old = new
  PROVE  Careful
<1>1. TreeOk(tree')
  BY RenamedForest, RenamedStays DEF FolderInv, TreeOk
<1>2. ASSUME NEW p \in Present PROVE Accounted(p)
  BY RenamedKeeps DEF FolderInv, TreeOk, Accounted
<1> QED BY <1>1, <1>2 DEF Careful

LEMMA RecycleCareful ==
  ASSUME FolderInv, NEW i \in 1 .. Count, ~IsSystem(i), tree' = Renamed(Item(i), <<RECYCLE, NameOf(i)>>)
  PROVE  Careful
<1>1. /\ Item(i) \in Paths /\ Item(i) # << >> /\ NameOf(i) \in FileNames
      /\ Last(Item(i)) \notin System /\ Len(Item(i)) \in Nat \ {0}
  BY ItemFacts, FrontFacts
<1>2. RECYCLE \in FileNames /\ RECYCLE \in System
  BY FolderAssumption DEF FolderAssumption
<1> DEFINE new == <<RECYCLE, NameOf(i)>>
<1>3. new \in Paths /\ new # << >> /\ Len(new) = 2 /\ new[1] = RECYCLE
  BY <1>1, <1>2, TwoNames
<1> HIDE DEF new
<1>4. ASSUME IsPrefix(Item(i), new), Item(i) # new PROVE FALSE
  <2>1. Len(Item(i)) <= 2 /\ Len(Item(i)) # 2
    BY <1>1, <1>3, <1>4, PrefixIs, SameLength
  <2>2. Len(Item(i)) = 1
    <3>1. PICK n \in Nat \ {0} : n = Len(Item(i))
      BY <1>1
    <3> QED BY ONLY <2>1, <3>1
  <2>3. Item(i)[1] = RECYCLE
    BY <1>1, <1>3, <1>4, <2>2, PrefixIs
  <2> QED BY <1>1, <1>2, <2>2, <2>3, FrontFacts
<1>5. ~AtTop(Item(i))
  BY <1>1, NotAtTop
<1>6. tree' = Renamed(Item(i), new)
  BY DEF new
<1> QED BY <1>1, <1>3, <1>4, <1>5, <1>6, RenameCareful

\* What the bin shows.
LEMMA InBin ==
  ASSUME FolderInv, InRecycle, NEW i \in 1 .. Count
  PROVE  /\ Item(i) \in Paths /\ Item(i) # << >> /\ NameOf(i) \in FileNames /\ Len(Item(i)) = 2
         /\ Item(i)[1] = RECYCLE /\ ~AtTop(Item(i))
<1>1. Item(i) \in Paths /\ Item(i) # << >> /\ Front(Item(i)) = path /\ NameOf(i) \in FileNames
      /\ Len(Item(i)) = Len(path) + 1
  BY ItemFacts
<1>2. path = <<RECYCLE>> /\ Len(path) = 1 /\ path[1] = RECYCLE
  BY DEF InRecycle
<1>3. PICK p \in Paths : p = Item(i) /\ p # << >> /\ Front(p) = path /\ Len(p) = 2
  <2>1. Len(Item(i)) = 2
    BY ONLY <1>1, <1>2
  <2> QED BY <1>1, <2>1
<1>4. p[1] = RECYCLE
  <2>1. \A k \in 1 .. 2 - 1 : path[k] = p[k]
    BY <1>3, FrontFacts
  <2> QED BY ONLY <1>2, <2>1
<1>5. ~AtTop(p)
  BY <1>3, NotAtTop
<1> QED BY ONLY <1>1, <1>3, <1>4, <1>5

LEMMA RestoreCareful ==
  ASSUME FolderInv, InRecycle, NEW i \in 1 .. Count, tree' = Renamed(Item(i), <<DESKTOP, NameOf(i)>>)
  PROVE  Careful
<1>1. /\ Item(i) \in Paths /\ Item(i) # << >> /\ NameOf(i) \in FileNames /\ Len(Item(i)) = 2
      /\ ~AtTop(Item(i))
  BY InBin
<1>2. DESKTOP \in FileNames
  BY FolderAssumption DEF FolderAssumption
<1>3. PICK new \in Paths : new = <<DESKTOP, NameOf(i)>> /\ new # << >> /\ Len(new) = 2
  BY <1>1, <1>2, TwoNames
<1>4. IsPrefix(Item(i), new) => Item(i) = new
  BY <1>1, <1>3, SameLength
<1> QED BY <1>1, <1>3, <1>4, RenameCareful

\* What is deleted for good was in the bin.
LEMMA UnlinkCareful ==
  ASSUME FolderInv, NEW gone \in SUBSET Paths,
         \A p \in gone : ~AtTop(p) /\ ((Len(p) = 2 /\ p[1] = RECYCLE) \/ p \in Alien),
         tree' = Unlinked(gone)
  PROVE  Careful
<1>1. Forest(tree) /\ SystemStays(tree)
  BY DEF FolderInv, TreeOk
<1>2. /\ Forest(tree') /\ Present \ gone \subseteq DOMAIN tree'
      /\ \A q \in DOMAIN tree' : tree'[q] = tree[q]
  BY <1>1, UnlinkedFacts
<1>3. SystemStays(tree')
  BY <1>1, <1>2 DEF SystemStays, Present
<1>4. ASSUME NEW p \in Present PROVE Accounted(p)
  <2>1. CASE p \in DOMAIN tree'
    BY <1>2, <2>1 DEF Accounted
  <2>2. CASE p \notin DOMAIN tree'
    BY <1>2, <2>2 DEF Accounted
  <2> QED BY <2>1, <2>2
<1> QED BY <1>2, <1>3, <1>4 DEF Careful, TreeOk

LEMMA DeleteCareful ==
  ASSUME FolderInv, InRecycle, NEW i \in 1 .. Count, tree' = Unlinked({Item(i)})
  PROVE  Careful
BY InBin, UnlinkCareful

LEMMA EmptyCareful ==
  ASSUME FolderInv, tree' = Unlinked({p \in Children(tree, <<RECYCLE>>) : Last(p) \notin System})
  PROVE  Careful
<1> DEFINE gone == {p \in Children(tree, <<RECYCLE>>) : Last(p) \notin System}
<1>1. \A p \in gone : p \in Paths /\ p # << >> /\ Front(p) = <<RECYCLE>>
  BY DEF Children, FolderInv, TreeOk, Forest
<1>2. ASSUME NEW p \in gone PROVE Len(p) = 2 /\ p[1] = RECYCLE /\ ~AtTop(p)
  <2>1. Len(p) - 1 = 1 /\ Len(p) \in Nat
    BY <1>1, FrontFacts
  <2>2. Len(p) = 2
    BY <2>1
  <2>3. p[1] = RECYCLE
    <3>1. PICK q : q = <<RECYCLE>> /\ q[1] = RECYCLE
      OBVIOUS
    <3>2. p \in Paths /\ p # << >> /\ Front(p) = q
      BY <1>1, <3>1
    <3>3. \A k \in 1 .. Len(p) - 1 : Front(p)[k] = p[k]
      BY ONLY <3>2, FrontFacts
    <3> QED BY ONLY <2>2, <3>1, <3>2, <3>3
  <2> QED BY <1>1, <2>2, <2>3, NotAtTop
<1> HIDE DEF gone
<1>3. gone \in SUBSET Paths
  BY <1>1
<1>4. tree' = Unlinked(gone)
  BY DEF gone
<1> QED BY <1>2, <1>3, <1>4, UnlinkCareful

LEMMA PasteCareful ==
  ASSUME FolderInv, clip.path # << >>,
         tree' = IF clip.cut THEN Renamed(clip.path, In(Last(clip.path)))
                 ELSE Copied(clip.path, In(Last(clip.path)))
  PROVE  Careful
<1>1. clip.path \in Paths /\ path \in Paths /\ clip.cut \in BOOLEAN
  BY DEF FolderInv, ClipType
<1>2. PICK to \in Paths : to = In(Last(clip.path)) /\ to # << >> /\ Front(to) = path
  BY <1>1, FrontFacts, InPath
<1>3. Forest(tree) /\ SystemStays(tree)
  BY DEF FolderInv, TreeOk
<1>4. CASE clip.cut
  <2>1. ~AtTop(clip.path)
    BY <1>1, <1>4, NotAtTop DEF FolderInv, CutOk
  <2>2. tree' = Renamed(clip.path, to)
    BY <1>2, <1>4
  <2>3. TreeOk(tree')
    BY <1>1, <1>2, <1>3, <2>1, <2>2, RenamedForest, RenamedStays DEF TreeOk
  <2>4. ASSUME NEW p \in Present PROVE Accounted(p)
    <3>1. CASE \E q \in DOMAIN tree' : tree'[q] = tree[p]
      BY <3>1 DEF Accounted
    <3>2. CASE IsPrefix(clip.path, to) /\ clip.path # to /\ IsPrefix(clip.path, p)
      <4>1. IsPrefix(clip.path, path)
        BY <1>1, <1>2, <3>2, PrefixOfFront
      <4> QED BY <1>4, <3>2, <4>1 DEF Accounted
    <3> QED BY <1>1, <1>2, <1>3, <2>2, <3>1, <3>2, RenamedKeeps
  <2> QED BY <2>3, <2>4 DEF Careful
<1>5. CASE ~clip.cut
  <2>1. tree' = Copied(clip.path, to)
    BY <1>2, <1>5
  <2>2. Forest(tree') /\ Present \subseteq DOMAIN tree' /\ \A q \in Present : q # to => tree'[q] = tree[q]
    BY <1>2, <1>3, <2>1, CopiedFacts
  <2>3. SystemStays(tree')
    BY <1>3, <2>2 DEF SystemStays, Present
  <2>4. \A p \in Present : Accounted(p)
    BY <1>2, <1>5, <2>2 DEF Accounted
  <2> QED BY <2>2, <2>3, <2>4 DEF Careful, TreeOk
<1> QED BY <1>1, <1>4, <1>5

LEMMA DocumentCareful == ASSUME FolderInv, tree' = Truncated(In(UniqueName)) PROVE Careful
<1>1. PICK to \in Paths : to = In(UniqueName) /\ to # << >> /\ Front(to) = path
  BY UniqueIs, InPath DEF FolderInv
<1>2. Forest(tree) /\ SystemStays(tree)
  BY DEF FolderInv, TreeOk
<1>3. Forest(tree') /\ Present \subseteq DOMAIN tree' /\ \A q \in Present : q # to => tree'[q] = tree[q]
  BY <1>1, <1>2, TruncatedFacts
<1>4. SystemStays(tree')
  BY <1>2, <1>3 DEF SystemStays, Present
<1>5. ASSUME NEW p \in Present PROVE Accounted(p)
  <2>1. CASE p # to
    BY <1>3, <2>1 DEF Accounted
  <2>2. CASE p = to
    BY <1>1, <2>2, UniqueIs DEF Accounted
  <2> QED BY <2>1, <2>2
<1> QED BY <1>3, <1>4, <1>5 DEF Careful, TreeOk

LEMMA CreateCareful ==
  ASSUME FolderInv, NEW name \in FileNames, NEW b, tree' = Created(In(name), b)
  PROVE  Careful
<1>1. Forest(tree) /\ path \in Paths
  BY DEF FolderInv, TreeOk
<1>2. In(name) \in Paths /\ In(name) # << >>
  BY <1>1, InPath
<1>3. Forest(tree') /\ Present \subseteq DOMAIN tree' /\ \A q \in Present : tree'[q] = tree[q]
  BY <1>1, <1>2, CreatedFacts
<1> QED BY <1>3, AllStays

LEMMA NewNameCareful ==
  ASSUME FolderInv, NEW i \in 1 .. Count, ~IsSystem(i), NEW name \in FileNames,
         tree' = Renamed(Item(i), In(name))
  PROVE  Careful
<1>1. /\ Item(i) \in Paths /\ Item(i) # << >> /\ Last(Item(i)) \notin System
      /\ Len(Item(i)) = Len(path) + 1 /\ path \in Paths
  BY ItemFacts DEF FolderInv
<1>2. In(name) \in Paths /\ In(name) # << >> /\ Len(In(name)) = Len(path) + 1
  BY <1>1, InFacts DEF In
<1>3. IsPrefix(Item(i), In(name)) => Item(i) = In(name)
  BY <1>1, <1>2, SameLength
<1>4. ~AtTop(Item(i))
  BY <1>1, NotAtTop
<1> QED BY <1>1, <1>2, <1>3, <1>4, RenameCareful

LEMMA OutsideCareful == ASSUME FolderInv, NEW p \in Alien, Outside(p) PROVE Careful
<1>1. p \in Paths /\ p # << >> /\ (Len(p) = 1 => p[1] \notin System)
  BY FolderAssumption DEF FolderAssumption
<1>2. ~AtTop(p)
  BY <1>1 DEF AtTop
<1>3. CASE p \in Present
  <2>1. tree' = Unlinked({p})
    BY <1>3 DEF Outside
  <2> QED BY <1>1, <1>2, <2>1, UnlinkCareful
<1>4. CASE p \notin Present
  <2>1. tree' = With(p, <<"x">>) /\ Front(p) \in Present
    BY <1>4 DEF Outside, IsDir
  <2>2. Forest(tree') /\ Present \subseteq DOMAIN tree' /\ \A q \in Present : q # p => tree'[q] = tree[q]
    BY <1>1, <2>1, WithFacts DEF FolderInv, TreeOk
  <2> QED BY <1>4, <2>2, AllStays
<1> QED BY <1>3, <1>4
-----------------------------------------------------------------------------
(* What a step does to the listing, the selection, the clipboard and the menu. *)

Effect ==
  /\ Careful
  /\ \/ UNCHANGED <<path, items, current>> /\ UNCHANGED tree
     \/ \E p \in Paths : Load(p)
     \/ current' = FALSE /\ UNCHANGED <<path, items>>

\* The selection follows the keys.
Follow == (sel' # sel /\ sel \in Visible /\ UNCHANGED <<path, items>>) => sel' \in Visible'

Shows == Effect /\ sel' \in Nat /\ first' \in Nat /\ Follow
Clips == clip' \in ClipType /\ CutOk'
Menus ==
  /\ menu' \in MenuType
  /\ \/ menu'.for = << >>
     \/ UNCHANGED items /\ menu'.for = menu.for /\ menu'.target = menu.target
     \/ UNCHANGED items /\ menu'.target \in 1 .. Count /\ menu'.for = Item(menu'.target)

LEMMA LoadedRows ==
  ASSUME NEW p \in Paths, Load(p), TreeOk(tree')
  PROVE  path' = p /\ RowsOk(items', p) /\ ListingCurrent'
<1>1. /\ path' = p /\ items' \in Listed(tree', p) /\ Forest(tree')
  BY DEF Load, TreeOk
<1>2. /\ items' \in Seq(Entries(tree', p)) /\ Len(items') \in Nat
      /\ Len(items') = Min({MAX_ITEMS, Cardinality(Entries(tree', p))})
      /\ \A i \in 1 .. Len(items') - 1 : Earlier(items'[i], items'[i + 1])
  BY <1>1, ListedFacts
<1>3. \A e \in Entries(tree', p) : e \in ItemType /\ e.path # << >> /\ Front(e.path) = p
  BY <1>1, EntriesFacts
<1>4. \A i \in 1 .. Len(items') : items'[i] \in Entries(tree', p)
  BY <1>2
<1>5. RowsOk(items', p)
  <2>1. items' \in Seq(ItemType)
    <3>1. PICK n \in Nat, l \in Seq(Entries(tree', p)) : l = items' /\ n = Len(l) /\ l \in [1 .. n -> Entries(tree', p)]
      BY <1>2
    <3>2. l \in [1 .. n -> ItemType]
      BY ONLY <1>3, <3>1
    <3>3. l \in Seq(ItemType)
      BY ONLY <3>2, n \in Nat
    <3> QED BY <3>1, <3>3
  <2> QED BY <1>3, <1>4, <2>1 DEF RowsOk
<1>6. ListingCurrent'
  BY <1>1, <1>2, <1>4 DEF ListingCurrent, Count
<1> QED BY <1>1, <1>5, <1>6

LEMMA EffectKeeps ==
  ASSUME FolderInv, Shows, Clips, Menus
  PROVE  FolderInv'
<1>1. TreeOk(tree') /\ sel' \in Nat /\ first' \in Nat /\ clip' \in ClipType /\ CutOk' /\ menu' \in MenuType
  BY DEF Shows, Effect, Careful, Clips, Menus
<1>2. path' \in Paths /\ RowsOk(items', path') /\ ListingCurrent'
  <2>1. CASE \E p \in Paths : Load(p)
    BY <1>1, <2>1, LoadedRows
  <2>2. CASE UNCHANGED <<path, items, current>> /\ UNCHANGED tree
    BY <2>2 DEF FolderInv, ListingCurrent, Count
  <2>3. CASE current' = FALSE /\ UNCHANGED <<path, items>>
    BY <2>3 DEF FolderInv, ListingCurrent
  <2> QED BY <2>1, <2>2, <2>3 DEF Shows, Effect
<1>3. MenuKeepsItsItem'
  BY DEF Menus, FolderInv, MenuKeepsItsItem, OnItem, Item, Count
<1> QED BY <1>1, <1>2, <1>3 DEF FolderInv

LEMMA Loaded ==
  ASSUME FolderInv, Careful, NEW p \in Paths, Load(p)
  PROVE  Shows
<1>1. Effect /\ sel' = 1 /\ first' = 0
  BY DEF Effect, Load
<1>2. Follow
  <2> SUFFICES ASSUME sel \in Visible, UNCHANGED items PROVE 1 \in Visible'
    BY <1>1 DEF Follow
  <2>1. PICK n \in Nat, f \in Nat, s \in Nat, v \in Nat \ {0} :
           n = Count /\ f = first /\ s = sel /\ v = View
    BY FolderAssumption DEF FolderInv, RowsOk, Count, FolderAssumption
  <2>2. s <= n /\ s \in f + 1 .. f + v
    BY <2>1 DEF Visible
  <2>3. 1 <= n /\ 1 \in 0 + 1 .. 0 + v
    BY <2>1, <2>2
  <2>4. n = Count'
    BY <2>1 DEF Count
  <2> QED BY <1>1, <2>1, <2>3, <2>4 DEF Visible
<1> QED BY <1>1, <1>2 DEF Shows

LEMMA Stays == ASSUME FolderInv, UNCHANGED <<tree, shown>> PROVE Shows
<1>1. UNCHANGED tree /\ UNCHANGED <<path, items, current>> /\ sel' = sel /\ first' = first
  BY DEF shown
<1> QED BY <1>1, NothingDone DEF Shows, Effect, Follow, FolderInv

LEMMA ClipStays == ASSUME FolderInv, UNCHANGED clip PROVE Clips
BY DEF FolderInv, Clips, CutOk

\* The menu closes, or a dialog opens over it.
LEMMA PutFacts ==
  ASSUME FolderInv, Put, dialog' = "none" \/ UNCHANGED items
  PROVE  Menus
<1>1. Closed \in MenuType /\ Closed.for = << >>
  BY DEF Closed, MenuType, Paths
<1>2. CASE dialog' = "none"
  BY <1>1, <1>2 DEF Put, Menus
<1>3. CASE dialog' # "none" /\ UNCHANGED items
  <2>1. menu' = [menu EXCEPT !.open = FALSE, !.sub = "none"] /\ menu \in MenuType
    BY <1>3 DEF Put, FolderInv
  <2>2. menu' \in MenuType /\ menu'.for = menu.for /\ menu'.target = menu.target
    BY <2>1 DEF MenuType
  <2> QED BY <1>3, <2>2 DEF Menus
<1> QED BY <1>2, <1>3
-----------------------------------------------------------------------------
(* The operations. *)

LEMMA OpenItemShows == ASSUME FolderInv, NEW i, OpenItem(i) PROVE Shows
<1>1. CASE i \in 1 .. Count /\ items[i].dir
  BY <1>1, ItemFacts, NothingDone, Loaded DEF OpenItem
<1>2. CASE ~(i \in 1 .. Count /\ items[i].dir)
  BY <1>2, Stays DEF OpenItem
<1> QED BY <1>1, <1>2

LEMMA NavigateUpShows == ASSUME FolderInv, NavigateUp PROVE Shows
<1>1. CASE path = << >>
  BY <1>1, Stays DEF NavigateUp
<1>2. CASE path # << >>
  <2>1. Front(path) \in Paths
    BY <1>2, FrontFacts DEF FolderInv
  <2> QED BY <1>2, <2>1, NothingDone, Loaded DEF NavigateUp
<1> QED BY <1>1, <1>2

LEMMA RefreshShows == ASSUME FolderInv, Refresh PROVE Shows
BY NothingDone, Loaded DEF Refresh, FolderInv

LEMMA ReloadShows == ASSUME FolderInv, Careful, Load(path) PROVE Shows
BY Loaded DEF FolderInv

LEMMA PasteShows == ASSUME FolderInv, Paste PROVE Shows /\ Clips
<1>1. CASE clip.path = << >>
  BY <1>1, Stays, ClipStays DEF Paste
<1>2. CASE clip.path # << >>
  <2>1. Shows
    BY <1>2, PasteCareful, ReloadShows DEF Paste
  <2>2. Clips
    <3>1. CASE clip.cut
      <4>1. clip' = [clip EXCEPT !.path = << >>] /\ clip \in ClipType /\ << >> \in Paths
        BY <1>2, <3>1 DEF Paste, FolderInv, Paths
      <4>2. clip' \in ClipType /\ clip'.path = << >>
        BY <4>1 DEF ClipType
      <4> QED BY <4>2 DEF Clips, CutOk
    <3>2. CASE ~clip.cut
      BY <1>2, <3>2, ClipStays DEF Paste
    <3> QED BY <3>1, <3>2
  <2> QED BY <2>1, <2>2
<1> QED BY <1>1, <1>2

LEMMA ItemMenuStep ==
  ASSUME FolderInv, NEW what \in ItemChoices, ItemMenu(what)
  PROVE  Shows /\ Clips /\ Menus
<1> DEFINE i == menu.target
<1>1. Put /\ dialog = "none" /\ i \in 1 .. Count
  BY DEF ItemMenu, Pick, OnItem, Quiet
<1> HIDE DEF i
<1>2. \/ Shows /\ Clips /\ dialog' = "none"
      \/ Shows /\ Clips /\ UNCHANGED items
  <2>1. CASE InRecycle
    <3>1. CASE what = "restore"
      BY <1>1, <2>1, <3>1, RestoreCareful, ReloadShows, ClipStays DEF ItemMenu, Restore, i
    <3>2. CASE what = "delete"
      BY <1>1, <2>1, <3>2, DeleteCareful, ReloadShows, Stays, ClipStays DEF ItemMenu, DeleteForever, i
    <3>3. CASE what = "properties"
      BY <1>1, <2>1, <3>3, Stays, ClipStays DEF ItemMenu, shown
    <3> QED BY <2>1, <3>1, <3>2, <3>3 DEF ItemChoices
  <2>2. CASE ~InRecycle
    <3>1. CASE what = "open"
      BY <1>1, <2>2, <3>1, OpenItemShows, ClipStays DEF ItemMenu, i
    <3>2. CASE what = "cut"
      <4>1. UNCHANGED <<tree, shown>> /\ clip' = IF ~IsSystem(i) THEN [path |-> Item(i), cut |-> TRUE] ELSE clip
        BY <2>2, <3>2 DEF ItemMenu, i
      <4>2. CASE IsSystem(i)
        BY <4>1, <4>2, Stays, ClipStays DEF shown
      <4>3. CASE ~IsSystem(i)
        <5>1. Item(i) \in Paths /\ Last(Item(i)) \notin System
          BY <1>1, <4>3, ItemFacts
        <5>2. Clips
          BY <4>1, <4>3, <5>1 DEF Clips, ClipType, CutOk
        <5> QED BY <4>1, <5>2, Stays DEF shown
      <4> QED BY <4>2, <4>3
    <3>3. CASE what = "copy"
      <4>1. UNCHANGED <<tree, shown>> /\ clip' = [path |-> Item(i), cut |-> FALSE]
        BY <2>2, <3>3 DEF ItemMenu, i
      <4>2. Item(i) \in Paths
        BY <1>1, ItemFacts
      <4>3. Clips
        BY <4>1, <4>2 DEF Clips, ClipType, CutOk
      <4> QED BY <4>1, <4>3, Stays DEF shown
    <3>4. CASE what = "recycle"
      BY <1>1, <2>2, <3>4, RecycleCareful, ReloadShows, Stays, ClipStays DEF ItemMenu, ToRecycle, i
    <3>5. CASE what = "rename"
      BY <1>1, <2>2, <3>5, Stays, ClipStays DEF ItemMenu, shown
    <3>6. CASE what = "properties"
      BY <1>1, <2>2, <3>6, Stays, ClipStays DEF ItemMenu, shown
    <3> QED BY <2>2, <3>1, <3>2, <3>3, <3>4, <3>5, <3>6 DEF ItemChoices
  <2> QED BY <2>1, <2>2
<1> QED BY <1>1, <1>2, PutFacts

LEMMA BackgroundMenuStep ==
  ASSUME FolderInv, NEW what \in {"empty", "paste", "refresh", "properties"}, BackgroundMenu(what)
  PROVE  Shows /\ Clips /\ Menus
<1>1. Put /\ dialog = "none"
  BY DEF BackgroundMenu, Pick, Quiet
<1>2. CASE what = "empty"
  <2>1. Shows
    BY <1>2, EmptyCareful, ReloadShows, Stays DEF BackgroundMenu, EmptyRecycle
  <2> QED BY <1>1, <1>2, <2>1, ClipStays, PutFacts DEF BackgroundMenu
<1>3. CASE what = "refresh"
  BY <1>1, <1>3, RefreshShows, ClipStays, PutFacts DEF BackgroundMenu
<1>4. CASE what = "paste"
  BY <1>1, <1>4, PasteShows, PutFacts DEF BackgroundMenu
<1>5. CASE what = "properties"
  BY <1>1, <1>5, Stays, ClipStays, PutFacts DEF BackgroundMenu, shown
<1> QED BY <1>2, <1>3, <1>4, <1>5

LEMMA NewStep ==
  ASSUME FolderInv, NEW what, New(what)
  PROVE  Shows /\ Clips /\ Menus
<1>1. Put /\ dialog = "none" /\ UNCHANGED clip
  BY DEF New, Pick, Quiet
<1>2. CASE what = "document"
  <2>1. Shows
    BY <1>2, DocumentCareful, ReloadShows DEF New, TextDocument
  <2> QED BY <1>1, <1>2, <2>1, ClipStays, PutFacts DEF New
<1>3. CASE what # "document"
  BY <1>1, <1>3, Stays, ClipStays, PutFacts DEF New, shown
<1> QED BY <1>2, <1>3

LEMMA ApplyStep ==
  ASSUME FolderInv, NEW name \in Typed, Apply(name)
  PROVE  Shows /\ Clips /\ Menus
<1>1. Put /\ dialog' = "none" /\ UNCHANGED clip /\ Load(path) /\ name \in FileNames
  BY FolderAssumption DEF Apply, FolderAssumption
<1>2. Careful
  <2>1. CASE dialog # "file" /\ OnItem /\ IsSystem(menu.target)
    BY <2>1, NothingDone DEF Apply
  <2>2. CASE dialog # "file" /\ OnItem /\ ~IsSystem(menu.target)
    BY <1>1, <2>2, NewNameCareful DEF Apply, OnItem
  <2>3. CASE ~(dialog # "file" /\ OnItem)
    <3>1. CASE dialog = "file"
      BY <1>1, <3>1, CreateCareful DEF Apply
    <3>2. CASE dialog # "file"
      <4>1. tree' = Created(In(name), Dir) \/ UNCHANGED tree
        BY <2>3, <3>2 DEF Apply
      <4> QED BY <1>1, <4>1, CreateCareful, NothingDone
    <3> QED BY <3>1, <3>2
  <2> QED BY <2>1, <2>2, <2>3
<1> QED BY <1>1, <1>2, ReloadShows, ClipStays, PutFacts

LEMMA DismissStep == ASSUME FolderInv, Dismiss PROVE Shows /\ Clips /\ Menus
<1>1. Put /\ dialog' = "none" /\ UNCHANGED clip /\ UNCHANGED <<tree, shown>>
  BY DEF Dismiss
<1> QED BY <1>1, Stays, ClipStays, PutFacts

LEMMA SubmenuStep == ASSUME FolderInv, Submenu PROVE Shows /\ Clips /\ Menus
<1>1. UNCHANGED <<tree, shown>> /\ UNCHANGED clip /\ UNCHANGED items
  BY DEF Submenu, shown
<1>2. Menus
  <2>1. PICK s \in {"none", "open with", "new"} : menu' = [menu EXCEPT !.sub = s]
    BY DEF Submenu
  <2>2. menu \in MenuType
    BY DEF FolderInv
  <2>3. menu' \in MenuType /\ menu'.for = menu.for /\ menu'.target = menu.target
    BY <2>1, <2>2 DEF MenuType
  <2> QED BY <1>1, <2>3 DEF Menus
<1> QED BY <1>1, <1>2, Stays, ClipStays

LEMMA OpenWithStep == ASSUME FolderInv, OpenWith PROVE Shows /\ Clips /\ Menus
<1>1. Put /\ UNCHANGED <<tree, shown>> /\ UNCHANGED clip /\ UNCHANGED items
  BY DEF OpenWith, shown
<1> QED BY <1>1, Stays, ClipStays, PutFacts
-----------------------------------------------------------------------------
LEMMA ClickedMenus ==
  ASSUME FolderInv, Clicked
  PROVE  Clips /\ Menus
<1>1. dialog' = "none" /\ UNCHANGED clip /\ Put
  BY DEF Clicked, Quiet
<1> QED BY <1>1, ClipStays, PutFacts

LEMMA KeyMenus ==
  ASSUME FolderInv, Key
  PROVE  Clips /\ Menus
<1>1. menu' = [menu EXCEPT !.for = << >>] /\ menu \in MenuType /\ << >> \in Paths /\ UNCHANGED clip
  BY DEF Key, FolderInv, Paths
<1>2. menu' \in MenuType /\ menu'.for = << >>
  BY <1>1 DEF MenuType
<1> QED BY <1>1, <1>2, ClipStays DEF Menus

\* The selection moves within the rows in view, or not at all.
LEMMA MovedShows ==
  ASSUME FolderInv, UNCHANGED <<tree, path, items, current>>, sel' \in Nat, first' \in Nat, Follow
  PROVE  Shows
BY NothingDone DEF Shows, Effect

LEMMA RightClickStep ==
  ASSUME FolderInv, NEW i \in 0 .. MAX_ITEMS, RightClick(i)
  PROVE  Shows /\ Clips /\ Menus
<1>1. /\ UNCHANGED <<tree, path, items, current>> /\ UNCHANGED <<first, clip>>
      /\ sel' = (IF i > 0 THEN i ELSE sel)
      /\ menu' = [Closed EXCEPT !.open = TRUE, !.target = i, !.for = IF i > 0 THEN Item(i) ELSE << >>]
      /\ i \in Visible \cup {0}
  BY DEF RightClick
<1>2. i \in Nat /\ sel' \in Nat /\ first' \in Nat
  BY <1>1, FolderAssumption DEF FolderInv, FolderAssumption
<1>3. i > 0 => i \in 1 .. Count /\ i \in Visible
  BY <1>1, <1>2 DEF Visible, FolderInv
<1>4. Follow
  BY <1>1, <1>2, <1>3 DEF Follow, Visible, Count
<1>5. Menus
  <2>1. i > 0 => Item(i) \in Paths
    BY <1>3, ItemFacts
  <2>2. (IF i > 0 THEN Item(i) ELSE << >>) \in Paths
    BY <2>1 DEF Paths
  <2>3. PICK q \in Paths : q = IF i > 0 THEN Item(i) ELSE << >>
    BY <2>2
  <2>4. menu' = [open |-> TRUE, sub |-> "none", target |-> i, for |-> q]
    BY <1>1, <2>3 DEF Closed
  <2>5. menu' \in MenuType /\ menu'.for = q /\ menu'.target = i
    BY <1>2, <2>4 DEF MenuType
  <2> QED BY <1>1, <1>2, <1>3, <2>3, <2>5 DEF Menus
<1> QED BY <1>1, <1>2, <1>4, <1>5, MovedShows, ClipStays

LEMMA ClickRowStep ==
  ASSUME FolderInv, NEW i \in 0 .. MAX_ITEMS, ClickRow(i)
  PROVE  Shows /\ Clips /\ Menus
<1>1. Clicked /\ i \in Visible /\ i \in Nat
  BY FolderAssumption DEF ClickRow, FolderAssumption
<1>2. CASE sel = i
  BY <1>1, <1>2, OpenItemShows, ClickedMenus DEF ClickRow
<1>3. CASE sel # i
  <2>1. UNCHANGED <<tree, path, items, current>> /\ UNCHANGED first /\ sel' = i
    BY <1>3 DEF ClickRow
  <2>2. Follow /\ first' \in Nat
    BY <1>1, <2>1 DEF Follow, Visible, Count, FolderInv
  <2> QED BY <1>1, <2>1, <2>2, MovedShows, ClickedMenus
<1> QED BY <1>2, <1>3

LEMMA ClickStep ==
  ASSUME FolderInv,
         \/ ClickNothing \/ ClickUp \/ ClickRefresh
         \/ \E p \in {<<DESKTOP>>, <<RECYCLE>>, << >>} : ClickPlace(p)
  PROVE  Shows /\ Clips /\ Menus
<1>1. CASE ClickNothing
  BY <1>1, Stays, ClickedMenus DEF ClickNothing
<1>2. CASE ClickUp
  BY <1>2, NavigateUpShows, ClickedMenus DEF ClickUp
<1>3. CASE ClickRefresh
  BY <1>3, RefreshShows, ClickedMenus DEF ClickRefresh
<1>4. ASSUME NEW p \in {<<DESKTOP>>, <<RECYCLE>>, << >>}, ClickPlace(p) PROVE Shows /\ Clips /\ Menus
  <2>1. p \in Paths
    <3>1. DESKTOP \in FileNames /\ RECYCLE \in FileNames
      BY FolderAssumption DEF FolderAssumption
    <3>2. <<DESKTOP>> \in Paths /\ <<RECYCLE>> \in Paths
      BY <3>1, OneName
    <3>3. << >> \in Paths
      BY DEF Paths
    <3> QED BY <3>2, <3>3
  <2> QED BY <1>4, <2>1, NothingDone, Loaded, ClickedMenus DEF ClickPlace
<1> QED BY <1>1, <1>2, <1>3, <1>4

LEMMA WheelStep ==
  ASSUME FolderInv, NEW n \in 0 .. MAX_ITEMS, Wheel(n)
  PROVE  Shows /\ Clips /\ Menus
<1>1. /\ UNCHANGED <<tree, path, items, current>> /\ UNCHANGED <<sel, menu, clip>> /\ first' = n /\ n \in Nat
  BY FolderAssumption DEF Wheel, FolderAssumption
<1>2. Follow /\ sel' \in Nat /\ first' \in Nat
  BY <1>1 DEF Follow, FolderInv
<1>3. Menus
  BY <1>1 DEF Menus, FolderInv
<1> QED BY <1>1, <1>2, <1>3, MovedShows, ClipStays

LEMMA DeleteKeyStep == ASSUME FolderInv, DeleteKey PROVE Shows /\ Clips /\ Menus
<1>1. Key
  BY DEF DeleteKey
<1>2. CASE sel \in 1 .. Count /\ ~IsSystem(sel)
  <2>1. PICK i \in 1 .. Count : i = sel /\ ~IsSystem(i)
    BY <1>2
  <2>2. CASE InRecycle
    <3>1. tree' = Unlinked({Item(i)}) /\ Load(path)
      BY <1>2, <2>1, <2>2 DEF DeleteKey, DeleteForever
    <3>2. Careful
      BY <2>2, <3>1, DeleteCareful
    <3> QED BY <1>1, <3>1, <3>2, KeyMenus, ReloadShows
  <2>3. CASE ~InRecycle
    <3>1. tree' = Renamed(Item(i), <<RECYCLE, NameOf(i)>>) /\ Load(path)
      BY <1>2, <2>1, <2>3 DEF DeleteKey, ToRecycle
    <3>2. Careful
      BY <2>1, <3>1, RecycleCareful
    <3> QED BY <1>1, <3>1, <3>2, KeyMenus, ReloadShows
  <2> QED BY <2>2, <2>3
<1>3. CASE ~(sel \in 1 .. Count /\ ~IsSystem(sel))
  BY <1>1, <1>3, Stays, KeyMenus DEF DeleteKey
<1> QED BY <1>2, <1>3

\* The arrow keys keep a selection in view.
LEMMA ArrowStep == ASSUME FolderInv, UpKey \/ DownKey PROVE Shows /\ Clips /\ Menus
<1>1. UNCHANGED <<tree, path, items, current>> /\ Key
  BY DEF UpKey, DownKey
<1>2. PICK n \in Nat, f \in Nat, s \in Nat, v \in Nat \ {0} :
         n = Count /\ f = first /\ s = sel /\ v = View
  BY FolderAssumption DEF FolderInv, RowsOk, Count, FolderAssumption
<1>3. Count' = n
  BY <1>1, <1>2 DEF Count
<1>4. CASE UpKey
  <2>1. s > 1 /\ sel' = s - 1 /\ first' = IF s - 1 - 1 < f THEN s - 1 - 1 ELSE f
    BY <1>2, <1>4 DEF UpKey, FollowUp
  <2>2. sel' \in Nat /\ first' \in Nat
    BY <2>1
  <2>3. Follow
    BY <1>2, <1>3, <2>1 DEF Follow, Visible
  <2> QED BY <1>1, <2>2, <2>3, MovedShows, KeyMenus
<1>5. CASE DownKey
  <2>1. s < n /\ sel' = s + 1 /\ first' = IF s + 1 - 1 >= f + v THEN s + 1 - v ELSE f
    BY <1>2, <1>5 DEF DownKey, FollowDown
  <2>2. sel' \in Nat /\ first' \in Nat
    BY <2>1
  <2>3. Follow
    BY <1>2, <1>3, <2>1 DEF Follow, Visible
  <2> QED BY <1>1, <2>2, <2>3, MovedShows, KeyMenus
<1> QED BY <1>4, <1>5

LEMMA KeyStep ==
  ASSUME FolderInv, EnterKey \/ BackspaceKey \/ F5Key
  PROVE  Shows /\ Clips /\ Menus
<1>1. CASE EnterKey
  BY <1>1, OpenItemShows, KeyMenus DEF EnterKey
<1>2. CASE BackspaceKey
  BY <1>2, NavigateUpShows, KeyMenus DEF BackspaceKey
<1>3. CASE F5Key
  BY <1>3, RefreshShows, KeyMenus DEF F5Key
<1> QED BY <1>1, <1>2, <1>3

LEMMA OutsideStep ==
  ASSUME FolderInv, NEW p \in Alien, Outside(p)
  PROVE  Shows /\ Clips /\ Menus
<1>1. current' = FALSE /\ UNCHANGED <<path, items>> /\ UNCHANGED <<sel, first, menu, clip>>
  BY DEF Outside
<1>2. Shows
  BY <1>1, OutsideCareful DEF Shows, Effect, Follow, FolderInv
<1>3. Menus
  BY <1>1 DEF Menus, FolderInv
<1> QED BY <1>1, <1>2, <1>3, ClipStays

LEMMA FolderSteps == ASSUME FolderInv, Next PROVE Shows /\ Clips /\ Menus
<1>1. CASE Look
  <2>1. CASE \E i \in 0 .. MAX_ITEMS : RightClick(i) \/ ClickRow(i) \/ Wheel(i)
    BY <2>1, RightClickStep, ClickRowStep, WheelStep
  <2>2. CASE \/ ClickNothing \/ ClickUp \/ ClickRefresh
             \/ \E p \in {<<DESKTOP>>, <<RECYCLE>>, << >>} : ClickPlace(p)
    BY <2>2, ClickStep
  <2>3. CASE Submenu \/ OpenWith \/ Dismiss
    BY <2>3, SubmenuStep, OpenWithStep, DismissStep
  <2>4. CASE \E what \in {"open", "rename", "properties"} \cap ItemChoices : ItemMenu(what)
    BY <2>4, ItemMenuStep
  <2>5. CASE \E what \in {"refresh", "properties"} : BackgroundMenu(what)
    BY <2>5, BackgroundMenuStep
  <2>6. CASE \E what \in {"file", "folder"} : New(what)
    BY <2>6, NewStep
  <2>7. CASE EnterKey \/ BackspaceKey \/ F5Key \/ UpKey \/ DownKey
    BY <2>7, KeyStep, ArrowStep
  <2> QED BY <1>1, <2>1, <2>2, <2>3, <2>4, <2>5, <2>6, <2>7, Zenon DEF Look
<1>2. CASE Change
  <2>1. CASE \E what \in {"cut", "copy", "restore", "delete", "recycle"} \cap ItemChoices : ItemMenu(what)
    BY <2>1, ItemMenuStep
  <2>2. CASE \E what \in {"empty", "paste"} \cap BackgroundChoices : BackgroundMenu(what)
    BY <2>2, BackgroundMenuStep
  <2>3. CASE New("document")
    BY <2>3, NewStep
  <2>4. CASE \E name \in Typed : Apply(name)
    BY <2>4, ApplyStep
  <2>5. CASE DeleteKey
    BY <2>5, DeleteKeyStep
  <2>6. CASE \E p \in Alien : Outside(p)
    BY <2>6, OutsideStep
  <2> QED BY <1>2, <2>1, <2>2, <2>3, <2>4, <2>5, <2>6, Zenon DEF Change
<1> QED BY <1>1, <1>2 DEF Next

LEMMA FolderInit == ASSUME Init PROVE FolderInv
<1>1. << >> \in Paths
  BY DEF Paths
<1>2. TreeOk(tree)
  BY FolderAssumption DEF Init, TreeOk, Forest, SystemStays, FolderAssumption
<1>3. /\ items \in Seq(Entries(tree, << >>)) /\ Len(items) \in Nat
      /\ Len(items) = Min({MAX_ITEMS, Cardinality(Entries(tree, << >>))})
      /\ \A i \in 1 .. Len(items) - 1 : Earlier(items[i], items[i + 1])
  BY <1>1, <1>2, ListedFacts DEF Init, TreeOk
<1>4. \A e \in Entries(tree, << >>) : e \in ItemType /\ e.path # << >> /\ Front(e.path) = << >>
  BY <1>1, <1>2, EntriesFacts DEF TreeOk
<1>5. \A i \in 1 .. Len(items) : items[i] \in Entries(tree, << >>)
  BY <1>3
<1>6. items \in Seq(ItemType)
  <2>1. PICK n \in Nat, l \in Seq(Entries(tree, << >>)) :
           l = items /\ n = Len(l) /\ l \in [1 .. n -> Entries(tree, << >>)]
    BY <1>3
  <2>2. l \in [1 .. n -> ItemType]
    BY ONLY <1>4, <2>1
  <2>3. l \in Seq(ItemType)
    BY ONLY <2>2, n \in Nat
  <2> QED BY <2>1, <2>3
<1>7. RowsOk(items, path)
  BY <1>4, <1>5, <1>6 DEF RowsOk, Init
<1>8. ListingCurrent
  BY <1>3, <1>5 DEF ListingCurrent, Count, Init
<1>9. menu \in MenuType /\ MenuKeepsItsItem
  BY <1>1 DEF Init, Closed, MenuType, MenuKeepsItsItem
<1>10. clip \in ClipType /\ CutOk
  BY <1>1 DEF Init, ClipType, CutOk
<1> QED BY <1>1, <1>2, <1>7, <1>8, <1>9, <1>10 DEF FolderInv, Init

LEMMA FolderKept == FolderInv /\ [ShellNext]_shellVars => FolderInv'
<1> SUFFICES ASSUME FolderInv, [ShellNext]_shellVars PROVE FolderInv'
  OBVIOUS
<1>1. CASE FolderStep
  BY <1>1, FolderSteps, EffectKeeps DEF FolderStep
<1>2. CASE UNCHANGED folderVars
  <2>1. UNCHANGED <<tree, shown>> /\ UNCHANGED clip /\ UNCHANGED <<menu, items>>
    BY <1>2 DEF folderVars, shown
  <2>2. Menus
    BY <2>1 DEF Menus, FolderInv
  <2> QED BY <2>1, <2>2, Stays, ClipStays, EffectKeeps
<1>3. \/ FolderStep \/ UNCHANGED folderVars
  BY DEF ShellNext, OpenStep, IconStep, shellVars, folderVars
<1> QED BY <1>1, <1>2, <1>3

\* What is there at any time shows what the invariant promises.
LEMMA FolderMeans == FolderInv => FolderSound
BY DEF FolderInv, FolderSound, SystemItemsStay, TreeOk, SystemStays, AtTop, Present

(* The file manager leaves what the system needs at the top of the disk, its
   listing is the directory in order, and the menu stays on its item, whatever
   other programs do to the disk (explorer.c:308-520, 781-1103). *)
THEOREM FolderIsSound == ShellSpec => []FolderSound
<1>1. ShellInit => FolderInv
  BY FolderInit DEF ShellInit
<1> QED BY <1>1, FolderKept, FolderMeans, PTL DEF ShellSpec

\* What no step of the file manager does.
LEMMA BytesStay ==
  ASSUME FolderInv, [ShellNext]_shellVars
  PROVE  [UNCHANGED tree \/ \A p \in {q \in Present : IsFile(q) /\ tree[q] # << >>} :
            \/ \E q \in DOMAIN tree' : tree'[q] = tree[p]
            \/ Len(p) = 2 /\ p[1] = RECYCLE /\ p \notin DOMAIN tree'
            \/ clip.path # << >> /\ p = In(Last(clip.path)) /\ ~clip.cut
            \/ clip.cut /\ IsPrefix(clip.path, path) /\ IsPrefix(clip.path, p)
            \/ Front(p) = path /\ p \notin {Item(i) : i \in 1 .. Count}
            \/ {In(NewNames[k]) : k \in DOMAIN NewNames} \subseteq {Item(i) : i \in 1 .. Count}
            \/ p \in Alien]_vars
<1>1. CASE FolderStep
  <2>1. \A p \in Present : Accounted(p)
    BY <1>1, FolderSteps DEF FolderStep, Shows, Effect, Careful
  <2> QED BY <2>1, Zenon DEF Accounted
<1>2. CASE ~FolderStep
  BY <1>2 DEF ShellNext, OpenStep, IconStep, shellVars, folderVars, vars
<1> QED BY <1>1, <1>2

LEMMA GreyStays ==
  ASSUME [ShellNext]_shellVars
  PROVE  [UNCHANGED <<tree, clip, dialog>> \/
          ~\E what \in ItemChoices :
             Pick /\ OnItem /\ Disabled(menu.target, what) /\ ItemMenu(what)]_vars
<1> SUFFICES ASSUME NEW what \in ItemChoices, Pick, OnItem, Disabled(menu.target, what), ItemMenu(what)
             PROVE  UNCHANGED <<tree, clip, dialog>>
  OBVIOUS
<1>1. IsSystem(menu.target) /\ what \in (IF InRecycle THEN {"delete"} ELSE {"cut", "recycle", "rename"})
  BY DEF Disabled
<1>2. CASE InRecycle
  BY <1>1, <1>2 DEF ItemMenu
<1>3. CASE ~InRecycle
  BY <1>1, <1>3 DEF ItemMenu
<1> QED BY <1>2, <1>3

LEMMA SelectionStays ==
  ASSUME FolderInv, [ShellNext]_shellVars
  PROVE  [(sel' # sel /\ sel \in Visible /\ UNCHANGED <<path, items>>) => sel' \in Visible']_vars
<1>1. CASE FolderStep
  BY <1>1, FolderSteps DEF FolderStep, Shows, Follow
<1>2. CASE ~FolderStep
  BY <1>2 DEF ShellNext, OpenStep, IconStep, shellVars, folderVars, vars
<1> QED BY <1>1, <1>2

(* No operation of the file manager loses the bytes of a file, but for the
   exceptions BytesKept names; what is grey does nothing; the keys do not move
   a selection out of view (explorer.c:308-520, 781-1103). *)
THEOREM FolderKeepsFiles == ShellSpec => FolderKeeps
<1>1. ShellInit => FolderInv
  BY FolderInit DEF ShellInit
<1> QED BY <1>1, FolderKept, BytesStay, GreyStays, SelectionStays, PTL
        DEF ShellSpec, FolderKeeps, BytesKept, GreyDoesNothing, KeysFollow
-----------------------------------------------------------------------------
AskDoings == {"nothing", "look", "send", "spawn"}
OpenPlaces == {"absent", "starting", "open", "idle", "loading"}

OpenTypes ==
  /\ target \in Open!Files \cup {NoFile} /\ last \in Open!Files \cup {NoFile}
  /\ ask \in [Askers -> [doing : AskDoings, file : Open!Files \cup {NoFile}]]
  /\ app \in [Programs -> OpenPlaces]
  /\ inbox \in [Programs -> Nat]
  /\ shows \in [Programs -> Open!Files \cup {NoFile}]
  /\ stray \in BOOLEAN

(* A program that will not look into the buffer. *)
Calm(p) == app[p] \in {"idle", "absent"} /\ inbox[p] = 0

(* Nobody asks; a program started by hand finds the buffer empty. *)
NobodyAsks ==
  /\ target = NoFile
  /\ \A a \in Askers : ask[a] = Open!Resting
  /\ \A p \in Programs : app[p] # "loading" /\ inbox[p] = 0
  /\ last # NoFile => shows[Opener[last]] = last

(* a asks; the program may be closed by hand meanwhile, but not started. *)
Asking(a) ==
  /\ target # NoFile /\ Opener[target] # Browser
  /\ ask[a].file = target /\ ask[a].doing # "nothing"
  /\ \A b \in Askers \ {a} : ask[b] = Open!Resting
  /\ \A p \in Programs : Calm(p)
  /\ ask[a].doing = "spawn" => app[Opener[target]] = "absent"
  /\ last \in {target, NoFile}

(* The program for the file was started or told, and reads or has read. *)
Reading(p) ==
  /\ target # NoFile /\ Opener[target] = p /\ p # Browser
  /\ \A a \in Askers : ask[a] = Open!Resting
  /\ \A q \in Programs \ {p} : Calm(q)
  /\ \/ app[p] \in {"starting", "open"} /\ inbox[p] = 0
     \/ app[p] = "loading" /\ inbox[p] = 0 /\ shows[p] = target
     \/ app[p] = "idle" /\ inbox[p] = 1
  /\ last \in {target, NoFile}

(* The phases of a request. *)
AskPhases ==
  \/ NobodyAsks
  \/ \E a \in Askers : Asking(a)
  \/ \E p \in Programs : Reading(p)

OpenInv == OpenTypes /\ (~stray => Open!OpensItsOwn /\ AskPhases)

-----------------------------------------------------------------------------
\* The files and their programs.
LEMMA OpenerFacts ==
  /\ NoFile \notin Open!Files /\ Browser \in Programs
  /\ \A f \in Open!Files : Opener[f] \in Programs
  BY OpenAssumption DEF Open!OpenersKnown, Open!Files

\* Nothing is asked for at first.
LEMMA OpenInit == Open!Init => OpenInv
<1> SUFFICES ASSUME Open!Init PROVE OpenInv
  OBVIOUS
<1>1. Open!Resting \in [doing : AskDoings, file : Open!Files \cup {NoFile}]
  BY DEF Open!Resting, AskDoings
<1>2. OpenTypes
  BY <1>1 DEF Open!Init, OpenTypes, OpenPlaces
<1>3. Open!OpensItsOwn /\ NobodyAsks
  BY DEF Open!Init, Open!OpensItsOwn, NobodyAsks
<1> QED BY <1>2, <1>3 DEF OpenInv, AskPhases

\* A request that is not stray comes when nothing else is under way.
LEMMA AskStep ==
  ASSUME OpenInv, NEW a \in Askers, NEW f \in Open!Files, Open!Ask(a, f) PROVE OpenInv'
<1>1. OpenTypes'
  BY OpenerFacts DEF OpenInv, OpenTypes, Open!Ask, Open!Resting, AskDoings
<1>2. ASSUME ~stray' PROVE Open!OpensItsOwn' /\ Asking(a)'
  <2>1. ~stray /\ ~Open!Outstanding /\ ~Open!WillRead /\ Opener[f] # Browser
    BY <1>2 DEF Open!Ask
  <2>2. Open!OpensItsOwn /\ NobodyAsks
    <3>1. target = NoFile /\ \A b \in Askers : ask[b] = Open!Resting
      BY <2>1 DEF Open!Outstanding
    <3> QED BY <2>1, <3>1 DEF OpenInv, AskPhases, Asking, Reading
  <2>3. Open!OpensItsOwn'
    BY <2>1, <2>2 DEF Open!OpensItsOwn, Open!Ask
  <2>4. \A p \in Programs : Calm(p)'
    BY <2>1, <2>2 DEF NobodyAsks, Open!WillRead, Calm, Open!Ask, OpenInv, OpenTypes, OpenPlaces
  <2>5. /\ target' = f /\ last' = f /\ f # NoFile
        /\ ask' = [ask EXCEPT ![a] = [doing |-> "look", file |-> f]]
    BY OpenerFacts DEF Open!Ask
  <2>6. ask'[a] = [doing |-> "look", file |-> f] /\ \A b \in Askers \ {a} : ask'[b] = Open!Resting
    BY <2>2, <2>5 DEF NobodyAsks, OpenInv, OpenTypes
  <2> QED BY <2>1, <2>3, <2>4, <2>5, <2>6 DEF Asking
<1> QED BY <1>1, <1>2 DEF OpenInv, AskPhases

\* While a asks it is the phase of a.
LEMMA WhoAsks ==
  ASSUME OpenInv, ~stray, NEW a \in Askers, ask[a].doing # "nothing"
  PROVE  Asking(a) /\ Open!OpensItsOwn /\ ask[a].file \in Open!Files /\ Opener[ask[a].file] \in Programs
<1>1. ask[a] # Open!Resting
  BY DEF Open!Resting
<1>2. Asking(a) /\ Open!OpensItsOwn
  BY <1>1 DEF OpenInv, AskPhases, NobodyAsks, Asking, Reading
<1> QED BY <1>2, OpenerFacts DEF Asking, OpenInv, OpenTypes

\* Looking for the program's window.
LEMMA LookStep ==
  ASSUME OpenInv, NEW a \in Askers, Open!Look(a) PROVE OpenInv'
<1>1. OpenTypes'
  BY DEF OpenInv, OpenTypes, Open!Look, AskDoings
<1>2. ASSUME ~stray' PROVE Open!OpensItsOwn' /\ Asking(a)'
  <2>1. ~stray /\ ask[a].doing = "look"
    BY <1>2 DEF Open!Look
  <2>2. Asking(a) /\ Open!OpensItsOwn /\ ask[a].file \in Open!Files /\ Opener[ask[a].file] \in Programs
    BY <2>1, WhoAsks
  <2>3. Open!OpensItsOwn' /\ \A p \in Programs : Calm(p)'
    BY <2>2 DEF Open!OpensItsOwn, Open!Look, Asking, Calm
  <2>4. /\ ask'[a].file = target /\ ask'[a].doing \in {"send", "spawn"}
        /\ ask'[a].doing = "spawn" => ~Open!TitleFound(Opener[target])
        /\ \A b \in Askers \ {a} : ask'[b] = Open!Resting
    BY <2>2 DEF Open!Look, Asking, OpenInv, OpenTypes
  <2>5. ask'[a].doing = "spawn" => app[Opener[target]] = "absent"
    BY <2>2, <2>4 DEF Asking, Open!TitleFound, Open!HasWindow, Calm
  <2> QED BY <2>2, <2>3, <2>4, <2>5 DEF Asking, Open!Look
<1> QED BY <1>1, <1>2 DEF OpenInv, AskPhases

\* The message goes to a program that is there, or the request goes astray.
LEMMA SendStep ==
  ASSUME OpenInv, NEW a \in Askers, Open!Send(a) PROVE OpenInv'
<1>0. PICK p : p = Opener[ask[a].file]
  OBVIOUS
<1>1. /\ ask' = [ask EXCEPT ![a] = Open!Resting]
      /\ inbox' = IF Open!HasWindow(p) THEN [inbox EXCEPT ![p] = @ + 1] ELSE inbox
      /\ stray' = (stray \/ ~Open!HasWindow(p))
      /\ ask[a].doing = "send"
      /\ UNCHANGED <<target, app, shows, last>>
  BY <1>0 DEF Open!Send
<1>2. OpenTypes'
  <2>1. Open!Resting \in [doing : AskDoings, file : Open!Files \cup {NoFile}] /\ stray' \in BOOLEAN
    BY <1>1 DEF Open!Resting, AskDoings
  <2>2. inbox' \in [Programs -> Nat]
    <3>1. CASE p \in Programs
      BY <1>1, <3>1 DEF OpenInv, OpenTypes
    <3>2. CASE p \notin Programs
      <4>1. inbox' = inbox
        BY <1>1, <3>2 DEF OpenInv, OpenTypes
      <4> QED BY <4>1 DEF OpenInv, OpenTypes
    <3> QED BY <3>1, <3>2
  <2> QED BY <1>1, <2>1, <2>2 DEF OpenInv, OpenTypes
<1>3. ASSUME ~stray' PROVE Open!OpensItsOwn' /\ p \in Programs /\ Reading(p)'
  <2>1. ~stray /\ Open!HasWindow(p)
    BY <1>1, <1>3
  <2>2. Asking(a) /\ Open!OpensItsOwn /\ p \in Programs /\ p = Opener[target]
    BY <1>0, <1>1, <2>1, WhoAsks DEF Asking
  <2>3. app[p] = "idle" /\ inbox[p] = 0 /\ p # Browser
    BY <2>1, <2>2 DEF Open!HasWindow, Asking, Calm
  <2>4. Open!OpensItsOwn'
    BY <1>1, <2>2 DEF Open!OpensItsOwn
  <2>5. \A b \in Askers : ask'[b] = Open!Resting
    BY <1>1, <2>2 DEF Asking, OpenInv, OpenTypes
  <2>6. inbox'[p] = 1 /\ \A q \in Programs \ {p} : inbox'[q] = inbox[q]
    BY <1>1, <2>1, <2>2, <2>3 DEF OpenInv, OpenTypes
  <2>7. Reading(p)'
    BY <1>1, <2>2, <2>3, <2>5, <2>6 DEF Reading, Asking, Calm
  <2> QED BY <2>2, <2>4, <2>7
<1> QED BY <1>2, <1>3 DEF OpenInv, AskPhases

\* A program is started, or the request goes astray.
LEMMA SpawnStep ==
  ASSUME OpenInv, NEW a \in Askers, Open!Spawn(a) PROVE OpenInv'
<1>0. PICK p : p = Opener[ask[a].file]
  OBVIOUS
<1>1. /\ ask' = [ask EXCEPT ![a] = Open!Resting]
      /\ app' \in {Open!Spawned(p), app}
      /\ stray' = (stray \/ app' = app)
      /\ ask[a].doing = "spawn"
      /\ UNCHANGED <<target, inbox, shows, last>>
  BY <1>0 DEF Open!Spawn
<1>2. app' \in {[app EXCEPT ![p] = "starting"], app}
  BY <1>1 DEF Open!Spawned
<1>3. OpenTypes'
  BY <1>1, <1>2 DEF OpenInv, OpenTypes, Open!Resting, AskDoings, OpenPlaces
<1>4. ASSUME ~stray' PROVE Open!OpensItsOwn' /\ p \in Programs /\ Reading(p)'
  <2>1. ~stray /\ app' = [app EXCEPT ![p] = "starting"]
    BY <1>1, <1>2, <1>4
  <2>2. Asking(a) /\ Open!OpensItsOwn /\ p \in Programs /\ p = Opener[target]
    BY <1>0, <1>1, <2>1, WhoAsks DEF Asking
  <2>3. Open!OpensItsOwn'
    BY <1>1, <2>2 DEF Open!OpensItsOwn
  <2>4. \A b \in Askers : ask'[b] = Open!Resting
    BY <1>1, <2>2 DEF Asking, OpenInv, OpenTypes
  <2>5. app'[p] = "starting" /\ \A q \in Programs \ {p} : app'[q] = app[q]
    BY <2>1, <2>2 DEF OpenInv, OpenTypes
  <2>6. Reading(p)'
    BY <1>1, <2>2, <2>4, <2>5 DEF Reading, Asking, Calm
  <2> QED BY <2>2, <2>3, <2>6
<1> QED BY <1>3, <1>4 DEF OpenInv, AskPhases

\* A program started by hand while a request is under way makes it stray.
LEMMA StartByHandStep ==
  ASSUME OpenInv, NEW p \in Programs, Open!StartByHand(p) PROVE OpenInv'
<1>1. /\ app' \in {[app EXCEPT ![p] = "starting"], app}
      /\ stray' = (stray \/ Open!Outstanding)
      /\ UNCHANGED <<target, ask, inbox, shows, last>>
  BY DEF Open!StartByHand, Open!Spawned
<1>2. OpenTypes'
  BY <1>1 DEF OpenInv, OpenTypes, OpenPlaces
<1>3. ASSUME ~stray' PROVE Open!OpensItsOwn' /\ NobodyAsks'
  <2>1. ~stray /\ ~Open!Outstanding
    BY <1>1, <1>3
  <2>2. Open!OpensItsOwn /\ NobodyAsks
    <3>1. target = NoFile
      BY <2>1 DEF Open!Outstanding
    <3> QED BY <2>1, <3>1 DEF OpenInv, AskPhases, Asking, Reading
  <2>3. \A q \in Programs : app'[q] \in {app[q], "starting"}
    BY <1>1 DEF OpenInv, OpenTypes
  <2> QED BY <1>1, <2>2, <2>3 DEF Open!OpensItsOwn, NobodyAsks
<1> QED BY <1>2, <1>3 DEF OpenInv, AskPhases

\* A window opens.
LEMMA CreateWindowStep ==
  ASSUME OpenInv, NEW p \in Programs, Open!CreateWindow(p) PROVE OpenInv'
<1>1. /\ app[p] = "starting" /\ app' = [app EXCEPT ![p] = "open"]
      /\ UNCHANGED <<target, ask, inbox, shows, last, stray>>
  BY DEF Open!CreateWindow
<1>2. OpenTypes'
  BY <1>1 DEF OpenInv, OpenTypes, OpenPlaces
<1>3. app'[p] = "open" /\ \A q \in Programs \ {p} : app'[q] = app[q]
  BY <1>1 DEF OpenInv, OpenTypes
<1>4. ASSUME ~stray PROVE Open!OpensItsOwn' /\ AskPhases'
  <2>1. Open!OpensItsOwn'
    BY <1>1, <1>4 DEF OpenInv, Open!OpensItsOwn
  <2>2. CASE NobodyAsks
    BY <1>1, <1>3, <2>1, <2>2 DEF NobodyAsks, AskPhases
  <2>3. ASSUME NEW a \in Askers, Asking(a) PROVE FALSE
    BY <1>1, <2>3 DEF Asking, Calm
  <2>4. ASSUME NEW q \in Programs, Reading(q) PROVE Reading(q)'
    <3>1. q = p
      BY <1>1, <2>4 DEF Reading, Calm
    <3> QED BY <1>1, <1>3, <2>4, <3>1 DEF Reading, Calm
  <2> QED BY <1>4, <2>1, <2>2, <2>3, <2>4 DEF OpenInv, AskPhases
<1> QED BY <1>1, <1>2, <1>4 DEF OpenInv

\* A program reads the buffer: at its start, or for a message.
LEMMA GetOpenFileStep ==
  ASSUME OpenInv, NEW p \in Programs, Open!AtStart(p) \/ Open!OnMessage(p) PROVE OpenInv'
<1> DEFINE found == target # NoFile /\ p # Browser
<1>1. /\ app' = [app EXCEPT ![p] = IF found THEN "loading" ELSE "idle"]
      /\ shows' = IF found THEN [shows EXCEPT ![p] = target] ELSE shows
      /\ UNCHANGED <<target, ask, last, stray>>
  BY DEF Open!AtStart, Open!OnMessage, Open!GetOpenFile
<1>2. \/ app[p] = "open" /\ inbox' = inbox
      \/ app[p] = "idle" /\ inbox[p] > 0 /\ inbox' = [inbox EXCEPT ![p] = @ - 1]
  BY DEF Open!AtStart, Open!OnMessage
<1>3. OpenTypes'
  BY <1>1, <1>2 DEF OpenInv, OpenTypes, OpenPlaces
<1>4. /\ app'[p] = IF found THEN "loading" ELSE "idle"
      /\ \A q \in Programs \ {p} : app'[q] = app[q] /\ shows'[q] = shows[q] /\ inbox'[q] = inbox[q]
      /\ shows'[p] = IF found THEN target ELSE shows[p]
      /\ inbox'[p] = IF app[p] = "open" THEN inbox[p] ELSE inbox[p] - 1
  BY <1>1, <1>2 DEF OpenInv, OpenTypes
<1>5. ASSUME ~stray PROVE Open!OpensItsOwn' /\ AskPhases'
  <2>1. Open!OpensItsOwn
    BY <1>5 DEF OpenInv
  <2>2. CASE NobodyAsks
    <3>1. ~found /\ app[p] = "open" /\ inbox' = inbox /\ shows' = shows
      BY <1>1, <1>2, <2>2 DEF NobodyAsks
    <3> QED BY <1>1, <1>4, <2>1, <2>2, <3>1 DEF NobodyAsks, AskPhases, Open!OpensItsOwn
  <2>3. ASSUME NEW a \in Askers, Asking(a) PROVE FALSE
    BY <1>2, <2>3 DEF Asking, Calm
  <2>4. ASSUME NEW q \in Programs, Reading(q) PROVE Open!OpensItsOwn' /\ Reading(q)'
    <3>1. q = p
      BY <1>2, <2>4 DEF Reading, Calm
    <3>2. found
      BY <2>4, <3>1 DEF Reading
    <3>3. app'[p] = "loading" /\ inbox'[p] = 0 /\ shows'[p] = target
      BY <1>2, <1>4, <2>4, <3>1, <3>2 DEF Reading
    <3>4. Open!OpensItsOwn'
      <4>1. \A r \in Programs : shows[r] = NoFile \/ Opener[shows[r]] = r
        BY <1>5, <2>1 DEF Open!OpensItsOwn
      <4>2. Opener[target] = p
        BY <2>4, <3>1 DEF Reading
      <4> QED BY <1>4, <3>3, <4>1, <4>2 DEF Open!OpensItsOwn
    <3>5. Reading(p)'
      BY <1>1, <1>4, <2>4, <3>1, <3>3 DEF Reading, Calm
    <3> QED BY <3>1, <3>4, <3>5
  <2> QED BY <1>5, <2>2, <2>3, <2>4 DEF OpenInv, AskPhases
<1> QED BY <1>1, <1>3, <1>5 DEF OpenInv

\* The file is loaded and the buffer cleared.
LEMMA ClearOpenFileStep ==
  ASSUME OpenInv, NEW p \in Programs, Open!ClearOpenFile(p) PROVE OpenInv'
<1>1. /\ app[p] = "loading" /\ app' = [app EXCEPT ![p] = "idle"] /\ target' = NoFile
      /\ UNCHANGED <<ask, inbox, shows, last, stray>>
  BY DEF Open!ClearOpenFile
<1>2. OpenTypes'
  BY <1>1 DEF OpenInv, OpenTypes, OpenPlaces
<1>3. ASSUME ~stray PROVE Open!OpensItsOwn' /\ NobodyAsks'
  <2>1. ASSUME NEW a \in Askers, Asking(a) PROVE FALSE
    BY <1>1, <2>1 DEF Asking, Calm
  <2>2. ~NobodyAsks
    BY <1>1 DEF NobodyAsks
  <2>3. PICK q \in Programs : Reading(q)
    BY <1>3, <2>1, <2>2 DEF OpenInv, AskPhases
  <2>4. q = p
    BY <1>1, <2>3 DEF Reading, Calm
  <2>5. inbox[p] = 0 /\ shows[p] = target /\ Opener[target] = p
    BY <1>1, <2>3, <2>4 DEF Reading
  <2>6. \A r \in Programs : app'[r] # "loading" /\ inbox[r] = 0
    BY <1>1, <2>3, <2>4, <2>5 DEF Reading, Calm, OpenInv, OpenTypes
  <2>7. Open!OpensItsOwn'
    BY <1>1, <1>3 DEF OpenInv, Open!OpensItsOwn
  <2> QED BY <1>1, <2>3, <2>5, <2>6, <2>7 DEF NobodyAsks, Reading
<1> QED BY <1>1, <1>2, <1>3 DEF OpenInv, AskPhases

\* A program is closed; its file is no longer the one to be shown.
LEMMA CloseStep ==
  ASSUME OpenInv, NEW p \in Programs, Open!Close(p) PROVE OpenInv'
<1>1. /\ app[p] = "idle" /\ app' = [app EXCEPT ![p] = "absent"]
      /\ inbox' = [inbox EXCEPT ![p] = 0] /\ shows' = [shows EXCEPT ![p] = NoFile]
      /\ stray' = (stray \/ inbox[p] > 0)
      /\ last' = IF last # NoFile /\ Opener[last] = p THEN NoFile ELSE last
      /\ UNCHANGED <<target, ask>>
  BY DEF Open!Close
<1>2. OpenTypes'
  BY <1>1, OpenerFacts DEF OpenInv, OpenTypes, OpenPlaces
<1>3. /\ app'[p] = "absent" /\ inbox'[p] = 0 /\ shows'[p] = NoFile
      /\ \A q \in Programs \ {p} : app'[q] = app[q] /\ shows'[q] = shows[q] /\ inbox'[q] = inbox[q]
  BY <1>1 DEF OpenInv, OpenTypes
<1>4. ASSUME ~stray' PROVE Open!OpensItsOwn' /\ AskPhases'
  <2>1. ~stray /\ inbox[p] = 0
    <3>1. ~stray /\ ~ (inbox[p] > 0) /\ inbox[p] \in Nat
      BY <1>1, <1>4 DEF OpenInv, OpenTypes
    <3> QED BY <3>1
  <2>2. Open!OpensItsOwn'
    BY <1>3, <2>1 DEF OpenInv, Open!OpensItsOwn
  <2>3. CASE NobodyAsks
    <3>1. last' # NoFile => last' = last /\ shows'[Opener[last]] = last
      BY <1>1, <1>3, <2>3, OpenerFacts DEF NobodyAsks, OpenInv, OpenTypes
    <3> QED BY <1>1, <1>3, <2>2, <2>3, <3>1 DEF NobodyAsks, AskPhases
  <2>4. ASSUME NEW a \in Askers, Asking(a) PROVE Asking(a)'
    <3>1. \A q \in Programs : Calm(q)'
      BY <1>3, <2>4 DEF Asking, Calm
    <3>2. ask[a].doing = "spawn" => app'[Opener[target]] = "absent"
      BY <1>3, <2>4, OpenerFacts DEF Asking, OpenInv, OpenTypes
    <3>3. last' \in {target, NoFile}
      BY <1>1, <2>4 DEF Asking
    <3> QED BY <1>1, <2>4, <3>1, <3>2, <3>3 DEF Asking
  <2>5. ASSUME NEW q \in Programs, Reading(q) PROVE Reading(q)'
    <3>1. p # q
      BY <1>1, <2>1, <2>5 DEF Reading
    <3>2. \A r \in Programs \ {q} : Calm(r)'
      BY <1>3, <2>5 DEF Reading, Calm
    <3>3. app'[q] = app[q] /\ inbox'[q] = inbox[q] /\ shows'[q] = shows[q]
      BY <1>3, <3>1
    <3>4. last' \in {target, NoFile}
      BY <1>1, <2>5 DEF Reading
    <3> QED BY <1>1, <2>5, <3>2, <3>3, <3>4 DEF Reading
  <2> QED BY <2>1, <2>2, <2>3, <2>4, <2>5 DEF OpenInv, AskPhases
<1> QED BY <1>2, <1>4 DEF OpenInv

\* Each step keeps the invariant.
LEMMA OpenKept == OpenInv /\ [Open!Next]_Open!vars => OpenInv'
<1> SUFFICES ASSUME OpenInv, [Open!Next]_Open!vars PROVE OpenInv'
  OBVIOUS
<1>1. CASE UNCHANGED Open!vars
  BY <1>1 DEF Open!vars, OpenInv, OpenTypes, Open!OpensItsOwn, AskPhases, NobodyAsks, Asking, Reading, Calm
<1>2. ASSUME NEW a \in Askers, \/ \E f \in Open!Files : Open!Ask(a, f)
                               \/ Open!Look(a) \/ Open!Send(a) \/ Open!Spawn(a)
      PROVE  OpenInv'
  BY <1>2, AskStep, LookStep, SendStep, SpawnStep
<1>3. ASSUME NEW p \in Programs, \/ Open!StartByHand(p) \/ Open!CreateWindow(p) \/ Open!AtStart(p)
                                 \/ Open!OnMessage(p) \/ Open!ClearOpenFile(p) \/ Open!Close(p)
      PROVE  OpenInv'
  BY <1>3, StartByHandStep, CreateWindowStep, GetOpenFileStep, ClearOpenFileStep, CloseStep
<1> QED BY <1>1, <1>2, <1>3 DEF Open!Next

\* The phases give the three parts of the promise.
LEMMA OpenMeans == OpenInv => RequestsMet
<1> SUFFICES ASSUME OpenInv PROVE RequestsMet
  OBVIOUS
<1>1. Open!OpensItsOwn
  BY DEF OpenInv, Open!OpensItsOwn
<1>2. Open!RequestMet
  <2> SUFFICES ASSUME ~stray, ~Open!Outstanding, last # NoFile PROVE shows[Opener[last]] = last
    BY DEF Open!RequestMet
  <2>1. target = NoFile
    BY DEF Open!Outstanding
  <2> QED BY <2>1 DEF OpenInv, AskPhases, NobodyAsks, Asking, Reading
<1>3. Open!RequestUnderWay
  <2> SUFFICES ASSUME ~stray, target # NoFile
               PROVE  \/ \E a \in Askers : ask[a] # Open!Resting
                      \/ \E p \in Programs : app[p] \in {"starting", "open", "loading"} \/ inbox[p] > 0
    BY DEF Open!RequestUnderWay
  <2>1. CASE NobodyAsks
    BY <2>1 DEF NobodyAsks
  <2>2. ASSUME NEW a \in Askers, Asking(a) PROVE ask[a] # Open!Resting
    BY <2>2 DEF Asking, Open!Resting
  <2>3. ASSUME NEW p \in Programs, Reading(p)
        PROVE  app[p] \in {"starting", "open", "loading"} \/ inbox[p] > 0
    BY <2>3 DEF Reading
  <2> QED BY <2>1, <2>2, <2>3 DEF OpenInv, AskPhases
<1> QED BY <1>1, <1>2, <1>3 DEF RequestsMet

\* What the invariant says is kept by every step of the shell.
LEMMA OpenStays == OpenInv /\ [ShellNext]_shellVars => OpenInv'
<1>1. [ShellNext]_shellVars => [Open!Next]_Open!vars
  BY DEF ShellNext, FolderStep, OpenStep, IconStep, shellVars, openVars, Open!vars
<1> QED BY <1>1, OpenKept

(* A file asked for in the desktop or the file manager is opened by the program
   meant for it and by no other, and no request is forgotten on the way, as long
   as none goes astray (wasi.c:790-830, compositor.c:106-212, explorer.c:221-267). *)
THEOREM FilesAreHandedOver == ShellSpec => []RequestsMet
<1>1. ShellInit => OpenInv
  BY OpenInit DEF ShellInit
<1> QED BY <1>1, OpenStays, OpenMeans, PTL DEF ShellSpec
-----------------------------------------------------------------------------
\* What holds at 0 and goes on from each number to the next holds up to n.
LEMMA GoesOn ==
  ASSUME NEW n \in Nat, NEW S, 0 \in S, \A k \in 1 .. n : k - 1 \in S => k \in S
  PROVE  \A k \in 0 .. n : k \in S
<1> DEFINE T == (0 .. n) \ S
           R == {p \in Nat \X Nat : p[1] < p[2]}
<1> SUFFICES ASSUME T # {} PROVE FALSE
  OBVIOUS
<1>1. IsWellFoundedOn(R, Nat)
  <2>1. R = OpToRel(<, Nat)
    BY DEF OpToRel
  <2> QED BY <2>1, NatLessThanWellFounded
<1>0. T \subseteq Nat
  OBVIOUS
<1>2. PICK x \in T : \A y \in T : ~ (<<y, x>> \in R)
  BY <1>0, <1>1, WFMin
<1>3. x \in Nat /\ \A y \in T : y \in Nat /\ ~ (y < x)
  <2> HIDE DEF T
  <2> QED BY <1>0, <1>2
<1>4. x \in 1 .. n /\ x - 1 \in 0 .. n /\ x - 1 < x
  BY <1>2
<1>5. x - 1 \notin T
  BY ONLY <1>3, <1>4
<1> QED BY <1>2, <1>4, <1>5

\* f goes from start to V by n steps of G.
Stepwise(f, n, V, start, G) ==
  f \in [0 .. n -> V] /\ f[0] = start /\ \A k \in 1 .. n : f[k] = G[<<f[k - 1], k>>]

\* A function defined by going on from a start, step by step, exists.
LEMMA StepsGive ==
  ASSUME NEW V, NEW start \in V, NEW n \in Nat, NEW G \in [V \X (1 .. n) -> V]
  PROVE  \E f : Stepwise(f, n, V, start, G)
<1> DEFINE Upto(k, f) == /\ f \in [0 .. k -> V] /\ f[0] = start
                         /\ \A j \in 1 .. k : f[j] = G[<<f[j - 1], j>>]
           S == {k \in 0 .. n : \E f \in [0 .. k -> V] : Upto(k, f)}
<1>1. 0 \in S
  <2> DEFINE f == [j \in 0 .. 0 |-> start]
  <2>1. Upto(0, f) /\ 0 \in 0 .. n
    OBVIOUS
  <2> QED BY <2>1
<1>2. ASSUME NEW k \in 1 .. n, k - 1 \in S PROVE k \in S
  <2>1. PICK f \in [0 .. k - 1 -> V] : Upto(k - 1, f)
    BY <1>2
  <2> DEFINE g == [j \in 0 .. k |-> IF j = k THEN G[<<f[k - 1], k>>] ELSE f[j]]
  <2>2. G[<<f[k - 1], k>>] \in V
    <3>1. <<f[k - 1], k>> \in V \X (1 .. n)
      BY <2>1
    <3> QED BY <3>1
  <2>3. g \in [0 .. k -> V]
    BY <2>1, <2>2
  <2>4. g[0] = start
    BY <2>1
  <2>5. ASSUME NEW j \in 1 .. k PROVE g[j] = G[<<g[j - 1], j>>]
    <3>1. j - 1 \in 0 .. k - 1 /\ g[j - 1] = f[j - 1]
      BY <2>1
    <3>2. CASE j = k
      <4>1. g[k] = G[<<f[k - 1], k>>]
        OBVIOUS
      <4> HIDE DEF g
      <4> QED BY <3>1, <3>2, <4>1
    <3>3. CASE j # k
      <4>1. j \in 1 .. k - 1 /\ g[j] = f[j]
        BY <3>3
      <4> QED BY <2>1, <3>1, <4>1
    <3> QED BY <3>2, <3>3
  <2> HIDE DEF g
  <2> QED BY <2>3, <2>4, <2>5
<1> HIDE DEF S
<1>3. \A k \in 0 .. n : k \in S
  BY <1>1, <1>2, GoesOn
<1>4. n \in S
  BY <1>3
<1> QED BY <1>4 DEF S, Stepwise

Distincts(s) == \A i \in DOMAIN s : \A j \in DOMAIN s : i # j => s[i] # s[j]

\* A name taken out of a list, and one put into it.
LEMMA RemoveFacts ==
  ASSUME NEW V, NEW s \in Seq(V), Distincts(s), NEW i \in 1 .. Len(s)
  PROVE  /\ Icons!RemoveAt(s, i) \in Seq(V) /\ Distincts(Icons!RemoveAt(s, i))
         /\ Icons!Range(Icons!RemoveAt(s, i)) = Icons!Range(s) \ {s[i]}
<1>1. PICK n \in Nat : n = Len(s) /\ DOMAIN s = 1 .. n /\ i \in 1 .. n
  OBVIOUS
<1> DEFINE a == SubSeq(s, 1, i - 1)
           b == SubSeq(s, i + 1, n)
           r == a \o b
<1>2. a \in Seq(V) /\ Len(a) = i - 1 /\ \A k \in 1 .. i - 1 : a[k] = s[k]
  BY <1>1
<1>3. b \in Seq(V) /\ Len(b) = n - i /\ \A k \in 1 .. n - i : b[k] = s[i + k]
  BY <1>1
<1> HIDE DEF a, b
<1>4. /\ r \in Seq(V) /\ Len(r) = (i - 1) + (n - i)
      /\ \A k \in 1 .. (i - 1) + (n - i) : r[k] = IF k <= i - 1 THEN a[k] ELSE b[k - (i - 1)]
  <2>1. /\ r \in Seq(V) /\ Len(r) = Len(a) + Len(b)
        /\ \A k \in 1 .. Len(a) + Len(b) : r[k] = IF k <= Len(a) THEN a[k] ELSE b[k - Len(a)]
    BY <1>2, <1>3, ConcatProperties
  <2> HIDE DEF r
  <2> QED BY ONLY <2>1, <1>2, <1>3
<1> HIDE DEF r
<1>5. r \in Seq(V) /\ DOMAIN r = 1 .. n - 1 /\ \A k \in 1 .. n - 1 : r[k] = IF k < i THEN s[k] ELSE s[k + 1]
  <2>1. Len(r) = n - 1 /\ DOMAIN r = 1 .. n - 1
    <3>2. n \in Nat /\ i \in 1 .. n
      BY <1>1
    <3>1. Len(r) = n - 1
      BY ONLY <1>4, <3>2
    <3> QED BY ONLY <1>4, <3>1
  <2>2. ASSUME NEW k \in 1 .. n - 1 PROVE r[k] = IF k < i THEN s[k] ELSE s[k + 1]
    <3>1. CASE k < i
      <4>1. k \in 1 .. i - 1 /\ k <= i - 1 /\ k \in 1 .. (i - 1) + (n - i)
        BY <1>1, <3>1
      <4> QED BY ONLY <1>2, <1>4, <3>1, <4>1
    <3>2. CASE ~(k < i)
      <4>1. /\ ~(k <= i - 1) /\ k \in 1 .. (i - 1) + (n - i) /\ k - (i - 1) \in 1 .. n - i
            /\ i + (k - (i - 1)) = k + 1
        BY <1>1, <3>2
      <4>2. r[k] = b[k - (i - 1)] /\ b[k - (i - 1)] = s[i + (k - (i - 1))]
        BY ONLY <1>3, <1>4, <4>1
      <4> QED BY ONLY <3>2, <4>1, <4>2
    <3> QED BY <3>1, <3>2
  <2> QED BY <1>4, <2>1, <2>2
<1>6. Distincts(r)
  <2> SUFFICES ASSUME NEW k \in 1 .. n - 1, NEW j \in 1 .. n - 1, k # j PROVE r[k] # r[j]
    BY <1>5 DEF Distincts
  <2> DEFINE at(m) == IF m < i THEN m ELSE m + 1
  <2>1. at(k) \in 1 .. n /\ at(j) \in 1 .. n /\ at(k) # at(j)
    BY <1>1
  <2>2. r[k] = s[at(k)] /\ r[j] = s[at(j)]
    BY ONLY <1>5, k \in 1 .. n - 1, j \in 1 .. n - 1
  <2> HIDE DEF at
  <2> QED BY <1>1, <2>1, <2>2 DEF Distincts
<1>7. Icons!Range(r) = Icons!Range(s) \ {s[i]}
  <2>1. ASSUME NEW k \in 1 .. n - 1 PROVE r[k] \in Icons!Range(s) \ {s[i]}
    <3>1. PICK j \in 1 .. n : r[k] = s[j] /\ j # i
      BY <1>1, <1>5, <2>1
    <3> QED BY <1>1, <3>1 DEF Distincts, Icons!Range
  <2>2. ASSUME NEW j \in 1 .. n, j # i PROVE s[j] \in Icons!Range(r)
    <3>1. CASE j < i
      BY <1>1, <1>5, <2>2, <3>1 DEF Icons!Range
    <3>2. CASE j > i
      <4>1. j - 1 \in 1 .. n - 1 /\ ~(j - 1 < i) /\ (j - 1) + 1 = j
        BY <1>1, <3>2
      <4>2. r[j - 1] = s[j]
        BY ONLY <1>5, <4>1
      <4> QED BY <1>5, <4>1, <4>2 DEF Icons!Range
    <3> QED BY <1>1, <2>2, <3>1, <3>2
  <2> QED BY <1>1, <1>5, <2>1, <2>2 DEF Icons!Range
<1>8. r = Icons!RemoveAt(s, i)
  BY <1>1 DEF r, a, b, Icons!RemoveAt
<1> QED BY <1>5, <1>6, <1>7, <1>8

LEMMA InsertFacts ==
  ASSUME NEW V, NEW s \in Seq(V), Distincts(s), NEW i \in 1 .. Len(s) + 1, NEW e \in V, e \notin Icons!Range(s)
  PROVE  /\ Icons!InsertAt(s, i, e) \in Seq(V) /\ Distincts(Icons!InsertAt(s, i, e))
         /\ Icons!Range(Icons!InsertAt(s, i, e)) = Icons!Range(s) \cup {e}
<1>1. PICK n \in Nat : n = Len(s) /\ DOMAIN s = 1 .. n /\ i \in 1 .. n + 1
  OBVIOUS
<1> DEFINE a == SubSeq(s, 1, i - 1)
           c == <<e>>
           b == SubSeq(s, i, n)
           q == a \o c
           r == q \o b
<1>2. a \in Seq(V) /\ Len(a) = i - 1 /\ \A k \in 1 .. i - 1 : a[k] = s[k]
  BY <1>1
<1>3. b \in Seq(V) /\ Len(b) = n - i + 1 /\ \A k \in 1 .. n - i + 1 : b[k] = s[(i - 1) + k]
  BY <1>1
<1>4. c \in Seq(V) /\ Len(c) = 1 /\ c[1] = e
  OBVIOUS
<1> HIDE DEF a, b, c
<1>5. /\ q \in Seq(V) /\ Len(q) = (i - 1) + 1
      /\ \A k \in 1 .. (i - 1) + 1 : q[k] = IF k <= i - 1 THEN a[k] ELSE c[k - (i - 1)]
  <2>1. /\ q \in Seq(V) /\ Len(q) = Len(a) + Len(c)
        /\ \A k \in 1 .. Len(a) + Len(c) : q[k] = IF k <= Len(a) THEN a[k] ELSE c[k - Len(a)]
    BY <1>2, <1>4, ConcatProperties
  <2> HIDE DEF q
  <2> QED BY ONLY <2>1, <1>2, <1>4
<1> HIDE DEF q
<1>6. /\ r \in Seq(V) /\ Len(r) = i + (n - i + 1)
      /\ \A k \in 1 .. i + (n - i + 1) : r[k] = IF k <= i THEN q[k] ELSE b[k - i]
  <2>0. Len(q) = i
    BY <1>1, <1>5
  <2>1. /\ r \in Seq(V) /\ Len(r) = Len(q) + Len(b)
        /\ \A k \in 1 .. Len(q) + Len(b) : r[k] = IF k <= Len(q) THEN q[k] ELSE b[k - Len(q)]
    BY <1>3, <1>5, ConcatProperties
  <2> HIDE DEF r
  <2> QED BY ONLY <2>0, <2>1, <1>3
<1> HIDE DEF r
<1>7. /\ DOMAIN r = 1 .. n + 1
      /\ \A k \in 1 .. n + 1 : r[k] = IF k < i THEN s[k] ELSE IF k = i THEN e ELSE s[k - 1]
  <2>1. DOMAIN r = 1 .. n + 1
    BY <1>1, <1>6
  <2>2. ASSUME NEW k \in 1 .. n + 1 PROVE r[k] = IF k < i THEN s[k] ELSE IF k = i THEN e ELSE s[k - 1]
    <3>0. k \in 1 .. i + (n - i + 1)
      BY <1>1
    <3>1. CASE k < i
      <4>1. k \in 1 .. i - 1 /\ k <= i /\ k <= i - 1 /\ k \in 1 .. (i - 1) + 1
        BY <1>1, <3>1
      <4> QED BY ONLY <1>2, <1>5, <1>6, <3>0, <3>1, <4>1
    <3>2. CASE k = i
      <4>1. k <= i /\ ~(k <= i - 1) /\ k \in 1 .. (i - 1) + 1 /\ k - (i - 1) = 1 /\ ~(k < i)
        BY <1>1, <3>2
      <4> QED BY ONLY <1>4, <1>5, <1>6, <3>0, <3>2, <4>1
    <3>3. CASE k > i
      <4>1. ~(k <= i) /\ k - i \in 1 .. n - i + 1 /\ (i - 1) + (k - i) = k - 1 /\ ~(k < i) /\ k # i
        BY <1>1, <3>3
      <4>2. r[k] = b[k - i] /\ b[k - i] = s[(i - 1) + (k - i)]
        BY ONLY <1>3, <1>6, <3>0, <4>1
      <4> QED BY ONLY <4>1, <4>2
    <3> QED BY <1>1, <3>1, <3>2, <3>3
  <2> QED BY <2>1, <2>2
<1>8. \A k \in 1 .. n : s[k] # e
  BY <1>1 DEF Icons!Range
<1>9. Distincts(r)
  <2> SUFFICES ASSUME NEW j \in 1 .. n + 1, NEW k \in 1 .. n + 1, j # k PROVE r[j] # r[k]
    BY <1>7 DEF Distincts
  <2>1. \A l \in 1 .. n + 1 : l < i => l \in 1 .. n
    BY <1>1
  <2>2. \A l \in 1 .. n + 1 : ~(l < i) /\ l # i => l - 1 \in 1 .. n
    BY <1>1
  <2>3. \A l \in 1 .. n : \A m \in 1 .. n : l # m => s[l] # s[m]
    BY <1>1 DEF Distincts
  <2> QED BY <1>1, <1>7, <1>8, <2>1, <2>2, <2>3
<1>10. Icons!Range(r) = Icons!Range(s) \cup {e}
  <2>1. ASSUME NEW k \in 1 .. n + 1 PROVE r[k] \in Icons!Range(s) \cup {e}
    <3>1. (k < i => k \in 1 .. n) /\ (~(k < i) /\ k # i => k - 1 \in 1 .. n)
      BY <1>1
    <3> QED BY <1>1, <1>7, <3>1 DEF Icons!Range
  <2>2. ASSUME NEW j \in 1 .. n PROVE s[j] \in Icons!Range(r)
    <3>1. CASE j < i
      BY <1>1, <1>7, <3>1 DEF Icons!Range
    <3>2. CASE j >= i
      <4>1. j + 1 \in 1 .. n + 1 /\ ~(j + 1 < i) /\ j + 1 # i /\ (j + 1) - 1 = j
        BY <1>1, <3>2
      <4>2. r[j + 1] = s[j]
        BY ONLY <1>7, <4>1
      <4> QED BY <1>7, <4>1, <4>2 DEF Icons!Range
    <3> QED BY <1>1, <3>1, <3>2
  <2>3. e \in Icons!Range(r)
    <3>1. i \in 1 .. n + 1 /\ r[i] = e
      BY <1>1, <1>7
    <3> QED BY <1>7, <3>1 DEF Icons!Range
  <2> QED BY <1>1, <1>7, <2>1, <2>2, <2>3 DEF Icons!Range
<1>11. r = Icons!InsertAt(s, i, e)
  BY <1>1 DEF r, q, a, b, c, Icons!InsertAt
<1> QED BY <1>6, <1>9, <1>10, <1>11
-----------------------------------------------------------------------------
(* Lists of icons. *)

IconRecord == [name : IconNames \cup {Icons!Bin}, cell : Nat \X Nat]

\* The bin first, then files, no name and no cell twice.
NamesOk(l, n) ==
  /\ n \in 1 .. Len(l) /\ l[1].name = Icons!Bin
  /\ \A i \in 2 .. n : l[i].name \in IconNames
  /\ \A i \in 1 .. n : \A j \in 1 .. n : i # j => l[i].name # l[j].name
ListOk(l) ==
  /\ l \in Seq(IconRecord) /\ NamesOk(l, Len(l))
  /\ \A i \in 1 .. Len(l) : \A j \in 1 .. Len(l) : i # j => l[i].cell # l[j].cell
IconsOk == icons \in Seq(IconRecord) /\ count \in Nat /\ NamesOk(icons, count)

LEMMA TailNames ==
  ASSUME NEW l \in Seq(IconRecord), l # << >>
  PROVE  Icons!Named(Tail(l)) = {l[i].name : i \in 2 .. Len(l)}
<1>1. PICK n \in Nat : n = Len(l) /\ n >= 1
  OBVIOUS
<1>2. /\ DOMAIN Tail(l) = 1 .. n - 1
      /\ \A i \in 1 .. n - 1 : Tail(l)[i] = l[i + 1]
  BY <1>1
<1>3. ASSUME NEW i \in 1 .. n - 1 PROVE Tail(l)[i].name \in {l[j].name : j \in 2 .. n}
  <2>1. i + 1 \in 2 .. n
    BY <1>1
  <2> QED BY <1>2, <2>1
<1>4. ASSUME NEW j \in 2 .. n PROVE l[j].name \in {Tail(l)[i].name : i \in 1 .. n - 1}
  <2>1. PICK i \in 1 .. n - 1 : i + 1 = j
    BY <1>1
  <2> QED BY <1>2, <2>1
<1> QED BY <1>1, <1>2, <1>3, <1>4 DEF Icons!Named

\* What is shown.
LEMMA OldFacts ==
  ASSUME IconsOk
  PROVE  /\ count \in Nat \ {0} /\ Icons!BinItem = icons[1]
         /\ \A i \in 1 .. count : icons[i] \in IconRecord
         /\ Icons!Items \in Seq(IconRecord) /\ Len(Icons!Items) = count /\ \A i \in 1 .. count : Icons!Items[i] = icons[i]
         /\ Icons!Named(Tail(Icons!Items)) = {icons[i].name : i \in 2 .. count}
         /\ \A i \in 2 .. count : Icons!CellOf(icons[i].name) = icons[i].cell
<1>1. PICK n \in Nat, m \in Nat : n = count /\ m = Len(icons) /\ n >= 1 /\ n <= m
  BY DEF IconsOk, NamesOk
<1>2. \A i \in 1 .. n : icons[i] \in IconRecord
  BY <1>1 DEF IconsOk
<1>3. PICK s \in Seq(IconRecord) : s = Icons!Items /\ Len(s) = n /\ s # << >> /\ \A i \in 1 .. n : s[i] = icons[i]
  <2>1. icons \in Seq(IconRecord) /\ n <= Len(icons)
    BY <1>1 DEF IconsOk
  <2>2. /\ SubSeq(icons, 1, n) \in Seq(IconRecord) /\ Len(SubSeq(icons, 1, n)) = n
        /\ \A i \in 1 .. n : SubSeq(icons, 1, n)[i] = icons[i]
    BY <1>1, <2>1
  <2>3. PICK s \in Seq(IconRecord) : s = SubSeq(icons, 1, n) /\ Len(s) = n /\ \A i \in 1 .. n : s[i] = icons[i]
    BY <2>2
  <2>4. s # << >>
    BY <1>1, <2>3
  <2>5. s = Icons!Items
    BY <1>1, <2>3 DEF Icons!Items
  <2> QED BY <2>3, <2>4, <2>5
<1>4. Icons!Named(Tail(s)) = {icons[i].name : i \in 2 .. n}
  <2>1. \A i \in 2 .. n : i \in 1 .. n /\ s[i] = icons[i]
    BY <1>1, <1>3
  <2>2. Icons!Named(Tail(s)) = {s[i].name : i \in 2 .. n}
    BY <1>3, TailNames
  <2> QED BY ONLY <2>1, <2>2
<1>5. ASSUME NEW i \in 2 .. n PROVE Icons!CellOf(icons[i].name) = icons[i].cell
  <2>1. /\ DOMAIN Tail(s) = 1 .. n - 1
        /\ \A k \in 1 .. n - 1 : Tail(s)[k] = s[k + 1]
    BY <1>1, <1>3
  <2>2. Icons!Range(Tail(s)) = {s[k + 1] : k \in 1 .. n - 1}
    BY <2>1 DEF Icons!Range
  <2>3. i - 1 \in 1 .. n - 1 /\ (i - 1) + 1 = i /\ s[i] = icons[i]
    BY <1>1, <1>3
  <2>4. icons[i] \in Icons!Range(Tail(s))
    BY <2>2, <2>3
  <2>5. ASSUME NEW it \in Icons!Range(Tail(s)), it.name = icons[i].name PROVE it = icons[i]
    <3>1. PICK k \in 1 .. n - 1 : it = s[k + 1]
      BY <2>2
    <3>2. k + 1 \in 1 .. n /\ it = icons[k + 1] /\ i \in 1 .. n
      BY <1>1, <1>3, <3>1
    <3> QED BY <1>1, <2>5, <3>2 DEF IconsOk, NamesOk
  <2>6. (CHOOSE it \in Icons!Range(Tail(s)) : it.name = icons[i].name) = icons[i]
    BY <2>4, <2>5
  <2> QED BY <1>3, <2>6 DEF Icons!CellOf
<1> QED BY <1>1, <1>2, <1>3, <1>4, <1>5 DEF Icons!BinItem

LEMMA AppendFacts ==
  ASSUME NEW l \in Seq(IconRecord), NEW e \in IconRecord
  PROVE  /\ Append(l, e) \in Seq(IconRecord) /\ Len(Append(l, e)) = Len(l) + 1
         /\ \A i \in 1 .. Len(l) : Append(l, e)[i] = l[i]
         /\ Append(l, e)[Len(l) + 1] = e
BY AppendProperties

\* An icon with a new name and a free cell goes at the end.
LEMMA AppendOk ==
  ASSUME NEW l, ListOk(l), NEW e \in IconRecord, e.name \in IconNames,
         e.name \notin {l[i].name : i \in 2 .. Len(l)}, e.cell \notin Icons!Taken(l)
  PROVE  ListOk(Append(l, e))
<1>1. PICK n \in Nat : n = Len(l) /\ n >= 1 /\ DOMAIN l = 1 .. n /\ l \in Seq(IconRecord)
  BY DEF ListOk, NamesOk
<1> DEFINE a == Append(l, e)
<1>2. a \in Seq(IconRecord) /\ Len(a) = n + 1 /\ (\A i \in 1 .. n : a[i] = l[i]) /\ a[n + 1] = e
  BY <1>1, AppendFacts
<1> HIDE DEF a
<1>3. \A i \in 1 .. n : l[i].cell # e.cell
  BY <1>1 DEF Icons!Taken
<1>4. \A i \in 1 .. n : l[i].name # e.name
  <2>1. l[1].name # e.name
    BY IconAssumption DEF ListOk, NamesOk
  <2>2. \A i \in 1 .. n : i = 1 \/ i \in 2 .. n
    BY <1>1
  <2> QED BY <1>1, <2>1, <2>2
<1>5. \A i \in 1 .. n + 1 : i \in 1 .. n \/ i = n + 1
  BY <1>1
<1>6. \A i \in 2 .. n + 1 : i \in 2 .. n \/ i = n + 1
  BY <1>1
<1>7. \A i \in 1 .. n : \A j \in 1 .. n : i # j => l[i].name # l[j].name /\ l[i].cell # l[j].cell
  BY <1>1 DEF ListOk, NamesOk
<1>8. \A i \in 1 .. n + 1 : \A j \in 1 .. n + 1 : i # j => a[i].name # a[j].name /\ a[i].cell # a[j].cell
  BY ONLY <1>2, <1>3, <1>4, <1>5, <1>7
<1>9. \A i \in 2 .. n + 1 : a[i].name \in IconNames
  <2>1. \A i \in 2 .. n : i \in 1 .. n /\ l[i].name \in IconNames
    BY <1>1 DEF ListOk, NamesOk
  <2> QED BY ONLY <1>2, <1>6, <2>1, e.name \in IconNames
<1>10. a[1].name = Icons!Bin /\ n + 1 \in 1 .. Len(a)
  BY <1>1, <1>2 DEF ListOk, NamesOk
<1> QED BY <1>2, <1>8, <1>9, <1>10 DEF ListOk, NamesOk, a
-----------------------------------------------------------------------------
(* A scan of the directory. *)

\* Icons that were shown, of names up to the k-th.
RetainedOk(scan, k, l) ==
  /\ ListOk(l) /\ l[1] = icons[1]
  /\ \A i \in 2 .. Len(l) : \E j \in 2 .. count, m \in 1 .. k : l[i] = icons[j] /\ icons[j].name = scan[m]
  /\ Icons!Distinct => \A j \in 2 .. count : \A m \in 1 .. k :
                    icons[j].name = scan[m] => \E i \in 2 .. Len(l) : l[i] = icons[j]

LEMMA RetainStep ==
  ASSUME IconsOk, NEW scan \in Seq(IconNames), Distincts(scan), NEW k \in 1 .. Len(scan),
         NEW l, RetainedOk(scan, k - 1, l)
  PROVE  RetainedOk(scan, k, Icons!Retain(l, scan[k]))
<1> DEFINE n == scan[k]
<1>1. PICK c \in Nat \ {0}, s \in Nat : c = count /\ s = Len(l) /\ s >= 1 /\ l \in Seq(IconRecord) /\ DOMAIN l = 1 .. s
  BY OldFacts DEF RetainedOk, ListOk, NamesOk
<1>2. /\ \A i \in 1 .. c : icons[i] \in IconRecord
      /\ Icons!Named(Tail(Icons!Items)) = {icons[i].name : i \in 2 .. c}
      /\ \A i \in 2 .. c : Icons!CellOf(icons[i].name) = icons[i].cell /\ i \in 1 .. c
  BY <1>1, OldFacts
<1>3. n \in IconNames /\ \A m \in 1 .. k - 1 : scan[m] # n
  <2>1. Len(scan) \in Nat /\ \A m \in 1 .. k - 1 : m \in 1 .. Len(scan) /\ m # k
    OBVIOUS
  <2> QED BY <2>1 DEF Distincts
<1>4. \A j \in 2 .. c : \A m \in 1 .. k : icons[j].name = scan[m] =>
         m \in 1 .. k - 1 \/ icons[j].name = n
  OBVIOUS
<1>5. \A m \in 1 .. k - 1 : m \in 1 .. k
  OBVIOUS
<1>6. CASE Icons!Retain(l, n) = l /\ (Icons!Distinct => \A j \in 2 .. c : icons[j].name # n)
  BY <1>1, <1>4, <1>5, <1>6 DEF RetainedOk
<1>7. ASSUME NEW j \in 2 .. c, icons[j].name = n, Icons!CellOf(n) \notin Icons!Taken(l)
      PROVE  RetainedOk(scan, k, Icons!Retain(l, n))
  <2>1. Icons!Retain(l, n) = Append(l, [name |-> n, cell |-> Icons!CellOf(n)])
    BY <1>1, <1>2, <1>7 DEF Icons!Retain
  <2>2. icons[j] \in IconRecord /\ Icons!CellOf(n) = icons[j].cell
    BY <1>2, <1>7
  <2>3. [name |-> n, cell |-> Icons!CellOf(n)] = icons[j]
    BY <1>7, <2>2 DEF IconRecord
  <2> DEFINE a == Append(l, icons[j])
  <2>4. a = Icons!Retain(l, n)
    BY <2>1, <2>3
  <2>5. icons[j].name \notin {l[i].name : i \in 2 .. s}
    <3> SUFFICES ASSUME NEW i \in 2 .. s, l[i].name = n PROVE FALSE
      BY <1>7
    <3>1. PICK jj \in 2 .. count, m \in 1 .. k - 1 : l[i] = icons[jj] /\ icons[jj].name = scan[m]
      BY <1>1 DEF RetainedOk
    <3> QED BY <1>3, <3>1
  <2>6. ListOk(a)
    BY <1>1, <1>3, <1>7, <2>2, <2>5, AppendOk DEF RetainedOk
  <2>7. Len(a) = s + 1 /\ (\A i \in 1 .. s : a[i] = l[i]) /\ a[s + 1] = icons[j]
    BY <1>1, <2>2, AppendFacts
  <2> HIDE DEF a
  <2>8. a[1] = icons[1]
    BY <1>1, <2>7 DEF RetainedOk
  <2>9. ASSUME NEW i \in 2 .. s + 1
        PROVE  \E jj \in 2 .. c, m \in 1 .. k : a[i] = icons[jj] /\ icons[jj].name = scan[m]
    <3>1. CASE i = s + 1
      BY <1>7, <2>7, <3>1
    <3>2. CASE i # s + 1
      <4>1. i \in 2 .. s /\ a[i] = l[i]
        BY <1>1, <2>7, <3>2
      <4>2. PICK jj \in 2 .. c, m \in 1 .. k - 1 : l[i] = icons[jj] /\ icons[jj].name = scan[m]
        BY <1>1, <4>1 DEF RetainedOk
      <4> QED BY <1>5, <4>1, <4>2
    <3> QED BY <3>1, <3>2
  <2>10. ASSUME Icons!Distinct, NEW jj \in 2 .. c, NEW m \in 1 .. k, icons[jj].name = scan[m]
         PROVE  \E i \in 2 .. s + 1 : a[i] = icons[jj]
    <3>1. CASE m \in 1 .. k - 1
      <4>1. PICK i \in 2 .. s : l[i] = icons[jj]
        BY <1>1, <2>10, <3>1 DEF RetainedOk
      <4>2. i \in 1 .. s /\ i \in 2 .. s + 1
        BY <1>1
      <4> QED BY <2>7, <4>1, <4>2
    <3>2. CASE m \notin 1 .. k - 1
      <4>1. icons[jj].name = icons[j].name
        BY <1>4, <1>7, <2>10, <3>2
      <4>2. jj = j
        BY <1>1, <1>2, <4>1 DEF IconsOk, NamesOk
      <4>3. s + 1 \in 2 .. s + 1
        BY <1>1
      <4> QED BY <2>7, <4>2, <4>3
    <3> QED BY <3>1, <3>2
  <2> QED BY <1>1, <2>4, <2>6, <2>7, <2>8, <2>9, <2>10 DEF RetainedOk
<1>8. ASSUME NEW j \in 2 .. c, icons[j].name = n, Icons!CellOf(n) \in Icons!Taken(l)
      PROVE  Icons!Retain(l, n) = l /\ ~Icons!Distinct
  <2>1. PICK i \in 1 .. s : l[i].cell = icons[j].cell
    BY <1>1, <1>2, <1>8 DEF Icons!Taken
  <2>2. PICK jj \in 1 .. c : l[i] = icons[jj] /\ jj # j
    <3>1. CASE i = 1
      BY <1>1, <3>1 DEF RetainedOk
    <3>2. CASE i # 1
      <4>1. i \in 2 .. s
        BY <1>1, <3>2
      <4>2. PICK jj \in 2 .. c, m \in 1 .. k - 1 : l[i] = icons[jj] /\ icons[jj].name = scan[m]
        BY <1>1, <4>1 DEF RetainedOk
      <4> QED BY <1>2, <1>3, <1>8, <4>2
    <3> QED BY <3>1, <3>2
  <2>3. ~Icons!Distinct
    BY <1>1, <1>2, <2>1, <2>2 DEF Icons!Distinct
  <2> QED BY <1>8, <2>3 DEF Icons!Retain
<1>9. CASE n \notin Icons!Named(Tail(Icons!Items))
  <2>1. Icons!Retain(l, n) = l
    BY <1>9 DEF Icons!Retain
  <2> QED BY <1>2, <1>6, <1>9, <2>1
<1>10. CASE n \in Icons!Named(Tail(Icons!Items))
  <2>1. PICK j \in 2 .. c : icons[j].name = n
    BY <1>2, <1>10
  <2> QED BY <1>6, <1>7, <1>8, <2>1
<1> QED BY <1>9, <1>10

LEMMA RetainedFacts ==
  ASSUME IconsOk, NEW scan \in Seq(IconNames), Distincts(scan)
  PROVE  RetainedOk(scan, Len(scan), Icons!Retained(scan))
<1>1. PICK n \in Nat : n = Len(scan)
  OBVIOUS
<1> DEFINE V == Seq(IconRecord)
           start == <<Icons!BinItem>>
           Step(f) == f = [k \in 0 .. n |-> IF k = 0 THEN start ELSE Icons!Retain(f[k - 1], scan[k])]
<1>2. RetainedOk(scan, 0, start) /\ start \in V
  <2>1. icons[1] \in IconRecord /\ Icons!BinItem = icons[1] /\ icons[1].name = Icons!Bin
    BY OldFacts DEF IconsOk, NamesOk
  <2>2. start \in Seq(IconRecord) /\ Len(start) = 1 /\ start[1] = icons[1]
    BY <2>1
  <2> HIDE DEF start
  <2> QED BY <2>1, <2>2 DEF RetainedOk, ListOk, NamesOk
<1> HIDE DEF start
<1>3. \A l \in V : \A k \in 1 .. n : Icons!Retain(l, scan[k]) \in V
  <2> SUFFICES ASSUME NEW l \in V, NEW k \in 1 .. n PROVE Icons!Retain(l, scan[k]) \in V
    OBVIOUS
  <2>1. CASE Icons!Retain(l, scan[k]) = l
    BY <2>1
  <2>2. CASE Icons!Retain(l, scan[k]) # l
    <3>1. /\ scan[k] \in Icons!Named(Tail(Icons!Items))
          /\ Icons!Retain(l, scan[k]) = Append(l, [name |-> scan[k], cell |-> Icons!CellOf(scan[k])])
      BY <2>2 DEF Icons!Retain
    <3>2. PICK j \in 2 .. count : icons[j].name = scan[k]
      BY <3>1, OldFacts
    <3>3. icons[j] \in IconRecord /\ Icons!CellOf(scan[k]) = icons[j].cell
      BY <3>2, OldFacts
    <3>4. [name |-> scan[k], cell |-> Icons!CellOf(scan[k])] \in IconRecord
      BY <3>2, <3>3 DEF IconRecord
    <3> QED BY <3>1, <3>4, AppendFacts
  <2> QED BY <2>1, <2>2
<1>4. \E f : Step(f)
  <2> DEFINE G == [p \in V \X (1 .. n) |-> Icons!Retain(p[1], scan[p[2]])]
  <2>1. G \in [V \X (1 .. n) -> V]
    BY <1>3
  <2> HIDE DEF G, V
  <2>2. PICK f : Stepwise(f, n, V, start, G)
    <3>1. start \in V
      BY <1>2
    <3> QED BY ONLY n \in Nat, <3>1, <2>1, StepsGive
  <2>7. f \in [0 .. n -> V] /\ f[0] = start /\ \A k \in 1 .. n : f[k] = G[<<f[k - 1], k>>]
    BY <2>2 DEF Stepwise
  <2>3. ASSUME NEW k \in 1 .. n PROVE f[k] = Icons!Retain(f[k - 1], scan[k])
    <3>1. k - 1 \in 0 .. n
      BY <1>1
    <3>3. f[k - 1] \in V
      BY ONLY <2>7, <3>1
    <3>2. G[<<f[k - 1], k>>] = Icons!Retain(f[k - 1], scan[k])
      BY <3>3 DEF G
    <3> QED BY <2>7, <3>2
  <2>4. \A k \in 0 .. n : f[k] = IF k = 0 THEN start ELSE Icons!Retain(f[k - 1], scan[k])
    BY <2>7, <2>3
  <2>5. f = [k \in 0 .. n |-> f[k]]
    BY <2>7
  <2>6. f = [k \in 0 .. n |-> IF k = 0 THEN start ELSE Icons!Retain(f[k - 1], scan[k])]
    BY <2>4, <2>5
  <2> QED BY <2>6
<1> DEFINE f == CHOOSE f : Step(f)
<1>5. Step(f)
  BY <1>4
<1>6. Icons!Retained(scan) = f[n]
  BY <1>1 DEF Icons!Retained, start
<1> HIDE DEF f
<1>7. f[0] = start /\ \A k \in 1 .. n : f[k] = Icons!Retain(f[k - 1], scan[k])
  BY <1>5
<1> DEFINE S == {k \in 0 .. n : RetainedOk(scan, k, f[k])}
<1>8. 0 \in S
  BY <1>2, <1>7
<1>9. ASSUME NEW k \in 1 .. n, k - 1 \in S PROVE k \in S
  <2>1. k \in 1 .. Len(scan) /\ RetainedOk(scan, k - 1, f[k - 1])
    BY <1>1, <1>9
  <2>2. RetainedOk(scan, k, Icons!Retain(f[k - 1], scan[k]))
    BY <2>1, RetainStep
  <2> QED BY <1>7, <2>2
<1> HIDE DEF S
<1>10. \A k \in 0 .. n : k \in S
  BY <1>8, <1>9, GoesOn
<1>11. n \in S
  BY <1>10
<1> QED BY <1>1, <1>6, <1>11 DEF S
-----------------------------------------------------------------------------
(* There is a free cell for every name of a scan. *)

LEMMA CellCount == IsFiniteSet(Icons!Cells) /\ Cardinality(Icons!Cells) = Cols * Rows
<1>1. Cols \in Nat /\ Rows \in Nat /\ Cols > 0 /\ Rows > 0
  BY IconAssumption
<1>2. /\ IsFiniteSet(0 .. Cols - 1) /\ Cardinality(0 .. Cols - 1) = Cols
      /\ IsFiniteSet(0 .. Rows - 1) /\ Cardinality(0 .. Rows - 1) = Rows
  <2>1. 0 \in Int /\ Cols - 1 \in Int /\ Rows - 1 \in Int
    BY <1>1
  <2>2. /\ IsFiniteSet(0 .. Cols - 1) /\ Cardinality(0 .. Cols - 1) = IF 0 > Cols - 1 THEN 0 ELSE (Cols - 1) - 0 + 1
        /\ IsFiniteSet(0 .. Rows - 1) /\ Cardinality(0 .. Rows - 1) = IF 0 > Rows - 1 THEN 0 ELSE (Rows - 1) - 0 + 1
    BY ONLY <2>1, FS_Interval
  <2> QED BY ONLY <1>1, <2>2
<1> DEFINE A == 0 .. Cols - 1
           B == 0 .. Rows - 1
<1>3. IsFiniteSet(A) /\ IsFiniteSet(B) /\ Cardinality(A) = Cols /\ Cardinality(B) = Rows /\ Icons!Cells = A \X B
  BY <1>2 DEF Icons!Cells
<1> HIDE DEF A, B
<1>4. IsFiniteSet(A \X B) /\ Cardinality(A \X B) = Cardinality(A) * Cardinality(B)
  BY <1>3, FS_Product
<1> QED BY <1>3, <1>4

LEMMA FreeCell ==
  ASSUME NEW l, ListOk(l), NEW scan \in Seq(IconNames), Len(scan) < Capacity, NEW k \in 1 .. Len(scan),
         \A i \in 2 .. Len(l) : l[i].name \in Icons!Range(scan) \ {scan[k]}
  PROVE  ~(Icons!Cells \subseteq Icons!Taken(l))
<1>1. PICK m \in Nat, c \in Nat : m = Len(l) /\ c = Len(scan) /\ m >= 1 /\ l \in Seq(IconRecord) /\ DOMAIN l = 1 .. m /\ k \in 1 .. c
  BY DEF ListOk, NamesOk
<1> DEFINE T == Icons!Range(scan) \ {scan[k]}
<1>2. IsFiniteSet(T) /\ Cardinality(T) \in Nat /\ Cardinality(T) <= c - 1
  <2>1. IsFiniteSet(1 .. c) /\ Cardinality(1 .. c) = c
    <3>1. 1 \in Int /\ c \in Int /\ c \in Nat
      OBVIOUS
    <3>2. IsFiniteSet(1 .. c) /\ Cardinality(1 .. c) = IF 1 > c THEN 0 ELSE c - 1 + 1
      BY ONLY <3>1, FS_Interval
    <3> QED BY ONLY <3>1, <3>2
  <2> DEFINE g == [i \in 1 .. c |-> scan[i]]
  <2>2. g \in Surjection(1 .. c, Icons!Range(scan))
    BY <1>1 DEF Surjection, Icons!Range
  <2> HIDE DEF g
  <2>3. IsFiniteSet(Icons!Range(scan)) /\ Cardinality(Icons!Range(scan)) <= c
    BY <2>1, <2>2, FS_Surjection
  <2>4. scan[k] \in Icons!Range(scan)
    BY <1>1 DEF Icons!Range
  <2>5. IsFiniteSet(T) /\ Cardinality(T) = Cardinality(Icons!Range(scan)) - 1
    BY <2>3, <2>4, FS_RemoveElement
  <2>6. Cardinality(T) \in Nat /\ Cardinality(Icons!Range(scan)) \in Nat
    BY <2>3, <2>5, FS_CardinalityType
  <2> QED BY ONLY <2>3, <2>5, <2>6, c \in Nat
<1> HIDE DEF T
<1>3. m <= c
  <2> DEFINE g == [i \in 2 .. m |-> l[i].name]
  <2>1. \A i \in 2 .. m : i \in 1 .. m
    BY <1>1
  <2>2. g \in [2 .. m -> T]
    BY <1>1 DEF T
  <2>3. \A i \in 2 .. m : \A j \in 2 .. m : g[i] = g[j] => i = j
    BY <1>1, <2>1 DEF ListOk, NamesOk
  <2> HIDE DEF g
  <2>4. g \in Injection(2 .. m, T)
    BY <2>2, <2>3 DEF Injection, IsInjective
  <2>5. Cardinality(2 .. m) <= Cardinality(T)
    BY <1>2, <2>4, FS_Injection
  <2>6. Cardinality(2 .. m) = IF 2 > m THEN 0 ELSE m - 2 + 1
    BY FS_Interval
  <2> QED BY ONLY <1>1, <1>2, <2>5, <2>6, m \in Nat, c \in Nat
<1>4. IsFiniteSet(Icons!Taken(l)) /\ Cardinality(Icons!Taken(l)) \in Nat /\ Cardinality(Icons!Taken(l)) <= m
  <2>1. IsFiniteSet(1 .. m) /\ Cardinality(1 .. m) = m
    <3>1. 1 \in Int /\ m \in Int /\ m \in Nat
      OBVIOUS
    <3>2. IsFiniteSet(1 .. m) /\ Cardinality(1 .. m) = IF 1 > m THEN 0 ELSE m - 1 + 1
      BY ONLY <3>1, FS_Interval
    <3> QED BY ONLY <3>1, <3>2
  <2> DEFINE g == [i \in 1 .. m |-> l[i].cell]
  <2>2. g \in Surjection(1 .. m, Icons!Taken(l))
    BY <1>1 DEF Surjection, Icons!Taken
  <2> HIDE DEF g
  <2> QED BY <2>1, <2>2, FS_Surjection, FS_CardinalityType
<1>5. Capacity \in Nat /\ Capacity <= Cols * Rows /\ Cols * Rows \in Nat
  BY IconAssumption
<1>6. Cardinality(Icons!Taken(l)) < Cardinality(Icons!Cells)
  <2>1. Cardinality(Icons!Cells) = Cols * Rows /\ c < Capacity
    BY <1>1, CellCount
  <2> HIDE DEF Icons!Cells
  <2> QED BY ONLY <1>3, <1>4, <1>5, <2>1, m \in Nat, c \in Nat
<1>7. ASSUME Icons!Cells \subseteq Icons!Taken(l) PROVE FALSE
  <2>1. Cardinality(Icons!Cells) <= Cardinality(Icons!Taken(l)) /\ Cardinality(Icons!Cells) \in Nat
    BY <1>4, <1>7, FS_Subset, FS_CardinalityType, CellCount
  <2> QED BY ONLY <1>4, <1>6, <2>1
<1> QED BY <1>7

LEMMA HasLeast ==
  ASSUME NEW S, S \subseteq Nat, S # {}
  PROVE  \E x \in S : \A y \in S : x <= y
<1> DEFINE R == {p \in Nat \X Nat : p[1] < p[2]}
<1>1. IsWellFoundedOn(R, Nat)
  <2>1. R = OpToRel(<, Nat)
    BY DEF OpToRel
  <2> QED BY <2>1, NatLessThanWellFounded
<1>2. PICK x \in S : \A y \in S : ~ (<<y, x>> \in R)
  BY <1>1, WFMin
<1>3. ASSUME NEW y \in S PROVE x <= y
  <2>1. x \in Nat /\ y \in Nat /\ ~(y < x)
    BY <1>2
  <2> QED BY ONLY <2>1
<1> QED BY <1>3

LEMMA FirstFreeIs ==
  ASSUME NEW l, ~(Icons!Cells \subseteq Icons!Taken(l))
  PROVE  Icons!FirstFree(l) \in Nat \X Nat /\ Icons!FirstFree(l) \notin Icons!Taken(l)
<1> DEFINE C == Icons!Cells \ Icons!Taken(l)
           As == {c[1] : c \in C}
<1>1. \A c \in C : c[1] \in Nat /\ c[2] \in Nat /\ c = <<c[1], c[2]>>
  BY IconAssumption DEF Icons!Cells
<1>2. PICK a \in As : \A b \in As : a <= b
  BY <1>1, HasLeast
<1> DEFINE Bs == {c[2] : c \in {d \in C : d[1] = a}}
<1>3. PICK b \in Bs : \A d \in Bs : b <= d
  <2>1. Bs \subseteq Nat /\ Bs # {}
    BY <1>1
  <2> HIDE DEF Bs
  <2> QED BY <2>1, HasLeast
<1>4. PICK c \in C : c[1] = a /\ c[2] = b
  OBVIOUS
<1>5. ASSUME NEW d \in C PROVE Icons!Before(c, d)
  <2>1. a <= d[1] /\ a \in Nat /\ d[1] \in Nat
    BY <1>1, <1>2, <1>4
  <2>2. d[1] = a => b <= d[2]
    BY <1>3
  <2> QED BY <1>4, <2>1, <2>2 DEF Icons!Before
<1>6. Icons!FirstFree(l) \in C
  <2> HIDE DEF C
  <2> QED BY <1>4, <1>5 DEF Icons!FirstFree, C
<1> QED BY <1>1, <1>6
-----------------------------------------------------------------------------
\* The icons that were shown, and the names up to the k-th.
PlacedOk(scan, k, r, l) ==
  /\ ListOk(l) /\ Len(r) <= Len(l) /\ \A i \in 1 .. Len(r) : l[i] = r[i]
  /\ \A i \in 2 .. Len(l) : l[i].name \in Icons!Range(scan)
  /\ \A m \in 1 .. k : \E i \in 2 .. Len(l) : l[i].name = scan[m]

LEMMA PlaceStep ==
  ASSUME NEW scan \in Seq(IconNames), Len(scan) < Capacity, NEW k \in 1 .. Len(scan),
         NEW r \in Seq(IconRecord), NEW l, PlacedOk(scan, k - 1, r, l)
  PROVE  PlacedOk(scan, k, r, Icons!Place(l, scan[k]))
<1> DEFINE n == scan[k]
<1>1. PICK s \in Nat, c \in Nat : s = Len(l) /\ s >= 1 /\ c = Len(r) /\ c <= s /\ l \in Seq(IconRecord) /\ l # << >>
  BY DEF PlacedOk, ListOk, NamesOk
<1>2. Icons!Named(Tail(l)) = {l[i].name : i \in 2 .. s}
  BY <1>1, TailNames
<1>3. n \in IconNames /\ n \in Icons!Range(scan)
  BY DEF Icons!Range
<1>4. \A m \in 1 .. k : m \in 1 .. k - 1 \/ m = k
  OBVIOUS
<1>5. CASE n \in Icons!Named(Tail(l))
  <2>1. Icons!Place(l, n) = l
    BY <1>5 DEF Icons!Place
  <2>2. \E i \in 2 .. s : l[i].name = n
    BY <1>2, <1>5
  <2> QED BY <1>1, <1>4, <2>1, <2>2 DEF PlacedOk
<1>6. CASE n \notin Icons!Named(Tail(l))
  <2> DEFINE e == [name |-> n, cell |-> Icons!FirstFree(l)]
             a == Append(l, e)
  <2>1. \A i \in 2 .. s : l[i].name \in Icons!Range(scan) \ {n}
    BY <1>1, <1>2, <1>6 DEF PlacedOk
  <2>2. ~(Icons!Cells \subseteq Icons!Taken(l))
    BY <1>1, <2>1, FreeCell DEF PlacedOk
  <2>3. a = Icons!Place(l, n)
    BY <1>6, <2>2 DEF Icons!Place
  <2>4. e \in IconRecord /\ e.name = n /\ e.cell \notin Icons!Taken(l)
    BY <1>3, <2>2, FirstFreeIs DEF IconRecord
  <2> HIDE DEF e
  <2>5. ListOk(a)
    BY <1>1, <1>2, <1>3, <1>6, <2>4, AppendOk DEF PlacedOk
  <2>6. Len(a) = s + 1 /\ (\A i \in 1 .. s : a[i] = l[i]) /\ a[s + 1] = e
    BY <1>1, <2>4, AppendFacts
  <2> HIDE DEF a
  <2>7. ASSUME NEW i \in 1 .. c PROVE a[i] = r[i]
    <3>1. i \in 1 .. s /\ l[i] = r[i]
      BY <1>1 DEF PlacedOk
    <3> QED BY <2>6, <3>1
  <2>8. ASSUME NEW i \in 2 .. s + 1 PROVE a[i].name \in Icons!Range(scan)
    <3>1. CASE i = s + 1
      BY <1>3, <2>4, <2>6, <3>1
    <3>2. CASE i # s + 1
      <4>1. i \in 2 .. s /\ i \in 1 .. s
        BY <1>1, <3>2
      <4> QED BY <2>1, <2>6, <4>1
    <3> QED BY <3>1, <3>2
  <2>9. ASSUME NEW m \in 1 .. k PROVE \E i \in 2 .. s + 1 : a[i].name = scan[m]
    <3>1. CASE m = k
      <4>1. s + 1 \in 2 .. s + 1
        BY <1>1
      <4> QED BY <2>4, <2>6, <3>1, <4>1
    <3>2. CASE m # k
      <4>1. PICK i \in 2 .. s : l[i].name = scan[m]
        BY <1>1, <1>4, <3>2 DEF PlacedOk
      <4>2. i \in 2 .. s + 1 /\ i \in 1 .. s
        BY <1>1
      <4> QED BY <2>6, <4>1, <4>2
    <3> QED BY <3>1, <3>2
  <2>10. c <= s + 1
    BY <1>1
  <2> QED BY <1>1, <2>3, <2>5, <2>6, <2>7, <2>8, <2>9, <2>10 DEF PlacedOk
<1> QED BY <1>5, <1>6

LEMMA PlacedFacts ==
  ASSUME NEW scan \in Seq(IconNames), Len(scan) < Capacity,
         NEW r, r = Icons!Retained(scan), PlacedOk(scan, 0, r, r)
  PROVE  PlacedOk(scan, Len(scan), r, Icons!Placed(scan))
<1>1. PICK n \in Nat : n = Len(scan)
  OBVIOUS
<1> DEFINE V == Seq(IconRecord)
           Step(f) == f = [k \in 0 .. n |-> IF k = 0 THEN r ELSE Icons!Place(f[k - 1], scan[k])]
<1>2. r \in V
  BY DEF PlacedOk, ListOk
<1>3. ASSUME NEW l \in V, NEW k \in 1 .. n PROVE Icons!Place(l, scan[k]) \in V
  <2>1. CASE Icons!Place(l, scan[k]) = l
    BY <2>1
  <2>2. CASE Icons!Place(l, scan[k]) # l
    <3>1. ~(Icons!Cells \subseteq Icons!Taken(l)) /\ Icons!Place(l, scan[k]) = Append(l, [name |-> scan[k], cell |-> Icons!FirstFree(l)])
      BY <2>2 DEF Icons!Place
    <3>2. scan[k] \in IconNames
      BY <1>1
    <3>3. [name |-> scan[k], cell |-> Icons!FirstFree(l)] \in IconRecord
      BY <3>1, <3>2, FirstFreeIs DEF IconRecord
    <3> QED BY <3>1, <3>3, AppendFacts
  <2> QED BY <2>1, <2>2
<1>4. \E f : Step(f)
  <2> DEFINE G == [p \in V \X (1 .. n) |-> Icons!Place(p[1], scan[p[2]])]
  <2>1. G \in [V \X (1 .. n) -> V]
    BY <1>3
  <2> HIDE DEF G, V
  <2>2. PICK f : Stepwise(f, n, V, r, G)
    BY ONLY n \in Nat, <1>2, <2>1, StepsGive
  <2>3. f \in [0 .. n -> V] /\ f[0] = r /\ \A k \in 1 .. n : f[k] = G[<<f[k - 1], k>>]
    BY <2>2 DEF Stepwise
  <2>4. ASSUME NEW k \in 1 .. n PROVE f[k] = Icons!Place(f[k - 1], scan[k])
    <3>1. k - 1 \in 0 .. n
      BY <1>1
    <3>2. f[k - 1] \in V
      BY ONLY <2>3, <3>1
    <3>3. G[<<f[k - 1], k>>] = Icons!Place(f[k - 1], scan[k])
      BY <3>2 DEF G
    <3> QED BY <2>3, <3>3
  <2>5. \A k \in 0 .. n : f[k] = IF k = 0 THEN r ELSE Icons!Place(f[k - 1], scan[k])
    BY <2>3, <2>4
  <2>6. f = [k \in 0 .. n |-> f[k]]
    BY <2>3
  <2>7. f = [k \in 0 .. n |-> IF k = 0 THEN r ELSE Icons!Place(f[k - 1], scan[k])]
    BY <2>5, <2>6
  <2> QED BY <2>7
<1> DEFINE f == CHOOSE f : Step(f)
<1>5. Step(f)
  BY <1>4
<1>6. Icons!Placed(scan) = f[n]
  BY <1>1 DEF Icons!Placed
<1> HIDE DEF f
<1>7. f[0] = r /\ \A k \in 1 .. n : f[k] = Icons!Place(f[k - 1], scan[k])
  BY <1>5
<1> DEFINE S == {k \in 0 .. n : PlacedOk(scan, k, r, f[k])}
<1>8. 0 \in S
  BY <1>7
<1>9. ASSUME NEW k \in 1 .. n, k - 1 \in S PROVE k \in S
  <2>1. k \in 1 .. Len(scan) /\ PlacedOk(scan, k - 1, r, f[k - 1])
    BY <1>1, <1>9
  <2>2. PlacedOk(scan, k, r, Icons!Place(f[k - 1], scan[k]))
    BY <1>2, <2>1, PlaceStep
  <2> QED BY <1>7, <2>2
<1> HIDE DEF S
<1>10. \A k \in 0 .. n : k \in S
  BY <1>8, <1>9, GoesOn
<1>11. n \in S
  BY <1>10
<1> QED BY <1>1, <1>6, <1>11 DEF S
-----------------------------------------------------------------------------
DirOk(dir) == dir \in Seq(IconNames) /\ Distincts(dir)

LEMMA ScanFacts ==
  ASSUME NEW dir, DirOk(dir)
  PROVE  /\ Icons!Scanned(dir) \in Seq(IconNames) /\ Distincts(Icons!Scanned(dir)) /\ Len(Icons!Scanned(dir)) < Capacity
         /\ Len(dir) < Capacity => Icons!Scanned(dir) = dir
<1>1. PICK n \in Nat, c \in Nat : n = Len(dir) /\ c = Capacity /\ c >= 1 /\ dir \in Seq(IconNames)
  BY IconAssumption DEF DirOk
<1> DEFINE k == IF n < c THEN n ELSE c - 1
<1>2. PICK m \in Nat : m = k /\ m <= n /\ m < c /\ (n < c => m = n)
  <2>1. k \in Nat /\ k <= n /\ k < c /\ (n < c => k = n)
    BY <1>1
  <2> HIDE DEF k
  <2> QED BY <2>1
<1>3. PICK s \in Seq(IconNames) : s = Icons!Scanned(dir) /\ Len(s) = m /\ \A i \in 1 .. m : s[i] = dir[i]
  <2>2. /\ SubSeq(dir, 1, m) \in Seq(IconNames) /\ Len(SubSeq(dir, 1, m)) = m
        /\ \A i \in 1 .. m : SubSeq(dir, 1, m)[i] = dir[i]
    BY <1>1, <1>2
  <2>1. PICK s \in Seq(IconNames) : s = SubSeq(dir, 1, m) /\ Len(s) = m /\ \A i \in 1 .. m : s[i] = dir[i]
    BY <2>2
  <2> QED BY <1>1, <1>2, <2>1 DEF Icons!Scanned
<1>4. Distincts(s)
  <2>1. DOMAIN s = 1 .. m /\ DOMAIN dir = 1 .. n /\ \A i \in 1 .. m : i \in 1 .. n
    BY <1>1, <1>2, <1>3
  <2> QED BY <1>1, <1>3, <2>1 DEF DirOk, Distincts
<1>5. n < c => s = dir
  <2> SUFFICES ASSUME n < c PROVE s = dir
    OBVIOUS
  <2>1. Len(s) = Len(dir) /\ \A i \in 1 .. Len(s) : s[i] = dir[i]
    BY <1>1, <1>2, <1>3
  <2> QED BY <1>1, <2>1, SeqEqual
<1> QED BY <1>1, <1>2, <1>3, <1>4, <1>5

\* The icons after a scan.
ListingOk(scan, l) ==
  /\ ListOk(l) /\ l[1] = icons[1]
  /\ {l[i].name : i \in 2 .. Len(l)} = Icons!Range(scan)
  /\ Icons!Distinct => \A j \in 2 .. count : icons[j].name \in Icons!Range(scan) => \E i \in 2 .. Len(l) : l[i] = icons[j]

LEMMA IconsListed ==
  ASSUME IconsOk, NEW dir, DirOk(dir)
  PROVE  ListingOk(Icons!Scanned(dir), Icons!Listed(dir))
<1>1. PICK scan \in Seq(IconNames) : scan = Icons!Scanned(dir) /\ Distincts(scan) /\ Len(scan) < Capacity
  BY ScanFacts
<1>2. PICK n \in Nat : n = Len(scan) /\ Icons!Range(scan) = {scan[m] : m \in 1 .. n}
  BY DEF Icons!Range
<1>3. PICK r : r = Icons!Retained(scan) /\ RetainedOk(scan, n, r)
  BY <1>1, <1>2, RetainedFacts
<1>4. PICK s \in Nat : s = Len(r) /\ s >= 1 /\ r \in Seq(IconRecord)
  BY <1>3 DEF RetainedOk, ListOk, NamesOk
<1>5. PlacedOk(scan, 0, r, r)
  <2>1. ASSUME NEW i \in 2 .. s PROVE r[i].name \in Icons!Range(scan)
    BY <1>2, <1>3, <1>4 DEF RetainedOk
  <2> QED BY <1>3, <1>4, <2>1 DEF PlacedOk, RetainedOk
<1>6. PICK l : l = Icons!Listed(dir) /\ PlacedOk(scan, n, r, l)
  BY <1>1, <1>2, <1>3, <1>5, PlacedFacts DEF Icons!Listed
<1>7. PICK q \in Nat : q = Len(l) /\ s <= q
  BY <1>4, <1>6 DEF PlacedOk, ListOk
<1>8. l[1] = icons[1]
  BY <1>3, <1>4, <1>6 DEF PlacedOk, RetainedOk
<1>9. {l[i].name : i \in 2 .. q} = Icons!Range(scan)
  <2>1. /\ \A i \in 2 .. q : l[i].name \in Icons!Range(scan)
        /\ \A m \in 1 .. n : \E i \in 2 .. q : l[i].name = scan[m]
    BY <1>6, <1>7 DEF PlacedOk
  <2> QED BY ONLY <1>2, <2>1
<1>10. ASSUME Icons!Distinct, NEW j \in 2 .. count, icons[j].name \in Icons!Range(scan)
       PROVE  \E i \in 2 .. q : l[i] = icons[j]
  <2>1. PICK m \in 1 .. n : icons[j].name = scan[m]
    BY <1>2, <1>10
  <2>2. PICK i \in 2 .. s : r[i] = icons[j]
    BY <1>3, <1>4, <1>10, <2>1 DEF RetainedOk
  <2>3. i \in 1 .. s /\ i \in 2 .. q
    BY <1>7
  <2>4. l[i] = r[i]
    BY <1>4, <1>6, <2>3 DEF PlacedOk
  <2> QED BY <2>2, <2>3, <2>4
<1> QED BY <1>1, <1>6, <1>7, <1>8, <1>9, <1>10 DEF ListingOk, PlacedOk

\* The names shown of a table of icons.
LEMMA ShownNames ==
  ASSUME NEW x \in Seq(IconRecord), NEW n \in 1 .. Len(x)
  PROVE  Icons!Named(Tail(SubSeq(x, 1, n))) = {x[i].name : i \in 2 .. n}
<1>4. /\ SubSeq(x, 1, n) \in Seq(IconRecord) /\ Len(SubSeq(x, 1, n)) = n
      /\ \A i \in 1 .. n : SubSeq(x, 1, n)[i] = x[i]
  OBVIOUS
<1>1. PICK s \in Seq(IconRecord) : s = SubSeq(x, 1, n) /\ Len(s) = n /\ \A i \in 1 .. n : s[i] = x[i]
  BY <1>4
<1>2. s # << >> /\ n \in Nat /\ \A i \in 2 .. n : i \in 1 .. n
  BY <1>1
<1>3. Icons!Named(Tail(s)) = {s[i].name : i \in 2 .. n}
  BY <1>1, <1>2, TailNames
<1> QED BY ONLY <1>1, <1>2, <1>3

\* The icons are what the directory holds.
ListsAll(dir) == {icons[i].name : i \in 2 .. count} = Icons!Range(Icons!Scanned(dir))

LEMMA SyncFacts ==
  ASSUME IconsOk, NEW dir, DirOk(dir), Icons!Sync(dir)
  PROVE  /\ IconsOk' /\ Icons!Distinct' /\ scanned' = TRUE /\ Len(icons) <= Len(icons')
         /\ {icons'[i].name : i \in 2 .. count'} = Icons!Range(Icons!Scanned(dir))
         /\ Icons!Distinct => \A i \in 1 .. count : \A j \in 1 .. count' :
                           icons[i].name = icons'[j].name => icons[i].cell = icons'[j].cell
<1>1. PICK l : l = Icons!Listed(dir) /\ ListingOk(Icons!Scanned(dir), l)
  BY IconsListed
<1>2. PICK n \in Nat, m \in Nat : n = Len(l) /\ n >= 1 /\ m = Len(icons) /\ l \in Seq(IconRecord) /\ icons \in Seq(IconRecord)
  BY <1>1 DEF ListingOk, ListOk, NamesOk, IconsOk
<1>3. PICK x \in Seq(IconRecord) : x = Icons!Slots(l) /\ n <= Len(x) /\ m <= Len(x) /\ \A i \in 1 .. n : x[i] = l[i]
  <2>8. SubSeq(icons, n + 1, m) \in Seq(IconRecord)
    <3>1. \A i \in n + 1 .. m : i \in 1 .. Len(icons)
      BY <1>2
    <3>2. n + 1 \in Int /\ m \in Int
      BY <1>2
    <3> QED BY <1>2, <3>1, <3>2, SubSeqProperties
  <2>1. PICK b \in Seq(IconRecord) : b = SubSeq(icons, n + 1, m)
    BY <2>8
  <2>2. /\ l \o b \in Seq(IconRecord) /\ Len(l \o b) = Len(l) + Len(b)
        /\ \A i \in 1 .. Len(l) + Len(b) : (l \o b)[i] = IF i <= Len(l) THEN l[i] ELSE b[i - Len(l)]
    BY <1>2, ConcatProperties
  <2>9. Len(SubSeq(icons, n + 1, m)) = IF n + 1 <= m THEN m - (n + 1) + 1 ELSE 0
    <3>1. \A i \in n + 1 .. m : i \in 1 .. Len(icons)
      BY <1>2
    <3>2. n + 1 \in Int /\ m \in Int
      BY <1>2
    <3> QED BY <1>2, <3>1, <3>2, SubSeqProperties
  <2>3. PICK q \in Nat : q = Len(b) /\ m <= n + q
    <3>1. Len(b) \in Nat /\ Len(b) = IF n + 1 <= m THEN m - (n + 1) + 1 ELSE 0
      BY <2>1, <2>9
    <3>2. m <= n + Len(b)
      BY ONLY <3>1, n \in Nat, m \in Nat
    <3> QED BY <3>1, <3>2
  <2>4. PICK x \in Seq(IconRecord) : x = l \o b
    BY <2>2
  <2>5. Len(x) = n + q /\ \A i \in 1 .. n + q : x[i] = IF i <= n THEN l[i] ELSE b[i - n]
    BY <1>2, <2>2, <2>3, <2>4
  <2>6. n <= Len(x) /\ m <= Len(x) /\ \A i \in 1 .. n : x[i] = l[i]
    BY <2>3, <2>5
  <2>7. x = Icons!Slots(l)
    BY <1>2, <2>1, <2>4 DEF Icons!Slots
  <2> QED BY <2>6, <2>7
<1>4. icons' = x /\ count' = n /\ scanned' = TRUE
  BY <1>1, <1>2, <1>3 DEF Icons!Sync
<1>5. \A i \in 2 .. n : i \in 1 .. n
  BY <1>2
<1>6. /\ l[1].name = Icons!Bin /\ l[1] = icons[1]
      /\ \A i \in 2 .. n : l[i].name \in IconNames
      /\ \A i \in 1 .. n : \A j \in 1 .. n : i # j => l[i].name # l[j].name /\ l[i].cell # l[j].cell
      /\ {l[i].name : i \in 2 .. n} = Icons!Range(Icons!Scanned(dir))
      /\ Icons!Distinct => \A j \in 2 .. count : icons[j].name \in Icons!Range(Icons!Scanned(dir)) => \E i \in 2 .. n : l[i] = icons[j]
  BY <1>1, <1>2 DEF ListingOk, ListOk, NamesOk
<1>7. NamesOk(x, n)
  <2>1. n \in 1 .. Len(x) /\ 1 \in 1 .. n
    BY <1>2, <1>3
  <2>2. x[1].name = Icons!Bin
    BY ONLY <1>3, <1>6, <2>1
  <2>3. /\ \A i \in 2 .. n : x[i].name \in IconNames
        /\ \A i \in 1 .. n : \A j \in 1 .. n : i # j => x[i].name # x[j].name
    BY ONLY <1>3, <1>5, <1>6
  <2> QED BY <2>1, <2>2, <2>3 DEF NamesOk
<1>8. IconsOk'
  BY <1>2, <1>4, <1>7 DEF IconsOk, NamesOk
<1>9. Icons!Distinct'
  <2>1. \A i, j \in 1 .. n : i # j => x[i].cell # x[j].cell
    BY ONLY <1>3, <1>6
  <2> QED BY <1>4, <2>1 DEF Icons!Distinct
<1>10. {x[i].name : i \in 2 .. n} = Icons!Range(Icons!Scanned(dir))
  BY ONLY <1>3, <1>5, <1>6
<1>11. ASSUME Icons!Distinct, NEW i \in 1 .. count, NEW j \in 1 .. n, icons[i].name = x[j].name
       PROVE  icons[i].cell = x[j].cell
  <2>1. PICK c \in Nat \ {0} : c = count /\ icons[1].name = Icons!Bin /\ \A k \in 2 .. c : icons[k].name \in IconNames
    BY DEF IconsOk, NamesOk
  <2>2. x[j] = l[j]
    BY <1>3
  <2>3. CASE i = 1
    <3>1. j = 1
      <4>1. j \notin 2 .. n
        BY <1>6, <1>11, <2>1, <2>2, <2>3, IconAssumption
      <4> QED BY <1>2, <4>1
    <3> QED BY <1>6, <2>2, <2>3, <3>1
  <2>4. CASE i # 1
    <3>1. i \in 2 .. c
      BY <2>1, <2>4
    <3>2. j # 1
      BY <1>6, <1>11, <2>1, <2>2, <3>1, IconAssumption
    <3>3. j \in 2 .. n
      BY <1>2, <3>2
    <3>4. icons[i].name \in Icons!Range(Icons!Scanned(dir))
      BY <1>6, <1>11, <2>2, <3>3
    <3>5. PICK k \in 2 .. n : l[k] = icons[i]
      BY <1>6, <1>11, <2>1, <3>1, <3>4
    <3>6. k = j
      BY <1>5, <1>6, <1>11, <2>2, <3>5
    <3> QED BY <2>2, <3>5, <3>6
  <2> QED BY <2>3, <2>4
<1>12. Len(icons) <= Len(icons')
  BY <1>2, <1>3, <1>4
<1> QED BY <1>4, <1>8, <1>9, <1>10, <1>11, <1>12
-----------------------------------------------------------------------------
(* The inductive invariant, and what a step may do. *)
IconListing == IconsOk /\ (scanned => ListsAll(folder))
IconFiles == DirOk(folder) /\ full \subseteq Icons!Present
IconRefs == /\ icon \in [sel : Nat, press : 0 .. Len(icons), drag : 0 .. Len(icons)]
        /\ popup.target \in Nat
IconsInv == IconListing /\ IconFiles /\ IconRefs

CellsStep == UNCHANGED <<icons, count>> \/ Icons!Distinct' \/ icon.drag > count
             \/ (~Icons!Distinct /\ (UNCHANGED icons \/ icon.drag # 0))
PositionsStep ==
  UNCHANGED icons \/ icon.drag # 0 \/ ~Icons!Distinct \/
  \A i \in 1 .. count, j \in 1 .. count' : icons[i].name = icons'[j].name => icons[i].cell = icons'[j].cell
ContentsStep ==
  \A n \in full \ full' :
    \/ n \notin Icons!Range(folder')
    \/ asking.mode # Icons!NONE
    \/ ~scanned \/ Len(folder) >= Capacity
    \/ Icons!Range(IconNewNames) \subseteq Icons!Named(Icons!Items)

LEMMA WithoutFacts ==
  ASSUME DirOk(folder), NEW n
  PROVE  DirOk(Icons!Without(n)) /\ Icons!Range(Icons!Without(n)) = Icons!Present \ {n}
<1>1. CASE n \notin Icons!Present
  BY <1>1 DEF Icons!Without, Icons!Present
<1>2. CASE n \in Icons!Present
  <2>1. PICK i \in DOMAIN folder : folder[i] = n
    BY <1>2 DEF Icons!Present, Icons!Range
  <2> DEFINE k == CHOOSE j \in DOMAIN folder : folder[j] = n
  <2>2. k \in DOMAIN folder /\ folder[k] = n
    BY <2>1
  <2> HIDE DEF k
  <2>3. k \in 1 .. Len(folder)
    BY <2>2 DEF DirOk
  <2>4. Icons!Without(n) = Icons!RemoveAt(folder, k)
    BY <1>2 DEF Icons!Without, k
  <2> QED BY <2>2, <2>3, <2>4, RemoveFacts DEF DirOk, Icons!Present
<1> QED BY <1>1, <1>2

LEMMA InsertsFacts ==
  ASSUME NEW dir, DirOk(dir), NEW n \in IconNames, n \notin Icons!Range(dir), NEW d \in Icons!Inserts(n, dir)
  PROVE  DirOk(d) /\ Icons!Range(d) = Icons!Range(dir) \cup {n}
<1>1. PICK i \in 1 .. Len(dir) + 1 : d = Icons!InsertAt(dir, i, n)
  BY DEF Icons!Inserts
<1> QED BY <1>1, InsertFacts DEF DirOk

\* A scan of what the directory has become.
LEMMA Scans ==
  ASSUME IconsInv, DirOk(folder'), full' \subseteq Icons!Range(folder'), Icons!Sync(folder')
  PROVE  IconListing' /\ IconFiles' /\ CellsStep /\ PositionsStep /\ Len(icons) <= Len(icons')
<1>1. PICK dir : dir = folder'
  OBVIOUS
<1>2. /\ IconsOk' /\ Icons!Distinct' /\ scanned' = TRUE /\ Len(icons) <= Len(icons')
      /\ {icons'[i].name : i \in 2 .. count'} = Icons!Range(Icons!Scanned(dir))
      /\ Icons!Distinct => \A i \in 1 .. count : \A j \in 1 .. count' :
                        icons[i].name = icons'[j].name => icons[i].cell = icons'[j].cell
  BY <1>1, SyncFacts DEF IconsInv, IconListing
<1>3. IconListing'
  BY <1>1, <1>2 DEF IconListing, ListsAll, Icons!Scanned
<1>4. IconFiles'
  BY DEF IconFiles, Icons!Present
<1> QED BY <1>2, <1>3, <1>4 DEF CellsStep, PositionsStep

LEMMA IconsStand ==
  ASSUME IconsInv, UNCHANGED <<folder, full, icons, count, scanned>>
  PROVE  IconListing' /\ IconFiles' /\ CellsStep /\ PositionsStep /\ ContentsStep /\ Len(icons) <= Len(icons')
<1>1. folder' = folder /\ full' = full /\ icons' = icons /\ count' = count
  OBVIOUS
<1>2. scanned' => scanned
  OBVIOUS
<1>3. Len(icons) <= Len(icons')
  BY <1>1 DEF IconsInv, IconListing, IconsOk
<1>4. IconListing'
  <2>1. IconsOk'
    BY <1>1 DEF IconsInv, IconListing, IconsOk, NamesOk
  <2>2. ListsAll(folder)' <=> ListsAll(folder)
    BY <1>1 DEF ListsAll, Icons!Scanned
  <2> QED BY <1>2, <2>1, <2>2 DEF IconsInv, IconListing
<1>5. IconFiles'
  BY <1>1 DEF IconsInv, IconFiles, DirOk, Icons!Present
<1> QED BY <1>1, <1>3, <1>4, <1>5 DEF CellsStep, PositionsStep, ContentsStep

\* The indices stay within the slots.
LEMMA RefsStay ==
  ASSUME IconsInv, Len(icons) <= Len(icons'), Len(icons') \in Nat,
         icon' \in [sel : Nat, press : 0 .. Len(icons), drag : 0 .. Len(icons)], popup'.target \in Nat
  PROVE  IconRefs'
<1>1. PICK m \in Nat, n \in Nat : m = Len(icons) /\ n = Len(icons') /\ m <= n
  BY DEF IconsInv, IconListing, IconsOk
<1>2. 0 .. m \subseteq 0 .. n
  BY <1>1
<1>3. icon' \in [sel : Nat, press : 0 .. n, drag : 0 .. n]
  BY <1>1, <1>2
<1> QED BY <1>1, <1>3 DEF IconRefs

LEMMA StartsOk == Icons!Init => IconsInv
<1> SUFFICES ASSUME Icons!Init PROVE IconsInv
  OBVIOUS
<1>1. DirOk(StartIcons)
  BY IconAssumption DEF DirOk, Distincts
<1>2. PICK scan \in Seq(IconNames) :
        scan = Icons!Scanned(StartIcons) /\ Distincts(scan) /\ \A i \in 1 .. Len(scan) : scan[i] = StartIcons[i]
  <2>1. Icons!Scanned(StartIcons) \in Seq(IconNames) /\ Distincts(Icons!Scanned(StartIcons))
    BY <1>1, ScanFacts
  <2>2. ASSUME NEW i \in 1 .. Len(Icons!Scanned(StartIcons)) PROVE Icons!Scanned(StartIcons)[i] = StartIcons[i]
    <3>1. PICK n \in Nat, c \in Nat : n = Len(StartIcons) /\ c = Capacity /\ c >= 1 /\ StartIcons \in Seq(IconNames)
      BY IconAssumption
    <3> DEFINE k == IF n < c THEN n ELSE c - 1
    <3>2. k \in Nat /\ k <= n
      BY <3>1
    <3>3. Icons!Scanned(StartIcons) = SubSeq(StartIcons, 1, k)
      BY <3>1 DEF Icons!Scanned
    <3> HIDE DEF k
    <3>4. Len(SubSeq(StartIcons, 1, k)) = k /\ \A j \in 1 .. k : SubSeq(StartIcons, 1, k)[j] = StartIcons[j]
      BY <3>1, <3>2
    <3> QED BY <3>3, <3>4
  <2> QED BY <2>1, <2>2
<1>3. PICK n \in Nat : n = Len(scan) /\ count = n + 1
  BY <1>2 DEF Icons!Init
<1>4. /\ icons = [i \in 1 .. n + 1 |-> [name |-> IF i = 1 THEN Icons!Bin ELSE StartIcons[i - 1],
                                        cell |-> <<(i - 1) \div Rows, (i - 1) % Rows>>]]
  BY <1>3 DEF Icons!Init
<1>5. ASSUME NEW i \in 2 .. n + 1 PROVE i - 1 \in 1 .. n /\ StartIcons[i - 1] = scan[i - 1] /\ scan[i - 1] \in IconNames
  BY <1>2, <1>3
<1>6. ASSUME NEW i \in 1 .. n + 1 PROVE icons[i] \in IconRecord
  <2>1. PICK q \in Nat, r \in Nat : q = i - 1 /\ r = Rows /\ r > 0
    BY <1>3, IconAssumption
  <2>2. q \div r \in Nat /\ q % r \in Nat
    BY <2>1
  <2>3. (IF i = 1 THEN Icons!Bin ELSE StartIcons[i - 1]) \in IconNames \cup {Icons!Bin}
    <3>1. CASE i = 1
      BY <3>1
    <3>2. CASE i # 1
      <4>1. i \in 2 .. n + 1
        BY <3>2
      <4> QED BY <1>5, <3>2, <4>1
    <3> QED BY <3>1, <3>2
  <2> QED BY <1>4, <2>1, <2>2, <2>3 DEF IconRecord
<1>7. icons \in Seq(IconRecord) /\ Len(icons) = n + 1
  <2>1. icons \in [1 .. n + 1 -> IconRecord]
    BY <1>4, <1>6
  <2> QED BY <1>3, <2>1
<1>8. NamesOk(icons, n + 1)
  <2>1. icons[1].name = Icons!Bin /\ n + 1 \in 1 .. Len(icons)
    BY <1>3, <1>4, <1>7
  <2>2. \A i \in 2 .. n + 1 : i \in 1 .. n + 1 /\ icons[i].name = scan[i - 1] /\ icons[i].name \in IconNames
    BY <1>3, <1>4, <1>5
  <2>3. \A i \in 2 .. n + 1 : \A j \in 2 .. n + 1 : i # j => icons[i].name # icons[j].name
    <3> SUFFICES ASSUME NEW i \in 2 .. n + 1, NEW j \in 2 .. n + 1, i # j PROVE scan[i - 1] # scan[j - 1]
      BY <2>2
    <3>1. i - 1 \in 1 .. n /\ j - 1 \in 1 .. n /\ i - 1 # j - 1
      BY <1>3
    <3> QED BY <1>2, <1>3, <3>1 DEF Distincts
  <2>4. \A i \in 1 .. n + 1 : i = 1 \/ i \in 2 .. n + 1
    BY <1>3
  <2> QED BY <2>1, <2>2, <2>3, <2>4, IconAssumption DEF NamesOk
<1>9. ListsAll(folder)
  <2>1. {icons[i].name : i \in 2 .. n + 1} = {scan[i] : i \in 1 .. n}
    <3>1. \A i \in 2 .. n + 1 : i - 1 \in 1 .. n /\ icons[i].name = scan[i - 1]
      BY <1>3, <1>4, <1>5
    <3>2. \A i \in 1 .. n : i + 1 \in 2 .. n + 1 /\ (i + 1) - 1 = i
      BY <1>3
    <3>3. ASSUME NEW i \in 1 .. n PROVE scan[i] = icons[i + 1].name
      BY <3>1, <3>2
    <3>4. \A i \in 1 .. n : \E k \in 2 .. n + 1 : scan[i] = icons[k].name
      BY ONLY <3>2, <3>3
    <3>5. \A k \in 2 .. n + 1 : \E i \in 1 .. n : icons[k].name = scan[i]
      BY ONLY <3>1
    <3>6. {icons[i].name : i \in 2 .. n + 1} \subseteq {scan[i] : i \in 1 .. n}
      BY ONLY <3>5
    <3>7. {scan[i] : i \in 1 .. n} \subseteq {icons[i].name : i \in 2 .. n + 1}
      BY ONLY <3>4
    <3> QED BY ONLY <3>6, <3>7
  <2>2. Icons!Range(scan) = {scan[i] : i \in 1 .. n}
    BY <1>3 DEF Icons!Range
  <2> QED BY <1>2, <1>3, <2>1, <2>2 DEF ListsAll, Icons!Init
<1>10. IconRefs
  BY <1>7 DEF Icons!Init, IconRefs, Icons!Closed
<1> QED BY <1>1, <1>3, <1>7, <1>8, <1>9, <1>10 DEF Icons!Init, IconsInv, IconListing, IconFiles, IconsOk, Icons!Present
-----------------------------------------------------------------------------
(* The operations on the files. *)
IconDoing == IconListing' /\ IconFiles' /\ CellsStep /\ PositionsStep /\ ContentsStep
         /\ Len(icons) <= Len(icons') /\ Len(icons') \in Nat

LEMMA LengthIs == IconListing' => Len(icons') \in Nat
BY DEF IconListing, IconsOk

LEMMA StaysDoing ==
  ASSUME IconsInv, UNCHANGED <<folder, full, icons, count, scanned>>
  PROVE  IconDoing
BY IconsStand, LengthIs DEF IconDoing

LEMMA ScansDoing ==
  ASSUME IconsInv, DirOk(folder'), full' \subseteq Icons!Range(folder'), Icons!Sync(folder'), ContentsStep
  PROVE  IconDoing
BY Scans, LengthIs DEF IconDoing

LEMMA ScanDoing ==
  ASSUME IconsInv, Icons!Sync(folder), UNCHANGED <<folder, full>>
  PROVE  IconDoing
<1>1. folder' = folder /\ full' = full
  OBVIOUS
<1>2. Icons!Sync(folder')
  BY <1>1
<1>3. DirOk(folder') /\ full' \subseteq Icons!Range(folder')
  BY <1>1 DEF IconsInv, IconFiles, Icons!Present
<1> QED BY <1>1, <1>2, <1>3, ScansDoing DEF ContentsStep

LEMMA RecycleDoing ==
  ASSUME IconsInv, NEW i, Icons!Recycle(i)
  PROVE  IconDoing
<1> DEFINE n == icons[i].name
<1>1. CASE Icons!Keep /\ UNCHANGED <<folder, full, recycle>>
  BY <1>1, StaysDoing DEF Icons!Keep
<1>2. CASE Icons!Sync(folder') /\ UNCHANGED <<folder, full, recycle>>
  <2>1. Icons!Sync(folder) /\ UNCHANGED <<folder, full>>
    BY <1>2
  <2> QED BY <2>1, ScanDoing
<1>3. CASE Icons!Sync(folder') /\ folder' = Icons!Without(n) /\ full' = full \ {n}
  <2>1. DirOk(folder') /\ Icons!Range(folder') = Icons!Present \ {n}
    BY <1>3, WithoutFacts DEF IconsInv, IconFiles
  <2>2. full' \subseteq Icons!Range(folder') /\ \A m \in full \ full' : m \notin Icons!Range(folder')
    BY <1>3, <2>1 DEF IconsInv, IconFiles
  <2> QED BY <1>3, <2>1, <2>2, ScansDoing DEF ContentsStep
<1> QED BY <1>1, <1>2, <1>3 DEF Icons!Recycle

\* A new entry, or the directory as it was.
LEMMA EntryIs ==
  ASSUME IconsInv, NEW n \in IconNames,
         folder' \in IF n \in Icons!Present THEN {folder} ELSE Icons!Inserts(n, folder)
  PROVE  DirOk(folder') /\ Icons!Range(folder') = Icons!Present \cup {n}
<1>1. CASE n \in Icons!Present
  BY <1>1 DEF IconsInv, IconFiles, Icons!Present
<1>2. CASE n \notin Icons!Present
  BY <1>2, InsertsFacts DEF IconsInv, IconFiles, Icons!Present
<1> QED BY <1>1, <1>2

LEMMA RenameDoing ==
  ASSUME IconsInv, NEW i, NEW n \in IconNames, Icons!RenameTo(i, n), asking.mode # Icons!NONE
  PROVE  IconDoing
<1> DEFINE old == icons[i].name
<1>0. ContentsStep /\ Icons!Sync(folder')
  BY DEF ContentsStep, Icons!RenameTo
<1>1. CASE folder' \in Icons!Inserts(n, folder) /\ n \notin Icons!Present /\ UNCHANGED full
  <2>1. DirOk(folder') /\ Icons!Range(folder') = Icons!Present \cup {n}
    BY <1>1, InsertsFacts DEF IconsInv, IconFiles, Icons!Present
  <2> QED BY <1>0, <1>1, <2>1, ScansDoing DEF IconsInv, IconFiles
<1>2. CASE /\ old \in Icons!Present /\ (n = old \/ n \notin Icons!Present)
           /\ folder' \in Icons!Inserts(n, Icons!Without(old))
           /\ full' = IF old \in full THEN (full \ {old}) \cup {n} ELSE full
  <2>1. DirOk(Icons!Without(old)) /\ Icons!Range(Icons!Without(old)) = Icons!Present \ {old}
    BY WithoutFacts DEF IconsInv, IconFiles
  <2>2. DirOk(folder') /\ Icons!Range(folder') = (Icons!Present \ {old}) \cup {n}
    BY <1>2, <2>1, InsertsFacts
  <2>3. full' \subseteq Icons!Range(folder')
    BY <1>2, <2>2 DEF IconsInv, IconFiles
  <2> QED BY <1>0, <2>2, <2>3, ScansDoing
<1>3. CASE UNCHANGED <<folder, full, recycle>>
  <2>1. Icons!Sync(folder) /\ UNCHANGED <<folder, full>>
    BY <1>0, <1>3
  <2> QED BY <2>1, ScanDoing
<1> QED BY <1>1, <1>2, <1>3 DEF Icons!RenameTo

LEMMA CreateFileDoing ==
  ASSUME IconsInv, NEW n \in IconNames, Icons!CreateFile(n),
         \/ n \notin full \/ asking.mode # Icons!NONE \/ ~scanned \/ Len(folder) >= Capacity
         \/ Icons!Range(IconNewNames) \subseteq Icons!Named(Icons!Items)
  PROVE  IconDoing
<1>1. DirOk(folder') /\ Icons!Range(folder') = Icons!Present \cup {n}
  BY EntryIs DEF Icons!CreateFile
<1>2. full' = full \ {n} /\ Icons!Sync(folder')
  BY DEF Icons!CreateFile
<1>3. full' \subseteq Icons!Range(folder') /\ ContentsStep
  BY <1>1, <1>2 DEF IconsInv, IconFiles, ContentsStep
<1> QED BY <1>1, <1>2, <1>3, ScansDoing

LEMMA CreateFolderDoing ==
  ASSUME IconsInv, NEW n \in IconNames, Icons!CreateFolder(n)
  PROVE  IconDoing
<1>1. DirOk(folder') /\ Icons!Range(folder') = Icons!Present \cup {n}
  BY EntryIs DEF Icons!CreateFolder
<1>2. full' = full /\ Icons!Sync(folder')
  BY DEF Icons!CreateFolder
<1>3. full' \subseteq Icons!Range(folder') /\ ContentsStep
  BY <1>1, <1>2 DEF IconsInv, IconFiles, ContentsStep
<1> QED BY <1>1, <1>2, <1>3, ScansDoing

LEMMA PasteDoing ==
  ASSUME IconsInv, Icons!Paste
  PROVE  IconDoing
<1> DEFINE aim == IF clipboard.name = Icons!Bin THEN RecycleName ELSE clipboard.name
           there == IF clipboard.name = Icons!Bin THEN recycle.there ELSE clipboard.name \in Icons!Present
<1>1. CASE Icons!Keep /\ UNCHANGED <<folder, full, recycle, clipboard>>
  BY <1>1, StaysDoing DEF Icons!Keep
<1>2. CASE /\ Icons!Sync(folder') /\ UNCHANGED full
           /\ folder' \in IF ~there THEN {folder}
                          ELSE IF clipboard.cut THEN Icons!Inserts(aim, Icons!Without(aim))
                          ELSE IF aim \in Icons!Present THEN {folder} ELSE Icons!Inserts(aim, folder)
  <2>0. there => aim \in IconNames
    <3>1. Icons!Present \subseteq IconNames
      BY DEF IconsInv, IconFiles, DirOk, Icons!Present, Icons!Range
    <3>2. RecycleName \in IconNames
      BY DEF IconNames
    <3> QED BY <3>1, <3>2
  <2> HIDE DEF aim, there
  <2>1. CASE folder' = folder
    <3>1. Icons!Sync(folder) /\ UNCHANGED <<folder, full>>
      BY <1>2, <2>1
    <3> QED BY <3>1, ScanDoing
  <2>2. CASE there /\ folder' \in Icons!Inserts(aim, Icons!Without(aim))
    <3>1. DirOk(Icons!Without(aim)) /\ Icons!Range(Icons!Without(aim)) = Icons!Present \ {aim}
      BY WithoutFacts DEF IconsInv, IconFiles
    <3>2. DirOk(folder') /\ Icons!Range(folder') = (Icons!Present \ {aim}) \cup {aim}
      BY <2>0, <2>2, <3>1, InsertsFacts
    <3>3. full' \subseteq Icons!Range(folder') /\ ContentsStep
      BY <1>2, <3>2 DEF IconsInv, IconFiles, ContentsStep
    <3> QED BY <1>2, <3>2, <3>3, ScansDoing
  <2>3. CASE there /\ aim \notin Icons!Present /\ folder' \in Icons!Inserts(aim, folder)
    <3>1. DirOk(folder') /\ Icons!Range(folder') = Icons!Present \cup {aim}
      BY <2>0, <2>3, InsertsFacts DEF IconsInv, IconFiles, Icons!Present
    <3>2. full' \subseteq Icons!Range(folder') /\ ContentsStep
      BY <1>2, <3>1 DEF IconsInv, IconFiles, ContentsStep
    <3> QED BY <1>2, <3>1, <3>2, ScansDoing
  <2> QED BY <1>2, <2>1, <2>2, <2>3
<1> QED BY <1>1, <1>2 DEF Icons!Paste

LEMMA OutsideDoing ==
  ASSUME IconsInv, Icons!Outside
  PROVE  IconDoing
<1>1. icons' = icons /\ count' = count /\ ~scanned'
  BY DEF Icons!Outside
<1>2. PICK n \in IconAlien :
         \/ n \in Icons!Present /\ folder' = Icons!Without(n) /\ full' = full \ {n}
         \/ n \notin Icons!Present /\ folder' \in Icons!Inserts(n, folder) /\ full' = full \cup {n}
  BY DEF Icons!Outside
<1>3. IconFiles' /\ ContentsStep
  <2>1. CASE folder' = Icons!Without(n) /\ full' = full \ {n}
    <3>1. DirOk(folder') /\ Icons!Range(folder') = Icons!Present \ {n}
      BY <2>1, WithoutFacts DEF IconsInv, IconFiles
    <3> QED BY <2>1, <3>1 DEF IconsInv, IconFiles, Icons!Present, ContentsStep
  <2>2. CASE n \notin Icons!Present /\ folder' \in Icons!Inserts(n, folder) /\ full' = full \cup {n}
    <3>1. n \in IconNames
      BY DEF IconNames
    <3>2. DirOk(folder') /\ Icons!Range(folder') = Icons!Present \cup {n}
      BY <2>2, <3>1, InsertsFacts DEF IconsInv, IconFiles, Icons!Present
    <3> QED BY <2>2, <3>2 DEF IconsInv, IconFiles, Icons!Present, ContentsStep
  <2> QED BY <1>2, <2>1, <2>2
<1>4. IconListing'
  BY <1>1 DEF IconsInv, IconListing, IconsOk, NamesOk
<1>5. CellsStep /\ PositionsStep /\ Len(icons) <= Len(icons')
  BY <1>1 DEF CellsStep, PositionsStep, IconsInv, IconListing, IconsOk
<1> QED BY <1>3, <1>4, <1>5, LengthIs DEF IconDoing

\* The name of a new text document is not that of a file the icons show.
LEMMA UniqueNameIs ==
  ASSUME IconsInv
  PROVE  /\ Icons!UniqueName \in IconNames
         /\ \/ Icons!UniqueName \notin full \/ ~scanned \/ Len(folder) >= Capacity
            \/ Icons!Range(IconNewNames) \subseteq Icons!Named(Icons!Items)
<1> DEFINE free == {k \in DOMAIN IconNewNames : IconNewNames[k] \notin Icons!Named(Icons!Items)}
<1>1. PICK n \in Nat \ {0} : n = Len(IconNewNames) /\ DOMAIN IconNewNames = 1 .. n /\ IconNewNames \in Seq(IconNames)
  BY IconAssumption
<1>2. CASE free = {}
  <2>1. Icons!UniqueName = IconNewNames[n]
    BY <1>1, <1>2 DEF Icons!UniqueName, Icons!Last
  <2>2. Icons!Range(IconNewNames) \subseteq Icons!Named(Icons!Items)
    BY <1>2 DEF Icons!Range
  <2> QED BY <1>1, <2>1, <2>2
<1>3. CASE free # {}
  <2>1. free \subseteq Nat
    BY <1>1
  <2>2. \E k \in free : \A j \in free : k <= j
    <3> HIDE DEF free
    <3> QED BY <1>3, <2>1, HasLeast
  <2>3. PICK k \in free : Icons!UniqueName = IconNewNames[k]
    <3> DEFINE m == CHOOSE k \in free : \A j \in free : k <= j
    <3>1. Icons!UniqueName = IconNewNames[m]
      BY <1>3 DEF Icons!UniqueName
    <3>2. m \in free
      <4> HIDE DEF free
      <4> QED BY <2>2
    <3> QED BY <3>1, <3>2
  <2>4. Icons!UniqueName \in IconNames /\ Icons!UniqueName \notin Icons!Named(Icons!Items)
    BY <1>1, <2>3
  <2>5. ASSUME scanned, ~(Len(folder) >= Capacity) PROVE Icons!UniqueName \notin full
    <3>1. DirOk(folder) /\ IconsOk
      BY DEF IconsInv, IconFiles, IconListing
    <3>2. Len(folder) < Capacity
      <4>1. Len(folder) \in Nat /\ Capacity \in Nat
        BY <3>1, IconAssumption DEF DirOk
      <4> QED BY <2>5, <4>1
    <3>3. {icons[i].name : i \in 2 .. count} = Icons!Present
      BY <2>5, <3>1, <3>2, ScanFacts DEF IconsInv, IconListing, ListsAll, Icons!Present
    <3>4. Icons!Present \subseteq Icons!Named(Icons!Items)
      <4>1. count \in Nat \ {0} /\ Icons!Items \in Seq(IconRecord) /\ Len(Icons!Items) = count /\ \A i \in 1 .. count : Icons!Items[i] = icons[i]
        BY <3>1, OldFacts
      <4>2. DOMAIN Icons!Items = 1 .. count /\ \A i \in 2 .. count : i \in 1 .. count /\ icons[i] = Icons!Items[i]
        BY <4>1
      <4> QED BY ONLY <3>3, <4>2 DEF Icons!Named
    <3> QED BY <2>4, <3>4 DEF IconsInv, IconFiles
  <2> QED BY <2>4, <2>5
<1> QED BY <1>2, <1>3
-----------------------------------------------------------------------------
(* The steps. *)
LEMMA ItemAtIs ==
  ASSUME NEW list \in Seq(IconRecord), NEW c
  PROVE  Icons!ItemAt(list, c) \in 0 .. Len(list)
<1> DEFINE S == {i \in DOMAIN list : list[i].cell = c}
<1>1. CASE c \notin Icons!Taken(list)
  BY <1>1 DEF Icons!ItemAt
<1>2. CASE c \in Icons!Taken(list)
  <2>1. S # {} /\ S \subseteq Nat
    BY <1>2 DEF Icons!Taken
  <2>2. PICK i \in S : \A j \in S : i <= j
    <3> HIDE DEF S
    <3> QED BY <2>1, HasLeast
  <2>3. PICK n \in Nat : n = Len(list) /\ DOMAIN list = 1 .. n
    OBVIOUS
  <2>4. \A j \in 1 .. i - 1 : list[j].cell # c
    <3> SUFFICES ASSUME NEW j \in 1 .. i - 1, list[j].cell = c PROVE FALSE
      OBVIOUS
    <3>1. i \in 1 .. n /\ j \in 1 .. n
      BY <2>3
    <3>2. i <= j
      BY <2>2, <2>3, <3>1
    <3> QED BY <3>1, <3>2
  <2>5. \E k \in DOMAIN list : list[k].cell = c /\ \A j \in 1 .. k - 1 : list[j].cell # c
    BY <2>2, <2>4
  <2> DEFINE m == CHOOSE k \in DOMAIN list : list[k].cell = c /\ \A j \in 1 .. k - 1 : list[j].cell # c
  <2>6. m \in DOMAIN list
    BY <2>5
  <2>7. Icons!ItemAt(list, c) = m
    BY <1>2 DEF Icons!ItemAt
  <2> HIDE DEF m
  <2> QED BY <2>3, <2>6, <2>7
<1> QED BY <1>1, <1>2

LEMMA MoveDoing ==
  ASSUME IconsInv, NEW c \in Icons!Cells, icon.drag # 0, icons' = Icons!MoveTo(icon.drag, c),
         UNCHANGED <<folder, full, recycle, count, scanned>>
  PROVE  IconDoing
<1>1. PICK m \in Nat, n \in Nat : m = Len(icons) /\ n = count /\ n <= m /\ icons \in Seq(IconRecord) /\ DOMAIN icons = 1 .. m
  BY DEF IconsInv, IconListing, IconsOk, NamesOk
<1>2. PICK d \in 1 .. m : d = icon.drag
  <2>1. icon.drag \in 0 .. m
    BY <1>1 DEF IconsInv, IconRefs
  <2> QED BY <2>1
<1>3. c \in Nat \X Nat
  BY IconAssumption DEF Icons!Cells
<1> DEFINE there == {j \in 1 .. n : j # d /\ icons[j].cell = c}
<1>4. \E x \in Seq(IconRecord) :
        /\ x = Icons!MoveTo(d, c) /\ Len(x) = m /\ \A i \in 1 .. m : x[i].name = icons[i].name
        /\ Icons!Distinct /\ d <= n => \A i \in 1 .. n : \A j \in 1 .. n : i # j => x[i].cell # x[j].cell
  <2>1. CASE there = {}
    <3> DEFINE x == [icons EXCEPT ![d].cell = c]
    <3>1. x = Icons!MoveTo(d, c)
      BY <1>1, <2>1 DEF Icons!MoveTo
    <3>2. \A i \in 1 .. m : x[i] = IF i = d THEN [icons[i] EXCEPT !.cell = c] ELSE icons[i]
      BY <1>1
    <3>3. ASSUME NEW i \in 1 .. m
          PROVE  x[i] \in IconRecord /\ x[i].name = icons[i].name /\ x[i].cell = IF i = d THEN c ELSE icons[i].cell
      <4>1. icons[i] \in IconRecord
        BY <1>1
      <4> QED BY <1>3, <3>2, <4>1 DEF IconRecord
    <3>4. DOMAIN x = 1 .. m
      BY <1>1
    <3> HIDE DEF x
    <3>5. x \in Seq(IconRecord) /\ Len(x) = m
      <4>1. x \in [1 .. m -> IconRecord]
        BY <3>1, <3>3, <3>4, <1>1 DEF x
      <4> QED BY <4>1
    <3>6. ASSUME Icons!Distinct, d <= n, NEW i \in 1 .. n, NEW j \in 1 .. n, i # j PROVE x[i].cell # x[j].cell
      <4>1. i \in 1 .. m /\ j \in 1 .. m /\ icons[i].cell # icons[j].cell
        BY <1>1, <3>6 DEF Icons!Distinct
      <4> QED BY <2>1, <3>3, <3>6, <4>1
    <3> QED BY <3>1, <3>3, <3>5, <3>6
  <2>2. CASE there # {}
    <3>1. PICK j \in there : Icons!MoveTo(d, c) = [icons EXCEPT ![j].cell = icons[d].cell, ![d].cell = c]
      <4> DEFINE e == CHOOSE k \in there : \A l \in there : k <= l
      <4>1. \E k \in there : \A l \in there : k <= l
        <5>1. there \subseteq Nat
          OBVIOUS
        <5> HIDE DEF there
        <5> QED BY <2>2, <5>1, HasLeast
      <4>2. e \in there
        <5> HIDE DEF there
        <5> QED BY <4>1
      <4>3. Icons!MoveTo(d, c) = [icons EXCEPT ![e].cell = icons[d].cell, ![d].cell = c]
        BY <1>1, <2>2 DEF Icons!MoveTo
      <4> QED BY <4>2, <4>3
    <3>2. j \in 1 .. n /\ j \in 1 .. m /\ j # d /\ icons[j].cell = c
      BY <1>1
    <3> DEFINE x == [icons EXCEPT ![j].cell = icons[d].cell, ![d].cell = c]
    <3>3. \A i \in 1 .. m : x[i] = IF i = d THEN [icons[i] EXCEPT !.cell = c]
                                   ELSE IF i = j THEN [icons[i] EXCEPT !.cell = icons[d].cell] ELSE icons[i]
      BY <1>1, <3>2
    <3>4. ASSUME NEW i \in 1 .. m
          PROVE  /\ x[i] \in IconRecord /\ x[i].name = icons[i].name
                 /\ x[i].cell = IF i = d THEN c ELSE IF i = j THEN icons[d].cell ELSE icons[i].cell
      <4>1. icons[i] \in IconRecord /\ icons[d] \in IconRecord
        BY <1>1
      <4>2. PICK b \in Nat \X Nat : b = icons[d].cell
        BY <4>1 DEF IconRecord
      <4>3. x[i] = IF i = d THEN [icons[i] EXCEPT !.cell = c]
                   ELSE IF i = j THEN [icons[i] EXCEPT !.cell = b] ELSE icons[i]
        BY <3>3, <4>2
      <4> HIDE DEF x
      <4> QED BY <1>3, <4>1, <4>2, <4>3 DEF IconRecord
    <3>5. DOMAIN x = 1 .. m
      BY <1>1
    <3>6. x = Icons!MoveTo(d, c)
      BY <3>1
    <3>7. x \in Seq(IconRecord) /\ Len(x) = m
      <4>1. x \in [1 .. m -> IconRecord]
        BY <3>4, <3>5, <1>1
      <4> HIDE DEF x
      <4> QED BY <4>1
    <3> HIDE DEF x
    <3>8. ASSUME Icons!Distinct, d <= n, NEW i \in 1 .. n, NEW k \in 1 .. n, i # k PROVE x[i].cell # x[k].cell
      <4>1. i \in 1 .. m /\ k \in 1 .. m /\ d \in 1 .. n
        BY <1>1, <3>8
      <4>2. \A a \in 1 .. n : \A b \in 1 .. n : a # b => icons[a].cell # icons[b].cell
        BY <1>1, <3>8 DEF Icons!Distinct
      <4> QED BY ONLY <3>2, <3>4, <3>8, <4>1, <4>2
    <3> QED BY <3>4, <3>6, <3>7, <3>8
  <2> QED BY <2>1, <2>2
<1>5. PICK x \in Seq(IconRecord) :
        /\ x = Icons!MoveTo(d, c) /\ Len(x) = m /\ \A i \in 1 .. m : x[i].name = icons[i].name
        /\ Icons!Distinct /\ d <= n => \A i \in 1 .. n : \A j \in 1 .. n : i # j => x[i].cell # x[j].cell
  BY <1>4
<1>6. icons' = x /\ count' = n /\ folder' = folder /\ full' = full
  BY <1>1, <1>2, <1>5
<1>7. scanned' => scanned
  OBVIOUS
<1>8. \A i \in 1 .. n : i \in 1 .. m /\ x[i].name = icons[i].name
  BY <1>1, <1>5
<1>9. IconsOk'
  <2>1. NamesOk(icons, n)
    BY <1>1 DEF IconsInv, IconListing, IconsOk
  <2>2. NamesOk(x, n)
    <3>1. n \in 1 .. Len(x) /\ 1 \in 1 .. n /\ \A i \in 2 .. n : i \in 1 .. n
      BY <1>1, <1>5, <2>1 DEF NamesOk
    <3> QED BY ONLY <1>8, <2>1, <3>1 DEF NamesOk
  <2> QED BY <1>6, <2>2 DEF IconsOk, NamesOk
<1>10. ListsAll(folder)' <=> ListsAll(folder)
  <2>1. {x[i].name : i \in 2 .. n} = {icons[i].name : i \in 2 .. n}
    <3>1. \A i \in 2 .. n : i \in 1 .. n
      BY <1>1
    <3> QED BY ONLY <1>8, <3>1
  <2>2. Icons!Range(Icons!Scanned(folder')) = Icons!Range(Icons!Scanned(folder))
    BY <1>6
  <2>3. {icons'[i].name : i \in 2 .. count'} = {icons[i].name : i \in 2 .. count}
    BY <1>1, <1>6, <2>1
  <2> QED BY <2>2, <2>3 DEF ListsAll, Icons!Scanned
<1>11. IconListing'
  BY <1>7, <1>9, <1>10 DEF IconsInv, IconListing
<1>12. IconFiles' /\ ContentsStep
  BY <1>6 DEF IconsInv, IconFiles, DirOk, Icons!Present, ContentsStep
<1>13. CellsStep
  <2>1. CASE Icons!Distinct /\ d <= n
    BY <1>5, <1>6, <2>1 DEF CellsStep, Icons!Distinct
  <2>2. CASE ~(d <= n)
    <3>1. icon.drag > count
      BY <1>1, <1>2, <2>2
    <3> QED BY <3>1 DEF CellsStep
  <2>3. CASE ~Icons!Distinct
    BY <2>3 DEF CellsStep
  <2> QED BY <2>1, <2>2, <2>3
<1>14. PositionsStep
  BY DEF PositionsStep
<1> QED BY <1>1, <1>5, <1>6, <1>11, <1>12, <1>13, <1>14 DEF IconDoing
-----------------------------------------------------------------------------
IconDone == IconsInv' /\ CellsStep /\ PositionsStep /\ ContentsStep

\* The indices are those there were, or none.
LEMMA DoneIs ==
  ASSUME IconsInv, IconDoing,
         icon' \in [sel : Nat, press : 0 .. Len(icons), drag : 0 .. Len(icons)],
         popup' = popup \/ popup' = Icons!Closed
  PROVE  IconDone
<1>1. popup'.target \in Nat
  BY DEF IconsInv, IconRefs, Icons!Closed
<1>2. IconRefs'
  BY <1>1, RefsStay DEF IconDoing
<1> QED BY <1>2 DEF IconDone, IconDoing, IconsInv

LEMMA IconKept ==
  ASSUME IconsInv
  PROVE  /\ icon \in [sel : Nat, press : 0 .. Len(icons), drag : 0 .. Len(icons)]
         /\ [icon EXCEPT !.drag = icon.press] \in [sel : Nat, press : 0 .. Len(icons), drag : 0 .. Len(icons)]
         /\ [icon EXCEPT !.press = 0] \in [sel : Nat, press : 0 .. Len(icons), drag : 0 .. Len(icons)]
         /\ [icon EXCEPT !.press = 0, !.drag = 0] \in [sel : Nat, press : 0 .. Len(icons), drag : 0 .. Len(icons)]
         /\ [icon EXCEPT !.sel = 0] \in [sel : Nat, press : 0 .. Len(icons), drag : 0 .. Len(icons)]
<1>1. PICK m \in Nat : m = Len(icons)
  BY DEF IconsInv, IconListing, IconsOk
<1>2. icon \in [sel : Nat, press : 0 .. m, drag : 0 .. m] /\ 0 \in 0 .. m
  BY <1>1 DEF IconsInv, IconRefs
<1> QED BY ONLY <1>1, <1>2

\* Nothing but indices changes.
LEMMA LooksDone ==
  ASSUME IconsInv, UNCHANGED <<folder, full, icons, count, scanned>>,
         icon' \in {icon, [icon EXCEPT !.drag = icon.press], [icon EXCEPT !.press = 0]},
         popup' = popup \/ popup' = Icons!Closed
  PROVE  IconDone
BY StaysDoing, IconKept, DoneIs

\* Nothing but the icons changes.
LEMMA ScanDone ==
  ASSUME IconsInv, Icons!Sync(folder), UNCHANGED <<folder, full, icon>>, popup' = popup \/ popup' = Icons!Closed
  PROVE  IconDone
BY ScanDoing, IconKept, DoneIs

\* The icon under a press.
LEMMA PressedIs ==
  ASSUME IconsInv, Icons!Scan, UNCHANGED <<folder, full>>, NEW c
  PROVE  /\ IconDoing
         /\ Icons!ItemAt(Icons!Items', c) \in Nat /\ Icons!ItemAt(Icons!Items', c) \in 0 .. Len(icons')
<1>1. IconDoing
  <2>1. CASE icon.drag = 0
    BY <2>1, ScanDoing DEF Icons!Scan
  <2>2. CASE icon.drag # 0
    BY <2>2, StaysDoing DEF Icons!Scan, Icons!Keep
  <2> QED BY <2>1, <2>2
<1>2. PICK x \in Seq(IconRecord), n \in Nat : x = icons' /\ n = count' /\ n >= 1 /\ n <= Len(x)
  BY <1>1 DEF IconDoing, IconListing, IconsOk, NamesOk
<1>3. PICK m \in Nat : m = Len(x) /\ n >= 1 /\ n <= m
  BY <1>2
<1>4. SubSeq(x, 1, n) \in Seq(IconRecord) /\ Len(SubSeq(x, 1, n)) = n
  <2>1. \A i \in 1 .. n : x[i] \in IconRecord
    BY <1>2, <1>3
  <2>2. Len(SubSeq(x, 1, n)) = n - 1 + 1 /\ SubSeq(x, 1, n) \in Seq(IconRecord)
    BY <1>2, <2>1, SubSeqProperties
  <2>3. n - 1 + 1 = n
    BY ONLY n \in Nat
  <2> QED BY ONLY <2>2, <2>3, Zenon
<1>5. Icons!Items' = SubSeq(x, 1, n)
  BY <1>2 DEF Icons!Items
<1>6. Icons!ItemAt(Icons!Items', c) \in 0 .. n
  BY <1>4, <1>5, ItemAtIs
<1>7. Len(icons') = m
  BY <1>2, <1>3
<1> QED BY ONLY <1>1, <1>3, <1>6, <1>7

LEMMA RightPressDone ==
  ASSUME IconsInv, NEW c \in Icons!Cells, Icons!RightPress(c)
  PROVE  IconDone
<1>1. Icons!Scan /\ UNCHANGED <<folder, full>> /\ icon' = icon /\ popup' = [open |-> TRUE, target |-> Icons!ItemAt(Icons!Items', c)]
  BY DEF Icons!RightPress
<1>2. IconDoing /\ Icons!ItemAt(Icons!Items', c) \in Nat
  BY <1>1, PressedIs
<1>3. popup'.target \in Nat
  BY <1>1, <1>2
<1>4. IconRefs'
  BY <1>1, <1>2, <1>3, IconKept, RefsStay DEF IconDoing
<1> QED BY <1>2, <1>4 DEF IconDone, IconDoing, IconsInv

LEMMA LeftPressDone ==
  ASSUME IconsInv, NEW c \in Icons!Cells, Icons!LeftPress(c)
  PROVE  IconDone
<1>1. /\ Icons!Scan /\ UNCHANGED <<folder, full>> /\ popup' = Icons!Closed /\ icon.drag = 0
      /\ icon' = [icon EXCEPT !.sel = Icons!ItemAt(Icons!Items', c), !.press = Icons!ItemAt(Icons!Items', c)]
  BY DEF Icons!LeftPress
<1>2. IconDoing
  BY <1>1, PressedIs
<1>3. PICK i \in Nat : i = Icons!ItemAt(Icons!Items', c) /\ i \in 0 .. Len(icons')
  BY <1>1, PressedIs
<1>4. PICK n \in Nat : n = Len(icons')
  BY <1>2 DEF IconDoing
<1>5. icon' \in [sel : Nat, press : 0 .. n, drag : 0 .. n]
  <2>1. icon \in [sel : Nat, press : 0 .. Len(icons), drag : 0 .. Len(icons)]
    BY IconKept
  <2>2. icon' = [icon EXCEPT !.sel = i, !.press = i] /\ i \in 0 .. n /\ 0 \in 0 .. n
    BY <1>1, <1>3, <1>4
  <2>3. icon' = [sel |-> i, press |-> i, drag |-> 0]
    BY <1>1, <2>1, <2>2
  <2> QED BY <2>2, <2>3
<1>6. IconRefs'
  BY <1>1, <1>4, <1>5 DEF IconRefs, Icons!Closed
<1> QED BY <1>2, <1>6 DEF IconDone, IconDoing, IconsInv

LEMMA DropDone ==
  ASSUME IconsInv, NEW c \in Icons!Cells, Icons!Drop(c)
  PROVE  IconDone
<1>1. IconDoing
  <2>1. CASE c = Icons!BinCell /\ icon.drag # 1
    BY <2>1, RecycleDoing DEF Icons!Drop
  <2>2. CASE ~(c = Icons!BinCell /\ icon.drag # 1)
    BY <2>2, MoveDoing DEF Icons!Drop
  <2> QED BY <2>1, <2>2
<1>2. icon' = [icon EXCEPT !.press = 0, !.drag = 0] /\ popup' = popup
  BY DEF Icons!Drop
<1> QED BY <1>1, <1>2, IconKept, DoneIs

LEMMA DialogOkDone ==
  ASSUME IconsInv, NEW n \in IconTyped, Icons!DialogOk(n)
  PROVE  IconDone
<1>1. n \in IconNames /\ asking.mode # Icons!NONE
  BY DEF IconNames, Icons!DialogOk, Icons!NONE, Icons!NEWFILE, Icons!RENAME
<1>2. IconDoing
  <2>1. CASE asking.mode = Icons!RENAME /\ asking.target # 0
    BY <1>1, <2>1, RenameDoing DEF Icons!DialogOk
  <2>2. CASE ~(asking.mode = Icons!RENAME /\ asking.target # 0) /\ asking.mode = Icons!NEWFILE
    BY <1>1, <2>2, CreateFileDoing DEF Icons!DialogOk
  <2>3. CASE ~(asking.mode = Icons!RENAME /\ asking.target # 0) /\ asking.mode # Icons!NEWFILE
    BY <1>1, <2>3, CreateFolderDoing DEF Icons!DialogOk
  <2> QED BY <2>1, <2>2, <2>3
<1>3. icon' = icon /\ popup' = popup
  BY DEF Icons!DialogOk
<1> QED BY <1>2, <1>3, IconKept, DoneIs

LEMMA MenuDone ==
  ASSUME IconsInv, Icons!MenuPressed, IconDoing
  PROVE  IconDone
BY IconKept, DoneIs DEF Icons!MenuPressed

LEMMA LookDone == IconsInv /\ Icons!Look => IconDone
<1> SUFFICES ASSUME IconsInv, Icons!Look PROVE IconDone
  OBVIOUS
<1>1. ASSUME NEW c \in Icons!Cells, Icons!RightPress(c) PROVE IconDone
  BY <1>1, RightPressDone
<1>2. ASSUME NEW c \in Icons!Cells, Icons!LeftPress(c) PROVE IconDone
  BY <1>2, LeftPressDone
<1>3. CASE Icons!PressElsewhere
  BY <1>3, LooksDone DEF Icons!PressElsewhere
<1>4. CASE Icons!DragStart
  BY <1>4, LooksDone DEF Icons!DragStart
<1>5. CASE Icons!LetGo
  BY <1>5, LooksDone DEF Icons!LetGo
<1>6. ASSUME NEW cut \in BOOLEAN, Icons!MenuClip(cut) PROVE IconDone
  BY <1>6, LooksDone DEF Icons!MenuClip, Icons!MenuPressed
<1>7. CASE Icons!MenuRename
  BY <1>7, LooksDone DEF Icons!MenuRename, Icons!MenuPressed
<1>8. CASE Icons!MenuProperties
  BY <1>8, LooksDone DEF Icons!MenuProperties, Icons!MenuPressed
<1>9. CASE Icons!MenuNew(Icons!NEWFILE) \/ Icons!MenuNew(Icons!FOLDER)
  BY <1>9, LooksDone DEF Icons!MenuNew, Icons!MenuPressed
<1>10. CASE Icons!MenuRefresh
  BY <1>10, ScanDone DEF Icons!MenuRefresh, Icons!MenuPressed
<1>11. CASE Icons!DialogClose
  BY <1>11, LooksDone DEF Icons!DialogClose
<1>12. CASE Icons!Tick
  BY <1>12, ScanDone DEF Icons!Tick
<1>13. CASE Icons!F5
  BY <1>13, ScanDone DEF Icons!F5
<1> QED BY <1>1, <1>2, <1>3, <1>4, <1>5, <1>6, <1>7, <1>8, <1>9, <1>10, <1>11, <1>12, <1>13 DEF Icons!Look

LEMMA ChangeDone == IconsInv /\ Icons!Change => IconDone
<1> SUFFICES ASSUME IconsInv, Icons!Change PROVE IconDone
  OBVIOUS
<1>1. ASSUME NEW c \in Icons!Cells, Icons!Drop(c) PROVE IconDone
  BY <1>1, DropDone
<1>2. CASE Icons!MenuRecycle
  BY <1>2, RecycleDoing, MenuDone DEF Icons!MenuRecycle
<1>3. CASE Icons!MenuPaste
  BY <1>3, PasteDoing, MenuDone DEF Icons!MenuPaste
<1>4. CASE Icons!MenuTextDocument
  <2>1. IconDoing
    BY <1>4, UniqueNameIs, CreateFileDoing DEF Icons!MenuTextDocument
  <2> QED BY <1>4, <2>1, MenuDone DEF Icons!MenuTextDocument
<1>5. ASSUME NEW n \in IconTyped, Icons!DialogOk(n) PROVE IconDone
  BY <1>5, DialogOkDone
<1>6. CASE Icons!DeleteKey
  <2>1. IconDoing
    BY <1>6, RecycleDoing DEF Icons!DeleteKey
  <2> QED BY <1>6, <2>1, IconKept, DoneIs DEF Icons!DeleteKey
<1>7. CASE Icons!Outside
  <2>1. icon' = icon /\ popup' = popup
    BY <1>7 DEF Icons!Outside
  <2> QED BY <1>7, <2>1, OutsideDoing, IconKept, DoneIs
<1> QED BY <1>1, <1>2, <1>3, <1>4, <1>5, <1>6, <1>7 DEF Icons!Change

LEMMA StepDone == IconsInv /\ Icons!Next => IconDone
BY LookDone, ChangeDone DEF Icons!Next

LEMMA StutterDone == IconsInv /\ UNCHANGED Icons!vars => IconsInv'
<1> SUFFICES ASSUME IconsInv, UNCHANGED Icons!vars PROVE IconsInv'
  OBVIOUS
<1>1. UNCHANGED <<folder, full, icons, count, scanned>> /\ icon' = icon /\ popup' = popup
  BY DEF Icons!vars
<1> QED BY <1>1, LooksDone DEF IconDone

LEMMA IconsFollow ==
  ASSUME IconsInv
  PROVE  Icons!NamesDistinct /\ Icons!ListingCurrent
<1>1. NamesOk(icons, count) /\ IconsOk
  BY DEF IconsInv, IconListing, IconsOk
<1>2. Icons!NamesDistinct
  BY <1>1 DEF NamesOk, Icons!NamesDistinct
<1>3. Icons!ListingCurrent
  BY <1>1, OldFacts DEF IconsInv, IconListing, ListsAll, Icons!ListingCurrent
<1> QED BY <1>2, <1>3

-----------------------------------------------------------------------------
\* What the invariant says is kept by every step of the shell.
LEMMA IconsStay == IconsInv /\ [ShellNext]_shellVars => IconsInv'
<1>1. [ShellNext]_shellVars => [Icons!Next]_Icons!vars
  BY DEF ShellNext, FolderStep, OpenStep, IconStep, shellVars, iconVars, Icons!vars
<1>2. IconsInv /\ Icons!Next => IconsInv'
  BY StepDone DEF IconDone
<1> QED BY <1>1, <1>2, StutterDone

(* The icons are the bin and the files of /DESKTOP, no file twice, after every
   operation of the desktop; only what other programs do waits for the next scan
   (compositor.c:298-470, 1064-1300). *)
THEOREM IconsAreSound == ShellSpec => []IconsSound
<1>1. ShellInit => IconsInv
  BY StartsOk DEF ShellInit
<1>2. IconsInv => IconsSound
  BY IconsFollow DEF IconsSound
<1> QED BY <1>1, <1>2, IconsStay, PTL DEF ShellSpec

\* What no step of the desktop does.
LEMMA IconsMove ==
  ASSUME IconsInv, [ShellNext]_shellVars
  PROVE  /\ [UNCHANGED <<icons, count>> \/ Icons!Distinct' \/ icon.drag > count
             \/ (~Icons!Distinct /\ (UNCHANGED icons \/ icon.drag # 0))]_Icons!vars
         /\ [UNCHANGED icons \/ icon.drag # 0 \/ ~Icons!Distinct \/
             \A i \in 1 .. count, j \in 1 .. count' :
                icons[i].name = icons'[j].name => icons[i].cell = icons'[j].cell]_Icons!vars
         /\ [\A n \in full \ full' :
                \/ n \notin Icons!Range(folder')
                \/ asking.mode # Icons!NONE
                \/ ~scanned \/ Len(folder) >= Capacity
                \/ Icons!Range(IconNewNames) \subseteq Icons!Named(Icons!Items)]_Icons!vars
<1>1. CASE Icons!Next
  <2>1. CellsStep /\ PositionsStep /\ ContentsStep
    BY <1>1, StepDone DEF IconDone
  <2> QED BY <2>1 DEF CellsStep, PositionsStep, ContentsStep
<1>2. CASE UNCHANGED Icons!vars
  BY <1>2
<1> QED BY <1>1, <1>2 DEF ShellNext, FolderStep, OpenStep, IconStep, shellVars, iconVars, Icons!vars

(* An icon keeps its cell as long as its file is shown, unless an icon is dragged;
   no icon comes to hide another; and a new text document empties no file while
   the icons show all of /DESKTOP and a number is left (compositor.c:298-500,
   1434-1531). *)
THEOREM IconsStayPut == ShellSpec => IconsKeep
<1>1. ShellInit => IconsInv
  BY StartsOk DEF ShellInit
<1> QED BY <1>1, IconsStay, IconsMove, PTL
        DEF ShellSpec, IconsKeep, Icons!CellsDistinct, Icons!PositionsKept, Icons!ContentsKept
=============================================================================
