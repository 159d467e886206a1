----------------------------- MODULE WindowsProof -----------------------------
(***************************************************************************)
(* Proofs about the window table, for any table size and any number of     *)
(* threads, clicks and launches.                                           *)
(*                                                                         *)
(* That a buffer is never used after it was freed rests on the numbers:    *)
(* window ids are never given twice, so an operation that knows a window   *)
(* by its id finds that window or none.  That a window fits its buffer     *)
(* rests on the order of growth: a buffer never shrinks, so what a         *)
(* maximised window will have to shrink to still fits.                     *)
(***************************************************************************)
EXTENDS Windows, TLAPS, WellFoundedInduction, FiniteSetTheorems, SequenceTheorems

\* Each window has a buffer that holds what it shows, or will show when restored.
Sound(w, h) ==
  /\ w.buf \in DOMAIN h
  /\ IF w.max THEN w.saved <= h[w.buf] ELSE w.size <= h[w.buf]

Windowed ==
  /\ \A i \in DOMAIN wins : Sound(wins[i], heap) /\ wins[i].id < nextId
  /\ \A i, j \in DOMAIN wins :
       i # j => wins[i].buf # wins[j].buf /\ wins[i].id # wins[j].id

\* A buffer on its way into the table or out of it belongs to one thread.
Carried ==
  /\ \A a \in Actors : job[a].do = "made" => job[a].buf # 0
  /\ \A a \in Actors : job[a].buf # 0 =>
       /\ job[a].buf \in DOMAIN heap
       /\ \A i \in DOMAIN wins : wins[i].buf # job[a].buf
       /\ \A b \in Actors \ {a} : job[b].buf # job[a].buf

\* Nothing visible is above a window that has the focus and is visible.
FocusOnTop ==
  \A i \in DOMAIN wins : wins[i].focused /\ ~wins[i].min =>
    \A j \in DOMAIN wins : i < j => wins[j].min

Types == TypeOK /\ IsFiniteSet(DOMAIN heap)
Inv   == Types /\ Windowed /\ Carried /\ FocusOnTop

-------------------------------------------------------------------------------
(* Data *)

Job == [do : Places, id : Nat, tid : Actors, buf : Nat, size : Sizes \union {0}]

\* A job that carries no buffer.
LEMMA JobFacts ==
  ASSUME NEW s \in Places
  PROVE  /\ Do(s) \in Job /\ Do(s).do = s /\ Do(s).buf = 0
         /\ Idle \in Job /\ Idle.buf = 0 /\ Idle.do = "idle"
         /\ \A j \in Job : /\ [j EXCEPT !.do = s] \in Job
                           /\ [j EXCEPT !.do = s].do = s
                           /\ [j EXCEPT !.do = s].buf = j.buf
<1>1. Idle \in Job /\ Idle.buf = 0 /\ Idle.do = "idle"
  <2>1. "idle" \in Places /\ Desktop \in Actors
    BY DEF Actors, Places
  <2>2. Idle \in Job
    BY <2>1 DEF Idle, Job
  <2> QED BY <2>2 DEF Idle
<1>2. ASSUME NEW j \in Job
      PROVE  /\ [j EXCEPT !.do = s] \in Job /\ [j EXCEPT !.do = s].do = s
             /\ [j EXCEPT !.do = s].buf = j.buf
  BY DEF Job
<1> QED BY <1>1, <1>2 DEF Do

\* What the two ends of a step have in common about a window.
Same(v, w) ==
  /\ v.id = w.id /\ v.buf = w.buf /\ v.max = w.max
  /\ v.size = w.size /\ v.saved = w.saved

\* The table is a sequence of windows.
LEMMA WindowSeq ==
  ASSUME NEW ws \in Seq(Window)
  PROVE  /\ Len(ws) \in Nat /\ DOMAIN ws = 1 .. Len(ws)
         /\ \A i \in DOMAIN ws : ws[i] \in Window
BY LenProperties, ElementOfSeq

\* A function on 1 .. n whose values are windows is a sequence of windows.
LEMMA IsWindowSeq ==
  ASSUME NEW n \in Nat, NEW ws \in [1 .. n -> Window]
  PROVE  ws \in Seq(Window) /\ Len(ws) = n
<1>1. ws \in Seq(Window)
  OBVIOUS
<1>2. Len(ws) \in Nat /\ DOMAIN ws = 1 .. Len(ws)
  BY <1>1, LenProperties
<1> QED BY <1>1, <1>2

\* Taking the flag away changes no window otherwise.
LEMMA UnfocusedFacts ==
  ASSUME NEW ws \in Seq(Window)
  PROVE  /\ Unfocused(ws) \in Seq(Window) /\ Len(Unfocused(ws)) = Len(ws)
         /\ DOMAIN Unfocused(ws) = DOMAIN ws
         /\ \A i \in DOMAIN ws : /\ Same(Unfocused(ws)[i], ws[i])
                                 /\ Unfocused(ws)[i].min = ws[i].min
                                 /\ Unfocused(ws)[i].focused = FALSE
<1> DEFINE us == [i \in DOMAIN ws |-> [ws[i] EXCEPT !.focused = FALSE]]
<1>1. \A w \in Window : [w EXCEPT !.focused = FALSE] \in Window
  BY DEF Window
<1>2. us \in [1 .. Len(ws) -> Window]
  BY <1>1, WindowSeq
<1>3. us \in Seq(Window) /\ Len(us) = Len(ws)
  BY <1>2, WindowSeq, IsWindowSeq
<1>4. \A i \in DOMAIN ws : Same(us[i], ws[i]) /\ us[i].min = ws[i].min /\ us[i].focused = FALSE
  BY WindowSeq DEF Same, Window
<1> QED BY <1>3, <1>4 DEF Unfocused

\* Taking out the one window with an id moves those above it down.
LEMMA OthersFacts ==
  ASSUME NEW ws \in Seq(Window), NEW k \in DOMAIN ws,
         \A i \in DOMAIN ws : ws[i].id = ws[k].id => i = k
  PROVE  /\ Others(ws, ws[k].id) \in Seq(Window)
         /\ Len(Others(ws, ws[k].id)) = Len(ws) - 1
         /\ \A i \in 1 .. Len(ws) - 1 :
              Others(ws, ws[k].id)[i] = ws[IF i < k THEN i ELSE i + 1]
<1> DEFINE os == [i \in 1 .. Len(ws) - 1 |-> IF i < k THEN ws[i] ELSE ws[i + 1]]
<1>1. (CHOOSE i \in DOMAIN ws : ws[i].id = ws[k].id) = k
  OBVIOUS
<1>2. Others(ws, ws[k].id) = os
  BY <1>1 DEF Others
<1>3. Len(ws) \in Nat /\ Len(ws) >= 1 /\ k \in 1 .. Len(ws) /\ \A i \in 1 .. Len(ws) : ws[i] \in Window
  BY WindowSeq
<1>4. os \in [1 .. Len(ws) - 1 -> Window]
  BY <1>3
<1>5. os \in Seq(Window) /\ Len(os) = Len(ws) - 1
  BY <1>3, <1>4, IsWindowSeq
<1>6. \A i \in 1 .. Len(ws) - 1 : os[i] = ws[IF i < k THEN i ELSE i + 1]
  OBVIOUS
<1> QED BY <1>2, <1>5, <1>6

\* Moving the focus changes nothing but the focus.
LEMMA FocusAtFacts ==
  ASSUME NEW ws \in Seq(Window), NEW k \in 0 .. Len(ws)
  PROVE  /\ FocusAt(ws, k) \in Seq(Window) /\ Len(FocusAt(ws, k)) = Len(ws)
         /\ \A i \in DOMAIN ws : /\ Same(FocusAt(ws, k)[i], ws[i])
                                 /\ FocusAt(ws, k)[i].min = ws[i].min
                                 /\ FocusAt(ws, k)[i].focused <=> ws[i].focused \/ i = k
<1>1. /\ Len(ws) \in Nat /\ DOMAIN ws = 1 .. Len(ws)
      /\ \A i \in DOMAIN ws : ws[i] \in Window
  BY WindowSeq
<1>2. CASE k = 0
  BY <1>1, <1>2 DEF FocusAt, Same
<1>3. CASE k # 0
  <2> DEFINE fs == [ws EXCEPT ![k].focused = TRUE]
  <2>1. fs = [i \in DOMAIN ws |-> IF i = k THEN [ws[i] EXCEPT !.focused = TRUE] ELSE ws[i]]
    BY <1>1, <1>3
  <2>2. \A w \in Window : [w EXCEPT !.focused = TRUE] \in Window
    BY DEF Window
  <2>3. fs \in [1 .. Len(ws) -> Window]
    BY <1>1, <2>1, <2>2
  <2>4. fs \in Seq(Window) /\ Len(fs) = Len(ws)
    BY <1>1, <2>3, IsWindowSeq
  <2>5. \A i \in DOMAIN ws : /\ Same(fs[i], ws[i]) /\ fs[i].min = ws[i].min
                             /\ fs[i].focused <=> ws[i].focused \/ i = k
    BY <1>1, <2>1 DEF Same, Window
  <2> QED BY <1>3, <2>4, <2>5 DEF FocusAt
<1> QED BY <1>2, <1>3

\* Of the windows that are shown one is furthest up: the search has an end.
LEMMA LeastExists ==
  ASSUME NEW S \in SUBSET Nat, S # {}
  PROVE  \E x \in S : \A y \in S : x <= y
<1> DEFINE R == {p \in Nat \X Nat : p[1] < p[2]}
<1>1. IsWellFoundedOn(R, Nat)
  <2>1. R = OpToRel(<, Nat)
    BY DEF OpToRel
  <2> QED BY <2>1, NatLessThanWellFounded
<1>2. PICK x \in S : \A y \in S : ~ (<<y, x>> \in R)
  BY <1>1, WFMin
<1>3. x \in Nat /\ \A y \in S : y \in Nat /\ ~ (y < x)
  BY <1>2
<1> QED BY <1>3

\* The search from the top for a window that is not minimised.
LEMMA TopVisibleFacts ==
  ASSUME NEW ws \in Seq(Window)
  PROVE  /\ TopVisible(ws) \in 0 .. Len(ws)
         /\ TopVisible(ws) = 0 => \A i \in DOMAIN ws : ws[i].min
         /\ TopVisible(ws) # 0 => /\ ~ws[TopVisible(ws)].min
                                  /\ \A j \in DOMAIN ws : TopVisible(ws) < j => ws[j].min
<1> DEFINE shown == {i \in DOMAIN ws : ~ws[i].min}
           mirror == {Len(ws) - i : i \in shown}
<1>1. Len(ws) \in Nat /\ DOMAIN ws = 1 .. Len(ws)
  BY WindowSeq
<1>2. CASE shown = {}
  BY <1>1, <1>2 DEF TopVisible
<1>3. CASE shown # {}
  <2>1. mirror \in SUBSET Nat /\ mirror # {}
    BY <1>1, <1>3
  <2>2. PICK x \in mirror : \A y \in mirror : x <= y
    BY <2>1, LeastExists
  <2>3. \E i \in shown : \A j \in shown : j <= i
    <3>1. PICK i \in shown : x = Len(ws) - i
      BY <2>2
    <3>2. \A j \in shown : Len(ws) - i <= Len(ws) - j
      BY <2>2, <3>1
    <3> QED BY <1>1, <3>1, <3>2
  <2>4. TopVisible(ws) \in shown /\ \A j \in shown : j <= TopVisible(ws)
    BY <1>3, <2>3 DEF TopVisible
  <2> QED BY <1>1, <2>4
<1> QED BY <1>2, <1>3

\* kheap_alloc returns a block that nobody uses.
LEMMA UnusedIsFree ==
  ASSUME IsFiniteSet(DOMAIN heap)
  PROVE  Unused \in Nat \ {0} /\ Unused \notin DOMAIN heap
<1> DEFINE n == Cardinality(DOMAIN heap)
<1>1. n \in Nat
  BY FS_CardinalityType
<1>2. \E b \in 1 .. n + 1 : b \notin DOMAIN heap
  <2> SUFFICES ASSUME 1 .. n + 1 \subseteq DOMAIN heap PROVE FALSE
    OBVIOUS
  <2>1. Cardinality(1 .. n + 1) <= n
    BY FS_Subset
  <2>2. Cardinality(1 .. n + 1) = n + 1
    BY <1>1, FS_Interval
  <2> QED BY <1>1, <2>1, <2>2
<1> QED BY <1>1, <1>2 DEF Unused

-------------------------------------------------------------------------------
(* Steps that leave the table and the heap alone *)

\* Nobody takes a buffer on.
JobsKeep ==
  /\ job' \in [Actors -> Job]
  /\ \A a \in Actors :
       \/ job'[a].buf = 0 /\ job'[a].do # "made"
       \/ job'[a].buf = job[a].buf /\ (job'[a].do = "made" => job[a].do = "made")

RestTyped ==
  /\ frame' \in [Threads -> Sizes]
  /\ mail' \in [Threads -> Seq(Sizes \union {Close})]
  /\ clicks' \in 0 .. MaxClicks /\ starts' \in 0 .. MaxStarts

\* One actor goes on to a job that carries no other buffer than its last.
LEMMA OneJob ==
  ASSUME Types, NEW a \in Actors, NEW j \in Job, job' = [job EXCEPT ![a] = j],
         j.do # "made", j.buf \in {0, job[a].buf}
  PROVE  JobsKeep
<1>1. job \in [Actors -> Job]
  BY DEF Types, TypeOK, Job
<1>2. job' \in [Actors -> Job]
  BY <1>1
<1>3. \A b \in Actors : job'[b] = IF b = a THEN j ELSE job[b]
  BY <1>1
<1> QED BY <1>2, <1>3 DEF JobsKeep

\* A buffer that was carried stays out of the table when the table gains none.
LEMMA CarriedKeeps ==
  ASSUME Carried, JobsKeep, DOMAIN heap \subseteq DOMAIN heap',
         \A i \in DOMAIN wins' : \E k \in DOMAIN wins : wins'[i].buf = wins[k].buf
  PROVE  Carried'
BY DEF Carried, JobsKeep

\* A step that leaves the table and the heap alone.
LEMMA TableAlone ==
  ASSUME Inv, UNCHANGED <<wins, nextId, heap>>, JobsKeep, RestTyped
  PROVE  Inv'
<1>1. Types'
  BY DEF Inv, Types, TypeOK, JobsKeep, RestTyped, Job
<1>2. Windowed' /\ FocusOnTop'
  BY DEF Inv, Windowed, Sound, FocusOnTop
<1>3. Carried'
  BY CarriedKeeps DEF Inv
<1> QED BY <1>1, <1>2, <1>3 DEF Inv

\* The types one by one.
LEMMA Unpack ==
  ASSUME Types
  PROVE  /\ job \in [Actors -> Job] /\ wins \in Seq(Window) /\ nextId \in Nat
         /\ frame \in [Threads -> Sizes]
         /\ mail \in [Threads -> Seq(Sizes \union {Close})]
         /\ clicks \in 0 .. MaxClicks /\ starts \in 0 .. MaxStarts
         /\ MaxClicks \in Nat /\ MaxStarts \in Nat
         /\ Desktop \in Actors /\ Threads \subseteq Actors /\ Desktop \notin Threads
BY WindowsAssumption DEF Types, TypeOK, Job, Actors

\* Most steps of an application give it another place and change nothing else.
LEMMA MoveOn ==
  ASSUME Inv, NEW a \in Actors, NEW s \in Places \ {"made"},
         job' = [job EXCEPT ![a].do = s] \/ job' = [job EXCEPT ![a] = Do(s)],
         UNCHANGED <<wins, nextId, heap>>, RestTyped
  PROVE  Inv'
<1>1. job[a] \in Job
  BY Unpack DEF Inv
<1>2. PICK j \in {[job[a] EXCEPT !.do = s], Do(s)} : job' = [job EXCEPT ![a] = j]
  OBVIOUS
<1>3. /\ [job[a] EXCEPT !.do = s] \in Job /\ [job[a] EXCEPT !.do = s].do = s
      /\ [job[a] EXCEPT !.do = s].buf = job[a].buf
      /\ Do(s) \in Job /\ Do(s).do = s /\ Do(s).buf = 0
  BY <1>1, JobFacts
<1>4. j \in Job /\ j.do # "made" /\ j.buf \in {0, job[a].buf}
  BY <1>2, <1>3
<1> QED BY <1>2, <1>4, OneJob, TableAlone DEF Inv

\* A program is started.
LEMMA StartKeeps == ASSUME Inv, NEW t \in Threads, Start(t) PROVE Inv'
<1>1. t \in Actors /\ "create" \in Places \ {"made"}
  BY Unpack DEF Inv, Places
<1>2. RestTyped
  BY Unpack DEF Inv, Start, RestTyped, Sizes
<1> QED BY <1>1, <1>2, MoveOn DEF Start

\* The table is full: the new buffer is to be freed.
LEMMA InsertFullKeeps == ASSUME Inv, NEW t \in Threads, InsertFull(t) PROVE Inv'
<1>1. t \in Actors /\ "free" \in Places \ {"made"} /\ RestTyped
  BY Unpack DEF Inv, Places, InsertFull, RestTyped
<1> QED BY <1>1, MoveOn DEF InsertFull

\* A program takes a message: close, or a new size.
LEMMA ReceiveKeeps == ASSUME Inv, NEW t \in Threads, Receive(t) PROVE Inv'
<1>1. t \in Actors /\ {"destroy", "dirty"} \subseteq Places \ {"made"}
  BY Unpack DEF Inv, Places
<1>2. mail[t] \in Seq(Sizes \union {Close}) /\ mail[t] # <<>>
  BY Unpack DEF Inv, Receive
<1>3. Head(mail[t]) \in Sizes \union {Close} /\ Tail(mail[t]) \in Seq(Sizes \union {Close})
  BY <1>2, HeadTailProperties
<1>4. mail' \in [Threads -> Seq(Sizes \union {Close})]
  BY <1>3, Unpack DEF Inv, Receive
<1>5. frame' \in [Threads -> Sizes]
  BY <1>3, Unpack DEF Inv, Receive
<1>6. RestTyped
  BY <1>4, <1>5, Unpack DEF Inv, Receive, RestTyped
<1> QED BY <1>1, <1>6, MoveOn DEF Receive

\* A program without a message left draws its frame.
LEMMA DrawKeeps == ASSUME Inv, NEW t \in Threads, Draw(t) PROVE Inv'
<1>1. t \in Actors /\ "blit" \in Places \ {"made"} /\ RestTyped
  BY Unpack DEF Inv, Places, Draw, RestTyped
<1> QED BY <1>1, MoveOn DEF Draw

\* A program ends by itself.
LEMMA QuitKeeps == ASSUME Inv, NEW t \in Threads, Quit(t) PROVE Inv'
<1>1. t \in Actors /\ "sweep" \in Places \ {"made"} /\ RestTyped
  BY Unpack DEF Inv, Places, Quit, RestTyped
<1> QED BY <1>1, MoveOn DEF Quit

\* The sweep of the windows of a thread is over.
LEMMA LeaveKeeps == ASSUME Inv, NEW t \in Threads, Leave(t) PROVE Inv'
<1>1. t \in Actors /\ "out" \in Places \ {"made"} /\ RestTyped
  BY Unpack DEF Inv, Places, Leave, RestTyped
<1> QED BY <1>1, MoveOn DEF Leave

\* Actors that look a window up and remember its id and thread.
LEMMA Aimed ==
  ASSUME Types, NEW s \in Places \ {"made"}, NEW i \in DOMAIN wins
  PROVE  /\ [Do(s) EXCEPT !.id = wins[i].id, !.tid = wins[i].thread] \in Job
         /\ [Do(s) EXCEPT !.id = wins[i].id] \in Job
         /\ \A j \in {[Do(s) EXCEPT !.id = wins[i].id, !.tid = wins[i].thread],
                      [Do(s) EXCEPT !.id = wins[i].id]} : j.buf = 0 /\ j.do = s
<1>1. wins[i].id \in Nat /\ wins[i].thread \in Actors
  BY Unpack, WindowSeq DEF Window
<1>2. Do(s) \in Job /\ Do(s).buf = 0 /\ Do(s).do = s
  BY JobFacts
<1> QED BY <1>1, <1>2 DEF Job

\* The sweep finds one more window of the thread.
LEMMA SweepOneKeeps == ASSUME Inv, NEW t \in Threads, SweepOne(t) PROVE Inv'
<1>1. t \in Actors /\ "destroy" \in Places \ {"made"} /\ RestTyped
  BY Unpack DEF Inv, Places, SweepOne, RestTyped
<1>2. PICK i \in DOMAIN wins : job' = [job EXCEPT ![t] = [Do("destroy") EXCEPT !.id = wins[i].id]]
  BY DEF SweepOne
<1> DEFINE j == [Do("destroy") EXCEPT !.id = wins[i].id]
<1>3. j \in Job /\ j.buf = 0 /\ j.do # "made"
  BY <1>1, Aimed DEF Inv
<1>4. job' = [job EXCEPT ![t] = j]
  BY <1>2
<1> HIDE DEF j
<1>5. JobsKeep
  BY <1>1, <1>3, <1>4, OneJob DEF Inv
<1> QED BY <1>1, <1>5, TableAlone DEF SweepOne

\* The user clicks a title bar or a window.
LEMMA ClickKeeps == ASSUME Inv, Click PROVE Inv'
<1>1. /\ Desktop \in Actors /\ {"close", "max", "min", "front"} \subseteq Places \ {"made"}
      /\ RestTyped
  BY Unpack DEF Inv, Places, Click, RestTyped
<1>2. PICK i \in DOMAIN wins, s \in {"close", "max", "min", "front"} :
        job' = [job EXCEPT ![Desktop] =
                  [Do(s) EXCEPT !.id = wins[i].id, !.tid = wins[i].thread]]
  BY DEF Click
<1>3. JobsKeep
  <2> DEFINE j == [Do(s) EXCEPT !.id = wins[i].id, !.tid = wins[i].thread]
  <2>1. s \in Places \ {"made"}
    BY <1>1
  <2>2. j \in Job /\ j.buf = 0 /\ j.do = s
    BY <2>1, Aimed DEF Inv
  <2>3. j.do # "made" /\ j.buf \in {0, job[Desktop].buf} /\ job' = [job EXCEPT ![Desktop] = j]
    BY <1>2, <2>2
  <2> HIDE DEF j
  <2> QED BY <1>1, <2>2, <2>3, OneJob DEF Inv
<1> QED BY <1>1, <1>3, TableAlone DEF Click

\* The user starts a program, or goes to its window.
LEMMA LaunchKeeps == ASSUME Inv, NEW t \in Threads, Launch(t) PROVE Inv'
<1>1. /\ Desktop \in Actors /\ t \in Actors /\ {"reap", "front"} \subseteq Places \ {"made"}
      /\ RestTyped
  BY Unpack DEF Inv, Places, Launch, RestTyped
<1>2. CASE job' = [job EXCEPT ![Desktop] = [Do("reap") EXCEPT !.tid = t]]
  <2> DEFINE j == [Do("reap") EXCEPT !.tid = t]
  <2>1. j \in Job /\ j.buf = 0 /\ j.do # "made"
    BY <1>1, JobFacts DEF Job
  <2>2. JobsKeep
    <3>1. job' = [job EXCEPT ![Desktop] = j]
      BY <1>2
    <3>2. Types /\ Desktop \in Actors /\ j.buf \in {0, job[Desktop].buf}
      BY <1>1, <2>1 DEF Inv
    <3> HIDE DEF j
    <3> QED BY <2>1, <3>1, <3>2, OneJob
  <2> QED BY <1>1, <2>2, TableAlone DEF Launch
<1>3. ASSUME NEW i \in DOMAIN wins,
             job' = [job EXCEPT ![Desktop] = [Do("front") EXCEPT !.id = wins[i].id]]
      PROVE  Inv'
  <2> DEFINE j == [Do("front") EXCEPT !.id = wins[i].id]
  <2>1. j \in Job /\ j.buf = 0 /\ j.do # "made"
    <3>1. "front" \in Places \ {"made"}
      BY <1>1
    <3> QED BY <3>1, Aimed DEF Inv
  <2>2. job' = [job EXCEPT ![Desktop] = j]
    BY <1>3
  <2> HIDE DEF j
  <2>3. JobsKeep
    BY <1>1, <2>1, <2>2, OneJob DEF Inv
  <2> QED BY <1>1, <2>3, TableAlone DEF Launch
<1> QED BY <1>2, <1>3 DEF Launch

\* A message to an application.
LEMMA MailTyped ==
  ASSUME Types, NEW d, NEW m \in Sizes \union {Close}, mail' = [mail EXCEPT ![d] = Append(@, m)]
  PROVE  mail' \in [Threads -> Seq(Sizes \union {Close})]
<1>1. \A t \in Threads : Append(mail[t], m) \in Seq(Sizes \union {Close})
  BY Unpack, AppendProperties
<1> QED BY <1>1, Unpack

\* The compositor tells a program to close, before it removes its window.
LEMMA SendCloseKeeps == ASSUME Inv, SendClose PROVE Inv'
<1>1. Desktop \in Actors /\ "destroy" \in Places \ {"made"}
  BY Unpack DEF Inv, Places
<1>2. mail' \in [Threads -> Seq(Sizes \union {Close})]
  BY MailTyped DEF Inv, SendClose
<1>3. RestTyped
  BY <1>2, Unpack DEF Inv, SendClose, RestTyped
<1> QED BY <1>1, <1>3, MoveOn DEF SendClose

\* The compositor tells a program its new size.
LEMMA TellKeeps == ASSUME Inv, Tell PROVE Inv'
<1>1. Desktop \in Actors /\ Idle = Do("idle") /\ "idle" \in Places \ {"made"}
  BY Unpack DEF Inv, Places, Do, Idle
<1>2. job[Desktop].size \in Sizes \union {Close}
  BY Unpack DEF Inv, Job, Close
<1>3. mail' \in [Threads -> Seq(Sizes \union {Close})]
  BY <1>2, MailTyped DEF Inv, Tell
<1>4. RestTyped
  BY <1>3, Unpack DEF Inv, Tell, RestTyped
<1> QED BY <1>1, <1>4, MoveOn DEF Tell

\* The compositor terminates a thread wherever it is; nothing is freed.
LEMMA ReapKeeps == ASSUME Inv, Reap PROVE Inv'
<1>1. job \in [Actors -> Job] /\ Desktop \in Actors /\ job[Desktop].tid \in Actors
  BY Unpack DEF Inv, Job
<1>2. /\ Idle \in Job /\ Idle.buf = 0 /\ Idle.do # "made"
      /\ Do("out") \in Job /\ Do("out").buf = 0 /\ Do("out").do # "made"
  <2>1. "out" \in Places
    BY DEF Places
  <2> QED BY <2>1, JobFacts
<1>3. job' = [job EXCEPT ![Desktop] = Idle, ![job[Desktop].tid] = Do("out")]
  BY DEF Reap
<1>4. job' \in [Actors -> Job]
  BY <1>1, <1>2, <1>3
<1>5. \A a \in Actors : job'[a] \in {Idle, Do("out"), job[a]}
  BY <1>1, <1>3
<1>6. JobsKeep
  <2>1. ASSUME NEW a \in Actors
        PROVE  \/ job'[a].buf = 0 /\ job'[a].do # "made"
               \/ job'[a] = job[a]
    <3>1. CASE job'[a] = Idle
      BY <1>2, <3>1
    <3>2. CASE job'[a] = Do("out")
      BY <1>2, <3>2
    <3> QED BY <1>5, <3>1, <3>2
  <2> QED BY <1>4, <2>1 DEF JobsKeep
<1>7. RestTyped
  BY Unpack DEF Inv, Reap, RestTyped
<1> QED BY <1>6, <1>7, TableAlone DEF Reap

-------------------------------------------------------------------------------
(* Steps that rearrange the table *)

\* Every window of the new table is one of the old, and none is there twice.
LEMMA FromKeeps ==
  ASSUME Windowed, wins \in Seq(Window), wins' \in Seq(Window), UNCHANGED <<heap, nextId>>,
         NEW f \in [DOMAIN wins' -> DOMAIN wins],
         \A i, j \in DOMAIN wins' : i # j => f[i] # f[j],
         \A i \in DOMAIN wins' : Same(wins'[i], wins[f[i]])
  PROVE  /\ Windowed'
         /\ \A i \in DOMAIN wins' : \E k \in DOMAIN wins : wins'[i].buf = wins[k].buf
<1>1. ASSUME NEW i \in DOMAIN wins' PROVE Sound(wins'[i], heap') /\ wins'[i].id < nextId'
  BY <1>1 DEF Windowed, Same, Sound
<1>2. ASSUME NEW i \in DOMAIN wins', NEW j \in DOMAIN wins', i # j
      PROVE  wins'[i].buf # wins'[j].buf /\ wins'[i].id # wins'[j].id
  <2>1. f[i] \in DOMAIN wins /\ f[j] \in DOMAIN wins /\ f[i] # f[j]
    BY <1>2
  <2> QED BY <2>1 DEF Windowed, Same
<1>3. \A i \in DOMAIN wins' : wins'[i].buf = wins[f[i]].buf
  BY DEF Same
<1> QED BY <1>1, <1>2, <1>3 DEF Windowed

\* The same windows in another order, none of them twice.
LEMMA Rearranged ==
  ASSUME Inv, wins' \in Seq(Window), Len(wins') <= MAX_WINDOWS, UNCHANGED <<heap, nextId>>,
         NEW f \in [DOMAIN wins' -> DOMAIN wins],
         \A i, j \in DOMAIN wins' : i # j => f[i] # f[j],
         \A i \in DOMAIN wins' : Same(wins'[i], wins[f[i]]),
         FocusOnTop', JobsKeep, RestTyped
  PROVE  Inv'
<1>1. /\ Windowed'
      /\ \A i \in DOMAIN wins' : \E k \in DOMAIN wins : wins'[i].buf = wins[k].buf
  BY FromKeeps, Unpack DEF Inv
<1>2. Carried'
  BY <1>1, CarriedKeeps DEF Inv
<1>3. Types'
  BY DEF Inv, Types, TypeOK, JobsKeep, RestTyped, Job
<1> QED BY <1>1, <1>2, <1>3 DEF Inv

\* An id names one window or none.
LEMMA NamedOne ==
  ASSUME Inv, NEW id, NEW w \in Named(id)
  PROVE  \E k \in DOMAIN wins : /\ w = wins[k] /\ wins[k].id = id
                                /\ \A i \in DOMAIN wins : wins[i].id = wins[k].id => i = k
BY DEF Named, Inv, Windowed

\* bring_to_front: the window is the last one and the only one with the focus.
LEMMA RaisedFacts ==
  ASSUME Inv, NEW k \in DOMAIN wins,
         \A i \in DOMAIN wins : wins[i].id = wins[k].id => i = k,
         wins' = Raised(wins, wins[k])
  PROVE  /\ wins' \in Seq(Window) /\ Len(wins') = Len(wins)
         /\ \A i \in 1 .. Len(wins) :
              LET o == IF i = Len(wins) THEN k ELSE IF i < k THEN i ELSE i + 1
              IN  o \in DOMAIN wins /\ Same(wins'[i], wins[o])
         /\ \A i \in 1 .. Len(wins) - 1 : wins'[i].focused = FALSE
<1> DEFINE us == Unfocused(wins)
           os == Others(us, wins[k].id)
           top == [wins[k] EXCEPT !.min = FALSE, !.focused = TRUE]
<1>1. wins \in Seq(Window) /\ Len(wins) \in Nat /\ DOMAIN wins = 1 .. Len(wins)
      /\ wins[k] \in Window
  BY Unpack, WindowSeq DEF Inv
<1>2. /\ us \in Seq(Window) /\ Len(us) = Len(wins) /\ DOMAIN us = DOMAIN wins
      /\ \A i \in DOMAIN wins : Same(us[i], wins[i]) /\ us[i].focused = FALSE
  BY <1>1, UnfocusedFacts
<1>3. us[k].id = wins[k].id /\ \A i \in DOMAIN us : us[i].id = us[k].id => i = k
  BY <1>2 DEF Same
<1> HIDE DEF us
<1>4. /\ os \in Seq(Window) /\ Len(os) = Len(wins) - 1
      /\ \A i \in 1 .. Len(wins) - 1 : os[i] = us[IF i < k THEN i ELSE i + 1]
  <2>1. k \in DOMAIN us /\ os = Others(us, us[k].id)
    BY <1>2, <1>3
  <2> HIDE DEF os
  <2> QED BY <1>2, <1>3, <2>1, OthersFacts
<1>5. top \in Window /\ Same(top, wins[k])
  BY <1>1 DEF Window, Same
<1>6. wins' = Append(os, top)
  BY DEF Raised, us
<1> HIDE DEF os, top
<1>7. /\ wins' \in Seq(Window) /\ Len(wins') = Len(wins) /\ wins'[Len(wins)] = top
      /\ \A i \in 1 .. Len(wins) - 1 : wins'[i] = os[i]
  <2>1. /\ Append(os, top) \in Seq(Window) /\ Len(Append(os, top)) = Len(os) + 1
        /\ Append(os, top)[Len(os) + 1] = top
        /\ \A i \in 1 .. Len(os) : Append(os, top)[i] = os[i]
    BY <1>4, <1>5, AppendProperties
  <2>2. Len(os) + 1 = Len(wins)
    BY <1>1, <1>4
  <2> QED BY <1>4, <1>6, <2>1, <2>2
<1>8. ASSUME NEW i \in 1 .. Len(wins) - 1
      PROVE  LET o == IF i < k THEN i ELSE i + 1
             IN  o \in DOMAIN wins /\ wins'[i] = us[o]
  <2>1. wins'[i] = us[IF i < k THEN i ELSE i + 1]
    BY <1>4, <1>7
  <2>2. (IF i < k THEN i ELSE i + 1) \in DOMAIN wins
    BY <1>1
  <2> QED BY <2>1, <2>2
<1>9. \A i \in 1 .. Len(wins) - 1 : wins'[i].focused = FALSE
  BY <1>2, <1>8
<1>10. ASSUME NEW i \in 1 .. Len(wins)
       PROVE  LET o == IF i = Len(wins) THEN k ELSE IF i < k THEN i ELSE i + 1
              IN  o \in DOMAIN wins /\ Same(wins'[i], wins[o])
  <2>1. CASE i = Len(wins)
    BY <1>5, <1>7, <2>1
  <2>2. CASE i # Len(wins)
    <3> DEFINE n == Len(wins)
    <3>0. n \in Nat /\ i \in 1 .. n /\ i # n
      BY <1>1, <2>2
    <3> HIDE DEF n
    <3>1. i \in 1 .. n - 1
      BY <3>0
    <3> QED BY <1>2, <1>8, <2>2, <3>1 DEF n
  <2> QED BY <2>1, <2>2
<1> QED BY <1>7, <1>9, <1>10

\* destroy_window: the windows above it move down, the new top one gets the focus.
LEMMA RemovedFacts ==
  ASSUME Inv, NEW k \in DOMAIN wins,
         \A i \in DOMAIN wins : wins[i].id = wins[k].id => i = k,
         wins' = Removed(wins, wins[k].id)
  PROVE  /\ wins' \in Seq(Window) /\ Len(wins') = Len(wins) - 1
         /\ \A i \in 1 .. Len(wins) - 1 :
              LET o == IF i < k THEN i ELSE i + 1
              IN  /\ o \in DOMAIN wins /\ o # k /\ Same(wins'[i], wins[o])
                  /\ wins'[i].min = wins[o].min
                  /\ wins'[i].focused => wins[o].focused \/ i = Len(wins) - 1
<1> DEFINE os == Others(wins, wins[k].id)
<1>1. wins \in Seq(Window) /\ Len(wins) \in Nat /\ DOMAIN wins = 1 .. Len(wins)
  BY Unpack, WindowSeq DEF Inv
<1>2. /\ os \in Seq(Window) /\ Len(os) = Len(wins) - 1
      /\ \A i \in 1 .. Len(wins) - 1 : os[i] = wins[IF i < k THEN i ELSE i + 1]
  BY <1>1, OthersFacts
<1>3. wins' = FocusAt(os, Len(os))
  BY DEF Removed
<1> HIDE DEF os
<1>4. Len(os) \in 0 .. Len(os) /\ DOMAIN os = 1 .. Len(os)
  BY <1>2, WindowSeq
<1>5. /\ wins' \in Seq(Window) /\ Len(wins') = Len(wins) - 1
      /\ \A i \in 1 .. Len(wins) - 1 :
           /\ Same(wins'[i], os[i]) /\ wins'[i].min = os[i].min
           /\ wins'[i].focused <=> os[i].focused \/ i = Len(wins) - 1
  BY <1>2, <1>3, <1>4, FocusAtFacts
<1>6. ASSUME NEW i \in 1 .. Len(wins) - 1
      PROVE  LET o == IF i < k THEN i ELSE i + 1
             IN  o \in DOMAIN wins /\ o # k /\ os[i] = wins[o]
  BY <1>1, <1>2
<1> QED BY <1>5, <1>6

\* toggle_minimize: the topmost window that is still shown gets the focus.
LEMMA HiddenFacts ==
  ASSUME Inv, NEW k \in DOMAIN wins,
         \A i \in DOMAIN wins : wins[i].id = wins[k].id => i = k,
         wins' = Hidden(wins, wins[k].id)
  PROVE  /\ wins' \in Seq(Window) /\ Len(wins') = Len(wins)
         /\ \A i \in DOMAIN wins : Same(wins'[i], wins[i])
         /\ FocusOnTop'
<1> DEFINE hid == [i \in DOMAIN wins |-> IF wins[i].id = wins[k].id
                     THEN [wins[i] EXCEPT !.min = TRUE, !.focused = FALSE] ELSE wins[i]]
           t == TopVisible(hid)
<1>1. wins \in Seq(Window) /\ Len(wins) \in Nat /\ DOMAIN wins = 1 .. Len(wins)
      /\ \A i \in DOMAIN wins : wins[i] \in Window
  BY Unpack, WindowSeq DEF Inv
<1>2. \A w \in Window : /\ [w EXCEPT !.min = TRUE, !.focused = FALSE] \in Window
                        /\ [w EXCEPT !.min = TRUE, !.focused = FALSE].min
                        /\ Same([w EXCEPT !.min = TRUE, !.focused = FALSE], w)
  BY DEF Window, Same
<1>3. hid \in [1 .. Len(wins) -> Window]
  BY <1>1, <1>2
<1>4. hid \in Seq(Window) /\ Len(hid) = Len(wins) /\ DOMAIN hid = DOMAIN wins
  BY <1>1, <1>3, IsWindowSeq
<1>5. \A i \in DOMAIN wins : /\ Same(hid[i], wins[i])
                             /\ i # k => hid[i] = wins[i]
                             /\ hid[k].min
  BY <1>1, <1>2 DEF Same
<1>6. wins' = FocusAt(hid, t)
  BY DEF Hidden
<1> HIDE DEF hid
<1>7. /\ t \in 0 .. Len(hid)
      /\ t = 0 => \A i \in DOMAIN wins : hid[i].min
      /\ t # 0 => \A j \in DOMAIN wins : t < j => hid[j].min
  BY <1>4, TopVisibleFacts
<1> HIDE DEF t
<1>8. /\ wins' \in Seq(Window) /\ Len(wins') = Len(wins)
      /\ \A i \in DOMAIN wins : /\ Same(wins'[i], hid[i]) /\ wins'[i].min = hid[i].min
                                /\ wins'[i].focused <=> hid[i].focused \/ i = t
  BY <1>4, <1>6, <1>7, FocusAtFacts
<1>9. FocusOnTop'
  <2> SUFFICES ASSUME NEW i \in DOMAIN wins, wins'[i].focused, ~wins'[i].min,
                      NEW j \in DOMAIN wins, i < j
               PROVE  wins'[j].min
    BY <1>1, <1>8, WindowSeq DEF FocusOnTop
  <2>1. CASE i = t
    BY <1>1, <1>7, <1>8, <2>1
  <2>2. CASE i # t
    <3>1. hid[i].focused /\ ~hid[i].min
      BY <1>8, <2>2
    <3>2. i # k /\ wins[i].focused /\ ~wins[i].min
      BY <1>5, <3>1
    <3>3. wins[j].min
      BY <3>2 DEF Inv, FocusOnTop
    <3> QED BY <1>5, <1>8, <3>3
  <2> QED BY <2>1, <2>2
<1>10. \A i \in DOMAIN wins : Same(wins'[i], wins[i])
  BY <1>5, <1>8 DEF Same
<1> QED BY <1>8, <1>9, <1>10

\* Taking the kth to the end moves no two to one place.
LEMMA RotationIsInjective ==
  ASSUME NEW n \in Nat, NEW k \in 1 .. n, NEW i \in 1 .. n, NEW j \in 1 .. n, i # j
  PROVE  (IF i = n THEN k ELSE IF i < k THEN i ELSE i + 1)
           # (IF j = n THEN k ELSE IF j < k THEN j ELSE j + 1)
OBVIOUS

\* A window comes to the front.
LEMMA FrontKeeps == ASSUME Inv, Front PROVE Inv'
<1>1. JobsKeep
  <2>1. job[Desktop] \in Job /\ Desktop \in Actors /\ {"tell", "idle"} \subseteq Places
    BY Unpack DEF Inv, Places
  <2>2. PICK j \in {[job[Desktop] EXCEPT !.do = "tell"], Idle} :
          job' = [job EXCEPT ![Desktop] = j]
    BY DEF Front
  <2>3. /\ [job[Desktop] EXCEPT !.do = "tell"] \in Job
        /\ [job[Desktop] EXCEPT !.do = "tell"].do = "tell"
        /\ [job[Desktop] EXCEPT !.do = "tell"].buf = job[Desktop].buf
        /\ Idle \in Job /\ Idle.buf = 0 /\ Idle.do = "idle"
    BY <2>1, JobFacts
  <2>4. j \in Job /\ j.do # "made" /\ j.buf \in {0, job[Desktop].buf}
    BY <2>2, <2>3
  <2> QED BY <2>1, <2>2, <2>4, OneJob DEF Inv
<1>2. RestTyped /\ UNCHANGED <<heap, nextId>>
  BY Unpack DEF Inv, Front, RestTyped
<1>3. CASE UNCHANGED wins
  BY <1>1, <1>2, <1>3, TableAlone
<1>4. ASSUME NEW w \in Named(job[Desktop].id), wins' = Raised(wins, w) PROVE Inv'
  <2>1. PICK k \in DOMAIN wins :
          w = wins[k] /\ \A i \in DOMAIN wins : wins[i].id = wins[k].id => i = k
    BY NamedOne
  <2> DEFINE n == Len(wins)
             old(i) == IF i = n THEN k ELSE IF i < k THEN i ELSE i + 1
             f == [i \in DOMAIN wins' |-> old(i)]
  <2>2. /\ wins' \in Seq(Window) /\ Len(wins') = n
        /\ \A i \in 1 .. n : old(i) \in DOMAIN wins /\ Same(wins'[i], wins[old(i)])
        /\ \A i \in 1 .. n - 1 : wins'[i].focused = FALSE
    BY <1>4, <2>1, RaisedFacts
  <2>3. n \in Nat /\ DOMAIN wins' = 1 .. n /\ DOMAIN wins = 1 .. n /\ n <= MAX_WINDOWS
    BY <2>2, Unpack, WindowSeq DEF Inv, Types, TypeOK
  <2>4. \A i, j \in 1 .. n : i # j => old(i) # old(j)
    <3>1. k \in 1 .. n
      BY <2>3
    <3> HIDE DEF n
    <3> QED BY <2>3, <3>1, RotationIsInjective
  <2>5. /\ f \in [DOMAIN wins' -> DOMAIN wins]
        /\ \A i, j \in DOMAIN wins' : i # j => f[i] # f[j]
        /\ \A i \in DOMAIN wins' : Same(wins'[i], wins[f[i]])
    BY <2>2, <2>3, <2>4
  <2>6. FocusOnTop'
    <3> SUFFICES ASSUME NEW i \in 1 .. n, wins'[i].focused, NEW j \in 1 .. n, i < j
                 PROVE  FALSE
      BY <2>3 DEF FocusOnTop
    <3> HIDE DEF n
    <3>1. i \in 1 .. n - 1
      BY <2>3
    <3> QED BY <2>2, <3>1
  <2> HIDE DEF f, old
  <2> QED BY <1>1, <1>2, <2>2, <2>3, <2>5, <2>6, Rearranged
<1> QED BY <1>3, <1>4 DEF Front

\* A window is minimised.
LEMMA MinimiseKeeps == ASSUME Inv, Minimise PROVE Inv'
<1>1. Desktop \in Actors /\ "front" \in Places \ {"made"} /\ Idle \in Job
      /\ Idle.buf = 0 /\ Idle.do # "made"
  BY Unpack, JobFacts DEF Inv, Places
<1>2. RestTyped /\ UNCHANGED <<heap, nextId>>
  BY Unpack DEF Inv, Minimise, RestTyped
<1>3. CASE job' = [job EXCEPT ![Desktop].do = "front"] /\ UNCHANGED wins
  BY <1>1, <1>2, <1>3, MoveOn
<1>4. ASSUME job' = [job EXCEPT ![Desktop] = Idle] PROVE JobsKeep
  BY <1>1, <1>4, OneJob DEF Inv
<1>5. CASE job' = [job EXCEPT ![Desktop] = Idle] /\ UNCHANGED wins
  BY <1>2, <1>4, <1>5, TableAlone
<1>6. ASSUME NEW w \in Named(job[Desktop].id), wins' = Hidden(wins, w.id),
             job' = [job EXCEPT ![Desktop] = Idle]
      PROVE  Inv'
  <2>1. PICK k \in DOMAIN wins :
          w = wins[k] /\ \A i \in DOMAIN wins : wins[i].id = wins[k].id => i = k
    BY NamedOne
  <2>2. /\ wins' \in Seq(Window) /\ Len(wins') = Len(wins)
        /\ \A i \in DOMAIN wins : Same(wins'[i], wins[i])
        /\ FocusOnTop'
    BY <1>6, <2>1, HiddenFacts
  <2>3. DOMAIN wins' = DOMAIN wins /\ Len(wins') <= MAX_WINDOWS
    BY <2>2, Unpack, WindowSeq DEF Inv, Types, TypeOK
  <2> DEFINE f == [i \in DOMAIN wins' |-> i]
  <2>4. /\ f \in [DOMAIN wins' -> DOMAIN wins]
        /\ \A i, j \in DOMAIN wins' : i # j => f[i] # f[j]
        /\ \A i \in DOMAIN wins' : Same(wins'[i], wins[f[i]])
    BY <2>2, <2>3
  <2> HIDE DEF f
  <2> QED BY <1>2, <1>4, <1>6, <2>2, <2>3, <2>4, Rearranged
<1> QED BY <1>3, <1>5, <1>6 DEF Minimise

\* destroy_window hands the buffer of the window to its caller, who frees it later.
LEMMA DestroyKeeps == ASSUME Inv, NEW a \in Actors, Destroy(a) PROVE Inv'
<1>1. RestTyped /\ UNCHANGED <<heap, nextId>>
  BY Unpack DEF Inv, Destroy, RestTyped
<1>2. CASE job' = [job EXCEPT ![a] = Home(a)] /\ UNCHANGED wins
  <2>1. Home(a) \in Job /\ Home(a).buf = 0 /\ Home(a).do # "made"
    BY JobFacts DEF Home, Places
  <2>2. JobsKeep
    BY <1>2, <2>1, OneJob DEF Inv
  <2> QED BY <1>1, <1>2, <2>2, TableAlone
<1>3. ASSUME NEW w \in Named(job[a].id), wins' = Removed(wins, w.id),
             job' = [job EXCEPT ![a] = [Do("free") EXCEPT !.buf = w.buf]]
      PROVE  Inv'
  <2>1. PICK k \in DOMAIN wins :
          w = wins[k] /\ \A i \in DOMAIN wins : wins[i].id = wins[k].id => i = k
    BY NamedOne
  <2> DEFINE n == Len(wins)
             old(i) == IF i < k THEN i ELSE i + 1
             f == [i \in DOMAIN wins' |-> old(i)]
             j == [Do("free") EXCEPT !.buf = w.buf]
  <2>2. /\ wins' \in Seq(Window) /\ Len(wins') = n - 1
        /\ \A i \in 1 .. n - 1 :
             /\ old(i) \in DOMAIN wins /\ old(i) # k /\ Same(wins'[i], wins[old(i)])
             /\ wins'[i].min = wins[old(i)].min
             /\ wins'[i].focused => wins[old(i)].focused \/ i = n - 1
    BY <1>3, <2>1, RemovedFacts
  <2>3. n \in Nat /\ DOMAIN wins' = 1 .. n - 1 /\ DOMAIN wins = 1 .. n /\ n <= MAX_WINDOWS
        /\ MAX_WINDOWS \in Nat
    BY <2>2, Unpack, WindowSeq, WindowsAssumption DEF Inv, Types, TypeOK
  <2>4. \A p, q \in 1 .. n - 1 : /\ p # q => old(p) # old(q)
                                 /\ p < q => old(p) < old(q)
    BY <2>3
  <2>5. /\ f \in [DOMAIN wins' -> DOMAIN wins]
        /\ \A p, q \in DOMAIN wins' : p # q => f[p] # f[q]
        /\ \A i \in DOMAIN wins' : Same(wins'[i], wins[f[i]])
    BY <2>2, <2>3, <2>4
  <2>6. FocusOnTop'
    <3> SUFFICES ASSUME NEW p \in 1 .. n - 1, NEW q \in 1 .. n - 1, p < q,
                        wins'[p].focused, ~wins'[p].min
                 PROVE  wins'[q].min
      BY <2>3 DEF FocusOnTop
    <3>1. wins[old(p)].focused /\ ~wins[old(p)].min /\ old(p) < old(q)
      BY <2>2, <2>3, <2>4
    <3>2. wins[old(q)].min
      BY <2>2, <3>1 DEF Inv, FocusOnTop
    <3> QED BY <2>2, <3>2
  <2>7. j \in Job /\ j.buf = w.buf /\ j.do = "free"
    <3>1. w.buf \in Nat /\ "free" \in Places
      BY <2>1, Unpack, WindowSeq DEF Inv, Window, Places
    <3>2. Do("free") \in Job /\ Do("free").do = "free"
      BY <3>1, JobFacts
    <3> QED BY <3>1, <3>2 DEF Job
  <2> HIDE DEF f, old, j
  <2>8. Windowed' /\ \A i \in DOMAIN wins' : \E l \in DOMAIN wins : wins'[i].buf = wins[l].buf
    BY <1>1, <2>2, <2>5, FromKeeps, Unpack DEF Inv
  <2>9. job' \in [Actors -> Job] /\ \A b \in Actors : job'[b] = IF b = a THEN j ELSE job[b]
    BY <1>3, <2>7, Unpack DEF Inv, j
  <2>10. Types'
    <3>1. wins' \in Seq(Window) /\ Len(wins') <= MAX_WINDOWS
      <4> HIDE DEF n
      <4> QED BY <2>2, <2>3
    <3> QED BY <1>1, <2>9, <3>1 DEF Inv, Types, TypeOK, RestTyped, Job
  <2>11. \A i \in DOMAIN wins' : wins'[i].buf # w.buf
    <3>1. \A i \in DOMAIN wins' : f[i] \in DOMAIN wins /\ f[i] # k /\ wins'[i].buf = wins[f[i]].buf
      BY <2>2, <2>3 DEF f, Same
    <3> QED BY <2>1, <3>1 DEF Inv, Windowed
  <2>12. w.buf \in DOMAIN heap /\ \A b \in Actors : job[b].buf # 0 => job[b].buf # w.buf
    BY <2>1 DEF Inv, Windowed, Sound, Carried
  <2>13. w.buf # 0
    BY <2>12 DEF Inv, Types, TypeOK
  <2>14. Carried'
    <3>1. \A b \in Actors : job'[b].do = "made" => job'[b].buf # 0
      BY <2>7, <2>9 DEF Inv, Carried
    <3>2. ASSUME NEW b \in Actors, job'[b].buf # 0
          PROVE  /\ job'[b].buf \in DOMAIN heap
                 /\ \A i \in DOMAIN wins' : wins'[i].buf # job'[b].buf
      <4>1. CASE b = a
        BY <2>7, <2>9, <2>11, <2>12, <4>1
      <4>2. CASE b # a
        BY <2>8, <2>9, <3>2, <4>2 DEF Inv, Carried
      <4> QED BY <4>1, <4>2
    <3>3. ASSUME NEW b \in Actors, job'[b].buf # 0, NEW c \in Actors \ {b}
          PROVE  job'[c].buf # job'[b].buf
      BY <2>7, <2>9, <2>12, <2>13, <3>3 DEF Inv, Carried
    <3> QED BY <1>1, <3>1, <3>2, <3>3 DEF Carried
  <2> QED BY <2>6, <2>8, <2>10, <2>14 DEF Inv
<1> QED BY <1>2, <1>3 DEF Destroy

-------------------------------------------------------------------------------
(* Steps that take a buffer, give it back, or move it *)

\* The kernel allocates the buffer of a new window.
LEMMA AllocateKeeps == ASSUME Inv, NEW t \in Threads, Allocate(t) PROVE Inv'
<1>1. t \in Actors /\ "sweep" \in Places \ {"made"} /\ "made" \in Places
  BY Unpack DEF Inv, Places
<1>2. RestTyped /\ UNCHANGED <<wins, nextId>>
  BY Unpack DEF Inv, Allocate, RestTyped
<1>3. CASE job' = [job EXCEPT ![t] = Do("sweep")] /\ UNCHANGED heap
  BY <1>1, <1>2, <1>3, MoveOn
<1>4. CASE /\ heap' = With(Unused, Normal)
           /\ job' = [job EXCEPT ![t] = [Do("made") EXCEPT !.buf = Unused]]
  <2> DEFINE u == Unused
             j == [Do("made") EXCEPT !.buf = u]
  <2>1. u \in Nat \ {0} /\ u \notin DOMAIN heap
    BY UnusedIsFree DEF Inv, Types
  <2>2. /\ DOMAIN heap' = DOMAIN heap \union {u} /\ heap'[u] = Normal
        /\ \A x \in DOMAIN heap : heap'[x] = heap[x]
    BY <1>4, <2>1 DEF With
  <2>3. j \in Job /\ j.buf = u /\ j.do = "made"
    <3>1. Do("made") \in Job /\ Do("made").do = "made"
      BY <1>1, JobFacts
    <3> HIDE DEF u
    <3> QED BY <2>1, <3>1 DEF Job
  <2>4. job' = [job EXCEPT ![t] = j]
    BY <1>4
  <2> HIDE DEF u, j
  <2>5. job' \in [Actors -> Job] /\ \A b \in Actors : job'[b] = IF b = t THEN j ELSE job[b]
    BY <1>1, <2>3, <2>4, Unpack DEF Inv
  <2>6. IsFiniteSet(DOMAIN heap')
    BY <2>2, FS_AddElement DEF Inv, Types
  <2>7. Types'
    BY <1>2, <2>1, <2>2, <2>5, <2>6
       DEF Inv, Types, TypeOK, RestTyped, Job, Sizes
  <2>8. Windowed' /\ FocusOnTop'
    BY <1>2, <2>2 DEF Inv, Windowed, Sound, FocusOnTop
  <2>9. \A b \in Actors : job[b].buf # u
    BY <2>1 DEF Inv, Carried
  <2>10. \A i \in DOMAIN wins : wins[i].buf # u
    BY <2>1 DEF Inv, Windowed, Sound
  <2>11. Carried'
    BY <1>2, <2>1, <2>2, <2>3, <2>5, <2>9, <2>10 DEF Inv, Carried
  <2> QED BY <2>7, <2>8, <2>11 DEF Inv
<1> QED BY <1>3, <1>4 DEF Allocate

\* The new window gets the buffer its thread carried.
LEMMA InsertKeeps == ASSUME Inv, NEW t \in Threads, Insert(t) PROVE Inv'
<1> DEFINE us == Unfocused(wins)
           n == Len(wins)
           new == [id |-> nextId, thread |-> t, min |-> FALSE, max |-> FALSE, focused |-> TRUE,
                   size |-> Normal, saved |-> Normal, buf |-> job[t].buf]
           j == [Do("blit") EXCEPT !.id = nextId]
<1>1. /\ t \in Actors /\ "blit" \in Places /\ wins \in Seq(Window) /\ nextId \in Nat
      /\ job[t] \in Job /\ job \in [Actors -> Job] /\ DOMAIN wins = 1 .. n /\ n \in Nat
  BY Unpack, WindowSeq DEF Inv, Places
<1>2. /\ RestTyped /\ heap' = heap /\ nextId' = nextId + 1 /\ wins' = Append(us, new)
      /\ job' = [job EXCEPT ![t] = j] /\ n < MAX_WINDOWS /\ job[t].do = "made"
  BY Unpack DEF Inv, Insert, RestTyped
<1>3. /\ us \in Seq(Window) /\ Len(us) = n
      /\ \A i \in 1 .. n : Same(us[i], wins[i]) /\ us[i].focused = FALSE
  BY <1>1, UnfocusedFacts
<1>4. new \in Window /\ new.buf = job[t].buf /\ new.id = nextId
      /\ new.size = Normal /\ new.max = FALSE
  BY <1>1 DEF Window, Job, Sizes, Normal, Full
<1>5. j \in Job /\ j.buf = 0 /\ j.do = "blit"
  BY <1>1, JobFacts DEF Job
<1> HIDE DEF us, new, j, n
<1>6. /\ wins' \in Seq(Window) /\ Len(wins') = n + 1 /\ wins'[n + 1] = new
      /\ \A i \in 1 .. n : wins'[i] = us[i]
      /\ DOMAIN wins' = 1 .. n + 1
  <2>1. /\ wins' \in Seq(Window) /\ Len(wins') = n + 1 /\ wins'[n + 1] = new
        /\ \A i \in 1 .. n : wins'[i] = us[i]
    BY <1>2, <1>3, <1>4, AppendProperties
  <2> QED BY <2>1, WindowSeq
<1>7. job' \in [Actors -> Job] /\ \A b \in Actors : job'[b] = IF b = t THEN j ELSE job[b]
  BY <1>1, <1>2, <1>5
<1>8. /\ job[t].buf \in DOMAIN heap /\ job[t].buf # 0
      /\ \A i \in 1 .. n : wins[i].buf # job[t].buf
      /\ \A b \in Actors \ {t} : job[b].buf # job[t].buf
  BY <1>1, <1>2 DEF Inv, Carried
<1>9. Types'
  <2>1. Len(wins') <= MAX_WINDOWS
    BY <1>1, <1>2, <1>6, WindowsAssumption
  <2>2. nextId' \in Nat
    BY <1>1, <1>2
  <2> QED BY <1>2, <1>6, <1>7, <2>1, <2>2 DEF Inv, Types, TypeOK, RestTyped, Job
<1>10. Windowed'
  <2>1. ASSUME NEW i \in 1 .. n
        PROVE  /\ Sound(wins'[i], heap') /\ wins'[i].id < nextId /\ wins'[i].buf # new.buf
               /\ wins'[i].id = wins[i].id /\ wins'[i].buf = wins[i].buf /\ wins[i].id \in Nat
    <3>1. wins[i] \in Window /\ Same(wins'[i], wins[i])
      BY <1>1, <1>3, <1>6, WindowSeq
    <3>2. Sound(wins[i], heap) /\ wins[i].id < nextId /\ wins[i].id \in Nat
      BY <1>1, <3>1 DEF Inv, Windowed, Window
    <3>3. Sound(wins'[i], heap')
      BY <1>2, <3>1, <3>2 DEF Same, Sound
    <3> QED BY <1>4, <1>8, <3>1, <3>2, <3>3 DEF Same
  <2>2. Sound(wins'[n + 1], heap') /\ wins'[n + 1].id = nextId
    <3>1. heap[job[t].buf] \in Sizes
      BY <1>8 DEF Inv, Types, TypeOK
    <3>2. Normal <= heap[job[t].buf]
      BY <3>1 DEF Sizes, Normal, Full
    <3> QED BY <1>2, <1>4, <1>6, <1>8, <3>2 DEF Sound
  <2>3. \A i \in DOMAIN wins' : i \in 1 .. n \/ i = n + 1
    BY <1>1, <1>6
  <2>4. \A i \in DOMAIN wins' : Sound(wins'[i], heap') /\ wins'[i].id < nextId'
    BY <1>1, <1>2, <2>1, <2>2, <2>3
  <2>5. \A i, k \in 1 .. n : i # k => wins[i].buf # wins[k].buf /\ wins[i].id # wins[k].id
    BY <1>1 DEF Inv, Windowed
  <2>6. \A i, k \in DOMAIN wins' :
          i # k => wins'[i].buf # wins'[k].buf /\ wins'[i].id # wins'[k].id
    BY <1>1, <1>6, <2>1, <2>2, <2>3, <2>5
  <2> QED BY <2>4, <2>6 DEF Windowed
<1>11. FocusOnTop'
  BY <1>1, <1>3, <1>6 DEF FocusOnTop
<1>12. Carried'
  <2>1. \A b \in Actors : job'[b].do = "made" => job'[b].buf # 0
    BY <1>5, <1>7 DEF Inv, Carried
  <2>2. ASSUME NEW b \in Actors, job'[b].buf # 0
        PROVE  /\ b # t /\ job'[b] = job[b] /\ job[b].buf \in DOMAIN heap
               /\ \A i \in 1 .. n : wins[i].buf # job[b].buf
               /\ \A c \in Actors \ {b} : job[c].buf # job[b].buf
    BY <1>1, <1>5, <1>7, <2>2 DEF Inv, Carried
  <2>3. ASSUME NEW b \in Actors, job'[b].buf # 0, NEW i \in DOMAIN wins'
        PROVE  wins'[i].buf # job'[b].buf
    <3>1. CASE i \in 1 .. n
      BY <1>3, <1>6, <2>2, <2>3, <3>1 DEF Same
    <3>2. CASE i = n + 1
      BY <1>1, <1>4, <1>6, <2>2, <2>3, <3>2
    <3> QED BY <1>1, <1>6, <3>1, <3>2
  <2>4. ASSUME NEW b \in Actors, job'[b].buf # 0, NEW c \in Actors \ {b}
        PROVE  job'[c].buf # job'[b].buf
    BY <1>5, <1>7, <2>2, <2>4
  <2> QED BY <1>2, <2>1, <2>2, <2>3, <2>4 DEF Carried
<1> QED BY <1>9, <1>10, <1>11, <1>12 DEF Inv

\* kheap_free after the lock: nobody else has the buffer.
LEMMA FreeKeeps == ASSUME Inv, NEW a \in Actors, Free(a) PROVE Inv'
<1> DEFINE b == job[a].buf
<1>1. RestTyped /\ UNCHANGED <<wins, nextId>>
  BY Unpack DEF Inv, Free, RestTyped
<1>2. Home(a) \in Job /\ Home(a).buf = 0 /\ Home(a).do # "made"
  BY JobFacts DEF Home, Places
<1>3. JobsKeep /\ \A c \in Actors : job'[c] = IF c = a THEN Home(a) ELSE job[c]
  BY <1>2, OneJob, Unpack DEF Inv, Free
<1>4. /\ DOMAIN heap' = DOMAIN heap \ {b}
      /\ \A x \in DOMAIN heap' : heap'[x] = heap[x]
  BY DEF Free, Without
<1>5. \A i \in DOMAIN wins : wins[i].buf # b
  BY DEF Inv, Windowed, Sound, Carried, Types, TypeOK
<1>6. \A c \in Actors \ {a} : job[c].buf # 0 => job[c].buf # b
  BY DEF Inv, Carried
<1> HIDE DEF b
<1>7. IsFiniteSet(DOMAIN heap')
  BY <1>4, FS_RemoveElement DEF Inv, Types
<1>8. Types'
  BY <1>1, <1>3, <1>4, <1>7 DEF Inv, Types, TypeOK, RestTyped, JobsKeep, Job
<1>9. Windowed' /\ FocusOnTop'
  BY <1>1, <1>4, <1>5 DEF Inv, Windowed, Sound, FocusOnTop
<1>10. Carried'
  BY <1>1, <1>2, <1>3, <1>4, <1>6 DEF Inv, Carried
<1> QED BY <1>8, <1>9, <1>10 DEF Inv

\* kheap_realloc: afterwards the block has the room, or nothing has changed; the other
\* blocks keep their places.
LEMMA ReallocDoes ==
  ASSUME Inv, NEW b \in DOMAIN heap, NEW size \in Sizes, NEW moved, Realloc(b, size, moved)
  PROVE  /\ DOMAIN heap' \subseteq Nat \ {0} /\ IsFiniteSet(DOMAIN heap')
         /\ \A x \in DOMAIN heap' : heap'[x] \in Sizes
         /\ \A x \in DOMAIN heap \ {b} : x \in DOMAIN heap' /\ heap'[x] = heap[x]
         /\ \/ /\ moved # 0 /\ moved \in DOMAIN heap' /\ size <= heap'[moved]
               /\ moved = b \/ moved \notin DOMAIN heap
            \/ moved = 0 /\ heap' = heap /\ heap[b] < size
<1>1. /\ DOMAIN heap \subseteq Nat \ {0} /\ IsFiniteSet(DOMAIN heap)
      /\ \A x \in DOMAIN heap : heap[x] \in Sizes
  BY DEF Inv, Types, TypeOK
<1>2. CASE heap[b] >= size /\ moved = b /\ heap' = heap
  BY <1>1, <1>2 DEF Sizes, Normal, Full
<1>3. CASE heap[b] < size /\ moved = 0 /\ heap' = heap
  BY <1>1, <1>3
<1>4. CASE /\ moved = Unused
           /\ heap' = [x \in (DOMAIN heap \ {b}) \union {Unused} |->
                         IF x = Unused THEN size ELSE heap[x]]
  <2>1. Unused \in Nat \ {0} /\ Unused \notin DOMAIN heap
    BY <1>1, UnusedIsFree
  <2>2. /\ DOMAIN heap' = (DOMAIN heap \ {b}) \union {moved} /\ heap'[moved] = size
        /\ \A x \in DOMAIN heap \ {b} : heap'[x] = heap[x]
    BY <1>4, <2>1
  <2>3. IsFiniteSet(DOMAIN heap')
    <3>1. IsFiniteSet(DOMAIN heap \ {b})
      BY <1>1, FS_RemoveElement
    <3>2. IsFiniteSet((DOMAIN heap \ {b}) \union {moved})
      BY <3>1, FS_AddElement
    <3> QED BY <2>2, <3>2
  <2>4. size <= size
    BY DEF Sizes, Normal, Full
  <2> QED BY <1>1, <1>4, <2>1, <2>2, <2>3, <2>4
<1> QED BY <1>2, <1>3, <1>4 DEF Realloc

\* One window gets another size and perhaps another buffer.
LEMMA ResizedKeeps ==
  ASSUME Inv, NEW k \in DOMAIN wins, NEW v \in Window,
         \A i \in DOMAIN wins : wins[i].id = wins[k].id => i = k,
         v.id = wins[k].id, v.min = wins[k].min, v.focused = wins[k].focused,
         wins' = Set(wins[k].id, v), nextId' = nextId, JobsKeep, RestTyped,
         DOMAIN heap' \subseteq Nat \ {0}, IsFiniteSet(DOMAIN heap'),
         \A x \in DOMAIN heap' : heap'[x] \in Sizes,
         \A x \in DOMAIN heap \ {wins[k].buf} : x \in DOMAIN heap' /\ heap'[x] = heap[x],
         v.buf = wins[k].buf \/ v.buf \notin DOMAIN heap,
         Sound(v, heap')
  PROVE  Inv'
<1>1. wins \in Seq(Window) /\ Len(wins) \in Nat /\ DOMAIN wins = 1 .. Len(wins)
      /\ \A i \in DOMAIN wins : wins[i] \in Window
  BY Unpack, WindowSeq DEF Inv
<1>2. wins' = [i \in 1 .. Len(wins) |-> IF i = k THEN v ELSE wins[i]]
  BY <1>1 DEF Set
<1>3. wins' \in [1 .. Len(wins) -> Window]
  BY <1>1, <1>2
<1>4. wins' \in Seq(Window) /\ Len(wins') = Len(wins) /\ DOMAIN wins' = DOMAIN wins
  BY <1>1, <1>3, IsWindowSeq
<1>5. wins'[k] = v /\ \A i \in DOMAIN wins \ {k} : wins'[i] = wins[i]
  BY <1>1, <1>2
<1>6. Types'
  BY <1>4 DEF Inv, Types, TypeOK, RestTyped, JobsKeep, Job
<1>7. ASSUME NEW i \in DOMAIN wins \ {k}
      PROVE  /\ Sound(wins[i], heap') /\ wins[i].buf # v.buf /\ wins[i].id # v.id
  <2>1. wins[i].buf \in DOMAIN heap /\ wins[i].buf # wins[k].buf /\ Sound(wins[i], heap)
    BY DEF Inv, Windowed, Sound
  <2> QED BY <2>1 DEF Sound
<1>8. Windowed'
  BY <1>4, <1>5, <1>7 DEF Inv, Windowed
<1>9. FocusOnTop'
  BY <1>4, <1>5 DEF Inv, FocusOnTop
<1>10. Carried'
  <2>1. \A a \in Actors : job'[a].do = "made" => job'[a].buf # 0
    BY DEF JobsKeep, Inv, Carried
  <2>2. ASSUME NEW a \in Actors, job'[a].buf # 0
        PROVE  /\ job'[a].buf \in DOMAIN heap' /\ (\A i \in DOMAIN wins : wins'[i].buf # job'[a].buf)
               /\ \A b \in Actors \ {a} : job'[b].buf # job'[a].buf
    <3>1. /\ job'[a].buf = job[a].buf /\ job[a].buf \in DOMAIN heap
          /\ \A i \in DOMAIN wins : wins[i].buf # job[a].buf
          /\ \A b \in Actors \ {a} : job[b].buf # job[a].buf
      BY <2>2 DEF JobsKeep, Inv, Carried
    <3>2. job'[a].buf \in DOMAIN heap' /\ v.buf # job'[a].buf
      BY <3>1
    <3>3. \A i \in DOMAIN wins : wins'[i].buf # job'[a].buf
      BY <1>5, <3>1, <3>2
    <3>4. \A b \in Actors \ {a} : job'[b].buf # job'[a].buf
      BY <2>2, <3>1 DEF JobsKeep
    <3> QED BY <3>2, <3>3, <3>4
  <2> QED BY <1>4, <2>1, <2>2 DEF Carried
<1> QED BY <1>6, <1>8, <1>9, <1>10 DEF Inv

\* What a window becomes when it gets a size and a block.
Blitted(w, size, b) == [w EXCEPT !.size = size, !.buf = b]
Maximised(w, size, b) ==
  [w EXCEPT !.max = ~@, !.size = size, !.saved = IF w.max THEN @ ELSE w.size, !.buf = b]

\* A window with another size and buffer is a window.
LEMMA ResizedWindow ==
  ASSUME NEW w \in Window, NEW size \in Sizes, NEW b \in Nat
  PROVE  /\ Blitted(w, size, b) \in Window /\ Maximised(w, size, b) \in Window
         /\ \A v \in {Blitted(w, size, b), Maximised(w, size, b)} :
              /\ v.id = w.id /\ v.min = w.min /\ v.focused = w.focused
              /\ v.size = size /\ v.buf = b
         /\ Blitted(w, size, b).max = w.max
         /\ Maximised(w, size, b).max = ~w.max
         /\ Maximised(w, size, b).saved = IF w.max THEN w.saved ELSE w.size
BY DEF Window, Blitted, Maximised

\* A frame of another size: the window keeps its size if there is no memory.
LEMMA BlitKeeps == ASSUME Inv, NEW t \in Threads, Blit(t) PROVE Inv'
<1>1. t \in Actors /\ "loop" \in Places \ {"made"} /\ RestTyped /\ nextId' = nextId
      /\ job[t] \in Job /\ frame[t] \in Sizes /\ job' = [job EXCEPT ![t].do = "loop"]
  BY Unpack DEF Inv, Places, Blit, RestTyped
<1>2. JobsKeep
  <2> DEFINE j == [job[t] EXCEPT !.do = "loop"]
  <2>1. j \in Job /\ j.do # "made" /\ j.buf = job[t].buf /\ job' = [job EXCEPT ![t] = j]
    BY <1>1, JobFacts
  <2> HIDE DEF j
  <2> QED BY <1>1, <2>1, OneJob DEF Inv
<1>3. CASE UNCHANGED <<wins, heap>>
  BY <1>1, <1>2, <1>3, TableAlone
<1>4. ASSUME NEW w \in Misfit(t), NEW moved \in 0 .. Cardinality(DOMAIN heap) + 1,
             Realloc(w.buf, frame[t], moved),
             wins' = IF moved = 0 THEN wins
                     ELSE Set(w.id, [w EXCEPT !.size = frame[t], !.buf = moved])
      PROVE  Inv'
  <2>1. PICK k \in DOMAIN wins :
          w = wins[k] /\ \A i \in DOMAIN wins : wins[i].id = wins[k].id => i = k
    BY NamedOne DEF Misfit
  <2>2. w \in Window /\ w.buf \in DOMAIN heap /\ ~w.max
    BY <2>1, Unpack, WindowSeq DEF Inv, Windowed, Sound, Misfit
  <2>3. CASE moved = 0
    <3>1. heap' = heap
      BY <1>1, <1>4, <2>2, <2>3, ReallocDoes
    <3> QED BY <1>1, <1>2, <1>4, <2>3, <3>1, TableAlone
  <2>4. CASE moved # 0
    <3> DEFINE v == Blitted(w, frame[t], moved)
    <3>1. /\ DOMAIN heap' \subseteq Nat \ {0} /\ IsFiniteSet(DOMAIN heap')
          /\ \A x \in DOMAIN heap' : heap'[x] \in Sizes
          /\ \A x \in DOMAIN heap \ {w.buf} : x \in DOMAIN heap' /\ heap'[x] = heap[x]
          /\ moved \in DOMAIN heap' /\ frame[t] <= heap'[moved]
          /\ moved = w.buf \/ moved \notin DOMAIN heap
      BY <1>1, <1>4, <2>2, <2>4, ReallocDoes
    <3>2. moved \in Nat
      BY <3>1
    <3>3. /\ v \in Window /\ v.id = w.id /\ v.min = w.min /\ v.focused = w.focused
          /\ v.max = w.max /\ v.size = frame[t] /\ v.buf = moved
      BY <1>1, <2>2, <3>2, ResizedWindow
    <3>4. wins' = Set(w.id, v)
      BY <1>4, <2>4 DEF Blitted
    <3> HIDE DEF v
    <3>5. Sound(v, heap')
      BY <2>2, <3>1, <3>3 DEF Sound
    <3> QED BY <1>1, <1>2, <2>1, <3>1, <3>3, <3>4, <3>5, ResizedKeeps
  <2> QED BY <2>3, <2>4
<1> QED BY <1>3, <1>4 DEF Blit

\* Maximising takes the size before the memory, restoring needs no memory: what is
\* saved has fitted before, and buffers do not shrink.
LEMMA MaximiseKeeps == ASSUME Inv, Maximise PROVE Inv'
<1>1. Desktop \in Actors /\ RestTyped /\ nextId' = nextId /\ job[Desktop] \in Job
  BY Unpack DEF Inv, Maximise, RestTyped
<1>2. CASE job' = [job EXCEPT ![Desktop] = Idle] /\ UNCHANGED <<wins, heap>>
  <2>1. Idle \in Job /\ Idle.buf = 0 /\ Idle.do # "made"
    BY JobFacts DEF Places
  <2>2. JobsKeep
    BY <1>1, <1>2, <2>1, OneJob DEF Inv
  <2> QED BY <1>1, <1>2, <2>2, TableAlone
<1>3. ASSUME NEW w \in Named(job[Desktop].id), NEW moved \in 0 .. Cardinality(DOMAIN heap) + 1,
             NEW target, target = IF w.max THEN w.saved ELSE Full,
             Realloc(w.buf, target, moved),
             wins' = Set(w.id, [w EXCEPT !.max = ~@, !.size = target,
                          !.saved = IF w.max THEN @ ELSE w.size,
                          !.buf = IF moved = 0 THEN @ ELSE moved]),
             job' = [job EXCEPT ![Desktop] =
                       [@ EXCEPT !.do = "raise", !.tid = w.thread, !.size = target]]
      PROVE  Inv'
  <2>1. PICK k \in DOMAIN wins :
          w = wins[k] /\ \A i \in DOMAIN wins : wins[i].id = wins[k].id => i = k
    BY NamedOne
  <2>2. w \in Window /\ w.buf \in DOMAIN heap /\ target \in Sizes /\ w.thread \in Actors
        /\ Sound(w, heap) /\ w.buf \in Nat /\ heap[w.buf] \in Sizes
    BY <1>3, <2>1, Unpack, WindowSeq
       DEF Inv, Types, TypeOK, Windowed, Sound, Window, Sizes
  <2> DEFINE b == IF moved = 0 THEN w.buf ELSE moved
             v == Maximised(w, target, b)
             j == [job[Desktop] EXCEPT !.do = "raise", !.tid = w.thread, !.size = target]
  <2>3. /\ DOMAIN heap' \subseteq Nat \ {0} /\ IsFiniteSet(DOMAIN heap')
        /\ \A x \in DOMAIN heap' : heap'[x] \in Sizes
        /\ \A x \in DOMAIN heap \ {w.buf} : x \in DOMAIN heap' /\ heap'[x] = heap[x]
        /\ \/ /\ moved # 0 /\ moved \in DOMAIN heap' /\ target <= heap'[moved]
              /\ moved = w.buf \/ moved \notin DOMAIN heap
           \/ moved = 0 /\ heap' = heap /\ heap[w.buf] < target
    BY <1>3, <2>2, ReallocDoes
  <2>4. b \in Nat /\ b \in DOMAIN heap' /\ (b = w.buf \/ b \notin DOMAIN heap)
    BY <2>2, <2>3
  <2>5. /\ v \in Window /\ v.id = w.id /\ v.min = w.min /\ v.focused = w.focused
        /\ v.max = ~w.max /\ v.size = target /\ v.buf = b
        /\ v.saved = IF w.max THEN w.saved ELSE w.size
    <3> HIDE DEF b
    <3>1. v \in Window /\ v.max = ~w.max /\ v.saved = IF w.max THEN w.saved ELSE w.size
      BY <2>2, <2>4, ResizedWindow
    <3>2. v.id = w.id /\ v.min = w.min /\ v.focused = w.focused /\ v.size = target /\ v.buf = b
      BY <2>2 DEF Maximised, Window
    <3> QED BY <3>1, <3>2
  <2>6. /\ j \in Job /\ j.do # "made" /\ j.buf = job[Desktop].buf
        /\ job' = [job EXCEPT ![Desktop] = j]
    BY <1>1, <1>3, <2>2 DEF Job, Places
  <2>7. wins' = Set(w.id, v)
    <3>1. v = [w EXCEPT !.max = ~@, !.size = target, !.saved = IF w.max THEN @ ELSE w.size,
                 !.buf = IF moved = 0 THEN @ ELSE moved]
      BY DEF Maximised
    <3> HIDE DEF v
    <3> QED BY <1>3, <3>1
  <2> HIDE DEF v, j
  <2>8. JobsKeep
    BY <1>1, <2>6, OneJob DEF Inv
  <2>9. CASE w.max
    <3>1. target <= heap[w.buf] /\ target \in Int /\ heap[w.buf] \in Int
      BY <1>3, <2>2, <2>9 DEF Sound, Sizes, Normal, Full
    <3>2. moved # 0 /\ target <= heap'[moved]
      BY <2>3, <3>1
    <3>3. target <= heap'[b]
      BY <3>2
    <3> HIDE DEF b
    <3>4. Sound(v, heap')
      BY <2>4, <2>5, <2>9, <3>3 DEF Sound
    <3> QED BY <1>1, <2>1, <2>3, <2>4, <2>5, <2>7, <2>8, <3>4, ResizedKeeps
  <2>10. CASE ~w.max
    <3>1. w.size <= heap[w.buf] /\ w.size \in Sizes
      BY <2>2, <2>10 DEF Sound, Window
    <3>2. w.size <= heap'[b]
      <4>1. CASE moved = 0
        BY <2>3, <3>1, <4>1
      <4>2. CASE moved # 0
        <5>1. target = Full /\ Full <= heap'[moved] /\ heap'[moved] \in Sizes
          BY <1>3, <2>3, <2>10, <4>2
        <5> QED BY <3>1, <4>2, <5>1 DEF Sizes, Normal, Full
      <4> QED BY <4>1, <4>2
    <3> HIDE DEF b
    <3>3. Sound(v, heap')
      BY <2>4, <2>5, <2>10, <3>2 DEF Sound
    <3> QED BY <1>1, <2>1, <2>3, <2>4, <2>5, <2>7, <2>8, <3>3, ResizedKeeps
  <2> QED BY <2>9, <2>10
<1> QED
  <2>1. \A x : x \in {w \in Named(job[Desktop].id) : w.thread \notin Fixed}
          => x \in Named(job[Desktop].id)
    OBVIOUS
  <2> QED BY <1>2, <1>3, <2>1 DEF Maximise

-------------------------------------------------------------------------------
\* No window, no buffer.
LEMMA Initially == Init => Inv
<1> SUFFICES ASSUME Init PROVE Inv
  OBVIOUS
<1>1. DOMAIN heap = {} /\ IsFiniteSet(DOMAIN heap)
  BY FS_EmptySet DEF Init
<1>2. wins = <<>> /\ wins \in Seq(Window) /\ Len(wins) = 0 /\ DOMAIN wins = {}
  BY EmptySeq DEF Init
<1>3. Idle \in Job /\ Idle.buf = 0 /\ Idle.do # "made"
      /\ Do("out") \in Job /\ Do("out").buf = 0 /\ Do("out").do # "made"
  <2>1. "out" \in Places
    BY DEF Places
  <2> QED BY <2>1, JobFacts
<1>4. job \in [Actors -> Job] /\ \A a \in Actors : job[a].buf = 0 /\ job[a].do # "made"
  BY <1>3 DEF Init
<1>5. mail \in [Threads -> Seq(Sizes \union {Close})] /\ frame \in [Threads -> Sizes]
  BY DEF Init, Sizes
<1>6. Types
  BY <1>1, <1>2, <1>4, <1>5, WindowsAssumption DEF Init, Types, TypeOK, Job
<1> QED BY <1>2, <1>4, <1>6 DEF Inv, Windowed, Carried, FocusOnTop

\* Every step keeps the invariant.
LEMMA InvStep == ASSUME Inv, [Next]_vars PROVE Inv'
<1>1. ASSUME NEW t \in Threads, App(t) PROVE Inv'
  BY <1>1, StartKeeps, AllocateKeeps, InsertKeeps, InsertFullKeeps, ReceiveKeeps, DrawKeeps,
     BlitKeeps, QuitKeeps, SweepOneKeeps, LeaveKeeps DEF App
<1>2. ASSUME NEW a \in Actors, Destroy(a) \/ Free(a) PROVE Inv'
  BY <1>2, DestroyKeeps, FreeKeeps
<1>3. CASE Compositor
  BY <1>3, ClickKeeps, SendCloseKeeps, MinimiseKeeps, FrontKeeps, MaximiseKeeps, TellKeeps,
     ReapKeeps, LaunchKeeps DEF Compositor
<1>4. CASE UNCHANGED vars
  <2>1. JobsKeep /\ RestTyped
    <3>1. UNCHANGED <<job, frame, mail, clicks, starts>>
      BY <1>4 DEF vars
    <3> QED BY <3>1, Unpack DEF Inv, JobsKeep, RestTyped
  <2> QED BY <1>4, <2>1, TableAlone DEF vars
<1> QED BY <1>1, <1>2, <1>3, <1>4 DEF Next

-------------------------------------------------------------------------------
\* Everything above holds in every state.
THEOREM Invariant == Spec => []Inv
BY Initially, InvStep, PTL DEF Spec

\* No window points to a buffer that is free, no buffer is freed twice or while it is
\* shown, although it is allocated before the lock, freed after it, and moved by
\* maximising and blitting (fb.c:521,604,795,932).
THEOREM BuffersLive == Spec => []NoDangling
<1>1. Inv => NoDangling
  BY DEF Inv, Types, Windowed, Sound, Carried, NoDangling
<1> QED BY Invariant, <1>1, PTL

\* A window that is not maximised fits its buffer, whatever reallocation failed on the
\* way: a buffer never shrinks, and the size that restoring takes has fitted before.
THEOREM RestoredFits == Spec => []FitsUnlessMaximised
<1>1. Inv => FitsUnlessMaximised
  BY DEF Inv, Windowed, Sound, FitsUnlessMaximised
<1> QED BY Invariant, <1>1, PTL

\* The keys never go to a window that is covered by a visible one (fb.c:852).
THEOREM KeysToTheTop == Spec => []KeysOnTop
<1>1. Inv => KeysOnTop
  <2> SUFFICES ASSUME Inv PROVE KeysOnTop
    OBVIOUS
  <2>1. wins \in Seq(Window) /\ DOMAIN wins = 1 .. Len(wins) /\ Len(wins) \in Nat
    BY Unpack, WindowSeq DEF Inv
  <2>2. ASSUME NEW i \in DOMAIN wins, wins[i].focused, ~wins[i].min PROVE i = TopVisible(wins)
    <3>1. /\ TopVisible(wins) \in 0 .. Len(wins) /\ TopVisible(wins) # 0
          /\ ~wins[TopVisible(wins)].min
          /\ \A j \in DOMAIN wins : TopVisible(wins) < j => wins[j].min
      BY <2>1, <2>2, TopVisibleFacts
    <3>2. ~(TopVisible(wins) < i) /\ ~(i < TopVisible(wins))
      BY <2>1, <2>2, <3>1 DEF Inv, FocusOnTop
    <3> QED BY <2>1, <3>1, <3>2
  <2> DEFINE has == {i \in DOMAIN wins : wins[i].focused /\ ~wins[i].min}
  <2>3. ASSUME has # {} PROVE FocusedTid = wins[TopVisible(wins)].thread
    <3>1. has = {TopVisible(wins)} /\ TopVisible(wins) \in Int
      BY <2>1, <2>2, <2>3
    <3>2. (CHOOSE i \in has : \A j \in has : j <= i) = TopVisible(wins)
      BY <3>1
    <3> QED BY <2>3, <3>2 DEF FocusedTid
  <2>4. has = {} => FocusedTid = Desktop
    BY DEF FocusedTid
  <2> QED BY <2>2, <2>3, <2>4 DEF KeysOnTop
<1> QED BY Invariant, <1>1, PTL
-------------------------------------------------------------------------------
(* The order of the windows *)

\* Two windows change places only by one of them becoming the last.
Stacked ==
  \A x, y \in 1 .. nextId :
    Before(wins, x, y) /\ Before(wins', y, x) => wins'[Len(wins')].id = x

\* A table whose windows, but for the last, are in the order they had.
LEMMA OrderKept ==
  ASSUME Inv,
         \A i, j \in DOMAIN wins' : i < j => \/ j = Len(wins')
           \/ \E p, q \in DOMAIN wins :
                p < q /\ wins'[i].id = wins[p].id /\ wins'[j].id = wins[q].id
  PROVE  Stacked
<1> SUFFICES ASSUME NEW x, NEW y, Before(wins, x, y), Before(wins', y, x),
                    wins'[Len(wins')].id # x
             PROVE  FALSE
  BY DEF Stacked
<1>1. PICK p, q \in DOMAIN wins : p < q /\ wins[p].id = x /\ wins[q].id = y
  BY DEF Before
<1>2. PICK i, j \in DOMAIN wins' : i < j /\ wins'[i].id = y /\ wins'[j].id = x
  BY DEF Before
<1>3. PICK r, s \in DOMAIN wins : r < s /\ wins[r].id = y /\ wins[s].id = x
  BY <1>2
<1>4. r = q /\ s = p
  BY <1>1, <1>3 DEF Inv, Windowed
<1>5. p \in Nat /\ q \in Nat
  BY Unpack, WindowSeq DEF Inv
<1> QED BY <1>1, <1>3, <1>4, <1>5

\* The same windows in the same places.
LEMMA PlacesKept ==
  ASSUME Inv, DOMAIN wins' = DOMAIN wins, \A i \in DOMAIN wins : wins'[i].id = wins[i].id
  PROVE  Stacked
BY OrderKept

\* Another size and another buffer, but no other id.
LEMMA SetInPlace ==
  ASSUME Inv, NEW k \in DOMAIN wins, NEW v, v.id = wins[k].id, wins' = Set(wins[k].id, v)
  PROVE  Stacked
<1>1. DOMAIN wins' = DOMAIN wins
  BY DEF Set
<1>2. ASSUME NEW i \in DOMAIN wins PROVE wins'[i].id = wins[i].id
  BY DEF Set
<1> QED BY <1>1, <1>2, PlacesKept

\* Taking the kth to the end leaves the others in their order.
LEMMA RotationKeepsOrder ==
  ASSUME NEW n \in Nat, NEW k \in 1 .. n, NEW i \in 1 .. n, NEW j \in 1 .. n, i < j, j # n
  PROVE  (IF i = n THEN k ELSE IF i < k THEN i ELSE i + 1)
           < (IF j = n THEN k ELSE IF j < k THEN j ELSE j + 1)
OBVIOUS

\* Whoever calls it, each operation on the table keeps the order.
LEMMA StackedStep == ASSUME Inv, [Next]_vars PROVE Stacked
<1>1. wins \in Seq(Window) /\ DOMAIN wins = 1 .. Len(wins) /\ Len(wins) \in Nat
      /\ \A i \in DOMAIN wins : wins[i] \in Window
  BY Unpack, WindowSeq DEF Inv
<1>2. CASE UNCHANGED wins
  BY <1>2, PlacesKept
<1>3. ASSUME NEW t \in Threads, Insert(t) PROVE Stacked
  <2> DEFINE us == Unfocused(wins)
  <2>1. PICK new : wins' = Append(us, new)
    BY <1>3 DEF Insert
  <2>2. us \in Seq(Window) /\ Len(us) = Len(wins) /\ \A i \in DOMAIN wins : us[i].id = wins[i].id
    BY <1>1, UnfocusedFacts DEF Same
  <2> HIDE DEF us
  <2>3. /\ Len(wins') = Len(wins) + 1 /\ DOMAIN wins' = 1 .. Len(wins) + 1
        /\ \A i \in DOMAIN wins : wins'[i].id = wins[i].id
    BY <1>1, <2>1, <2>2
  <2> QED BY <1>1, <2>3, OrderKept
<1>4. ASSUME NEW t \in Threads, Blit(t) PROVE Stacked
  <2>1. ASSUME UNCHANGED <<wins, heap>> PROVE Stacked
    BY <2>1, PlacesKept
  <2>2. ASSUME NEW w \in Misfit(t), NEW moved \in 0 .. Cardinality(DOMAIN heap) + 1,
               Realloc(w.buf, frame[t], moved),
               wins' = IF moved = 0 THEN wins
                       ELSE Set(w.id, [w EXCEPT !.size = frame[t], !.buf = moved])
        PROVE  Stacked
    <3> DEFINE v == Blitted(w, frame[t], moved)
    <3>1. PICK k \in DOMAIN wins : w = wins[k]
      BY DEF Misfit, Named
    <3>2. v.id = w.id
      BY <1>1, <3>1 DEF Window, Blitted
    <3>3. wins' = wins \/ wins' = Set(w.id, v)
      BY <2>2 DEF Blitted
    <3> HIDE DEF v
    <3> QED BY <3>1, <3>2, <3>3, SetInPlace, PlacesKept
  <2> QED BY ONLY <1>4, <2>1, <2>2, Zenon DEF Blit
<1>5. CASE Maximise
  <2>1. ASSUME UNCHANGED <<wins, heap>> PROVE Stacked
    BY <2>1, PlacesKept
  <2>2. ASSUME NEW w \in Named(job[Desktop].id), NEW moved \in 0 .. Cardinality(DOMAIN heap) + 1,
               NEW target, target = IF w.max THEN w.saved ELSE Full, Realloc(w.buf, target, moved),
               wins' = Set(w.id, [w EXCEPT !.max = ~@, !.size = target,
                            !.saved = IF w.max THEN @ ELSE w.size,
                            !.buf = IF moved = 0 THEN @ ELSE moved])
        PROVE  Stacked
    <3> DEFINE b == IF moved = 0 THEN w.buf ELSE moved
               v == Maximised(w, target, b)
    <3>1. PICK k \in DOMAIN wins : w = wins[k]
      BY DEF Named
    <3>2. v.id = w.id
      BY <1>1, <3>1 DEF Window, Maximised
    <3>3. v = [w EXCEPT !.max = ~@, !.size = target, !.saved = IF w.max THEN @ ELSE w.size,
                 !.buf = IF moved = 0 THEN @ ELSE moved]
      BY DEF Maximised
    <3> HIDE DEF v
    <3>4. wins' = Set(w.id, v)
      BY <2>2, <3>3
    <3> QED BY <3>1, <3>2, <3>4, SetInPlace
  <2>3. \A x : x \in {w \in Named(job[Desktop].id) : w.thread \notin Fixed}
          => x \in Named(job[Desktop].id)
    OBVIOUS
  <2> QED BY ONLY <1>5, <2>1, <2>2, <2>3, Zenon DEF Maximise
<1>6. CASE Front
  <2>1. CASE UNCHANGED wins
    BY <2>1, PlacesKept
  <2>2. ASSUME NEW w \in Named(job[Desktop].id), wins' = Raised(wins, w) PROVE Stacked
    <3> DEFINE n == Len(wins)
    <3>1. PICK k \in DOMAIN wins :
            w = wins[k] /\ \A i \in DOMAIN wins : wins[i].id = wins[k].id => i = k
      BY NamedOne
    <3> DEFINE old(i) == IF i = n THEN k ELSE IF i < k THEN i ELSE i + 1
    <3>2. /\ wins' \in Seq(Window) /\ Len(wins') = n
          /\ \A i \in 1 .. n : old(i) \in DOMAIN wins /\ Same(wins'[i], wins[old(i)])
      BY <2>2, <3>1, RaisedFacts
    <3>3. DOMAIN wins' = 1 .. n /\ n \in Nat /\ k \in 1 .. n
      BY <1>1, <3>2, WindowSeq
    <3> HIDE DEF n
    <3>4. ASSUME NEW i \in 1 .. n, NEW j \in 1 .. n, i < j, j # n PROVE old(i) < old(j)
      BY <3>3, <3>4, RotationKeepsOrder
    <3> HIDE DEF old
    <3>5. ASSUME NEW i \in DOMAIN wins', NEW j \in DOMAIN wins', i < j, j # Len(wins')
          PROVE  /\ old(i) \in DOMAIN wins /\ old(j) \in DOMAIN wins /\ old(i) < old(j)
                 /\ wins'[i].id = wins[old(i)].id /\ wins'[j].id = wins[old(j)].id
      BY <3>2, <3>3, <3>4, <3>5 DEF Same
    <3> QED BY <3>5, OrderKept
  <2> QED BY <1>6, <2>1, <2>2 DEF Front
<1>7. CASE Minimise
  <2>1. CASE UNCHANGED wins
    BY <2>1, PlacesKept
  <2>2. ASSUME NEW w \in Named(job[Desktop].id), wins' = Hidden(wins, w.id) PROVE Stacked
    <3>1. PICK k \in DOMAIN wins :
            w = wins[k] /\ \A i \in DOMAIN wins : wins[i].id = wins[k].id => i = k
      BY NamedOne
    <3>2. /\ wins' \in Seq(Window) /\ Len(wins') = Len(wins)
          /\ \A i \in DOMAIN wins : wins'[i].id = wins[i].id
      BY <2>2, <3>1, HiddenFacts DEF Same
    <3> QED BY <1>1, <3>2, WindowSeq, PlacesKept
  <2> QED BY <1>7, <2>1, <2>2 DEF Minimise
<1>8. ASSUME NEW a \in Actors, Destroy(a) PROVE Stacked
  <2>1. CASE UNCHANGED wins
    BY <2>1, PlacesKept
  <2>2. ASSUME NEW w \in Named(job[a].id), wins' = Removed(wins, w.id) PROVE Stacked
    <3>1. PICK k \in DOMAIN wins :
            w = wins[k] /\ \A i \in DOMAIN wins : wins[i].id = wins[k].id => i = k
      BY NamedOne
    <3> DEFINE old(i) == IF i < k THEN i ELSE i + 1
    <3>2. /\ wins' \in Seq(Window) /\ Len(wins') = Len(wins) - 1
          /\ \A i \in 1 .. Len(wins) - 1 : old(i) \in DOMAIN wins /\ wins'[i].id = wins[old(i)].id
      BY <2>2, <3>1, RemovedFacts DEF Same
    <3>3. DOMAIN wins' = 1 .. Len(wins) - 1
      BY <3>2, WindowSeq
    <3>4. \A i, j \in 1 .. Len(wins) - 1 : i < j => old(i) < old(j)
      BY <1>1
    <3> HIDE DEF old
    <3> QED BY <3>2, <3>3, <3>4, OrderKept
  <2> QED BY <1>8, <2>1, <2>2 DEF Destroy
<1>9. \A t \in Threads : App(t) => Insert(t) \/ Blit(t) \/ UNCHANGED wins
  BY DEF App, Start, Allocate, InsertFull, Receive, Draw, Quit, SweepOne, Leave
<1>10. Compositor => Minimise \/ Front \/ Maximise \/ UNCHANGED wins
  BY DEF Compositor, Click, SendClose, Tell, Reap, Launch
<1>11. \A a \in Actors : Free(a) => UNCHANGED wins
  BY DEF Free
<1>12. UNCHANGED vars => UNCHANGED wins
  BY DEF vars
<1> QED BY <1>2, <1>3, <1>4, <1>5, <1>6, <1>7, <1>8, <1>9, <1>10, <1>11, <1>12 DEF Next

\* A window is never found above one that was above it unless it was put on top: taking
\* one out and closing the gap, or moving one to the end, keeps the order of the others
\* (fb.c:596,650).
THEOREM StackingStable == Spec => StackingKept
<1>1. Inv /\ [Next]_vars => Stacked
  BY StackedStep
<1>2. Spec => [][Stacked]_vars
  BY Invariant, <1>1, PTL DEF Spec
<1> QED BY <1>2 DEF StackingKept, Stacked
===============================================================================
