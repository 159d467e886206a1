------------------------------ MODULE SchedProof ------------------------------
(***************************************************************************)
(* Proofs about the scheduler, for any number of thread slots, any         *)
(* applications and any interleaving of ticks, device interrupts, nested   *)
(* handlers and launches.                                                  *)
(***************************************************************************)
EXTENDS Sched, TLAPS, WellFoundedInduction

(***************************************************************************)
(* What the properties rest on beside the types: thread 0 never leaves its *)
(* loop, and a thread inside thread_create or woos_system_spawn holds a    *)
(* slot number other than 0, whose stack it has seen to before it starts   *)
(* anything on it.                                                         *)
(***************************************************************************)
KernelLoops == pc[0] \in {"loop", "int32"}

SlotChosen ==
  \A t \in Slots :
    /\ pc[t] \in {"name", "stack", "fill", "fpu", "publish"} => job[t].slot # 0
    /\ pc[t] \in {"fill", "fpu", "publish"} => job[t].slot \in stack
    /\ pc[t] \in {"focus", "reap"} => job[t].victim # 0

\* A half-done yield is the oldest handler on its stack, and its thread is at the
\* software interrupt.
TickFirst ==
  \A t \in Slots : \A i \in DOMAIN frame[t] :
    frame[t][i] = "tick" => i = Len(frame[t]) /\ pc[t] \in {"int32", "lastInt"}

Inv ==
  /\ TypeOK /\ IdleAvailable /\ RunnableHasStack
  /\ KernelLoops /\ SlotChosen /\ TickFirst

-------------------------------------------------------------------------------
\* A non-empty set of naturals has a first element, and First finds it.
LEMMA FirstIsLeast ==
  ASSUME NEW S \in SUBSET Nat, S # {}
  PROVE  First(S) \in S /\ \A j \in S : First(S) <= j
<1> DEFINE R == {p \in Nat \X Nat : p[1] < p[2]}
<1>1. IsWellFoundedOn(R, Nat)
  <2>1. R = OpToRel(<, Nat)
    BY DEF OpToRel
  <2> QED BY <2>1, NatLessThanWellFounded
<1>2. PICK x \in S : \A y \in S : ~ (<<y, x>> \in R)
  BY <1>1, WFMin
<1>3. x \in Nat /\ \A y \in S : y \in Nat /\ ~ (y < x)
  BY <1>2
<1>4. \E i \in S : \A j \in S : i <= j
  BY <1>3
<1> QED BY <1>4 DEF First

\* Going round the used slots from the current one stays among them, and comes back
\* to thread 0 and to the current thread.
LEMMA FollowerRange ==
  ASSUME cur \in Nat, num \in Nat, cur < num
  PROVE  /\ \A k \in 1 .. num : Follower(k) \in 0 .. num - 1
         /\ \E k \in 1 .. num : Follower(k) = 0
<1>1. \A k \in 1 .. num : Follower(k) \in 0 .. num - 1
  BY DEF Follower
<1>2. num - cur \in 1 .. num /\ Follower(num - cur) = 0
  BY DEF Follower
<1> QED BY <1>1, <1>2

\* When thread 0 is READY, round robin gives the CPU to a READY thread.
LEMMA RoundRobinPicks ==
  ASSUME TypeOK, cur < num, NEW st \in [Slots -> States], st[0] = "READY",
         RoundRobin(st)
  PROVE  \E n \in 0 .. num - 1 :
           /\ st[n] = "READY"
           /\ SwitchTo(st, n)
<1> DEFINE ready == {k \in 1 .. num : st[Follower(k)] = "READY"}
<1>1. cur \in Nat /\ num \in Nat
  BY SchedAssumption DEF TypeOK, Slots
<1>2. ready # {} /\ ready \in SUBSET Nat
  BY <1>1, FollowerRange
<1>3. First(ready) \in ready
  BY <1>2, FirstIsLeast
<1>4. Follower(First(ready)) \in 0 .. num - 1 /\ st[Follower(First(ready))] = "READY"
  BY <1>1, <1>3, FollowerRange
<1> QED BY <1>2, <1>4 DEF RoundRobin

\* A switch keeps the types and leaves exactly one thread RUNNING.
LEMMA SwitchKeeps ==
  ASSUME TypeOK, IdleAvailable, NEW st \in [Slots -> States],
         st[0] \in {"READY", "RUNNING"}, \A i \in Slots : st[i] # "RUNNING",
         NEW n \in 0 .. num - 1, st[n] = "READY", SwitchTo(st, n)
  PROVE  /\ state' \in [Slots -> States] /\ cur' \in Slots /\ cur' < num
         /\ fpu' \in [Slots -> Fpu]
         /\ \A i \in Slots : state'[i] = "RUNNING" => i = cur'
         /\ state'[0] \in {"READY", "RUNNING"}
         /\ cur' # 0 => state'[0] = "READY"
         /\ \A i \in Slots : state'[i] = "TERMINATED" <=> st[i] = "TERMINATED"
         /\ cur' = n
<1>1. n \in Slots /\ 0 \in Slots /\ num \in Nat
  BY SchedAssumption DEF TypeOK, Slots
<1>2. state' = [st EXCEPT ![n] = "RUNNING"] /\ cur' = n /\ fpu' = [fpu EXCEPT ![cur] = "own"]
  BY DEF SwitchTo
<1>3. state' \in [Slots -> States]
  BY <1>1, <1>2 DEF States
<1>4. fpu' \in [Slots -> Fpu]
  BY <1>2 DEF TypeOK, Fpu
<1>5. \A i \in Slots : state'[i] = IF i = n THEN "RUNNING" ELSE st[i]
  BY <1>1, <1>2
<1> QED BY <1>1, <1>2, <1>3, <1>4, <1>5

\* Demoting the current thread leaves no thread RUNNING and thread 0 READY.
LEMMA DemotedIdle ==
  ASSUME TypeOK, IdleAvailable, NEW st \in [Slots -> States],
         \A i \in Slots : st[i] = "RUNNING" <=> state[i] = "RUNNING",
         \A i \in Slots : state[i] = "READY" => st[i] = "READY"
  PROVE  /\ Demoted(st) \in [Slots -> States]
         /\ Demoted(st)[0] = "READY"
         /\ \A i \in Slots : Demoted(st)[i] # "RUNNING"
         /\ \A i \in Slots : Demoted(st)[i] = "TERMINATED" <=> st[i] = "TERMINATED"
<1>1. 0 \in Slots /\ cur \in Slots
  BY SchedAssumption DEF TypeOK, Slots
<1>2. Demoted(st) \in [Slots -> States]
  BY <1>1 DEF Demoted, States
<1>3. \A i \in Slots : Demoted(st)[i] = IF i = cur /\ st[i] = "RUNNING" THEN "READY" ELSE st[i]
  BY <1>1 DEF Demoted
<1> QED BY <1>1, <1>2, <1>3 DEF IdleAvailable

\* sched_unblock_all touches BLOCKED threads only.
LEMMA UnblockedKeeps ==
  ASSUME TypeOK
  PROVE  /\ Unblocked(state) \in [Slots -> States]
         /\ \A i \in Slots :
              /\ Unblocked(state)[i] = "RUNNING" <=> state[i] = "RUNNING"
              /\ Unblocked(state)[i] = "TERMINATED" <=> state[i] = "TERMINATED"
              /\ state[i] = "READY" => Unblocked(state)[i] = "READY"
BY DEF TypeOK, Unblocked, States

\* What a scheduling decision leaves behind, whichever handler takes it.
Decided ==
  /\ state' \in [Slots -> States] /\ cur' \in Slots /\ cur' < num
  /\ fpu' \in [Slots -> Fpu]
  /\ \A i \in Slots : state'[i] = "RUNNING" => i = cur'
  /\ state'[0] \in {"READY", "RUNNING"}
  /\ cur' # 0 => state'[0] = "READY"
  /\ \A i \in Slots : state'[i] = "TERMINATED" <=> state[i] = "TERMINATED"
  /\ cur' # cur => state[cur'] # "TERMINATED"

\* NoResurrection, of one step.
Settled ==
  /\ \A i \in Slots :
       state[i] = "TERMINATED" /\ state'[i] # "TERMINATED"
         => \/ pc[cur] = "fill" /\ job[cur].slot = i
            \/ pc[cur] = "sleep" /\ cur = i
  /\ cur' # cur => state[cur'] # "TERMINATED" /\ cur' < num

\* A tick or a yield, with or without waking the sleepers.
LEMMA RoundRobinDecides ==
  ASSUME TypeOK, IdleAvailable, NEW wake \in BOOLEAN,
         RoundRobin(Demoted(IF wake THEN Unblocked(state) ELSE state))
  PROVE  Decided
<1> DEFINE st == IF wake THEN Unblocked(state) ELSE state
           de == Demoted(st)
<1>1. /\ st \in [Slots -> States]
      /\ \A i \in Slots :
           /\ st[i] = "RUNNING" <=> state[i] = "RUNNING"
           /\ st[i] = "TERMINATED" <=> state[i] = "TERMINATED"
           /\ state[i] = "READY" => st[i] = "READY"
  BY UnblockedKeeps DEF TypeOK
<1>2. /\ de \in [Slots -> States] /\ de[0] = "READY"
      /\ \A i \in Slots : de[i] # "RUNNING"
      /\ \A i \in Slots : de[i] = "TERMINATED" <=> st[i] = "TERMINATED"
  <2> HIDE DEF st
  <2> QED BY <1>1, DemotedIdle
<1>3. RoundRobin(de)
  OBVIOUS
<1> HIDE DEF st, de
<1>4. PICK n \in 0 .. num - 1 : de[n] = "READY" /\ SwitchTo(de, n)
  BY <1>2, <1>3, RoundRobinPicks DEF IdleAvailable
<1>5. n \in Slots
  BY SchedAssumption DEF TypeOK, Slots
<1>6. /\ state' \in [Slots -> States] /\ cur' \in Slots /\ cur' < num
      /\ fpu' \in [Slots -> Fpu]
      /\ \A i \in Slots : state'[i] = "RUNNING" => i = cur'
      /\ state'[0] \in {"READY", "RUNNING"}
      /\ cur' # 0 => state'[0] = "READY"
      /\ \A i \in Slots : state'[i] = "TERMINATED" <=> de[i] = "TERMINATED"
      /\ cur' = n
  BY <1>2, <1>4, SwitchKeeps
<1> QED BY <1>1, <1>2, <1>4, <1>5, <1>6 DEF Decided

\* The end of a device interrupt: nobody outranks the current thread, or the switch
\* goes to a READY thread; thread 0 is one whenever it is the fallback.
LEMMA PreemptDecides ==
  ASSUME TypeOK, IdleAvailable, Preempt(state)
  PROVE  Decided
<1> DEFINE floor == IF state[cur] = "RUNNING" THEN Priority(cur) ELSE 0
           idle  == IF state[cur] = "RUNNING" THEN cur ELSE 0
           above == {i \in 0 .. num - 1 : state[i] = "READY" /\ Priority(i) > floor}
           Top(i) == \A j \in above : \/ Priority(i) > Priority(j)
                                      \/ Priority(i) = Priority(j) /\ i <= j
           best  == IF above = {} THEN idle ELSE CHOOSE i \in above : Top(i)
<1>1. above \in SUBSET Nat /\ num \in Nat /\ cur \in 0 .. num - 1
  BY SchedAssumption DEF TypeOK, IdleAvailable, Slots
<1>2. above # {} => \E i \in above : Top(i)
  <2>1. CASE 1 \in above
    <3>1. Top(1)
      BY <1>1, <2>1 DEF Priority
    <3> QED BY <2>1, <3>1
  <2>2. CASE 1 \notin above /\ above # {}
    <3>1. floor \in Nat
      BY <1>1 DEF Priority
    <3>2. \A i \in above : Priority(i) = 1
      BY <1>1, <2>2, <3>1 DEF Priority
    <3>3. First(above) \in above /\ \A j \in above : First(above) <= j
      <4> HIDE DEF above
      <4> QED BY <1>1, <2>2, FirstIsLeast
    <3>4. Top(First(above))
      BY <3>2, <3>3
    <3> QED BY <3>3, <3>4
  <2> QED BY <2>1, <2>2
<1>3. above # {} => best \in above
  <2> HIDE DEF above, Top
  <2> QED BY <1>2
<1>4. best = cur \/ (best \in 0 .. num - 1 /\ state[best] = "READY")
  BY <1>1, <1>3 DEF IdleAvailable
<1>5. IF best = cur THEN state' = state /\ UNCHANGED <<cur, fpu>>
      ELSE SwitchTo(Demoted(state), best)
  BY DEF Preempt
<1> HIDE DEF best
<1>6. CASE best = cur
  <2>1. state' = state /\ cur' = cur /\ fpu' = fpu
    BY <1>5, <1>6
  <2>2. /\ state \in [Slots -> States] /\ cur \in Slots
        /\ fpu \in [Slots -> Fpu]
    BY DEF TypeOK
  <2> QED BY <2>1, <2>2 DEF Decided, IdleAvailable
<1>7. CASE best # cur
  <2> DEFINE de == Demoted(state)
  <2>1. /\ de \in [Slots -> States] /\ de[0] = "READY"
        /\ \A i \in Slots : de[i] # "RUNNING"
        /\ \A i \in Slots : de[i] = "TERMINATED" <=> state[i] = "TERMINATED"
    BY DemotedIdle DEF TypeOK
  <2>2. best \in 0 .. num - 1 /\ best \in Slots /\ de[best] = "READY"
    <3>1. best \in 0 .. num - 1 /\ state[best] = "READY" /\ best \in Slots
      <4>1. num \in Nat /\ num <= MAX_THREADS
        BY SchedAssumption DEF TypeOK
      <4>2. best \in 0 .. num - 1 /\ state[best] = "READY"
        BY <1>4, <1>7
      <4> QED BY <4>1, <4>2, SchedAssumption DEF Slots
    <3>2. de[best] = state[best]
      BY <1>7, <3>1 DEF Demoted, TypeOK
    <3> QED BY <3>1, <3>2
  <2>3. SwitchTo(de, best)
    BY <1>5, <1>7
  <2> HIDE DEF de
  <2>4. /\ state' \in [Slots -> States] /\ cur' \in Slots /\ cur' < num
        /\ fpu' \in [Slots -> Fpu]
        /\ \A i \in Slots : state'[i] = "RUNNING" => i = cur'
        /\ state'[0] \in {"READY", "RUNNING"}
        /\ cur' # 0 => state'[0] = "READY"
        /\ \A i \in Slots : state'[i] = "TERMINATED" <=> de[i] = "TERMINATED"
        /\ cur' = best
    BY <2>1, <2>2, <2>3, SwitchKeeps
  <2> QED BY <2>1, <2>2, <2>4 DEF Decided
<1> QED BY <1>6, <1>7

-------------------------------------------------------------------------------
\* Numbers, and the parts of Inv that most steps need.
LEMMA Basics ==
  ASSUME Inv
  PROVE  /\ 0 \in Slots /\ cur \in Slots /\ num \in Nat /\ MAX_THREADS \in Nat
         /\ TypeOK /\ IdleAvailable
<1>1. TypeOK /\ IdleAvailable
  BY DEF Inv
<1> QED BY <1>1, SchedAssumption DEF TypeOK, Slots

\* Waking the sleepers is no scheduling decision.
LEMMA WakeDecides ==
  ASSUME TypeOK, IdleAvailable, cur' = cur, fpu' = fpu,
         state' = Unblocked(state) \/ state' = state
  PROVE  Decided
<1>1. CASE state' = state
  BY <1>1 DEF Decided, TypeOK, IdleAvailable
<1>2. CASE state' = Unblocked(state)
  <2>1. 0 \in Slots /\ cur \in Slots
    BY SchedAssumption DEF TypeOK, Slots
  <2>2. /\ state' \in [Slots -> States]
        /\ state'[0] \in {"READY", "RUNNING"}
        /\ cur' # 0 => state'[0] = "READY"
    BY <1>2, <2>1, UnblockedKeeps DEF IdleAvailable
  <2> QED BY <1>2, <2>1, <2>2, UnblockedKeeps DEF Decided, TypeOK, IdleAvailable
<1> QED BY <1>1, <1>2

\* The slot a creator looks for is never thread 0's and at most one past the end.
LEMMA FreeSlotRange ==
  ASSUME TypeOK
  PROVE  FreeSlot \in 1 .. num
<1>1. num \in Nat /\ num >= 3
  BY SchedAssumption DEF TypeOK
<1>2. CASE Dead = {}
  BY <1>1, <1>2 DEF FreeSlot
<1>3. CASE Dead # {}
  <2>1. Dead \in SUBSET (1 .. num - 1)
    BY DEF Dead
  <2>2. First(Dead) \in Dead
    BY <1>1, <1>3, <2>1, FirstIsLeast
  <2>3. First(Dead) \in 1 .. num - 1
    BY <2>1, <2>2
  <2> QED BY <1>1, <1>3, <2>3 DEF FreeSlot
<1> QED BY <1>2, <1>3

\* The locals of woos_system_spawn and thread_create.
LEMMA LocalTypes ==
  ASSUME TypeOK, cur \in Slots, NEW f \in Job, Local(f)
  PROVE  job' \in [Slots -> Job]
BY DEF TypeOK, Local

\* They hold slot numbers, and assigning one does what it says.
LEMMA JobTypes ==
  ASSUME TypeOK
  PROVE  /\ NoJob \in Job
         /\ \A t \in Slots : /\ job[t].path \in AnyPath
                             /\ job[t].slot \in Slots /\ job[t].victim \in Slots
         /\ \A t, s \in Slots : /\ [job[t] EXCEPT !.slot = s] \in Job
                                /\ [job[t] EXCEPT !.slot = s].slot = s
         /\ \A t, v \in Slots : [job[t] EXCEPT !.victim = v] \in Job
<1>1. 0 \in Slots
  BY SchedAssumption DEF Slots
<1>2. \A t \in Slots : job[t] \in Job
  BY DEF TypeOK
<1>3. NoJob \in Job
  BY <1>1 DEF NoJob, Job, AnyPath
<1>4. \A f \in Job : /\ f.path \in AnyPath /\ f.slot \in Slots /\ f.victim \in Slots
                     /\ \A s \in Slots : /\ [f EXCEPT !.slot = s] \in Job
                                         /\ [f EXCEPT !.slot = s].slot = s
                     /\ \A v \in Slots : [f EXCEPT !.victim = v] \in Job
  BY DEF Job
<1> QED BY <1>2, <1>3, <1>4

\* A half-done handler more, or one less.
LEMMA FrameTypes ==
  ASSUME NEW f \in Seq({"dev", "tick"}), NEW h \in {"dev", "tick"}
  PROVE  /\ <<h>> \o f \in Seq({"dev", "tick"})
         /\ Len(<<h>> \o f) = Len(f) + 1
         /\ \A i \in DOMAIN (<<h>> \o f) :
              (<<h>> \o f)[i] = IF i = 1 THEN h ELSE f[i - 1]
         /\ f # <<>> => /\ Tail(f) \in Seq({"dev", "tick"})
                        /\ Len(Tail(f)) = Len(f) - 1
                        /\ \A i \in DOMAIN Tail(f) : Tail(f)[i] = f[i + 1]
                        /\ Head(f) = f[1] /\ Len(f) > 0
OBVIOUS

-------------------------------------------------------------------------------
\* The steps.  Interrupts and yields: a scheduling decision, and handlers that come
\* and go on the current thread's stack.

\* A hardware tick switches by round robin.
LEMMA HwTickKeeps ==
  ASSUME Inv, NEW wakes \in BOOLEAN, HwTick(wakes)
  PROVE  Inv' /\ Settled
<1>0. /\ 0 \in Slots /\ cur \in Slots /\ num \in Nat /\ MAX_THREADS \in Nat
      /\ TypeOK /\ IdleAvailable
  BY Basics
<1>1. Decided
  BY <1>0, RoundRobinDecides DEF HwTick
<1>2. TypeOK'
  BY <1>0, <1>1 DEF Decided, TypeOK, Places, Fresh, HwTick, At, Goto, Launching, Sched
<1>3. IdleAvailable'
  BY <1>0, <1>1 DEF Decided, IdleAvailable, HwTick, Sched
<1>4. RunnableHasStack' /\ KernelLoops' /\ SlotChosen'
  BY <1>0 DEF Inv, TypeOK, RunnableHasStack, KernelLoops, SlotChosen, TickFirst,
     HwTick, At, Goto, Launching
<1>5. TickFirst'
  BY <1>0 DEF Inv, TypeOK, TickFirst, HwTick, At, Goto, Launching
<1>6. Settled
  BY <1>1 DEF Decided, Settled
<1> QED BY <1>2, <1>3, <1>4, <1>5, <1>6 DEF Inv

\* A device interrupt up to its sti.
LEMMA DevIrqKeeps ==
  ASSUME Inv, DevIrq
  PROVE  Inv' /\ Settled
<1>0. /\ 0 \in Slots /\ cur \in Slots /\ num \in Nat /\ MAX_THREADS \in Nat
      /\ TypeOK /\ IdleAvailable
  BY Basics
<1>1. Decided
  BY <1>0, WakeDecides DEF DevIrq
<1>2. TypeOK'
  BY <1>0, <1>1, FrameTypes DEF Decided, TypeOK, Places, Fresh, DevIrq, At, Goto,
     Launching, Sched
<1>3. IdleAvailable'
  BY <1>0, <1>1 DEF Decided, IdleAvailable, DevIrq, Sched
<1>4. RunnableHasStack' /\ KernelLoops' /\ SlotChosen'
  BY <1>0 DEF Inv, TypeOK, RunnableHasStack, KernelLoops, SlotChosen, TickFirst,
     DevIrq, At, Goto, Launching
<1>5. TickFirst'
  <2>1. \A t \in Slots : frame'[t] = IF t = cur THEN <<"dev">> \o frame[cur] ELSE frame[t]
    BY <1>0 DEF DevIrq, TypeOK
  <2>2. frame[cur] \in Seq({"dev", "tick"})
    BY <1>0 DEF TypeOK
  <2> QED BY <1>0, <2>1, <2>2, FrameTypes DEF Inv, TickFirst, DevIrq, Launching
<1>6. Settled
  BY <1>1 DEF Decided, Settled
<1> QED BY <1>2, <1>3, <1>4, <1>5, <1>6 DEF Inv

\* The end of a device interrupt.
LEMMA DevTailKeeps ==
  ASSUME Inv, DevTail
  PROVE  Inv' /\ Settled
<1>0. /\ 0 \in Slots /\ cur \in Slots /\ num \in Nat /\ MAX_THREADS \in Nat
      /\ TypeOK /\ IdleAvailable
  BY Basics
<1>1. Decided
  BY <1>0, PreemptDecides DEF DevTail
<1>2. TypeOK'
  BY <1>0, <1>1, FrameTypes DEF Decided, TypeOK, Places, Fresh, DevTail, At, Goto,
     Launching, Sched
<1>3. IdleAvailable'
  BY <1>0, <1>1 DEF Decided, IdleAvailable, DevTail, Sched
<1>4. RunnableHasStack' /\ KernelLoops' /\ SlotChosen'
  BY <1>0 DEF Inv, TypeOK, RunnableHasStack, KernelLoops, SlotChosen, TickFirst,
     DevTail, At, Goto, Launching
<1>5. TickFirst'
  <2>1. \A t \in Slots : frame'[t] = IF t = cur THEN Tail(frame[cur]) ELSE frame[t]
    BY <1>0 DEF DevTail, TypeOK
  <2>2. frame[cur] \in Seq({"dev", "tick"}) /\ frame[cur] # <<>>
    BY <1>0 DEF TypeOK, DevTail
  <2> QED BY <1>0, <2>1, <2>2, FrameTypes DEF Inv, TypeOK, TickFirst, DevTail, Launching
<1>6. Settled
  BY <1>1 DEF Decided, Settled
<1> QED BY <1>2, <1>3, <1>4, <1>5, <1>6 DEF Inv

\* A device interrupt that queues nothing.
LEMMA DevIrqSilentKeeps ==
  ASSUME Inv, DevIrqSilent
  PROVE  Inv' /\ Settled
<1>0. /\ 0 \in Slots /\ cur \in Slots /\ num \in Nat /\ MAX_THREADS \in Nat
      /\ TypeOK /\ IdleAvailable
  BY Basics
<1>1. Decided
  BY <1>0, PreemptDecides DEF DevIrqSilent
<1>2. TypeOK'
  BY <1>0, <1>1 DEF Decided, TypeOK, Places, Fresh, DevIrqSilent, At, Goto,
     Launching, Sched
<1>3. IdleAvailable'
  BY <1>0, <1>1 DEF Decided, IdleAvailable, DevIrqSilent, Sched
<1>4. RunnableHasStack' /\ KernelLoops' /\ SlotChosen'
  BY <1>0 DEF Inv, TypeOK, RunnableHasStack, KernelLoops, SlotChosen, TickFirst,
     DevIrqSilent, At, Goto, Launching
<1>5. TickFirst'
  BY <1>0 DEF Inv, TypeOK, TickFirst, DevIrqSilent, At, Goto, Launching
<1>6. Settled
  BY <1>1 DEF Decided, Settled
<1> QED BY <1>2, <1>3, <1>4, <1>5, <1>6 DEF Inv

\* A yield.
LEMMA Int32Keeps ==
  ASSUME Inv, Int32
  PROVE  Inv' /\ Settled
<1>0. /\ 0 \in Slots /\ cur \in Slots /\ num \in Nat /\ MAX_THREADS \in Nat
      /\ TypeOK /\ IdleAvailable
  BY Basics
<1>1. Decided
  <2>1. RoundRobin(Demoted(IF FALSE THEN Unblocked(state) ELSE state))
    BY DEF Int32
  <2> QED BY <1>0, <2>1, RoundRobinDecides
<1>2. TypeOK'
  BY <1>0, <1>1 DEF Decided, TypeOK, Places, Fresh, Int32, At, Goto, Launching,
     Sched, Returned
<1>3. IdleAvailable'
  BY <1>0, <1>1 DEF Decided, IdleAvailable, Int32, Sched
<1>4. RunnableHasStack' /\ KernelLoops' /\ SlotChosen'
  BY <1>0 DEF Inv, TypeOK, RunnableHasStack, KernelLoops, SlotChosen, TickFirst,
     Int32, At, Goto, Launching, Returned
<1>5. TickFirst'
  BY <1>0 DEF Inv, TypeOK, TickFirst, Int32, At, Goto, Launching, Returned
<1>6. Settled
  BY <1>1 DEF Decided, Settled
<1> QED BY <1>2, <1>3, <1>4, <1>5, <1>6 DEF Inv

\* A yield that is taken for a tick, up to its sti.
LEMMA Int32AsTickKeeps ==
  ASSUME Inv, Int32AsTick
  PROVE  Inv' /\ Settled
<1>0. /\ 0 \in Slots /\ cur \in Slots /\ num \in Nat /\ MAX_THREADS \in Nat
      /\ TypeOK /\ IdleAvailable
  BY Basics
<1>1. Decided
  BY <1>0, WakeDecides DEF Int32AsTick, Sched
<1>2. TypeOK'
  BY <1>0, <1>1, FrameTypes DEF Decided, TypeOK, Places, Fresh, Int32AsTick, At,
     Goto, Launching, Sched
<1>3. IdleAvailable'
  BY <1>0, <1>1 DEF Decided, IdleAvailable, Int32AsTick, Sched
<1>4. RunnableHasStack' /\ KernelLoops' /\ SlotChosen'
  BY <1>0 DEF Inv, TypeOK, RunnableHasStack, KernelLoops, SlotChosen, TickFirst,
     Int32AsTick, At, Goto, Launching, Sched
<1>5. TickFirst'
  <2>1. \A t \in Slots : frame'[t] = IF t = cur THEN <<"tick">> \o frame[cur] ELSE frame[t]
    BY <1>0 DEF Int32AsTick, TypeOK
  <2>2. frame[cur] \in Seq({"dev", "tick"})
    BY <1>0 DEF TypeOK
  <2> QED BY <1>0, <2>1, <2>2, FrameTypes DEF Inv, TypeOK, At, TickFirst,
             Int32AsTick, Launching
<1>6. Settled
  BY <1>1 DEF Decided, Settled
<1> QED BY <1>2, <1>3, <1>4, <1>5, <1>6 DEF Inv

\* The end of such a yield.
LEMMA Int32TailKeeps ==
  ASSUME Inv, Int32Tail
  PROVE  Inv' /\ Settled
<1>0. /\ 0 \in Slots /\ cur \in Slots /\ num \in Nat /\ MAX_THREADS \in Nat
      /\ TypeOK /\ IdleAvailable
  BY Basics
<1>1. Decided
  <2>1. RoundRobin(Demoted(IF FALSE THEN Unblocked(state) ELSE state))
    BY DEF Int32Tail
  <2> QED BY <1>0, <2>1, RoundRobinDecides
<1>2. TypeOK'
  BY <1>0, <1>1, FrameTypes DEF Decided, TypeOK, Places, Fresh, Int32Tail, At, Goto,
     Launching, Sched, Returned
<1>3. IdleAvailable'
  BY <1>0, <1>1 DEF Decided, IdleAvailable, Int32Tail, Sched
<1>4. RunnableHasStack' /\ KernelLoops' /\ SlotChosen'
  BY <1>0 DEF Inv, TypeOK, RunnableHasStack, KernelLoops, SlotChosen, TickFirst,
     Int32Tail, At, Goto, Launching, Returned
<1>5. TickFirst'
  <2>1. \A t \in Slots : frame'[t] = IF t = cur THEN Tail(frame[cur]) ELSE frame[t]
    BY <1>0 DEF Int32Tail, TypeOK
  <2>2. frame[cur] \in Seq({"dev", "tick"}) /\ frame[cur] # <<>>
    BY <1>0 DEF TypeOK, Int32Tail
  <2> QED BY <1>0, <2>1, <2>2, FrameTypes DEF Inv, TypeOK, TickFirst, Int32Tail,
             Launching, Returned
<1>6. Settled
  BY <1>1 DEF Decided, Settled
<1> QED BY <1>2, <1>3, <1>4, <1>5, <1>6 DEF Inv

-------------------------------------------------------------------------------
\* The steps of a thread's own code.

\* thread_yield before its int 32.
LEMMA SetFlagKeeps ==
  ASSUME Inv, SetFlag
  PROVE  Inv' /\ Settled
<1>0. /\ 0 \in Slots /\ cur \in Slots /\ num \in Nat /\ MAX_THREADS \in Nat
      /\ TypeOK /\ IdleAvailable
  BY Basics
<1>2. TypeOK'
  <2>1. pc' \in [Slots -> Places]
    BY <1>0 DEF Inv, SlotChosen, TypeOK, Places, Fresh, SetFlag, At, Goto, Sched,
       Irqs, Launching
  <2> QED BY <1>0, <2>1 DEF TypeOK, SetFlag, At, Goto, Sched, Irqs, Launching
<1>3. IdleAvailable'
  BY <1>0 DEF Inv, TypeOK, IdleAvailable, KernelLoops, SlotChosen, SetFlag, At, Goto,
     Sched, Irqs, Launching
<1>4. RunnableHasStack' /\ KernelLoops' /\ SlotChosen' /\ TickFirst'
  BY ZenonT(40), <1>0, SchedAssumption DEF Inv, TypeOK, RunnableHasStack, KernelLoops,
     SlotChosen, TickFirst, SetFlag, At, Goto, Sched, Irqs, Launching
<1>5. Settled
  BY <1>0 DEF Settled, TypeOK, SetFlag, Sched
<1> QED BY <1>2, <1>3, <1>4, <1>5 DEF Inv

\* A wait call decides to block.
LEMMA CallSleepKeeps ==
  ASSUME Inv, CallSleep
  PROVE  Inv' /\ Settled
<1>0. /\ 0 \in Slots /\ cur \in Slots /\ num \in Nat /\ MAX_THREADS \in Nat
      /\ TypeOK /\ IdleAvailable
  BY Basics
<1>2. TypeOK'
  <2>1. pc' \in [Slots -> Places]
    BY <1>0 DEF Inv, SlotChosen, TypeOK, Places, Fresh, CallSleep, At, Goto, Sched,
       Irqs, Launching
  <2> QED BY <1>0, <2>1 DEF TypeOK, CallSleep, At, Goto, Sched, Irqs, Launching
<1>3. IdleAvailable'
  BY <1>0 DEF Inv, TypeOK, IdleAvailable, KernelLoops, SlotChosen, CallSleep, At,
     Goto, Sched, Irqs, Launching
<1>4. RunnableHasStack' /\ KernelLoops' /\ SlotChosen' /\ TickFirst'
  BY <1>0, SchedAssumption DEF Inv, TypeOK, RunnableHasStack, KernelLoops,
     SlotChosen, TickFirst, CallSleep, At, Goto, Sched, Irqs, Launching
<1>5. Settled
  BY <1>0 DEF Settled, TypeOK, CallSleep, Sched
<1> QED BY <1>2, <1>3, <1>4, <1>5 DEF Inv

\* sched_block_current.
LEMMA BlockKeeps ==
  ASSUME Inv, Block
  PROVE  Inv' /\ Settled
<1>0. /\ 0 \in Slots /\ cur \in Slots /\ num \in Nat /\ MAX_THREADS \in Nat
      /\ TypeOK /\ IdleAvailable
  BY Basics
<1>2. TypeOK'
  <2>1. pc' \in [Slots -> Places]
    BY <1>0 DEF Inv, SlotChosen, TypeOK, Places, Fresh, Block, At, Goto, Sched, Irqs,
       Launching
  <2>2. state' \in [Slots -> States]
    BY <1>0 DEF Inv, SlotChosen, TypeOK, States, Block, At, Goto, Sched, Irqs, Launching
  <2> QED BY <1>0, <2>1, <2>2 DEF TypeOK, Block, At, Goto, Sched, Irqs, Launching
<1>3. IdleAvailable'
  BY <1>0 DEF Inv, TypeOK, IdleAvailable, KernelLoops, SlotChosen, Block, At, Goto,
     Sched, Irqs, Launching
<1>4. RunnableHasStack' /\ KernelLoops' /\ SlotChosen' /\ TickFirst'
  BY <1>0, SchedAssumption DEF Inv, TypeOK, RunnableHasStack, KernelLoops,
     SlotChosen, TickFirst, Block, At, Goto, Sched, Irqs, Launching
<1>5. Settled
  BY <1>0 DEF Settled, TypeOK, Block, At, Sched
<1> QED BY <1>2, <1>3, <1>4, <1>5 DEF Inv

\* The first steps of a new thread.
LEMMA StartKeeps ==
  ASSUME Inv, Start
  PROVE  Inv' /\ Settled
<1>0. /\ 0 \in Slots /\ cur \in Slots /\ num \in Nat /\ MAX_THREADS \in Nat
      /\ TypeOK /\ IdleAvailable
  BY Basics
<1>2. TypeOK'
  <2>1. pc' \in [Slots -> Places]
    BY <1>0 DEF Inv, SlotChosen, TypeOK, Places, Fresh, Start, At, Goto, Sched, Irqs,
       Launching
  <2>2. app' \in [Slots -> App]
    <3>1. app[cur] \in App /\ path[cur] \in AnyPath
      BY <1>0 DEF TypeOK
    <3>2. [app[cur] EXCEPT !.runs = path[cur]] \in App
      BY <3>1 DEF App
    <3> QED BY <1>0, <3>2 DEF TypeOK, Start
  <2> QED BY <1>0, <2>1, <2>2 DEF TypeOK, Start, At, Goto, Sched, Irqs, Launching
<1>3. IdleAvailable'
  BY <1>0 DEF Inv, TypeOK, IdleAvailable, KernelLoops, SlotChosen, Start, At, Goto,
     Sched, Irqs, Launching
<1>4. RunnableHasStack' /\ KernelLoops' /\ SlotChosen' /\ TickFirst'
  BY <1>0, SchedAssumption DEF Inv, TypeOK, RunnableHasStack, KernelLoops,
     SlotChosen, TickFirst, Start, At, Goto, Sched, Irqs, Launching
<1>5. Settled
  BY <1>0 DEF Settled, TypeOK, Start, Sched
<1> QED BY <1>2, <1>3, <1>4, <1>5 DEF Inv

\* An application returns.
LEMMA CallExitKeeps ==
  ASSUME Inv, CallExit
  PROVE  Inv' /\ Settled
<1>0. /\ 0 \in Slots /\ cur \in Slots /\ num \in Nat /\ MAX_THREADS \in Nat
      /\ TypeOK /\ IdleAvailable
  BY Basics
<1>2. TypeOK'
  <2>1. pc' \in [Slots -> Places]
    BY <1>0 DEF Inv, SlotChosen, TypeOK, Places, Fresh, CallExit, At, Goto, Sched,
       Irqs, Launching
  <2> QED BY <1>0, <2>1 DEF TypeOK, CallExit, At, Goto, Sched, Irqs, Launching
<1>3. IdleAvailable'
  BY <1>0 DEF Inv, TypeOK, IdleAvailable, KernelLoops, SlotChosen, CallExit, At,
     Goto, Sched, Irqs, Launching
<1>4. RunnableHasStack' /\ KernelLoops' /\ SlotChosen' /\ TickFirst'
  BY <1>0, SchedAssumption DEF Inv, TypeOK, RunnableHasStack, KernelLoops,
     SlotChosen, TickFirst, CallExit, At, Goto, Sched, Irqs, Launching
<1>5. Settled
  BY <1>0 DEF Settled, TypeOK, CallExit, Sched
<1> QED BY <1>2, <1>3, <1>4, <1>5 DEF Inv

\* thread_exit closes the windows.
LEMMA CloseWindowsKeeps ==
  ASSUME Inv, CloseWindows
  PROVE  Inv' /\ Settled
<1>0. /\ 0 \in Slots /\ cur \in Slots /\ num \in Nat /\ MAX_THREADS \in Nat
      /\ TypeOK /\ IdleAvailable
  BY Basics
<1>1. Decided
  BY <1>0, WakeDecides DEF CloseWindows, At, Goto, Sched, Irqs, Launching
<1>2. TypeOK'
  <2>1. pc' \in [Slots -> Places]
    BY <1>0 DEF Inv, SlotChosen, TypeOK, Places, Fresh, CloseWindows, At, Goto,
       Sched, Irqs, Launching
  <2> QED BY <1>0, <1>1, <2>1 DEF Decided, TypeOK, CloseWindows, At, Goto, Sched,
             Irqs, Launching
<1>3. IdleAvailable'
  BY <1>0, <1>1 DEF Decided, IdleAvailable, CloseWindows, At, Goto, Sched, Irqs,
     Launching
<1>4. RunnableHasStack' /\ KernelLoops' /\ SlotChosen' /\ TickFirst'
  BY <1>0, SchedAssumption DEF Inv, TypeOK, RunnableHasStack, KernelLoops,
     SlotChosen, TickFirst, CloseWindows, At, Goto, Sched, Irqs, Launching
<1>5. Settled
  BY <1>1 DEF Decided, Settled
<1> QED BY <1>2, <1>3, <1>4, <1>5 DEF Inv

\* thread_exit marks its slot; thread 0 never gets there.
LEMMA TerminateKeeps ==
  ASSUME Inv, Terminate
  PROVE  Inv' /\ Settled
<1>0. /\ 0 \in Slots /\ cur \in Slots /\ num \in Nat /\ MAX_THREADS \in Nat
      /\ TypeOK /\ IdleAvailable
  BY Basics
<1>2. TypeOK'
  <2>1. pc' \in [Slots -> Places]
    BY <1>0 DEF Inv, SlotChosen, TypeOK, Places, Fresh, Terminate, At, Goto, Sched,
       Irqs, Launching
  <2>2. state' \in [Slots -> States]
    BY <1>0 DEF Inv, SlotChosen, TypeOK, States, Terminate, At, Goto, Sched, Irqs,
       Launching
  <2>3. app' \in [Slots -> App]
    BY <1>0 DEF Inv, SlotChosen, TypeOK, App, AnyPath, NoApp, Terminate, At, Goto,
       Sched, Irqs, Launching
  <2> QED BY <1>0, <2>1, <2>2, <2>3 DEF TypeOK, Terminate, At, Goto, Sched, Irqs,
             Launching
<1>3. IdleAvailable'
  BY <1>0 DEF Inv, TypeOK, IdleAvailable, KernelLoops, SlotChosen, Terminate, At,
     Goto, Sched, Irqs, Launching
<1>4. RunnableHasStack' /\ KernelLoops' /\ SlotChosen' /\ TickFirst'
  BY <1>0, SchedAssumption DEF Inv, TypeOK, RunnableHasStack, KernelLoops,
     SlotChosen, TickFirst, Terminate, At, Goto, Sched, Irqs, Launching
<1>5. Settled
  BY <1>0 DEF Settled, TypeOK, Terminate, Sched
<1> QED BY <1>2, <1>3, <1>4, <1>5 DEF Inv

\* The rest of thread_exit.
LEMMA WipeKeeps ==
  ASSUME Inv, Wipe
  PROVE  Inv' /\ Settled
<1>0. /\ 0 \in Slots /\ cur \in Slots /\ num \in Nat /\ MAX_THREADS \in Nat
      /\ TypeOK /\ IdleAvailable
  BY Basics
<1>1. Decided
  BY <1>0, WakeDecides DEF Wipe, At, Goto, Sched, Irqs, Launching
<1>2. TypeOK'
  <2>1. pc' \in [Slots -> Places]
    BY <1>0 DEF Inv, SlotChosen, TypeOK, Places, Fresh, Wipe, At, Goto, Sched, Irqs,
       Launching
  <2>2. path' \in [Slots -> AnyPath]
    BY <1>0 DEF Inv, SlotChosen, TypeOK, AnyPath, Wipe, At, Goto, Sched, Irqs, Launching
  <2> QED BY <1>0, <1>1, <2>1, <2>2 DEF Decided, TypeOK, Wipe, At, Goto, Sched, Irqs,
             Launching
<1>3. IdleAvailable'
  BY <1>0, <1>1 DEF Decided, IdleAvailable, Wipe, At, Goto, Sched, Irqs, Launching
<1>4. RunnableHasStack' /\ KernelLoops' /\ SlotChosen' /\ TickFirst'
  BY <1>0, SchedAssumption DEF Inv, TypeOK, RunnableHasStack, KernelLoops,
     SlotChosen, TickFirst, Wipe, At, Goto, Sched, Irqs, Launching
<1>5. Settled
  BY <1>1 DEF Decided, Settled
<1> QED BY <1>2, <1>3, <1>4, <1>5 DEF Inv

\* A window opens.
LEMMA OpenWindowKeeps ==
  ASSUME Inv, OpenWindow
  PROVE  Inv' /\ Settled
<1>0. /\ 0 \in Slots /\ cur \in Slots /\ num \in Nat /\ MAX_THREADS \in Nat
      /\ TypeOK /\ IdleAvailable
  BY Basics
<1>1. Decided
  BY <1>0, WakeDecides DEF OpenWindow, At, Goto, Sched, Irqs, Launching
<1>2. TypeOK'
  <2> QED BY <1>0, <1>1 DEF Decided, TypeOK, OpenWindow, At, Goto, Sched, Irqs,
             Launching
<1>3. IdleAvailable'
  BY <1>0, <1>1 DEF Decided, IdleAvailable, OpenWindow, At, Goto, Sched, Irqs, Launching
<1>4. RunnableHasStack' /\ KernelLoops' /\ SlotChosen' /\ TickFirst'
  BY <1>0, SchedAssumption DEF Inv, TypeOK, RunnableHasStack, KernelLoops,
     SlotChosen, TickFirst, OpenWindow, At, Goto, Sched, Irqs, Launching
<1>5. Settled
  BY <1>1 DEF Decided, Settled
<1> QED BY <1>2, <1>3, <1>4, <1>5 DEF Inv

\* A window closes.
LEMMA CloseWindowKeeps ==
  ASSUME Inv, NEW t \in Slots, CloseWindow(t)
  PROVE  Inv' /\ Settled
<1>0. /\ 0 \in Slots /\ cur \in Slots /\ num \in Nat /\ MAX_THREADS \in Nat
      /\ TypeOK /\ IdleAvailable
  BY Basics
<1>1. Decided
  BY <1>0, WakeDecides DEF CloseWindow, At, Goto, Sched, Irqs, Launching
<1>2. TypeOK'
  <2> QED BY <1>0, <1>1 DEF Decided, TypeOK, CloseWindow, At, Goto, Sched, Irqs,
             Launching
<1>3. IdleAvailable'
  BY <1>0, <1>1 DEF Decided, IdleAvailable, CloseWindow, At, Goto, Sched, Irqs,
     Launching
<1>4. RunnableHasStack' /\ KernelLoops' /\ SlotChosen' /\ TickFirst'
  BY <1>0, SchedAssumption DEF Inv, TypeOK, RunnableHasStack, KernelLoops,
     SlotChosen, TickFirst, CloseWindow, At, Goto, Sched, Irqs, Launching
<1>5. Settled
  BY <1>1 DEF Decided, Settled
<1> QED BY <1>2, <1>3, <1>4, <1>5 DEF Inv

\* woos_system_spawn finds an instance, never thread 0.
LEMMA SpawnFoundKeeps ==
  ASSUME Inv, NEW p \in Paths, SpawnFound(p)
  PROVE  Inv' /\ Settled
<1>0. /\ 0 \in Slots /\ cur \in Slots /\ num \in Nat /\ MAX_THREADS \in Nat
      /\ TypeOK /\ IdleAvailable
  BY Basics
<1>1. First(Instances(p)) \in 1 .. num - 1
  <2>1. Instances(p) \in SUBSET (1 .. num - 1) /\ Instances(p) # {}
    BY DEF Instances, SpawnFound
  <2> QED BY <1>0, <2>1, FirstIsLeast
<1>2. TypeOK'
  <2>1. pc' \in [Slots -> Places]
    BY <1>0, <1>1 DEF Inv, SlotChosen, TypeOK, Places, Fresh, SpawnFound, At, Goto,
       Sched, Irqs, Launching, Return, Local, CallSpawn
  <2>2. job' \in [Slots -> Job]
    <3>1. [path |-> p, slot |-> 0, victim |-> First(Instances(p))] \in Job
      <4>1. First(Instances(p)) \in Slots
        BY <1>0, <1>1, SchedAssumption DEF TypeOK, Slots
      <4> QED BY <1>0, <4>1 DEF Job, AnyPath
    <3> QED BY <1>0, <3>1, LocalTypes DEF SpawnFound
  <2> QED BY <1>0, <2>1, <2>2 DEF TypeOK, SpawnFound, At, Goto, Sched, Irqs,
             Launching, Return, Local, CallSpawn
<1>3. IdleAvailable'
  BY <1>0 DEF Inv, TypeOK, IdleAvailable, KernelLoops, SlotChosen, SpawnFound, At,
     Goto, Sched, Irqs, Launching, Return, Local, CallSpawn
<1>4. RunnableHasStack' /\ KernelLoops' /\ SlotChosen' /\ TickFirst'
  BY <1>0, SchedAssumption, <1>1 DEF Inv, TypeOK, RunnableHasStack, KernelLoops,
     SlotChosen, TickFirst, SpawnFound, At, Goto, Sched, Irqs, Launching, Return, Local, CallSpawn
<1>5. Settled
  BY <1>0 DEF Settled, TypeOK, SpawnFound, Sched
<1> QED BY <1>2, <1>3, <1>4, <1>5 DEF Inv

\* woos_system_spawn finds none.
LEMMA SpawnNewKeeps ==
  ASSUME Inv, NEW p \in Paths, SpawnNew(p)
  PROVE  Inv' /\ Settled
<1>0. /\ 0 \in Slots /\ cur \in Slots /\ num \in Nat /\ MAX_THREADS \in Nat
      /\ TypeOK /\ IdleAvailable
  BY Basics
<1>1. FreeSlot \in 1 .. num
  BY <1>0, FreeSlotRange
<1>2. TypeOK'
  <2>1. pc' \in [Slots -> Places]
    BY ZenonT(40), <1>0, <1>1 DEF Inv, SlotChosen, TypeOK, Places, Fresh, SpawnNew, At, Goto,
       Sched, Irqs, Launching, Return, Local, CallSpawn
  <2>2. job' \in [Slots -> Job]
    <3>1. [path |-> p, slot |-> 0, victim |-> 0] \in Job
      BY <1>0 DEF Job, AnyPath
    <3> QED BY <1>0, <3>1, LocalTypes DEF SpawnNew, TypeOK
  <2>3. path' \in [Slots -> AnyPath]
    BY ZenonT(40), <1>0, <1>1 DEF Inv, SlotChosen, TypeOK, AnyPath, SpawnNew, At, Goto, Sched,
       Irqs, Launching, Return, Local, CallSpawn
  <2> QED BY <1>0, <2>1, <2>2, <2>3 DEF TypeOK, SpawnNew, At, Goto, Sched, Irqs,
             Launching, Return, Local, CallSpawn
<1>3. IdleAvailable'
  BY <1>0 DEF Inv, TypeOK, IdleAvailable, KernelLoops, SlotChosen, SpawnNew, At,
     Goto, Sched, Irqs, Launching, Return, Local, CallSpawn
<1>4. RunnableHasStack' /\ KernelLoops' /\ SlotChosen' /\ TickFirst'
  BY SMTT(30), <1>0, SchedAssumption, <1>1 DEF Inv, TypeOK, RunnableHasStack, KernelLoops,
     SlotChosen, TickFirst, SpawnNew, At, Goto, Sched, Irqs, Launching, Return, Local, CallSpawn
<1>5. Settled
  BY <1>0 DEF Settled, TypeOK, SpawnNew, Sched
<1> QED BY <1>2, <1>3, <1>4, <1>5 DEF Inv

\* It focuses the instance or goes on to terminate it.
LEMMA FocusKeeps ==
  ASSUME Inv, Focus
  PROVE  Inv' /\ Settled
<1>0. /\ 0 \in Slots /\ cur \in Slots /\ num \in Nat /\ MAX_THREADS \in Nat
      /\ TypeOK /\ IdleAvailable
  BY Basics
<1>1. Decided
  BY <1>0, WakeDecides DEF Focus, At, Goto, Sched, Irqs, Launching, Return, Local
<1>2. TypeOK'
  <2>1. pc' \in [Slots -> Places]
    BY <1>0 DEF Inv, SlotChosen, TypeOK, Places, Fresh, Focus, At, Goto, Sched, Irqs,
       Launching, Return, Local
  <2>2. job' \in [Slots -> Job]
    BY <1>0, JobTypes, LocalTypes DEF Focus, Return, TypeOK
  <2> QED BY <1>0, <1>1, <2>1, <2>2 DEF Decided, TypeOK, Focus, At, Goto, Sched,
             Irqs, Launching, Return, Local
<1>3. IdleAvailable'
  BY <1>0, <1>1 DEF Decided, IdleAvailable, Focus, At, Goto, Sched, Irqs, Launching,
     Return, Local
<1>4. RunnableHasStack' /\ KernelLoops' /\ SlotChosen' /\ TickFirst'
  BY ZenonT(40), <1>0, SchedAssumption DEF Inv, TypeOK, RunnableHasStack, KernelLoops,
     SlotChosen, TickFirst, Focus, At, Goto, Sched, Irqs, Launching, Return, Local
<1>5. Settled
  BY <1>1 DEF Decided, Settled
<1> QED BY <1>2, <1>3, <1>4, <1>5 DEF Inv

\* It terminates the instance.
LEMMA ReapKeeps ==
  ASSUME Inv, Reap
  PROVE  Inv' /\ Settled
<1>0. /\ 0 \in Slots /\ cur \in Slots /\ num \in Nat /\ MAX_THREADS \in Nat
      /\ TypeOK /\ IdleAvailable
  BY Basics
<1>2. TypeOK'
  <2>1. pc' \in [Slots -> Places]
    BY <1>0 DEF Inv, SlotChosen, TypeOK, Places, Fresh, Reap, At, Goto, Sched, Irqs,
       Launching, Return, Local
  <2>2. state' \in [Slots -> States]
    BY <1>0 DEF Inv, SlotChosen, TypeOK, States, Reap, At, Goto, Sched, Irqs,
       Launching, Return, Local
  <2>3. path' \in [Slots -> AnyPath]
    BY <1>0 DEF Inv, SlotChosen, TypeOK, AnyPath, Reap, At, Goto, Sched, Irqs,
       Launching, Return, Local
  <2>4. app' \in [Slots -> App]
    BY <1>0 DEF Inv, SlotChosen, TypeOK, App, AnyPath, NoApp, Reap, At, Goto, Sched,
       Irqs, Launching, Return, Local
  <2>5. job' \in [Slots -> Job]
    BY <1>0, JobTypes, LocalTypes DEF Reap
  <2> QED BY <1>0, <2>1, <2>2, <2>3, <2>4, <2>5 DEF TypeOK, Reap, At, Goto, Sched,
             Irqs, Launching, Return, Local
<1>3. IdleAvailable'
  BY <1>0 DEF Inv, TypeOK, IdleAvailable, KernelLoops, SlotChosen, Reap, At, Goto,
     Sched, Irqs, Launching, Return, Local
<1>4. RunnableHasStack' /\ KernelLoops' /\ SlotChosen' /\ TickFirst'
  BY <1>0, SchedAssumption DEF Inv, TypeOK, RunnableHasStack, KernelLoops,
     SlotChosen, TickFirst, Reap, At, Goto, Sched, Irqs, Launching, Return, Local
<1>5. Settled
  BY <1>0 DEF Settled, TypeOK, Reap, Sched
<1> QED BY <1>2, <1>3, <1>4, <1>5 DEF Inv

\* It looks for a slot.
LEMMA PickKeeps ==
  ASSUME Inv, Pick
  PROVE  Inv' /\ Settled
<1>0. /\ 0 \in Slots /\ cur \in Slots /\ num \in Nat /\ MAX_THREADS \in Nat
      /\ TypeOK /\ IdleAvailable
  BY Basics
<1>1. FreeSlot \in 1 .. num
  BY <1>0, FreeSlotRange
<1>2. TypeOK'
  <2>1. pc' \in [Slots -> Places]
    BY <1>0, <1>1 DEF Inv, SlotChosen, TypeOK, Places, Fresh, Pick, At, Goto, Sched,
       Irqs, Launching, Return, Local
  <2>2. job' \in [Slots -> Job]
    <3>1. FreeSlot < MAX_THREADS => FreeSlot \in Slots
      BY <1>0, <1>1 DEF Slots
    <3> QED BY <1>0, <1>1, <3>1, JobTypes, LocalTypes DEF Pick, Return
  <2> QED BY <1>0, <2>1, <2>2 DEF TypeOK, Pick, At, Goto, Sched, Irqs, Launching,
             Return, Local
<1>3. IdleAvailable'
  BY <1>0 DEF Inv, TypeOK, IdleAvailable, KernelLoops, SlotChosen, Pick, At, Goto,
     Sched, Irqs, Launching, Return, Local
<1>4. SlotChosen'
  <2>1. CASE FreeSlot >= MAX_THREADS
    BY <1>0, <2>1 DEF Inv, TypeOK, SlotChosen, Pick, Goto, Return, Local, Launching
  <2>2. CASE ~ (FreeSlot >= MAX_THREADS)
    <3>1. job'[cur].slot = FreeSlot /\ pc'[cur] = "name"
      <4>1. FreeSlot \in Slots
        BY <1>0, <1>1, <2>2 DEF Slots
      <4>2. job' = [job EXCEPT ![cur] = [job[cur] EXCEPT !.slot = FreeSlot]]
        BY <2>2 DEF Pick, Local
      <4>3. pc'[cur] = "name"
        BY <1>0, <2>2 DEF TypeOK, Pick, Goto
      <4> QED BY <1>0, <4>1, <4>2, <4>3, JobTypes DEF TypeOK
    <3>2. \A t \in Slots \ {cur} : job'[t] = job[t] /\ pc'[t] = pc[t]
      BY <1>0, <2>2 DEF TypeOK, Pick, Goto, Local
    <3>3. stack' = stack
      BY <2>2 DEF Pick, Launching
    <3> QED BY <1>0, <1>1, <3>1, <3>2, <3>3 DEF Inv, SlotChosen
  <2> QED BY <2>1, <2>2
<1>5. RunnableHasStack' /\ KernelLoops' /\ TickFirst'
  BY <1>0, SchedAssumption, <1>1 DEF Inv, TypeOK, RunnableHasStack, KernelLoops,
     SlotChosen, TickFirst, Pick, At, Goto, Sched, Irqs, Launching, Return, Local
<1>6. Settled
  BY <1>0 DEF Settled, TypeOK, Pick, Sched
<1> QED BY <1>2, <1>3, <1>4, <1>5, <1>6 DEF Inv

\* It writes the path.
LEMMA NameKeeps ==
  ASSUME Inv, Name
  PROVE  Inv' /\ Settled
<1>0. /\ 0 \in Slots /\ cur \in Slots /\ num \in Nat /\ MAX_THREADS \in Nat
      /\ TypeOK /\ IdleAvailable
  BY Basics
<1>2. TypeOK'
  <2>1. pc' \in [Slots -> Places]
    BY <1>0 DEF Inv, SlotChosen, TypeOK, Places, Fresh, Name, At, Goto, Sched, Irqs,
       Launching, Return, Local
  <2>2. path' \in [Slots -> AnyPath]
    BY <1>0, JobTypes DEF TypeOK, AnyPath, Name
  <2> QED BY <1>0, <2>1, <2>2 DEF TypeOK, Name, At, Goto, Sched, Irqs, Launching,
             Return, Local
<1>3. IdleAvailable'
  BY <1>0 DEF Inv, TypeOK, IdleAvailable, KernelLoops, SlotChosen, Name, At, Goto,
     Sched, Irqs, Launching, Return, Local
<1>4. RunnableHasStack' /\ KernelLoops' /\ SlotChosen' /\ TickFirst'
  BY <1>0, SchedAssumption DEF Inv, TypeOK, RunnableHasStack, KernelLoops,
     SlotChosen, TickFirst, Name, At, Goto, Sched, Irqs, Launching, Return, Local
<1>5. Settled
  BY <1>0 DEF Settled, TypeOK, Name, Sched
<1> QED BY <1>2, <1>3, <1>4, <1>5 DEF Inv

\* thread_create looks for a slot.
LEMMA CreateSlotKeeps ==
  ASSUME Inv, CreateSlot
  PROVE  Inv' /\ Settled
<1>0. /\ 0 \in Slots /\ cur \in Slots /\ num \in Nat /\ MAX_THREADS \in Nat
      /\ TypeOK /\ IdleAvailable
  BY Basics
<1>1. FreeSlot \in 1 .. num
  BY <1>0, FreeSlotRange
<1>2. TypeOK'
  <2>1. pc' \in [Slots -> Places]
    BY <1>0, <1>1 DEF Inv, SlotChosen, TypeOK, Places, Fresh, CreateSlot, At, Goto,
       Sched, Irqs, Launching, Return, Local
  <2>2. job' \in [Slots -> Job]
    <3>1. FreeSlot < MAX_THREADS => FreeSlot \in Slots
      BY <1>0, <1>1 DEF Slots
    <3> QED BY <1>0, <1>1, <3>1, JobTypes, LocalTypes DEF CreateSlot, Return
  <2> QED BY <1>0, <2>1, <2>2 DEF TypeOK, CreateSlot, At, Goto, Sched, Irqs,
             Launching, Return, Local
<1>3. IdleAvailable'
  BY <1>0 DEF Inv, TypeOK, IdleAvailable, KernelLoops, SlotChosen, CreateSlot, At,
     Goto, Sched, Irqs, Launching, Return, Local
<1>4. SlotChosen'
  <2>1. CASE FreeSlot >= MAX_THREADS
    BY <1>0, <2>1 DEF Inv, TypeOK, SlotChosen, CreateSlot, Goto, Return, Local,
       Launching
  <2>2. CASE ~ (FreeSlot >= MAX_THREADS)
    <3>1. job'[cur].slot = FreeSlot /\ pc'[cur] = "stack"
      <4>1. FreeSlot \in Slots
        BY <1>0, <1>1, <2>2 DEF Slots
      <4>2. job' = [job EXCEPT ![cur] = [job[cur] EXCEPT !.slot = FreeSlot]]
        BY <2>2 DEF CreateSlot, Local
      <4>3. pc'[cur] = "stack"
        BY <1>0, <2>2 DEF TypeOK, CreateSlot, Goto
      <4> QED BY <1>0, <4>1, <4>2, <4>3, JobTypes DEF TypeOK
    <3>2. \A t \in Slots \ {cur} : job'[t] = job[t] /\ pc'[t] = pc[t]
      BY <1>0, <2>2 DEF TypeOK, CreateSlot, Goto, Local
    <3>3. stack' = stack
      BY <2>2 DEF CreateSlot, Launching
    <3> QED BY <1>0, <1>1, <3>1, <3>2, <3>3 DEF Inv, SlotChosen
  <2> QED BY <2>1, <2>2
<1>5. RunnableHasStack' /\ KernelLoops' /\ TickFirst'
  BY <1>0, SchedAssumption, <1>1 DEF Inv, TypeOK, RunnableHasStack, KernelLoops,
     SlotChosen, TickFirst, CreateSlot, At, Goto, Sched, Irqs, Launching, Return, Local
<1>6. Settled
  BY <1>0 DEF Settled, TypeOK, CreateSlot, Sched
<1> QED BY <1>2, <1>3, <1>4, <1>5, <1>6 DEF Inv

\* thread_create allocates the stack before it starts anything.
LEMMA CreateStackKeeps ==
  ASSUME Inv, CreateStack
  PROVE  Inv' /\ Settled
<1>0. /\ 0 \in Slots /\ cur \in Slots /\ num \in Nat /\ MAX_THREADS \in Nat
      /\ TypeOK /\ IdleAvailable
  BY Basics
<1>2. TypeOK'
  <2>1. pc' \in [Slots -> Places]
    BY <1>0 DEF Inv, SlotChosen, TypeOK, Places, Fresh, CreateStack, At, Goto, Sched,
       Irqs, Launching, Return, Local
  <2>2. job' \in [Slots -> Job]
    BY <1>0, JobTypes, LocalTypes DEF CreateStack, Return, TypeOK
  <2>3. stack' \subseteq Slots
    BY <1>0, JobTypes DEF TypeOK, CreateStack
  <2> QED BY <1>0, <2>1, <2>2, <2>3 DEF TypeOK, CreateStack, At, Goto, Sched, Irqs,
             Launching, Return, Local
<1>3. IdleAvailable'
  BY <1>0 DEF Inv, TypeOK, IdleAvailable, KernelLoops, SlotChosen, CreateStack, At,
     Goto, Sched, Irqs, Launching, Return, Local
<1>4. RunnableHasStack' /\ KernelLoops' /\ SlotChosen' /\ TickFirst'
  BY ZenonT(40), <1>0, SchedAssumption DEF Inv, TypeOK, RunnableHasStack, KernelLoops,
     SlotChosen, TickFirst, CreateStack, At, Goto, Sched, Irqs, Launching, Return, Local
<1>5. Settled
  BY <1>0 DEF Settled, TypeOK, CreateStack, Sched
<1> QED BY <1>2, <1>3, <1>4, <1>5 DEF Inv

\* thread_create makes the slot READY.
LEMMA CreateFillKeeps ==
  ASSUME Inv, CreateFill
  PROVE  Inv' /\ Settled
<1>0. /\ 0 \in Slots /\ cur \in Slots /\ num \in Nat /\ MAX_THREADS \in Nat
      /\ TypeOK /\ IdleAvailable
  BY Basics
<1>2. TypeOK'
  <2>1. pc' \in [Slots -> Places]
    BY <1>0 DEF Inv, SlotChosen, TypeOK, Places, Fresh, CreateFill, At, Goto, Sched,
       Irqs, Launching, Return, Local
  <2>2. state' \in [Slots -> States]
    BY <1>0 DEF Inv, SlotChosen, TypeOK, States, CreateFill, At, Goto, Sched, Irqs,
       Launching, Return, Local
  <2>3. fpu' \in [Slots -> Fpu]
    BY <1>0 DEF Inv, SlotChosen, TypeOK, Fpu, CreateFill, At, Goto, Sched, Irqs,
       Launching, Return, Local
  <2>4. app' \in [Slots -> App]
    <3>1. [wanted |-> job[cur].path, runs |-> NoPath] \in App
      BY <1>0, JobTypes DEF App, AnyPath
    <3> QED BY <1>0, <3>1 DEF TypeOK, CreateFill
  <2> QED BY <1>0, <2>1, <2>2, <2>3, <2>4 DEF TypeOK, CreateFill, At, Goto, Sched,
             Irqs, Launching, Return, Local
<1>3. IdleAvailable'
  BY <1>0 DEF Inv, TypeOK, IdleAvailable, KernelLoops, SlotChosen, CreateFill, At,
     Goto, Sched, Irqs, Launching, Return, Local
<1>4. RunnableHasStack' /\ KernelLoops' /\ SlotChosen' /\ TickFirst'
  BY <1>0, SchedAssumption DEF Inv, TypeOK, RunnableHasStack, KernelLoops,
     SlotChosen, TickFirst, CreateFill, At, Goto, Sched, Irqs, Launching, Return, Local
<1>5. Settled
  BY <1>0 DEF Settled, TypeOK, CreateFill, At, Sched
<1> QED BY <1>2, <1>3, <1>4, <1>5 DEF Inv

\* thread_create fills the FPU area.
LEMMA CreateFpuKeeps ==
  ASSUME Inv, CreateFpu
  PROVE  Inv' /\ Settled
<1>0. /\ 0 \in Slots /\ cur \in Slots /\ num \in Nat /\ MAX_THREADS \in Nat
      /\ TypeOK /\ IdleAvailable
  BY Basics
<1>2. TypeOK'
  <2>1. pc' \in [Slots -> Places]
    BY <1>0 DEF Inv, SlotChosen, TypeOK, Places, Fresh, CreateFpu, At, Goto, Sched,
       Irqs, Launching, Return, Local
  <2>2. fpu' \in [Slots -> Fpu]
    BY <1>0 DEF Inv, SlotChosen, TypeOK, Fpu, CreateFpu, At, Goto, Sched, Irqs,
       Launching, Return, Local
  <2> QED BY <1>0, <2>1, <2>2 DEF TypeOK, CreateFpu, At, Goto, Sched, Irqs,
             Launching, Return, Local
<1>3. IdleAvailable'
  BY <1>0 DEF Inv, TypeOK, IdleAvailable, KernelLoops, SlotChosen, CreateFpu, At,
     Goto, Sched, Irqs, Launching, Return, Local
<1>4. RunnableHasStack' /\ KernelLoops' /\ SlotChosen' /\ TickFirst'
  BY <1>0, SchedAssumption DEF Inv, TypeOK, RunnableHasStack, KernelLoops,
     SlotChosen, TickFirst, CreateFpu, At, Goto, Sched, Irqs, Launching, Return, Local
<1>5. Settled
  BY <1>0 DEF Settled, TypeOK, CreateFpu, Sched
<1> QED BY <1>2, <1>3, <1>4, <1>5 DEF Inv

\* thread_create counts the slot, which has its stack by now.
LEMMA CreatePublishKeeps ==
  ASSUME Inv, CreatePublish
  PROVE  Inv' /\ Settled
<1>0. /\ 0 \in Slots /\ cur \in Slots /\ num \in Nat /\ MAX_THREADS \in Nat
      /\ TypeOK /\ IdleAvailable
  BY Basics
<1>2. TypeOK'
  <2>1. pc' \in [Slots -> Places]
    BY <1>0 DEF Inv, SlotChosen, TypeOK, Places, Fresh, CreatePublish, At, Goto,
       Sched, Irqs, Launching, Return, Local
  <2>2. job' \in [Slots -> Job]
    BY <1>0, SchedAssumption DEF Inv, SlotChosen, TypeOK, Job, AnyPath, NoJob, Slots,
       CreatePublish, At, Goto, Sched, Irqs, Launching, Return, Local
  <2>3. num' \in 3 .. MAX_THREADS
    <3>1. job[cur].slot < MAX_THREADS
      BY <1>0, JobTypes DEF Slots
    <3> QED BY <1>0, <3>1 DEF TypeOK, CreatePublish
  <2> QED BY <1>0, <2>1, <2>2, <2>3 DEF TypeOK, CreatePublish, At, Goto, Sched, Irqs,
             Launching, Return, Local
<1>3. IdleAvailable'
  <2>1. num' \in Nat /\ num' >= num
    BY <1>0 DEF CreatePublish
  <2>2. state' = state /\ cur' = cur
    BY DEF CreatePublish
  <2> QED BY <1>0, <2>1, <2>2 DEF IdleAvailable, Slots
<1>4. RunnableHasStack' /\ KernelLoops' /\ SlotChosen' /\ TickFirst'
  BY <1>0, SchedAssumption DEF Inv, TypeOK, RunnableHasStack, KernelLoops,
     SlotChosen, TickFirst, CreatePublish, At, Goto, Sched, Irqs, Launching, Return, Local
<1>5. Settled
  BY <1>0 DEF Settled, TypeOK, CreatePublish, Sched
<1> QED BY <1>2, <1>3, <1>4, <1>5 DEF Inv

-------------------------------------------------------------------------------
\* Together.  kmain starts the scheduler in a state of Inv.
LEMMA InitInv ==
  ASSUME Init
  PROVE  Inv
<1>0. 0 \in Slots /\ {1, 2} \subseteq Slots /\ 1 .. 2 \subseteq Slots /\ MAX_THREADS \in Nat /\ MAX_THREADS >= 3
  BY SchedAssumption DEF Slots
<1>1. TypeOK
  <2>1. NoJob \in Job /\ NoApp \in App /\ NoPath \in AnyPath
    BY <1>0 DEF NoJob, Job, AnyPath, NoApp, App
  <2> QED BY <1>0, <2>1 DEF Init, TypeOK, States, Places, Fresh, Fpu
<1>2. IdleAvailable /\ RunnableHasStack
  BY <1>0 DEF Init, IdleAvailable, RunnableHasStack
<1>3. KernelLoops /\ SlotChosen /\ TickFirst
  BY <1>0 DEF Init, KernelLoops, SlotChosen, TickFirst
<1> QED BY <1>1, <1>2, <1>3 DEF Inv

\* Every step keeps Inv and obeys NoResurrection.
LEMMA StepKeeps ==
  ASSUME Inv, [Next]_vars
  PROVE  Inv' /\ (Settled \/ UNCHANGED <<state, cur>>)
<1>1. CASE UNCHANGED vars
  BY <1>1 DEF vars, Inv, TypeOK, IdleAvailable, RunnableHasStack, KernelLoops,
              SlotChosen, TickFirst
<1>2. CASE \E wakes \in BOOLEAN : HwTick(wakes)
  BY <1>2, HwTickKeeps
<1>3. CASE DevIrq \/ DevIrqSilent
  BY <1>3, DevIrqKeeps, DevIrqSilentKeeps
<1>4. CASE ThreadStep
  <2>1. CASE SetFlag \/ Int32 \/ Int32AsTick \/ Int32Tail \/ DevTail
    BY <2>1, SetFlagKeeps, Int32Keeps, Int32AsTickKeeps, Int32TailKeeps, DevTailKeeps
  <2>2. CASE CallSleep \/ Block \/ Start \/ CallExit
    BY <2>2, CallSleepKeeps, BlockKeeps, StartKeeps, CallExitKeeps
  <2>3. CASE CloseWindows \/ Terminate \/ Wipe
    BY <2>3, CloseWindowsKeeps, TerminateKeeps, WipeKeeps
  <2>4. CASE OpenWindow \/ (\E t \in Slots : CloseWindow(t))
    BY <2>4, OpenWindowKeeps, CloseWindowKeeps
  <2>5. CASE Spawning
    <3>1. CASE \E p \in Paths : SpawnFound(p) \/ SpawnNew(p)
      BY <3>1, SpawnFoundKeeps, SpawnNewKeeps
    <3>2. CASE Focus \/ Reap \/ Pick \/ Name
      BY <3>2, FocusKeeps, ReapKeeps, PickKeeps, NameKeeps
    <3>3. CASE CreateSlot \/ CreateStack \/ CreateFill \/ CreateFpu \/ CreatePublish
      BY <3>3, CreateSlotKeeps, CreateStackKeeps, CreateFillKeeps, CreateFpuKeeps,
         CreatePublishKeeps
    <3> QED BY <2>5, <3>1, <3>2, <3>3 DEF Spawning
  <2> QED BY <1>4, <2>1, <2>2, <2>3, <2>4, <2>5 DEF ThreadStep
<1> QED BY <1>1, <1>2, <1>3, <1>4 DEF Next

\* The inductive invariant: what thread 0, the slot numbers and the half-done handlers
\* owe the properties (sched.c:130-258 and 435-510).
THEOREM Invariance == Spec => []Inv
<1>1. Init => Inv
  BY InitInv
<1>2. Inv /\ [Next]_vars => Inv'
  BY StepKeeps
<1> QED BY <1>1, <1>2, PTL DEF Spec

\* The types hold in every reachable state of every instance.
THEOREM TypesHold == Spec => []TypeOK
<1>1. Inv => TypeOK
  BY DEF Inv
<1> QED BY <1>1, Invariance, PTL

\* Thread 0 can always be scheduled, so neither fallback of the two handlers
\* (sched.c:180-184 and 218-221) runs a thread that is asleep or over.
THEOREM IdleIsAvailable == Spec => []IdleAvailable
<1>1. Inv => IdleAvailable
  BY DEF Inv
<1> QED BY <1>1, Invariance, PTL

\* Every slot that the scheduler looks at has a stack, whatever concurrent launches do.
THEOREM StacksExist == Spec => []RunnableHasStack
<1>1. Inv => RunnableHasStack
  BY DEF Inv
<1> QED BY <1>1, Invariance, PTL

\* The dead do not run again, but for the thread that terminated itself.
THEOREM TerminatedStayOver == Spec => NoResurrection
<1>1. Inv /\ [Next]_vars => [Settled]_vars
  <2>1. Inv /\ [Next]_vars => Settled \/ UNCHANGED <<state, cur>>
    BY StepKeeps
  <2>2. UNCHANGED <<state, cur>> => Settled
    BY DEF Settled
  <2> QED BY <2>1, <2>2
<1>2. [][Settled]_vars => NoResurrection
  BY PTL DEF Settled, NoResurrection
<1> QED BY <1>1, <1>2, Invariance, PTL DEF Spec
===============================================================================
