-------------------------------- MODULE Sched ---------------------------------
(***************************************************************************)
(* The thread scheduler (sched.c): one CPU, a table of thread slots, the   *)
(* timer interrupt and the voluntary yield that share one handler, device  *)
(* interrupts that may preempt by priority, blocking, exit, and the launch *)
(* of applications.                                                        *)
(*                                                                         *)
(* Granularity.  Only the thread in slot cur executes.  What runs with     *)
(* interrupts off is one action; where the code has interrupts on, an      *)
(* interrupt may come between two actions.  sched_unblock_all ends in an   *)
(* unconditional sti, so an interrupt handler that has just queued an      *)
(* event can itself be interrupted before it acknowledges the controller:  *)
(* such a half-done handler stays on the interrupted thread's stack        *)
(* (frame) and goes on when that thread next runs.                         *)
(***************************************************************************)
EXTENDS Integers, Sequences, FiniteSets

CONSTANTS
  MAX_THREADS,  \* slots of g_threads
  Paths,        \* application paths, already normalised by app_paths_match
  NoPath,       \* the empty app_path
  Calls,        \* the kernel calls that the applications of a run make
  Spawners,     \* the slots whose programs launch applications
  DeviceIrqs,   \* TRUE: keyboard and mouse interrupts arrive
  MaxNest       \* bound on half-done handlers on one thread's stack

ASSUME SchedAssumption ==
  /\ MAX_THREADS \in Nat /\ MAX_THREADS > 3
  /\ NoPath \notin Paths
  /\ Calls \subseteq {"sleep", "exit", "window"}
  /\ Spawners \subseteq 1 .. MAX_THREADS - 1
  /\ DeviceIrqs \in BOOLEAN
  /\ MaxNest \in Nat

VARIABLES
  state,    \* g_threads[i].state
  num,      \* g_num_threads
  cur,      \* g_current_thread_idx
  isYield,  \* g_is_yield
  path,     \* g_threads[i].app_path
  fpu,      \* whose registers g_threads[i].fpu_state holds
  stack,    \* the slots that own stack pages (stack_limit # 0)
  windows,  \* the threads that own a window (fb.c, g_windows)
  pc,       \* where each thread is in the kernel
  job,      \* local variables of a thread inside woos_system_spawn
  frame,    \* half-done interrupt handlers on each thread's stack, top first
  inService,\* a device interrupt is not yet acknowledged at the controller
  app,      \* history: [wanted, runs] per slot, the path asked for and the one read
  wild      \* threads whose stack bottom was overwritten while they were on it

vars == <<state, num, cur, isYield, path, fpu, stack, windows, pc, job, frame,
          inService, app, wild>>

Slots   == 0 .. MAX_THREADS - 1
States  == {"READY", "RUNNING", "BLOCKED", "TERMINATED"}
NoJob   == [path |-> NoPath, slot |-> 0, victim |-> 0]
NoApp   == [wanted |-> NoPath, runs |-> NoPath]
AnyPath == Paths \union {NoPath}
Job     == [path : AnyPath, slot : Slots, victim : Slots]
App     == [wanted : AnyPath, runs : AnyPath]
\* "boot" and "zero": the initial image, the cleared area.  "own": the registers the
\* thread last had.  "stale": those of the slot's former thread.  "reset": the initial
\* image in place of its own.
Fpu     == {"boot", "zero", "own", "stale", "reset"}

\* A thread whose saved context still is the one its creator wrote.
Fresh   == {"boot", "ring3", "entry"}
Places  == Fresh \union
  {"loop",                                              \* its own code
   "sleep", "flag", "int32",                            \* block and yield
   "close", "die", "wipe", "lastFlag", "lastInt", "hlt",\* thread_exit
   "focus", "reap", "pick", "name",                     \* woos_system_spawn
   "slot", "stack", "fill", "fpu", "publish"}           \* thread_create

(***************************************************************************)
(* kmain has created the compositor's thread and the ring-3 process with   *)
(* interrupts off, and switches them on.                                   *)
(***************************************************************************)
Init ==
  /\ state = [i \in Slots |-> IF i = 0 THEN "RUNNING" ELSE "READY"]
  /\ num = 3
  /\ cur = 0
  /\ isYield = FALSE
  /\ path = [i \in Slots |-> NoPath]
  /\ fpu = [i \in Slots |-> IF i = 1 THEN "boot" ELSE "zero"]
  /\ stack = {1, 2}
  /\ windows = {}
  /\ pc = [i \in Slots |-> IF i = 1 THEN "boot" ELSE IF i = 2 THEN "ring3" ELSE "loop"]
  /\ job = [i \in Slots |-> NoJob]
  /\ frame = [i \in Slots |-> <<>>]
  /\ inService = FALSE
  /\ app = [i \in Slots |-> NoApp]
  /\ wild = {}

-------------------------------------------------------------------------------
(* Choosing and switching *)

\* sched_unblock_all, applied to thread states st.
Unblocked(st) ==
  [i \in Slots |-> IF i < num /\ st[i] = "BLOCKED" THEN "READY" ELSE st[i]]

First(S) == CHOOSE i \in S : \A j \in S : i <= j

\* The thread that is switched away from.  (Mutants first: it stays RUNNING; it becomes
\* READY even if it sleeps or is over.)
DemotedNot(st)    == st
DemotedAlways(st) == [st EXCEPT ![cur] = "READY"]
Demoted(st) == [st EXCEPT ![cur] = IF @ = "RUNNING" THEN "READY" ELSE @]

\* Mutant of Follower: the scan starts at slot 0.
FromZero(k) == (k - 1) % num

\* The thread k places after the current one, going round the used slots.
Follower(k) == (cur + k) % num

\* The switch itself: the registers go to the old thread's save area.
SwitchTo(st, n) ==
  /\ state' = [st EXCEPT ![n] = "RUNNING"]
  /\ cur' = n
  /\ fpu' = [fpu EXCEPT ![cur] = "own"]

\* schedule_interrupt after the acknowledgement: round robin from the next slot.
RoundRobin(st) ==
  LET ready == {k \in 1 .. num : st[Follower(k)] = "READY"}
  IN  IF ready = {}
      THEN state' = [st EXCEPT ![cur] = "RUNNING"] /\ UNCHANGED <<cur, fpu>>
      ELSE SwitchTo(st, Follower(First(ready)))

Priority(i) == IF i = 0 THEN 0 ELSE IF i = 1 THEN 2 ELSE 1

\* schedule_irq after the handler: only a strictly higher priority preempts; a
\* current thread that is not RUNNING counts as the idle thread 0.
Preempt(st) ==
  LET floor == IF st[cur] = "RUNNING" THEN Priority(cur) ELSE 0
      idle  == IF st[cur] = "RUNNING" THEN cur ELSE 0
      above == {i \in 0 .. num - 1 : st[i] = "READY" /\ Priority(i) > floor}
      best  == IF above = {} THEN idle
               ELSE CHOOSE i \in above : \A j \in above :
                      \/ Priority(i) > Priority(j)
                      \/ Priority(i) = Priority(j) /\ i <= j
  IN  IF best = cur
      THEN state' = st /\ UNCHANGED <<cur, fpu>>
      ELSE SwitchTo(Demoted(st), best)

-------------------------------------------------------------------------------
(* Interrupts *)

Launching == <<path, stack, windows, job, app, wild>>

\* IRQ0, the hardware timer.  wakes: timer_handler queued its half-second event,
\* which it does only when no yield flag is pending.  Nothing outranks IRQ0 at the
\* controller, so its handler is not interrupted.
HwTick(wakes) ==
  /\ wakes => ~isYield
  /\ isYield' = FALSE
  /\ RoundRobin(Demoted(IF wakes THEN Unblocked(state) ELSE state))
  /\ UNCHANGED <<num, pc, frame, inService, Launching>>

\* IRQ1 or IRQ12.  An accepted event wakes the sleepers and leaves the handler
\* interruptible before its acknowledgement.
DevIrq ==
  /\ DeviceIrqs
  /\ ~inService
  /\ Len(frame[cur]) < MaxNest
  /\ inService' = TRUE
  /\ frame' = [frame EXCEPT ![cur] = <<"dev">> \o @]
  /\ state' = Unblocked(state)
  /\ UNCHANGED <<num, cur, isYield, fpu, pc, Launching>>

\* The rest of that handler: acknowledgement, then preemption by priority.
DevTail ==
  /\ frame[cur] # <<>> /\ Head(frame[cur]) = "dev"
  /\ frame' = [frame EXCEPT ![cur] = Tail(@)]
  /\ inService' = FALSE
  /\ Preempt(state)
  /\ UNCHANGED <<num, isYield, pc, Launching>>

\* A device interrupt that queues nothing (a key release, a full queue).
DevIrqSilent ==
  /\ DeviceIrqs
  /\ ~inService
  /\ Preempt(state)
  /\ UNCHANGED <<num, isYield, pc, frame, inService, Launching>>

-------------------------------------------------------------------------------
(* Thread code: the steps of the current thread outside its handlers *)

At(p) == pc[cur] = p /\ frame[cur] = <<>>
Goto(p) == pc' = [pc EXCEPT ![cur] = p]

Sched == <<num, cur, fpu>>
Irqs  == <<isYield, frame, inService>>

\* thread_yield: the flag and the software interrupt are two instructions.
SetFlag ==
  /\ \/ At("loop") /\ Goto("int32")      \* any thread may call thread_yield
     \/ At("flag") /\ Goto("int32")
     \/ At("lastFlag") /\ Goto("lastInt")
  /\ isYield' = TRUE
  /\ UNCHANGED <<state, Sched, frame, inService, Launching>>

Returned == [pc EXCEPT ![cur] = IF @ = "int32" THEN "loop" ELSE "hlt"]

\* Mutant of Int32: a yield is not acknowledged.
Int32Silent ==
  /\ At("int32") \/ At("lastInt")
  /\ pc' = Returned
  /\ isYield' = FALSE
  /\ RoundRobin(Demoted(state))
  /\ UNCHANGED <<num, frame, inService, Launching>>

\* int 32, handled by schedule_interrupt like a timer tick.  Its acknowledgement
\* reaches the controller although no timer interrupt is in service.
Int32 ==
  /\ At("int32") \/ At("lastInt")
  /\ pc' = Returned
  /\ isYield' = FALSE
  /\ inService' = FALSE
  /\ RoundRobin(Demoted(state))
  /\ UNCHANGED <<num, frame, Launching>>

\* The same when a tick took the flag first: timer_handler runs for the yield, its
\* event wakes the sleepers, and nothing masks interrupts until it is done.
Int32AsTick ==
  /\ At("int32") \/ At("lastInt")
  /\ ~isYield
  /\ Len(frame[cur]) < MaxNest
  /\ frame' = [frame EXCEPT ![cur] = <<"tick">> \o @]
  /\ state' = Unblocked(state)
  /\ UNCHANGED <<Sched, isYield, inService, pc, Launching>>

Int32Tail ==
  /\ frame[cur] # <<>> /\ Head(frame[cur]) = "tick"
  /\ frame' = [frame EXCEPT ![cur] = Tail(@)]
  /\ pc' = Returned
  /\ isYield' = FALSE
  /\ inService' = FALSE
  /\ RoundRobin(Demoted(state))
  /\ UNCHANGED <<num, Launching>>

\* A wait call found nothing to wait for (wasi.c) and calls sched_block_current.
CallSleep ==
  /\ "sleep" \in Calls
  /\ At("loop") /\ cur # 0 /\ Goto("sleep")
  /\ UNCHANGED <<state, Sched, Irqs, Launching>>

\* sched_block_current up to its sti; then thread_yield.
Block ==
  /\ At("sleep") /\ Goto("flag")
  /\ state' = [state EXCEPT ![cur] = "BLOCKED"]
  /\ UNCHANGED <<Sched, Irqs, Launching>>

-------------------------------------------------------------------------------
(* Start and end of a thread *)

\* A thread's first instructions: the compositor's runner, the ring-3 program, or
\* wasm_dynamic_runner_thread, which reads its path from its slot.
Start ==
  /\ frame[cur] = <<>>
  /\ \/ pc[cur] = "boot" /\ Goto("loop") /\ UNCHANGED app
     \/ pc[cur] = "ring3" /\ Goto("close") /\ UNCHANGED app
     \/ /\ pc[cur] = "entry"
        /\ app' = [app EXCEPT ![cur].runs = path[cur]]
        /\ Goto(IF path[cur] = NoPath THEN "close" ELSE "loop")
  /\ UNCHANGED <<state, Sched, Irqs, path, stack, windows, job, wild>>

\* The application returns to its runner, which calls thread_exit.  A thread whose
\* stack bottom was overwritten has no return address left; what it then does is
\* outside this model.
CallExit ==
  /\ "exit" \in Calls
  /\ cur \notin wild
  /\ At("loop") /\ cur # 0 /\ Goto("close")
  /\ UNCHANGED <<state, Sched, Irqs, Launching>>

\* thread_exit: woos_graphics_destroy_thread_windows, which wakes the sleepers for
\* every window it closes.
CloseWindows ==
  /\ At("close") /\ Goto("die")
  /\ windows' = windows \ {cur}
  /\ state' = IF cur \in windows THEN Unblocked(state) ELSE state
  /\ UNCHANGED <<Sched, Irqs, path, stack, job, app, wild>>

Terminate ==
  /\ At("die") /\ Goto("wipe")
  /\ state' = [state EXCEPT ![cur] = "TERMINATED"]
  /\ app' = [app EXCEPT ![cur] = NoApp]
  /\ UNCHANGED <<Sched, Irqs, path, stack, windows, job, wild>>

\* The rest of thread_exit up to its last thread_yield.
Wipe ==
  /\ At("wipe") /\ Goto("lastFlag")
  /\ path' = [path EXCEPT ![cur] = NoPath]
  /\ state' = Unblocked(state)
  /\ UNCHANGED <<Sched, Irqs, stack, windows, job, app, wild>>

\* A thread opens a window; the compositor closes anybody's.
OpenWindow ==
  /\ "window" \in Calls
  /\ At("loop") /\ cur > 1
  /\ windows' = windows \union {cur}
  /\ state' = Unblocked(state)
  /\ UNCHANGED <<Sched, Irqs, pc, path, stack, job, app, wild>>

CloseWindow(t) ==
  /\ "window" \in Calls
  /\ At("loop") /\ cur \in {1, t} /\ t \in windows
  /\ windows' = windows \ {t}
  /\ state' = Unblocked(state)
  /\ UNCHANGED <<Sched, Irqs, pc, path, stack, job, app, wild>>

-------------------------------------------------------------------------------
(* Launching an application: woos_system_spawn and thread_create *)

Dead == {i \in 1 .. num - 1 : state[i] = "TERMINATED"}

\* The slot both functions look for, each on its own.
FreeSlot == IF Dead = {} THEN num ELSE First(Dead)

Instances(p) == {i \in 1 .. num - 1 : state[i] # "TERMINATED" /\ path[i] = p}

Local(f) == job' = [job EXCEPT ![cur] = f]

\* woos_system_spawn returns: its locals are gone.
Return == Goto("loop") /\ Local(NoJob)

CallSpawn == At("loop") /\ cur \in Spawners

\* A live instance exists: go and focus it.
SpawnFound(p) ==
  /\ CallSpawn
  /\ Instances(p) # {}
  /\ Local([path |-> p, slot |-> 0, victim |-> First(Instances(p))])
  /\ Goto("focus")
  /\ UNCHANGED <<state, Sched, Irqs, path, stack, windows, app, wild>>

\* None exists: slot search and path are still inside the first cli section.
SpawnNew(p) ==
  /\ CallSpawn
  /\ Instances(p) = {}
  /\ IF FreeSlot >= MAX_THREADS
     THEN UNCHANGED <<path, job, pc>>
     ELSE /\ path' = [path EXCEPT ![FreeSlot] = p]
          /\ Local([path |-> p, slot |-> 0, victim |-> 0])
          /\ Goto("slot")
  /\ UNCHANGED <<state, Sched, Irqs, stack, windows, app, wild>>

\* woos_graphics_bring_thread_to_front succeeds when the instance has a window.
Focus ==
  /\ At("focus")
  /\ IF job[cur].victim \in windows
     THEN Return /\ state' = Unblocked(state)
     ELSE Goto("reap") /\ UNCHANGED <<state, job>>
  /\ UNCHANGED <<Sched, Irqs, path, stack, windows, app, wild>>

\* The windowless instance is terminated where it stands.
Reap ==
  /\ At("reap") /\ Goto("pick")
  /\ state' = [state EXCEPT ![job[cur].victim] = "TERMINATED"]
  /\ path' = [path EXCEPT ![job[cur].victim] = NoPath]
  /\ app' = [app EXCEPT ![job[cur].victim] = NoApp]
  /\ Local([job[cur] EXCEPT !.victim = 0])
  /\ UNCHANGED <<Sched, Irqs, stack, windows, wild>>

\* After a reap the slot search and the path run with interrupts on.
Pick ==
  /\ At("pick")
  /\ IF FreeSlot >= MAX_THREADS
     THEN Return
     ELSE Goto("name") /\ Local([job[cur] EXCEPT !.slot = FreeSlot])
  /\ UNCHANGED <<state, Sched, Irqs, path, stack, windows, app, wild>>

Name ==
  /\ At("name") /\ Goto("slot")
  /\ path' = [path EXCEPT ![job[cur].slot] = job[cur].path]
  /\ UNCHANGED <<state, Sched, Irqs, stack, windows, job, app, wild>>

\* thread_create looks for a slot again, with interrupts on.
CreateSlot ==
  /\ At("slot")
  /\ IF FreeSlot >= MAX_THREADS
     THEN Return
     ELSE Goto("stack") /\ Local([job[cur] EXCEPT !.slot = FreeSlot])
  /\ UNCHANGED <<state, Sched, Irqs, path, stack, windows, app, wild>>

\* Mutant of CreateStack: a failed allocation goes unnoticed.
CreateStackless ==
  /\ At("stack") /\ Goto("fill")
  /\ stack' = stack \/ stack' = stack \union {job[cur].slot}
  /\ UNCHANGED <<state, Sched, Irqs, path, windows, job, app, wild>>

\* A slot keeps its old stack; a new one is allocated, which may fail.
CreateStack ==
  /\ At("stack")
  /\ \/ Goto("fill") /\ stack' = stack \union {job[cur].slot} /\ UNCHANGED job
     \/ job[cur].slot \notin stack /\ Return /\ UNCHANGED stack
  /\ UNCHANGED <<state, Sched, Irqs, path, windows, app, wild>>

\* The start context goes to the top of the slot's stack and the slot is READY.
\* A caller whose own slot it is goes on where it was.
CreateFill ==
  /\ At("fill")
  /\ LET s == job[cur].slot
     IN  /\ state' = [state EXCEPT ![s] = "READY"]
         /\ pc' = [pc EXCEPT ![s] = "entry", ![cur] = "fpu"]
         /\ frame' = IF s = cur THEN frame ELSE [frame EXCEPT ![s] = <<>>]
         /\ fpu' = [fpu EXCEPT ![s] = IF @ = "zero" THEN "zero" ELSE "stale"]
         /\ app' = [app EXCEPT ![s] = [wanted |-> job[cur].path, runs |-> NoPath]]
         /\ wild' = IF s = cur THEN wild \union {s} ELSE wild \ {s}
  /\ UNCHANGED <<num, cur, isYield, inService, path, stack, windows, job>>

\* Only now does the slot get its initial FPU and SSE registers, on top of those
\* of its new thread if that has already had the CPU.
CreateFpu ==
  /\ At("fpu") /\ Goto("publish")
  /\ fpu' = [fpu EXCEPT ![job[cur].slot] = IF @ = "own" THEN "reset" ELSE "boot"]
  /\ UNCHANGED <<state, num, cur, Irqs, Launching>>

\* Mutant of CreatePublish: a reused slot is counted again.
PublishAlways ==
  /\ At("publish") /\ Return
  /\ num' = num + 1
  /\ UNCHANGED <<state, cur, fpu, Irqs, path, stack, windows, app, wild>>

\* A slot past the end becomes visible to the scheduler.
CreatePublish ==
  /\ At("publish") /\ Return
  /\ num' = IF job[cur].slot = num THEN num + 1 ELSE num
  /\ UNCHANGED <<state, cur, fpu, Irqs, path, stack, windows, app, wild>>

-------------------------------------------------------------------------------
Spawning ==
  \/ \E p \in Paths : SpawnFound(p) \/ SpawnNew(p)
  \/ Focus \/ Reap \/ Pick \/ Name
  \/ CreateSlot \/ CreateStack \/ CreateFill \/ CreateFpu \/ CreatePublish

ThreadStep ==
  \/ SetFlag \/ Int32 \/ Int32AsTick \/ Int32Tail \/ DevTail
  \/ CallSleep \/ Block \/ Start \/ CallExit \/ CloseWindows \/ Terminate \/ Wipe
  \/ OpenWindow \/ (\E t \in Slots : CloseWindow(t))
  \/ Spawning

Next ==
  \/ \E wakes \in BOOLEAN : HwTick(wakes)
  \/ DevIrq \/ DevIrqSilent
  \/ ThreadStep

Spec == Init /\ [][Next]_vars

(***************************************************************************)
(* The timer never stops, a half-done handler goes on whenever its thread  *)
(* has the CPU, and kmain's loop always comes back to thread_yield.        *)
(* Applications promise nothing.                                           *)
(***************************************************************************)
Fairness ==
  /\ WF_vars(\E wakes \in BOOLEAN : HwTick(wakes))
  /\ SF_vars(DevTail)
  /\ SF_vars(Int32Tail)
  /\ SF_vars(cur = 0 /\ (SetFlag \/ Int32))

FairSpec == Spec /\ Fairness

-------------------------------------------------------------------------------
(* Properties *)

TypeOK ==
  /\ state \in [Slots -> States]
  /\ num \in 3 .. MAX_THREADS
  /\ cur \in Slots
  /\ isYield \in BOOLEAN
  /\ path \in [Slots -> AnyPath]
  /\ fpu \in [Slots -> Fpu]
  /\ stack \subseteq Slots
  /\ windows \subseteq Slots
  /\ pc \in [Slots -> Places]
  /\ job \in [Slots -> Job]
  /\ frame \in [Slots -> Seq({"dev", "tick"})]
  /\ inService \in BOOLEAN
  /\ app \in [Slots -> App]
  /\ wild \subseteq Slots

\* schedule_interrupt falls back on the current thread when it finds none READY,
\* and would revive a BLOCKED or TERMINATED one (sched.c:180-184); schedule_irq
\* falls back on thread 0 without looking at it (sched.c:218-221).  Neither can go
\* wrong as long as thread 0 always has something to run.
IdleAvailable ==
  /\ cur < num
  /\ \A i \in Slots : state[i] = "RUNNING" => i = cur
  /\ state[0] \in {"READY", "RUNNING"}
  /\ cur # 0 => state[0] = "READY"

\* A thread that is over stays over: only thread_create brings its slot back, and
\* the CPU never goes to a TERMINATED thread.  The exception is a thread that
\* terminates itself in woos_system_spawn and then blocks (sched.c:481,514).
NoResurrection ==
  [][/\ \A i \in Slots :
          state[i] = "TERMINATED" /\ state'[i] # "TERMINATED"
            => \/ pc[cur] = "fill" /\ job[cur].slot = i
               \/ pc[cur] = "sleep" /\ cur = i
     /\ cur' # cur => state[cur'] # "TERMINATED" /\ cur' < num]_vars

\* Whatever two concurrent spawns do to the slot count, a slot that the scheduler
\* looks at never lacks the stack that its saved context lies on (sched.c:74-123).
RunnableHasStack == \A i \in 1 .. num - 1 : i \in stack

\* A thread that could run gets the CPU, whatever the others do (sched.c:172-178).
ReadyRuns ==
  \A i \in Slots : (i < num /\ state[i] = "READY") ~> (cur = i \/ state[i] # "READY")

\* The same, or else priority preemption (sched.c:237) goes on for ever.
PreemptedForEver == []<><<(DevTail \/ DevIrqSilent) /\ cur' # cur>>_vars
ReadyRunsOrPreempted == ReadyRuns \/ PreemptedForEver

\* A device interrupt is acknowledged in the end, even when the thread whose stack
\* holds its handler has died meanwhile.
Acknowledged == inService ~> ~inService

\* thread_create never writes a start context onto a stack that a thread is using.
StackNotShared ==
  [][pc[cur] = "fill" /\ pc' # pc =>
       LET s == job[cur].slot
       IN  s # cur /\ (s >= num \/ state[s] = "TERMINATED")]_vars

\* fxrstor never gives a thread the registers of the slot's former thread, nor the
\* initial ones once it has computed something.
FpuIsolation == [][cur' # cur => fpu[cur'] \notin {"stale", "reset"}]_vars
===============================================================================
