------------------------------- MODULE EventFlow ------------------------------
(***************************************************************************)
(* How an input event reaches an application: interrupt handler or timer,  *)
(* input queue, compositor, message queue, application; and how the        *)
(* threads on that way fall asleep and are woken.                          *)
(*                                                                         *)
(* A wait call looks for work and then blocks (wasi.c,                     *)
(* wasi_input_wait_event and wasi_ipc_wait_message): what arrives between  *)
(* the two finds the thread awake and is not announced again.  What saves  *)
(* the thread is the timer, which queues an event every half second and so *)
(* wakes everybody, unless the queue is full.                              *)
(*                                                                         *)
(* The two queues are those of InputFifo and IpcMailbox, which InputQueue  *)
(* and IpcQueue implement.  The threads run in any interleaving; that each *)
(* gets its turn is ReadyRuns of Sched.                                    *)
(***************************************************************************)
EXTENDS Integers, Sequences, FiniteSets

CONSTANTS
  Apps,         \* threads that wait for messages
  Mortal,       \* those of them that exit
  Comp,         \* the compositor's thread, which waits for input
  Tick,         \* the timer's event
  Capacity,     \* INPUT_QUEUE_CAPACITY
  IPC_MAX_MSG,  \* slots of the message ring, one of which stays free
  Burst,        \* bound on the events that arrive between a look and a block
  MaxEvents,    \* bound on the events that the devices produce
  MaxLives      \* bound on the applications that use one thread slot

ASSUME FlowAssumption ==
  /\ Comp \notin Apps /\ Mortal \subseteq Apps
  /\ Capacity \in Nat /\ Burst \in 1 .. Capacity - 1
  /\ IPC_MAX_MSG \in Nat /\ IPC_MAX_MSG > 1
  /\ MaxLives \in Nat \ {0}
  /\ MaxEvents \in Nat /\ Tick \notin 1 .. MaxEvents

VARIABLES
  waiting, lost, taken,  \* the input queue; taken is the compositor's ev
  out, sent, got,        \* the message queue
  made,                  \* history: device events that were queued, numbered
  done,                  \* history: those that went no further than the compositor
  life,                  \* history: how many applications the slot has had
  run,                   \* g_threads[i].state
  pc                     \* where each thread is in its event loop

input == <<waiting, lost, taken>>
mail  == <<out, sent, got>>
vars  == <<input, mail, made, done, life, run, pc>>

Threads == Apps \union {Comp}

Input == INSTANCE InputFifo WITH
           Events <- {Tick} \union 1 .. MaxEvents, Wrap <- 1
Mail  == INSTANCE IpcMailbox WITH Payloads <- 1 .. MaxEvents, MaxSends <- MaxEvents

Init ==
  /\ Input!Init
  /\ Mail!Init
  /\ made = 0
  /\ done = {}
  /\ life = [a \in Apps |-> 1]
  /\ run = [t \in Threads |-> "READY"]
  /\ pc = [t \in Threads |-> "take"]

\* Mutant of WakeAll: only the compositor is woken.
WakeCompositor == run' = [run EXCEPT ![Comp] = "READY"]

\* sched_unblock_all.
WakeAll == run' = [t \in Threads |-> "READY"]

\* Between its look at an empty queue and its block the compositor is a few
\* instructions away from sleeping; the queue holds what came in meanwhile.
InTime == pc[Comp] = "block" => Len(waiting) < Burst

\* A slip, for Queue: nobody is woken.
QueueSilently(e) == InTime /\ (Input!Push(e) \/ Input!Drop) /\ UNCHANGED run

\* input_push: an accepted event wakes everybody, a refused one nobody.
Queue(e) ==
  /\ InTime
  /\ \/ Input!Push(e) /\ WakeAll
     \/ Input!Drop /\ UNCHANGED run

\* A keyboard or mouse interrupt.
Device ==
  /\ made < MaxEvents
  /\ Queue(made + 1)
  /\ made' = IF waiting' = waiting THEN made ELSE made + 1
  /\ UNCHANGED <<mail, done, life, pc>>

\* Mutant of HalfSecond: the timer queues nothing.
HalfSecondSilent == UNCHANGED vars

\* timer_handler, twice a second.
HalfSecond == Queue(Tick) /\ UNCHANGED <<mail, made, done, life, pc>>

Awake(t, p) == run[t] = "READY" /\ pc[t] = p
Goto(t, p)  == pc' = [pc EXCEPT ![t] = p]

\* wasi_input_poll_event in the compositor's loop.
Poll ==
  /\ Awake(Comp, "take")
  /\ \/ Input!Pop /\ Goto(Comp, "handle")
     \/ Input!Nothing /\ Goto(Comp, "look")
  /\ UNCHANGED <<mail, made, done, life, run>>

\* The compositor deals with the event itself.
Keep ==
  /\ Awake(Comp, "handle") /\ Goto(Comp, "take")
  /\ done' = done \union ({Head(taken)} \ {Tick})
  /\ UNCHANGED <<input, mail, made, life, run>>

\* It passes the event on, to the thread that owns the focused or the clicked
\* window.  It does not look at what woos_ipc_send returns.
Forward(a) ==
  /\ Awake(Comp, "handle") /\ Goto(Comp, "take")
  /\ Head(taken) # Tick
  /\ pc[a] # "gone"
  /\ IF Cardinality(out) < IPC_MAX_MSG - 1
     THEN /\ Mail!Send(Comp, a, Head(taken))
          /\ WakeAll
          /\ UNCHANGED done
     ELSE done' = done \union {Head(taken)} /\ UNCHANGED <<mail, run>>
  /\ UNCHANGED <<input, made, life>>

For(a) == {m \in out : m.dest = a}

\* Slips, for Receive: the message stays in the ring; any message is taken.
ReceiveCopy(a) ==
  /\ Awake(a, "take")
  /\ IF For(a) # {}
     THEN /\ \E m \in For(a) : got' = [got EXCEPT ![a] = Append(@, m)]
          /\ UNCHANGED <<out, sent, pc>>
     ELSE Goto(a, "look") /\ UNCHANGED mail
  /\ UNCHANGED <<input, made, done, life, run>>

ReceiveAny(a) ==
  /\ Awake(a, "take")
  /\ IF For(a) # {}
     THEN \E m \in For(a) :
            /\ got' = [got EXCEPT ![a] = Append(@, m)]
            /\ out' = out \ {m}
            /\ UNCHANGED <<sent, pc>>
     ELSE Goto(a, "look") /\ UNCHANGED mail
  /\ UNCHANGED <<input, made, done, life, run>>

\* wasi_ipc_recv in an application's loop.
Receive(a) ==
  /\ Awake(a, "take")
  /\ IF For(a) # {}
     THEN (\E m \in out : Mail!Recv(a, m)) /\ UNCHANGED pc
     ELSE Goto(a, "look") /\ UNCHANGED mail
  /\ UNCHANGED <<input, made, done, life, run>>

HasWork(t) == IF t = Comp THEN waiting # <<>> ELSE For(t) # {}

\* The wait call looks for work.
Look(t) ==
  /\ Awake(t, "look")
  /\ Goto(t, IF HasWork(t) THEN "take" ELSE "block")
  /\ UNCHANGED <<input, mail, made, done, life, run>>

\* sched_block_current.
Block(t) ==
  /\ Awake(t, "block") /\ Goto(t, "take")
  /\ run' = [run EXCEPT ![t] = "BLOCKED"]
  /\ UNCHANGED <<input, mail, made, done, life>>

\* An application returns: thread_exit closes its windows and wakes everybody.  What
\* the message queue holds for it stays there.
Exit(a) ==
  /\ a \in Mortal /\ life[a] < MaxLives
  /\ Awake(a, "take") /\ Goto(a, "gone")
  /\ WakeAll
  /\ UNCHANGED <<input, mail, made, done, life>>

\* thread_create gives the slot, and with it the thread id, to another application.
Relaunch(a) ==
  /\ pc[a] = "gone" /\ Goto(a, "take")
  /\ life' = [life EXCEPT ![a] = @ + 1]
  /\ run' = [run EXCEPT ![a] = "READY"]
  /\ UNCHANGED <<input, mail, made, done>>

Step(t) ==
  \/ t = Comp /\ (Poll \/ Keep \/ \E a \in Apps : Forward(a))
  \/ t \in Apps /\ Receive(t)
  \/ Look(t)
  \/ Block(t)

Next ==
  \/ Device \/ HalfSecond
  \/ \E t \in Threads : Step(t)
  \/ \E a \in Apps : Exit(a) \/ Relaunch(a)

Spec == Init /\ [][Next]_vars

(***************************************************************************)
(* Every thread that can run gets its turn, and the timer goes on.  The    *)
(* devices promise nothing: the last event may be the last for ever.       *)
(***************************************************************************)
FairSpec ==
  /\ Spec
  /\ \A t \in Threads : WF_vars(Step(t))
  /\ WF_vars(HalfSecond)

-------------------------------------------------------------------------------
TypeOK ==
  /\ waiting \in Seq({Tick} \union 1 .. MaxEvents) /\ Len(waiting) <= Capacity
  /\ out \subseteq Mail!Msg
  /\ made \in 0 .. MaxEvents
  /\ done \subseteq 1 .. MaxEvents
  /\ run \in [Threads -> {"READY", "BLOCKED"}]
  /\ pc \in [Threads -> {"take", "handle", "look", "block", "gone"}]
  /\ life \in [Apps -> 1 .. MaxLives]

\* The one state with no way out is a full input queue that the compositor sleeps
\* on: events are refused, and a refused event wakes nobody (input.c:47-51).
FullMeansAwake == Len(waiting) = Capacity => run[Comp] = "READY"

Got(a) == {got[a][i].body : i \in DOMAIN got[a]}
Under  == IF pc[Comp] = "handle" THEN {Head(taken)} \ {Tick} ELSE {}

\* From the interrupt handler to the application no event is lost or doubled: each
\* is in exactly one of the queues, the compositor's hands, or at its destination.
Accounted ==
  /\ TypeOK
  /\ LET queued == {waiting[i] : i \in DOMAIN waiting} \ {Tick}
         mailed == {m.body : m \in out}
         at     == <<queued, Under, mailed, done>> \o <<UNION {Got(a) : a \in Apps}>>
     IN  /\ UNION {at[i] : i \in DOMAIN at} = 1 .. made
         /\ \A i, j \in DOMAIN at : i # j => at[i] \intersect at[j] = {}

\* An application sees its events in the order in which the devices produced them.
InOrder ==
  \A a \in Apps : \A i, j \in DOMAIN got[a] : i < j => got[a][i].body < got[a][j].body

\* An event that was queued leaves the input queue, although the compositor may have
\* gone to sleep just after it came and no other event follows.
Handled ==
  \A n \in 1 .. MaxEvents : (\E i \in DOMAIN waiting : waiting[i] = n)
                             ~> ~ \E i \in DOMAIN waiting : waiting[i] = n

\* A message is received, although its addressee may have gone to sleep just after
\* it was sent.
Answered ==
  \A a \in Apps : \A n \in 1 .. MaxEvents :
    (\E m \in For(a) : m.body = n) ~> (n \in Got(a) \/ pc[a] = "gone")
===============================================================================
