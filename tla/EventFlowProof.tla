---------------------------- MODULE EventFlowProof ----------------------------
(***************************************************************************)
(* Proofs about the way of an input event, for any applications, queue     *)
(* sizes and number of events.                                             *)
(*                                                                         *)
(* Events are numbered as the devices produce them.  Everything rests on   *)
(* the observation that the numbers grow against the direction of flow:    *)
(* what the compositor has passed on is older than what it holds, and that *)
(* is older than what waits.                                               *)
(***************************************************************************)
EXTENDS EventFlow, SequenceTheorems, TLAPS

Event == {Tick} \union 1 .. MaxEvents
Place == {"take", "handle", "look", "block", "gone"}

Types ==
  /\ waiting \in Seq(Event) /\ Len(waiting) <= Capacity
  /\ taken \in Seq(Event) /\ (pc[Comp] = "handle" => taken # <<>>)
  /\ out \subseteq Mail!Msg
  /\ sent \in Nat
  /\ got \in [Threads -> Seq(Mail!Msg)]
  /\ made \in 0 .. MaxEvents
  /\ done \subseteq 1 .. MaxEvents
  /\ run \in [Threads -> {"READY", "BLOCKED"}]
  /\ pc \in [Threads -> Place]

\* A slot is given to another application only as long as MaxLives allows.
Lives ==
  /\ life \in [Apps -> 1 .. MaxLives]
  /\ \A a \in Apps : pc[a] = "gone" => life[a] < MaxLives

\* The compositor blocks on an almost empty queue, and what comes later wakes it.
AsleepMeansRoom ==
  (pc[Comp] = "block" \/ run[Comp] = "BLOCKED") => Len(waiting) <= Burst

\* The five places an event can be in.  Under is what the compositor holds.
Queued   == {waiting[i] : i \in DOMAIN waiting} \ {Tick}
Mailed   == {m.body : m \in out}
Received == UNION {Got(a) : a \in Apps}
Passed   == Mailed \union done \union Received

\* The numbers grow against the direction of flow.
FlowOrder ==
  /\ \A q \in Queued, u \in Under : u < q
  /\ \A p \in Passed : \A n \in Queued \union Under : p < n
  /\ \A i, j \in DOMAIN waiting :
       i < j /\ waiting[i] # Tick /\ waiting[j] # Tick => waiting[i] < waiting[j]

\* Every event is somewhere, and what was passed on is in one place.
Placed ==
  /\ Queued \union Under \union Passed = 1 .. made
  /\ Mailed \intersect done = {} /\ Mailed \intersect Received = {}
  /\ done \intersect Received = {}

\* The ring holds the messages in the order of their events, and what an application
\* has received is older than what waits for it.
MailOrder ==
  /\ \A m \in out : m.seq <= sent
  /\ \A m, n \in out : m.seq < n.seq => m.body < n.body
  /\ \A m, n \in out : m.seq = n.seq => m = n
  /\ \A a \in Apps : \A i \in DOMAIN got[a] : \A m \in out :
       m.dest = a => got[a][i].body < m.body

Order == FlowOrder /\ Placed /\ MailOrder /\ InOrder
Inv   == Types /\ Lives /\ AsleepMeansRoom /\ Order

-------------------------------------------------------------------------------
\* input_push either appends the event and wakes everybody or changes nothing that
\* anybody but the drop counter sees.
LEMMA QueueDoes ==
  ASSUME Types, NEW e \in Event, Queue(e)
  PROVE  /\ taken' = taken
         /\ pc[Comp] = "block" => Len(waiting) < Burst
         /\ waiting' \in Seq(Event) /\ Len(waiting') <= Capacity
         /\ run' \in [Threads -> {"READY", "BLOCKED"}]
         /\ \/ /\ waiting' = Append(waiting, e) /\ Len(waiting') = Len(waiting) + 1
               /\ run' = [t \in Threads |-> "READY"]
            \/ waiting' = waiting /\ run' = run
<1>1. Len(waiting) \in Nat /\ Capacity \in Nat
  BY LenProperties, FlowAssumption DEF Types
<1>2. taken' = taken /\ (pc[Comp] = "block" => Len(waiting) < Burst)
  BY DEF Queue, InTime, Input!Push, Input!Drop
<1>3. CASE Input!Push(e) /\ WakeAll
  <2>1. Len(waiting) < Capacity /\ waiting' = Append(waiting, e)
    BY <1>3 DEF Input!Push
  <2>2. waiting' \in Seq(Event) /\ Len(waiting') = Len(waiting) + 1
    BY <2>1, AppendProperties DEF Types
  <2>3. run' = [t \in Threads |-> "READY"]
    BY <1>3 DEF WakeAll
  <2> QED BY <1>1, <1>2, <2>1, <2>2, <2>3
<1>4. CASE Input!Drop /\ UNCHANGED run
  BY <1>2, <1>4 DEF Input!Drop, Types
<1> QED BY <1>3, <1>4 DEF Queue

\* wasi_input_poll_event takes the oldest event or finds the queue empty.
LEMMA PollDoes ==
  ASSUME Types, Poll
  PROVE  /\ pc[Comp] = "take" /\ run[Comp] = "READY"
         /\ waiting' \in Seq(Event) /\ taken' \in Seq(Event)
         /\ pc' \in [Threads -> Place]
         /\ \/ /\ waiting # <<>> /\ waiting' = Tail(waiting) /\ pc'[Comp] = "handle"
               /\ taken' # <<>> /\ Head(taken') = Head(waiting)
               /\ Len(waiting') = Len(waiting) - 1
            \/ waiting' = waiting /\ pc'[Comp] = "look"
<1>1. Comp \in Threads
  BY DEF Threads
<1>2. pc[Comp] = "take" /\ run[Comp] = "READY"
  BY DEF Poll, Awake
<1>3. CASE Input!Pop /\ Goto(Comp, "handle")
  <2>1. waiting # <<>> /\ waiting' = Tail(waiting) /\ taken' = <<Head(waiting)>>
    BY <1>3 DEF Input!Pop
  <2>2. /\ Head(waiting) \in Event /\ Tail(waiting) \in Seq(Event)
        /\ Len(Tail(waiting)) = Len(waiting) - 1
    BY <2>1, HeadTailProperties DEF Types
  <2>3. taken' \in Seq(Event) /\ taken' # <<>> /\ Head(taken') = Head(waiting)
    BY <2>1, <2>2
  <2>4. pc' \in [Threads -> Place] /\ pc'[Comp] = "handle"
    BY <1>1, <1>3 DEF Goto, Types, Place
  <2> QED BY <1>2, <2>1, <2>2, <2>3, <2>4
<1>4. CASE Input!Nothing /\ Goto(Comp, "look")
  <2>1. pc' \in [Threads -> Place] /\ pc'[Comp] = "look"
    BY <1>1, <1>4 DEF Goto, Types, Place
  <2>2. waiting' = waiting /\ taken' = <<>>
    BY <1>4 DEF Input!Nothing
  <2> QED BY <1>2, <2>1, <2>2, EmptySeq DEF Types
<1> QED BY <1>3, <1>4 DEF Poll

\* The message that passes the event in the compositor's hands on to a.
Letter(a) == [sender |-> Comp, dest |-> a, body |-> Head(taken), seq |-> sent + 1]

\* woos_ipc_send accepts the event for a or finds the ring full.
LEMMA ForwardDoes ==
  ASSUME Types, NEW a \in Apps, Forward(a)
  PROVE  /\ Head(taken) \in 1 .. MaxEvents /\ Under = {Head(taken)}
         /\ pc[Comp] = "handle" /\ run[Comp] = "READY"
         /\ pc' \in [Threads -> Place] /\ pc'[Comp] = "take"
         /\ run' \in [Threads -> {"READY", "BLOCKED"}] /\ run'[Comp] = "READY"
         /\ sent' \in Nat /\ got' = got
         /\ \/ /\ Letter(a) \in Mail!Msg /\ out' = out \union {Letter(a)}
               /\ sent' = sent + 1 /\ done' = done
            \/ /\ out' = out /\ sent' = sent
               /\ done' = done \union {Head(taken)}
<1>1. a \in Threads /\ Comp \in Threads
  BY DEF Threads
<1>2. pc[Comp] = "handle" /\ run[Comp] = "READY" /\ Head(taken) # Tick
  BY DEF Forward, Awake
<1>3. Head(taken) \in Event
  BY <1>2, HeadTailProperties DEF Types
<1>4. Head(taken) \in 1 .. MaxEvents /\ Under = {Head(taken)}
  BY <1>2, <1>3 DEF Event, Under
<1>5. pc' \in [Threads -> Place] /\ pc'[Comp] = "take"
  BY <1>1 DEF Forward, Goto, Types, Place
<1>6. CASE Mail!Send(Comp, a, Head(taken)) /\ WakeAll /\ UNCHANGED done
  <2>1. /\ sent < MaxEvents /\ sent' = sent + 1 /\ got' = got
        /\ out' = out \union {Letter(a)}
    BY <1>6 DEF Mail!Send, Letter
  <2>2. sent \in Nat /\ MaxEvents \in Nat
    BY FlowAssumption DEF Types
  <2>3. sent + 1 \in 1 .. MaxEvents /\ sent' \in Nat
    BY <2>1, <2>2
  <2>4. Letter(a) \in Mail!Msg
    BY <1>1, <1>4, <2>3 DEF Mail!Msg, Letter
  <2>5. run' \in [Threads -> {"READY", "BLOCKED"}] /\ run'[Comp] = "READY"
    BY <1>1, <1>6 DEF WakeAll
  <2> QED BY <1>2, <1>4, <1>5, <1>6, <2>1, <2>3, <2>4, <2>5
<1>7. CASE done' = done \union {Head(taken)} /\ UNCHANGED <<mail, run>>
  BY <1>2, <1>4, <1>5, <1>7 DEF mail, Types
<1> QED BY <1>6, <1>7 DEF Forward

\* wasi_ipc_recv takes a message or finds none.
LEMMA ReceiveDoes ==
  ASSUME Types, NEW a \in Apps, Receive(a)
  PROVE  /\ sent' = sent /\ pc' \in [Threads -> Place] /\ pc'[Comp] = pc[Comp]
         /\ got' \in [Threads -> Seq(Mail!Msg)]
         /\ \/ \E m \in out :
                 /\ m.dest = a /\ (\A o \in out : o.dest = a => m.seq <= o.seq)
                 /\ out' = out \ {m}
                 /\ got' = [got EXCEPT ![a] = Append(@, m)]
            \/ out' = out /\ got' = got
<1>1. a \in Threads /\ a # Comp /\ Comp \in Threads
  BY FlowAssumption DEF Threads
<1>2. CASE (\E m \in out : Mail!Recv(a, m)) /\ UNCHANGED pc
  <2>1. PICK m \in out : Mail!Recv(a, m)
    BY <1>2
  <2>2. /\ m.dest = a /\ (\A o \in out : o.dest = a => m.seq <= o.seq)
        /\ out' = out \ {m} /\ sent' = sent
        /\ got' = [got EXCEPT ![a] = Append(@, m)]
    BY <2>1 DEF Mail!Recv
  <2>3. Append(got[a], m) \in Seq(Mail!Msg)
    BY <1>1, AppendProperties DEF Types
  <2>4. got' \in [Threads -> Seq(Mail!Msg)]
    BY <1>1, <2>2, <2>3 DEF Types
  <2> QED BY <1>2, <2>2, <2>4 DEF Types
<1>3. CASE Goto(a, "look") /\ UNCHANGED mail
  BY <1>1, <1>3 DEF Goto, mail, Types, Place
<1> QED BY <1>2, <1>3 DEF Receive

\* Nothing has happened and nobody sleeps.
LEMMA Initially == Init => Inv
<1> SUFFICES ASSUME Init PROVE Inv
  OBVIOUS
<1> USE FlowAssumption DEF Init, Input!Init, Mail!Init
<1>1. Types /\ Lives
  BY DEF Types, Lives, Event, Place, Threads
<1>2. AsleepMeansRoom
  BY DEF AsleepMeansRoom, Threads
<1>3. \A a \in Apps : got[a] = <<>> /\ Got(a) = {}
  BY DEF Threads, Got
<1>4. Under = {} /\ Queued = {} /\ Mailed = {} /\ Received = {} /\ Passed = {}
  BY <1>3 DEF Under, Threads, Queued, Mailed, Received, Passed
<1>5. FlowOrder /\ Placed
  BY <1>4 DEF FlowOrder, Placed
<1>6. MailOrder /\ InOrder
  BY <1>3 DEF MailOrder, InOrder
<1> QED BY <1>1, <1>2, <1>5, <1>6 DEF Inv, Order

-------------------------------------------------------------------------------
\* The steps one by one: types, and the compositor asleep on an almost empty queue.
Basic == Types /\ AsleepMeansRoom

\* A device pushes an event and wakes everybody.
LEMMA DeviceKeepsBasic == ASSUME Basic, Device PROVE Basic'
<1>1. made + 1 \in Event /\ made < MaxEvents
  BY FlowAssumption DEF Basic, Types, Device, Event
<1>2. Queue(made + 1) /\ Types
  BY DEF Device, Basic
<1>3. made' \in 0 .. MaxEvents
  BY <1>1, <1>2, FlowAssumption DEF Types, Device
<1>4. Types'
  BY <1>1, <1>2, <1>3, QueueDoes DEF Device, Types, mail
<1>5. AsleepMeansRoom'
  <2>1. pc' = pc /\ Comp \in Threads /\ Len(waiting) \in Nat
    BY LenProperties DEF Device, Threads, Basic, Types
  <2> QED BY <1>1, <1>2, <2>1, QueueDoes, FlowAssumption DEF Basic, AsleepMeansRoom
<1> QED BY <1>4, <1>5 DEF Basic

\* The timer pushes its event, or finds the queue full.
LEMMA HalfSecondKeepsBasic == ASSUME Basic, HalfSecond PROVE Basic'
<1>1. Tick \in Event
  BY DEF Event
<1>2. Queue(Tick) /\ Types
  BY DEF HalfSecond, Basic
<1>3. made' \in 0 .. MaxEvents
  BY <1>1, <1>2, FlowAssumption DEF Types, HalfSecond
<1>4. Types'
  BY <1>1, <1>2, <1>3, QueueDoes DEF HalfSecond, Types, mail
<1>5. AsleepMeansRoom'
  <2>1. pc' = pc /\ Comp \in Threads /\ Len(waiting) \in Nat
    BY LenProperties DEF HalfSecond, Threads, Basic, Types
  <2> QED BY <1>1, <1>2, <2>1, QueueDoes, FlowAssumption DEF Basic, AsleepMeansRoom
<1> QED BY <1>4, <1>5 DEF Basic

\* The compositor takes an event.
LEMMA PollKeepsBasic == ASSUME Basic, Poll PROVE Basic'
<1>1. UNCHANGED <<out, sent, got, made, done, run>>
  BY DEF Poll, mail
<1>2. Types /\ Len(waiting) \in Nat /\ Capacity \in Nat
  BY LenProperties, FlowAssumption DEF Basic, Types
<1>3. Types'
  BY <1>1, <1>2, PollDoes DEF Types
<1>4. AsleepMeansRoom'
  BY <1>1, <1>2, PollDoes DEF AsleepMeansRoom
<1> QED BY <1>3, <1>4 DEF Basic

\* The compositor keeps the event it took.
LEMMA KeepKeepsBasic == ASSUME Basic, Keep PROVE Basic'
<1> USE FlowAssumption DEF Keep, Basic, Goto, mail, input
<1>1. Head(taken) \in Event
  BY DEF Types, Awake
<1>2. Types'
  BY <1>1 DEF Types, Event, Place, Mail!Msg, Threads
<1>3. AsleepMeansRoom'
  BY DEF Types, Awake, AsleepMeansRoom, Threads
<1> QED BY <1>2, <1>3

\* The compositor sends the event on to a program.
LEMMA ForwardKeepsBasic == ASSUME Basic, NEW a \in Apps, Forward(a) PROVE Basic'
<1>1. UNCHANGED <<waiting, taken, made>> /\ Types
  BY DEF Forward, input, Basic
<1>2. out' \subseteq Mail!Msg /\ done' \subseteq 1 .. MaxEvents
  BY <1>1, ForwardDoes DEF Types
<1>3. Types'
  BY <1>1, <1>2, ForwardDoes DEF Types
<1>4. AsleepMeansRoom'
  BY <1>1, ForwardDoes DEF AsleepMeansRoom
<1> QED BY <1>3, <1>4 DEF Basic

\* A program takes a message.
LEMMA ReceiveKeepsBasic == ASSUME Basic, NEW a \in Apps, Receive(a) PROVE Basic'
<1>1. UNCHANGED <<waiting, taken, made, done, run>> /\ Types
  BY DEF Receive, input, Basic
<1>2. out' \subseteq Mail!Msg
  BY <1>1, ReceiveDoes DEF Types
<1>3. Types'
  BY <1>1, <1>2, ReceiveDoes DEF Types
<1>4. AsleepMeansRoom'
  BY <1>1, ReceiveDoes DEF Basic, AsleepMeansRoom
<1> QED BY <1>3, <1>4 DEF Basic

\* A thread about to wait looks for work first.
LEMMA LookKeepsBasic == ASSUME Basic, NEW t \in Threads, Look(t) PROVE Basic'
<1> USE FlowAssumption DEF Look, Basic, Goto, mail, input, Awake
<1>1. Types'
  BY DEF Types, Place, HasWork
<1>2. AsleepMeansRoom'
  BY DEF Types, AsleepMeansRoom, HasWork, Threads
<1> QED BY <1>1, <1>2

\* A thread that found none sleeps.
LEMMA BlockKeepsBasic == ASSUME Basic, NEW t \in Threads, Block(t) PROVE Basic'
BY FlowAssumption
   DEF Block, Basic, Goto, mail, input, Awake, Types, Place, AsleepMeansRoom, Threads

\* A program ends.
LEMMA ExitKeepsBasic == ASSUME Basic, NEW a \in Apps, Exit(a) PROVE Basic'
<1>1. a \in Threads /\ a # Comp /\ Comp \in Threads
  BY FlowAssumption DEF Threads
<1>2. pc' \in [Threads -> Place] /\ pc'[Comp] = pc[Comp]
  BY <1>1 DEF Exit, Goto, Basic, Types, Place
<1>3. run' \in [Threads -> {"READY", "BLOCKED"}] /\ run'[Comp] = "READY"
  BY <1>1 DEF Exit, WakeAll
<1>4. UNCHANGED <<waiting, taken, out, sent, got, made, done>>
  BY DEF Exit, input, mail
<1> QED BY <1>2, <1>3, <1>4 DEF Basic, Types, AsleepMeansRoom

\* A program is started in the slot of one that ended.
LEMMA RelaunchKeepsBasic == ASSUME Basic, NEW a \in Apps, Relaunch(a) PROVE Basic'
<1>1. a \in Threads /\ a # Comp /\ Comp \in Threads
  BY FlowAssumption DEF Threads
<1>2. pc' \in [Threads -> Place] /\ pc'[Comp] = pc[Comp]
  BY <1>1 DEF Relaunch, Goto, Basic, Types, Place
<1>3. run' \in [Threads -> {"READY", "BLOCKED"}] /\ run'[Comp] = run[Comp]
  BY <1>1 DEF Relaunch, Basic, Types
<1>4. UNCHANGED <<waiting, taken, out, sent, got, made, done>>
  BY DEF Relaunch, input, mail
<1> QED BY <1>2, <1>3, <1>4 DEF Basic, Types, AsleepMeansRoom

\* One step of the system, of whatever kind, keeps types and sleep.
LEMMA BasicStep == ASSUME Basic, [Next]_vars PROVE Basic'
<1>1. CASE Device
  BY <1>1, DeviceKeepsBasic
<1>2. CASE HalfSecond
  BY <1>2, HalfSecondKeepsBasic
<1>3. ASSUME NEW t \in Threads, Step(t) PROVE Basic'
  BY <1>3, PollKeepsBasic, KeepKeepsBasic, ForwardKeepsBasic, ReceiveKeepsBasic,
     LookKeepsBasic, BlockKeepsBasic DEF Step
<1>4. ASSUME NEW a \in Apps, Exit(a) \/ Relaunch(a) PROVE Basic'
  BY <1>4, ExitKeepsBasic, RelaunchKeepsBasic
<1>5. CASE UNCHANGED vars
  BY <1>5 DEF vars, input, mail, Basic, Types, AsleepMeansRoom
<1> QED BY <1>1, <1>2, <1>3, <1>4, <1>5 DEF Next

\* A slot whose program ended has a life left.
LEMMA LivesStep == ASSUME Types, Lives, [Next]_vars PROVE Lives'
<1>1. CASE UNCHANGED <<life, pc>>
  BY <1>1 DEF Lives
<1>2. ASSUME NEW t \in Threads, NEW p \in Place \ {"gone"}, Goto(t, p), UNCHANGED life
      PROVE  Lives'
  BY <1>2 DEF Goto, Lives, Types, Threads
<1>3. ASSUME NEW t \in Threads, Step(t) PROVE Lives'
  <2>1. Comp \in Threads /\ {"take", "handle", "look", "block"} \subseteq Place \ {"gone"}
    BY DEF Threads, Place
  <2>2. CASE Poll
    BY <1>2, <2>1, <2>2 DEF Poll
  <2>3. CASE Keep
    BY <1>2, <2>1, <2>3 DEF Keep
  <2>4. ASSUME NEW a \in Apps, Forward(a) PROVE Lives'
    BY <1>2, <2>1, <2>4 DEF Forward
  <2>5. CASE Receive(t)
    BY <1>1, <1>2, <2>1, <2>5 DEF Receive
  <2>6. CASE Look(t)
    BY <1>2, <2>1, <2>6 DEF Look
  <2>7. CASE Block(t)
    BY <1>2, <2>1, <2>7 DEF Block
  <2> QED BY <1>3, <2>2, <2>3, <2>4, <2>5, <2>6, <2>7 DEF Step
<1>4. ASSUME NEW a \in Apps, Exit(a) PROVE Lives'
  BY <1>4 DEF Exit, Goto, Lives, Types, Threads
<1>5. ASSUME NEW a \in Apps, Relaunch(a) PROVE Lives'
  <2>1. /\ pc[a] = "gone" /\ pc' = [pc EXCEPT ![a] = "take"]
        /\ life' = [life EXCEPT ![a] = life[a] + 1]
    BY <1>5 DEF Relaunch, Goto
  <2>2. life[a] + 1 \in 1 .. MaxLives
    BY <2>1, FlowAssumption DEF Lives
  <2> QED BY <2>1, <2>2 DEF Lives, Types, Threads
<1> QED BY <1>1, <1>3, <1>4, <1>5 DEF Next, Device, HalfSecond, vars

-------------------------------------------------------------------------------
\* The order of events.  A step that moves none of them keeps it.
LEMMA QuietKeepsOrder ==
  ASSUME Order, UNCHANGED <<waiting, out, sent, got, made, done>>, Under' = Under
  PROVE  Order'
<1>1. Queued' = Queued /\ Passed' = Passed /\ Mailed' = Mailed /\ Received' = Received
  BY DEF Queued, Passed, Mailed, Received, Got
<1>2. FlowOrder' /\ Placed'
  BY <1>1 DEF Order, FlowOrder, Placed
<1>3. MailOrder' /\ InOrder'
  BY DEF Order, MailOrder, InOrder
<1> QED BY <1>2, <1>3 DEF Order

\* What the compositor holds changes only when it takes an event or is done with it.
LEMMA SameHands ==
  ASSUME \/ taken' = taken /\ pc'[Comp] = pc[Comp]
         \/ pc[Comp] # "handle" /\ pc'[Comp] # "handle"
  PROVE  Under' = Under
BY DEF Under

\* Numbers.
LEMMA Numbers ==
  ASSUME Types, Placed
  PROVE  /\ made \in Nat /\ Queued \union Under \union Passed \subseteq 1 .. made
         /\ \A n \in Queued \union Under \union Passed : n \in Int /\ n >= 1 /\ n <= made
         /\ Len(waiting) \in Nat /\ DOMAIN waiting = 1 .. Len(waiting)
         /\ \A i \in DOMAIN waiting : waiting[i] # Tick => waiting[i] \in Queued
<1>1. made \in Nat
  BY FlowAssumption DEF Types
<1>2. Queued \union Under \union Passed \subseteq 1 .. made
  BY DEF Placed
<1>3. Len(waiting) \in Nat /\ DOMAIN waiting = 1 .. Len(waiting)
  BY LenProperties DEF Types
<1> QED BY <1>1, <1>2, <1>3 DEF Queued

\* The timer's event has no number.
LEMMA TickKeepsOrder ==
  ASSUME Types, Order, waiting' = Append(waiting, Tick), Under' = Under,
         UNCHANGED <<out, sent, got, made, done>>
  PROVE  Order'
<1>1. /\ Len(waiting) \in Nat /\ DOMAIN waiting = 1 .. Len(waiting)
      /\ DOMAIN waiting' = 1 .. Len(waiting) + 1
      /\ \A i \in 1 .. Len(waiting) : waiting'[i] = waiting[i]
      /\ waiting'[Len(waiting) + 1] = Tick
  BY LenProperties, AppendProperties DEF Types, Event
<1>2. Queued' = Queued
  BY <1>1 DEF Queued
<1>3. Passed' = Passed /\ Mailed' = Mailed /\ Received' = Received
  BY DEF Passed, Mailed, Received, Got
<1>4. FlowOrder'
  BY <1>1, <1>2, <1>3 DEF Order, FlowOrder
<1>5. Placed' /\ MailOrder' /\ InOrder'
  BY <1>2, <1>3 DEF Order, Placed, MailOrder, InOrder
<1> QED BY <1>4, <1>5 DEF Order

\* A device's event has the highest number.
LEMMA DeviceKeepsOrder ==
  ASSUME Types, Order, waiting' = Append(waiting, made + 1), made + 1 \in 1 .. MaxEvents,
         made' = made + 1, Under' = Under, UNCHANGED <<out, sent, got, done>>
  PROVE  Order'
<1>1. /\ Len(waiting) \in Nat /\ DOMAIN waiting = 1 .. Len(waiting)
      /\ DOMAIN waiting' = 1 .. Len(waiting) + 1
      /\ \A i \in 1 .. Len(waiting) : waiting'[i] = waiting[i]
      /\ waiting'[Len(waiting) + 1] = made + 1
  BY LenProperties, AppendProperties DEF Types, Event
<1>2. Queued' = Queued \union {made + 1}
  BY <1>1, FlowAssumption DEF Queued
<1>3. Passed' = Passed /\ Mailed' = Mailed /\ Received' = Received
  BY DEF Passed, Mailed, Received, Got
<1>4. /\ made \in Nat
      /\ \A n \in Queued \union Under \union Passed : n \in Int /\ n < made + 1
      /\ \A i \in DOMAIN waiting : waiting[i] # Tick => waiting[i] < made + 1
  BY Numbers DEF Order
<1>5. FlowOrder'
  <2>1. \A q \in Queued', u \in Under' : u < q
    BY <1>2, <1>4 DEF Order, FlowOrder
  <2>2. \A x \in Passed' : \A n \in Queued' \union Under' : x < n
    BY <1>2, <1>3, <1>4 DEF Order, FlowOrder
  <2>3. \A i, j \in DOMAIN waiting' :
          i < j /\ waiting'[i] # Tick /\ waiting'[j] # Tick => waiting'[i] < waiting'[j]
    BY <1>1, <1>4 DEF Order, FlowOrder
  <2> QED BY <2>1, <2>2, <2>3 DEF FlowOrder
<1>6. Placed'
  <2>1. 1 .. made + 1 = (1 .. made) \union {made + 1}
    BY <1>4
  <2> QED BY <1>2, <1>3, <2>1 DEF Order, Placed
<1>7. MailOrder' /\ InOrder'
  BY DEF Order, MailOrder, InOrder
<1> QED BY <1>5, <1>6, <1>7 DEF Order

\* The oldest event moves from the queue into the compositor's hands.
LEMMA PopKeepsOrder ==
  ASSUME Types, Order, waiting # <<>>, waiting' = Tail(waiting), pc[Comp] # "handle",
         pc'[Comp] = "handle", Head(taken') = Head(waiting),
         UNCHANGED <<out, sent, got, made, done>>
  PROVE  Order'
<1>1. /\ Len(waiting) \in Nat \ {0} /\ DOMAIN waiting = 1 .. Len(waiting)
      /\ DOMAIN waiting' = 1 .. Len(waiting) - 1 /\ Head(waiting) = waiting[1]
      /\ \A i \in 1 .. Len(waiting) - 1 : waiting'[i] = waiting[i + 1]
  <2>1. Len(waiting) \in Nat \ {0} /\ DOMAIN waiting = 1 .. Len(waiting)
    BY LenProperties, EmptySeq DEF Types
  <2>2. waiting' \in Seq(Event) /\ Len(waiting') = Len(waiting) - 1
    BY HeadTailProperties DEF Types
  <2> QED BY <2>1, <2>2, LenProperties, HeadTailProperties DEF Types
<1>2. Under = {} /\ Under' = {waiting[1]} \ {Tick}
  BY <1>1 DEF Under
<1>3. Queued = Queued' \union Under'
  <2>1. \A i \in DOMAIN waiting : i = 1 \/ (i - 1 \in DOMAIN waiting' /\ waiting[i] = waiting'[i - 1])
    BY <1>1
  <2>2. Queued \subseteq Queued' \union Under'
    BY <1>2, <2>1 DEF Queued
  <2>3. \A i \in DOMAIN waiting' : i + 1 \in DOMAIN waiting /\ waiting'[i] = waiting[i + 1]
    BY <1>1
  <2>4. Queued' \union Under' \subseteq Queued
    BY <1>1, <1>2, <2>3 DEF Queued
  <2> QED BY <2>2, <2>4
<1>4. Passed' = Passed /\ Mailed' = Mailed /\ Received' = Received
  BY DEF Passed, Mailed, Received, Got
<1>5. FlowOrder'
  <2>1. \A q \in Queued', u \in Under' : u < q
    <3> SUFFICES ASSUME NEW q \in Queued', NEW u \in Under' PROVE u < q
      OBVIOUS
    <3>1. PICK j \in DOMAIN waiting' : waiting'[j] = q
      BY DEF Queued
    <3>2. /\ 1 \in DOMAIN waiting /\ j + 1 \in DOMAIN waiting /\ 1 < j + 1
          /\ waiting[1] = u /\ waiting[j + 1] = q /\ q # Tick /\ u # Tick
      BY <1>1, <1>2, <3>1 DEF Queued
    <3> QED BY <3>2 DEF Order, FlowOrder
  <2>2. \A x \in Passed' : \A n \in Queued' \union Under' : x < n
    BY <1>2, <1>3, <1>4 DEF Order, FlowOrder
  <2>3. \A i, j \in DOMAIN waiting' :
          i < j /\ waiting'[i] # Tick /\ waiting'[j] # Tick => waiting'[i] < waiting'[j]
    <3> SUFFICES ASSUME NEW i \in DOMAIN waiting', NEW j \in DOMAIN waiting',
                        i < j, waiting'[i] # Tick, waiting'[j] # Tick
                 PROVE  waiting'[i] < waiting'[j]
      OBVIOUS
    <3>1. /\ i + 1 \in DOMAIN waiting /\ j + 1 \in DOMAIN waiting /\ i + 1 < j + 1
          /\ waiting[i + 1] = waiting'[i] /\ waiting[j + 1] = waiting'[j]
      BY <1>1
    <3> QED BY <3>1 DEF Order, FlowOrder
  <2> QED BY <2>1, <2>2, <2>3 DEF FlowOrder
<1>6. Placed'
  BY <1>2, <1>3, <1>4 DEF Order, Placed
<1>7. MailOrder' /\ InOrder'
  BY DEF Order, MailOrder, InOrder
<1> QED BY <1>5, <1>6, <1>7 DEF Order

\* The compositor is done with the event: it kept it, or found the ring full.
LEMMA DoneKeepsOrder ==
  ASSUME Types, Order, done' = done \union Under, Under' = {},
         UNCHANGED <<waiting, out, sent, got, made>>
  PROVE  Order'
<1>1. Queued' = Queued /\ Mailed' = Mailed /\ Received' = Received
  BY DEF Queued, Mailed, Received, Got
<1>2. Passed' = Passed \union Under
  BY <1>1 DEF Passed
<1>3. FlowOrder'
  BY <1>1, <1>2 DEF Order, FlowOrder
<1>4. Under \intersect Passed = {}
  BY Numbers DEF Order, FlowOrder
<1>5. Placed'
  BY <1>1, <1>2, <1>4 DEF Order, Placed, Passed
<1>6. MailOrder' /\ InOrder'
  BY DEF Order, MailOrder, InOrder
<1> QED BY <1>3, <1>5, <1>6 DEF Order

\* The event goes into the ring, behind all that is there.
LEMMA SendKeepsOrder ==
  ASSUME Types, Order, NEW m \in Mail!Msg, m.seq = sent + 1, Under = {m.body}, Under' = {},
         out' = out \union {m}, sent' = sent + 1, UNCHANGED <<waiting, got, made, done>>
  PROVE  Order'
<1>1. Queued' = Queued /\ Received' = Received
  BY DEF Queued, Received, Got
<1>2. Mailed' = Mailed \union Under /\ Passed' = Passed \union Under
  BY <1>1 DEF Passed, Mailed
<1>3. FlowOrder'
  BY <1>1, <1>2 DEF Order, FlowOrder
<1>4. Under \intersect Passed = {}
  BY Numbers DEF Order, FlowOrder
<1>5. Placed'
  BY <1>1, <1>2, <1>4 DEF Order, Placed, Passed
<1>6. \A o \in out : o.body < m.body /\ o.seq <= sent
  BY DEF Order, FlowOrder, MailOrder, Passed, Mailed
<1>7. \A a \in Apps : \A i \in DOMAIN got[a] : got[a][i].body < m.body
  BY DEF Order, FlowOrder, Passed, Received, Got
<1>8. sent \in Nat /\ \A o \in out : o.seq \in Nat
  BY DEF Types, Mail!Msg
<1>9. MailOrder'
  BY <1>6, <1>7, <1>8 DEF Order, MailOrder
<1>10. InOrder'
  BY DEF Order, InOrder
<1> QED BY <1>3, <1>5, <1>9, <1>10 DEF Order

\* The oldest message for a moves from the ring to a.
LEMMA RecvKeepsOrder ==
  ASSUME Types, Order, NEW a \in Apps, NEW m \in out, m.dest = a,
         \A o \in out : o.dest = a => m.seq <= o.seq,
         out' = out \ {m}, got' = [got EXCEPT ![a] = Append(@, m)],
         Under' = Under, UNCHANGED <<waiting, sent, made, done>>
  PROVE  Order'
<1>1. a \in Threads /\ Apps \subseteq Threads /\ m \in Mail!Msg
  BY DEF Threads, Types
<1>2. /\ DOMAIN got[a] = 1 .. Len(got[a]) /\ Len(got[a]) \in Nat
      /\ DOMAIN got'[a] = 1 .. Len(got[a]) + 1
      /\ \A i \in 1 .. Len(got[a]) : got'[a][i] = got[a][i]
      /\ got'[a][Len(got[a]) + 1] = m
      /\ \A b \in Apps \ {a} : got'[b] = got[b]
  <2>1. got[a] \in Seq(Mail!Msg) /\ got'[a] = Append(got[a], m)
    BY <1>1 DEF Types
  <2>2. \A b \in Apps \ {a} : got'[b] = got[b]
    BY <1>1 DEF Types
  <2> QED BY <1>1, <2>1, <2>2, LenProperties, AppendProperties
<1>3. Got(a)' = Got(a) \union {m.body} /\ \A b \in Apps \ {a} : Got(b)' = Got(b)
  BY <1>2 DEF Got
<1>4. Received' = Received \union {m.body}
  BY <1>3 DEF Received
<1>5. \A o \in out : o.seq \in Nat /\ o.body \in Nat
  BY FlowAssumption DEF Types, Mail!Msg
<1>6. \A o \in out : o.body = m.body => o = m
  BY <1>5 DEF Order, MailOrder
<1>7. Mailed = Mailed' \union {m.body} /\ m.body \notin Mailed'
  BY <1>6 DEF Mailed
<1>8. Queued' = Queued /\ Passed' = Passed
  BY <1>4, <1>7 DEF Queued, Passed
<1>9. FlowOrder' /\ Placed'
  BY <1>4, <1>7, <1>8 DEF Order, FlowOrder, Placed
<1>10. \A o \in out \ {m} : o.dest = a => m.body < o.body
  BY <1>5 DEF Order, MailOrder
<1>11. MailOrder'
  BY <1>1, <1>2, <1>10 DEF Order, MailOrder
<1>12. InOrder'
  BY <1>1, <1>2 DEF Order, MailOrder, InOrder
<1> QED BY <1>9, <1>11, <1>12 DEF Order

\* Every step keeps the order of the events on their way.
LEMMA OrderStep == ASSUME Inv, [Next]_vars PROVE Order'
<1>1. Types /\ Order /\ Comp \in Threads /\ (\A a \in Apps : a \in Threads /\ a # Comp)
  BY FlowAssumption DEF Inv, Threads
<1>2. CASE Device
  <2>1. made + 1 \in 1 .. MaxEvents /\ made + 1 \in Event /\ Queue(made + 1)
    BY <1>1, <1>2, FlowAssumption DEF Device, Types, Event
  <2>2. UNCHANGED <<out, sent, got, done>> /\ Under' = Under
    BY <1>1, <1>2, <2>1, QueueDoes, SameHands DEF Device, mail
  <2>3. CASE waiting' = waiting
    BY <1>1, <1>2, <2>2, <2>3, QuietKeepsOrder DEF Device
  <2>4. CASE waiting' = Append(waiting, made + 1) /\ Len(waiting') = Len(waiting) + 1
    <3>1. waiting' # waiting
      BY <1>1, <2>4, LenProperties DEF Types
    <3> QED BY <1>1, <1>2, <2>1, <2>2, <2>4, <3>1, DeviceKeepsOrder DEF Device
  <2> QED BY <1>1, <2>1, <2>3, <2>4, QueueDoes
<1>3. CASE HalfSecond
  <2>1. Tick \in Event /\ Queue(Tick)
    BY <1>3 DEF HalfSecond, Event
  <2>2. UNCHANGED <<out, sent, got, made, done>> /\ Under' = Under
    BY <1>1, <1>3, <2>1, QueueDoes, SameHands DEF HalfSecond, mail
  <2> QED BY <1>1, <2>1, <2>2, QueueDoes, QuietKeepsOrder, TickKeepsOrder
<1>4. CASE Poll
  <2>1. UNCHANGED <<out, sent, got, made, done>>
    BY <1>4 DEF Poll, mail
  <2>2. CASE waiting' = waiting /\ pc'[Comp] = "look"
    <3>1. Under' = Under
      BY <1>1, <1>4, <2>2, PollDoes, SameHands
    <3> QED BY <1>1, <2>1, <2>2, <3>1, QuietKeepsOrder
  <2> QED BY <1>1, <1>4, <2>1, <2>2, PollDoes, PopKeepsOrder
<1>5. CASE Keep
  <2>1. done' = done \union Under /\ UNCHANGED <<waiting, out, sent, got, made>>
    BY <1>5 DEF Keep, Awake, Under, input, mail
  <2>2. Under' = {}
    BY <1>1, <1>5 DEF Keep, Goto, Types, Under
  <2> QED BY <1>1, <2>1, <2>2, DoneKeepsOrder
<1>6. ASSUME NEW a \in Apps, Forward(a) PROVE Order'
  <2>1. UNCHANGED <<waiting, made>>
    BY <1>6 DEF Forward, input
  <2>2. Under' = {} /\ Under = {Head(taken)} /\ got' = got
    BY <1>1, <1>6, ForwardDoes DEF Under
  <2>3. CASE out' = out /\ sent' = sent /\ done' = done \union {Head(taken)}
    BY <1>1, <2>1, <2>2, <2>3, DoneKeepsOrder
  <2>4. CASE /\ Letter(a) \in Mail!Msg /\ out' = out \union {Letter(a)}
             /\ sent' = sent + 1 /\ done' = done
    <3>1. Letter(a).seq = sent + 1 /\ Letter(a).body = Head(taken)
      BY DEF Letter
    <3> QED BY <1>1, <2>1, <2>2, <2>4, <3>1, SendKeepsOrder
  <2> QED BY <1>1, <1>6, <2>3, <2>4, ForwardDoes
<1>7. ASSUME NEW a \in Apps, Receive(a) PROVE Order'
  <2>1. UNCHANGED <<waiting, taken, made, done>>
    BY <1>7 DEF Receive, input
  <2>2. Under' = Under /\ sent' = sent
    BY <1>1, <1>7, <2>1, ReceiveDoes, SameHands
  <2>3. CASE out' = out /\ got' = got
    BY <1>1, <2>1, <2>2, <2>3, QuietKeepsOrder
  <2>4. ASSUME NEW m \in out, m.dest = a, \A o \in out : o.dest = a => m.seq <= o.seq,
               out' = out \ {m}, got' = [got EXCEPT ![a] = Append(@, m)]
        PROVE  Order'
    BY <1>1, <2>1, <2>2, <2>4, RecvKeepsOrder
  <2> QED BY <1>1, <1>7, <2>3, <2>4, ReceiveDoes
<1>8. ASSUME NEW t \in Threads, Look(t) \/ Block(t) PROVE Order'
  <2>1. UNCHANGED <<waiting, taken, out, sent, got, made, done>>
    BY <1>8 DEF Look, Block, input, mail
  <2>2. \/ pc'[Comp] = pc[Comp]
        \/ pc[Comp] # "handle" /\ pc'[Comp] # "handle"
    BY <1>1, <1>8 DEF Look, Block, Awake, Goto, Types
  <2> QED BY <1>1, <2>1, <2>2, SameHands, QuietKeepsOrder
<1>9. ASSUME NEW a \in Apps, Exit(a) \/ Relaunch(a) PROVE Order'
  <2>1. UNCHANGED <<waiting, taken, out, sent, got, made, done>>
    BY <1>9 DEF Exit, Relaunch, input, mail
  <2>2. pc'[Comp] = pc[Comp]
    BY <1>1, <1>9 DEF Exit, Relaunch, Goto, Types
  <2> QED BY <1>1, <2>1, <2>2, SameHands, QuietKeepsOrder
<1>10. CASE UNCHANGED vars
  BY <1>1, <1>10, SameHands, QuietKeepsOrder DEF vars, input, mail
<1> QED BY <1>2, <1>3, <1>4, <1>5, <1>6, <1>7, <1>8, <1>9, <1>10 DEF Next, Step

-------------------------------------------------------------------------------
\* Everything above holds in every state.
THEOREM Invariant == Spec => []Inv
<1>1. Inv /\ [Next]_vars => Inv'
  BY BasicStep, LivesStep, OrderStep DEF Inv, Basic
<1> QED BY Initially, <1>1, PTL DEF Spec

\* The compositor never sleeps on a full input queue, which would be for ever: a
\* refused event wakes nobody (input.c:47-51).
THEOREM NeverStuckFull == Spec => []FullMeansAwake
<1>1. Inv => FullMeansAwake
  <2> SUFFICES ASSUME Inv, Len(waiting) = Capacity PROVE run[Comp] = "READY"
    BY DEF FullMeansAwake
  <2>1. ~ Len(waiting) <= Burst
    BY FlowAssumption
  <2> QED BY <2>1 DEF Inv, AsleepMeansRoom, Types, Threads
<1> QED BY Invariant, <1>1, PTL

\* An application sees its events in the order in which the devices produced them,
\* through two queues and whatever else is sent (input.c:66-77, sched.c:392-417).
THEOREM EventsInOrder == Spec => []InOrder
<1>1. Inv => InOrder
  BY DEF Inv, Order
<1> QED BY Invariant, <1>1, PTL

\* No event is lost or doubled between the interrupt handler and the application, or
\* the compositor that kept it or found the ring full.
THEOREM EventsAccounted == Spec => []Accounted
<1>1. Inv => TypeOK
  BY DEF Inv, Types, Lives, TypeOK, Event, Place
<1>2. Inv => Accounted
  <2> SUFFICES ASSUME Inv PROVE Accounted
    OBVIOUS
  <2> DEFINE at == <<Queued, Under, Mailed, done>> \o <<UNION {Got(a) : a \in Apps}>>
  <2>1. /\ DOMAIN at = 1 .. 5 /\ at[1] = Queued /\ at[2] = Under /\ at[3] = Mailed
        /\ at[4] = done /\ at[5] = Received
    BY DEF Received
  <2>2. /\ Queued \intersect Under = {} /\ Queued \intersect Passed = {}
        /\ Under \intersect Passed = {}
    BY Numbers DEF Inv, Order, FlowOrder
  <2>3. /\ Mailed \intersect done = {} /\ Mailed \intersect Received = {}
        /\ done \intersect Received = {}
        /\ Queued \union Under \union Passed = 1 .. made
    BY DEF Inv, Order, Placed
  <2> HIDE DEF at
  <2>4. UNION {at[i] : i \in DOMAIN at} = 1 .. made
    BY <2>1, <2>3 DEF Passed
  <2>5. \A i, j \in DOMAIN at : i # j => at[i] \intersect at[j] = {}
    BY <2>1, <2>2, <2>3 DEF Passed
  <2> QED BY <1>1, <2>4, <2>5 DEF Accounted, at, Queued, Mailed
<1> QED BY Invariant, <1>2, PTL
===============================================================================
