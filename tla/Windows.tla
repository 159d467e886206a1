------------------------------- MODULE Windows --------------------------------
(***************************************************************************)
(* The kernel's window table (fb.c).  The compositor's clicks, the         *)
(* applications' own calls, a launch that raises a running application and *)
(* the exit of a thread all work on it.                                    *)
(*                                                                         *)
(* Granularity.  A section between irq_save and irq_restore is one action; *)
(* the buffer is allocated before it and freed after it, and the compound  *)
(* operations (maximise, restore from the taskbar, sweep at exit, close)   *)
(* consist of several sections, between which any other thread may run.    *)
(*                                                                         *)
(* Abstracted: positions, titles (Fixed stands for "Calculator"), pixels;  *)
(* a size is Normal or Full, a buffer's room one of the two.  The          *)
(* WINDOW_CHANGE event and the wake-up that end each operation are in      *)
(* EventFlow and Sched.                                                    *)
(***************************************************************************)
EXTENDS Integers, Sequences, FiniteSets

CONSTANTS
  Threads,      \* the threads of applications; each opens one window
  Desktop,      \* the compositor's thread
  Fixed,        \* those whose window is titled "Calculator"
  Quitters,     \* those that can end without being asked to
  MAX_WINDOWS,  \* slots of g_windows
  MaxClicks,    \* bound on the user's clicks
  MaxStarts     \* bound on application launches

ASSUME WindowsAssumption ==
  /\ Desktop \notin Threads
  /\ Fixed \subseteq Threads
  /\ Quitters \subseteq Threads
  /\ MAX_WINDOWS \in Nat /\ MAX_WINDOWS > 0
  /\ MaxClicks \in Nat
  /\ MaxStarts \in Nat

VARIABLES
  wins,    \* g_windows[0 .. g_window_count - 1], bottom first
  nextId,  \* g_next_window_id
  heap,    \* the live window buffers of the kernel heap, and their room
  job,     \* where the compositor and each application is
  frame,   \* g_win_w and g_win_h of each application
  mail,    \* MSG_RESIZE and MSG_CLOSE on their way to each application
  clicks,  \* the clicks so far
  starts   \* the launches so far

vars == <<wins, nextId, heap, job, frame, mail, clicks, starts>>

Actors  == Threads \union {Desktop}
Normal  == 1
Full    == 2
Sizes   == {Normal, Full}
Close   == 0
Places  == {"idle", "out", "create", "made", "blit", "loop", "dirty", "destroy", "free",
            "sweep", "close", "max", "min", "front", "raise", "tell", "reap"}
Idle    == [do |-> "idle", id |-> 0, tid |-> Desktop, buf |-> 0, size |-> 0]
Do(what) == [Idle EXCEPT !.do = what]

Window == [id : Nat, thread : Threads, min : BOOLEAN, max : BOOLEAN,
           focused : BOOLEAN, size : Sizes, saved : Sizes, buf : Nat]

-------------------------------------------------------------------------------
(* The table *)

\* The search for an id that every operation begins with: one window or none.
Named(id) == {w \in {wins[i] : i \in DOMAIN wins} : w.id = id}

\* The shift of the windows above the one that is taken out.
Others(ws, id) ==
  LET at == CHOOSE i \in DOMAIN ws : ws[i].id = id
  IN  [i \in 1 .. Len(ws) - 1 |-> IF i < at THEN ws[i] ELSE ws[i + 1]]

\* The flag cleared in every window (fb.c:537-539,645-647).
Unfocused(ws) == [i \in DOMAIN ws |-> [ws[i] EXCEPT !.focused = FALSE]]

\* The index of the topmost window that is not minimised, 0 if there is none.
TopVisible(ws) ==
  LET shown == {i \in DOMAIN ws : ~ws[i].min}
  IN  IF shown = {} THEN 0 ELSE CHOOSE i \in shown : \A j \in shown : j <= i

FocusAt(ws, i) == IF i = 0 THEN ws ELSE [ws EXCEPT ![i].focused = TRUE]

\* Mutant of Raised: the window changes places with the top one.
RaisedSwap(ws, w) ==
  LET n == Len(ws)
      at == CHOOSE i \in DOMAIN ws : ws[i].id = w.id
      clear == Unfocused(ws)
  IN  [clear EXCEPT ![at] = clear[n],
                    ![n] = [w EXCEPT !.min = FALSE, !.focused = TRUE]]

\* woos_graphics_bring_to_front of a window that exists.
Raised(ws, w) ==
  Append(Others(Unfocused(ws), w.id), [w EXCEPT !.min = FALSE, !.focused = TRUE])

\* The middle of woos_graphics_destroy_window: the new top window gets the
\* focus, minimised or not.
Removed(ws, id) == LET rest == Others(ws, id) IN FocusAt(rest, Len(rest))

\* Mutant of Hidden: the focus goes to the window below, wherever that is.
HiddenBelow(ws, id) ==
  LET hid == [i \in DOMAIN ws |-> IF ws[i].id = id
                THEN [ws[i] EXCEPT !.min = TRUE, !.focused = FALSE] ELSE ws[i]]
  IN  FocusAt(hid, (CHOOSE i \in DOMAIN ws : ws[i].id = id) - 1)

\* woos_graphics_toggle_minimize of a window that is not minimised.
Hidden(ws, id) ==
  LET hid == [i \in DOMAIN ws |-> IF ws[i].id = id
                THEN [ws[i] EXCEPT !.min = TRUE, !.focused = FALSE] ELSE ws[i]]
  IN  FocusAt(hid, TopVisible(hid))

Set(id, w) == [i \in DOMAIN wins |-> IF wins[i].id = id THEN w ELSE wins[i]]

\* woos_graphics_get_focused_tid: whoever gets the keys; Desktop stands for -1.
FocusedTid ==
  LET has == {i \in DOMAIN wins : wins[i].focused /\ ~wins[i].min}
  IN  IF has = {} THEN Desktop
      ELSE wins[CHOOSE i \in has : \A j \in has : j <= i].thread

-------------------------------------------------------------------------------
(* The heap *)

\* A block that kheap_alloc may return: one that is not in use.
Unused == CHOOSE b \in 1 .. Cardinality(DOMAIN heap) + 1 : b \notin DOMAIN heap

With(b, size) == [x \in DOMAIN heap \union {b} |-> IF x = b THEN size ELSE heap[x]]
Without(b)    == [x \in DOMAIN heap \ {b} |-> heap[x]]

\* kheap_realloc(b, size): the block stays if it has the room; else it moves, or
\* there is no memory and the caller gets 0.  moved is the block it returns.
Realloc(b, size, moved) ==
  \/ heap[b] >= size /\ moved = b /\ heap' = heap
  \/ /\ heap[b] < size
     /\ moved = Unused
     /\ heap' = [x \in (DOMAIN heap \ {b}) \union {Unused} |->
                   IF x = Unused THEN size ELSE heap[x]]
  \/ heap[b] < size /\ moved = 0 /\ heap' = heap

-------------------------------------------------------------------------------
(* Applications *)

\* woos_system_spawn starts an application, in a slot that may have served before.
Start(t) ==
  /\ job[t].do = "out" /\ starts < MaxStarts
  /\ starts' = starts + 1
  /\ job' = [job EXCEPT ![t] = Do("create")]
  /\ frame' = [frame EXCEPT ![t] = Normal]
  /\ UNCHANGED <<wins, nextId, heap, mail, clicks>>

\* woos_graphics_create_window_ex up to irq_save.  Without memory it returns -1
\* and the application ends.
Allocate(t) ==
  /\ job[t].do = "create"
  /\ \/ /\ heap' = With(Unused, Normal)
        /\ job' = [job EXCEPT ![t] = [Do("made") EXCEPT !.buf = Unused]]
     \/ /\ job' = [job EXCEPT ![t] = Do("sweep")]
        /\ UNCHANGED heap
  /\ UNCHANGED <<wins, nextId, frame, mail, clicks, starts>>

\* The locked part of woos_graphics_create_window_ex.
Insert(t) ==
  /\ job[t].do = "made" /\ Len(wins) < MAX_WINDOWS
  /\ wins' = Append(Unfocused(wins), [id |-> nextId, thread |-> t, min |-> FALSE,
       max |-> FALSE, focused |-> TRUE, size |-> Normal, saved |-> Normal,
       buf |-> job[t].buf])
  /\ nextId' = nextId + 1
  /\ job' = [job EXCEPT ![t] = [Do("blit") EXCEPT !.id = nextId]]
  /\ UNCHANGED <<heap, frame, mail, clicks, starts>>

\* The same when the table is full: the buffer is freed, -1 returned.
InsertFull(t) ==
  /\ job[t].do = "made" /\ Len(wins) >= MAX_WINDOWS
  /\ job' = [job EXCEPT ![t].do = "free"]
  /\ UNCHANGED <<wins, nextId, heap, frame, mail, clicks, starts>>

\* woos_ipc_recv in the application's loop: MSG_CLOSE ends it, MSG_RESIZE sets
\* the size of its frames; it draws when no message is left.
Receive(t) ==
  /\ job[t].do \in {"loop", "dirty"} /\ mail[t] # <<>>
  /\ mail' = [mail EXCEPT ![t] = Tail(@)]
  /\ \/ /\ Head(mail[t]) = Close
        /\ job' = [job EXCEPT ![t].do = "destroy"]
        /\ UNCHANGED frame
     \/ /\ Head(mail[t]) # Close
        /\ frame' = [frame EXCEPT ![t] = Head(mail[t])]
        /\ job' = [job EXCEPT ![t].do = "dirty"]
  /\ UNCHANGED <<wins, nextId, heap, clicks, starts>>

\* No message left: the application draws its frame, with interrupts on.
Draw(t) ==
  /\ job[t].do = "dirty" /\ mail[t] = <<>>
  /\ job' = [job EXCEPT ![t].do = "blit"]
  /\ UNCHANGED <<wins, nextId, heap, frame, mail, clicks, starts>>

\* The application's window, if its frame makes it change size.
Misfit(t) == {w \in Named(job[t].id) : ~w.max /\ w.size # frame[t]}

\* Mutant of Blit: the size changes whether there was memory for it or not.
BlitRegardless(t) ==
  /\ job[t].do = "blit"
  /\ job' = [job EXCEPT ![t].do = "loop"]
  /\ \/ \E w \in Misfit(t), moved \in 0 .. Cardinality(DOMAIN heap) + 1 :
          /\ Realloc(w.buf, frame[t], moved)
          /\ wins' = Set(w.id, [w EXCEPT !.size = frame[t],
                           !.buf = IF moved = 0 THEN @ ELSE moved])
     \/ Misfit(t) = {} /\ UNCHANGED <<wins, heap>>
  /\ UNCHANGED <<nextId, frame, mail, clicks, starts>>

\* woos_graphics_blit_window: a frame of another size resizes the window unless
\* that is maximised, where the frame is scaled.
Blit(t) ==
  /\ job[t].do = "blit"
  /\ job' = [job EXCEPT ![t].do = "loop"]
  /\ \/ \E w \in Misfit(t), moved \in 0 .. Cardinality(DOMAIN heap) + 1 :
          /\ Realloc(w.buf, frame[t], moved)
          /\ wins' = IF moved = 0 THEN wins
                     ELSE Set(w.id, [w EXCEPT !.size = frame[t], !.buf = moved])
     \/ Misfit(t) = {} /\ UNCHANGED <<wins, heap>>
  /\ UNCHANGED <<nextId, frame, mail, clicks, starts>>

\* The application ends without being asked to.
Quit(t) ==
  /\ job[t].do = "loop" /\ t \in Quitters
  /\ job' = [job EXCEPT ![t] = Do("sweep")]
  /\ UNCHANGED <<wins, nextId, heap, frame, mail, clicks, starts>>

\* woos_graphics_destroy_thread_windows, from thread_exit: looks for one more
\* window of the thread.
SweepOne(t) ==
  /\ job[t].do = "sweep"
  /\ \E i \in DOMAIN wins :
       /\ wins[i].thread = t
       /\ \A j \in DOMAIN wins : wins[j].thread = t => j <= i
       /\ job' = [job EXCEPT ![t] = [Do("destroy") EXCEPT !.id = wins[i].id]]
  /\ UNCHANGED <<wins, nextId, heap, frame, mail, clicks, starts>>

\* None is left: the thread is TERMINATED.
Leave(t) ==
  /\ job[t].do = "sweep" /\ \A i \in DOMAIN wins : wins[i].thread # t
  /\ job' = [job EXCEPT ![t] = Do("out")]
  /\ UNCHANGED <<wins, nextId, heap, frame, mail, clicks, starts>>

-------------------------------------------------------------------------------
(* Operations on a window, by its id *)

\* What an actor does after destroying a window: the application goes on to
\* thread_exit, the compositor to its next event.
Home(a) == IF a = Desktop THEN Idle ELSE Do("sweep")

\* woos_graphics_destroy_window up to irq_restore.
Destroy(a) ==
  /\ job[a].do = "destroy"
  /\ \/ \E w \in Named(job[a].id) :
          /\ wins' = Removed(wins, w.id)
          /\ job' = [job EXCEPT ![a] = [Do("free") EXCEPT !.buf = w.buf]]
     \/ /\ Named(job[a].id) = {}
        /\ job' = [job EXCEPT ![a] = Home(a)]
        /\ UNCHANGED wins
  /\ UNCHANGED <<nextId, heap, frame, mail, clicks, starts>>

\* kheap_free of the buffer, after the lock.
Free(a) ==
  /\ job[a].do = "free"
  /\ heap' = Without(job[a].buf)
  /\ job' = [job EXCEPT ![a] = Home(a)]
  /\ UNCHANGED <<wins, nextId, frame, mail, clicks, starts>>

\* The compositor reads a window (woos_graphics_get_window_info) and decides what
\* the click means; the window may change before the call that follows.
Click ==
  /\ job[Desktop].do = "idle" /\ clicks < MaxClicks
  /\ clicks' = clicks + 1
  /\ \E i \in DOMAIN wins : LET w == wins[i] IN \E do \in {"close", "max", "min", "front"} :
       /\ \/ ~w.min /\ (do = "max" => w.thread \notin Fixed)
          \/ do = IF w.focused THEN "min" ELSE "front"
       /\ job' = [job EXCEPT ![Desktop] =
                    [Do(do) EXCEPT !.id = w.id, !.tid = w.thread]]
  /\ UNCHANGED <<wins, nextId, heap, frame, mail, starts>>

\* [X]: woos_ipc_send of MSG_CLOSE, then woos_graphics_destroy_window.
SendClose ==
  /\ job[Desktop].do = "close"
  /\ mail' = [mail EXCEPT ![job[Desktop].tid] = Append(@, Close)]
  /\ job' = [job EXCEPT ![Desktop].do = "destroy"]
  /\ UNCHANGED <<wins, nextId, heap, frame, clicks, starts>>

\* woos_graphics_toggle_minimize; a minimised window is brought to the front in a
\* section of its own.
Minimise ==
  /\ job[Desktop].do = "min"
  /\ \/ \E w \in Named(job[Desktop].id) :
          /\ w.min
          /\ job' = [job EXCEPT ![Desktop].do = "front"]
          /\ UNCHANGED wins
     \/ \E w \in Named(job[Desktop].id) :
          /\ ~w.min
          /\ wins' = Hidden(wins, w.id)
          /\ job' = [job EXCEPT ![Desktop] = Idle]
     \/ /\ Named(job[Desktop].id) = {}
        /\ job' = [job EXCEPT ![Desktop] = Idle]
        /\ UNCHANGED wins
  /\ UNCHANGED <<nextId, heap, frame, mail, clicks, starts>>

\* woos_graphics_bring_to_front; "raise" is the call inside toggle_maximize, which
\* goes on to send MSG_RESIZE.
Front ==
  /\ job[Desktop].do \in {"front", "raise"}
  /\ \/ \E w \in Named(job[Desktop].id) : wins' = Raised(wins, w)
     \/ Named(job[Desktop].id) = {} /\ UNCHANGED wins
  /\ job' = [job EXCEPT ![Desktop] = IF @.do = "raise" THEN [@ EXCEPT !.do = "tell"]
                                     ELSE Idle]
  /\ UNCHANGED <<nextId, heap, frame, mail, clicks, starts>>

\* Mutant of Maximise: the moved buffer is not stored.
MaximiseKeepsBuffer ==
  /\ job[Desktop].do = "max"
  /\ LET resizable == {w \in Named(job[Desktop].id) : w.thread \notin Fixed} IN
     \/ \E w \in resizable, moved \in 0 .. Cardinality(DOMAIN heap) + 1 :
          LET target == IF w.max THEN w.saved ELSE Full IN
          /\ Realloc(w.buf, target, moved)
          /\ wins' = Set(w.id, [w EXCEPT !.max = ~@, !.size = target,
                           !.saved = IF w.max THEN @ ELSE w.size])
          /\ job' = [job EXCEPT ![Desktop] =
               [@ EXCEPT !.do = "raise", !.tid = w.thread, !.size = target]]
     \/ /\ resizable = {}
        /\ job' = [job EXCEPT ![Desktop] = Idle]
        /\ UNCHANGED <<wins, heap>>
  /\ UNCHANGED <<nextId, frame, mail, clicks, starts>>

\* The locked part of woos_graphics_toggle_maximize.  The new size is set before
\* the buffer is reallocated, and stays if that fails.
Maximise ==
  /\ job[Desktop].do = "max"
  /\ LET resizable == {w \in Named(job[Desktop].id) : w.thread \notin Fixed} IN
     \/ \E w \in resizable, moved \in 0 .. Cardinality(DOMAIN heap) + 1 :
          LET target == IF w.max THEN w.saved ELSE Full IN
          /\ Realloc(w.buf, target, moved)
          /\ wins' = Set(w.id, [w EXCEPT !.max = ~@, !.size = target,
                           !.saved = IF w.max THEN @ ELSE w.size,
                           !.buf = IF moved = 0 THEN @ ELSE moved])
          /\ job' = [job EXCEPT ![Desktop] =
               [@ EXCEPT !.do = "raise", !.tid = w.thread, !.size = target]]
     \/ /\ resizable = {}
        /\ job' = [job EXCEPT ![Desktop] = Idle]
        /\ UNCHANGED <<wins, heap>>
  /\ UNCHANGED <<nextId, frame, mail, clicks, starts>>

\* The end of woos_graphics_toggle_maximize: MSG_RESIZE.
Tell ==
  /\ job[Desktop].do = "tell"
  /\ mail' = [mail EXCEPT ![job[Desktop].tid] = Append(@, job[Desktop].size)]
  /\ job' = [job EXCEPT ![Desktop] = Idle]
  /\ UNCHANGED <<wins, nextId, heap, frame, clicks, starts>>

\* A launch of an application that is running: its first window is brought to the
\* front; without one, its thread is going to be reaped.
Launch(t) ==
  /\ job[Desktop].do = "idle" /\ clicks < MaxClicks /\ job[t].do # "out"
  /\ clicks' = clicks + 1
  /\ LET mine == {i \in DOMAIN wins : wins[i].thread = t} IN
     \/ /\ mine = {}
        /\ job' = [job EXCEPT ![Desktop] = [Do("reap") EXCEPT !.tid = t]]
     \/ \E i \in mine :
          /\ \A j \in mine : i <= j
          /\ job' = [job EXCEPT ![Desktop] = [Do("front") EXCEPT !.id = wins[i].id]]
  /\ UNCHANGED <<wins, nextId, heap, frame, mail, starts>>

\* The thread is TERMINATED wherever it is; it frees nothing.
Reap ==
  /\ job[Desktop].do = "reap"
  /\ job' = [job EXCEPT ![Desktop] = Idle, ![job[Desktop].tid] = Do("out")]
  /\ UNCHANGED <<wins, nextId, heap, frame, mail, clicks, starts>>

-------------------------------------------------------------------------------
Init ==
  /\ wins = <<>>
  /\ nextId = 1
  /\ heap = <<>>
  /\ job = [a \in Actors |-> IF a = Desktop THEN Idle ELSE Do("out")]
  /\ frame = [t \in Threads |-> Normal]
  /\ mail = [t \in Threads |-> <<>>]
  /\ clicks = 0
  /\ starts = 0

App(t) ==
  \/ Start(t) \/ Allocate(t) \/ Insert(t) \/ InsertFull(t)
  \/ Receive(t) \/ Draw(t) \/ Blit(t) \/ Quit(t) \/ SweepOne(t) \/ Leave(t)

Compositor ==
  \/ Click \/ SendClose \/ Minimise \/ Front \/ Maximise \/ Tell \/ Reap
  \/ \E t \in Threads : Launch(t)

Next ==
  \/ \E t \in Threads : App(t)
  \/ \E a \in Actors : Destroy(a) \/ Free(a)
  \/ Compositor

Spec == Init /\ [][Next]_vars

-------------------------------------------------------------------------------
(* Properties *)

\* The types; the table never outgrows MAX_WINDOWS although room is checked after
\* the buffer was allocated (fb.c:529).
TypeOK ==
  /\ wins \in Seq(Window) /\ Len(wins) <= MAX_WINDOWS
  /\ nextId \in Nat
  /\ DOMAIN heap \subseteq Nat \ {0} /\ \A b \in DOMAIN heap : heap[b] \in Sizes
  /\ job \in [Actors -> [do : Places, id : Nat, tid : Actors, buf : Nat,
                         size : Sizes \union {0}]]
  /\ frame \in [Threads -> Sizes]
  /\ mail \in [Threads -> Seq(Sizes \union {Close})]
  /\ clicks \in 0 .. MaxClicks /\ starts \in 0 .. MaxStarts

\* Buffers are allocated before the lock and freed after it (fb.c:521,604), and
\* moved by maximising and blitting: still no window ever points to a buffer that
\* is free or about to be freed, nor do two windows, or two callers, share one.
NoDangling ==
  /\ TypeOK
  /\ \A i \in DOMAIN wins : wins[i].buf \in DOMAIN heap
  /\ \A i, j \in DOMAIN wins : i # j => wins[i].buf # wins[j].buf
  /\ \A a \in Actors : job[a].buf # 0 =>
       /\ job[a].buf \in DOMAIN heap
       /\ \A i \in DOMAIN wins : wins[i].buf # job[a].buf
       /\ \A b \in Actors \ {a} : job[b].buf # job[a].buf

\* The keys go to the topmost visible window or, after a destroy whose new top is
\* minimised, to nobody, never to a window that is covered (fb.c:602,645,731,852).
KeysOnTop ==
  /\ FocusedTid # Desktop => FocusedTid = wins[TopVisible(wins)].thread
  /\ \A i \in DOMAIN wins :
       wins[i].focused /\ ~wins[i].min => i = TopVisible(wins)

\* A window that is not maximised fits its buffer, whichever reallocation failed
\* on the way (fb.c:795,932), so drawing it stays inside the buffer.
FitsUnlessMaximised ==
  \A i \in DOMAIN wins : ~wins[i].max => wins[i].size <= heap[wins[i].buf]

Before(ws, x, y) == \E i, j \in DOMAIN ws : i < j /\ ws[i].id = x /\ ws[j].id = y

\* No operation changes the z-order of two windows unless it puts one of them on
\* top (fb.c:596,650).
StackingKept ==
  [][\A x, y \in 1 .. nextId :
       Before(wins, x, y) /\ Before(wins', y, x) => wins'[Len(wins')].id = x]_vars
===============================================================================
