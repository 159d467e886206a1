--------------------------------- MODULE Ps2 ---------------------------------
(***************************************************************************)
(* Keyboard and mouse behind one PS/2 controller (mouse.c, the keyboard    *)
(* branch of idt.c).  The controller holds one byte for the processor, of  *)
(* the one device or the other, and raises that device's interrupt; the    *)
(* keyboard's handler takes whatever byte is there, the mouse's handler    *)
(* empties the controller and throws the keyboard's bytes away.            *)
(* Handlers run with interrupts off; other code delays them at will.       *)
(***************************************************************************)
EXTENDS Integers, Sequences, FiniteSets

CONSTANTS Keys,         \* keys of the keyboard, among them Shift, Alt, Ctrl and Caps keys
          Shifts, Alts, Ctrls,
          Extended,     \* keys whose code has the prefix E0 before it
          Grey,         \* of these, arrows and other keys doubled on the number pad, PrintScreen
          FakeShift,    \* the Shift whose code the keyboard borrows for them
          MaxKeys,      \* keys put down or let go, repeats too
          Motions,      \* what the mouse reports: dx, buttons, overflow
          MaxPackets,   \* packets sent by the mouse
          Sizes,        \* of a packet: 3, with a wheel 4
          Width         \* of the screen

VARIABLES kbd,          \* the keyboard: keys held, codes not yet in the controller, codes sent so
                        \* far, keys typed, grey keys that mean their number without a Shift
          dev,          \* the mouse: bytes not yet in the controller, packets sent so far
          out,          \* output buffer of the controller, empty or one byte
          irq,          \* interrupts raised and not handled
          mode,         \* g_kbd_shift, _alt, _ctrl, _layout, _extended
          mouse,        \* g_mouse
          heard,        \* codes of the keyboard its handler took, packets the mouse's handler decoded
          crossed       \* a byte of one device was taken by the handler of the other

vars == <<kbd, dev, out, irq, mode, mouse, heard, crossed>>

Prefix == <<"E0", "prefix">>
Keystrokes == Keys \X {"down", "up"}
Codes == Keystrokes \cup {Prefix}
KeyByte(c) == [aux |-> FALSE, code |-> c, at |-> 0, of |-> 0, bit3 |-> FALSE]
MouseByte(p, i, eight) == [aux |-> TRUE, code |-> <<>>, at |-> i, of |-> p, bit3 |-> eight]
Still == [dx |-> 0, left |-> FALSE, overflow |-> FALSE]

(* mouse_init, before interrupts are on: the mouse streams once it got the *)
(* last command, the driver is ready once that was acknowledged.           *)
MouseInit ==
    /\ mouse \in [ready : BOOLEAN, size : Sizes, packet : {<< >>}, x : {Width \div 2}, left : {FALSE}]
    /\ dev \in [on : BOOLEAN, queue : {<< >>}, sent : {<< >>}]
    /\ mouse.ready => dev.on

Init ==
    /\ MouseInit
    /\ kbd \in [held : {{}}, queue : {<< >>}, sent : {<< >>}, typed : {0}, locked : SUBSET Grey]
    /\ out = << >> /\ irq = {}
    /\ mode = [shift |-> FALSE, alt |-> FALSE, ctrl |-> FALSE, layout |-> "EN", extended |-> FALSE]
    /\ heard = [codes |-> << >>, packets |-> << >>]
    /\ crossed = FALSE
-----------------------------------------------------------------------------
(* The devices (external).  A held key repeats; the first byte of a packet *)
(* has bit 3 set, the others may.                                          *)
ShiftHeld == kbd.held \cap Shifts # {}
Prefixed(c) == <<Prefix>> \o <<c>>
WithPrefix(c) == IF c[1] \in Extended THEN Prefixed(c) ELSE <<c>>
Fake(way) == Prefixed(<<FakeShift, way>>)

(* So that an old program tells it from the number pad, a grey key is      *)
(* wrapped in the codes of a Shift: down for one that would mean a number  *)
(* (the arrows while NumLock is on, which nobody changes here, PrintScreen *)
(* always), up for another one while Shift is held.                        *)
Wrapped(k) == k \in Grey /\ (k \in kbd.locked) # ShiftHeld
Before(c) == IF c[2] = "down" /\ c[1] \notin kbd.held /\ Wrapped(c[1])
             THEN Fake(IF ShiftHeld THEN "up" ELSE "down") ELSE << >>
After(c) == IF c[2] = "up" /\ Wrapped(c[1])
            THEN Fake(IF ShiftHeld THEN "down" ELSE "up") ELSE << >>
Sends(c) == Before(c) \o WithPrefix(c) \o After(c)

Type(c) ==
    /\ kbd.typed < MaxKeys
    /\ c[2] = "up" => c[1] \in kbd.held
    /\ kbd' = [kbd EXCEPT !.held = IF c[2] = "down" THEN @ \cup {c[1]} ELSE @ \ {c[1]},
                          !.queue = @ \o Sends(c), !.sent = @ \o Sends(c), !.typed = @ + 1]
    /\ UNCHANGED <<dev, out, irq, mode, mouse, heard, crossed>>

Report(m, bits) ==
    /\ dev.on /\ Len(dev.sent) < MaxPackets
    /\ dev' = [dev EXCEPT !.sent = Append(@, m),
                          !.queue = @ \o [i \in 1 .. mouse.size |-> MouseByte(Len(dev.sent) + 1, i, i = 1 \/ bits)]]
    /\ UNCHANGED <<kbd, out, irq, mode, mouse, heard, crossed>>

LoadKey ==
    /\ out = << >> /\ kbd.queue # << >>
    /\ out' = <<KeyByte(Head(kbd.queue))>>
    /\ kbd' = [kbd EXCEPT !.queue = Tail(@)]
    /\ irq' = irq \cup {1}
    /\ UNCHANGED <<dev, mode, mouse, heard, crossed>>
LoadMouse ==
    /\ out = << >> /\ dev.queue # << >>
    /\ out' = <<Head(dev.queue)>>
    /\ dev' = [dev EXCEPT !.queue = Tail(@)]
    /\ irq' = irq \cup {12}
    /\ UNCHANGED <<kbd, mode, mouse, heard, crossed>>
-----------------------------------------------------------------------------
\* A slip, for ShiftClears.
FirstShiftClears(c) == c[1] = CHOOSE k \in Shifts : TRUE

(* The keyboard branch of idt_handle_irq.  Either key of a pair sets the   *)
(* flag and either clears it, with the prefix or without; Shift with Alt,  *)
(* in any order, switches the layout; the prefix counts for one code.      *)
ShiftClears(c) == c[1] \in Shifts
Decode(c) ==
    LET down == c[2] = "down"
        other == IF mode.layout = "EN" THEN "RU" ELSE "EN"
    IN mode' = [shift |-> IF down THEN mode.shift \/ c[1] \in Shifts ELSE mode.shift /\ ~ShiftClears(c),
                alt |-> IF down THEN mode.alt \/ c[1] \in Alts ELSE mode.alt /\ c[1] \notin Alts,
                ctrl |-> IF down THEN mode.ctrl \/ c[1] \in Ctrls ELSE mode.ctrl /\ c[1] \notin Ctrls,
                layout |-> IF down /\ ((c[1] \in Shifts /\ mode.alt) \/ (c[1] \in Alts /\ mode.shift))
                           THEN other ELSE mode.layout,
                extended |-> c = Prefix]

KeyIrqEmpty ==
    /\ 1 \in irq /\ out = << >>
    /\ irq' = irq \ {1}
    /\ UNCHANGED <<kbd, dev, out, mode, mouse, heard, crossed>>

\* A byte of the mouse may be any scan code.
KeyIrq ==
    /\ 1 \in irq /\ out # << >>
    /\ irq' = irq \ {1} /\ out' = << >>
    /\ LET b == Head(out)
       IN \E c \in Codes :
            /\ ~b.aux => c = b.code
            /\ Decode(c)
            /\ heard' = IF b.aux THEN heard ELSE [heard EXCEPT !.codes = Append(@, c)]
            /\ crossed' = (crossed \/ b.aux)
    /\ UNCHANGED <<kbd, dev, mouse>>

(* handle_mouse_packet: a packet without bit 3, or with an overflow, is    *)
(* dropped; the cursor stays on the screen.  The packet is the one its     *)
(* bytes belong to if they are of one packet and in order.                 *)
OfOnePacket(p) == \E n \in DOMAIN dev.sent : \A i \in DOMAIN p : p[i].of = n /\ p[i].at = i
Report1(p) == IF OfOnePacket(p) THEN dev.sent[p[1].of] ELSE Still
Clamp(x) == IF x < 0 THEN 0 ELSE IF x >= Width THEN Width - 1 ELSE x
Decoded(p) ==
    IF ~p[1].bit3 \/ Report1(p).overflow THEN [mouse EXCEPT !.packet = << >>]
    ELSE [mouse EXCEPT !.packet = << >>, !.x = Clamp(@ + Report1(p).dx), !.left = Report1(p).left]

(* One byte of mouse_handler's loop, which goes on while the controller    *)
(* has another.                                                            *)
Aligned(p, b) == p # << >> \/ b.bit3
Collect(b) ==
    IF ~b.aux \/ ~Aligned(mouse.packet, b) THEN UNCHANGED <<mouse, heard>>
    ELSE LET p == Append(mouse.packet, b)
         IN IF Len(p) < mouse.size THEN mouse' = [mouse EXCEPT !.packet = p] /\ UNCHANGED heard
            ELSE mouse' = Decoded(p) /\ heard' = [heard EXCEPT !.packets = Append(@, p)]

\* A slip, for MouseIrqUnready.
MouseIrqDrains ==
    /\ 12 \in irq /\ ~mouse.ready
    /\ irq' = IF out = << >> THEN irq \ {12} ELSE irq
    /\ out' = << >>
    /\ crossed' = (crossed \/ (out # << >> /\ ~out[1].aux))
    /\ UNCHANGED <<kbd, dev, mode, mouse, heard>>

MouseIrqUnready ==
    /\ 12 \in irq /\ ~mouse.ready
    /\ irq' = irq \ {12}
    /\ UNCHANGED <<kbd, dev, out, mode, mouse, heard, crossed>>
MouseIrqByte ==
    /\ 12 \in irq /\ mouse.ready /\ out # << >>
    /\ out' = << >>
    /\ Collect(Head(out))
    /\ crossed' = (crossed \/ ~Head(out).aux)
    /\ UNCHANGED <<kbd, dev, irq, mode>>
MouseIrqEnds ==
    /\ 12 \in irq /\ mouse.ready /\ out = << >>
    /\ irq' = irq \ {12}
    /\ UNCHANGED <<kbd, dev, out, mode, mouse, heard, crossed>>

(* Nothing is on its way; or a byte of a mouse the driver did not take into*)
(* service holds the controller for good.                                  *)
Blocked == ~mouse.ready /\ out # << >> /\ out[1].aux
Quiet ==
    /\ irq = {}
    /\ Blocked \/ (kbd.queue = << >> /\ dev.queue = << >>)
    /\ UNCHANGED vars

Next ==
    \/ \E c \in Keystrokes : Type(c)
    \/ \E m \in Motions, bits \in BOOLEAN : Report(m, bits)
    \/ LoadKey \/ LoadMouse
    \/ KeyIrq \/ KeyIrqEmpty \/ MouseIrqUnready \/ MouseIrqByte \/ MouseIrqEnds
    \/ Quiet
-----------------------------------------------------------------------------
InTransit == (IF out # << >> /\ ~out[1].aux THEN <<out[1].code>> ELSE << >>) \o kbd.queue

(* Bytes change hands in one way only to begin with: the mouse's handler,  *)
(* emptying the controller, meets a scan code and drops it (mouse_handler).*)
OnlyTheDrainCrosses ==
    [][~crossed /\ crossed' => mouse.ready /\ ~out[1].aux /\ heard' = heard]_vars

(* While no byte has changed hands the keyboard handler has every scan     *)
(* code typed, once and in order, and the mouse's packets are cut where    *)
(* the mouse cut them (idt_handle_irq, mouse_handler).                     *)
StreamsKept ==
    ~crossed =>
        /\ heard.codes \o InTransit = kbd.sent
        /\ \A i \in DOMAIN heard.packets :
            \A j \in DOMAIN heard.packets[i] : heard.packets[i][j].of = i /\ heard.packets[i][j].at = j

(* While no scan code was lost a modifier is never stuck: with all codes   *)
(* taken in, a flag that is set stands for a key that is held, for Shift   *)
(* also for a grey key whose fake Shift the driver takes for a real one    *)
(* (idt_handle_irq), and the next code is not taken for an extended one.   *)
NeverStuck ==
    ~crossed /\ InTransit = << >> =>
        /\ mode.shift => kbd.held \cap (Shifts \cup kbd.locked) # {}
        /\ mode.alt => kbd.held \cap Alts # {}
        /\ mode.ctrl => kbd.held \cap Ctrls # {}
        /\ ~mode.extended
=============================================================================
