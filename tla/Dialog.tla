------------------------------- MODULE Dialog -------------------------------
(***************************************************************************)
(* The one-line input of the file dialogs (apps/woos_dialog.h): the bytes  *)
(* typed, the caret, the part of the line in view.  A two-byte character   *)
(* is "P" (lead) and "Q" (trail).                                          *)
(***************************************************************************)
EXTENDS Naturals, Sequences, SequencesExt

CONSTANTS Size,         \* sizeof(input): 128
          Columns,      \* max_vis_chars
          Defaults      \* default texts

VARIABLES active, input, pos,   \* d->active, input, cursor_pos
          result,               \* the last result: "none", "ok", "cancel"
          stepped               \* since opening, a step that goes by bytes was made

vars == <<active, input, pos, result, stepped>>

Smaller(a, b) == IF a < b THEN a ELSE b
Upto(t, n) == SubSeq(t, 1, n)
From(t, n) == SubSeq(t, n + 1, Len(t))

Init == active = FALSE /\ input = << >> /\ pos = 0 /\ result = "none" /\ stepped = FALSE

Open(text) ==
    /\ ~active
    /\ active' = TRUE /\ input' = Upto(text, Smaller(Len(text), Size - 1))
    /\ pos' = Len(input') /\ result' = "none" /\ stepped' = (Len(text) >= Size)

(* [X], the buttons, Enter, Escape, and the program's own woos_dialog_close.*)
Close(how) ==
    /\ active
    /\ active' = FALSE /\ result' = how
    /\ UNCHANGED <<input, pos, stepped>>
-----------------------------------------------------------------------------
(* woos_dialog_draw: the first byte shown; woos_dialog_handle_click on the *)
(* input box, col being the nearest boundary between shown characters.     *)
Scroll(p) == IF p >= Columns THEN p - Columns + 1 ELSE 0
Shown == SubSeq(input, Scroll(pos) + 1, Smaller(Len(input), Scroll(pos) + Columns))
Caret(p) == active /\ pos' = p /\ stepped' = TRUE /\ UNCHANGED <<active, input, result>>
Click(col) == Caret(Smaller(Scroll(pos) + col, Len(input)))
-----------------------------------------------------------------------------
(* woos_dialog_handle_key *)
Type(cs) ==
    /\ active
    /\ IF Len(input) + Len(cs) < Size
       THEN input' = Upto(input, pos) \o cs \o From(input, pos) /\ pos' = pos + Len(cs)
       ELSE UNCHANGED <<input, pos>>
    /\ UNCHANGED <<active, result, stepped>>

Width == IF pos >= 2 /\ input[pos] = "Q" THEN 2 ELSE 1
Backspace ==
    /\ active
    /\ IF pos > 0
       THEN input' = Upto(input, pos - Width) \o From(input, pos) /\ pos' = pos - Width
       ELSE UNCHANGED <<input, pos>>
    /\ UNCHANGED <<active, result, stepped>>

Delete ==
    /\ active
    /\ input' = IF pos < Len(input) THEN RemoveAt(input, pos + 1) ELSE input
    /\ stepped' = TRUE
    /\ UNCHANGED <<active, pos, result>>

Left == Caret(IF pos > 0 THEN pos - 1 ELSE 0)
Right == Caret(Smaller(pos + 1, Len(input)))
Home == active /\ pos' = 0 /\ UNCHANGED <<active, input, result, stepped>>
End == active /\ pos' = Len(input) /\ UNCHANGED <<active, input, result, stepped>>

Next ==
    \/ \E text \in Defaults : Open(text)
    \/ Close("ok") \/ Close("cancel")
    \/ \E col \in 0 .. Columns : Click(col)
    \/ Type(<<"x">>) \/ Type(<<"P", "Q">>)
    \/ Backspace \/ Delete \/ Left \/ Right \/ Home \/ End

Spec == Init /\ [][Next]_vars
-----------------------------------------------------------------------------
(* Characters stay whole, at the caret too, for those who only type, erase *)
(* and jump to the ends: near the end of the buffer a two-byte character   *)
(* is taken or refused as one.                                             *)
Whole(t) ==
    /\ \A i \in DOMAIN t : t[i] = "P" => i < Len(t) /\ t[i + 1] = "Q"
    /\ \A i \in DOMAIN t : t[i] = "Q" => i > 1 /\ t[i - 1] = "P"
CharactersWhole == ~stepped => Whole(Upto(input, pos)) /\ Whole(From(input, pos))

(* What is drawn of the line has the caret in it, and leaves room for the  *)
(* terminating zero.                                                       *)
CaretShown == Len(input) < Size /\ pos - Scroll(pos) \in 0 .. Len(Shown)

(* While the dialog is open the line changes only at the caret.            *)
ChangesAtCaret ==
    [][active /\ active' =>
         \/ input' = input
         \/ pos' > pos /\ Upto(input', pos) = Upto(input, pos) /\ From(input', pos') = From(input, pos)
         \/ pos' < pos /\ input' = Upto(input, pos') \o From(input, pos)
         \/ pos' = pos /\ input' = Upto(input, pos) \o From(input, pos + 1)]_vars
=============================================================================
