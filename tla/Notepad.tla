------------------------------- MODULE Notepad -------------------------------
(***************************************************************************)
(* The text editor (apps/notepad.c): an array of rows of bytes, a cursor   *)
(* (cy: row, from 1; cx: bytes before it in the row), the first row in     *)
(* view, and the file.  Each message is handled and drawn before the next. *)
(*                                                                         *)
(* A two-byte character is "P" (lead) and "Q" (trail).  Columns in view,   *)
(* colours and messages are left out; a scroll by wheel, thumb or track    *)
(* asks for any first row.  Text typed while the cursor is below the last  *)
(* row goes into unused rows and is not followed.                          *)
(***************************************************************************)
EXTENDS Naturals, Sequences, SequencesExt

CONSTANTS Names,        \* files
          Untitled,     \* /DESKTOP/UNTITLED.TXT, among them
          StartDisk,    \* name -> bytes; those not in its domain do not exist
          Keys,         \* letters of the keyboard, "s" among them
          MAX_ROWS, MAX_COLS,
          Wrap,         \* 72: where load_file breaks a line
          Heights,      \* rows in view
          MaxEdits      \* bound: keys that edit, loads and saves

VARIABLES rows, cx, cy, top,    \* g_rows, g_cx, g_cy, g_row_off
          view,                 \* visible_rows()
          dirty, untitled, name,
          disk,
          dialog,               \* none, save as, open
          astray,               \* since the last load: a key was refused, or a load failed
          failed,               \* the file of that name was cut short by the last save, or
                                \* could not be opened when the name was given
          edits

vars == <<rows, cx, cy, top, view, dirty, untitled, name, disk, dialog, astray, failed, edits>>

Empty == <<<< >>>>
Smaller(a, b) == IF a < b THEN a ELSE b
Row == rows[cy]
InText == cy <= Len(rows)

Init ==
    /\ rows = Empty /\ cx = 0 /\ cy = 1 /\ top = 0
    /\ view \in Heights
    /\ dirty = FALSE /\ untitled = TRUE /\ name = Untitled
    /\ disk = StartDisk
    /\ dialog = "none" /\ astray = FALSE /\ failed = FALSE /\ edits = 0
-----------------------------------------------------------------------------
(* row_insert_char, row_delete_char, insert_row. *)
RowInsert(row, col, c) ==
    IF Len(row) >= MAX_COLS - 2 THEN row ELSE InsertAt(row, Smaller(col, Len(row)) + 1, c)
RowDelete(row, col) == IF col >= Len(row) THEN row ELSE RemoveAt(row, col + 1)
RowsFull(rs) == Len(rs) >= MAX_ROWS - 1
InsertRow(rs, at, row) == IF RowsFull(rs) THEN rs ELSE InsertAt(rs, at, row)

(* load_file: a byte at a time, until the rows are used up.                *)
Shown(c) == IF c \in {"P", "Q"} THEN "?" ELSE c
AddLine(p) == [p EXCEPT !.rows = InsertRow(p.rows, Len(p.rows) + 1, p.line), !.line = << >>]
ParseByte(p, c) ==
    IF RowsFull(p.rows) \/ c = "CR" THEN p
    ELSE IF c = "LF" THEN AddLine(p)
    ELSE LET q == [p EXCEPT !.line = Append(@, Shown(c))]
         IN IF Len(q.line) >= Wrap THEN AddLine(q) ELSE q
Parsed(bytes) ==
    LET p == FoldLeft(ParseByte, [rows |-> << >>, line |-> << >>], bytes)
    IN IF p.line # << >> \/ p.rows = << >> THEN AddLine(p).rows ELSE p.rows

\* A slip, for Flat.
FlatLast(rs) == FlattenSeq([i \in 1 .. Len(rs) |-> IF i < Len(rs) /\ rs[i] # << >> THEN Append(rs[i], "LF") ELSE rs[i]])

(* save_file: the rows, each with a line end. *)
Flat(rs) == FlattenSeq([i \in 1 .. Len(rs) |-> Append(rs[i], "LF")])

(* scroll, before each drawing. *)
Follow(first, row) ==
    IF row - 1 < first THEN row - 1
    ELSE IF row - 1 >= first + view THEN row - view ELSE first
Draw == top' = Follow(top, cy')
-----------------------------------------------------------------------------
Loaded(n) ==
    /\ n \in DOMAIN disk
    /\ rows' = Parsed(disk[n]) /\ cx' = 0 /\ cy' = 1 /\ top' = 0
    /\ untitled' = FALSE /\ astray' = FALSE /\ failed' = FALSE
\* No such file, or vfs_open has no handle for it.
NotLoaded(n) ==
    /\ rows' = Empty
    /\ UNCHANGED <<cx, cy, untitled>> /\ Draw
    /\ astray' = (astray \/ cx > 0 \/ cy > 1) /\ failed' = (n \in DOMAIN disk)
Load(n) ==
    /\ name' = n /\ dirty' = FALSE
    /\ Loaded(n) \/ NotLoaded(n)
    /\ UNCHANGED <<view, disk>>

(* The disk may take less than is written; save_file does not look.        *)
Written(n, cut) ==
    /\ disk' = [m \in DOMAIN disk \cup {n} |->
                   IF m # n THEN disk[m]
                   ELSE IF cut THEN SubSeq(Flat(rows), 1, Len(Flat(rows)) \div 2) ELSE Flat(rows)]
    /\ dirty' = FALSE /\ failed' = cut
NotWritten(given) ==
    /\ failed' = (failed \/ given)
    /\ UNCHANGED <<disk, dirty>>
Save(n, given) ==
    /\ name' = n /\ untitled' = FALSE
    /\ NotWritten(given) \/ \E cut \in BOOLEAN : Written(n, cut)
    /\ UNCHANGED <<rows, cx, cy, top, view, astray>>

Ask(what) ==
    /\ dialog' = what
    /\ UNCHANGED <<rows, cx, cy, top, view, dirty, untitled, name, disk, astray, failed>>

\* Ctrl+S, [Save] and the letter s.
SaveKey ==
    /\ dialog = "none"
    /\ IF untitled THEN Ask("save as")
       ELSE Save(name, FALSE) /\ UNCHANGED dialog

(* The other buttons, and a file another program asks for, which does not  *)
(* wait for a dialog.                                                      *)
SaveAs == dialog = "none" /\ Ask("save as")
Open == dialog = "none" /\ Ask("open")
Reload == dialog = "none" /\ Load(name) /\ UNCHANGED dialog
OpenFile(n) == Load(n) /\ UNCHANGED dialog

DialogOk(n) ==
    /\ dialog # "none" /\ dialog' = "none"
    /\ IF dialog = "open" THEN Load(n) ELSE Save(n, TRUE)
DialogCancel == dialog # "none" /\ Ask("none")
-----------------------------------------------------------------------------
(* handle_key *)
Editing == dialog = "none" /\ InText /\ UNCHANGED <<view, untitled, name, disk, dialog, failed>>

Insert(cs) ==
    LET new == IF Len(cs) = 1 THEN RowInsert(Row, cx, cs[1])
               ELSE RowInsert(RowInsert(Row, cx, cs[1]), cx + 1, cs[2])
    IN /\ Editing
       /\ rows' = [rows EXCEPT ![cy] = new]
       /\ dirty' = (dirty \/ new # Row)
       /\ astray' = (astray \/ Len(new) # Len(Row) + Len(cs))
       /\ cx' = cx + Len(cs) /\ cy' = cy /\ Draw

IsSaveKey(c) == c = "s"
Letter(c) == IF IsSaveKey(c) THEN SaveKey ELSE Insert(<<c>>)
Cyrillic == Insert(<<"P", "Q">>)


Enter ==
    /\ Editing
    /\ rows' = IF cx >= Len(Row) THEN InsertRow(rows, cy + 1, << >>)
               ELSE InsertRow([rows EXCEPT ![cy] = SubSeq(Row, 1, cx)], cy + 1,
                              SubSeq(Row, cx + 1, Len(Row)))
    /\ dirty' = (dirty \/ ~RowsFull(rows))
    /\ astray' = (astray \/ RowsFull(rows))
    /\ cy' = cy + 1 /\ cx' = 0 /\ Draw

Fits(a, b) == Len(a) + Len(b) < MAX_COLS - 1
Joined(i) == RemoveAt([rows EXCEPT ![i] = rows[i] \o rows[i + 1]], i + 1)

Delete ==
    /\ Editing
    /\ IF cx < Len(Row)
       THEN rows' = [rows EXCEPT ![cy] = RowDelete(Row, cx)] /\ dirty' = TRUE
       ELSE IF cy < Len(rows) /\ Fits(Row, rows[cy + 1])
       THEN rows' = Joined(cy) /\ dirty' = TRUE
       ELSE UNCHANGED <<rows, dirty>>
    /\ UNCHANGED <<cx, cy, astray>> /\ Draw

\* Past the end of the row the byte before the cursor is a left-over.
Width == IF cx > Len(Row) THEN {1, 2}
         ELSE IF cx >= 2 /\ Row[cx] = "Q" THEN {2} ELSE {1}
Erased(row, n) == IF n = 1 THEN RowDelete(row, cx - 1) ELSE RowDelete(RowDelete(row, cx - 1), cx - 2)
Backspace ==
    /\ Editing
    /\ IF cx > 0
       THEN \E n \in Width :
              /\ n <= cx
              /\ rows' = [rows EXCEPT ![cy] = Erased(Row, n)]
              /\ dirty' = (dirty \/ Erased(Row, n) # Row)
              /\ cx' = cx - n /\ cy' = cy
       ELSE IF cy > 1 /\ Fits(rows[cy - 1], Row)
       THEN /\ rows' = Joined(cy - 1) /\ dirty' = TRUE
            /\ cy' = cy - 1 /\ cx' = Len(rows[cy - 1])
       ELSE UNCHANGED <<rows, dirty, cx, cy>>
    /\ UNCHANGED astray /\ Draw

(* Arrows, Home, End, the page keys and a click on the text.               *)
MoveTo(y, x) ==
    /\ Editing
    /\ cy' = y /\ cx' = x /\ Draw
    /\ UNCHANGED <<rows, dirty, astray>>
ToRow(y) == MoveTo(y, Smaller(cx, Len(rows[y])))
Less(a, b) == IF a > b THEN a - b ELSE 1

Up == ToRow(Less(cy, 1))
Down == ToRow(Smaller(cy + 1, Len(rows)))
PageUp == ToRow(Less(cy, view))
PageDown == ToRow(Smaller(cy + view, Len(rows)))
Left ==
    IF cx > 0 THEN MoveTo(cy, cx - 1)
    ELSE IF cy > 1 THEN MoveTo(cy - 1, Len(rows[cy - 1])) ELSE MoveTo(cy, cx)
Right ==
    IF cx < Len(Row) THEN MoveTo(cy, cx + 1)
    ELSE IF cy < Len(rows) THEN MoveTo(cy + 1, 0) ELSE MoveTo(cy, cx)
Home == MoveTo(cy, 0)
End == MoveTo(cy, Len(Row))

\* A click may also bring a cursor back that is below the last row.
Click(line, col) ==
    LET y == Smaller(top + line, Len(rows))
    IN /\ dialog = "none"
       /\ cy' = y /\ cx' = Smaller(col, Len(rows[y])) /\ Draw
       /\ UNCHANGED <<rows, view, dirty, untitled, name, disk, dialog, astray, failed>>
-----------------------------------------------------------------------------
(* The wheel, the thumb and the track of the scroll bar; a resize.         *)
MaxTop == IF Len(rows) > view THEN Len(rows) - view ELSE 0
Scroll(first) ==
    /\ first <= MaxTop
    /\ top' = Follow(first, cy)
    /\ UNCHANGED <<rows, cx, cy, view, dirty, untitled, name, disk, dialog, astray, failed>>
Resize(h) ==
    /\ view' = h
    /\ top' = IF cy - 1 < top THEN cy - 1 ELSE IF cy - 1 >= top + h THEN cy - h ELSE top
    /\ UNCHANGED <<rows, cx, cy, dirty, untitled, name, disk, dialog, astray, failed>>

Edit ==
    \/ \E c \in Keys : Letter(c)
    \/ Cyrillic \/ Enter \/ Delete \/ Backspace
    \/ Reload \/ \E n \in Names : OpenFile(n) \/ DialogOk(n)
Other ==
    \/ SaveAs \/ Open \/ DialogCancel
    \/ InText /\ (Up \/ Down \/ PageUp \/ PageDown \/ Left \/ Right \/ Home \/ End)
    \/ \E line \in 1 .. view, col \in 0 .. MAX_COLS : Click(line, col)
    \/ \E first \in 0 .. MAX_ROWS : Scroll(first)
    \/ \E h \in Heights : Resize(h)
Next ==
    \/ edits < MaxEdits /\ Edit /\ edits' = edits + 1
    \/ Other /\ UNCHANGED edits

Spec == Init /\ [][Next]_vars
-----------------------------------------------------------------------------
(* The cursor is in the text: rows come and go under it, and only a key    *)
(* refused for lack of room and a load that failed leave it elsewhere.     *)
CursorInside == ~astray => InText /\ cx <= Len(Row)

(* What is drawn has the cursor in view, after every key and resize.       *)
CursorInView == top <= cy - 1 /\ cy - 1 < top + view

(* Without the star in the title the text is what the file holds, unless   *)
(* the disk cut the last save short, or the name in the title was given    *)
(* for a file that could not be opened: a failed Save As leaves the star   *)
(* out and names a file of other bytes.                                    *)
CleanMeansSaved ==
    ~dirty /\ ~astray /\ ~failed /\ name \in DOMAIN disk
       => disk[name] = Flat(rows) \/ rows = Parsed(disk[name])
          \/ (untitled /\ rows = Empty)

(* A saved text of short lines without Cyrillic letters is loaded as it    *)
(* was: the line ends that separate rows and the one at the end, empty     *)
(* rows, an empty text.                                                    *)
RoundTrip ==
    (\A i \in DOMAIN rows : Len(rows[i]) < Wrap /\ \A j \in DOMAIN rows[i] : rows[i][j] \notin {"P", "Q"})
       => Parsed(Flat(rows)) = rows

(* The rows are one text and the cursor a place in it.  A step that is not *)
(* a load leaves the text, or adds one character or line end at the        *)
(* cursor, or removes one there or just before it, all else kept: at the   *)
(* limits, and with the cursor gone past the end of its row, too.  But     *)
(* where there is room for one byte only half a character is added; and    *)
(* Enter with all rows used cuts the rest of the row.  The cursor keeps    *)
(* its place in the text unless a key was refused.                         *)
Text(rs) == Front(Flat(rs))
Pos(rs, y, x) == Len(Flat(SubSeq(rs, 1, y - 1))) + Smaller(x, Len(rs[y]))
Upto(t, n) == SubSeq(t, 1, n)
From(t, n) == SubSeq(t, n + 1, Len(t))
Between(t, m, n) == SubSeq(t, m + 1, n)
OneKey(t) == t = <<"LF">> \/ "LF" \notin Range(t)
Adds(old, new, p, n) == /\ Len(new) = Len(old) + n
                        /\ Upto(new, p) = Upto(old, p) /\ From(new, p + n) = From(old, p)
                        /\ OneKey(Between(new, p, p + n))
Removes(old, new, p, n) == n <= p /\ new = Upto(old, p - n) \o From(old, p) /\ OneKey(Between(old, p - n, p))
EditsTheText ==
    [][LET old == Text(rows)
           new == Text(rows')
           p == Pos(rows, cy, cx)
           q == Pos(rows', cy', cx')
       IN \/ new = old
          \/ ~dirty' /\ (rows' = Empty \/ (name' \in DOMAIN disk /\ rows' = Parsed(disk[name'])))
          \/ /\ InText
             /\ \/ \E n \in 1 .. 2 : Adds(old, new, p, n) /\ (astray' \/ q = p + n)
                \/ \E n \in 1 .. 2 : Removes(old, new, p, n) /\ (astray' \/ q = p - n)
                \/ new = Upto(old, p) \o From(old, p + 1) /\ (astray' \/ q = p)
                \/ /\ RowsFull(rows) /\ cy' = cy + 1 /\ cx' = 0
                   /\ new = Upto(old, p) \o From(old, Pos(rows, cy, Len(Row)))]_vars
=============================================================================
