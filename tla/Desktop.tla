------------------------------- MODULE Desktop -------------------------------
(***************************************************************************)
(* The icons of the desktop (apps/compositor.c): the array g_items, its    *)
(* synchronisation with the directory /DESKTOP, and what the mouse, the    *)
(* context menu, the dialogs and the keyboard do to the files through      *)
(* indices into that array.  Other programs change /DESKTOP at any time.   *)
(*                                                                         *)
(* Indices count from 1; 0 is the code's -1.  Icons are clicked and        *)
(* dropped by grid cell.  FatFs (external): a rename fails when the source *)
(* is missing or the target is there; a new entry takes any free slot.     *)
(***************************************************************************)
EXTENDS Naturals, Sequences, SequencesExt, FiniteSets

CONSTANTS StartFiles,   \* /DESKTOP at boot, in directory order
          System,       \* names for which is_system_item holds
          NewNames,         \* NEWDOC.TXT, NEWDOC2.TXT, ... in the order they are tried
          Typed,        \* names the user may type into a dialog
          Alien,        \* names other programs create and remove
          RecycleName,  \* the last part of the path /RECYCLE
          Cols, Rows,   \* GRID_COLS, GRID_ROWS
          Capacity,     \* MAX_DESKTOP_ITEMS
          MaxSteps      \* bound: operations on files and moves of icons

VARIABLES folder,       \* /DESKTOP: its names in directory order
          full,         \* those that have contents
          recycle,      \* /RECYCLE: whether it is there, the names in it
          items, count, \* g_items with what is left in the unused slots, g_item_count
          icon,         \* indices: selected, pressed, dragged
          menu,         \* g_ctx_menu_open, g_ctx_target_item
          dialog,       \* mode of the open dialog, g_dialog_target_idx
          clip,         \* clipboard
          current,      \* no other program changed /DESKTOP since the last scan
          steps         \* operations and moves so far

vars == <<folder, full, recycle, items, count, icon, menu, dialog, clip, current, steps>>

Cells == (0 .. Cols - 1) \X (0 .. Rows - 1)
BinCell == <<0, 0>>
Bin == "Recycle Bin"
Present == Range(folder)
Items == SubSeq(items, 1, count)

(* Dialog modes; "New Folder" is opened with the number of "Rename". *)
NONE == 0
PROPERTIES == 1
NEWFILE == 3
RENAME == 4
FOLDER == 4
-----------------------------------------------------------------------------
(* sync_desktop_items.  The bin first and where it was; then every scanned *)
(* name that was shown keeps its cell if that is free; then the others in  *)
(* the first free cells, column by column.                                 *)
Before(a, b) == a[1] < b[1] \/ (a[1] = b[1] /\ a[2] <= b[2])
Taken(list) == {list[i].cell : i \in DOMAIN list}
Named(list) == {list[i].name : i \in DOMAIN list}
FirstFree(list) == CHOOSE c \in Cells \ Taken(list) : \A d \in Cells \ Taken(list) : Before(c, d)
CellOf(n) == (CHOOSE it \in Range(Tail(Items)) : it.name = n).cell

Scanned(dir) == SubSeq(dir, 1, IF Len(dir) < Capacity THEN Len(dir) ELSE Capacity - 1)
BinItem == IF count > 0 THEN items[1] ELSE [name |-> Bin, cell |-> BinCell]
Retain(list, n) ==
    IF count > 0 /\ n \in Named(Tail(Items)) /\ CellOf(n) \notin Taken(list)
    THEN Append(list, [name |-> n, cell |-> CellOf(n)]) ELSE list
Place(list, n) ==
    IF n \in Named(Tail(list)) \/ Cells \subseteq Taken(list) THEN list
    ELSE Append(list, [name |-> n, cell |-> FirstFree(list)])

Retained(scan) ==
    LET f[k \in 0 .. Len(scan)] == IF k = 0 THEN <<BinItem>> ELSE Retain(f[k - 1], scan[k])
    IN f[Len(scan)]
Placed(scan) ==
    LET f[k \in 0 .. Len(scan)] == IF k = 0 THEN Retained(scan) ELSE Place(f[k - 1], scan[k])
    IN f[Len(scan)]
Listed(dir) == Placed(Scanned(dir))
Slots(list) == list \o SubSeq(items, Len(list) + 1, Len(items))

Sync(dir) ==
    /\ LET list == Listed(dir) IN items' = Slots(list) /\ count' = Len(list)
    /\ current' = TRUE
Keep == UNCHANGED <<items, count, current>>

Closed == [open |-> FALSE, target |-> 0]
NoClip == [name |-> Bin, set |-> FALSE, cut |-> FALSE]

Init ==
    /\ folder = StartFiles /\ full = Range(StartFiles)
    /\ recycle = [there |-> TRUE, names |-> {}]
    /\ count = Len(Scanned(StartFiles)) + 1
    /\ items = [i \in 1 .. count |->
                   [name |-> IF i = 1 THEN Bin ELSE StartFiles[i - 1],
                    cell |-> <<(i - 1) \div Rows, (i - 1) % Rows>>]]
    /\ icon = [sel |-> 0, press |-> 0, drag |-> 0]
    /\ menu = Closed
    /\ dialog = [mode |-> NONE, target |-> 0]
    /\ clip = NoClip
    /\ current = TRUE /\ steps = 0
-----------------------------------------------------------------------------
(* What is done to the files; each ends with a scan. *)
Without(n) ==
    IF n \in Present THEN RemoveAt(folder, CHOOSE i \in DOMAIN folder : folder[i] = n) ELSE folder
Inserts(n, dir) == {InsertAt(dir, i, n) : i \in 1 .. Len(dir) + 1}
Protected(i) == i = 1 \/ items[i].name \in System

\* A slip, for Recycle.
RecycleUnscanned(i) ==
    LET n == items[i].name
    IN IF i <= 1 \/ i > count \/ Protected(i)
       THEN Keep /\ UNCHANGED <<folder, full, recycle>>
       ELSE /\ IF n \in Present /\ recycle.there /\ n \notin recycle.names
               THEN /\ folder' = Without(n) /\ full' = full \ {n}
                    /\ recycle' = [recycle EXCEPT !.names = @ \cup {n}]
               ELSE UNCHANGED <<folder, full, recycle>>
            /\ Keep

\* delete_item_to_recycle
Recycle(i) ==
    LET n == items[i].name
    IN IF i <= 1 \/ i > count \/ Protected(i)
       THEN Keep /\ UNCHANGED <<folder, full, recycle>>
       ELSE /\ IF n \in Present /\ recycle.there /\ n \notin recycle.names
               THEN /\ folder' = Without(n) /\ full' = full \ {n}
                    /\ recycle' = [recycle EXCEPT !.names = @ \cup {n}]
               ELSE UNCHANGED <<folder, full, recycle>>
            /\ Sync(folder')

\* apply_desktop_dialog, renaming; the path of item 1 is /RECYCLE.
RenameTo(i, n) ==
    LET old == items[i].name
    IN /\ IF i = 1 /\ recycle.there /\ n \notin Present
          THEN /\ folder' \in Inserts(n, folder) /\ UNCHANGED full
               /\ recycle' = [recycle EXCEPT !.there = FALSE]
          ELSE IF i # 1 /\ old \in Present /\ (n = old \/ n \notin Present)
          THEN /\ folder' \in Inserts(n, Without(old)) /\ UNCHANGED recycle
               /\ full' = IF old \in full THEN (full \ {old}) \cup {n} ELSE full
          ELSE UNCHANGED <<folder, full, recycle>>
       /\ Sync(folder')

\* create_desktop_file truncates what is there; create_desktop_folder fails.
CreateFile(n) ==
    /\ folder' \in IF n \in Present THEN {folder} ELSE Inserts(n, folder)
    /\ full' = full \ {n} /\ UNCHANGED recycle
    /\ Sync(folder')
CreateFolder(n) ==
    /\ folder' \in IF n \in Present THEN {folder} ELSE Inserts(n, folder)
    /\ UNCHANGED <<full, recycle>>
    /\ Sync(folder')

\* generate_unique_desktop_name asks the icons, and gives up on the last name.
UniqueName ==
    LET free == {k \in DOMAIN NewNames : NewNames[k] \notin Named(Items)}
    IN IF free = {} THEN Last(NewNames) ELSE NewNames[CHOOSE k \in free : \A j \in free : k <= j]

\* paste_clipboard: always into /DESKTOP, where all but the bin come from.
Paste ==
    LET target == IF clip.name = Bin THEN RecycleName ELSE clip.name
        there == IF clip.name = Bin THEN recycle.there ELSE clip.name \in Present
    IN IF ~clip.set THEN Keep /\ UNCHANGED <<folder, full, recycle, clip>>
       ELSE /\ folder' \in IF ~there THEN {folder}
                           ELSE IF clip.cut THEN Inserts(target, Without(target))
                           ELSE IF target \in Present THEN {folder} ELSE Inserts(target, folder)
            /\ clip' = IF clip.cut THEN NoClip ELSE clip
            /\ Sync(folder')
            /\ UNCHANGED <<full, recycle>>
-----------------------------------------------------------------------------
(* Presses on the desktop.  A dialog takes every press; a menu closes.     *)
ItemAt(list, c) ==
    IF c \notin Taken(list) THEN 0
    ELSE CHOOSE i \in DOMAIN list : list[i].cell = c /\ \A j \in 1 .. i - 1 : list[j].cell # c
Scan == IF icon.drag = 0 THEN Sync(folder) ELSE Keep

RightPress(c) ==
    /\ dialog.mode = NONE
    /\ Scan
    /\ menu' = [open |-> TRUE, target |-> ItemAt(Items', c)]
    /\ UNCHANGED <<folder, full, recycle, icon, dialog, clip>>

\* A second press within 450 ms starts the program; the icon is not held then,
\* as after a release.
LeftPress(c) ==
    LET i == ItemAt(Items', c)
    IN /\ dialog.mode = NONE /\ icon.press = 0 /\ icon.drag = 0
       /\ Scan
       /\ icon' = [icon EXCEPT !.sel = i, !.press = i]
       /\ menu' = Closed
       /\ UNCHANGED <<folder, full, recycle, dialog, clip>>

PressElsewhere ==
    /\ dialog.mode = NONE /\ menu.open
    /\ menu' = Closed
    /\ UNCHANGED <<folder, full, recycle, items, count, icon, dialog, clip, current>>

DragStart ==
    /\ icon.press # 0 /\ icon.drag = 0
    /\ icon' = [icon EXCEPT !.drag = icon.press]
    /\ UNCHANGED <<folder, full, recycle, items, count, menu, dialog, clip, current>>

\* A slip, for MoveTo.
MoveOver(i, c) == [items EXCEPT ![i].cell = c]

(* A drop at cell (0, 0) recycles, wherever the bin is; elsewhere the icon *)
(* moves and the one that is there takes its cell.                         *)
MoveTo(i, c) ==
    LET there == {j \in 1 .. count : j # i /\ items[j].cell = c}
        j == CHOOSE k \in there : \A l \in there : k <= l
    IN IF there = {} THEN [items EXCEPT ![i].cell = c]
       ELSE [items EXCEPT ![j].cell = items[i].cell, ![i].cell = c]

Drop(c) ==
    /\ icon.drag # 0
    /\ IF c = BinCell /\ icon.drag # 1 THEN Recycle(icon.drag)
       ELSE /\ items' = MoveTo(icon.drag, c)
            /\ UNCHANGED <<folder, full, recycle, count, current>>
    /\ icon' = [icon EXCEPT !.press = 0, !.drag = 0]
    /\ UNCHANGED <<menu, dialog, clip>>
LetGo ==
    /\ icon.press # 0 /\ icon.drag = 0
    /\ icon' = [icon EXCEPT !.press = 0]
    /\ UNCHANGED <<folder, full, recycle, items, count, menu, dialog, clip, current>>
-----------------------------------------------------------------------------
(* The context menu acts on the index it was opened for.  While the left   *)
(* button holds an icon only the right one can be pressed, which opens the *)
(* menu, and letting it go drops the icon.                                 *)
MenuPressed ==
    /\ menu.open /\ dialog.mode = NONE
    /\ icon.press = 0 /\ icon.drag = 0
    /\ menu' = Closed
    /\ UNCHANGED <<icon>>
OnItem == menu.target # 0

MenuClip(cut) ==
    /\ MenuPressed /\ OnItem /\ ~(cut /\ Protected(menu.target))
    /\ clip' = [name |-> items[menu.target].name, set |-> TRUE, cut |-> cut]
    /\ UNCHANGED <<folder, full, recycle, items, count, dialog, current>>
MenuRecycle ==
    /\ MenuPressed /\ OnItem /\ ~Protected(menu.target)
    /\ Recycle(menu.target)
    /\ UNCHANGED <<dialog, clip>>
MenuRename ==
    /\ MenuPressed /\ OnItem /\ ~Protected(menu.target)
    /\ dialog' = [mode |-> RENAME, target |-> menu.target]
    /\ UNCHANGED <<folder, full, recycle, items, count, clip, current>>
MenuProperties ==
    /\ MenuPressed
    /\ dialog' = [mode |-> PROPERTIES, target |-> menu.target]
    /\ UNCHANGED <<folder, full, recycle, items, count, clip, current>>

MenuPaste ==
    /\ MenuPressed /\ ~OnItem
    /\ Paste
    /\ UNCHANGED dialog
MenuRefresh ==
    /\ MenuPressed /\ ~OnItem
    /\ Sync(folder)
    /\ UNCHANGED <<folder, full, recycle, dialog, clip>>
MenuTextDocument ==
    /\ MenuPressed /\ ~OnItem
    /\ CreateFile(UniqueName)
    /\ UNCHANGED <<dialog, clip>>
MenuNew(mode) ==
    /\ MenuPressed /\ ~OnItem
    /\ dialog' = [dialog EXCEPT !.mode = mode]
    /\ UNCHANGED <<folder, full, recycle, items, count, clip, current>>

(* apply_desktop_dialog, and the ways out of a dialog. *)
DialogOk(n) ==
    /\ dialog.mode \in {NEWFILE, RENAME}
    /\ IF dialog.mode = RENAME /\ dialog.target # 0 THEN RenameTo(dialog.target, n)
       ELSE IF dialog.mode = NEWFILE THEN CreateFile(n)
       ELSE CreateFolder(n)
    /\ dialog' = [dialog EXCEPT !.mode = NONE]
    /\ UNCHANGED <<icon, menu, clip>>
DialogClose ==
    /\ dialog.mode # NONE
    /\ dialog' = [dialog EXCEPT !.mode = NONE]
    /\ UNCHANGED <<folder, full, recycle, items, count, icon, menu, clip, current>>
-----------------------------------------------------------------------------
(* The second's tick and window changes scan unless an icon is dragged;    *)
(* F5 always does.                                                         *)
Tick ==
    /\ icon.drag = 0
    /\ Sync(folder)
    /\ UNCHANGED <<folder, full, recycle, icon, menu, dialog, clip>>
F5 ==
    /\ dialog.mode = NONE
    /\ Sync(folder)
    /\ UNCHANGED <<folder, full, recycle, icon, menu, dialog, clip>>
DeleteKey ==
    /\ dialog.mode = NONE
    /\ icon.sel > 1 /\ icon.sel <= count /\ ~Protected(icon.sel)
    /\ Recycle(icon.sel)
    /\ icon' = [icon EXCEPT !.sel = 0]
    /\ UNCHANGED <<menu, dialog, clip>>

(* Other programs. *)
Outside ==
    /\ \E n \in Alien :
         \/ n \in Present /\ folder' = Without(n) /\ full' = full \ {n}
         \/ n \notin Present /\ folder' \in Inserts(n, folder) /\ full' = full \cup {n}
    /\ current' = FALSE
    /\ UNCHANGED <<recycle, items, count, icon, menu, dialog, clip>>

(* What only looks, points or scans, and what changes files or cells.      *)
Look ==
    \/ \E c \in Cells : RightPress(c) \/ LeftPress(c)
    \/ PressElsewhere \/ DragStart \/ LetGo
    \/ \E cut \in BOOLEAN : MenuClip(cut)
    \/ MenuRename \/ MenuProperties \/ MenuNew(NEWFILE) \/ MenuNew(FOLDER) \/ MenuRefresh
    \/ DialogClose \/ Tick \/ F5
Change ==
    \/ \E c \in Cells : Drop(c)
    \/ MenuRecycle \/ MenuPaste \/ MenuTextDocument
    \/ \E n \in Typed : DialogOk(n)
    \/ DeleteKey \/ Outside
Next ==
    \/ Look /\ UNCHANGED steps
    \/ steps < MaxSteps /\ Change /\ steps' = steps + 1

Spec == Init /\ [][Next]_vars
-----------------------------------------------------------------------------
Distinct == \A i, j \in 1 .. count : i # j => items[i].cell # items[j].cell

(* No file is shown twice and the bin is the first item.                   *)
NamesDistinct ==
    /\ items[1].name = Bin
    /\ \A i, j \in 1 .. count : i # j => items[i].name # items[j].name

(* No icon comes to hide another, and a scan parts those that do.  The     *)
(* exception: a drop writes into g_items even if the icon it holds is gone *)
(* and its index is past the last item.                                    *)
CellsDistinct ==
    [][UNCHANGED <<items, count>> \/ Distinct' \/ icon.drag > count \/ (~Distinct /\ (UNCHANGED items \/ icon.drag # 0))]_vars

(* After a scan the icons are the files of /DESKTOP, as many as there is   *)
(* room for: no operation of the desktop leaves them out of date.          *)
ListingCurrent ==
    current => Named(Tail(Items)) = Range(Scanned(folder))

(* An icon stays in its cell for as long as its file is shown, unless it   *)
(* or another was dragged.                                                 *)
PositionsKept ==
    [][UNCHANGED items \/ icon.drag # 0 \/ ~Distinct \/
       \A i \in 1 .. count, j \in 1 .. count' :
          items[i].name = items'[j].name => items[i].cell = items'[j].cell]_vars

(* "Text Document" empties no file as long as the icons show all of        *)
(* /DESKTOP and a number is left: only the dialog for a new file does.     *)
ContentsKept ==
    [][\A n \in full \ full' :
          \/ n \notin Range(folder')
          \/ dialog.mode # NONE
          \/ ~current \/ Len(folder) >= Capacity
          \/ Range(NewNames) \subseteq Named(Items)]_vars

(* What the menus, the Delete key and a drop protect stays: no operation   *)
(* of the desktop moves a system file or the recycle bin away.             *)
SystemFilesStay ==
    /\ recycle.there
    /\ System \cap Range(StartFiles) \subseteq Present
=============================================================================
