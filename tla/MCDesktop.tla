----------------------------- MODULE MCDesktop ------------------------------
(***************************************************************************)
(* What the user deals with: what Shell composes, the editor, and the *)
(* input line of a dialog.  Each is checked by itself: a behaviour          *)
(* exercises one part.                                                     *)
(***************************************************************************)
EXTENDS Shell, TLC

VARIABLES part,
          rows, cx, cy, top, view, dirty, untitled, name, disk, box, astray, failed, edits,
          active, input, pos, result, stepped

Disk == "f" :> <<"x", "LF", "CR", "x", "x", "P", "x">>

Names == <<"D", "R", "a", "m", "n", "s", "u">>
Documents == <<"n", "m">>
Tree == (<< >> :> Dir) @@ (<<"D">> :> Dir) @@ (<<"R">> :> Dir) @@ (<<"s">> :> <<"s">>)
        @@ (<<"u">> :> Dir) @@ (<<"u", "a">> :> <<"1", "2">>) @@ (<<"R", "n">> :> <<"3">>)
AlienPath == {<<"D", "a">>}

TwoIcons == <<"s", "n">>

Openers == ("doc" :> "notepad") @@ ("pic" :> "viewer") @@ ("page" :> "browser")

N == INSTANCE Notepad WITH
    Names <- {"u", "f"}, Untitled <- "u", StartDisk <- Disk, Keys <- {"x", "s"},
    MAX_ROWS <- 4, MAX_COLS <- 6, Wrap <- 3, Heights <- {1, 2}, MaxEdits <- 3,
    dialog <- box

L == INSTANCE Dialog WITH
    Size <- 7, Columns <- 4,
    Defaults <- {<< >>, <<"x", "P", "Q">>, <<"x", "x", "P", "Q", "x", "x", "x">>}

textVars == <<rows, cx, cy, top, view, dirty, untitled, name, disk, box, astray, failed, edits>>
lineVars == <<active, input, pos, result, stepped>>

(* A part that is not exercised stays in one initial state. *)
DesktopInit ==
    /\ part \in {"icons", "files", "text", "line", "open"}
    /\ ShellInit
    /\ N!Init
    /\ L!Init
    /\ part = "text" \/ view = 1

DesktopNext ==
    /\ UNCHANGED part
    /\ \/ part = "icons" /\ IconStep /\ UNCHANGED <<textVars, lineVars>>
       \/ part = "files" /\ FolderStep /\ UNCHANGED <<textVars, lineVars>>
       \/ part = "open" /\ OpenStep /\ UNCHANGED <<textVars, lineVars>>
       \/ part = "text" /\ N!Next /\ UNCHANGED <<shellVars, lineVars>>
       \/ part = "line" /\ L!Next /\ UNCHANGED <<shellVars, textVars>>

DesktopSpec == DesktopInit /\ [][DesktopNext]_<<part, shellVars, textVars, lineVars>>

(* The editor's cursor is in the text and in view, a text without the star is
   what the file holds (but after a save cut short and a failed open under a new
   name) and is loaded as it was saved; the line of a dialog
   holds whole characters and shows its caret
   (notepad.c:55-265, 528-676, woos_dialog.h:124-323). *)
TextSound ==
    /\ part = "text" => /\ N!CursorInside /\ N!CursorInView
                       /\ N!CleanMeansSaved /\ N!RoundTrip
    /\ part = "line" => L!CharactersWhole /\ L!CaretShown

=============================================================================
