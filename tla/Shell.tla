------------------------------- MODULE Shell --------------------------------
(***************************************************************************)
(* The file manager, the icons of the desktop, and the handing over of a   *)
(* file from one program to another, side by side.  They share the disk    *)
(* only, which each of them lets others change.                            *)
(***************************************************************************)
EXTENDS Explorer

CONSTANTS Askers, Programs, Browser, Opener, NoFile, MaxAsks,       \* Handover
          StartIcons, IconSystem, IconNewNames, IconTyped, IconAlien,   \* Desktop
          RecycleName, Cols, Rows, Capacity, MaxMoves

VARIABLES target, ask, app, inbox, shows, last, stray, asks,
          folder, full, recycle, icons, count, icon, popup, asking, clipboard, scanned, moves

Open == INSTANCE Handover

Icons == INSTANCE Desktop WITH
    StartFiles <- StartIcons, System <- IconSystem, NewNames <- IconNewNames, Typed <- IconTyped,
    Alien <- IconAlien, MaxSteps <- MaxMoves, items <- icons, menu <- popup, dialog <- asking,
    clip <- clipboard, current <- scanned, steps <- moves

FileNames == Range(Alphabet)
Paths == Seq(FileNames)

(* The disk at the start has the directories of its files, other programs
   leave the files at its top alone that the system needs, and the menus
   protect the recycle bin. *)
ASSUME FolderAssumption ==
    /\ Alphabet \in Seq(FileNames)
    /\ IsFiniteSet(DOMAIN StartTree) /\ DOMAIN StartTree \subseteq Paths
    /\ \A p \in DOMAIN StartTree : \A n \in 0 .. Len(p) - 1 : SubSeq(p, 1, n) \in DOMAIN StartTree
    /\ NewNames \in Seq(FileNames) /\ NewNames # << >> /\ Typed \subseteq FileNames
    /\ Alien \subseteq Paths \ {<< >>}
    /\ \A p \in Alien : Len(p) = 1 => p[1] \notin System
    /\ {DESKTOP, RECYCLE} \subseteq FileNames /\ RECYCLE \in System
    /\ MAX_ITEMS \in Nat /\ View \in Nat \ {0} /\ WheelView \in Nat

ASSUME OpenAssumption == Open!OpenersKnown

(* No file is called like the bin, whose name does not fit the file system, no
   name is on the desktop twice, and there is a cell for each icon. *)
IconNames == Range(StartIcons) \cup Range(IconNewNames) \cup IconTyped \cup IconAlien \cup {RecycleName}
ASSUME IconAssumption ==
    /\ Icons!Bin \notin IconNames
    /\ StartIcons \in Seq(IconNames) /\ IconNewNames \in Seq(IconNames) /\ IconNewNames # << >>
    /\ \A i, j \in DOMAIN StartIcons : i # j => StartIcons[i] # StartIcons[j]
    /\ Cols \in Nat \ {0} /\ Rows \in Nat \ {0} /\ Capacity \in 1 .. Cols * Rows

folderVars == <<tree, path, items, sel, first, menu, dialog, clip, current, steps>>
openVars == <<target, ask, app, inbox, shows, last, stray, asks>>
iconVars == <<folder, full, recycle, icons, count, icon, popup, asking, clipboard, scanned, moves>>
shellVars == <<folderVars, openVars, iconVars>>

ShellInit == Init /\ Open!Init /\ Icons!Init

FolderStep == Next /\ UNCHANGED <<openVars, iconVars>>
OpenStep == Open!Next /\ UNCHANGED <<folderVars, iconVars>>
IconStep == Icons!Next /\ UNCHANGED <<folderVars, openVars>>

ShellNext == FolderStep \/ OpenStep \/ IconStep

ShellSpec == ShellInit /\ [][ShellNext]_shellVars
-----------------------------------------------------------------------------
(* The file manager leaves system items where they are, its listing is the
   directory after every operation, and menu and dialog act on the item they
   were opened on (explorer.c:308-520, 781-1103). *)
FolderSound == SystemItemsStay /\ ListingCurrent /\ MenuKeepsItsItem

(* No operation loses the bytes of a file that is not deleted for good, pasted
   over or its directory pasted into itself; what is grey does nothing; the
   selection stays in view (explorer.c:308-520, 781-1103). *)
FolderKeeps == BytesKept /\ GreyDoesNothing /\ KeysFollow

(* A request to open a file is under way until the program meant for it shows
   the file, as long as requests do not overlap or go astray (wasi.c:790-830,
   compositor.c:106-212, explorer.c:221-267). *)
RequestsMet == Open!OpensItsOwn /\ Open!RequestMet /\ Open!RequestUnderWay

(* The icons are the files of /DESKTOP, the bin first and no file twice,
   after every operation of the desktop (compositor.c:298-470, 1064-1300). *)
IconsSound == Icons!NamesDistinct /\ Icons!ListingCurrent

(* An icon keeps its cell while its file is shown, hides no other one, and
   "Text Document" empties no file (compositor.c:298-500, 1434-1531). *)
IconsKeep == Icons!CellsDistinct /\ Icons!PositionsKept /\ Icons!ContentsKept

(* What the menus, the Delete key and a drop protect stays: no operation of the
   desktop moves a system file or the recycle bin away (compositor.c:555). *)
SystemFilesStay == Icons!SystemFilesStay
=============================================================================
