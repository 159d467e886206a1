------------------------------ MODULE Explorer ------------------------------
(***************************************************************************)
(* The file manager (apps/explorer.c): the directory it shows, the         *)
(* selection, the context menu with its submenus, the dialogs, and what    *)
(* they do to the files.  A path is the sequence of its names; indices     *)
(* count from 1, 0 is the code's -1.  Other programs change files at any   *)
(* time.  FatFs (external): a rename fails when the target is there; a     *)
(* directory renamed into itself can no longer be reached.                 *)
(*                                                                         *)
(* Which program opens a file is in Handover, the text of a dialog in      *)
(* Dialog.  Paths stay within their 64 bytes.                              *)
(***************************************************************************)
EXTENDS Naturals, Sequences, SequencesExt, FiniteSetsExt

CONSTANTS StartTree,    \* path -> contents
          System,       \* names for which is_system_item holds
          Alphabet,     \* all names, in the order of the listing
          NewNames,         \* NEWDOC.TXT, NEWDOC2.TXT, ... in the order they are tried
          Typed,        \* names the user may type
          Alien,        \* paths other programs create and remove
          DESKTOP, RECYCLE,
          MAX_ITEMS,
          View,         \* rows in view
          WheelView,    \* rows in view, as the wheel counts them
          MaxSteps      \* bound: operations on files and the clipboard

VARIABLES tree,         \* the disk
          path, items,  \* g_current_path, g_items
          sel, first,   \* g_selected_idx, g_scroll_offset
          menu,         \* g_ctx_open, g_ctx_submenu, g_ctx_target_idx; history: the item
                        \* it was opened on, until a key may have changed the listing
          dialog,       \* the open dialog
          clip,         \* g_clipboard_path, g_clipboard_is_cut
          current,      \* no other program changed a file since the last scan
          steps         \* operations so far

vars == <<tree, path, items, sel, first, menu, dialog, clip, current, steps>>
shown == <<path, items, sel, first, current>>

Dir == <<"dir">>
Present == DOMAIN tree
IsDir(p) == p \in Present /\ tree[p] = Dir
IsFile(p) == p \in Present /\ tree[p] # Dir
Children(t, p) == {q \in DOMAIN t : q # << >> /\ Front(q) = p}
Count == Len(items)
InRecycle == path = <<RECYCLE>>
Item(i) == items[i].path
NameOf(i) == Last(Item(i))
IsSystem(i) == NameOf(i) \in System
Closed == [open |-> FALSE, sub |-> "none", target |-> 0, for |-> << >>]

(* load_directory: as many entries as fit, directories first, by name.     *)
Entries(t, p) == {[path |-> q, dir |-> t[q] = Dir] : q \in Children(t, p)}
Rank(n) == CHOOSE k \in DOMAIN Alphabet : Alphabet[k] = n
Earlier(a, b) ==
    IF a.dir # b.dir THEN a.dir ELSE Rank(Last(a.path)) < Rank(Last(b.path))
InOrder(s) ==
    [k \in 1 .. Cardinality(s) |->
        CHOOSE e \in s : Cardinality({f \in s : Earlier(f, e)}) = k - 1]
Listed(t, p) ==
    LET all == Entries(t, p)
        n == IF Cardinality(all) < MAX_ITEMS THEN Cardinality(all) ELSE MAX_ITEMS
    IN {InOrder(s) : s \in kSubset(n, all)}
Load(p) ==
    /\ path' = p /\ sel' = 1 /\ first' = 0
    /\ items' \in Listed(tree', p)
    /\ current' = TRUE

Init ==
    /\ tree = StartTree /\ path = << >>
    /\ items \in Listed(StartTree, << >>)
    /\ sel = 1 /\ first = 0 /\ menu = Closed /\ dialog = "none"
    /\ clip = [path |-> << >>, cut |-> FALSE]
    /\ current = TRUE /\ steps = 0
-----------------------------------------------------------------------------
(* FatFs *)
Rest(p, q) == SubSeq(q, Len(p) + 1, Len(q))
Below(p) == {q \in Present : IsPrefix(p, q)}
\* A slip, for Renamed.
RenamedOver(old, new) ==
    IF old \notin Present \/ ~IsDir(Front(new)) \/ IsDir(new) \/ IsPrefix(old, new) THEN tree
    ELSE LET moved == {new \o Rest(old, q) : q \in Below(old)}
         IN [q \in (Present \ Below(old)) \cup moved |->
               IF q \in moved THEN tree[old \o Rest(new, q)] ELSE tree[q]]

Renamed(old, new) ==
    IF old \notin Present \/ ~IsDir(Front(new)) \/ new \in Present THEN tree
    ELSE LET kept == Present \ Below(old)
             moved == IF IsPrefix(old, new) THEN {} ELSE {new \o Rest(old, q) : q \in Below(old)}
         IN [q \in kept \cup moved |->
               IF q \in moved THEN tree[old \o Rest(new, q)] ELSE tree[q]]
With(p, bytes) == [q \in Present \cup {p} |-> IF q = p THEN bytes ELSE tree[q]]
Created(p, bytes) == IF IsDir(Front(p)) /\ p \notin Present THEN With(p, bytes) ELSE tree
Truncated(p) == IF IsFile(p) THEN With(p, << >>) ELSE Created(p, << >>)
Unlinked(gone) == [q \in Present \ {p \in gone : Below(p) = {p}} |-> tree[q]]

(* paste_to_current: the copy is written over what is there, whose tail    *)
(* stays; of a directory an empty file is made.                            *)
Copied(from, to) ==
    LET bytes == IF IsDir(from) THEN << >> ELSE tree[from]
    IN IF from \notin Present THEN tree
       ELSE IF IsFile(to) THEN With(to, bytes \o Rest(bytes, tree[to]))
       ELSE Created(to, bytes)
-----------------------------------------------------------------------------
In(name) == Append(path, name)

\* open_item; a file goes to another program.
OpenItem(i) ==
    IF i \in 1 .. Count /\ items[i].dir
    THEN UNCHANGED tree /\ Load(Item(i))
    ELSE UNCHANGED <<tree, shown>>
NavigateUp ==
    IF path = << >> THEN UNCHANGED <<tree, shown>> ELSE UNCHANGED tree /\ Load(Front(path))
Refresh == UNCHANGED tree /\ Load(path)

(* The operations of the menu and of the Delete key. *)
ToRecycle(i) == tree' = Renamed(Item(i), <<RECYCLE, NameOf(i)>>) /\ Load(path)
Restore(i) == tree' = Renamed(Item(i), <<DESKTOP, NameOf(i)>>) /\ Load(path)
DeleteForever(i) == tree' = Unlinked({Item(i)}) /\ Load(path)
EmptyRecycle ==
    /\ IF IsDir(<<RECYCLE>>)
       THEN /\ tree' = Unlinked({p \in Children(tree, <<RECYCLE>>) : Last(p) \notin System})
            /\ Load(path)
       ELSE UNCHANGED <<tree, shown>>
Paste ==
    IF clip.path = << >> THEN UNCHANGED <<tree, shown, clip>>
    ELSE /\ tree' = IF clip.cut THEN Renamed(clip.path, In(Last(clip.path)))
                    ELSE Copied(clip.path, In(Last(clip.path)))
         /\ clip' = IF clip.cut THEN [clip EXCEPT !.path = << >>] ELSE clip
         /\ Load(path)

\* generate_unique_explorer_name asks the listing, and gives up on the last name.
UniqueName ==
    LET free == {k \in DOMAIN NewNames : In(NewNames[k]) \notin {Item(i) : i \in 1 .. Count}}
    IN IF free = {} THEN Last(NewNames) ELSE NewNames[Min(free)]
TextDocument == tree' = Truncated(In(UniqueName)) /\ Load(path)
-----------------------------------------------------------------------------
(* Which items of the menu are drawn grey. *)
Disabled(i, what) ==
    IsSystem(i) /\ what \in (IF InRecycle THEN {"delete"} ELSE {"cut", "recycle", "rename"})

OnItem == menu.target \in 1 .. Count
Quiet == dialog = "none"
Pick == menu.open /\ Quiet
\* What the menu was opened on is used again by a dialog only.
Put == menu' = IF dialog' = "none" THEN Closed ELSE [menu EXCEPT !.open = FALSE, !.sub = "none"]

ItemMenu(what) ==
    LET i == menu.target
        free == ~IsSystem(i)
    IN /\ Pick /\ OnItem
       /\ IF InRecycle
          THEN CASE what = "restore" -> Restore(i) /\ UNCHANGED <<dialog, clip>>
                 [] what = "delete" -> /\ IF free THEN DeleteForever(i) ELSE UNCHANGED <<tree, shown>>
                                       /\ UNCHANGED <<dialog, clip>>
                 [] what = "properties" -> dialog' = what /\ UNCHANGED <<tree, shown, clip>>
          ELSE CASE what = "open" -> OpenItem(i) /\ UNCHANGED <<dialog, clip>>
                 [] what = "cut" -> /\ clip' = IF free THEN [path |-> Item(i), cut |-> TRUE] ELSE clip
                                    /\ UNCHANGED <<tree, shown, dialog>>
                 [] what = "copy" -> /\ clip' = [path |-> Item(i), cut |-> FALSE]
                                     /\ UNCHANGED <<tree, shown, dialog>>
                 [] what = "recycle" -> /\ IF free THEN ToRecycle(i) ELSE UNCHANGED <<tree, shown>>
                                        /\ UNCHANGED <<dialog, clip>>
                 [] what = "rename" -> /\ dialog' = IF free THEN what ELSE dialog
                                       /\ UNCHANGED <<tree, shown, clip>>
                 [] what = "properties" -> dialog' = what /\ UNCHANGED <<tree, shown, clip>>
       /\ Put
ItemChoices == IF InRecycle THEN {"restore", "delete", "properties"}
               ELSE {"open", "cut", "copy", "recycle", "rename", "properties"}

BackgroundMenu(what) ==
    /\ Pick /\ ~OnItem
    /\ CASE what = "empty" -> EmptyRecycle /\ UNCHANGED <<dialog, clip>>
         [] what = "refresh" -> Refresh /\ UNCHANGED <<dialog, clip>>
         [] what = "paste" -> Paste /\ UNCHANGED dialog
         [] what = "properties" -> dialog' = what /\ UNCHANGED <<tree, shown, clip>>
    /\ Put
BackgroundChoices == IF InRecycle THEN {"empty", "refresh", "properties"}
                     ELSE {"paste", "refresh", "properties"}

(* "Open with..." and "New..." keep the menu open.  A submenu stays where  *)
(* it is when a key changes the listing under it.                          *)
Submenu ==
    /\ Pick /\ ~InRecycle
    /\ LET which == IF OnItem THEN "open with" ELSE "new"
       IN menu' = [menu EXCEPT !.sub = IF @ = which THEN "none" ELSE which]
    /\ UNCHANGED <<tree, shown, dialog, clip>>
OpenWith == Pick /\ menu.sub = "open with" /\ UNCHANGED <<tree, shown, dialog, clip>> /\ Put
New(what) ==
    /\ Pick /\ menu.sub = "new"
    /\ IF what = "document" THEN TextDocument /\ UNCHANGED dialog
       ELSE dialog' = what /\ UNCHANGED <<tree, shown>>
    /\ UNCHANGED clip /\ Put

(* apply_explorer_dialog; the ways out of a dialog. *)
Apply(name) ==
    /\ dialog \in {"rename", "file", "folder"} /\ dialog' = "none"
    /\ tree' = IF dialog # "file" /\ OnItem
               THEN IF IsSystem(menu.target) THEN tree ELSE Renamed(Item(menu.target), In(name))
               ELSE IF dialog = "file" THEN Created(In(name), << >>)
               ELSE IF dialog = "folder" THEN Created(In(name), Dir) ELSE tree
    /\ Load(path)
    /\ UNCHANGED clip /\ Put
Dismiss == dialog # "none" /\ dialog' = "none" /\ UNCHANGED <<tree, shown, clip>> /\ Put
-----------------------------------------------------------------------------
(* handle_right_click; a left click outside the menu closes it and counts. *)
Visible == {i \in first + 1 .. first + View : i <= Count}
RightClick(i) ==
    /\ Quiet /\ i \in Visible \cup {0}
    /\ sel' = IF i > 0 THEN i ELSE sel
    /\ menu' = [Closed EXCEPT !.open = TRUE, !.target = i,
                              !.for = IF i > 0 THEN Item(i) ELSE << >>]
    /\ UNCHANGED <<tree, path, items, first, current, dialog, clip>>

\* A slip, for Clicked.
MenuLeftOpen == Quiet /\ menu' = [menu EXCEPT !.sub = "none"] /\ UNCHANGED <<dialog, clip>>

Clicked == Quiet /\ UNCHANGED <<dialog, clip>> /\ Put
ClickRow(i) ==
    /\ Clicked /\ i \in Visible
    /\ IF sel = i THEN OpenItem(i)
       ELSE sel' = i /\ UNCHANGED <<tree, path, items, first, current>>
ClickNothing == Clicked /\ menu.open /\ UNCHANGED <<tree, shown>>
ClickUp == Clicked /\ NavigateUp
ClickRefresh == Clicked /\ Refresh
ClickPlace(p) == Clicked /\ UNCHANGED tree /\ Load(p)

Wheel(n) ==
    /\ n <= (IF Count > WheelView THEN Count - WheelView ELSE 0)
    /\ first' = n
    /\ UNCHANGED <<tree, path, items, sel, current, menu, dialog, clip>>

(* handle_key; the menu stays open. *)
Key == Quiet /\ menu' = [menu EXCEPT !.for = << >>] /\ UNCHANGED <<dialog, clip>>
EnterKey == Key /\ OpenItem(sel)
BackspaceKey == Key /\ NavigateUp
F5Key == Key /\ Refresh
DeleteKey ==
    /\ Key
    /\ IF sel \in 1 .. Count /\ ~IsSystem(sel)
       THEN IF InRecycle THEN DeleteForever(sel) ELSE ToRecycle(sel)
       ELSE UNCHANGED <<tree, shown>>
FollowUp(i) == IF i - 1 < first THEN i - 1 ELSE first
FollowDown(i) == IF i - 1 >= first + View THEN i - View ELSE first
UpKey ==
    /\ Key /\ sel > 1
    /\ sel' = sel - 1 /\ first' = FollowUp(sel')
    /\ UNCHANGED <<tree, path, items, current>>
DownKey ==
    /\ Key /\ sel < Count
    /\ sel' = sel + 1 /\ first' = FollowDown(sel')
    /\ UNCHANGED <<tree, path, items, current>>

(* Other programs. *)
Outside(p) ==
    /\ IsDir(Front(p))
    /\ tree' = IF p \in Present THEN Unlinked({p}) ELSE With(p, <<"x">>)
    /\ current' = FALSE
    /\ UNCHANGED <<path, items, sel, first, menu, dialog, clip>>

Look ==
    \/ \E i \in 0 .. MAX_ITEMS : RightClick(i) \/ ClickRow(i) \/ Wheel(i)
    \/ ClickNothing \/ ClickUp \/ ClickRefresh
    \/ \E p \in {<<DESKTOP>>, <<RECYCLE>>, << >>} : ClickPlace(p)
    \/ Submenu \/ OpenWith \/ Dismiss
    \/ \E what \in {"open", "rename", "properties"} \cap ItemChoices : ItemMenu(what)
    \/ \E what \in {"refresh", "properties"} : BackgroundMenu(what)
    \/ \E what \in {"file", "folder"} : New(what)
    \/ EnterKey \/ BackspaceKey \/ F5Key \/ UpKey \/ DownKey
Change ==
    \/ \E what \in {"cut", "copy", "restore", "delete", "recycle"} \cap ItemChoices : ItemMenu(what)
    \/ \E what \in {"empty", "paste"} \cap BackgroundChoices : BackgroundMenu(what)
    \/ New("document")
    \/ \E name \in Typed : Apply(name)
    \/ DeleteKey
    \/ \E p \in Alien : Outside(p)
Next ==
    \/ Look /\ UNCHANGED steps
    \/ steps < MaxSteps /\ Change /\ steps' = steps + 1

Spec == Init /\ [][Next]_vars
-----------------------------------------------------------------------------
(* Other programs find system items where they were, whatever is cut,      *)
(* pasted, restored, renamed or deleted, and the menu of another directory *)
(* is used on them.                                                        *)
SystemItemsStay == \A p \in DOMAIN StartTree : Len(p) = 1 /\ p[1] \in System => p \in Present

(* The listing is the directory, in order: every operation ends with it.   *)
ListingCurrent ==
    current =>
      /\ {items[i] : i \in 1 .. Count} \subseteq Entries(tree, path)
      /\ Count = Min({MAX_ITEMS, Cardinality(Entries(tree, path))})
      /\ \A i \in 1 .. Count - 1 : Earlier(items[i], items[i + 1])

(* The menu and the dialog for a new name act on the item they were opened *)
(* on, unless a key changed the listing under the menu.                    *)
MenuKeepsItsItem ==
    menu.for # << >> => OnItem /\ Item(menu.target) = menu.for

(* The bytes of a file stay on the disk, in some file, until it is removed *)
(* from the recycle bin.  The exceptions: a copy pasted over it, its       *)
(* directory pasted into itself, a new document that takes its name since  *)
(* the listing does not show it or shows every name there is to try, and   *)
(* other programs.                                                         *)
BytesKept ==
    [][UNCHANGED tree \/ \A p \in {q \in Present : IsFile(q) /\ tree[q] # << >>} :
         \/ \E q \in DOMAIN tree' : tree'[q] = tree[p]
         \/ Len(p) = 2 /\ p[1] = RECYCLE /\ p \notin DOMAIN tree'
         \/ clip.path # << >> /\ p = In(Last(clip.path)) /\ ~clip.cut
         \/ clip.cut /\ IsPrefix(clip.path, path) /\ IsPrefix(clip.path, p)
         \/ Front(p) = path /\ p \notin {Item(i) : i \in 1 .. Count}
         \/ {In(NewNames[k]) : k \in DOMAIN NewNames} \subseteq {Item(i) : i \in 1 .. Count}
         \/ p \in Alien]_vars

(* What is drawn grey changes no file and puts nothing on the clipboard.   *)
GreyDoesNothing ==
    [][UNCHANGED <<tree, clip, dialog>> \/
       ~\E what \in ItemChoices :
          Pick /\ OnItem /\ Disabled(menu.target, what) /\ ItemMenu(what)]_vars

(* A selection in view stays in view when the keys move it.                *)
KeysFollow ==
    [][(sel' # sel /\ sel \in Visible /\ UNCHANGED <<path, items>>) => sel' \in Visible']_vars
=============================================================================
