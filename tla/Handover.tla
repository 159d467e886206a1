------------------------------ MODULE Handover ------------------------------
(***************************************************************************)
(* A file asked for in one program and opened in another.  The name goes   *)
(* through one buffer of the kernel, g_open_file_target (wasi.c); the      *)
(* desktop and the file manager write it and then either tell a running    *)
(* program (MSG_OPEN_FILE) or start one; that program reads it, loads the  *)
(* file, and clears the buffer, in three calls.                            *)
(*                                                                         *)
(* The browser's title is not the one looked for, and it takes the answer  *)
(* 1 of get_open_file for "none".  sched.c ends a thread that is started   *)
(* again before it has a window.                                           *)
(***************************************************************************)
EXTENDS Naturals, Sequences, FiniteSets

CONSTANTS Askers,       \* compositor, file manager
          Programs, Browser,    \* Browser is among them
          Opener,       \* file -> the program for it
          NoFile,
          MaxAsks       \* bound: requests, starts and closings by hand

(* Assumed of the constants. *)
OpenersKnown ==
    /\ Browser \in Programs
    /\ \A f \in DOMAIN Opener : Opener[f] \in Programs
    /\ NoFile \notin DOMAIN Opener
    /\ MaxAsks \in Nat

VARIABLES target,       \* g_open_file_target
          ask,          \* asker -> what it is doing, and for which file
          app,          \* program -> absent, starting, open (window shown), idle, loading
          inbox,        \* program -> MSG_OPEN_FILE waiting for it
          shows,        \* program -> the file it has opened from the buffer
          last,         \* history: the last file asked for, until its program is closed
          stray,        \* history: requests overlapped, or one went astray
          asks

vars == <<target, ask, app, inbox, shows, last, stray, asks>>

Files == DOMAIN Opener
Resting == [doing |-> "nothing", file |-> NoFile]
HasWindow(p) == app[p] \notin {"absent", "starting"}
Outstanding ==
    \/ target # NoFile
    \/ \E a \in Askers : ask[a] # Resting
    \/ \E p \in Programs : app[p] = "loading"
\* A program that starts reads the buffer, whoever the file in it is for.
WillRead == \E p \in Programs : app[p] \in {"starting", "open"}

Init ==
    /\ target = NoFile /\ last = NoFile /\ stray = FALSE /\ asks = 0
    /\ ask = [a \in Askers |-> Resting]
    /\ app = [p \in Programs |-> "absent"]
    /\ inbox = [p \in Programs |-> 0]
    /\ shows = [p \in Programs |-> NoFile]
-----------------------------------------------------------------------------
(* open_file_in_notepad, _browser, _imageview: set the name, look for a    *)
(* window with the program's title, then front and message or spawn.       *)
Ask(a, f) ==
    /\ asks < MaxAsks /\ ask[a] = Resting
    /\ target' = f /\ last' = f
    /\ ask' = [ask EXCEPT ![a] = [doing |-> "look", file |-> f]]
    /\ stray' = (stray \/ Outstanding \/ WillRead \/ Opener[f] = Browser)
    /\ asks' = asks + 1
    /\ UNCHANGED <<app, inbox, shows>>

TitleFound(p) == HasWindow(p) /\ p # Browser
Look(a) ==
    /\ ask[a].doing = "look"
    /\ ask' = [ask EXCEPT ![a].doing = IF TitleFound(Opener[ask[a].file]) THEN "send" ELSE "spawn"]
    /\ UNCHANGED <<target, app, inbox, shows, last, stray, asks>>

\* A message to a program that has gone is never read.
Send(a) ==
    LET p == Opener[ask[a].file]
    IN /\ ask[a].doing = "send"
       /\ inbox' = IF HasWindow(p) THEN [inbox EXCEPT ![p] = @ + 1] ELSE inbox
       /\ stray' = (stray \/ ~HasWindow(p))
       /\ ask' = [ask EXCEPT ![a] = Resting]
       /\ UNCHANGED <<target, app, shows, last, asks>>

(* woos_system_spawn: a program with a window is raised; there may be no   *)
(* room for another thread.                                                *)
Spawned(p) == IF HasWindow(p) THEN app ELSE [app EXCEPT ![p] = "starting"]
Spawn(a) ==
    LET p == Opener[ask[a].file]
    IN /\ ask[a].doing = "spawn"
       /\ app' \in {Spawned(p)} \cup (IF app[p] = "absent" THEN {app} ELSE {})
       /\ stray' = (stray \/ app' = app)
       /\ ask' = [ask EXCEPT ![a] = Resting]
       /\ UNCHANGED <<target, inbox, shows, last, asks>>

\* Start menu, icons of programs, buttons of the file manager.
StartByHand(p) ==
    /\ asks < MaxAsks /\ asks' = asks + 1
    /\ app' = Spawned(p)
    /\ stray' = (stray \/ Outstanding)
    /\ UNCHANGED <<target, ask, inbox, shows, last>>
-----------------------------------------------------------------------------
(* The programs. *)
CreateWindow(p) ==
    /\ app[p] = "starting" /\ app' = [app EXCEPT ![p] = "open"]
    /\ UNCHANGED <<target, ask, inbox, shows, last, stray, asks>>

\* A slip, for GetOpenFile.
GetOpenFileUnread(p) ==
    /\ app' = [app EXCEPT ![p] = IF target # NoFile THEN "loading" ELSE "idle"]
    /\ UNCHANGED <<target, ask, shows, last, stray, asks>>

\* woos_system_get_open_file, at the start or for a message.
GetOpenFile(p) ==
    /\ LET found == target # NoFile /\ p # Browser
       IN /\ app' = [app EXCEPT ![p] = IF found THEN "loading" ELSE "idle"]
          /\ shows' = IF found THEN [shows EXCEPT ![p] = target] ELSE shows
    /\ UNCHANGED <<target, ask, last, stray, asks>>
AtStart(p) == app[p] = "open" /\ GetOpenFile(p) /\ UNCHANGED inbox
OnMessage(p) ==
    /\ app[p] = "idle" /\ inbox[p] > 0
    /\ inbox' = [inbox EXCEPT ![p] = @ - 1]
    /\ GetOpenFile(p)

\* The file is loaded; woos_system_clear_open_file.
ClearOpenFile(p) ==
    /\ app[p] = "loading" /\ app' = [app EXCEPT ![p] = "idle"]
    /\ target' = NoFile
    /\ UNCHANGED <<ask, inbox, shows, last, stray, asks>>

Close(p) ==
    /\ asks < MaxAsks /\ asks' = asks + 1
    /\ app[p] = "idle"
    /\ app' = [app EXCEPT ![p] = "absent"]
    /\ inbox' = [inbox EXCEPT ![p] = 0]
    /\ shows' = [shows EXCEPT ![p] = NoFile]
    /\ stray' = (stray \/ inbox[p] > 0)
    /\ last' = IF last # NoFile /\ Opener[last] = p THEN NoFile ELSE last
    /\ UNCHANGED <<target, ask>>

Next ==
    \/ \E a \in Askers : (\E f \in Files : Ask(a, f)) \/ Look(a) \/ Send(a) \/ Spawn(a)
    \/ \E p \in Programs : StartByHand(p) \/ CreateWindow(p) \/ AtStart(p) \/ OnMessage(p)
                           \/ ClearOpenFile(p) \/ Close(p)

Spec == Init /\ [][Next]_vars
-----------------------------------------------------------------------------
(* A program opens only files meant for it, as long as requests do not     *)
(* overlap with others or with a start by hand, none goes astray and none  *)
(* is for the browser.                                                     *)
OpensItsOwn ==
    ~stray => \A p \in Programs : shows[p] = NoFile \/ Opener[shows[p]] = p

(* Then a request that is over has been met: the program for the file      *)
(* shows it.                                                               *)
RequestMet ==
    ~stray /\ ~Outstanding /\ last # NoFile => shows[Opener[last]] = last

(* A request that is not over is still being asked, or a message or the    *)
(* start of a program is under way that will read it.                      *)
RequestUnderWay ==
    ~stray /\ target # NoFile =>
       \/ \E a \in Askers : ask[a] # Resting
       \/ \E p \in Programs : app[p] \in {"starting", "open", "loading"} \/ inbox[p] > 0
=============================================================================
