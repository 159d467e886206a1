-------------------------------- MODULE Ping --------------------------------
(***************************************************************************)
(* net_ping: echo requests one after the other, each waited for up to a    *)
(* second.  All pings of all threads have one identifier and share one     *)
(* global with the number waited for; an answer is known by its number     *)
(* alone, not by the host it comes from.                                   *)
(***************************************************************************)
EXTENDS Naturals, FiniteSets

CONSTANTS Threads,
          Count,        \* echoes of a command
          MaxRuns       \* thread -> commands it makes

VARIABLES ping,         \* thread -> its command
          state,        \* g_ping_state
          echoes        \* requests out in the network, or their answers

vars == <<ping, state, echoes>>

Nothing == [by |-> "none", run |-> 0, seq |-> 0]
NoPing == [at |-> "none", run |-> 0, seq |-> 0, rx |-> 0, counted |-> Nothing, alone |-> TRUE]

Init ==
    /\ ping = [t \in Threads |-> NoPing]
    /\ state = [seq |-> 0, received |-> FALSE, heard |-> Nothing]
    /\ echoes = {}

Running(t) == ping[t].at # "none"
Step(t, at) == ping' = [ping EXCEPT ![t].at = at]

TypeOK ==
    /\ \A t \in Threads :
        /\ ping[t].at \in {"none", "number", "send", "wait", "pause"}
        /\ ping[t].seq \in 0 .. Count /\ ping[t].rx \in 0 .. Count /\ ping[t].run \in 0 .. MaxRuns[t]
    /\ state.seq \in 0 .. Count /\ state.received \in BOOLEAN
    /\ \A e \in echoes : e.by \in Threads /\ e.run \in 1 .. MaxRuns[e.by] /\ e.seq \in 1 .. Count
-----------------------------------------------------------------------------
(* `alone`: no other command is running and no echo of an earlier one is   *)
(* still out; a second command ends the first one's solitude.              *)
Start(t) ==
    /\ ~Running(t) /\ ping[t].run < MaxRuns[t]
    /\ LET others == {u \in Threads \ {t} : Running(u)}
       IN ping' = [u \in Threads |->
            IF u = t THEN [NoPing EXCEPT !.at = "number", !.run = ping[t].run + 1, !.seq = 1,
                                         !.alone = others = {} /\ echoes = {}]
            ELSE [ping[u] EXCEPT !.alone = @ /\ ~Running(u)]]
    /\ UNCHANGED <<state, echoes>>

Number(t) ==
    /\ ping[t].at = "number"
    /\ state' = [state EXCEPT !.seq = ping[t].seq]
    /\ Step(t, "send") /\ UNCHANGED echoes

(* The flag is cleared before the request leaves; sending may fail         *)
(* unnoticed, and without memory for the request the command ends.         *)
Cleared(s) == [s EXCEPT !.received = FALSE]
Send(t, out) ==
    /\ ping[t].at = "send"
    /\ state' = Cleared(state)
    /\ echoes' = IF out THEN echoes \cup {[by |-> t, run |-> ping[t].run, seq |-> state.seq]} ELSE echoes
    /\ Step(t, "wait")
NoMemory(t) ==
    /\ ping[t].at = "send"
    /\ state' = Cleared(state)
    /\ Step(t, "none") /\ UNCHANGED echoes

\* A slip, for Matches.
MatchesAny(e) == TRUE

(* ping_raw_recv, of any raw socket that is there. *)
Matches(e) == e.seq = state.seq
Answer(e) ==
    /\ e \in echoes
    /\ echoes' = echoes \ {e}
    /\ state' = IF (\E t \in Threads : Running(t)) /\ Matches(e)
                THEN [state EXCEPT !.received = TRUE, !.heard = e] ELSE state
    /\ UNCHANGED ping
Lost(e) == e \in echoes /\ echoes' = echoes \ {e} /\ UNCHANGED <<ping, state>>

Counts(t) ==
    /\ ping[t].at = "wait" /\ state.received
    /\ ping' = [ping EXCEPT ![t].at = "pause", ![t].rx = @ + 1, ![t].counted = state.heard]
    /\ UNCHANGED <<state, echoes>>
TimesOut(t) ==
    /\ ping[t].at = "wait" /\ ~state.received
    /\ Step(t, "pause")
    /\ UNCHANGED <<state, echoes>>
Goes(t) ==
    /\ ping[t].at = "pause"
    /\ ping' = IF ping[t].seq < Count
               THEN [ping EXCEPT ![t].at = "number", ![t].seq = @ + 1, ![t].counted = Nothing]
               ELSE [ping EXCEPT ![t].at = "none", ![t].counted = Nothing]
    /\ UNCHANGED <<state, echoes>>

Next ==
    \/ \E t \in Threads : Start(t) \/ Number(t) \/ (\E out \in BOOLEAN : Send(t, out)) \/ NoMemory(t)
                          \/ Counts(t) \/ TimesOut(t) \/ Goes(t)
    \/ \E e \in echoes : Answer(e) \/ Lost(e)
    \/ (\A t \in Threads : ~Running(t) /\ ping[t].run = MaxRuns[t]) /\ echoes = {} /\ UNCHANGED vars
-----------------------------------------------------------------------------
(* A command that has the network to itself counts an answer for the very  *)
(* request it is waiting on, never a late one to a request it gave up      *)
(* (ping_raw_recv).                                                        *)
AloneExact ==
    \A t \in Threads :
        ping[t].alone /\ ping[t].counted # Nothing =>
            ping[t].counted = [by |-> t, run |-> ping[t].run, seq |-> ping[t].seq]
=============================================================================
