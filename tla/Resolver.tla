------------------------------ MODULE Resolver ------------------------------
(***************************************************************************)
(* net_resolve_host: a thread asks the DNS client of lwIP (external) and   *)
(* polls until the callback has written the answer into its stack frame,   *)
(* or three and a half seconds are over.  lwIP keeps the pointer to that   *)
(* frame until it has an answer of its own.  An address is named by the    *)
(* host it belongs to.                                                     *)
(***************************************************************************)
EXTENDS Naturals, FiniteSets

CONSTANTS Threads, Names,
          TableSize     \* queries lwIP keeps at a time

VARIABLES call,         \* thread -> its call of net_resolve_host
          ctx,          \* thread -> what is at the address of its dns_query_ctx_t
          queries,      \* lwIP's table: the name asked for and whose ctx is written
          cache         \* names lwIP can answer at once

vars == <<call, ctx, queries, cache>>

NoCall == [at |-> "none"]
EmptyCtx == [resolved |-> FALSE, failed |-> FALSE, addr |-> "none"]

Init ==
    /\ call = [t \in Threads |-> NoCall]
    /\ ctx = [t \in Threads |-> EmptyCtx]
    /\ queries = {} /\ cache = {}

TypeOK ==
    /\ \A t \in Threads : call[t].at \in {"none", "wait", "ok", "failed"}
    /\ ctx \in [Threads -> [resolved : BOOLEAN, failed : BOOLEAN, addr : Names \cup {"none"}]]
    /\ queries \in SUBSET [name : Names, arg : Threads] /\ Cardinality(queries) <= TableSize
    /\ cache \subseteq Names
-----------------------------------------------------------------------------
Returned(t) == call[t].at \in {"none", "ok", "failed"}
Orphans(t) == {q \in queries : q.arg = t}

(* A name lwIP knows, or has no room to ask for. *)
AtOnce(t, name) ==
    /\ Returned(t)
    /\ \/ name \in cache /\ call' = [call EXCEPT ![t] = [at |-> "ok", name |-> name, addr |-> name, over |-> {}]]
       \/ name \notin cache /\ Cardinality(queries) = TableSize
          /\ call' = [call EXCEPT ![t] = [at |-> "failed", name |-> name, addr |-> "none", over |-> {}]]
    /\ UNCHANGED <<ctx, queries, cache>>

(* `over` remembers the questions of this thread that nobody waits for any *)
(* more and that lwIP still has open.                                      *)
Ask(t, name) ==
    /\ Returned(t)
    /\ name \notin cache /\ Cardinality(queries) < TableSize
    /\ ctx' = [ctx EXCEPT ![t] = EmptyCtx]
    /\ queries' = queries \cup {[name |-> name, arg |-> t]}
    /\ call' = [call EXCEPT ![t] = [at |-> "wait", name |-> name, addr |-> "none",
                                    over |-> {q.name : q \in Orphans(t)}]]
    /\ UNCHANGED cache

(* dns_callback, from net_poll of whichever thread: the answer, or none. *)
Written(c, q) == [c EXCEPT !.addr = q.name, !.resolved = TRUE]
Callback(q, found) ==
    /\ q \in queries
    /\ queries' = queries \ {q}
    /\ ctx' = [ctx EXCEPT ![q.arg] = IF found THEN Written(@, q) ELSE [@ EXCEPT !.failed = TRUE]]
    /\ cache' = IF found THEN cache \cup {q.name} ELSE cache
    /\ UNCHANGED call
Forget(name) == name \in cache /\ cache' = cache \ {name} /\ UNCHANGED <<call, ctx, queries>>

Answered(t) ==
    /\ call[t].at = "wait"
    /\ ctx[t].resolved
    /\ call' = [call EXCEPT ![t].at = "ok", ![t].addr = ctx[t].addr]
    /\ UNCHANGED <<ctx, queries, cache>>
NotFound(t) ==
    /\ call[t].at = "wait"
    /\ ctx[t].failed /\ ~ctx[t].resolved
    /\ call' = [call EXCEPT ![t].at = "failed"]
    /\ UNCHANGED <<ctx, queries, cache>>
TimedOut(t) ==
    /\ call[t].at = "wait"
    /\ ~ctx[t].resolved /\ ~ctx[t].failed
    /\ call' = [call EXCEPT ![t].at = "failed"]
    /\ UNCHANGED <<ctx, queries, cache>>

Next ==
    \/ \E t \in Threads :
        \/ \E name \in Names : AtOnce(t, name) \/ Ask(t, name)
        \/ Answered(t) \/ NotFound(t) \/ TimedOut(t)
    \/ \E q \in queries, found \in BOOLEAN : Callback(q, found)
    \/ \E name \in Names : Forget(name)
-----------------------------------------------------------------------------
(* The address returned is that of the host asked for, or of a host this   *)
(* thread asked for before, gave up and lwIP answered since: the frame is  *)
(* gone by then, and a new call may have its context at the same place     *)
(* (net_resolve_host, dns_callback).                                       *)
OwnAddress ==
    \A t \in Threads : call[t].at = "ok" => call[t].addr \in {call[t].name} \cup call[t].over
=============================================================================
