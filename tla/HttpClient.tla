----------------------------- MODULE HttpClient -----------------------------
(***************************************************************************)
(* What a fetch and a download hold and give back on every path: sockets   *)
(* by number, the request, the TLS session, the header and the file.       *)
(* A socket's number is all that names it: closed, it may be another       *)
(* thread's at once.  Reading the answer is module HttpReply.              *)
(***************************************************************************)
EXTENDS Integers, FiniteSets, FiniteSetsExt

CONSTANTS Threads, NSockets,
          MaxRedirects  \* net_http_fetch follows fewer than this many

VARIABLES socket,       \* number -> whose it is and its state
          op,           \* thread -> the fetch or download it is in
          held,         \* thread -> allocations minus frees of each kind
          astray        \* a thread has closed or used a socket of another

vars == <<socket, op, held, astray>>

Sockets == 0 .. NSockets - 1
None == -1
Kinds == {"request", "tls", "header", "file"}
FreeSocket == [owner |-> "nobody", state |-> "free"]
NoOp == [at |-> "none", what |-> "none", https |-> TRUE, scheme |-> FALSE, sock |-> None,
         closed |-> FALSE, redirects |-> 0]

Init ==
    /\ socket = [s \in Sockets |-> FreeSocket]
    /\ op = [t \in Threads |-> NoOp]
    /\ held = [t \in Threads |-> [k \in Kinds |-> 0]]
    /\ astray = FALSE

TypeOK ==
    /\ \A s \in Sockets : socket[s].owner \in Threads \cup {"nobody"}
                          /\ socket[s].state \in {"free", "closed", "connecting", "connected"}
    /\ \A t \in Threads : op[t].sock \in Sockets \cup {None} /\ op[t].redirects \in 0 .. MaxRedirects
    /\ held \in [Threads -> [Kinds -> -1 .. 1]]
-----------------------------------------------------------------------------
\* A slip, for FreeOnes.
FreeOrClosed == {s \in Sockets : socket[s].state \in {"free", "closed"}}

(* The socket layer as the client sees it: net_socket_create takes the     *)
(* first free number, close frees any number in use, whoever asks.         *)
FreeOnes == {s \in Sockets : socket[s].state = "free"}
StateOf(s) == IF s = None THEN "free" ELSE socket[s].state
Mine(t) == op[t].sock # None /\ socket[op[t].sock].owner = t
Foreign(t) == op[t].sock # None /\ socket[op[t].sock].owner \notin {t, "nobody"}
Closing(t) ==
    /\ socket' = IF op[t].sock = None THEN socket ELSE [socket EXCEPT ![op[t].sock] = FreeSocket]
    /\ astray' = (astray \/ Foreign(t))

Freed(t, kinds) == [held EXCEPT ![t] = [k \in Kinds |-> IF k \in kinds THEN @[k] - 1 ELSE @[k]]]
Taken(t, kind) == [held EXCEPT ![t][kind] = @ + 1]
InUse(t) == {k \in Kinds : held[t][k] > 0}
Go(t, at) == op' = [op EXCEPT ![t].at = at]
Back(t) == op' = [op EXCEPT ![t] = NoOp]

(* net_http_fetch and net_http_download with a URL that parses: "what"     *)
(* tells them apart; a URL without a scheme means HTTPS.                   *)
Begin(t, what, https, scheme) ==
    /\ op[t].at = "none"
    /\ https \/ scheme
    /\ op' = [op EXCEPT ![t] = [NoOp EXCEPT !.at = "resolve", !.what = what, !.https = https, !.scheme = scheme]]
    /\ UNCHANGED <<socket, held, astray>>

Unresolved(t) ==
    /\ op[t].at = "resolve"
    /\ Back(t) /\ UNCHANGED <<socket, held, astray>>

Resolved(t) ==
    /\ op[t].at = "resolve"
    /\ IF FreeOnes = {} THEN Back(t) /\ UNCHANGED socket
       ELSE LET s == Min(FreeOnes)
            IN /\ socket' = [socket EXCEPT ![s] = [owner |-> t, state |-> "closed"]]
               /\ op' = [op EXCEPT ![t].at = "connect", ![t].sock = s, ![t].closed = FALSE]
    /\ UNCHANGED <<held, astray>>

(* The retry over plain HTTP that a URL without a scheme gets. *)
MayFallBack(t) == op[t].what = "fetch" /\ ~op[t].scheme /\ op[t].https
Plain(t) == [op EXCEPT ![t].https = FALSE, ![t].at = "again"]

Connects(t, ok) ==
    /\ op[t].at = "connect"
    /\ IF ok /\ Mine(t)
       THEN /\ socket' = [socket EXCEPT ![op[t].sock].state = "connecting"]
            /\ Go(t, "connecting") /\ UNCHANGED astray
       ELSE /\ Closing(t)
            /\ IF MayFallBack(t) THEN op' = Plain(t) ELSE Back(t)
    /\ UNCHANGED held

(* The second socket; after a connection that timed out a failure here is  *)
(* left to the last test, with the number in hand or none.                 *)
Again(t, ok) ==
    /\ op[t].at = "again"
    /\ LET s == Min(FreeOnes)
       IN IF FreeOnes = {} THEN
            /\ IF op[t].closed THEN op' = [op EXCEPT ![t].at = "last", ![t].sock = None] ELSE Back(t)
            /\ UNCHANGED socket
          ELSE IF ok THEN
            /\ socket' = [socket EXCEPT ![s] = [owner |-> t, state |-> "connecting"]]
            /\ op' = [op EXCEPT ![t].at = IF op[t].closed THEN "retrying" ELSE "connecting", ![t].sock = s, ![t].closed = FALSE]
          ELSE IF op[t].closed THEN
            /\ socket' = [socket EXCEPT ![s] = [owner |-> t, state |-> "closed"]]
            /\ op' = [op EXCEPT ![t].at = "last", ![t].sock = s, ![t].closed = FALSE]
          ELSE Back(t) /\ UNCHANGED socket
    /\ UNCHANGED <<held, astray>>

(* lwIP's callbacks: the connection stands, or breaks. *)
Network(s) ==
    /\ \/ socket[s].state = "connecting" /\ \E st \in {"connected", "closed"} : socket' = [socket EXCEPT ![s].state = st]
       \/ socket[s].state = "connected" /\ socket' = [socket EXCEPT ![s].state = "closed"]
    /\ UNCHANGED <<op, held, astray>>

(* The wait is over: connected, refused, or three and a half seconds gone. *)
WaitEnds(t) ==
    /\ op[t].at = "connecting"
    /\ IF StateOf(op[t].sock) = "connected"
       THEN Go(t, "last") /\ UNCHANGED <<socket, astray>>
       ELSE /\ Closing(t)
            /\ IF op[t].what = "download" THEN Back(t)
               ELSE IF MayFallBack(t) THEN op' = [Plain(t) EXCEPT ![t].closed = TRUE]
               ELSE op' = [op EXCEPT ![t].at = "last", ![t].closed = TRUE]
    /\ UNCHANGED held

RetryEnds(t) ==
    /\ op[t].at = "retrying"
    /\ Go(t, "last") /\ UNCHANGED <<socket, held, astray>>

(* The last test of a fetch looks at the number again, closed or not.  The *)
(* request is built, the session made and the request sent.                *)
GivesUp(t) ==
    /\ op[t].at = "last"
    /\ StateOf(op[t].sock) # "connected"
    /\ Closing(t) /\ Back(t) /\ UNCHANGED held
NoRequest(t) ==
    /\ op[t].at = "last"
    /\ StateOf(op[t].sock) = "connected"
    /\ Closing(t) /\ Back(t) /\ UNCHANGED held
Prepares(t) ==
    /\ op[t].at = "last"
    /\ StateOf(op[t].sock) = "connected"
    /\ held' = Taken(t, "request")
    /\ Go(t, IF op[t].https THEN "session" ELSE "sent")
    /\ astray' = (astray \/ Foreign(t))
    /\ UNCHANGED socket
Session(t, ok) ==
    /\ op[t].at = "session"
    /\ IF ok THEN held' = Taken(t, "tls") /\ Go(t, "handshake") /\ UNCHANGED <<socket, astray>>
       ELSE held' = Freed(t, {"request"}) /\ Closing(t) /\ Back(t)
HandshakeFails(t) ==
    /\ op[t].at = "handshake"
    /\ held' = Freed(t, {"request", "tls"}) /\ Closing(t) /\ Back(t)
HandshakeDone(t) ==
    /\ op[t].at = "handshake"
    /\ Go(t, "sent") /\ UNCHANGED <<socket, held, astray>>

Sent(t) ==
    /\ op[t].at = "sent"
    /\ held' = Freed(t, {"request"})
    /\ Go(t, IF op[t].what = "fetch" THEN "read" ELSE "header")
    /\ UNCHANGED <<socket, astray>>
-----------------------------------------------------------------------------
(* The end of net_http_fetch_single: the session, the socket, then what    *)
(* the answer was; a redirection starts over, up to a limit.               *)
Answers == {"page", "redirect", "nothing"}
FetchEnds(t, answer, https, scheme) ==
    /\ op[t].at = "read" /\ (https \/ scheme)
    /\ held' = Freed(t, InUse(t) \cap {"tls"})
    /\ Closing(t)
    /\ IF answer = "redirect" /\ op[t].redirects + 1 < MaxRedirects
       THEN op' = [op EXCEPT ![t] = [NoOp EXCEPT !.at = "resolve", !.what = "fetch", !.https = https,
                                                 !.scheme = scheme, !.redirects = op[t].redirects + 1]]
       ELSE Back(t)

(* The download: a buffer for the header, the header, which may end early, *)
(* the file, which takes the place of the buffer, and the body.            *)
HeaderBuffer(t, memory) ==
    /\ op[t].at = "header"
    /\ IF memory THEN held' = Taken(t, "header") /\ Go(t, "reading") /\ UNCHANGED <<socket, astray>>
       ELSE held' = Freed(t, InUse(t) \cap {"tls"}) /\ Closing(t) /\ Back(t)

HeaderRead(t, whole, opened) ==
    /\ op[t].at = "reading"
    /\ IF whole /\ opened
       THEN /\ held' = [held EXCEPT ![t]["file"] = @ + 1, ![t]["header"] = @ - 1]
            /\ Go(t, "body") /\ UNCHANGED <<socket, astray>>
       ELSE /\ held' = Freed(t, {"header"} \cup (InUse(t) \cap {"tls"}))
            /\ Closing(t) /\ Back(t)

DownloadEnds(t) ==
    /\ op[t].at = "body"
    /\ held' = Freed(t, {"file"} \cup (InUse(t) \cap {"tls"}))
    /\ Closing(t) /\ Back(t)

Step(t) ==
    \/ \E what \in {"fetch", "download"}, https, scheme \in BOOLEAN : Begin(t, what, https, scheme)
    \/ Unresolved(t) \/ Resolved(t)
    \/ \E ok \in BOOLEAN : Connects(t, ok) \/ Again(t, ok) \/ Session(t, ok)
    \/ WaitEnds(t) \/ RetryEnds(t) \/ GivesUp(t) \/ NoRequest(t) \/ Prepares(t) \/ HandshakeFails(t) \/ HandshakeDone(t) \/ Sent(t)
    \/ \E answer \in Answers, https, scheme \in BOOLEAN : FetchEnds(t, answer, https, scheme)
    \/ \E memory \in BOOLEAN : HeaderBuffer(t, memory)
    \/ \E whole, opened \in BOOLEAN : HeaderRead(t, whole, opened)
    \/ DownloadEnds(t)

Next == (\E t \in Threads : Step(t)) \/ (\E s \in Sockets : Network(s))
-----------------------------------------------------------------------------
(* On every path, and there are some thirty, a fetch or download gives     *)
(* back what it took, once (net_http_fetch_single, net_http_download).     *)
AllReturned ==
    \A t \in Threads :
        /\ \A k \in Kinds : held[t][k] >= 0
        /\ op[t].at = "none" => InUse(t) = {} /\ \A s \in Sockets : socket[s].owner # t

(* The only way to another thread's socket is the number of a connection   *)
(* that timed out: closed, tested and, if it is not open, closed a second  *)
(* time.  Everything else a thread does, it does to its own.               *)
OnlyAfterTimeout ==
    [][~astray /\ astray' => \E t \in Threads : op[t].at = "last" /\ op[t].closed /\ Foreign(t)]_vars
=============================================================================
