----------------------------- MODULE HttpReply -----------------------------
(***************************************************************************)
(* One answer of a web server: it arrives in pieces, net_http_fetch_single *)
(* reads until it believes to have all of it, its buffer is full or the    *)
(* server falls silent, and cuts the page out of what it has.              *)
(* A header line is one symbol, the empty line that ends the header too;   *)
(* "coding" is the name Transfer-Encoding with its colon, of a header line *)
(* or of a line of the page that quotes one, and "chunked" the word.  Of   *)
(* the other bytes of a body only CR, LF and the hexadecimal digits mean   *)
(* anything.                                                               *)
(***************************************************************************)
EXTENDS Naturals, SequencesExt, FiniteSetsExt, TLC

CONSTANTS Chunkings,    \* bodies as the server sends them: sequences of chunks
          MaxLen        \* symbols the caller's buffer holds

VARIABLES server,       \* what the server sends, and how it marks the end
          rx,           \* symbols received
          page          \* the page returned, or NoPage

vars == <<server, rx, page>>

NoPage == [done |-> FALSE]
Digits == <<"1", "2", "3", "4", "5", "6", "7", "8", "9", "a">>
IsHex(c) == c = "0" \/ c \in Range(Digits)
Value(c) == IF c = "0" THEN 0 ELSE CHOOSE d \in DOMAIN Digits : Digits[d] = c
Blanks == {"CR", "LF", "SP"}

(* What an HTTP/1.1 server makes of a body. *)
Body(chunks) == FlattenSeq(chunks)
Chunked(chunks) ==
    FlattenSeq([i \in DOMAIN chunks |-> <<Digits[Len(chunks[i])], "CR", "LF">> \o chunks[i] \o <<"CR", "LF">>])
        \o <<"0", "CR", "LF", "CR", "LF">>
Length(n) == "length " \o ToString(n)
Header(chunks, mark) ==
    CASE mark = "length" -> <<"status", Length(Len(Body(chunks))), "end">>
      [] mark = "chunked" -> <<"status", "coding", "chunked", "end">>
      [] mark = "close" -> <<"status", "end">>
Sent(s) ==
    Header(s.chunks, s.mark) \o (IF s.mark = "chunked" THEN Chunked(s.chunks) ELSE Body(s.chunks))

Init ==
    /\ server \in [chunks : Chunkings, mark : {"length", "chunked", "close"}]
    /\ rx = << >>
    /\ page = NoPage
-----------------------------------------------------------------------------
(* Where the header ends, 0 if it has not. *)
HeaderEnd(buf) == IF Contains(buf, "end") THEN Min({i \in DOMAIN buf : buf[i] = "end"}) ELSE 0
HeaderOf(buf) == SubSeq(buf, 1, HeaderEnd(buf))
After(buf) == SubSeq(buf, HeaderEnd(buf) + 1, Len(buf))

(* check_http_response_complete *)
LengthGiven(buf) == {n \in 0 .. MaxLen : Contains(HeaderOf(buf), Length(n))}
LastChunk == <<"0", "CR", "LF", "CR", "LF">>
ResponseComplete(buf) ==
    /\ HeaderEnd(buf) # 0
    /\ IF LengthGiven(buf) # {}
       THEN Len(After(buf)) >= Min(LengthGiven(buf))
       ELSE Contains(HeaderOf(buf), "chunked") /\ IsSuffix(LastChunk, After(buf))

(* http_unchunk, from each position on: blanks, a size, the rest of its    *)
(* line, as many bytes as there are, a line end.                           *)
Unchunk(body) ==
    LET n == Len(body)
        Skip(i, S) == Min({j \in i .. n + 1 : j > n \/ body[j] \notin S})
        Past(i, c) == IF i <= n /\ body[i] = c THEN i + 1 ELSE i
        Size(i, j) == FoldLeft(LAMBDA v, c : 16 * v + Value(c), 0, SubSeq(body, i, j - 1))
        from[i \in 1 .. n + 1] ==
            LET d == Skip(i, Blanks)
                e == Skip(d, {"0"} \cup Range(Digits))
                data == Past(Min({j \in e .. n + 1 : j > n \/ body[j] = "LF"}), "LF")
                size == Min({Size(d, e), n + 1 - data})
            IN IF d = e \/ Size(d, e) = 0 THEN << >>
               ELSE SubSeq(body, data, data + size - 1)
                    \o (IF size = 0 THEN << >> ELSE from[Past(Past(data + size, "CR"), "LF")])
    IN from[1]

(* A body that begins with a line of one to eight digits is taken for a    *)
(* chunked one whatever the header says.                                   *)
LooksChunked(body) ==
    /\ Len(body) > 4
    /\ \E k \in 1 .. Min({8, Len(body) - 2}) :
        /\ \A i \in 1 .. k : IsHex(body[i])
        /\ body[k + 1] = "CR" /\ body[k + 2] = "LF"

(* The line is looked for in all that was received, and the word from there *)
(* on to the end: the page itself can name both.                           *)
LineStart(buf, i) == i <= HeaderEnd(buf) + 1 \/ buf[i - 1] = "LF"
SaysChunked(buf) ==
    \E i, j \in DOMAIN buf : i < j /\ buf[i] = "coding" /\ LineStart(buf, i) /\ buf[j] = "chunked"

PageOf(buf) ==
    IF HeaderEnd(buf) = 0 THEN buf
    ELSE IF SaysChunked(buf) \/ LooksChunked(After(buf))
         THEN Unchunk(After(buf))
         ELSE After(buf)

(* The loop: one piece of any size, then the test. *)
Finish(buf) == page' = [done |-> TRUE, body |-> PageOf(buf)]
Receive(n) ==
    /\ ~page.done
    /\ Len(rx) + n <= Min({Len(Sent(server)), MaxLen - 1})
    /\ rx' = SubSeq(Sent(server), 1, Len(rx) + n)
    /\ IF ResponseComplete(rx') \/ Len(rx') = MaxLen - 1 THEN Finish(rx') ELSE UNCHANGED page
    /\ UNCHANGED server

(* The server closed the connection, or said nothing for too long. *)
GiveUp ==
    /\ ~page.done
    /\ Finish(rx)
    /\ UNCHANGED <<server, rx>>

Next ==
    \/ \E n \in 1 .. MaxLen : Receive(n)
    \/ GiveUp
    \/ page.done /\ UNCHANGED vars
-----------------------------------------------------------------------------
HeaderSeen == Contains(rx, "end")

(* A page taken for a chunked one: the digits of its first line look like  *)
(* the size of a chunk, or it quotes the header line that announces chunks.*)
Mistaken == server.mark # "chunked" /\ (LooksChunked(After(rx)) \/ SaysChunked(rx))

(* Wherever the answer is cut, between two chunks, inside a size or inside *)
(* a line end, what the browser gets is a beginning of the page: no byte   *)
(* of the chunk framing, nothing left out (http_unchunk, net.c:1080).      *)
PagePrefix ==
    page.done /\ HeaderSeen /\ ~Mistaken => IsPrefix(page.body, Body(server.chunks))

(* All of it was received and not taken for complete before: it is the     *)
(* whole page, however the server marks its end.                           *)
WholePage ==
    page.done /\ rx = Sent(server) /\ ~Mistaken => page.body = Body(server.chunks)

(* A marked end is noticed in the very piece that brings it: the fetch     *)
(* does not sit out its timeout on a server that keeps the connection      *)
(* open (check_http_response_complete).                                    *)
EndNoticed ==
    rx = Sent(server) /\ server.mark # "close" => page.done
=============================================================================
