-------------------------------- MODULE IoProof --------------------------------
(***************************************************************************)
(* Proofs about the disk, the network card, what net.c does over the       *)
(* network, keyboard and mouse and the queue of input events, for any      *)
(* number of sectors, packets, threads, names, echoes, sockets, scan       *)
(* codes, packets of the mouse and places in the queue.                    *)
(***************************************************************************)
EXTENDS IoInvariants, FiniteSetTheorems, SequenceTheorems, TLAPS, WellFoundedInduction

--------------------------------------------------------------------------------
(* Names (net_resolve_host) *)

\* The resolver counts as everybody does.
LEMMA DnsCounts == \A S : Dns!Cardinality(S) = Cardinality(S)
  BY DEF Dns!Cardinality, Cardinality

\* No call, no question.
LEMMA DnsInit == Dns!Init => DnsInv
<1> SUFFICES ASSUME Dns!Init PROVE DnsInv
  OBVIOUS
<1>1. queries = {} /\ IsFiniteSet({}) /\ Cardinality({}) = 0
  BY FS_EmptySet DEF Dns!Init
<1> QED BY <1>1, RequestsAssumption, DnsCounts
        DEF DnsInv, DnsCalls, Dns!Init, Dns!TypeOK, Dns!OwnAddress, Dns!NoCall, Dns!EmptyCtx

\* The question of a new call, and those of this thread that lwIP still has.
LEMMA DnsAsk ==
  ASSUME DnsInv, NEW t \in Threads, NEW name \in Names, Dns!Ask(t, name) PROVE DnsInv'
<1> DEFINE over == {q.name : q \in Dns!Orphans(t)}
           new == [at |-> "wait", name |-> name, addr |-> "none", over |-> over]
           q0 == [name |-> name, arg |-> t]
<1>1. queries \in SUBSET [name : Names, arg : Threads] /\ IsFiniteSet(queries)
      /\ Cardinality(queries) \in Nat /\ Cardinality(queries) < TableSize
  BY FS_CardinalityType, DnsCounts DEF DnsInv, Dns!TypeOK, Dns!Ask
<1>2. new \in DnsCalls /\ \A q \in queries : q.arg = t => q.name \in over
  BY <1>1 DEF DnsCalls, Dns!Orphans
<1>3. /\ lookup' = [lookup EXCEPT ![t] = new] /\ queries' = queries \cup {q0}
      /\ ctx' = [ctx EXCEPT ![t] = Dns!EmptyCtx] /\ cache' = cache
  BY DEF Dns!Ask
<1> HIDE DEF over
<1>4. IsFiniteSet(queries') /\ Cardinality(queries') <= TableSize
  <2> HIDE DEF q0, new
  <2>1. IsFiniteSet(queries \cup {q0}) /\ Cardinality(queries \cup {q0}) \in
           {Cardinality(queries), Cardinality(queries) + 1}
    BY <1>1, FS_AddElement
  <2>2. Cardinality(queries') \in {Cardinality(queries), Cardinality(queries) + 1}
    BY <1>3, <2>1
  <2> QED BY <1>1, <1>3, <2>1, <2>2, RequestsAssumption
<1>5. Dns!TypeOK'
  BY <1>1, <1>3, <1>4, DnsCounts DEF DnsInv, Dns!TypeOK, Dns!EmptyCtx
<1> HIDE DEF new
<1>6. lookup' \in [Threads -> DnsCalls] /\ lookup'[t] = new /\ \A u \in Threads \ {t} : lookup'[u] = lookup[u]
  BY <1>2, <1>3 DEF DnsInv
<1>7. new.at = "wait" /\ new.name = name /\ new.over = over /\ ~ctx'[t].resolved
      /\ \A u \in Threads \ {t} : ctx'[u] = ctx[u]
  BY <1>1, <1>3 DEF DnsInv, Dns!TypeOK, Dns!EmptyCtx, new
<1>8. \A q \in queries' : q \in queries \/ (q.arg = t /\ q.name = name)
  <2>1. q0.arg = t /\ q0.name = name
    OBVIOUS
  <2> HIDE DEF q0
  <2> QED BY <1>3, <2>1
<1>9. Dns!OwnAddress'
  BY <1>6, <1>7 DEF DnsInv, Dns!OwnAddress
<1>10. \A u \in Threads : lookup'[u].at = "wait" =>
        /\ \A q \in queries' : q.arg = u => q.name \in {lookup'[u].name} \cup lookup'[u].over
        /\ ctx'[u].resolved => ctx'[u].addr \in {lookup'[u].name} \cup lookup'[u].over
  BY <1>2, <1>6, <1>7, <1>8 DEF DnsInv
<1> QED BY <1>4, <1>5, <1>6, <1>9, <1>10 DEF DnsInv

\* The answer, or that there is none, comes to the frame that is there by then.
LEMMA DnsCallback ==
  ASSUME DnsInv, NEW q \in queries, NEW found \in BOOLEAN, Dns!Callback(q, found) PROVE DnsInv'
<1>1. queries \in SUBSET [name : Names, arg : Threads] /\ IsFiniteSet(queries)
      /\ Cardinality(queries) \in Nat /\ Cardinality(queries) <= TableSize
  BY FS_CardinalityType, DnsCounts DEF DnsInv, Dns!TypeOK
<1>2. /\ queries' = queries \ {q} /\ lookup' = lookup
      /\ ctx' = [ctx EXCEPT ![q.arg] = IF found THEN Dns!Written(@, q) ELSE [@ EXCEPT !.failed = TRUE]]
      /\ cache' \in {cache, cache \cup {q.name}}
  BY DEF Dns!Callback
<1>3. IsFiniteSet(queries') /\ Cardinality(queries') <= TableSize
  <2>1. Cardinality(queries \ {q}) = Cardinality(queries) - 1 /\ IsFiniteSet(queries \ {q})
    BY <1>1, FS_RemoveElement
  <2> QED BY <1>1, <1>2, <2>1, RequestsAssumption
<1>4. q.name \in Names /\ q.arg \in Threads
  BY <1>1
<1>5. /\ ctx' \in [Threads -> [resolved : BOOLEAN, failed : BOOLEAN, addr : Names \cup {"none"}]]
      /\ \A u \in Threads \ {q.arg} : ctx'[u] = ctx[u]
      /\ ctx'[q.arg].resolved =>
           \/ ctx'[q.arg].addr = q.name
           \/ ctx[q.arg].resolved /\ ctx'[q.arg].addr = ctx[q.arg].addr
  BY <1>2, <1>4 DEF DnsInv, Dns!TypeOK, Dns!Written
<1>6. Dns!TypeOK'
  <2>1. queries' \in SUBSET [name : Names, arg : Threads] /\ cache' \subseteq Names
    BY <1>1, <1>2, <1>4 DEF DnsInv, Dns!TypeOK
  <2>2. \A u \in Threads : lookup'[u].at \in {"none", "wait", "ok", "failed"}
    BY <1>2 DEF DnsInv, Dns!TypeOK
  <2> QED BY <1>3, <1>5, <2>1, <2>2, DnsCounts DEF Dns!TypeOK
<1>7. \A u \in Threads : lookup[u].at = "wait" =>
        /\ \A r \in queries' : r.arg = u => r.name \in {lookup[u].name} \cup lookup[u].over
        /\ ctx'[u].resolved => ctx'[u].addr \in {lookup[u].name} \cup lookup[u].over
  BY <1>2, <1>4, <1>5 DEF DnsInv
<1> QED BY <1>2, <1>3, <1>6, <1>7 DEF DnsInv, Dns!OwnAddress

\* A call that ends, at once or after waiting.
LEMMA DnsEnds ==
  ASSUME DnsInv, NEW t \in Threads,
         \/ \E name \in Names : Dns!AtOnce(t, name)
         \/ Dns!Answered(t) \/ Dns!NotFound(t) \/ Dns!TimedOut(t)
  PROVE  DnsInv'
<1>1. UNCHANGED <<ctx, queries, cache>>
  BY DEF Dns!AtOnce, Dns!Answered, Dns!NotFound, Dns!TimedOut
<1>2. PICK e \in DnsCalls : /\ lookup' = [lookup EXCEPT ![t] = e]
                            /\ e.at \in {"ok", "failed"}
                            /\ e.at = "ok" => e.addr \in {e.name} \cup e.over
  <2>1. ASSUME NEW name \in Names, Dns!AtOnce(t, name)
        PROVE  \E e \in DnsCalls : /\ lookup' = [lookup EXCEPT ![t] = e]
                                   /\ e.at \in {"ok", "failed"}
                                   /\ e.at = "ok" => e.addr \in {e.name} \cup e.over
    <3> DEFINE yes == [at |-> "ok", name |-> name, addr |-> name, over |-> {}]
               no  == [at |-> "failed", name |-> name, addr |-> "none", over |-> {}]
    <3>1. yes \in DnsCalls /\ no \in DnsCalls
      BY DEF DnsCalls
    <3>2. \/ lookup' = [lookup EXCEPT ![t] = yes]
          \/ lookup' = [lookup EXCEPT ![t] = no]
      BY <2>1 DEF Dns!AtOnce
    <3> QED BY <3>1, <3>2
  <2>2. CASE Dns!Answered(t) \/ Dns!NotFound(t) \/ Dns!TimedOut(t)
    <3> DEFINE c == lookup[t]
               yes == [c EXCEPT !.at = "ok", !.addr = ctx[t].addr]
               no  == [c EXCEPT !.at = "failed"]
    <3>1. /\ c \in [at : {"wait", "ok", "failed"}, name : Names, addr : Names \cup {"none"},
                      over : SUBSET Names]
          /\ c.at = "wait"
      BY <2>2 DEF DnsInv, DnsCalls, Dns!NoCall, Dns!Answered, Dns!NotFound, Dns!TimedOut
    <3>2. no \in DnsCalls /\ no.at = "failed"
      BY <3>1 DEF DnsCalls
    <3>3. ctx[t].resolved => /\ yes \in DnsCalls /\ yes.at = "ok"
                             /\ yes.addr \in {yes.name} \cup yes.over
      BY <3>1 DEF DnsCalls, DnsInv, Dns!TypeOK
    <3>4. \/ ctx[t].resolved /\ lookup' = [lookup EXCEPT ![t] = yes]
          \/ lookup' = [lookup EXCEPT ![t] = no]
      BY <2>2 DEF Dns!Answered, Dns!NotFound, Dns!TimedOut, DnsInv
    <3> QED BY <3>2, <3>3, <3>4
  <2> QED BY <2>1, <2>2
<1>3. lookup' \in [Threads -> DnsCalls] /\ lookup'[t] = e /\ \A u \in Threads \ {t} : lookup'[u] = lookup[u]
  <2>1. lookup \in [Threads -> DnsCalls]
    BY DEF DnsInv
  <2>2. lookup' = [lookup EXCEPT ![t] = e]
    BY <1>2
  <2>3. e \in DnsCalls
    OBVIOUS
  <2> QED BY <2>1, <2>2, <2>3
<1>4. Dns!TypeOK'
  <2>1. lookup'[t].at \in {"none", "wait", "ok", "failed"}
    BY <1>2, <1>3
  <2> QED BY <1>1, <1>3, <2>1, DnsCounts DEF DnsInv, Dns!TypeOK
<1> QED BY <1>1, <1>2, <1>3, <1>4 DEF DnsInv, Dns!OwnAddress

\* Every step of the resolver, and those of the others, which leave it alone.
LEMMA DnsSteps ==
  ASSUME DnsInv, Dns!Next \/ UNCHANGED dnsVars PROVE DnsInv'
<1>1. CASE UNCHANGED dnsVars
  BY <1>1 DEF dnsVars, DnsInv, Dns!TypeOK, Dns!OwnAddress, Dns!Cardinality
<1>2. ASSUME NEW name \in Names, Dns!Forget(name) PROVE DnsInv'
  BY <1>2, DnsCounts DEF Dns!Forget, DnsInv, Dns!TypeOK, Dns!OwnAddress
<1> QED BY <1>1, <1>2, DnsAsk, DnsEnds, DnsCallback DEF Dns!Next

-------------------------------------------------------------------------------
(* Echoes (net_ping) *)

\* No command, no request.
LEMMA EchoInit == Echo!Init => EchoInv
<1> SUFFICES ASSUME Echo!Init PROVE EchoInv
  OBVIOUS
<1>1. EchoTypes
  BY RequestsAssumption DEF EchoTypes, Echo!Init, Commands, Places, Echo!NoPing, Echo!Nothing
<1>2. \A t \in Threads : Counting(t) /\ Solitude(t)
  BY RequestsAssumption DEF Echo!Init, Counting, Solitude, Echo!Running, Echo!NoPing, Echo!Nothing
<1> QED BY <1>1, <1>2 DEF EchoInv

\* The invariant gives the types, and that a command alone hears only its own request.
LEMMA EchoTypesHold == EchoInv => Echo!TypeOK /\ Echo!AloneExact
<1> SUFFICES ASSUME EchoInv PROVE Echo!TypeOK /\ Echo!AloneExact
  OBVIOUS
<1>1. Echo!TypeOK
  BY RequestsAssumption DEF EchoInv, EchoTypes, Counting, Commands, Places, Requests, Echo!TypeOK
<1>2. Echo!AloneExact
  BY DEF EchoInv, EchoTypes, Counting, Solitude, The, Echo!Running, Echo!AloneExact
<1> QED BY <1>1, <1>2

\* A new command ends the solitude of every other one.
LEMMA EchoStart ==
  ASSUME EchoInv, NEW t \in Threads, Echo!Start(t) PROVE EchoInv'
<1> DEFINE others == {u \in Threads \ {t} : Echo!Running(u)}
           lone == others = {} /\ echoes = {}
           new == [Echo!NoPing EXCEPT !.at = "number", !.run = ping[t].run + 1, !.seq = 1,
                                      !.alone = lone]
<1>1. /\ ping[t].at = "none" /\ ping[t].run < MaxRuns[t] /\ state' = state /\ echoes' = echoes
      /\ ping' = [u \in Threads |-> IF u = t THEN new
                                    ELSE [ping[u] EXCEPT !.alone = @ /\ ~Echo!Running(u)]]
  BY DEF Echo!Start, Echo!Running
<1>2. new \in Commands
  <2>1. ping[t].run + 1 \in Nat
    BY DEF EchoInv, EchoTypes, Commands
  <2>2. lone \in BOOLEAN
    OBVIOUS
  <2> HIDE DEF lone
  <2> QED BY <2>1, <2>2 DEF Commands, Places, Echo!NoPing
<1>3. lone => echoes = {} /\ \A u \in Threads \ {t} : ~Echo!Running(u)
  OBVIOUS
<1> HIDE DEF lone
<1>4. new.at = "number" /\ new.run = ping[t].run + 1 /\ new.seq = 1 /\ new.rx = 0
      /\ new.counted = Echo!Nothing /\ (new.alone => lone)
  BY DEF Echo!NoPing
<1> HIDE DEF new, others
<1>5. ping'[t] = new
  BY <1>1
<1>6. ASSUME NEW u \in Threads \ {t}
      PROVE  /\ ping'[u] \in Commands /\ ping'[u].at = ping[u].at /\ ping'[u].run = ping[u].run
             /\ ping'[u].seq = ping[u].seq /\ ping'[u].rx = ping[u].rx
             /\ ping'[u].counted = ping[u].counted
             /\ ~(Echo!Running(u) /\ ping'[u].alone)
  <2>1. ping[u] \in Commands /\ ping'[u] = [ping[u] EXCEPT !.alone = @ /\ ~Echo!Running(u)]
    BY <1>1 DEF EchoInv, EchoTypes
  <2> QED BY <2>1 DEF Commands
<1>7. EchoTypes'
  <2>1. ping' \in [Threads -> Commands]
    BY <1>1, <1>2, <1>5, <1>6
  <2> QED BY <1>1, <2>1 DEF EchoInv, EchoTypes
<1>8. Counting(t)' /\ Solitude(t)'
  <2>1. ping[t].run \in Nat /\ MaxRuns[t] \in Nat /\ PingCount >= 1
    BY RequestsAssumption DEF EchoInv, EchoTypes, Commands
  <2>2. Counting(t)'
    BY <1>1, <1>4, <1>5, <2>1, RequestsAssumption DEF Counting, Echo!Running
  <2>3. ping'[t].alone => \A u \in Threads \ {t} : ~(Echo!Running(u))'
    BY <1>3, <1>4, <1>5, <1>6 DEF Echo!Running
  <2> QED BY <1>1, <1>3, <1>4, <1>5, <2>2, <2>3 DEF Solitude
<1>9. ASSUME NEW u \in Threads \ {t} PROVE Counting(u)' /\ Solitude(u)'
  BY <1>1, <1>6 DEF EchoInv, Counting, Solitude, Echo!Running
<1> QED BY <1>7, <1>8, <1>9 DEF EchoInv

\* A step of a command on its way: the others that run are not alone.
LEMMA EchoMoves ==
  ASSUME EchoInv, NEW t \in Threads, Echo!Running(t),
         NEW new \in Commands, ping' = [ping EXCEPT ![t] = new],
         new.alone = ping[t].alone, EchoTypes', Counting(t)', Solitude(t)',
         state'.seq = state.seq \/ state'.seq >= 1
  PROVE  EchoInv'
<1>1. ping'[t] = new /\ \A u \in Threads \ {t} : ping'[u] = ping[u]
  BY DEF EchoInv, EchoTypes
<1>2. ASSUME NEW u \in Threads \ {t} PROVE Counting(u)' /\ Solitude(u)'
  BY <1>1 DEF EchoInv, Counting, Solitude, Echo!Running
<1> QED BY <1>2 DEF EchoInv

\* net_ping puts the number of its request where ping_raw_recv looks for it.
LEMMA EchoNumber ==
  ASSUME EchoInv, NEW t \in Threads, Echo!Number(t) PROVE EchoInv'
<1> DEFINE new == [ping[t] EXCEPT !.at = "send"]
<1>1. /\ ping[t].at = "number" /\ Echo!Running(t) /\ ping[t] \in Commands /\ echoes' = echoes
      /\ state' = [state EXCEPT !.seq = ping[t].seq]
      /\ ping' = [ping EXCEPT ![t] = new]
  BY DEF Echo!Number, Echo!Step, Echo!Running, EchoInv, EchoTypes
<1>2. /\ new \in Commands /\ new.at = "send" /\ new.run = ping[t].run /\ new.seq = ping[t].seq
      /\ new.rx = ping[t].rx /\ new.counted = ping[t].counted /\ new.alone = ping[t].alone
  BY <1>1 DEF Commands, Places
<1> HIDE DEF new
<1>3. ping'[t] = new /\ ping' \in [Threads -> Commands] /\ \A u \in Threads \ {t} : ping'[u] = ping[u]
  BY <1>1, <1>2 DEF EchoInv, EchoTypes
<1>4. ping[t].seq \in 1 .. PingCount
  BY <1>1, RequestsAssumption DEF EchoInv, Counting, Commands
<1>5. EchoTypes' /\ state'.seq = ping[t].seq
  BY <1>1, <1>3, <1>4 DEF EchoInv, EchoTypes
<1>6. Counting(t)' /\ Solitude(t)'
  BY <1>1, <1>2, <1>3, <1>4, <1>5 DEF EchoInv, Counting, Solitude, Echo!Running
<1>7. state'.seq >= 1
  BY <1>4, <1>5
<1> QED BY <1>1, <1>2, <1>5, <1>6, <1>7, EchoMoves

\* The flag is cleared and the request leaves, under the number that is there by then.
LEMMA EchoSend ==
  ASSUME EchoInv, NEW t \in Threads, NEW out \in BOOLEAN, Echo!Send(t, out) PROVE EchoInv'
<1> DEFINE new == [ping[t] EXCEPT !.at = "wait"]
           e0 == [by |-> t, run |-> ping[t].run, seq |-> state.seq]
<1>1. /\ ping[t].at = "send" /\ Echo!Running(t) /\ ping[t] \in Commands
      /\ state' = [state EXCEPT !.received = FALSE]
      /\ ping' = [ping EXCEPT ![t] = new]
      /\ echoes' \in {echoes, echoes \cup {e0}}
  BY DEF Echo!Send, Echo!Cleared, Echo!Step, Echo!Running, EchoInv, EchoTypes
<1>2. /\ new \in Commands /\ new.at = "wait" /\ new.run = ping[t].run /\ new.seq = ping[t].seq
      /\ new.rx = ping[t].rx /\ new.counted = ping[t].counted /\ new.alone = ping[t].alone
  BY <1>1 DEF Commands, Places
<1> HIDE DEF new
<1>3. ping'[t] = new /\ ping' \in [Threads -> Commands] /\ \A u \in Threads \ {t} : ping'[u] = ping[u]
  BY <1>1, <1>2 DEF EchoInv, EchoTypes
<1>4. state.seq \in 1 .. PingCount /\ ping[t].run \in 1 .. MaxRuns[t]
  <2>1. ping[t].run >= 1 /\ ping[t].run <= MaxRuns[t] /\ state.seq >= 1
    BY <1>1 DEF EchoInv, Counting
  <2> QED BY <1>1, <2>1, RequestsAssumption DEF EchoInv, EchoTypes, Commands
<1>5. /\ e0 \in Requests /\ e0.by = t /\ e0.run = ping[t].run /\ e0.seq = state.seq
  BY <1>4 DEF Requests
<1> HIDE DEF e0
<1>6. \A e \in echoes' : e \in echoes \/ e = e0
  BY <1>1
<1>7. EchoTypes'
  <2>1. state' \in [seq : 0 .. PingCount, received : BOOLEAN, heard : Requests \cup {Echo!Nothing}]
    BY <1>1 DEF EchoInv, EchoTypes
  <2>2. echoes' \subseteq Requests /\ \A e \in echoes' : e.run \in 1 .. MaxRuns[e.by] /\ e.seq \in 1 .. PingCount
    BY <1>4, <1>5, <1>6 DEF EchoInv, EchoTypes
  <2> QED BY <1>3, <2>1, <2>2 DEF EchoTypes
<1>8. state'.seq = state.seq /\ ~state'.received
  BY <1>1 DEF EchoInv, EchoTypes
<1>9. Counting(t)'
  BY <1>1, <1>2, <1>3 DEF EchoInv, Counting, Echo!Running
<1>10. Solitude(t)'
  <2>1. ASSUME Echo!Running(t)', ping'[t].alone
        PROVE  /\ \A u \in Threads \ {t} : ~Echo!Running(u)'
               /\ \A e \in echoes' : e.by = t /\ e.run = ping'[t].run /\ e.seq <= ping'[t].seq
               /\ state'.seq = ping'[t].seq
    <3>1. /\ \A u \in Threads \ {t} : ~Echo!Running(u)
          /\ \A e \in echoes : e.by = t /\ e.run = ping[t].run /\ e.seq <= ping[t].seq
          /\ state.seq = ping[t].seq
      BY <1>1, <1>2, <1>3, <2>1 DEF EchoInv, Solitude
    <3>2. ping[t].seq <= ping[t].seq
      BY <1>1 DEF Commands
    <3> QED BY <1>2, <1>3, <1>5, <1>6, <1>8, <3>1, <3>2 DEF Echo!Running
  <2> QED BY <1>2, <1>3, <1>8, <2>1 DEF Solitude
<1> QED BY <1>1, <1>2, <1>7, <1>8, <1>9, <1>10, EchoMoves

\* Out of memory, or the end of the wait.
LEMMA EchoGives ==
  ASSUME EchoInv, NEW t \in Threads, Echo!NoMemory(t) PROVE EchoInv'
<1> DEFINE new == [ping[t] EXCEPT !.at = "none"]
<1>1. /\ ping[t].at = "send" /\ Echo!Running(t) /\ ping[t] \in Commands /\ echoes' = echoes
      /\ state' = [state EXCEPT !.received = FALSE]
      /\ ping' = [ping EXCEPT ![t] = new]
  BY DEF Echo!NoMemory, Echo!Cleared, Echo!Step, Echo!Running, EchoInv, EchoTypes
<1>2. /\ new \in Commands /\ new.at = "none" /\ new.run = ping[t].run /\ new.seq = ping[t].seq
      /\ new.rx = ping[t].rx /\ new.counted = ping[t].counted /\ new.alone = ping[t].alone
  BY <1>1 DEF Commands, Places
<1> HIDE DEF new
<1>3. ping'[t] = new /\ ping' \in [Threads -> Commands] /\ \A u \in Threads \ {t} : ping'[u] = ping[u]
  BY <1>1, <1>2 DEF EchoInv, EchoTypes
<1>4. EchoTypes' /\ state'.seq = state.seq
  BY <1>1, <1>3 DEF EchoInv, EchoTypes
<1>5. Counting(t)' /\ Solitude(t)'
  BY <1>1, <1>2, <1>3 DEF EchoInv, Counting, Solitude, Echo!Running
<1> QED BY <1>1, <1>2, <1>4, <1>5, EchoMoves

\* An answer was accepted while the command waited.
LEMMA EchoCounts ==
  ASSUME EchoInv, NEW t \in Threads, Echo!Counts(t) PROVE EchoInv'
<1>0. PICK h, n : h = state.heard /\ n = ping[t].rx + 1
  OBVIOUS
<1> DEFINE new == [ping[t] EXCEPT !.at = "pause", !.rx = n, !.counted = h]
<1>1. /\ ping[t].at = "wait" /\ Echo!Running(t) /\ ping[t] \in Commands /\ echoes' = echoes
      /\ state' = state /\ state.received /\ h \in Requests \cup {Echo!Nothing}
      /\ n \in Nat /\ ping' = [ping EXCEPT ![t] = new]
  BY <1>0 DEF Echo!Counts, Commands, Echo!Running, EchoInv, EchoTypes
<1>2. /\ new \in Commands /\ new.at = "pause" /\ new.run = ping[t].run /\ new.seq = ping[t].seq
      /\ new.rx = n /\ new.counted = h /\ new.alone = ping[t].alone
  BY <1>1 DEF Commands, Places
<1> HIDE DEF new
<1>3. ping'[t] = new /\ ping' \in [Threads -> Commands] /\ \A u \in Threads \ {t} : ping'[u] = ping[u]
  BY <1>1, <1>2 DEF EchoInv, EchoTypes
<1>4. EchoTypes'
  BY <1>1, <1>3 DEF EchoInv, EchoTypes
<1>5. Counting(t)'
  <2>1. ping[t].rx \in Nat /\ ping[t].seq \in Nat /\ ping[t].rx < ping[t].seq /\ ping[t].seq <= PingCount
    BY <1>1 DEF EchoInv, Counting, Commands
  <2> QED BY <1>0, <1>1, <1>2, <1>3, <2>1, RequestsAssumption DEF EchoInv, Counting, Echo!Running
<1>6. Solitude(t)'
  <2>1. The(t)' = The(t)
    BY <1>2, <1>3 DEF The
  <2>2. ping[t].alone => h = The(t)
    BY <1>0, <1>1 DEF EchoInv, Solitude
  <2>3. Solitude(t)
    BY DEF EchoInv
  <2> QED BY <1>1, <1>2, <1>3, <2>1, <2>2, <2>3 DEF Solitude, Echo!Running
<1> QED BY <1>1, <1>2, <1>4, <1>5, <1>6, EchoMoves

\* No answer was accepted in time.
LEMMA EchoTimesOut ==
  ASSUME EchoInv, NEW t \in Threads, Echo!TimesOut(t) PROVE EchoInv'
<1> DEFINE new == [ping[t] EXCEPT !.at = "pause"]
<1>1. /\ ping[t].at = "wait" /\ Echo!Running(t) /\ ping[t] \in Commands /\ echoes' = echoes
      /\ state' = state
      /\ ping' = [ping EXCEPT ![t] = new]
  BY DEF Echo!TimesOut, Echo!Step, Echo!Running, EchoInv, EchoTypes
<1>2. /\ new \in Commands /\ new.at = "pause" /\ new.run = ping[t].run /\ new.seq = ping[t].seq
      /\ new.rx = ping[t].rx /\ new.counted = ping[t].counted /\ new.alone = ping[t].alone
  BY <1>1 DEF Commands, Places
<1> HIDE DEF new
<1>3. ping'[t] = new /\ ping' \in [Threads -> Commands] /\ \A u \in Threads \ {t} : ping'[u] = ping[u]
  BY <1>1, <1>2 DEF EchoInv, EchoTypes
<1>4. EchoTypes'
  BY <1>1, <1>3 DEF EchoInv, EchoTypes
<1>5. Counting(t)' /\ Solitude(t)'
  <2>1. ping[t].rx \in Nat /\ ping[t].seq \in Nat
    BY <1>1 DEF Commands
  <2> QED BY <1>1, <1>2, <1>3, <2>1 DEF EchoInv, Counting, Solitude, Echo!Running
<1> QED BY <1>1, <1>2, <1>4, <1>5, EchoMoves

\* After the pause the next request, or the end.
LEMMA EchoGoes ==
  ASSUME EchoInv, NEW t \in Threads, Echo!Goes(t) PROVE EchoInv'
<1>0. PICK n : n = ping[t].seq + 1
  OBVIOUS
<1> DEFINE next == [ping[t] EXCEPT !.at = "number", !.seq = n, !.counted = Echo!Nothing]
           end  == [ping[t] EXCEPT !.at = "none", !.counted = Echo!Nothing]
<1>1. /\ ping[t].at = "pause" /\ Echo!Running(t) /\ ping[t] \in Commands /\ echoes' = echoes
      /\ state' = state /\ n \in Nat
      /\ ping' = IF ping[t].seq < PingCount THEN [ping EXCEPT ![t] = next] ELSE [ping EXCEPT ![t] = end]
  <2>1. ping \in [Threads -> Commands]
    BY DEF EchoInv, EchoTypes
  <2>2. ping[t] \in Commands /\ n \in Nat
    BY <1>0, <2>1 DEF Commands
  <2> QED BY <1>0, <2>1, <2>2 DEF Echo!Goes, Echo!Running
<1>2. PICK new : new = IF ping[t].seq < PingCount THEN next ELSE end
  OBVIOUS
<1>3. /\ new \in Commands /\ new.run = ping[t].run /\ new.rx = ping[t].rx
      /\ new.counted = Echo!Nothing /\ new.alone = ping[t].alone
      /\ \/ new.at = "number" /\ new.seq = ping[t].seq + 1 /\ ping[t].seq < PingCount
         \/ new.at = "none" /\ new.seq = ping[t].seq
  <2>1. /\ next \in Commands /\ next.run = ping[t].run /\ next.rx = ping[t].rx
        /\ next.counted = Echo!Nothing /\ next.alone = ping[t].alone
        /\ next.at = "number" /\ next.seq = n
    BY <1>1 DEF Commands, Places
  <2>2. /\ end \in Commands /\ end.run = ping[t].run /\ end.rx = ping[t].rx
        /\ end.counted = Echo!Nothing /\ end.alone = ping[t].alone
        /\ end.at = "none" /\ end.seq = ping[t].seq
    BY <1>1 DEF Commands, Places
  <2> HIDE DEF next, end
  <2> QED BY <1>0, <1>2, <2>1, <2>2
<1>4. ping' = [ping EXCEPT ![t] = new]
  BY <1>1, <1>2
<1> HIDE DEF next, end
<1>5. ping'[t] = new /\ ping' \in [Threads -> Commands] /\ \A u \in Threads \ {t} : ping'[u] = ping[u]
  BY <1>3, <1>4 DEF EchoInv, EchoTypes
<1>6. EchoTypes'
  BY <1>1, <1>5 DEF EchoInv, EchoTypes
<1>7. ping[t].rx \in Nat /\ ping[t].seq \in Nat /\ ping[t].rx <= ping[t].seq /\ Counting(t)
      /\ ping[t].seq >= 1 /\ Solitude(t) /\ \A e \in echoes : e.seq \in Nat
  BY <1>1 DEF EchoInv, EchoTypes, Requests, Counting, Commands
<1>8. Counting(t)'
  BY <1>1, <1>3, <1>5, <1>7, RequestsAssumption DEF Counting, Echo!Running
<1>9. Solitude(t)'
  BY <1>1, <1>3, <1>5, <1>7 DEF Solitude, Echo!Running
<1> QED BY <1>1, <1>3, <1>4, <1>6, <1>8, <1>9, EchoMoves

\* An answer comes or is lost; it is heard if its number is the one waited for.
LEMMA EchoAnswers ==
  ASSUME EchoInv, NEW e \in echoes, Echo!Answer(e) \/ Echo!Lost(e) PROVE EchoInv'
<1> DEFINE hears == [state EXCEPT !.received = TRUE, !.heard = e]
<1>1. /\ ping' = ping /\ echoes' = echoes \ {e}
      /\ state' = state \/ (state' = hears /\ e.seq = state.seq)
  BY DEF Echo!Answer, Echo!Lost, Echo!Matches
<1>2. e \in Requests /\ e = [by |-> e.by, run |-> e.run, seq |-> e.seq]
  <2>1. e \in Requests
    BY DEF EchoInv, EchoTypes
  <2> QED BY <2>1 DEF Requests
<1>3. hears \in [seq : 0 .. PingCount, received : BOOLEAN, heard : Requests \cup {Echo!Nothing}]
      /\ hears.seq = state.seq /\ hears.heard = e
  BY <1>2 DEF EchoInv, EchoTypes
<1> HIDE DEF hears
<1>4. EchoTypes' /\ state'.seq = state.seq
  BY <1>1, <1>3 DEF EchoInv, EchoTypes
<1>5. ASSUME NEW t \in Threads PROVE Counting(t)' /\ Solitude(t)'
  <2>1. Counting(t)'
    BY <1>1, <1>4 DEF EchoInv, Counting, Echo!Running
  <2>2. ASSUME Echo!Running(t), ping[t].alone, ping[t].at = "wait", state' = hears, e.seq = state.seq
        PROVE  hears.heard = The(t)
    <3>1. e.by = t /\ e.run = ping[t].run /\ e.seq = ping[t].seq
      BY <2>2 DEF EchoInv, Solitude
    <3> QED BY <1>2, <1>3, <3>1 DEF The
  <2>3. Solitude(t)'
    BY <1>1, <1>3, <1>4, <2>2 DEF EchoInv, Solitude, The, Echo!Running
  <2> QED BY <2>1, <2>3
<1> QED BY <1>4, <1>5 DEF EchoInv

\* Every step of a ping, and those of the others, which leave it alone.
LEMMA EchoSteps ==
  ASSUME EchoInv, Echo!Next \/ UNCHANGED pingVars PROVE EchoInv'
<1>1. CASE UNCHANGED <<ping, state, echoes>>
  BY <1>1 DEF EchoInv, EchoTypes, Counting, Solitude, The, Echo!Running
<1> QED BY <1>1, EchoStart, EchoNumber, EchoSend, EchoGives, EchoCounts, EchoTimesOut, EchoGoes,
           EchoAnswers DEF Echo!Next, Echo!vars, pingVars
-------------------------------------------------------------------------------
(* Fetches and downloads (net_http_fetch, net_http_download) *)

\* A set of numbers that is not empty has a least one.
LEMMA LeastExists ==
  ASSUME NEW S \in SUBSET Nat, S # {}
  PROVE  \E x \in S : \A y \in S : x <= y
<1> DEFINE R == {p \in Nat \X Nat : p[1] < p[2]}
<1>1. IsWellFoundedOn(R, Nat)
  <2>1. R = OpToRel(<, Nat)
    BY DEF OpToRel
  <2> QED BY <2>1, NatLessThanWellFounded
<1>2. PICK x \in S : \A y \in S : ~ (<<y, x>> \in R)
  BY <1>1, WFMin
<1>3. x \in Nat /\ \A y \in S : y \in Nat /\ ~ (y < x)
  BY <1>2
<1> QED BY <1>3

\* The names and numbers the fetches rely on.
LEMMA WebFacts ==
    /\ Web!Kinds = {"request", "tls", "header", "file"}
    /\ Web!None \notin Web!Sockets /\ Web!Sockets \subseteq Nat
    /\ "nobody" \notin Threads /\ MaxRedirects \in Nat \ {0}
  BY RequestsAssumption, SocketsAssumption DEF Web!Kinds, Web!None, Web!Sockets

\* Nothing is taken before the first fetch.
LEMMA WebInit == Web!Init => WebInv
<1> SUFFICES ASSUME Web!Init PROVE WebInv
  OBVIOUS
<1>1. Web!NoOp \in WebOps /\ Web!NoOp.at = "none" /\ ~Web!NoOp.closed
  BY WebFacts DEF WebOps, WebPlaces, Web!NoOp
<1>2. WebTypes
  <2>1. slot \in [Web!Sockets -> Slots]
    BY DEF Web!Init, Slots, SlotStates, Web!FreeSocket
  <2>2. op \in [Threads -> WebOps] /\ astray \in BOOLEAN
    BY <1>1 DEF Web!Init
  <2>3. heap \in [Threads -> Held]
    BY DEF Web!Init, Held
  <2> QED BY <2>1, <2>2, <2>3 DEF WebTypes
<1>3. \A s \in Web!Sockets : Taken(s)
  BY WebFacts DEF Web!Init, Taken, Web!FreeSocket
<1>4. \A t \in Threads : Fetching(t)
  BY <1>1, WebFacts DEF Web!Init, Fetching, Due, Holding, Web!Mine
<1> QED BY <1>2, <1>3, <1>4 DEF WebInv

\* The invariant gives the types, and that a fetch that is over owes nothing.
LEMMA WebSound == WebInv => Web!TypeOK /\ Web!AllReturned
<1> SUFFICES ASSUME WebInv PROVE Web!TypeOK /\ Web!AllReturned
  OBVIOUS
<1>1. Web!TypeOK
  BY DEF WebInv, WebTypes, Slots, SlotStates, WebOps, Held, Web!TypeOK
<1>2. ASSUME NEW t \in Threads
      PROVE  /\ \A k \in Web!Kinds : heap[t][k] >= 0
             /\ op[t].at = "none" => Web!InUse(t) = {}
  BY <1>2, WebFacts DEF WebInv, Fetching, Due, Web!InUse
<1>3. \A t \in Threads : op[t].at = "none" => \A s \in Web!Sockets : slot[s].owner # t
  BY DEF WebInv, Taken, Holding
<1> QED BY <1>1, <1>2, <1>3 DEF Web!AllReturned

\* A step of one call that takes no socket of the others and gives them none.
LEMMA WebOne ==
  ASSUME WebInv, NEW t \in Threads, NEW new \in WebOps, NEW h \in Held, Due(new, h),
         op' = [op EXCEPT ![t] = new], heap' = [heap EXCEPT ![t] = h],
         slot' \in [Web!Sockets -> Slots], astray' \in BOOLEAN, astray => astray',
         new.closed => new.at \in {"again", "last"} \/ astray',
         \A s \in Web!Sockets : slot'[s].state = "free" <=> slot'[s].owner = "nobody",
         \A s \in Web!Sockets : slot'[s].owner \in Threads \ {t} => slot[s].owner = slot'[s].owner,
         \A s \in Web!Sockets : slot'[s].owner = t => new.sock = s /\ new.at \in Holding /\ ~new.closed,
         ~astray' => \A s \in Web!Sockets : slot[s].owner \in Threads \ {t} => slot'[s].owner = slot[s].owner,
         ~astray' /\ new.at \in Holding /\ ~new.closed => new.sock \in Web!Sockets /\ slot'[new.sock].owner = t
  PROVE  WebInv'
<1>1. /\ op'[t] = new /\ heap'[t] = h
      /\ \A u \in Threads \ {t} : op'[u] = op[u] /\ heap'[u] = heap[u]
      /\ op' \in [Threads -> WebOps] /\ heap' \in [Threads -> Held]
  BY DEF WebInv, WebTypes
<1>2. WebTypes'
  BY <1>1 DEF WebTypes
<1>3. ASSUME NEW s \in Web!Sockets PROVE Taken(s)'
  BY <1>1 DEF WebInv, Taken
<1>4. Fetching(t)'
  BY <1>1, WebFacts DEF Fetching, Web!Mine
<1>5. ASSUME NEW u \in Threads \ {t} PROVE Fetching(u)'
  <2>1. ~astray' /\ op[u].at \in Holding /\ ~op[u].closed => Web!Mine(u)'
    <3> SUFFICES ASSUME ~astray', op[u].at \in Holding, ~op[u].closed PROVE Web!Mine(u)'
      OBVIOUS
    <3>1. op[u] \in WebOps /\ Web!Mine(u)
      BY DEF WebInv, WebTypes, Fetching
    <3>2. op[u].sock \in Web!Sockets /\ slot[op[u].sock].owner = u
      BY <3>1 DEF WebOps, Web!Mine
    <3>3. slot'[op[u].sock].owner = u
      BY <3>2
    <3> QED BY <1>1, <3>2, <3>3, WebFacts DEF Web!Mine
  <2> QED BY <1>1, <2>1 DEF WebInv, Fetching
<1> QED BY <1>2, <1>3, <1>4, <1>5 DEF WebInv

\* The sockets stay whose they are.
LEMMA WebKeeps ==
  ASSUME WebInv, NEW t \in Threads, NEW new \in WebOps, NEW h \in Held, Due(new, h),
         op' = [op EXCEPT ![t] = new], heap' = [heap EXCEPT ![t] = h],
         slot' \in [Web!Sockets -> Slots],
         \A s \in Web!Sockets : /\ slot'[s].owner = slot[s].owner
                                /\ slot'[s].state = "free" <=> slot[s].state = "free",
         astray' \in BOOLEAN, astray => astray',
         new.sock = op[t].sock, new.closed = op[t].closed, new.at \in Holding <=> op[t].at \in Holding,
         new.closed => new.at \in {"again", "last"} \/ astray'
  PROVE  WebInv'
<1>1. \A s \in Web!Sockets : slot[s].state = "free" <=> slot[s].owner = "nobody"
  BY DEF WebInv, Taken
<1>2. \A s \in Web!Sockets : slot[s].owner = t => new.sock = s /\ new.at \in Holding /\ ~new.closed
  BY DEF WebInv, Taken
<1>3. ~astray /\ new.at \in Holding /\ ~new.closed => new.sock \in Web!Sockets /\ slot[new.sock].owner = t
  BY DEF WebInv, WebTypes, WebOps, Fetching, Web!Mine
<1>4. /\ \A s \in Web!Sockets : slot'[s].state = "free" <=> slot'[s].owner = "nobody"
      /\ \A s \in Web!Sockets : slot'[s].owner \in Threads \ {t} => slot[s].owner = slot'[s].owner
      /\ \A s \in Web!Sockets : slot'[s].owner = t => new.sock = s /\ new.at \in Holding /\ ~new.closed
      /\ ~astray' => \A s \in Web!Sockets : slot[s].owner \in Threads \ {t} => slot'[s].owner = slot[s].owner
  BY <1>1, <1>2
<1>5. ~astray' /\ new.at \in Holding /\ ~new.closed => new.sock \in Web!Sockets /\ slot'[new.sock].owner = t
  BY <1>3
<1> QED BY <1>4, <1>5, WebOne

\* The number is closed and the call has no socket any more.
LEMMA WebCloses ==
  ASSUME WebInv, NEW t \in Threads, NEW new \in WebOps, NEW h \in Held, Due(new, h),
         op' = [op EXCEPT ![t] = new], heap' = [heap EXCEPT ![t] = h],
         Web!Closing(t), op[t].at \in Holding, new.at \in Holding => new.closed,
         new.closed => new.at \in {"again", "last"}
  PROVE  WebInv'
<1>1. /\ slot \in [Web!Sockets -> Slots] /\ op[t] \in WebOps
      /\ \A s \in Web!Sockets : Taken(s)
  BY DEF WebInv, WebTypes
<1>2. slot' \in [Web!Sockets -> Slots]
  BY <1>1 DEF Web!Closing, Slots, SlotStates, Web!FreeSocket
<1>3. \A s \in Web!Sockets : IF s = op[t].sock THEN slot'[s] = Web!FreeSocket ELSE slot'[s] = slot[s]
  BY <1>1, WebFacts DEF Web!Closing
<1>4. Web!FreeSocket.owner = "nobody" /\ Web!FreeSocket.state = "free"
  BY DEF Web!FreeSocket
<1>5. \A s \in Web!Sockets : slot'[s].state = "free" <=> slot'[s].owner = "nobody"
  BY <1>1, <1>3, <1>4 DEF Taken
<1>6. \A s \in Web!Sockets : slot'[s].owner \in Threads \ {t} => slot[s].owner = slot'[s].owner
  BY <1>3, <1>4, WebFacts
<1>7. \A s \in Web!Sockets : slot'[s].owner # t
  BY <1>1, <1>3, <1>4, WebFacts DEF Taken
<1>8. ~astray' => \A s \in Web!Sockets : slot[s].owner \in Threads \ {t} => slot'[s].owner = slot[s].owner
  BY <1>3, WebFacts DEF Web!Closing, Web!Foreign
<1>9. astray' \in BOOLEAN /\ (astray => astray')
  BY DEF Web!Closing, WebInv, WebTypes
<1> QED BY <1>2, <1>5, <1>6, <1>7, <1>8, <1>9, WebOne

\* A free number is taken.
LEMMA WebTakes ==
  ASSUME WebInv, NEW t \in Threads, NEW new \in WebOps, NEW h \in Held, Due(new, h),
         op' = [op EXCEPT ![t] = new], heap' = [heap EXCEPT ![t] = h],
         NEW st \in SlotStates, st # "free", NEW s0 \in Web!FreeOnes,
         slot' = [slot EXCEPT ![s0] = [owner |-> t, state |-> st]], astray' = astray,
         op[t].at \notin Holding, new.at \in Holding, ~new.closed, new.sock = s0
  PROVE  WebInv'
<1> DEFINE mine == [owner |-> t, state |-> st]
<1>1. slot \in [Web!Sockets -> Slots] /\ s0 \in Web!Sockets /\ slot[s0].owner = "nobody"
  BY DEF WebInv, WebTypes, Taken, Web!FreeOnes
<1>2. mine \in Slots /\ mine.owner = t /\ mine.state = st
  BY DEF Slots
<1> HIDE DEF mine
<1>3. slot' \in [Web!Sockets -> Slots] /\ slot'[s0] = mine
      /\ \A s \in Web!Sockets \ {s0} : slot'[s] = slot[s]
  BY <1>1, <1>2 DEF mine
<1>4. \A s \in Web!Sockets : slot[s].owner # t
  BY DEF WebInv, Taken
<1>5. /\ \A s \in Web!Sockets : slot'[s].state = "free" <=> slot'[s].owner = "nobody"
      /\ \A s \in Web!Sockets : slot'[s].owner \in Threads \ {t} => slot[s].owner = slot'[s].owner
      /\ \A s \in Web!Sockets : slot'[s].owner = t => new.sock = s /\ new.at \in Holding /\ ~new.closed
      /\ ~astray' => \A s \in Web!Sockets : slot[s].owner \in Threads \ {t} => slot'[s].owner = slot[s].owner
  BY <1>1, <1>2, <1>3, <1>4, WebFacts DEF WebInv, Taken
<1>6. new.sock \in Web!Sockets /\ slot'[new.sock].owner = t
  BY <1>1, <1>2, <1>3
<1>7. astray' \in BOOLEAN /\ (astray => astray')
  BY DEF WebInv, WebTypes
<1> QED BY <1>3, <1>5, <1>6, <1>7, WebOne

\* The first free socket is one that is free.
LEMMA WebFirstFree == Web!FreeOnes # {} => Web!Min(Web!FreeOnes) \in Web!FreeOnes
<1> SUFFICES ASSUME Web!FreeOnes # {} PROVE Web!Min(Web!FreeOnes) \in Web!FreeOnes
  OBVIOUS
<1>1. Web!FreeOnes \in SUBSET Nat
  BY WebFacts DEF Web!FreeOnes
<1>2. \E x \in Web!FreeOnes : \A y \in Web!FreeOnes : x <= y
  BY <1>1, LeastExists
<1> QED BY <1>2 DEF Web!Min

\* Another place, with everything else as it was.
LEMMA WebGoes ==
  ASSUME WebInv, NEW t \in Threads, NEW at \in WebPlaces, Web!Go(t, at)
  PROVE  \E new \in WebOps :
           /\ op' = [op EXCEPT ![t] = new]
           /\ new.at = at /\ new.https = op[t].https /\ new.sock = op[t].sock
           /\ new.closed = op[t].closed
<1> DEFINE new == [op[t] EXCEPT !.at = at]
<1>1. op[t] \in WebOps /\ op' = [op EXCEPT ![t] = new]
  BY DEF WebInv, WebTypes, Web!Go
<1>2. new \in WebOps /\ new.at = at /\ new.https = op[t].https /\ new.sock = op[t].sock
      /\ new.closed = op[t].closed
  BY <1>1 DEF WebOps
<1> QED BY <1>1, <1>2

\* The call is over, or starts.
LEMMA WebIdle ==
    /\ Web!NoOp \in WebOps /\ Web!NoOp.at = "none" /\ ~Web!NoOp.closed
    /\ Web!NoOp.sock = Web!None
  BY WebFacts DEF WebOps, WebPlaces, Web!NoOp

\* A step that leaves alone what is held on the heap.
LEMMA WebHeap ==
  ASSUME WebInv, NEW t \in Threads, heap' = heap
  PROVE  heap[t] \in Held /\ heap' = [heap EXCEPT ![t] = heap[t]] /\ Due(op[t], heap[t])
  BY DEF WebInv, WebTypes, Fetching

\* A step of a call that has no socket and gets none.
LEMMA WebQuiet ==
  ASSUME WebInv, NEW t \in Threads, NEW new \in WebOps, Due(new, heap[t]),
         op' = [op EXCEPT ![t] = new], UNCHANGED <<slot, heap, astray>>,
         op[t].at \notin Holding, new.at \in Holding => new.closed,
         new.closed => new.at \in {"again", "last"}
  PROVE  WebInv'
<1>1. heap[t] \in Held /\ heap' = [heap EXCEPT ![t] = heap[t]]
  BY WebHeap
<1>2. \A s \in Web!Sockets : slot[s].owner # t
  BY DEF WebInv, Taken
<1>3. \A s \in Web!Sockets : slot[s].state = "free" <=> slot[s].owner = "nobody"
  BY DEF WebInv, Taken
<1>4. slot' \in [Web!Sockets -> Slots] /\ astray' \in BOOLEAN
  BY DEF WebInv, WebTypes
<1>5. /\ \A s \in Web!Sockets : slot'[s].state = "free" <=> slot'[s].owner = "nobody"
      /\ \A s \in Web!Sockets : slot'[s].owner \in Threads \ {t} => slot[s].owner = slot'[s].owner
      /\ \A s \in Web!Sockets : slot'[s].owner = t => new.sock = s /\ new.at \in Holding /\ ~new.closed
      /\ ~astray' => \A s \in Web!Sockets : slot[s].owner \in Threads \ {t} => slot'[s].owner = slot[s].owner
  BY <1>2, <1>3
<1> QED BY <1>1, <1>4, <1>5, WebOne

\* A call begins, by net_http_fetch or net_http_download.
LEMMA WebBegin ==
  ASSUME WebInv, NEW t \in Threads, NEW what \in {"fetch", "download"},
         NEW https \in BOOLEAN, NEW scheme \in BOOLEAN, Web!Begin(t, what, https, scheme)
  PROVE  WebInv'
<1> DEFINE new == [Web!NoOp EXCEPT !.at = "resolve", !.what = what, !.https = https, !.scheme = scheme]
<1>1. op[t].at = "none" /\ op' = [op EXCEPT ![t] = new] /\ UNCHANGED <<slot, heap, astray>>
  BY DEF Web!Begin
<1>2. new \in WebOps /\ new.at = "resolve" /\ ~new.closed
  BY WebIdle DEF WebOps, WebPlaces
<1> HIDE DEF new
<1>3. Due(new, heap[t])
  BY <1>1, <1>2, WebHeap DEF Due
<1>4. op[t].at \notin Holding /\ new.at \notin Holding
  BY <1>1, <1>2 DEF Holding
<1> QED BY <1>1, <1>2, <1>3, <1>4, WebQuiet

\* What a call without a socket does when it gives up.
LEMMA WebIdles ==
  ASSUME WebInv, NEW t \in Threads, Web!Back(t), UNCHANGED <<slot, heap, astray>>,
         op[t].at \in {"resolve", "again"}
  PROVE  WebInv'
<1>1. Due(Web!NoOp, heap[t])
  BY WebHeap, WebIdle DEF Due
<1>2. op[t].at \notin Holding /\ Web!NoOp.at \notin Holding
  BY WebIdle DEF Holding
<1> QED BY <1>1, <1>2, WebIdle, WebQuiet DEF Web!Back

\* The host has an address, and a socket is taken if one is free.
LEMMA WebResolved ==
  ASSUME WebInv, NEW t \in Threads, Web!Resolved(t) PROVE WebInv'
<1>1. CASE Web!FreeOnes = {}
  BY <1>1, WebIdles DEF Web!Resolved
<1>2. CASE Web!FreeOnes # {}
  <2>1. PICK s : s = Web!Min(Web!FreeOnes)
    OBVIOUS
  <2> DEFINE new == [op[t] EXCEPT !.at = "connect", !.sock = s, !.closed = FALSE]
  <2>2. s \in Web!FreeOnes /\ s \in Web!Sockets
    BY <1>2, <2>1, WebFirstFree DEF Web!FreeOnes
  <2>3. op \in [Threads -> WebOps] /\ op[t] \in WebOps
    BY DEF WebInv, WebTypes
  <2>4. /\ op[t].at = "resolve" /\ op' = [op EXCEPT ![t] = new] /\ UNCHANGED <<heap, astray>>
        /\ slot' = [slot EXCEPT ![s] = [owner |-> t, state |-> "closed"]]
    BY <1>2, <2>1, <2>3 DEF Web!Resolved
  <2>5. new \in WebOps /\ new.at = "connect" /\ ~new.closed /\ new.sock = s
    BY <2>2, <2>3 DEF WebOps, WebPlaces
  <2> HIDE DEF new
  <2>6. Due(new, heap[t]) /\ heap[t] \in Held /\ heap' = [heap EXCEPT ![t] = heap[t]]
    BY <2>4, <2>5, WebHeap DEF Due
  <2>7. op[t].at \notin Holding /\ new.at \in Holding /\ "closed" \in SlotStates
    BY <2>4, <2>5 DEF Holding, WebPlaces, SlotStates
  <2> QED BY <2>2, <2>4, <2>5, <2>6, <2>7, WebTakes
<1> QED BY <1>1, <1>2

\* The connection is begun, or the socket is closed.
LEMMA WebConnects ==
  ASSUME WebInv, NEW t \in Threads, NEW ok \in BOOLEAN, Web!Connects(t, ok) PROVE WebInv'
<1>1. /\ op \in [Threads -> WebOps] /\ op[t] \in WebOps /\ slot \in [Web!Sockets -> Slots]
      /\ op[t].at = "connect" /\ heap' = heap
  BY DEF WebInv, WebTypes, Web!Connects
<1>2. op[t].at \in Holding
  BY <1>1 DEF Holding, WebPlaces
<1>3. heap[t] \in Held /\ heap' = [heap EXCEPT ![t] = heap[t]] /\ Due(op[t], heap[t])
  BY <1>1, WebHeap
<1>4. CASE ok /\ Web!Mine(t)
  <2>1. Web!Go(t, "connecting") /\ astray' = astray /\ op[t].sock \in Web!Sockets
        /\ slot' = [slot EXCEPT ![op[t].sock].state = "connecting"]
    BY <1>1, <1>4 DEF Web!Connects, Web!Mine, WebOps
  <2>2. slot' \in [Web!Sockets -> Slots]
        /\ \A s \in Web!Sockets : /\ slot'[s].owner = slot[s].owner
                                  /\ slot'[s].state = "free" <=> slot[s].state = "free"
    <3>1. slot[op[t].sock].state # "free"
      BY <1>4, <2>1, WebFacts DEF WebInv, Taken, Web!Mine
    <3> QED BY <1>1, <2>1, <3>1 DEF Slots, SlotStates
  <2>3. PICK new \in WebOps : /\ op' = [op EXCEPT ![t] = new]
                             /\ new.at = "connecting" /\ new.https = op[t].https
                             /\ new.sock = op[t].sock /\ new.closed = op[t].closed
    BY <2>1, WebGoes DEF WebPlaces
  <2>4. Due(new, heap[t]) /\ new.at \in Holding
    BY <1>1, <1>3, <2>3 DEF Due, Holding, WebPlaces
  <2>5. new.closed => astray
    BY <1>1, <2>3 DEF WebInv, Fetching
  <2> QED BY <1>2, <1>3, <2>1, <2>2, <2>3, <2>4, <2>5, WebKeeps DEF WebInv, WebTypes
<1>5. CASE ~(ok /\ Web!Mine(t))
  <2>1. Web!Closing(t) /\ (op' = Web!Plain(t) \/ Web!Back(t))
    BY <1>5 DEF Web!Connects
  <2>2. CASE Web!Back(t)
    <3>1. Due(Web!NoOp, heap[t]) /\ Web!NoOp.at \notin Holding
      BY <1>1, <1>3, WebIdle DEF Due, Holding
    <3> QED BY <1>2, <1>3, <2>1, <2>2, <3>1, WebIdle, WebCloses DEF Web!Back
  <2>3. CASE op' = Web!Plain(t)
    <3> DEFINE new == [op[t] EXCEPT !.https = FALSE, !.at = "again"]
    <3>1. op' = [op EXCEPT ![t] = new] /\ new \in WebOps /\ new.at = "again"
      BY <1>1, <2>3 DEF Web!Plain, WebOps, WebPlaces
    <3> HIDE DEF new
    <3>2. Due(new, heap[t]) /\ new.at \notin Holding
      BY <1>1, <1>3, <3>1 DEF Due, Holding
    <3> QED BY <1>2, <1>3, <2>1, <3>1, <3>2, WebCloses
  <2> QED BY <2>1, <2>2, <2>3
<1> QED BY <1>4, <1>5

\* The second socket, over plain HTTP.
LEMMA WebAgain ==
  ASSUME WebInv, NEW t \in Threads, NEW ok \in BOOLEAN, Web!Again(t, ok) PROVE WebInv'
<1> PICK s : s = Web!Min(Web!FreeOnes)
  OBVIOUS
<1>1. /\ op \in [Threads -> WebOps] /\ op[t] \in WebOps
      /\ op[t].at = "again" /\ heap' = heap /\ astray' = astray
  BY DEF WebInv, WebTypes, Web!Again
<1>2. op[t].at \notin Holding
  BY <1>1 DEF Holding
<1>3. heap[t] \in Held /\ heap' = [heap EXCEPT ![t] = heap[t]] /\ Due(op[t], heap[t])
  BY <1>1, WebHeap
<1>4. ASSUME Web!Back(t), slot' = slot PROVE WebInv'
  BY <1>1, <1>4, WebIdles
<1>5. CASE Web!FreeOnes = {} /\ op[t].closed
  <2> DEFINE new == [op[t] EXCEPT !.at = "last", !.sock = Web!None]
  <2>1. op' = [op EXCEPT ![t] = new] /\ slot' = slot
    BY <1>1, <1>5 DEF Web!Again
  <2>2. new \in WebOps /\ new.at = "last" /\ new.closed
    BY <1>1, <1>5 DEF WebOps, WebPlaces
  <2> HIDE DEF new
  <2>3. Due(new, heap[t])
    BY <1>1, <1>3, <2>2 DEF Due
  <2> QED BY <1>1, <1>2, <2>1, <2>2, <2>3, WebQuiet
<1>6. ASSUME NEW st \in SlotStates \ {"free"}, NEW at \in {"retrying", "connecting", "last"},
             Web!FreeOnes # {}, slot' = [slot EXCEPT ![s] = [owner |-> t, state |-> st]],
             op' = [op EXCEPT ![t].at = at, ![t].sock = s, ![t].closed = FALSE]
      PROVE  WebInv'
  <2> DEFINE new == [op[t] EXCEPT !.at = at, !.sock = s, !.closed = FALSE]
  <2>1. s \in Web!FreeOnes /\ s \in Web!Sockets
    BY <1>6, WebFirstFree DEF Web!FreeOnes
  <2>2. op' = [op EXCEPT ![t] = new]
    BY <1>1, <1>6
  <2>3. new \in WebOps /\ new.at = at /\ ~new.closed /\ new.sock = s
    BY <1>1, <2>1 DEF WebOps, WebPlaces
  <2> HIDE DEF new
  <2>4. Due(new, heap[t]) /\ new.at \in Holding
    BY <1>1, <1>3, <2>3 DEF Due, Holding, WebPlaces
  <2> QED BY <1>1, <1>2, <1>3, <1>6, <2>1, <2>2, <2>3, <2>4, WebTakes
<1>7. CASE Web!FreeOnes # {} /\ ok
  <2>1. PICK at : at = IF op[t].closed THEN "retrying" ELSE "connecting"
    OBVIOUS
  <2>2. op' = [op EXCEPT ![t].at = at, ![t].sock = s, ![t].closed = FALSE]
        /\ slot' = [slot EXCEPT ![s] = [owner |-> t, state |-> "connecting"]]
    BY <1>7, <2>1 DEF Web!Again
  <2>3. at \in {"retrying", "connecting", "last"} /\ "connecting" \in SlotStates \ {"free"}
    BY <2>1 DEF SlotStates
  <2> QED BY <1>6, <1>7, <2>2, <2>3
<1>8. CASE Web!FreeOnes # {} /\ ~ok /\ op[t].closed
  <2>1. op' = [op EXCEPT ![t].at = "last", ![t].sock = s, ![t].closed = FALSE]
        /\ slot' = [slot EXCEPT ![s] = [owner |-> t, state |-> "closed"]]
    BY <1>8 DEF Web!Again
  <2>2. "closed" \in SlotStates \ {"free"}
    BY DEF SlotStates
  <2> QED BY <1>6, <1>8, <2>1, <2>2
<1>9. CASE \/ Web!FreeOnes = {} /\ ~op[t].closed
           \/ Web!FreeOnes # {} /\ ~ok /\ ~op[t].closed
  BY <1>4, <1>9 DEF Web!Again
<1> QED BY <1>5, <1>7, <1>8, <1>9

\* lwIP changes what a socket does, never whose it is.
LEMMA WebNetwork ==
  ASSUME WebInv, NEW s \in Web!Sockets, Web!Network(s) PROVE WebInv'
<1>1. PICK st \in {"connected", "closed"} : slot' = [slot EXCEPT ![s].state = st]
  BY DEF Web!Network
<1>2. slot \in [Web!Sockets -> Slots] /\ UNCHANGED <<op, heap, astray>>
  BY DEF WebInv, WebTypes, Web!Network
<1>3. slot' \in [Web!Sockets -> Slots]
      /\ \A r \in Web!Sockets : /\ slot'[r].owner = slot[r].owner
                                /\ slot'[r].state = "free" <=> slot[r].state = "free"
  <2>1. slot[s].state # "free"
    BY DEF Web!Network
  <2> QED BY <1>1, <1>2, <2>1 DEF Slots, SlotStates
<1>4. WebTypes' /\ \A r \in Web!Sockets : Taken(r)'
  BY <1>2, <1>3 DEF WebInv, WebTypes, Taken
<1>5. ASSUME NEW t \in Threads PROVE Fetching(t)'
  BY <1>2, <1>3, WebFacts DEF WebInv, WebTypes, WebOps, Fetching, Due, Web!Mine
<1> QED BY <1>4, <1>5 DEF WebInv

\* A socket in hand, a step to another place that needs it too.
LEMMA WebMoves ==
  ASSUME WebInv, NEW t \in Threads, NEW at \in Holding, NEW h \in Held, Web!Go(t, at),
         op[t].at \in Holding, heap' = [heap EXCEPT ![t] = h],
         NEW https \in BOOLEAN, https = op[t].https,
         Due([at |-> at, https |-> https], h),
         slot' = slot, astray' \in BOOLEAN, astray => astray',
         op[t].closed => at = "last" \/ astray'
  PROVE  WebInv'
<1>1. PICK new \in WebOps : /\ op' = [op EXCEPT ![t] = new]
                           /\ new.at = at /\ new.https = op[t].https
                           /\ new.sock = op[t].sock /\ new.closed = op[t].closed
  BY WebGoes DEF Holding
<1>2. Due(new, h)
  BY <1>1 DEF Due
<1>3. slot' \in [Web!Sockets -> Slots]
      /\ \A s \in Web!Sockets : /\ slot'[s].owner = slot[s].owner
                                /\ slot'[s].state = "free" <=> slot[s].state = "free"
  BY DEF WebInv, WebTypes
<1> QED BY <1>1, <1>2, <1>3, WebKeeps

\* The wait for the first connection is over.
LEMMA WebWaitEnds ==
  ASSUME WebInv, NEW t \in Threads, Web!WaitEnds(t) PROVE WebInv'
<1>1. /\ op \in [Threads -> WebOps] /\ op[t] \in WebOps
      /\ op[t].at = "connecting" /\ heap' = heap
  BY DEF WebInv, WebTypes, Web!WaitEnds
<1>2. op[t].at \in Holding /\ "last" \in Holding
  BY <1>1 DEF Holding, WebPlaces
<1>3. heap[t] \in Held /\ heap' = [heap EXCEPT ![t] = heap[t]] /\ Due(op[t], heap[t])
  BY <1>1, WebHeap
<1>4. CASE Web!StateOf(op[t].sock) = "connected"
  <2>1. Web!Go(t, "last") /\ UNCHANGED <<slot, astray>>
    BY <1>4 DEF Web!WaitEnds
  <2>2. PICK https \in BOOLEAN : https = op[t].https
    BY <1>1 DEF WebOps
  <2>3. Due([at |-> "last", https |-> https], heap[t])
    BY <1>1, <1>3 DEF Due
  <2> QED BY <1>2, <1>3, <2>1, <2>2, <2>3, WebMoves DEF WebInv, WebTypes
<1>5. CASE Web!StateOf(op[t].sock) # "connected"
  <2>1. Web!Closing(t)
    BY <1>5 DEF Web!WaitEnds
  <2>2. ASSUME NEW at \in {"again", "last"}, NEW https \in BOOLEAN,
               op' = [op EXCEPT ![t] = [op[t] EXCEPT !.at = at, !.https = https, !.closed = TRUE]]
        PROVE  WebInv'
    <3> DEFINE new == [op[t] EXCEPT !.at = at, !.https = https, !.closed = TRUE]
    <3>1. new \in WebOps /\ new.at = at /\ new.closed
      BY <1>1 DEF WebOps, WebPlaces
    <3>2. op' = [op EXCEPT ![t] = new]
      BY <2>2
    <3> HIDE DEF new
    <3>3. Due(new, heap[t])
      BY <1>1, <1>3, <3>1 DEF Due
    <3> QED BY <1>2, <1>3, <2>1, <3>1, <3>2, <3>3, WebCloses
  <2>3. CASE op[t].what = "download"
    <3>1. Web!Back(t) /\ Due(Web!NoOp, heap[t]) /\ Web!NoOp.at \notin Holding
      BY <1>1, <1>3, <1>5, <2>3, WebIdle DEF Due, Holding, Web!WaitEnds
    <3> QED BY <1>2, <1>3, <2>1, <3>1, WebIdle, WebCloses DEF Web!Back
  <2>4. CASE op[t].what # "download" /\ Web!MayFallBack(t)
    <3>1. op' = [Web!Plain(t) EXCEPT ![t].closed = TRUE]
      BY <1>5, <2>4 DEF Web!WaitEnds
    <3>2. op' = [op EXCEPT ![t] = [op[t] EXCEPT !.at = "again", !.https = FALSE, !.closed = TRUE]]
      BY <1>1, <3>1 DEF Web!Plain
    <3> QED BY <2>2, <3>2
  <2>5. CASE op[t].what # "download" /\ ~Web!MayFallBack(t)
    <3>1. PICK https \in BOOLEAN : https = op[t].https
      BY <1>1 DEF WebOps
    <3>2. op' = [op EXCEPT ![t].at = "last", ![t].closed = TRUE]
      BY <1>5, <2>5 DEF Web!WaitEnds
    <3>3. [op[t] EXCEPT !.at = "last", !.https = https, !.closed = TRUE]
          = [op[t] EXCEPT !.at = "last", !.closed = TRUE]
      BY <1>1, <3>1 DEF WebOps
    <3>4. op' = [op EXCEPT ![t] = [op[t] EXCEPT !.at = "last", !.https = https, !.closed = TRUE]]
      BY <1>1, <3>2, <3>3
    <3> QED BY <2>2, <3>4
  <2> QED BY <2>3, <2>4, <2>5
<1> QED BY <1>4, <1>5

\* The wait for the second connection is over.
LEMMA WebRetryEnds ==
  ASSUME WebInv, NEW t \in Threads, Web!RetryEnds(t) PROVE WebInv'
<1>1. op[t] \in WebOps /\ op[t].at = "retrying" /\ UNCHANGED <<slot, heap, astray>> /\ Web!Go(t, "last")
  BY DEF WebInv, WebTypes, Web!RetryEnds
<1>2. PICK https \in BOOLEAN : https = op[t].https
  BY <1>1 DEF WebOps
<1>3. Due([at |-> "last", https |-> https], heap[t]) /\ heap[t] \in Held
      /\ heap' = [heap EXCEPT ![t] = heap[t]]
  BY <1>1, WebHeap DEF Due
<1>4. op[t].at \in Holding /\ "last" \in Holding
  BY <1>1 DEF Holding, WebPlaces
<1> QED BY <1>1, <1>2, <1>3, <1>4, WebMoves DEF WebInv, WebTypes

\* The end of a call that frees all it holds, and perhaps starts over.
LEMMA WebEnds ==
  ASSUME WebInv, NEW t \in Threads, NEW K \in SUBSET Web!Kinds, NEW new \in WebOps,
         new.at \in {"none", "resolve"}, ~new.closed, op' = [op EXCEPT ![t] = new],
         op[t].at \in Holding, Web!Closing(t), heap' = Web!Freed(t, K),
         \A k \in Web!Kinds : heap[t][k] = IF k \in K THEN 1 ELSE 0
  PROVE  WebInv'
<1> DEFINE h == [k \in Web!Kinds |-> IF k \in K THEN heap[t][k] - 1 ELSE heap[t][k]]
<1>1. heap' = [heap EXCEPT ![t] = h] /\ \A k \in Web!Kinds : h[k] = 0
  BY DEF WebInv, WebTypes, Web!Freed
<1>2. h \in Held
  BY <1>1 DEF Held
<1> HIDE DEF h
<1>3. Due(new, h) /\ new.at \notin Holding
  BY <1>1, WebFacts DEF Due, Holding
<1> QED BY <1>1, <1>2, <1>3, WebCloses

\* The last test fails, or there is no memory for the request.
LEMMA WebLast ==
  ASSUME WebInv, NEW t \in Threads, Web!GivesUp(t) \/ Web!NoRequest(t) PROVE WebInv'
<1>1. op[t].at = "last" /\ heap' = heap /\ Web!Closing(t) /\ Web!Back(t)
  BY DEF Web!GivesUp, Web!NoRequest
<1>2. Due(Web!NoOp, heap[t]) /\ Web!NoOp.at \notin Holding /\ op[t].at \in Holding
  BY <1>1, WebHeap, WebIdle DEF Due, Holding, WebPlaces
<1> QED BY <1>1, <1>2, WebHeap, WebIdle, WebCloses DEF Web!Back

\* The request is written, and with https the state of the session.
LEMMA WebPrepares ==
  ASSUME WebInv, NEW t \in Threads, Web!Prepares(t) PROVE WebInv'
<1> DEFINE h == [heap[t] EXCEPT !["request"] = @ + 1]
<1>1. /\ op[t] \in WebOps /\ op[t].at = "last" /\ slot' = slot
      /\ astray' = (astray \/ Web!Foreign(t)) /\ heap \in [Threads -> Held]
      /\ Web!StateOf(op[t].sock) = "connected"
  BY DEF WebInv, WebTypes, Web!Prepares
<1>2. heap' = [heap EXCEPT ![t] = h] /\ Due(op[t], heap[t])
  BY <1>1 DEF Web!Prepares, Web!Taken, WebInv, Fetching
<1>3. /\ h \in Held /\ h["request"] = 1 /\ h["tls"] = 0 /\ h["file"] = 0 /\ h["header"] = 0
  BY <1>1, <1>2, WebFacts DEF Held, Due
<1> HIDE DEF h
<1>4. op[t].closed => astray'
  <2> SUFFICES ASSUME op[t].closed PROVE Web!Foreign(t)
    BY <1>1
  <2>1. op[t].sock \in Web!Sockets /\ slot[op[t].sock].state = "connected"
    BY <1>1, WebFacts DEF WebOps, Web!StateOf
  <2>2. slot[op[t].sock].owner # t
    BY <2>1 DEF WebInv, Taken
  <2>3. slot[op[t].sock].owner \in Threads
    BY <2>1 DEF WebInv, WebTypes, Slots, Taken
  <2> QED BY <2>1, <2>2, <2>3, WebFacts DEF Web!Foreign
<1>5. PICK https, at : https \in BOOLEAN /\ https = op[t].https /\ at = IF https THEN "session" ELSE "sent"
  BY <1>1 DEF WebOps
<1>6. Web!Go(t, at) /\ at \in Holding /\ op[t].at \in Holding
  BY <1>1, <1>5 DEF Web!Prepares, Holding, WebPlaces
<1>7. Due([at |-> at, https |-> https], h)
  BY <1>3, <1>5 DEF Due
<1>8. astray' \in BOOLEAN /\ (astray => astray')
  BY <1>1 DEF WebInv, WebTypes
<1> QED BY <1>1, <1>2, <1>3, <1>4, <1>5, <1>6, <1>7, <1>8, WebMoves

\* The handshake begins, or there is no memory for it.
LEMMA WebSession ==
  ASSUME WebInv, NEW t \in Threads, NEW ok \in BOOLEAN, Web!Session(t, ok) PROVE WebInv'
<1>1. /\ op[t] \in WebOps /\ op[t].at = "session" /\ heap \in [Threads -> Held]
      /\ Due(op[t], heap[t]) /\ op[t].https /\ op[t].at \in Holding
  BY DEF WebInv, WebTypes, Fetching, Due, Web!Session, Holding, WebPlaces
<1>2. CASE ok
  <2> DEFINE h == [heap[t] EXCEPT !["tls"] = @ + 1]
  <2>1. Web!Go(t, "handshake") /\ UNCHANGED <<slot, astray>> /\ heap' = [heap EXCEPT ![t] = h]
    BY <1>1, <1>2 DEF Web!Session, Web!Taken
  <2>2. h \in Held /\ h["request"] = 1 /\ h["tls"] = 1 /\ h["file"] = 0 /\ h["header"] = 0
    BY <1>1, WebFacts DEF Held, Due
  <2> HIDE DEF h
  <2>3. PICK https \in BOOLEAN : https = op[t].https
    BY <1>1 DEF WebOps
  <2>4. Due([at |-> "handshake", https |-> https], h) /\ "handshake" \in Holding
    BY <1>1, <2>2, <2>3 DEF Due, Holding, WebPlaces
  <2>5. op[t].closed => astray
    BY <1>1 DEF WebInv, Fetching
  <2> QED BY <1>1, <2>1, <2>2, <2>3, <2>4, <2>5, WebMoves DEF WebInv, WebTypes
<1>3. CASE ~ok
  <2>1. PICK K : K = {"request"}
    OBVIOUS
  <2>2. heap' = Web!Freed(t, K) /\ Web!Closing(t) /\ Web!Back(t) /\ K \in SUBSET Web!Kinds
    BY <1>3, <2>1, WebFacts DEF Web!Session
  <2>3. \A k \in Web!Kinds : heap[t][k] = IF k \in K THEN 1 ELSE 0
    BY <1>1, <2>1, WebFacts DEF Due
  <2> QED BY <1>1, <2>2, <2>3, WebIdle, WebEnds DEF Web!Back
<1> QED BY <1>2, <1>3

\* A handshake that fails gives back the request and the session.
LEMMA WebHandshakeFails ==
  ASSUME WebInv, NEW t \in Threads, Web!HandshakeFails(t) PROVE WebInv'
<1>1. /\ op[t].at = "handshake" /\ Due(op[t], heap[t]) /\ op[t].at \in Holding
  BY DEF WebInv, Fetching, Web!HandshakeFails, Holding, WebPlaces
<1>2. PICK K : K = {"request", "tls"}
  OBVIOUS
<1>3. heap' = Web!Freed(t, K) /\ Web!Closing(t) /\ Web!Back(t) /\ K \in SUBSET Web!Kinds
  BY <1>2, WebFacts DEF Web!HandshakeFails
<1>4. \A k \in Web!Kinds : heap[t][k] = IF k \in K THEN 1 ELSE 0
  BY <1>1, <1>2, WebFacts DEF Due
<1> QED BY <1>1, <1>3, <1>4, WebIdle, WebEnds DEF Web!Back

\* A handshake that succeeds.
LEMMA WebHandshakeDone ==
  ASSUME WebInv, NEW t \in Threads, Web!HandshakeDone(t) PROVE WebInv'
<1>1. op[t] \in WebOps /\ op[t].at = "handshake" /\ UNCHANGED <<slot, heap, astray>> /\ Web!Go(t, "sent")
  BY DEF WebInv, WebTypes, Web!HandshakeDone
<1>2. PICK https \in BOOLEAN : https = op[t].https
  BY <1>1 DEF WebOps
<1>3. Due([at |-> "sent", https |-> https], heap[t]) /\ heap[t] \in Held
      /\ heap' = [heap EXCEPT ![t] = heap[t]]
  BY <1>1, <1>2, WebHeap DEF Due
<1>4. op[t].at \in Holding /\ "sent" \in Holding
  BY <1>1 DEF Holding, WebPlaces
<1>5. op[t].closed => astray
  BY <1>1 DEF WebInv, Fetching
<1> QED BY <1>1, <1>2, <1>3, <1>4, <1>5, WebMoves DEF WebInv, WebTypes

\* The request is sent and freed.
LEMMA WebSent ==
  ASSUME WebInv, NEW t \in Threads, Web!Sent(t) PROVE WebInv'
<1> DEFINE h == [k \in Web!Kinds |-> IF k = "request" THEN heap[t][k] - 1 ELSE heap[t][k]]
<1>1. /\ op[t] \in WebOps /\ op[t].at = "sent" /\ heap \in [Threads -> Held]
      /\ Due(op[t], heap[t]) /\ UNCHANGED <<slot, astray>>
  BY DEF WebInv, WebTypes, Fetching, Web!Sent
<1>2. heap' = [heap EXCEPT ![t] = h]
  BY <1>1 DEF Web!Sent, Web!Freed
<1>3. h \in Held /\ h["request"] = 0 /\ h["tls"] = heap[t]["tls"] /\ h["file"] = 0 /\ h["header"] = 0
  BY <1>1, WebFacts DEF Held, Due
<1> HIDE DEF h
<1>4. PICK https, at : https \in BOOLEAN /\ https = op[t].https /\ at = IF op[t].what = "fetch" THEN "read" ELSE "header"
  BY <1>1 DEF WebOps
<1>5. Web!Go(t, at) /\ at \in Holding /\ op[t].at \in Holding
  BY <1>1, <1>4 DEF Web!Sent, Holding, WebPlaces
<1>6. Due([at |-> at, https |-> https], h)
  BY <1>1, <1>3, <1>4 DEF Due
<1>7. op[t].closed => astray
  BY <1>1 DEF WebInv, Fetching
<1> QED BY <1>1, <1>2, <1>3, <1>4, <1>5, <1>6, <1>7, WebMoves DEF WebInv, WebTypes

\* A fetch is over, or goes where it is sent.
LEMMA WebFetchEnds ==
  ASSUME WebInv, NEW t \in Threads, NEW answer \in Web!Answers,
         NEW https \in BOOLEAN, NEW scheme \in BOOLEAN, Web!FetchEnds(t, answer, https, scheme)
  PROVE  WebInv'
<1>1. /\ op[t] \in WebOps /\ op[t].at = "read" /\ Due(op[t], heap[t]) /\ op[t].at \in Holding
  BY DEF WebInv, WebTypes, Fetching, Web!FetchEnds, Holding, WebPlaces
<1>2. PICK K : K = Web!InUse(t) \cap {"tls"}
  OBVIOUS
<1>3. heap' = Web!Freed(t, K) /\ Web!Closing(t) /\ K \in SUBSET Web!Kinds
  BY <1>2, WebFacts DEF Web!FetchEnds, Web!InUse
<1>4. \A k \in Web!Kinds : heap[t][k] = IF k \in K THEN 1 ELSE 0
  BY <1>1, <1>2, WebFacts DEF Due, Web!InUse
<1>5. CASE answer = "redirect" /\ op[t].redirects + 1 < MaxRedirects
  <2>1. PICK n : n = op[t].redirects + 1
    OBVIOUS
  <2> DEFINE new == [Web!NoOp EXCEPT !.at = "resolve", !.what = "fetch", !.https = https,
                                     !.scheme = scheme, !.redirects = n]
  <2>2. op' = [op EXCEPT ![t] = new]
    BY <1>5, <2>1 DEF Web!FetchEnds
  <2>3. n \in 0 .. MaxRedirects
    BY <1>1, <1>5, <2>1, WebFacts DEF WebOps
  <2>4. new \in WebOps /\ new.at = "resolve" /\ ~new.closed
    BY <2>3, WebIdle DEF WebOps, WebPlaces
  <2> HIDE DEF new
  <2> QED BY <1>1, <1>3, <1>4, <2>2, <2>4, WebEnds
<1>6. CASE ~(answer = "redirect" /\ op[t].redirects + 1 < MaxRedirects)
  BY <1>1, <1>3, <1>4, <1>6, WebIdle, WebEnds DEF Web!FetchEnds, Web!Back
<1> QED BY <1>5, <1>6

\* A download has a buffer for the header, or ends.
LEMMA WebHeaderBuffer ==
  ASSUME WebInv, NEW t \in Threads, NEW memory \in BOOLEAN, Web!HeaderBuffer(t, memory)
  PROVE  WebInv'
<1>1. /\ op[t] \in WebOps /\ op[t].at = "header" /\ heap \in [Threads -> Held]
      /\ Due(op[t], heap[t]) /\ op[t].at \in Holding
  BY DEF WebInv, WebTypes, Fetching, Web!HeaderBuffer, Holding, WebPlaces
<1>2. CASE memory
  <2> DEFINE h == [heap[t] EXCEPT !["header"] = @ + 1]
  <2>1. Web!Go(t, "reading") /\ UNCHANGED <<slot, astray>> /\ heap' = [heap EXCEPT ![t] = h]
    BY <1>1, <1>2 DEF Web!HeaderBuffer, Web!Taken
  <2>2. /\ h \in Held /\ h["request"] = 0 /\ h["tls"] = heap[t]["tls"]
        /\ h["file"] = 0 /\ h["header"] = 1
    BY <1>1, WebFacts DEF Held, Due
  <2> HIDE DEF h
  <2>3. PICK https \in BOOLEAN : https = op[t].https
    BY <1>1 DEF WebOps
  <2>4. Due([at |-> "reading", https |-> https], h) /\ "reading" \in Holding
    BY <1>1, <2>2, <2>3 DEF Due, Holding, WebPlaces
  <2>5. op[t].closed => astray
    BY <1>1 DEF WebInv, Fetching
  <2> QED BY <1>1, <2>1, <2>2, <2>3, <2>4, <2>5, WebMoves DEF WebInv, WebTypes
<1>3. CASE ~memory
  <2>1. PICK K : K = Web!InUse(t) \cap {"tls"}
    OBVIOUS
  <2>2. heap' = Web!Freed(t, K) /\ Web!Closing(t) /\ Web!Back(t) /\ K \in SUBSET Web!Kinds
    BY <1>3, <2>1, WebFacts DEF Web!HeaderBuffer, Web!InUse
  <2>3. \A k \in Web!Kinds : heap[t][k] = IF k \in K THEN 1 ELSE 0
    BY <1>1, <2>1, WebFacts DEF Due, Web!InUse
  <2> QED BY <1>1, <2>2, <2>3, WebIdle, WebEnds DEF Web!Back
<1> QED BY <1>2, <1>3

\* A download has the header and opens the file, or ends.
LEMMA WebHeaderRead ==
  ASSUME WebInv, NEW t \in Threads, NEW whole \in BOOLEAN,
         NEW opened \in BOOLEAN, Web!HeaderRead(t, whole, opened)
  PROVE  WebInv'
<1>1. /\ op[t] \in WebOps /\ op[t].at = "reading" /\ heap \in [Threads -> Held]
      /\ Due(op[t], heap[t]) /\ op[t].at \in Holding
  BY DEF WebInv, WebTypes, Fetching, Web!HeaderRead, Holding, WebPlaces
<1>2. CASE whole /\ opened
  <2> DEFINE h == [heap[t] EXCEPT !["file"] = @ + 1, !["header"] = @ - 1]
  <2>1. Web!Go(t, "body") /\ UNCHANGED <<slot, astray>> /\ heap' = [heap EXCEPT ![t] = h]
    BY <1>1, <1>2 DEF Web!HeaderRead
  <2>2. /\ h \in Held /\ h["request"] = 0 /\ h["tls"] = heap[t]["tls"]
        /\ h["file"] = 1 /\ h["header"] = 0
    BY <1>1, WebFacts DEF Held, Due
  <2> HIDE DEF h
  <2>3. PICK https \in BOOLEAN : https = op[t].https
    BY <1>1 DEF WebOps
  <2>4. Due([at |-> "body", https |-> https], h) /\ "body" \in Holding
    BY <1>1, <2>2, <2>3 DEF Due, Holding, WebPlaces
  <2>5. op[t].closed => astray
    BY <1>1 DEF WebInv, Fetching
  <2> QED BY <1>1, <2>1, <2>2, <2>3, <2>4, <2>5, WebMoves DEF WebInv, WebTypes
<1>3. CASE ~(whole /\ opened)
  <2>1. PICK K : K = {"header"} \cup (Web!InUse(t) \cap {"tls"})
    OBVIOUS
  <2>2. heap' = Web!Freed(t, K) /\ Web!Closing(t) /\ Web!Back(t) /\ K \in SUBSET Web!Kinds
    BY <1>3, <2>1, WebFacts DEF Web!HeaderRead, Web!InUse
  <2>3. \A k \in Web!Kinds : heap[t][k] = IF k \in K THEN 1 ELSE 0
    BY <1>1, <2>1, WebFacts DEF Due, Web!InUse
  <2> QED BY <1>1, <2>2, <2>3, WebIdle, WebEnds DEF Web!Back
<1> QED BY <1>2, <1>3

\* A download that is over.
LEMMA WebDownloadEnds ==
  ASSUME WebInv, NEW t \in Threads, Web!DownloadEnds(t) PROVE WebInv'
<1>1. /\ op[t] \in WebOps /\ op[t].at = "body" /\ Due(op[t], heap[t]) /\ op[t].at \in Holding
  BY DEF WebInv, WebTypes, Fetching, Web!DownloadEnds, Holding, WebPlaces
<1>2. PICK K : K = {"file"} \cup (Web!InUse(t) \cap {"tls"})
  OBVIOUS
<1>3. heap' = Web!Freed(t, K) /\ Web!Closing(t) /\ Web!Back(t) /\ K \in SUBSET Web!Kinds
  BY <1>2, WebFacts DEF Web!DownloadEnds, Web!InUse
<1>4. \A k \in Web!Kinds : heap[t][k] = IF k \in K THEN 1 ELSE 0
  BY <1>1, <1>2, WebFacts DEF Due, Web!InUse
<1> QED BY <1>1, <1>3, <1>4, WebIdle, WebEnds DEF Web!Back

\* Every step of a fetch, and those of the others, which leave it alone.
LEMMA WebSteps ==
  ASSUME WebInv, Web!Next \/ UNCHANGED webVars PROVE WebInv'
<1>1. CASE UNCHANGED webVars
  BY <1>1 DEF webVars, WebInv, WebTypes, Taken, Fetching, Due, Web!Mine
<1>2. ASSUME NEW t \in Threads, Web!Step(t) PROVE WebInv'
  <2>1. ASSUME Web!Unresolved(t) PROVE WebInv'
    BY <2>1, WebIdles DEF Web!Unresolved
  <2> QED BY <1>2, <2>1, WebBegin, WebResolved, WebConnects, WebAgain, WebSession, WebWaitEnds,
             WebRetryEnds, WebLast, WebPrepares, WebHandshakeFails, WebHandshakeDone, WebSent,
             WebFetchEnds, WebHeaderBuffer, WebHeaderRead, WebDownloadEnds DEF Web!Step
<1> QED BY <1>1, <1>2, WebNetwork DEF Web!Next

\* Who touches another thread's socket had closed the number before.
LEMMA WebAstray ==
  ASSUME WebInv, Web!Next, ~astray, astray'
  PROVE  \E t \in Threads : op[t].at = "last" /\ op[t].closed /\ Web!Foreign(t)
<1>1. PICK t \in Threads : Web!Step(t)
  BY DEF Web!Next, Web!Network
<1>2. op[t].at \in Holding /\ Web!Foreign(t)
  <2>1. ASSUME Web!Closing(t) PROVE Web!Foreign(t)
    BY <2>1 DEF Web!Closing
  <2>2. ASSUME Web!Prepares(t) PROVE Web!Foreign(t)
    BY <2>2 DEF Web!Prepares
  <2>3. /\ Web!Closing(t) \/ Web!Prepares(t)
        /\ op[t].at \in {"connect", "connecting", "last", "session", "handshake", "read", "header", "reading", "body"}
    BY <1>1 DEF Web!Step, Web!Begin, Web!Unresolved, Web!Resolved, Web!Connects, Web!Again,
       Web!Session, Web!WaitEnds, Web!RetryEnds, Web!GivesUp, Web!NoRequest, Web!Prepares,
       Web!HandshakeFails, Web!HandshakeDone, Web!Sent, Web!FetchEnds, Web!HeaderBuffer,
       Web!HeaderRead, Web!DownloadEnds
  <2> QED BY <2>1, <2>2, <2>3 DEF Holding, WebPlaces
<1>3. op[t].closed
  BY <1>2, WebFacts DEF WebInv, Fetching, Web!Mine, Web!Foreign
<1>4. op[t].at = "last"
  BY <1>2, <1>3 DEF WebInv, Fetching, Holding
<1> QED BY <1>2, <1>3, <1>4
-------------------------------------------------------------------------------
(* The disk (storage_read_sectors, storage_write_sectors, ahci_rw_sectors) *)

\* The bounds of the disk.
LEMMA DiskFacts ==
    /\ NSectors \in Nat \ {0} /\ Chunk \in Nat \ {0} /\ Disk!Sectors = 0 .. NSectors - 1
    /\ Disk!NoCall.at = "idle" /\ ~Disk!NoWork.on
    /\ \A c \in Calls : c # Disk!NoCall /\ c.at # "idle"
    /\ Disk!NoCall \notin Calls
  BY StorageAssumption DEF Disk!Sectors, Disk!NoCall, Disk!NoWork, Calls

\* A function on the first n numbers is a sequence.
LEMMA IsSequence ==
  ASSUME NEW S, NEW n \in Nat, NEW f \in [1 .. n -> S]
  PROVE  f \in Seq(S) /\ Len(f) = n
<1>1. f \in Seq(S)
  BY SeqDef
<1> QED BY <1>1

\* One command carries at least one sector, and no more than are left or fit.
LEMMA DiskCount ==
  ASSUME call.left \in Nat \ {0}
  PROVE  Disk!Count \in Nat /\ Disk!Count >= 1 /\ Disk!Count <= call.left /\ Disk!Count <= Chunk
<1>1. \E x \in {call.left, Chunk} : \A y \in {call.left, Chunk} : x <= y
  <2>1. CASE call.left <= Chunk
    BY <2>1, DiskFacts
  <2>2. CASE ~(call.left <= Chunk)
    BY <2>2, DiskFacts
  <2> QED BY <2>1, <2>2
<1>2. Disk!Count \in {call.left, Chunk} /\ \A y \in {call.left, Chunk} : Disk!Count <= y
  BY <1>1 DEF Disk!Count, Disk!Min
<1> QED BY <1>2, DiskFacts

\* No call, no command.
LEMMA DiskInit == Disk!Init => DiskInv
<1> SUFFICES ASSUME Disk!Init PROVE DiskInv
  OBVIOUS
<1>1. DiskTypes
  <2>1. \A n \in Nat : Disk!Blank(n) \in Cells
    BY DEF Cells, Disk!Blank
  <2>2. disk \in [Disk!Sectors -> Cells] /\ dma \in [1 .. Chunk -> Cells]
    BY <2>1, DiskFacts DEF Disk!Init
  <2>3. table \in Tables /\ work \in Works
        /\ port \in [ci : BOOLEAN, busy : BOOLEAN, error : BOOLEAN, halted : BOOLEAN]
    BY DEF Disk!Init, Tables, Works, Disk!QuietPort
  <2> QED BY <2>2, <2>3 DEF Disk!Init, DiskTypes
<1>2. Commanded /\ Testing
  BY DiskFacts DEF Disk!Init, Commanded, Testing, Disk!QuietPort
<1>3. Disk!OnlyWhatWasWritten
  BY DEF Disk!Init, Disk!OnlyWhatWasWritten, Disk!Blank
<1> QED BY <1>1, <1>2, <1>3, DiskFacts DEF DiskInv, Disk!Init

\* The invariant gives the types and both promises.
LEMMA DiskSound == DiskInv => Disk!TypeOK /\ Disk!OnlyWhatWasWritten /\ Disk!DoneMeansDone
<1> SUFFICES ASSUME DiskInv PROVE Disk!TypeOK /\ Disk!OnlyWhatWasWritten /\ Disk!DoneMeansDone
  OBVIOUS
<1>1. Disk!TypeOK
  BY DEF DiskInv, DiskTypes, Disk!TypeOK
<1>2. Disk!DoneMeansDone
  <2> SUFFICES ASSUME call.at = "done", NEW i \in DOMAIN call.data
               PROVE  disk[call.from + i - 1] = call.data[i]
    BY DEF Disk!DoneMeansDone
  <2>1. call \in Calls /\ call.data \in Seq(Cells)
    BY DiskFacts DEF DiskInv, DiskTypes, Calls
  <2>2. call.left = 0 /\ Disk!Done = Len(call.data)
    BY <2>1, DiskFacts DEF DiskInv, Shape, Disk!Done
  <2>3. i \in 1 .. Disk!Done
    BY <2>1, <2>2
  <2> QED BY <2>3, DiskFacts DEF DiskInv, Behind
<1> QED BY <1>1, <1>2 DEF DiskInv

\* A call at its beginning, the rest as it was.
LEMMA DiskNew ==
  ASSUME DiskInv, NEW lba \in Nat, NEW n \in Nat \ {0}, lba + n <= NSectors,
         NEW write \in BOOLEAN, NEW v \in Values \cup {"blank"}, NEW boot \in BOOLEAN,
         call' = Disk!NewCall(lba, n, write, v, boot),
         UNCHANGED <<disk, dma, table, port, work>>, ready' \in BOOLEAN,
         driver' \in {"unprobed", "ahci", "pio", "none"}, driver' # "ahci" => ~table.write,
         boot => ~write /\ ~table.write
  PROVE  DiskInv'
<1> DEFINE data == [i \in 1 .. n |-> IF write THEN <<v, lba + i - 1>> ELSE Disk!Blank(0)]
<1>1. data \in Seq(Cells) /\ Len(data) = n
      /\ (write => \A i \in 1 .. n : data[i][2] = lba + i - 1)
  <2>1. \A i \in 1 .. n : data[i] \in Cells
    BY DEF Cells, Disk!Blank
  <2>2. data \in [1 .. n -> Cells] /\ (write => \A i \in 1 .. n : data[i][2] = lba + i - 1)
    BY <2>1
  <2> HIDE DEF data
  <2> QED BY <2>2, IsSequence
<1>2. /\ call'.at = "check" /\ call'.lba = lba /\ call'.left = n /\ call'.write = write
      /\ call'.boot = boot /\ call'.from = lba /\ call'.data = data
      /\ call' = [at |-> "check", lba |-> lba, left |-> n, write |-> write, boot |-> boot,
                  from |-> lba, data |-> data]
  BY DEF Disk!NewCall
<1> HIDE DEF data
<1>3. call' \in Calls
  BY <1>1, <1>2 DEF Calls
<1>4. DiskTypes'
  BY <1>3 DEF DiskInv, DiskTypes
<1>5. Commanded' /\ Testing' /\ Disk!OnlyWhatWasWritten'
  BY <1>2 DEF DiskInv, Commanded, Testing, Disk!OnlyWhatWasWritten
<1>6. Disk!Done' = 0
  BY <1>1, <1>2 DEF Disk!Done
<1>7. Shape' /\ Behind' /\ Waiting'
  BY <1>1, <1>2, <1>6 DEF Shape, Behind, Waiting
<1> QED BY <1>4, <1>5, <1>7 DEF DiskInv

\* storage_init tries the drive with a read.
LEMMA DiskTestRead ==
  ASSUME DiskInv, call' = Disk!TestRead, ~table.write, driver' \in {"ahci", "pio"},
         UNCHANGED <<disk, dma, table, port, work>>, ready' = ready
  PROVE  DiskInv'
<1>1. call' = Disk!NewCall(0, 1, FALSE, "blank", TRUE)
  BY DEF Disk!TestRead
<1>2. 0 \in Nat /\ 1 \in Nat \ {0} /\ 0 + 1 <= NSectors
  BY DiskFacts
<1>3. driver' \in {"unprobed", "ahci", "pio", "none"} /\ ready' \in BOOLEAN
      /\ "blank" \in Values \cup {"blank"}
  BY DEF DiskInv, DiskTypes
<1> QED BY <1>1, <1>2, <1>3, DiskNew

\* A call begins.
LEMMA DiskStart ==
  ASSUME DiskInv, NEW lba \in Disk!Sectors, NEW n \in 1 .. NSectors, NEW write \in BOOLEAN,
         NEW v \in Values, Disk!Start(lba, n, write, v)
  PROVE  DiskInv'
<1>1. call' = Disk!NewCall(lba, n, write, v, FALSE) /\ lba + n <= NSectors
      /\ UNCHANGED <<driver, ready, disk, dma, table, port, work>>
  BY DEF Disk!Start
<1>2. lba \in Nat /\ n \in Nat \ {0}
  BY DiskFacts
<1>3. /\ driver' \in {"unprobed", "ahci", "pio", "none"} /\ ready' \in BOOLEAN
      /\ driver' # "ahci" => ~table.write
  BY <1>1 DEF DiskInv, DiskTypes, Testing
<1> QED BY <1>1, <1>2, <1>3, DiskNew

\* A call that fails, or falls back to the ATA ports.
LEMMA DiskFails ==
  ASSUME DiskInv, call.at \in {"check", "wait"}, Disk!AhciFails \/ Disk!Ends(FALSE),
         UNCHANGED <<disk, dma, table, port, work>>
  PROVE  DiskInv'
<1>1. call \in Calls
  BY DiskFacts DEF DiskInv, DiskTypes
<1>2. CASE Disk!Ends(FALSE)
  <2> DEFINE new == [call EXCEPT !.at = "failed"]
  <2>1. new \in Calls /\ new.at = "failed" /\ new.left = call.left /\ new.lba = call.lba
        /\ new.write = call.write /\ new.boot = call.boot /\ new.from = call.from
        /\ new.data = call.data
    BY <1>1 DEF Calls
  <2>2. call' = new /\ ready' = ready /\ driver' = IF call.boot THEN "none" ELSE driver
    BY <1>2 DEF Disk!Ends, DiskInv, DiskTypes
  <2> HIDE DEF new
  <2>3. DiskTypes'
    BY <2>1, <2>2 DEF DiskInv, DiskTypes
  <2>4. Commanded' /\ Testing' /\ Disk!OnlyWhatWasWritten'
    BY <2>1, <2>2, DiskFacts DEF DiskInv, Commanded, Testing, Disk!OnlyWhatWasWritten
  <2>5. Shape' /\ Behind' /\ Waiting'
    BY <2>1, <2>2, DiskFacts DEF DiskInv, Shape, Behind, Waiting, Disk!Done
  <2> QED BY <2>3, <2>4, <2>5 DEF DiskInv
<1>3. CASE Disk!AhciFails /\ call.boot
  BY <1>3, DiskTestRead, DiskFacts DEF Disk!AhciFails, Disk!FallBack, DiskInv, Testing
<1>4. CASE Disk!AhciFails /\ ~call.boot
  BY <1>2, <1>4 DEF Disk!AhciFails
<1> QED BY <1>2, <1>3, <1>4

\* The numbers of a call, and of the chunk it is at.
LEMMA DiskNumbers ==
  ASSUME DiskInv, call.at \in {"check", "wait"}
  PROVE  \E n, c, len, from \in Nat :
           /\ n = Disk!Done /\ c = Disk!Count /\ len = Len(call.data) /\ from = call.from
           /\ 1 <= c /\ n + c <= len /\ from + len <= NSectors /\ c <= Chunk
           /\ call.lba = from + n /\ call.left = len - n
           /\ call.data \in Seq(Cells) /\ DOMAIN call.data = 1 .. len
<1>1. /\ call \in Calls /\ Shape
  BY DiskFacts DEF DiskInv, DiskTypes
<1>2. /\ call.left \in Nat /\ call.from \in Nat /\ call.data \in Seq(Cells)
      /\ Len(call.data) \in Nat /\ DOMAIN call.data = 1 .. Len(call.data)
      /\ call.left >= 1 /\ call.left <= Len(call.data) /\ call.from + Len(call.data) <= NSectors
      /\ call.lba = call.from + Disk!Done /\ Disk!Done = Len(call.data) - call.left
  BY <1>1 DEF Shape, Calls, Disk!Done
<1>3. /\ Disk!Count \in Nat /\ Disk!Count >= 1 /\ Disk!Count <= call.left /\ Disk!Count <= Chunk
  BY <1>2, DiskCount
<1>4. PICK n, c, len, from, left :
        n = Disk!Done /\ c = Disk!Count /\ len = Len(call.data) /\ from = call.from /\ left = call.left
  OBVIOUS
<1>5. len \in Nat /\ left \in Nat /\ left <= len /\ left >= 1 /\ n = len - left /\ c \in Nat
      /\ c >= 1 /\ c <= left
  BY <1>2, <1>3, <1>4
<1>6. n \in Nat /\ n + c <= len /\ left = len - n
  BY <1>5
<1> QED BY <1>2, <1>3, <1>4, <1>5, <1>6

\* ahci_rw_sectors writes the command table and issues the command.
LEMMA DiskIssue ==
  ASSUME DiskInv, Disk!Issue PROVE DiskInv'
<1> DEFINE new == [call EXCEPT !.at = "wait"]
           cmd == [lba |-> call.lba, count |-> Disk!Count, write |-> call.write]
<1>1. /\ call \in Calls /\ call.at = "check" /\ driver = "ahci" /\ ~port.busy
      /\ DiskTypes /\ Commanded /\ Testing /\ Shape /\ Behind
  BY DiskFacts DEF DiskInv, DiskTypes, Disk!Issue, Disk!MayIssue
<1>2. PICK n, c, len, from \in Nat :
           /\ n = Disk!Done /\ c = Disk!Count /\ len = Len(call.data) /\ from = call.from
           /\ 1 <= c /\ n + c <= len /\ from + len <= NSectors /\ c <= Chunk
           /\ call.lba = from + n /\ call.left = len - n
           /\ call.data \in Seq(Cells) /\ DOMAIN call.data = 1 .. len
  BY <1>1, DiskNumbers
<1>3. /\ call' = new /\ table' = cmd /\ UNCHANGED <<driver, ready, disk, work>>
      /\ port' = [port EXCEPT !.ci = TRUE, !.error = FALSE]
      /\ dma' = IF call.write THEN [i \in 1 .. Chunk |-> IF i <= c THEN call.data[n + i] ELSE dma[i]]
                ELSE dma
  BY <1>2 DEF Disk!Issue
<1>4. new \in Calls /\ new.at = "wait" /\ new.left = call.left /\ new.lba = call.lba
      /\ new.write = call.write /\ new.boot = call.boot /\ new.from = call.from
      /\ new.data = call.data
  BY <1>1 DEF Calls
<1>5. call.lba \in Nat /\ call.write \in BOOLEAN
  BY <1>1 DEF Calls
<1>6. cmd \in Tables /\ cmd.lba = call.lba /\ cmd.count = c /\ cmd.write = call.write
  BY <1>2, <1>5 DEF Tables
<1> HIDE DEF new, cmd
<1>7. /\ port' \in [ci : BOOLEAN, busy : BOOLEAN, error : BOOLEAN, halted : BOOLEAN]
      /\ port'.ci /\ port'.busy = port.busy
  BY <1>1, <1>3 DEF DiskTypes
<1>8. \A i \in 1 .. c : n + i \in 1 .. len /\ call.data[n + i] \in Cells
  <2>1. \A i \in 1 .. c : n + i \in 1 .. len
    BY <1>2
  <2> QED BY <1>2, <2>1, SMTT(30)
<1>9. dma' \in [1 .. Chunk -> Cells]
      /\ (call.write => \A i \in 1 .. c : dma'[i] = call.data[n + i])
  BY <1>1, <1>2, <1>3, <1>8, DiskFacts DEF DiskTypes
<1>10. DiskTypes'
  BY <1>1, <1>3, <1>4, <1>6, <1>7, <1>9 DEF DiskTypes
<1>11. Disk!Done' = n /\ Disk!Count' = c
  BY <1>2, <1>3, <1>4 DEF Disk!Done, Disk!Count
<1>12. Commanded'
  <2>1. ~work.on
    BY <1>1 DEF Commanded
  <2>2. ASSUME call.write, NEW i \in 1 .. c PROVE dma'[i][2] = call.lba + i - 1
    <3>1. dma'[i] = call.data[n + i] /\ n + i \in 1 .. len
      BY <1>8, <1>9, <2>2
    <3>2. call.data[n + i][2] = from + (n + i) - 1
      BY <1>1, <1>2, <2>2, <3>1 DEF Shape
    <3>3. from + (n + i) - 1 = call.lba + i - 1
      BY <1>2
    <3> QED BY <3>1, <3>2, <3>3
  <2>3. call.lba + c <= NSectors
    BY <1>2, DiskFacts, SMTT(30)
  <2>4. (work'.on <=> port'.busy) /\ ~work'.on
    BY <1>1, <1>3, <1>7, <2>1 DEF Commanded
  <2>5. table'.lba = call.lba /\ table'.count = c /\ table'.write = call.write
    BY <1>3, <1>6
  <2>6. port'.ci /\ table'.write => \A i \in 1 .. table'.count : dma'[i][2] = table'.lba + i - 1
    BY <2>2, <2>5
  <2> QED BY <1>2, <2>3, <2>4, <2>5, <2>6 DEF Commanded
<1>13. Testing' /\ Disk!OnlyWhatWasWritten'
  BY <1>1, <1>3, <1>4, <1>6 DEF DiskInv, Testing, Disk!OnlyWhatWasWritten
<1>14. Shape' /\ Behind'
  BY <1>1, <1>2, <1>3, <1>4, <1>11 DEF Shape, Behind
<1>15. Waiting'
  BY <1>3, <1>4, <1>6, <1>7, <1>9, <1>11 DEF Waiting
<1> QED BY <1>10, <1>12, <1>13, <1>14, <1>15 DEF DiskInv

\* The n sectors behind the call stay, the next c of its len are on the disk
\* or come from it, and the call goes on after them.
CallAdvances(n, c, len, from) ==
    /\ call'.from = call.from /\ call'.write = call.write /\ call'.boot = call.boot
    /\ Len(call'.data) = len /\ (call.write => call'.data = call.data)
    /\ call'.left = len - (n + c) /\ call'.at = (IF n + c < len THEN "check" ELSE "done")
    /\ (n + c < len => call'.lba = from + (n + c))
Kept(n, from) ==
    \A i \in 1 .. n : call'.data[i] = call.data[i] /\ disk'[from + i - 1] = disk[from + i - 1]
Moved(n, c, from) == \A i \in 1 .. c : disk'[from + n + i - 1] = call'.data[n + i]

\* A call that has one more piece of its sectors behind it.
LEMMA DiskAdvances ==
  ASSUME DiskInv, call.at \in {"check", "wait"}, NEW n \in Nat, NEW c \in Nat, NEW len \in Nat,
         NEW from \in Nat, n = Disk!Done, len = Len(call.data), from = call.from,
         c >= 1, n + c <= len, call' \in Calls,
         CallAdvances(n, c, len, from), Kept(n, from), Moved(n, c, from),
         disk' \in [Disk!Sectors -> Cells], Disk!OnlyWhatWasWritten', ready' \in BOOLEAN,
         ~(port.ci /\ table.write), UNCHANGED <<driver, dma, table, port, work>>
  PROVE  DiskInv'
<1>1. /\ call \in Calls /\ DiskTypes /\ Commanded /\ Testing /\ Shape /\ Behind
  BY DiskFacts DEF DiskInv, DiskTypes
<1>2. from + len <= NSectors /\ len >= 1
  BY <1>1 DEF Shape
<1>3. PICK left \in Nat : left = call'.left /\ left = len - (n + c)
  BY DEF Calls, CallAdvances
<1>4. Disk!Done' = n + c
  <2>1. Disk!Done' = len - left
    BY <1>3 DEF Disk!Done, CallAdvances
  <2>2. PICK m \in Nat : m = n + c /\ left = len - m
    BY <1>3
  <2>3. left = len - m => len - left = m
    BY ONLY len \in Nat, m \in Nat, left \in Nat
  <2> QED BY <2>1, <2>2, <2>3
<1>5. /\ call'.at \in {"check", "done"} /\ call'.at # "failed" /\ call'.at # "wait"
      /\ (call'.at = "check" => left >= 1) /\ (call'.at = "done" => left = 0)
  BY <1>3 DEF CallAdvances
<1>6. DiskTypes' /\ Commanded' /\ Testing'
  BY <1>1, <1>5, DiskFacts DEF DiskTypes, Commanded, Testing, CallAdvances
<1>7. \A i \in 1 .. n + c : disk'[from + i - 1] = call'.data[i]
  <2> SUFFICES ASSUME NEW i \in 1 .. n + c PROVE disk'[from + i - 1] = call'.data[i]
    OBVIOUS
  <2>1. CASE i <= n
    <3>1. i \in 1 .. n
      BY <2>1
    <3>2. disk[from + i - 1] = call.data[i]
      BY <1>1, <3>1 DEF Behind
    <3> QED BY <3>1, <3>2 DEF Kept
  <2>2. CASE ~(i <= n)
    <3>1. PICK j : j = i - n
      OBVIOUS
    <3>2. j \in 1 .. c /\ i = n + j
      BY <2>2, <3>1
    <3>3. from + i - 1 = from + n + j - 1
      BY <3>2
    <3>4. disk'[from + n + j - 1] = call'.data[n + j]
      BY <3>2 DEF Moved
    <3> QED BY <3>2, <3>3, <3>4
  <2> QED BY <2>1, <2>2
<1>8. Shape'
  <2>1. left <= len
    BY <1>3
  <2>2. call.write => \A i \in 1 .. len : call'.data[i][2] = from + i - 1
    BY <1>1 DEF Shape, CallAdvances
  <2>3. call'.at = "check" => call'.lba = from + (n + c)
    BY <1>5 DEF CallAdvances
  <2> QED BY <1>2, <1>3, <1>4, <1>5, <2>1, <2>2, <2>3 DEF Shape, CallAdvances
<1>9. Behind' /\ Waiting'
  BY <1>4, <1>5, <1>7 DEF Behind, Waiting, CallAdvances
<1> QED BY <1>6, <1>8, <1>9 DEF DiskInv

\* A chunk is done: the next one, or the end of the call.
LEMMA DiskCompleted ==
  ASSUME DiskInv, Disk!Completed PROVE DiskInv'
<1>1. /\ call \in Calls /\ call.at = "wait" /\ ~port.ci /\ DiskTypes /\ Waiting
      /\ UNCHANGED <<driver, disk, dma, table, port, work>>
  BY DiskFacts DEF DiskInv, DiskTypes, Disk!Completed
<1>2. PICK n, c, len, from \in Nat :
           /\ n = Disk!Done /\ c = Disk!Count /\ len = Len(call.data) /\ from = call.from
           /\ 1 <= c /\ n + c <= len /\ from + len <= NSectors /\ c <= Chunk
           /\ call.lba = from + n /\ call.left = len - n
           /\ call.data \in Seq(Cells) /\ DOMAIN call.data = 1 .. len
  BY <1>1, DiskNumbers
<1>3. PICK data : data = Disk!Copied
  OBVIOUS
<1>4. /\ data \in Seq(Cells) /\ Len(data) = len
      /\ call.write => data = call.data
      /\ \A i \in 1 .. n : data[i] = call.data[i]
      /\ ~call.write => \A i \in 1 .. c : data[n + i] = dma[i]
  <2>1. CASE call.write
    BY <1>2, <1>3, <2>1 DEF Disk!Copied
  <2>2. CASE ~call.write
    <3>1. data = [i \in 1 .. len |-> IF i \in n + 1 .. n + c THEN dma[i - n] ELSE call.data[i]]
      BY <1>2, <1>3, <2>2 DEF Disk!Copied
    <3>2. \A i \in n + 1 .. n + c : i - n \in 1 .. Chunk
      BY <1>2, DiskFacts
    <3>3. \A i \in 1 .. len : call.data[i] \in Cells
      BY <1>2
    <3>4. data \in [1 .. len -> Cells]
      BY <1>1, <3>1, <3>2, <3>3 DEF DiskTypes
    <3>5. \A i \in 1 .. n : i \in 1 .. len /\ i \notin n + 1 .. n + c
      BY <1>2
    <3>6. \A i \in 1 .. c : n + i \in 1 .. len /\ n + i \in n + 1 .. n + c /\ (n + i) - n = i
      BY <1>2
    <3>7. /\ \A i \in 1 .. n : data[i] = call.data[i]
          /\ \A i \in 1 .. c : data[n + i] = dma[i]
      BY <3>1, <3>5, <3>6
    <3>8. data \in Seq(Cells) /\ Len(data) = len
      BY <3>4, IsSequence
    <3> QED BY <2>2, <3>7, <3>8
  <2> QED BY <2>1, <2>2
<1>5. \A i \in 1 .. c : disk[call.lba + i - 1] = data[n + i]
  <2>1. \A i \in 1 .. c : IF call.write THEN disk[call.lba + i - 1] = call.data[n + i]
                          ELSE dma[i] = disk[call.lba + i - 1]
    BY <1>1, <1>2 DEF Waiting
  <2> QED BY <1>4, <2>1
<1>6. PICK next :
        next = IF n + c < len THEN [call EXCEPT !.at = "check", !.data = data, !.lba = @ + c, !.left = @ - c]
               ELSE [call EXCEPT !.at = "done", !.data = data, !.left = 0]
  OBVIOUS
<1>7. call' = next /\ ready' \in BOOLEAN
  <2>1. call.left > c <=> n + c < len
    BY <1>2
  <2> QED BY <1>1, <1>2, <1>3, <1>6, <2>1 DEF Disk!Completed, DiskTypes
<1>8. /\ next \in Calls /\ next.from = call.from /\ next.write = call.write /\ next.boot = call.boot
      /\ next.data = data /\ next.left = len - (n + c)
      /\ next.at = (IF n + c < len THEN "check" ELSE "done")
      /\ n + c < len => next.lba = from + (n + c)
  <2>1. CASE n + c < len
    <3>1. PICK left, lba \in Nat : /\ left = call.left - c /\ lba = call.lba + c
                                   /\ left = len - (n + c) /\ lba = from + (n + c)
      <4>1. (len - n) - c = len - (n + c) /\ len - (n + c) \in Nat /\ (from + n) + c = from + (n + c)
        BY <2>1
      <4>2. call.left - c = len - (n + c) /\ call.lba + c = from + (n + c)
        BY <1>2, <4>1
      <4> QED BY <4>1, <4>2
    <3>2. next = [call EXCEPT !.at = "check", !.data = data, !.lba = lba, !.left = left]
      BY <1>1, <1>6, <2>1, <3>1 DEF Calls
    <3> QED BY <1>1, <1>4, <2>1, <3>1, <3>2 DEF Calls
  <2>2. CASE ~(n + c < len)
    <3>1. len - (n + c) = 0
      BY <1>2, <2>2
    <3>2. next = [call EXCEPT !.at = "done", !.data = data, !.left = 0]
      BY <1>6, <2>2
    <3> QED BY <1>1, <1>4, <2>2, <3>1, <3>2 DEF Calls
  <2> QED BY <2>1, <2>2
<1>9. disk' \in [Disk!Sectors -> Cells] /\ Disk!OnlyWhatWasWritten'
  BY <1>1 DEF DiskInv, DiskTypes, Disk!OnlyWhatWasWritten
<1>10. Moved(n, c, from)
  BY <1>1, <1>2, <1>5, <1>7, <1>8 DEF Moved
<1>11. Kept(n, from)
  BY <1>1, <1>4, <1>7, <1>8 DEF Kept
<1>12. CallAdvances(n, c, len, from)
  BY <1>4, <1>7, <1>8 DEF CallAdvances
<1> QED BY <1>1, <1>2, <1>7, <1>8, <1>9, <1>10, <1>11, <1>12, DiskAdvances

\* One sector by the processor itself.
LEMMA DiskPioSector ==
  ASSUME DiskInv, Disk!PioSector PROVE DiskInv'
<1>1. /\ call \in Calls /\ call.at = "check" /\ driver = "pio" /\ DiskTypes /\ Testing /\ Shape
      /\ UNCHANGED <<dma, table, port, work>>
  BY DiskFacts DEF DiskInv, DiskTypes, Disk!PioSector
<1>2. PICK n, c, len, from \in Nat :
           /\ n = Disk!Done /\ c = Disk!Count /\ len = Len(call.data) /\ from = call.from
           /\ 1 <= c /\ n + c <= len /\ from + len <= NSectors /\ c <= Chunk
           /\ call.lba = from + n /\ call.left = len - n
           /\ call.data \in Seq(Cells) /\ DOMAIN call.data = 1 .. len
  BY <1>1, DiskNumbers
<1>3. PICK first \in Nat : first = call.lba
  BY <1>2
<1>4. /\ n + 1 <= len /\ n + 1 \in 1 .. len /\ first \in Disk!Sectors /\ first = from + n
      /\ call.data[n + 1] \in Cells /\ disk[first] \in Cells
  BY <1>1, <1>2, <1>3, DiskFacts, SMTT(30) DEF DiskTypes
<1>5. disk' = IF call.write THEN [disk EXCEPT ![first] = call.data[n + 1]] ELSE disk
  BY <1>2, <1>3 DEF Disk!PioSector
<1>6. call.write => call.data[n + 1][2] = first
  <2>1. call.write => call.data[n + 1][2] = from + (n + 1) - 1
    BY <1>1, <1>2, <1>4 DEF Shape
  <2>2. from + (n + 1) - 1 = first
    BY <1>4
  <2> QED BY <2>1, <2>2
<1>7. disk' \in [Disk!Sectors -> Cells] /\ Disk!OnlyWhatWasWritten'
  BY <1>1, <1>4, <1>5, <1>6 DEF DiskInv, DiskTypes, Disk!OnlyWhatWasWritten
<1>8. PICK data : data = [call.data EXCEPT ![n + 1] = IF call.write THEN @ ELSE disk[first]]
  OBVIOUS
<1>9. /\ data \in Seq(Cells) /\ Len(data) = len
      /\ call.write => data = call.data
      /\ \A i \in 1 .. n : data[i] = call.data[i]
      /\ data[n + 1] = disk'[first]
  <2>1. \A i \in 1 .. n : i \in 1 .. len /\ i # n + 1
    BY <1>2
  <2>2. CASE call.write
    <3>1. data = call.data
      <4>1. data = [call.data EXCEPT ![n + 1] = call.data[n + 1]]
        BY <1>8, <2>2
      <4>2. \A f \in [1 .. len -> Cells] : [f EXCEPT ![n + 1] = f[n + 1]] = f
        OBVIOUS
      <4>3. call.data \in [1 .. len -> Cells]
        BY <1>2
      <4> QED BY <4>1, <4>2, <4>3
    <3>2. disk'[first] = call.data[n + 1]
      BY <1>1, <1>4, <1>5, <2>2 DEF DiskTypes
    <3> QED BY <1>2, <2>2, <3>1, <3>2
  <2>3. CASE ~call.write
    <3>1. data = [call.data EXCEPT ![n + 1] = disk[first]] /\ disk' = disk
      BY <1>5, <1>8, <2>3
    <3>2. data \in Seq(Cells) /\ Len(data) = len /\ data[n + 1] = disk[first]
      BY <1>2, <1>4, <3>1
    <3>3. \A i \in 1 .. n : data[i] = call.data[i]
      BY <1>2, <2>1, <3>1
    <3> QED BY <2>3, <3>1, <3>2, <3>3
  <2> QED BY <2>2, <2>3
<1>10. PICK next :
        next = IF n + 1 < len THEN [call EXCEPT !.lba = @ + 1, !.left = @ - 1, !.data = data]
               ELSE [call EXCEPT !.at = "done", !.left = 0, !.data = data]
  OBVIOUS
<1>11. call' = next /\ ready' \in BOOLEAN /\ driver' = driver
  <2>1. call.left > 1 <=> n + 1 < len
    BY <1>2
  <2>2. CASE n + 1 < len
    BY <1>1, <1>2, <1>3, <1>8, <1>10, <2>1, <2>2 DEF Disk!PioSector, Calls, DiskTypes
  <2>3. CASE ~(n + 1 < len)
    BY <1>1, <1>2, <1>3, <1>8, <1>10, <2>1, <2>3 DEF Disk!PioSector, Calls, DiskTypes
  <2> QED BY <2>2, <2>3
<1>12. /\ next \in Calls /\ next.from = call.from /\ next.write = call.write /\ next.boot = call.boot
       /\ next.data = data /\ next.left = len - (n + 1)
       /\ next.at = (IF n + 1 < len THEN "check" ELSE "done")
       /\ n + 1 < len => next.lba = from + (n + 1)
  <2>1. CASE n + 1 < len
    <3>1. PICK left, lba \in Nat : /\ left = call.left - 1 /\ lba = call.lba + 1
                                   /\ left = len - (n + 1) /\ lba = from + (n + 1)
      <4>1. len - (n + 1) \in Nat /\ from + (n + 1) \in Nat
        BY <1>2, <2>1
      <4>2. call.left - 1 = len - (n + 1) /\ call.lba + 1 = from + (n + 1)
        BY <1>2
      <4> QED BY <4>1, <4>2
    <3>2. next = [call EXCEPT !.data = data, !.lba = lba, !.left = left]
      BY <1>1, <1>10, <2>1, <3>1 DEF Calls
    <3> QED BY <1>1, <1>9, <2>1, <3>1, <3>2 DEF Calls
  <2>2. CASE ~(n + 1 < len)
    <3>1. len - (n + 1) = 0
      BY <1>2, <1>4, <2>2
    <3>2. next = [call EXCEPT !.at = "done", !.data = data, !.left = 0]
      BY <1>10, <2>2
    <3> QED BY <1>1, <1>9, <2>2, <3>1, <3>2 DEF Calls
  <2> QED BY <2>1, <2>2
<1>13. \A i \in 1 .. n : disk'[from + i - 1] = disk[from + i - 1]
  <2>1. \A i \in 1 .. n : from + i - 1 # first /\ from + i - 1 \in Disk!Sectors
    BY <1>2, <1>4, DiskFacts, SMTT(30)
  <2> QED BY <1>1, <1>5, <2>1 DEF DiskTypes
<1>14. PICK one \in Nat : one = 1
  OBVIOUS
<1>15. Moved(n, one, from)
  <2>1. \A i \in 1 .. one : i = 1
    BY <1>14
  <2>2. from + n + 1 - 1 = first
    BY <1>4
  <2> QED BY <1>9, <1>11, <1>12, <2>1, <2>2 DEF Moved
<1>16. Kept(n, from)
  BY <1>9, <1>11, <1>12, <1>13 DEF Kept
<1>17. CallAdvances(n, one, len, from)
  BY <1>9, <1>11, <1>12, <1>14 DEF CallAdvances
<1>18. /\ one >= 1 /\ n + one <= len /\ call.at \in {"check", "wait"} /\ ~(port.ci /\ table.write)
  BY <1>1, <1>4, <1>14 DEF Testing
<1> QED BY <1>1, <1>2, <1>7, <1>11, <1>12, <1>15, <1>16, <1>17, <1>18, DiskAdvances

\* The driver is chosen.
LEMMA DiskStarts ==
  ASSUME DiskInv, Disk!DriveStarts PROVE DiskInv'
<1>1. /\ DiskTypes /\ Commanded /\ port.ci /\ ~port.busy
      /\ UNCHANGED <<driver, ready, disk, call, dma, table>>
      /\ port' = [port EXCEPT !.busy = TRUE]
  BY DEF DiskInv, Disk!DriveStarts
<1>2. PICK lba, count \in Nat, write \in BOOLEAN :
        /\ table.lba = lba /\ table.count = count /\ table.write = write
        /\ work' = [on |-> TRUE, lba |-> lba, count |-> count, write |-> write]
  BY <1>1 DEF Disk!DriveStarts, DiskTypes, Tables
<1>3. /\ work' \in Works /\ work'.on /\ work'.lba = lba /\ work'.count = count /\ work'.write = write
  BY <1>2 DEF Works
<1>4. /\ port' \in [ci : BOOLEAN, busy : BOOLEAN, error : BOOLEAN, halted : BOOLEAN]
      /\ port'.ci /\ port'.busy
  BY <1>1 DEF DiskTypes
<1>5. DiskTypes' /\ Commanded'
  BY <1>1, <1>2, <1>3, <1>4 DEF DiskTypes, Commanded
<1>6. Disk!Done' = Disk!Done /\ Disk!Count' = Disk!Count
  BY <1>1 DEF Disk!Done, Disk!Count
<1>7. Testing' /\ Disk!OnlyWhatWasWritten' /\ (call.at # "idle" => Shape' /\ Behind' /\ Waiting')
  BY <1>1, <1>4, <1>6 DEF DiskInv, Testing, Disk!OnlyWhatWasWritten, Shape, Behind, Waiting
<1> QED BY <1>1, <1>5, <1>7 DEF DiskInv

\* The drive drops a command.
LEMMA DiskDriveFails ==
  ASSUME DiskInv, Disk!DriveFails PROVE DiskInv'
<1>1. /\ DiskTypes /\ Commanded /\ port.ci /\ work' = Disk!NoWork
      /\ UNCHANGED <<driver, ready, disk, call, dma, table>>
      /\ port' = [port EXCEPT !.busy = FALSE, !.error = TRUE, !.halted = TRUE]
  BY DEF DiskInv, Disk!DriveFails, Commanded
<1>2. work' \in Works /\ ~work'.on
  BY <1>1, DiskFacts DEF Works
<1>3. /\ port' \in [ci : BOOLEAN, busy : BOOLEAN, error : BOOLEAN, halted : BOOLEAN]
      /\ port'.ci /\ ~port'.busy
  BY <1>1 DEF DiskTypes
<1>4. DiskTypes' /\ Commanded'
  BY <1>1, <1>2, <1>3 DEF DiskTypes, Commanded
<1>5. Disk!Done' = Disk!Done /\ Disk!Count' = Disk!Count
  BY <1>1 DEF Disk!Done, Disk!Count
<1>6. Testing' /\ Disk!OnlyWhatWasWritten' /\ (call.at # "idle" => Shape' /\ Behind' /\ Waiting')
  BY <1>1, <1>3, <1>5 DEF DiskInv, Testing, Disk!OnlyWhatWasWritten, Shape, Behind, Waiting
<1> QED BY <1>1, <1>4, <1>6 DEF DiskInv

\* The drive executes the command: what it changes is not behind the call,
\* and is the chunk the call waits for if it waits.
LEMMA DiskMoves ==
  ASSUME DiskInv, Disk!DriveMoves PROVE DiskInv'
<1>1. /\ DiskTypes /\ Commanded /\ work.on /\ port.ci /\ work' = Disk!NoWork
      /\ UNCHANGED <<driver, ready, call, table>>
      /\ port' = [port EXCEPT !.busy = FALSE, !.ci = FALSE]
  BY DEF DiskInv, Disk!DriveMoves, Commanded
<1>2. work' \in Works /\ ~work'.on
  BY <1>1, DiskFacts DEF Works
<1>3. /\ port' \in [ci : BOOLEAN, busy : BOOLEAN, error : BOOLEAN, halted : BOOLEAN]
      /\ ~port'.ci /\ ~port'.busy
  BY <1>1 DEF DiskTypes
<1>4. PICK lba, count \in Nat, write \in BOOLEAN :
        /\ table.lba = lba /\ table.count = count /\ table.write = write
        /\ work.lba = lba /\ work.count = count /\ work.write = write
        /\ lba + count <= NSectors /\ count <= Chunk
  BY <1>1 DEF DiskTypes, Commanded, Tables
<1>5. /\ disk' = (IF write
                  THEN [s \in Disk!Sectors |-> IF s - lba + 1 \in 1 .. count THEN dma[s - lba + 1] ELSE disk[s]]
                  ELSE disk)
      /\ dma' = (IF write THEN dma
                 ELSE [i \in 1 .. Chunk |-> IF i \in 1 .. count THEN disk[lba + i - 1] ELSE dma[i]])
  BY <1>4 DEF Disk!DriveMoves, Disk!Within
<1>6. \A i \in 1 .. count : lba + i - 1 \in Disk!Sectors /\ i \in 1 .. Chunk /\ (lba + i - 1) - lba + 1 = i
  BY <1>4, DiskFacts
<1>7. \A s \in Disk!Sectors : s \in Nat /\ (s - lba + 1 \in 1 .. count => s - lba + 1 \in 1 .. Chunk
                                                    /\ lba + (s - lba + 1) - 1 = s)
  BY <1>4, DiskFacts
<1>8. disk' \in [Disk!Sectors -> Cells] /\ dma' \in [1 .. Chunk -> Cells]
  BY <1>1, <1>5, <1>6, <1>7 DEF DiskTypes
<1>9. write => \A i \in 1 .. count : disk'[lba + i - 1] = dma[i]
  <2> SUFFICES ASSUME write, NEW i \in 1 .. count PROVE disk'[lba + i - 1] = dma[i]
    OBVIOUS
  <2>1. PICK s \in Disk!Sectors : s = lba + i - 1 /\ s - lba + 1 = i
    BY <1>6
  <2> QED BY <1>5, <2>1
<1>10. ~write => \A i \in 1 .. count : dma'[i] = disk[lba + i - 1] /\ disk' = disk
  BY <1>5, <1>6
<1>11. Disk!OnlyWhatWasWritten'
  <2>1. CASE write
    <3> SUFFICES ASSUME NEW s \in Disk!Sectors PROVE disk'[s][2] = s
      BY DEF Disk!OnlyWhatWasWritten
    <3>1. CASE s - lba + 1 \in 1 .. count
      <4>1. PICK i \in 1 .. count : i = s - lba + 1
        BY <3>1
      <4>2. lba + i - 1 = s
        BY <1>7, <4>1
      <4>3. dma[i][2] = lba + i - 1
        BY <1>1, <1>4, <2>1 DEF Commanded
      <4> QED BY <1>9, <2>1, <4>2, <4>3
    <3>2. CASE s - lba + 1 \notin 1 .. count
      BY <1>5, <2>1, <3>2 DEF DiskInv, Disk!OnlyWhatWasWritten
    <3> QED BY <3>1, <3>2
  <2>2. CASE ~write
    BY <1>5, <2>2 DEF DiskInv, Disk!OnlyWhatWasWritten
  <2> QED BY <2>1, <2>2
<1>12. DiskTypes' /\ Commanded' /\ Testing'
  <2>1. DiskTypes'
    BY <1>1, <1>2, <1>3, <1>8 DEF DiskTypes
  <2>2. Commanded'
    BY <1>1, <1>2, <1>3 DEF Commanded
  <2>3. Testing'
    BY <1>1 DEF DiskInv, Testing
  <2> QED BY <2>1, <2>2, <2>3
<1>13. Disk!Done' = Disk!Done /\ Disk!Count' = Disk!Count
  BY <1>1 DEF Disk!Done, Disk!Count
<1>14. ASSUME call.at # "idle" PROVE Shape' /\ Behind' /\ Waiting'
  <2>1. Shape /\ Behind /\ Waiting /\ call \in Calls
    BY <1>1, <1>14, DiskFacts DEF DiskInv, DiskTypes
  <2>2. PICK n, len, from \in Nat : /\ n = Disk!Done /\ len = Len(call.data) /\ from = call.from
                                    /\ n <= len /\ from + len <= NSectors
    <3>1. PICK len, from, left \in Nat : len = Len(call.data) /\ from = call.from /\ left = call.left
      BY <2>1 DEF Calls
    <3>2. left <= len /\ Disk!Done = len - left /\ from + len <= NSectors
      BY <2>1, <3>1 DEF Shape, Disk!Done
    <3>3. PICK n \in Nat : n = len - left /\ n <= len
      BY <3>1, <3>2
    <3> QED BY <3>1, <3>2, <3>3
  <2>3. Shape'
    BY <1>1, <1>13, <2>1 DEF Shape
  <2>4. call.at = "wait" => lba = from + n /\ count = Disk!Count /\ write = call.write
    BY <1>4, <2>1, <2>2 DEF Waiting, Shape
  <2>5. call.at # "failed" => \A i \in 1 .. n : disk'[from + i - 1] = disk[from + i - 1]
    <3> SUFFICES ASSUME call.at # "failed", NEW i \in 1 .. n PROVE disk'[from + i - 1] = disk[from + i - 1]
      OBVIOUS
    <3>1. CASE write
      <4>1. call.at = "wait"
        BY <1>1, <1>4, <2>1, <2>2, <3>1 DEF Behind, Calls
      <4>2. PICK s \in Disk!Sectors : s = from + i - 1 /\ s - lba + 1 \notin 1 .. count
        BY <2>2, <2>4, <4>1, DiskFacts, SMTT(30)
      <4> QED BY <1>5, <3>1, <4>2
    <3>2. CASE ~write
      BY <1>5, <3>2
    <3> QED BY <3>1, <3>2
  <2>6. Behind'
    BY <1>1, <1>3, <1>13, <2>1, <2>2, <2>5 DEF Behind
  <2>7. Waiting'
    <3> SUFFICES ASSUME call.at = "wait",  NEW i \in 1 .. count
                 PROVE  IF call.write THEN disk'[call.lba + i - 1] = call.data[n + i]
                        ELSE dma'[i] = disk'[call.lba + i - 1]
      BY <1>1, <1>3, <1>4, <1>13, <2>1, <2>2 DEF Waiting
    <3>1. call.lba = lba
      BY <1>4, <2>1 DEF Waiting
    <3>2. CASE write
      <4>1. dma[i] = call.data[n + i]
        BY <1>1, <1>4, <2>1, <2>2, <2>4, <3>2 DEF Waiting
      <4> QED BY <1>9, <2>4, <3>1, <3>2, <4>1
    <3>3. CASE ~write
      BY <1>10, <2>4, <3>1, <3>3
    <3> QED BY <3>2, <3>3
  <2> QED BY <2>3, <2>6, <2>7
<1> QED BY <1>1, <1>11, <1>12, <1>14 DEF DiskInv

\* Every step of the disk, and those of the others, which leave it alone.
LEMMA DiskSteps ==
  ASSUME DiskInv, Disk!Next \/ UNCHANGED diskVars PROVE DiskInv'
<1>1. Testing
  BY DEF DiskInv
<1>2. CASE \E p \in Ports : Disk!Probe(p)
  <2>1. PICK p \in Ports : Disk!Probe(p)
    BY <1>2
  <2>2. ~table.write /\ driver' \in {"ahci", "pio"}
    BY <1>1, <2>1 DEF Disk!Probe, Testing
  <2>3. call' = Disk!TestRead /\ ready' = ready /\ UNCHANGED <<disk, dma, table, port, work>>
    BY <2>1 DEF Disk!Probe
  <2> QED BY <2>2, <2>3, DiskTestRead
<1>3. CASE \E lba \in Disk!Sectors, n \in 1 .. NSectors, w \in BOOLEAN, v \in Values : Disk!Start(lba, n, w, v)
  BY <1>3, DiskStart
<1>4. CASE Disk!PortBusy \/ Disk!GivesUp \/ Disk!PioFails
  <2>1. /\ call.at \in {"check", "wait"} /\ (Disk!AhciFails \/ Disk!Ends(FALSE))
        /\ UNCHANGED <<disk, dma, table, port, work>>
    BY <1>4 DEF Disk!PortBusy, Disk!GivesUp, Disk!PioFails
  <2> QED BY <2>1, DiskFails
<1>5. CASE Disk!Issue
  BY <1>5, DiskIssue
<1>6. CASE Disk!Completed
  BY <1>6, DiskCompleted
<1>7. CASE Disk!DriveStarts \/ Disk!DriveMoves \/ Disk!DriveFails
  BY <1>7, DiskStarts, DiskMoves, DiskDriveFails
<1>8. CASE Disk!PioSector
  BY <1>8, DiskPioSector
<1>9. CASE UNCHANGED diskVars
  <2>1. Disk!Done' = Disk!Done /\ Disk!Count' = Disk!Count
    BY <1>9 DEF diskVars, Disk!Done, Disk!Count
  <2>2. DiskTypes' /\ Commanded' /\ Testing' /\ Disk!OnlyWhatWasWritten'
    BY <1>9 DEF diskVars, DiskInv, DiskTypes, Commanded, Testing, Disk!OnlyWhatWasWritten
  <2>3. call.at # "idle" => Shape' /\ Behind' /\ Waiting'
    BY <1>9, <2>1 DEF diskVars, DiskInv, Shape, Behind, Waiting
  <2> QED BY <1>9, <2>2, <2>3 DEF DiskInv, diskVars
<1> QED BY <1>2, <1>3, <1>4, <1>5, <1>6, <1>7, <1>8, <1>9 DEF Disk!Next, Disk!vars, diskVars

-------------------------------------------------------------------------------
(* The network card (virtio_net_poll, virtio_net_output)                    *)

\* One round of the indices is a whole number of rounds of the ring.
LEMMA Divides ==
  ASSUME NEW s \in Nat \ {0}, NEW x \in Nat
  PROVE  x % s \in 0 .. s - 1 /\ \E q \in Nat : x = q * s + (x % s)
<1>1. x % s \in 0 .. s - 1
  OBVIOUS
<1>2. (x \div s) \in Nat /\ x = (x \div s) * s + (x % s)
  OBVIOUS
<1> QED BY <1>1, <1>2

\* A multiple is no smaller than the number itself.
LEMMA Grows ==
  ASSUME NEW s \in Nat \ {0}, NEW a \in Nat, NEW b \in Nat, a < b
  PROVE  a * s + s <= b * s /\ a * s \in Nat /\ b * s \in Nat
<1>1. PICK d \in Nat : b = a + 1 + d
  <2>1. b - a - 1 \in Nat /\ b = a + 1 + (b - a - 1)
    OBVIOUS
  <2> QED BY <2>1
<1>2. b * s = a * s + s + d * s
  BY <1>1
<1>3. d * s \in Nat /\ a * s \in Nat /\ d * s >= 0
  OBVIOUS
<1> QED BY <1>2, <1>3

\* What a remainder is.
LEMMA Remainder ==
  ASSUME NEW s \in Nat \ {0}, NEW q \in Nat, NEW r \in 0 .. s - 1
  PROVE  (q * s + r) % s = r
<1>1. q * s + r \in Nat
  OBVIOUS
<1>2. PICK p \in Nat : q * s + r = p * s + ((q * s + r) % s)
  BY <1>1, Divides
<1>3. PICK t \in 0 .. s - 1 : t = (q * s + r) % s
  BY <1>1, Divides
<1>4. q * s + r = p * s + t
  BY <1>2, <1>3
<1>5. CASE q < p
  <2>1. q * s + s <= p * s /\ q * s \in Nat /\ p * s \in Nat
    BY <1>5, Grows
  <2> QED BY <1>4, <2>1
<1>6. CASE p < q
  <2>1. p * s + s <= q * s /\ q * s \in Nat /\ p * s \in Nat
    BY <1>6, Grows
  <2> QED BY <1>4, <2>1
<1>7. CASE p = q
  BY <1>3, <1>4, <1>7
<1> QED BY <1>5, <1>6, <1>7

\* Fewer than s numbers on end have different remainders.
LEMMA Apart ==
  ASSUME NEW s \in Nat \ {0}, NEW a \in Nat, NEW b \in Nat, a < b, b < a + s
  PROVE  a % s # b % s
<1> SUFFICES ASSUME a % s = b % s PROVE FALSE
  OBVIOUS
<1>1. PICK p, q, r \in Nat : a = p * s + r /\ b = q * s + r /\ r = a % s
  <2>1. PICK p \in Nat : a = p * s + (a % s)
    BY Divides
  <2>2. PICK q \in Nat : b = q * s + (b % s)
    BY Divides
  <2>3. a % s \in Nat
    BY Divides
  <2> QED BY <2>1, <2>2, <2>3
<1>2. CASE p < q
  <2>1. p * s + s <= q * s /\ q * s \in Nat /\ p * s \in Nat
    BY <1>2, Grows
  <2> QED BY <1>1, <2>1
<1>3. CASE q < p
  <2>1. q * s + s <= p * s /\ q * s \in Nat /\ p * s \in Nat
    BY <1>3, Grows
  <2> QED BY <1>1, <2>1
<1>4. CASE p = q
  BY <1>1, <1>4
<1> QED BY <1>2, <1>3, <1>4

\* s numbers on end have every remainder.
LEMMA AllRemainders ==
  ASSUME NEW s \in Nat \ {0}, NEW a \in Nat, NEW r \in 0 .. s - 1
  PROVE  \E j \in 0 .. s - 1 : (a + j) % s = r
<1>1. PICK p \in Nat, t \in 0 .. s - 1 : a = p * s + t
  <2>1. PICK p \in Nat : a = p * s + (a % s)
    BY Divides
  <2>2. a % s \in 0 .. s - 1
    BY Divides
  <2> QED BY <2>1, <2>2
<1>2. CASE t <= r
  <2>1. (p * s + r) % s = r
    BY Remainder
  <2>2. a + (r - t) = p * s + r /\ r - t \in 0 .. s - 1
    BY <1>1, <1>2
  <2> QED BY <2>1, <2>2
<1>3. CASE ~(t <= r)
  <2>1. PICK m : m = p + 1
    OBVIOUS
  <2>2. (m * s + r) % s = r
    BY <2>1, Remainder
  <2>3. m * s = p * s + s
    BY <2>1
  <2>4. a + (s - t + r) = m * s + r /\ s - t + r \in 0 .. s - 1
    BY <1>1, <1>3, <2>3
  <2> QED BY <2>2, <2>4
<1> QED BY <1>2, <1>3

\* Going round the indices does not change the place in the ring.
LEMMA WrapKeepsPlace ==
  ASSUME NEW s \in Nat \ {0}, NEW w \in Nat, w % s = 0, NEW x \in Nat, w > 0, x < w + w
  PROVE  (x % w) % s = x % s
<1>1. CASE x < w
  BY <1>1
<1>2. CASE ~(x < w)
  <2>1. x % w = x - w
    BY <1>2
  <2>2. PICK v \in Nat : w = v * s
    <3>1. PICK v \in Nat : w = v * s + (w % s)
      BY Divides
    <3> QED BY <3>1
  <2>3. PICK y \in Nat : y = x - w /\ x = y + w
    BY <1>2
  <2>4. PICK q \in Nat, r \in 0 .. s - 1 : y = q * s + r /\ r = y % s
    <3>1. PICK q \in Nat : y = q * s + (y % s)
      BY Divides
    <3>2. y % s \in 0 .. s - 1
      BY Divides
    <3> QED BY <3>1, <3>2
  <2>5. PICK m \in Nat : m = q + v
    OBVIOUS
  <2>6. x = m * s + r
    BY <2>2, <2>3, <2>4, <2>5
  <2>7. x % s = r
    BY <2>6, Remainder
  <2> QED BY <2>1, <2>3, <2>4, <2>7
<1> QED BY <1>1, <1>2

\* The next index, and its place, follow the last when the count grows by one.
LEMMA NextRound ==
  ASSUME NEW s \in Nat \ {0}, NEW x \in Nat PROVE (x + s) % s = x % s
<1>1. PICK q \in Nat, r \in 0 .. s - 1 : x = q * s + r /\ r = x % s
  <2>1. PICK q \in Nat : x = q * s + (x % s)
    BY Divides
  <2>2. x % s \in 0 .. s - 1
    BY Divides
  <2> QED BY <2>1, <2>2
<1>2. PICK m \in Nat : m = q + 1
  OBVIOUS
<1>3. x + s = m * s + r
  BY <1>1, <1>2
<1> QED BY <1>1, <1>3, Remainder

\* The bounds of the rings.
LEMMA CardFacts ==
    /\ RingSize \in Nat \ {0} /\ Width \in Nat \ {0} /\ Width > RingSize /\ RingSize > 0 /\ Width > 0
    /\ Card!Buffers = 0 .. RingSize - 1 /\ RingIndices = 0 .. Width - 1
  BY CardAssumption DEF Card!Buffers, RingIndices

\* The place of an index does not see that the index wrapped.
LEMMA CardPlaces ==
    /\ \A x \in Nat : x % RingSize \in Card!Buffers /\ x % Width \in RingIndices
    /\ \A x \in Nat : x < Width => x % Width = x
    /\ \A x \in Nat : Width <= x /\ x < Width + Width => x % Width = x - Width
<1>1. \A x \in Nat : x % RingSize \in Card!Buffers /\ x % Width \in RingIndices
  BY CardFacts, Divides
<1>2. ASSUME NEW x \in Nat, x < Width + Width
      PROVE  x % Width = IF x < Width THEN x ELSE x - Width
  BY <1>2, CardFacts
<1> QED BY <1>1, <1>2, CardFacts

\* An index that is moved on after it wrapped.
LEMMA MovesOn ==
  ASSUME NEW a \in Nat, NEW m \in Nat, a + m < Width + Width
  PROVE  /\ ((a % Width) + m) % Width = (a + m) % Width
         /\ ((a % Width) + m) % RingSize = (a + m) % RingSize
<1>1. CASE a < Width
  BY <1>1, CardPlaces
<1>2. CASE ~(a < Width)
  <2>1. PICK x \in Nat : x = a + m /\ x < Width + Width
    OBVIOUS
  <2>2. (a % Width) + m = x % Width /\ x % Width < Width /\ (x % Width) % Width = x % Width
    <3>1. Width <= a /\ a < Width + Width /\ Width <= x /\ x - Width < Width /\ x - Width \in Nat
      BY <1>2, <2>1, CardFacts
    <3>2. a % Width = a - Width /\ x % Width = x - Width
      BY <2>1, <3>1, CardPlaces
    <3>3. (a % Width) + m = x - Width
      BY <2>1, <3>2, CardFacts
    <3>4. (x - Width) % Width = x - Width
      BY <3>1, CardPlaces
    <3> QED BY <3>1, <3>2, <3>3, <3>4
  <2>3. (x % Width) % RingSize = x % RingSize
    <3>1. RingSize \in Nat \ {0} /\ Width \in Nat /\ Width % RingSize = 0 /\ Width > 0
      BY CardFacts, CardAssumption
    <3> QED BY <2>1, <3>1, WrapKeepsPlace, Zenon
  <2> QED BY <2>1, <2>2, <2>3
<1> QED BY <1>1, <1>2

\* Every buffer is offered, nothing is on its way.
LEMMA CardInit == Card!Init => CardInv
<1> SUFFICES ASSUME Card!Init PROVE CardInv
  OBVIOUS
<1>1. CardTypes
  <2>1. [i \in Card!Buffers |-> i] \in [Card!Buffers -> Card!Buffers]
        /\ [i \in Card!Buffers |-> 0] \in [Card!Buffers -> Card!Buffers]
        /\ [b \in Card!Buffers |-> 0] \in [Card!Buffers -> Nat]
    BY CardFacts
  <2>2. 0 \in RingIndices /\ RingSize % Width \in RingIndices
    BY CardFacts DEF RingIndices
  <2>3. rx \in RxQueues
    BY <2>1, <2>2 DEF Card!Init, Card!Empty, RxQueues
  <2>4. tx \in TxQueues /\ poll \in Polls /\ got \in Seq(Nat) /\ transmitted \in Seq(Nat)
    BY <2>2 DEF Card!Init, Card!Empty, TxQueues, Polls
  <2> QED BY <2>3, <2>4 DEF CardTypes
<1>2. Receiving
  <2>1. Indices(0)
    BY CardFacts DEF Card!Init, Indices
  <2>2. Filled(0) /\ Ascending(0)
    BY CardFacts DEF Card!Init, Filled, Ascending
  <2>3. Handled(0) = 0
    BY DEF Card!Init, Handled
  <2> QED BY <2>1, <2>2, <2>3 DEF Receiving
<1>3. Transmitting
  BY DEF Card!Init, Transmitting
<1> QED BY <1>1, <1>2, <1>3 DEF CardInv

\* The invariant gives the three promises.
LEMMA CardSound ==
  CardInv => Card!BuffersPartitioned /\ Card!ReceivedInOrder /\ Card!SentAsPassed
<1> SUFFICES ASSUME CardInv PROVE Card!BuffersPartitioned /\ Card!ReceivedInOrder /\ Card!SentAsPassed
  OBVIOUS
<1>1. PICK p \in Nat : Indices(p) /\ Filled(p) /\ Ascending(Handled(p))
  BY DEF CardInv, Receiving
<1>2. Card!ReceivedInOrder
  <2>1. DOMAIN got = 1 .. Len(got)
    BY DEF CardInv, CardTypes
  <2> QED BY <1>1, <2>1 DEF Ascending, Card!ReceivedInOrder, Card!Empty
<1>3. Card!SentAsPassed
  BY DEF CardInv, CardTypes, Transmitting, Card!SentAsPassed
<1>4. PICK l \in RingIndices : l = rx.lastUsed /\ p <= RingSize /\ rx.availIdx = (l + RingSize) % Width
                          /\ rx.usedIdx = (l + p) % Width /\ rx.seen = (l + p) % Width
  BY <1>1 DEF CardInv, CardTypes, RxQueues, Indices
<1>5. l \in Nat /\ l < Width /\ l + RingSize < Width + Width /\ l + p < Width + Width /\ p <= RingSize
  <2>1. p <= RingSize
    BY <1>4
  <2>2. l \in Nat /\ l < Width /\ l + RingSize < Width + Width
    BY CardFacts DEF RingIndices
  <2> QED BY <2>1, <2>2, CardFacts
<1>6. (((l + RingSize) % Width) + Width - ((l + p) % Width)) % Width = RingSize - p
      /\ (((l + p) % Width) + Width - l) % Width = p
  <2>1. PICK u \in Nat : u = (l + p) % Width /\ (u = l + p \/ u = l + p - Width) /\ u < Width
    BY <1>5, CardFacts, CardPlaces
  <2>2. PICK v \in Nat : v = (l + RingSize) % Width /\ (v = l + RingSize \/ v = l + RingSize - Width) /\ v < Width
    BY <1>5, CardFacts, CardPlaces
  <2>3. PICK x, y \in Nat : x = u + Width - l /\ y = v + Width - u
    BY <1>5, <2>1, <2>2, CardFacts
  <2>4. x \in {p, p + Width} /\ p < Width
    BY <1>5, <2>1, <2>3, CardFacts
  <2>5. y \in {RingSize - p, RingSize - p + Width} /\ RingSize - p < Width /\ RingSize - p \in Nat
    BY <1>5, <2>1, <2>2, <2>3, CardFacts
  <2>6. \A z \in Nat : z < Width => z % Width = z /\ (z + Width) % Width = z
    <3> SUFFICES ASSUME NEW z \in Nat, z < Width PROVE z % Width = z /\ (z + Width) % Width = z
      OBVIOUS
    <3>1. PICK t \in Nat : t = z + Width /\ Width <= t /\ t < Width + Width /\ t - Width = z
      BY CardFacts
    <3> QED BY <3>1, CardPlaces
  <2>7. x % Width = p
    BY <2>4, <2>6
  <2>8. y % Width = RingSize - p
    BY <2>5, <2>6
  <2> QED BY <2>1, <2>2, <2>3, <2>7, <2>8
<1>7. Card!Between(rx.seen, rx.availIdx) = {(l + j) % RingSize : j \in p .. RingSize - 1}
  <2>1. Card!Between(rx.seen, rx.availIdx) = {(((l + p) % Width) + k) % RingSize : k \in 0 .. (RingSize - p) - 1}
    BY <1>4, <1>6 DEF Card!Between
  <2>2. \A k \in 0 .. (RingSize - p) - 1 : (((l + p) % Width) + k) % RingSize = (l + (p + k)) % RingSize
                                       /\ p + k \in p .. RingSize - 1
    <3> SUFFICES ASSUME NEW k \in 0 .. (RingSize - p) - 1
                 PROVE  (((l + p) % Width) + k) % RingSize = (l + (p + k)) % RingSize /\ p + k \in p .. RingSize - 1
      OBVIOUS
    <3>1. l + p \in Nat /\ k \in Nat /\ l + p + k < Width + Width /\ l + p + k = l + (p + k)
      BY <1>5, CardFacts
    <3>2. (((l + p) % Width) + k) % RingSize = (l + p + k) % RingSize
      BY <3>1, MovesOn
    <3>3. p + k \in p .. RingSize - 1
      BY <1>5, CardFacts
    <3> QED BY <3>1, <3>2, <3>3
  <2>3. \A j \in p .. RingSize - 1 : \E k \in 0 .. (RingSize - p) - 1 : j = p + k
    <3> SUFFICES ASSUME NEW j \in p .. RingSize - 1 PROVE \E k \in 0 .. (RingSize - p) - 1 : j = p + k
      OBVIOUS
    <3>1. j - p \in 0 .. (RingSize - p) - 1 /\ j = p + (j - p)
      BY <1>5, CardFacts
    <3> QED BY <3>1
  <2> QED BY <2>1, <2>2, <2>3
<1>8. Card!Between(rx.lastUsed, rx.usedIdx) = {(l + j) % RingSize : j \in 0 .. p - 1}
  BY <1>4, <1>6 DEF Card!Between
<1>9. \A j \in 0 .. RingSize - 1 : (l + j) % RingSize \in Card!Buffers
  BY <1>5, CardPlaces
<1>10. Card!Offered = {(l + j) % RingSize : j \in p .. RingSize - 1}
  <2>1. \A j \in p .. RingSize - 1 : rx.avail[(l + j) % RingSize] = (l + j) % RingSize
    <3>1. p .. RingSize - 1 \subseteq 0 .. RingSize - 1
      BY <1>5, CardFacts
    <3> QED BY <1>1, <1>9, <3>1 DEF Filled
  <2> QED BY <1>7, <2>1 DEF Card!Offered
<1>11. Card!Pending = {(l + j) % RingSize : j \in 0 .. p - 1}
  <2>1. \A j \in 0 .. p - 1 : rx.used[(l + j) % RingSize] = (l + j) % RingSize
    BY <1>1, <1>4 DEF Filled
  <2> QED BY <1>8, <2>1 DEF Card!Pending
<1>12. \A r \in Card!Buffers : r \in Card!Offered \/ r \in Card!Pending
  <2> SUFFICES ASSUME NEW r \in Card!Buffers PROVE r \in Card!Offered \/ r \in Card!Pending
    OBVIOUS
  <2>1. PICK j \in 0 .. RingSize - 1 : (l + j) % RingSize = r
    BY <1>5, CardFacts, AllRemainders
  <2>2. j \in p .. RingSize - 1 \/ j \in 0 .. p - 1
    BY <1>5, CardFacts
  <2> QED BY <1>10, <1>11, <2>1, <2>2
<1>13. Card!Offered \cap Card!Pending = {}
  <2> SUFFICES ASSUME NEW i \in p .. RingSize - 1, NEW j \in 0 .. p - 1 PROVE (l + i) % RingSize # (l + j) % RingSize
    BY <1>10, <1>11
  <2>1. l + i \in Nat /\ l + j \in Nat /\ l + j < l + i /\ l + i < l + j + RingSize
    BY <1>5, CardFacts
  <2> QED BY <2>1, CardFacts, Apart
<1>14. Card!Offered \subseteq Card!Buffers /\ Card!Pending \subseteq Card!Buffers
  <2>1. p .. RingSize - 1 \subseteq 0 .. RingSize - 1 /\ 0 .. p - 1 \subseteq 0 .. RingSize - 1
    BY <1>5, CardFacts
  <2> QED BY <1>9, <1>10, <1>11, <2>1
<1>15. Card!BuffersPartitioned
  BY <1>12, <1>13, <1>14 DEF Card!BuffersPartitioned
<1> QED BY <1>2, <1>3, <1>15

\* The transmit side of a step that leaves it alone, and the receive side.
LEMMA TxKept ==
  ASSUME Transmitting, UNCHANGED <<tx, transmitted>> PROVE Transmitting'
  BY DEF Transmitting, Card!Inc

\* The receive side of a step that leaves it alone.
LEMMA RxKept ==
  ASSUME Receiving, UNCHANGED <<rx, poll, got>> PROVE Receiving'
<1>1. PICK p \in Nat : Indices(p) /\ Filled(p) /\ Ascending(Handled(p))
  BY DEF Receiving
<1>2. Indices(p)' /\ Filled(p)'
  BY <1>1 DEF Indices, Filled
<1>3. Ascending(Handled(p))'
  BY <1>1 DEF Ascending, Handled
<1> QED BY <1>2, <1>3 DEF Receiving

\* The card fills a buffer it was given.
LEMMA CardReceives ==
  ASSUME CardInv, Card!DeviceReceives PROVE CardInv'
<1>1. PICK p \in Nat : Indices(p) /\ Filled(p) /\ Ascending(Handled(p))
  BY DEF CardInv, Receiving
<1>2. /\ rx \in RxQueues /\ poll \in Polls /\ CardTypes
      /\ rx.seen # rx.availIdx /\ UNCHANGED <<poll, got, tx, transmitted>>
  BY DEF CardInv, CardTypes, Card!DeviceReceives
<1>3. PICK l, n, a \in Nat :
        /\ l = rx.lastUsed /\ a = rx.arrived /\ p <= RingSize /\ p <= a /\ l < Width /\ n = l + p
  <2>1. p <= RingSize /\ p <= rx.arrived /\ rx.arrived \in Nat
    BY <1>1, <1>2 DEF Indices, RxQueues
  <2>2. PICK l \in Nat : l = rx.lastUsed /\ l < Width
    BY <1>2, CardFacts DEF RxQueues
  <2>3. PICK n \in Nat : n = l + p
    OBVIOUS
  <2> QED BY <2>1, <2>2, <2>3
<1>0. /\ rx.availIdx = (l + RingSize) % Width /\ rx.usedIdx = n % Width /\ rx.seen = n % Width
  BY <1>1, <1>3 DEF Indices
<1>4. p < RingSize
  <2>1. p # RingSize
    BY <1>0, <1>2, <1>3
  <2> QED BY <1>3, <2>1, CardFacts
<1>5. n + 1 < Width + Width /\ n < Width + Width
  <2>1. p + 1 <= RingSize /\ RingSize < Width /\ l < Width /\ n = l + p
    BY <1>3, <1>4, CardFacts
  <2> QED BY <2>1, CardFacts
<1>6. PICK b \in Card!Buffers : b = n % RingSize
  BY CardPlaces
<1>7. rx.seen % RingSize = b /\ rx.usedIdx % RingSize = b
  <2>1. PICK zero \in Nat : zero = 0 /\ n + zero = n /\ (n % Width) + zero = n % Width
    BY CardPlaces, CardFacts
  <2>2. ((n % Width) + zero) % RingSize = (n + zero) % RingSize
    BY <1>5, <2>1, MovesOn
  <2> QED BY <1>0, <1>6, <2>1, <2>2
<1>8. Card!Inc(rx.seen) = (n + 1) % Width /\ Card!Inc(rx.usedIdx) = (n + 1) % Width
      /\ (n + 1) % Width \in RingIndices
  <2>1. ((n % Width) + 1) % Width = (n + 1) % Width
    BY <1>5, MovesOn
  <2> QED BY <1>0, <2>1, CardPlaces DEF Card!Inc
<1>9. rx.avail[b] = b
  BY <1>1 DEF Filled
<1>10. PICK i \in RingIndices : i = (n + 1) % Width
  BY <1>8
<1>11. PICK bufs, useds :
         /\ bufs = [rx.buf EXCEPT ![b] = a + 1] /\ useds = [rx.used EXCEPT ![b] = b]
  OBVIOUS
<1>12. bufs \in [Card!Buffers -> Nat] /\ useds \in [Card!Buffers -> Card!Buffers]
       /\ bufs[b] = a + 1 /\ useds[b] = b
       /\ \A c \in Card!Buffers : c # b => bufs[c] = rx.buf[c] /\ useds[c] = rx.used[c]
  BY <1>2, <1>3, <1>11 DEF RxQueues
<1>13. rx' = [rx EXCEPT !.buf = bufs, !.arrived = a + 1, !.seen = i, !.used = useds, !.usedIdx = i]
  BY <1>2, <1>3, <1>7, <1>8, <1>9, <1>10, <1>11 DEF Card!DeviceReceives, RxQueues
<1>14. /\ rx' \in RxQueues /\ rx'.buf = bufs /\ rx'.used = useds /\ rx'.arrived = a + 1
       /\ rx'.seen = i /\ rx'.usedIdx = i /\ rx'.lastUsed = l /\ rx'.availIdx = rx.availIdx
       /\ rx'.avail = rx.avail
  BY <1>2, <1>3, <1>12, <1>13 DEF RxQueues
<1>15. PICK q \in Nat : q = p + 1 /\ q <= RingSize /\ q <= a + 1 /\ l + q = n + 1 /\ q > 0
  <2>1. p + 1 <= RingSize
    BY <1>4, CardFacts
  <2>2. p + 1 <= a + 1
    BY <1>3
  <2>3. l + (p + 1) = n + 1
    BY <1>3
  <2> QED BY <2>1, <2>2, <2>3
<1>16. Indices(q)'
  <2>1. rx'.usedIdx = (rx'.lastUsed + q) % Width /\ rx'.seen = rx'.usedIdx
    BY <1>10, <1>14, <1>15
  <2>2. rx'.availIdx = (rx'.lastUsed + RingSize) % Width
    BY <1>0, <1>14
  <2>3. poll'.at # "out" => q > 0 /\ poll'.b = rx'.lastUsed % RingSize
    BY <1>1, <1>2, <1>3, <1>14, <1>15 DEF Indices
  <2> QED BY <1>14, <1>15, <2>1, <2>2, <2>3 DEF Indices
<1>17. Filled(q)'
  <2>1. \A c \in Card!Buffers : rx'.avail[c] = c
    BY <1>1, <1>14 DEF Filled
  <2>2. ASSUME NEW j \in 0 .. q - 1
        PROVE  rx'.used[(l + j) % RingSize] = (l + j) % RingSize /\ rx'.buf[(l + j) % RingSize] = (a + 1) - q + j + 1
    <3>1. CASE j = p
      <4>1. (l + j) % RingSize = b /\ (a + 1) - q + j + 1 = a + 1
        BY <1>3, <1>6, <1>15, <3>1
      <4> QED BY <1>12, <1>14, <4>1
    <3>2. CASE j # p
      <4>1. j \in 0 .. p - 1 /\ l + j \in Nat /\ l + j < n /\ n < l + j + RingSize
            /\ (a + 1) - q + j + 1 = a - p + j + 1
        <5>1. j \in 0 .. p - 1 /\ l + j \in Nat /\ l + j < n /\ (a + 1) - q + j + 1 = a - p + j + 1
          BY <1>3, <1>15, <3>2
        <5>2. n < l + j + RingSize
          <6>1. PICK s \in Nat : s = RingSize /\ p < s
            BY <1>4, CardFacts
          <6>2. l + p < l + j + s
            BY <5>1, <6>1
          <6> QED BY <1>3, <6>1, <6>2
        <5> QED BY <5>1, <5>2
      <4>2. (l + j) % RingSize # b
        BY <1>6, <4>1, CardFacts, Apart
      <4>3. (l + j) % RingSize \in Card!Buffers
        BY <4>1, CardPlaces
      <4>4. rx.used[(l + j) % RingSize] = (l + j) % RingSize /\ rx.buf[(l + j) % RingSize] = a - p + j + 1
        BY <1>1, <1>3, <4>1 DEF Filled
      <4> QED BY <1>12, <1>14, <4>1, <4>2, <4>3, <4>4
    <3> QED BY <3>1, <3>2
  <2> QED BY <1>14, <2>1, <2>2 DEF Filled
<1>18. Ascending(Handled(q))'
  <2>1. (rx'.arrived - q) = rx.arrived - p
    BY <1>3, <1>14, <1>15
  <2>2. Handled(q)' = Handled(p) /\ got' = got
    BY <1>2, <2>1 DEF Handled
  <2> QED BY <1>1, <2>2 DEF Ascending
<1>19. Transmitting'
  BY <1>2, TxKept DEF CardInv
<1> QED BY <1>2, <1>14, <1>16, <1>17, <1>18, <1>19 DEF CardInv, CardTypes, Receiving

\* virtio_net_poll takes the next used buffer.
LEMMA CardTakes ==
  ASSUME CardInv, NEW pbuf \in BOOLEAN, Card!PollTakes(pbuf) PROVE CardInv'
<1>1. PICK p \in Nat : Indices(p) /\ Filled(p) /\ Ascending(Handled(p))
  BY DEF CardInv, Receiving
<1>2. /\ rx \in RxQueues /\ poll.at = "out" /\ CardTypes
      /\ rx.usedIdx # rx.lastUsed /\ UNCHANGED <<rx, tx, transmitted>>
  BY DEF CardInv, CardTypes, Card!PollTakes
<1>3. PICK l, a \in Nat : l = rx.lastUsed /\ a = rx.arrived /\ l < Width /\ p <= a /\ rx.usedIdx = (l + p) % Width
  <2>1. p <= rx.arrived /\ rx.arrived \in Nat /\ rx.usedIdx = (rx.lastUsed + p) % Width
    BY <1>1, <1>2 DEF Indices, RxQueues
  <2>2. PICK l \in Nat : l = rx.lastUsed /\ l < Width
    BY <1>2, CardFacts DEF RxQueues
  <2> QED BY <2>1, <2>2
<1>4. p > 0
  <2>1. CASE p = 0
    BY <1>2, <1>3, <2>1, CardPlaces
  <2> QED BY <2>1
<1>5. PICK b \in Card!Buffers : b = l % RingSize
  BY CardPlaces
<1>6. rx.used[b] = b /\ rx.buf[b] = a - p + 1
  <2>1. 0 \in 0 .. p - 1 /\ l + 0 = l /\ a - p + 0 + 1 = a - p + 1
    BY <1>3, <1>4
  <2> QED BY <1>1, <1>3, <1>5, <2>1 DEF Filled
<1>7. PICK m \in Nat : m = a - p + 1 /\ a - p = m - 1 /\ m >= 1
  BY <1>3
<1>8. poll' = [at |-> "ring", b |-> b] /\ got' = IF pbuf THEN Append(got, m) ELSE got
  BY <1>3, <1>5, <1>6, <1>7 DEF Card!PollTakes
<1>9. poll' \in Polls /\ poll'.at = "ring" /\ poll'.b = b
  BY <1>8 DEF Polls
<1>10. got' \in Seq(Nat) /\ Ascending(m)'
  <2>1. PICK n \in Nat : n = Len(got) /\ got \in Seq(Nat)
    BY <1>2 DEF CardTypes
  <2>2. /\ \A i, j \in 1 .. n : i < j => got[i] < got[j]
        /\ \A i \in 1 .. n : got[i] >= 1 /\ got[i] <= m - 1 /\ got[i] \in Nat
    <3>1. Handled(p) = m - 1
      BY <1>2, <1>3, <1>7 DEF Handled
    <3> QED BY <1>1, <2>1, <3>1 DEF Ascending
  <2>3. CASE pbuf
    <3>1. /\ got' \in Seq(Nat) /\ Len(got') = n + 1 /\ got'[n + 1] = m
          /\ \A i \in 1 .. n : got'[i] = got[i]
      BY <1>8, <2>1, <2>3
    <3>2. \A i \in 1 .. n + 1 : i \in 1 .. n \/ i = n + 1
      BY <2>1
    <3>3. \A i \in 1 .. n : got[i] < m /\ got[i] <= m
      BY <2>2
    <3>4. \A i, j \in 1 .. n + 1 : i < j => got'[i] < got'[j]
      <4> SUFFICES ASSUME NEW i \in 1 .. n + 1, NEW j \in 1 .. n + 1, i < j PROVE got'[i] < got'[j]
        OBVIOUS
      <4>1. i \in 1 .. n
        BY <3>2
      <4>2. CASE j \in 1 .. n
        BY <2>2, <3>1, <4>1, <4>2
      <4>3. CASE j = n + 1
        BY <3>1, <3>3, <4>1, <4>3
      <4> QED BY <3>2, <4>2, <4>3
    <3>5. \A i \in 1 .. n + 1 : got'[i] >= 1 /\ got'[i] <= m
      BY <1>7, <2>2, <3>1, <3>2, <3>3
    <3> QED BY <3>1, <3>4, <3>5 DEF Ascending
  <2>4. CASE ~pbuf
    <3>1. got' = got
      BY <1>8, <2>4
    <3> QED BY <2>1, <2>2, <3>1 DEF Ascending
  <2> QED BY <2>3, <2>4
<1>11. Indices(p)' /\ Filled(p)'
  BY <1>1, <1>2, <1>3, <1>4, <1>5, <1>9 DEF Indices, Filled
<1>12. Receiving'
  <2>1. Handled(p)' = m
    BY <1>2, <1>3, <1>7, <1>9 DEF Handled
  <2>2. Ascending(Handled(p))'
    BY <1>10, <2>1 DEF Ascending
  <2> QED BY <1>11, <2>2 DEF Receiving
<1>13. Transmitting'
  BY <1>2, TxKept DEF CardInv
<1> QED BY <1>2, <1>9, <1>10, <1>12, <1>13 DEF CardInv, CardTypes

\* virtio_net_poll gives the buffer back.
LEMMA CardReturns ==
  ASSUME CardInv, Card!PollReturns PROVE CardInv'
<1>1. PICK p \in Nat : Indices(p) /\ Filled(p) /\ Ascending(Handled(p))
  BY DEF CardInv, Receiving
<1>2. /\ rx \in RxQueues /\ poll \in Polls /\ CardTypes /\ poll.at = "ring"
      /\ UNCHANGED <<got, tx, transmitted>> /\ poll' = [poll EXCEPT !.at = "index"]
      /\ rx' = [rx EXCEPT !.avail[rx.availIdx % RingSize] = poll.b]
  BY DEF CardInv, CardTypes, Card!PollReturns
<1>3. PICK l \in Nat : l = rx.lastUsed /\ l < Width
  BY <1>2, CardFacts DEF RxQueues
<1>4. PICK b \in Card!Buffers : b = l % RingSize
  BY CardPlaces
<1>5. poll.b = b /\ p > 0
  BY <1>1, <1>2, <1>3, <1>4 DEF Indices
<1>6. rx.availIdx % RingSize = b
  <2>1. l + RingSize \in Nat /\ l + RingSize < Width + Width
    BY <1>3, CardFacts
  <2>2. PICK n \in Nat : n = l + RingSize
    BY <2>1
  <2>3. ((n % Width) + 0) % RingSize = (n + 0) % RingSize
    BY <2>1, <2>2, MovesOn
  <2>4. (n % Width) + 0 = n % Width /\ n + 0 = n
    BY CardPlaces, CardFacts
  <2>5. rx.availIdx = n % Width
    BY <1>1, <1>3, <2>2 DEF Indices
  <2>6. n % RingSize = l % RingSize
    BY <2>2, CardFacts, NextRound
  <2> QED BY <1>4, <2>3, <2>4, <2>5, <2>6
<1>7. rx' = rx
  <2>1. \A b2 \in Card!Buffers : rx.avail[b2] = b2
    BY <1>1 DEF Filled
  <2>2. rx.avail \in [Card!Buffers -> Card!Buffers]
    BY <1>2 DEF RxQueues
  <2>3. [rx.avail EXCEPT ![b] = b] = rx.avail
    BY <2>1, <2>2
  <2>4. rx' = [rx EXCEPT !.avail = [rx.avail EXCEPT ![b] = b]]
    BY <1>2, <1>5, <1>6 DEF RxQueues
  <2> QED BY <1>2, <2>3, <2>4 DEF RxQueues
<1>8. poll' \in Polls /\ poll'.at = "index" /\ poll'.b = b
  BY <1>2, <1>5 DEF Polls
<1>9. Indices(p)' /\ Filled(p)'
  BY <1>1, <1>3, <1>4, <1>5, <1>7, <1>8 DEF Indices, Filled
<1>10. Ascending(Handled(p))'
  <2>1. Handled(p)' = Handled(p) /\ got' = got
    BY <1>2, <1>7, <1>8 DEF Handled
  <2> QED BY <1>1, <2>1 DEF Ascending
<1>11. Transmitting'
  BY <1>2, TxKept DEF CardInv
<1> QED BY <1>2, <1>7, <1>8, <1>9, <1>10, <1>11 DEF CardInv, CardTypes, Receiving

\* virtio_net_poll goes on to the next index.
LEMMA CardAdvances ==
  ASSUME CardInv, Card!PollAdvances PROVE CardInv'
<1>1. PICK p \in Nat : Indices(p) /\ Filled(p) /\ Ascending(Handled(p))
  BY DEF CardInv, Receiving
<1>2. /\ rx \in RxQueues /\ CardTypes /\ poll.at = "index"
      /\ UNCHANGED <<got, tx, transmitted>> /\ poll' = [at |-> "out"]
      /\ rx' = [rx EXCEPT !.availIdx = Card!Inc(rx.availIdx), !.lastUsed = Card!Inc(rx.lastUsed)]
  BY DEF CardInv, CardTypes, Card!PollAdvances
<1>3. PICK l, a \in Nat : l = rx.lastUsed /\ l < Width /\ a = rx.arrived /\ p <= RingSize /\ p > 0 /\ p <= a
  <2>1. PICK l \in Nat : l = rx.lastUsed /\ l < Width
    BY <1>2, CardFacts DEF RxQueues
  <2>2. p <= RingSize /\ p > 0 /\ p <= rx.arrived /\ rx.arrived \in Nat
    BY <1>1, <1>2 DEF Indices, RxQueues
  <2> QED BY <2>1, <2>2
<1>4. /\ rx.availIdx = (l + RingSize) % Width /\ rx.usedIdx = (l + p) % Width /\ rx.seen = rx.usedIdx
  BY <1>1, <1>3 DEF Indices
<1>5. PICK m, v, w \in RingIndices : m = (l + 1) % Width /\ v = Card!Inc(rx.availIdx) /\ w = Card!Inc(rx.lastUsed)
  BY <1>2, CardPlaces DEF Card!Inc, RxQueues, RingIndices
<1>6. rx' = [rx EXCEPT !.availIdx = v, !.lastUsed = w]
  BY <1>2, <1>5
<1>7. rx' \in RxQueues /\ rx'.availIdx = v /\ rx'.lastUsed = w /\ rx'.avail = rx.avail
      /\ rx'.used = rx.used /\ rx'.buf = rx.buf /\ rx'.seen = rx.seen /\ rx'.usedIdx = rx.usedIdx
      /\ rx'.arrived = rx.arrived
  BY <1>2, <1>6 DEF RxQueues
<1>8. w = m
  BY <1>3, <1>5 DEF Card!Inc
\* From the next place on the numbers are as from this one.
<1>9. ASSUME NEW j \in Nat, j <= RingSize
      PROVE  (m + j) % Width = (l + j + 1) % Width /\ (j < RingSize => (m + j) % RingSize = (l + j + 1) % RingSize)
  <2>1. PICK n \in Nat : n = l + 1 /\ n + j = l + j + 1
    OBVIOUS
  <2>2. n + j < Width + Width
    BY <1>3, <1>9, <2>1, CardFacts, SMTT(30)
  <2> QED BY <1>5, <2>1, <2>2, MovesOn
<1>10. v = (m + RingSize) % Width
  <2>1. PICK n \in Nat : n = l + RingSize /\ n + 1 = l + RingSize + 1 /\ RingSize \in Nat /\ RingSize <= RingSize
    BY CardFacts
  <2>2. n + 1 < Width + Width
    BY <1>3, <2>1, CardFacts
  <2>3. ((n % Width) + 1) % Width = (n + 1) % Width
    BY <2>2, MovesOn
  <2>4. (m + RingSize) % Width = (l + RingSize + 1) % Width
    BY <1>9, <2>1
  <2> QED BY <1>4, <1>5, <2>1, <2>3, <2>4 DEF Card!Inc
<1>11. PICK q \in Nat : q = p - 1 /\ l + q + 1 = l + p /\ q <= RingSize /\ q <= a
  <2>1. p - 1 \in Nat /\ l + (p - 1) + 1 = l + p /\ p - 1 <= a
    BY <1>3
  <2>2. p - 1 <= RingSize
    BY <1>3, CardFacts
  <2> QED BY <2>1, <2>2
<1>12. Indices(q)'
  <2>1. rx.usedIdx = (m + q) % Width
    BY <1>4, <1>9, <1>11
  <2>2. poll'.at = "out"
    BY <1>2
  <2> QED BY <1>3, <1>4, <1>7, <1>8, <1>10, <1>11, <2>1, <2>2 DEF Indices
<1>13. Filled(q)'
  <2>1. \A c \in Card!Buffers : rx.avail[c] = c
    BY <1>1 DEF Filled
  <2>2. ASSUME NEW j \in 0 .. q - 1
        PROVE  rx.used[(m + j) % RingSize] = (m + j) % RingSize /\ rx.buf[(m + j) % RingSize] = a - q + j + 1
    <3>1. PICK i \in 0 .. p - 1 : i = j + 1 /\ l + i = l + j + 1 /\ a - p + i + 1 = a - q + j + 1
      <4>1. j + 1 \in 0 .. p - 1 /\ l + (j + 1) = l + j + 1 /\ a - p + (j + 1) + 1 = a - q + j + 1
        BY <1>3, <1>11
      <4> QED BY <4>1
    <3>2. j \in Nat /\ j < RingSize /\ j <= RingSize
      BY <1>3, <1>11, CardFacts
    <3>3. (m + j) % RingSize = (l + i) % RingSize
      <4>1. (m + j) % RingSize = (l + j + 1) % RingSize
        BY <1>9, <3>2
      <4> QED BY <3>1, <4>1
    <3>4. rx.used[(l + i) % RingSize] = (l + i) % RingSize /\ rx.buf[(l + i) % RingSize] = a - p + i + 1
      BY <1>1, <1>3 DEF Filled
    <3> QED BY <3>1, <3>3, <3>4
  <2> QED BY <1>3, <1>7, <1>8, <2>1, <2>2 DEF Filled
<1>14. Ascending(Handled(q))'
  <2>1. Handled(q)' = a - q /\ Handled(p) = a - p + 1
    BY <1>2, <1>3, <1>7 DEF Handled
  <2>2. Handled(q)' = Handled(p) /\ got' = got
    BY <1>2, <1>3, <1>11, <2>1
  <2> QED BY <1>1, <2>2 DEF Ascending
<1>15. Transmitting' /\ poll' \in Polls
  BY <1>2, TxKept DEF CardInv, Polls
<1> QED BY <1>2, <1>7, <1>12, <1>13, <1>14, <1>15 DEF CardInv, CardTypes, Receiving

\* The places of the transmit queue.
LEMMA NextPlace ==
  ASSUME NEW x \in RingIndices PROVE Card!Inc(x) \in RingIndices /\ Card!Inc(x) # x
<1>1. x \in Nat /\ x < Width /\ Width > 1
  BY CardFacts
<1>2. CASE x + 1 < Width
  BY <1>1, <1>2, CardPlaces, CardFacts DEF Card!Inc
<1>3. CASE ~(x + 1 < Width)
  <2>1. PICK y \in Nat : y = x + 1 /\ y = Width
    BY <1>1, <1>3, CardFacts
  <2>2. y % Width = 0
    BY <2>1, CardPlaces, CardFacts
  <2>3. x # 0 /\ 0 \in RingIndices
    BY <1>1, <2>1, CardFacts
  <2> QED BY <2>1, <2>2, <2>3 DEF Card!Inc
<1> QED BY <1>2, <1>3

\* virtio_net_output writes a packet, publishes it and returns; the card sends it.
LEMMA CardOutputs ==
  ASSUME CardInv, Card!OutputFills \/ Card!OutputPublishes \/ Card!OutputReturns \/ Card!DeviceSends
  PROVE  CardInv'
<1>1. /\ tx \in TxQueues /\ CardTypes /\ Transmitting /\ Receiving /\ transmitted \in Seq(Nat)
      /\ UNCHANGED <<rx, poll, got>>
  BY DEF CardInv, CardTypes, Card!OutputFills, Card!OutputPublishes, Card!OutputReturns, Card!DeviceSends
<1>2. Receiving'
  BY <1>1, RxKept
<1>3. PICK n \in Nat : n = Len(transmitted)
  BY <1>1
<1>4. Card!Inc(tx.lastUsed) \in RingIndices /\ Card!Inc(tx.lastUsed) # tx.lastUsed
      /\ Card!Inc(tx.availIdx) \in RingIndices /\ Card!Inc(tx.usedIdx) \in RingIndices
  BY <1>1, NextPlace DEF TxQueues
<1>5. ASSUME tx' \in TxQueues, transmitted' \in Seq(Nat), Transmitting' PROVE CardInv'
  BY <1>1, <1>2, <1>5 DEF CardInv, CardTypes
<1>6. CASE Card!OutputFills
  <2>1. tx.at = "idle" /\ tx' = [tx EXCEPT !.at = "filled", !.buf = tx.next, !.next = tx.next + 1]
        /\ transmitted' = transmitted
    BY <1>6 DEF Card!OutputFills
  <2>2. tx.next = n + 1
    BY <1>1, <1>3, <2>1 DEF Transmitting
  <2>3. tx' = [tx EXCEPT !.at = "filled", !.buf = n + 1, !.next = n + 2]
    <3>1. tx.next + 1 = n + 2
      BY <2>2
    <3> QED BY <2>1, <2>2, <3>1
  <2>4. /\ tx' \in TxQueues /\ tx'.at = "filled" /\ tx'.availIdx = tx.availIdx
        /\ tx'.usedIdx = tx.usedIdx /\ tx'.lastUsed = tx.lastUsed /\ tx'.seen = tx.seen
        /\ tx'.buf = n + 1 /\ tx'.next = n + 2
    <3>1. PICK x, y \in Nat : x = n + 1 /\ y = n + 2
      OBVIOUS
    <3>2. tx' = [tx EXCEPT !.at = "filled", !.buf = x, !.next = y]
      BY <2>3, <3>1
    <3> QED BY <1>1, <3>1, <3>2 DEF TxQueues
  <2>5. Transmitting'
    BY <1>1, <1>3, <2>1, <2>4 DEF Transmitting
  <2> QED BY <1>1, <1>5, <2>1, <2>4, <2>5
<1>7. CASE Card!OutputPublishes
  <2>1. tx.at = "filled" /\ tx' = [tx EXCEPT !.at = "wait", !.availIdx = Card!Inc(tx.availIdx)]
        /\ transmitted' = transmitted
    BY <1>7 DEF Card!OutputPublishes
  <2>2. PICK i \in RingIndices : i = Card!Inc(tx.availIdx) /\ i = Card!Inc(tx.lastUsed) /\ i # tx.lastUsed
                            /\ tx.usedIdx = tx.lastUsed
    BY <1>1, <1>4, <2>1 DEF Transmitting
  <2>3. tx' = [tx EXCEPT !.at = "wait", !.availIdx = i]
    BY <2>1, <2>2
  <2>4. /\ tx' \in TxQueues /\ tx'.at = "wait" /\ tx'.availIdx = i /\ tx'.usedIdx = tx.usedIdx
        /\ tx'.lastUsed = tx.lastUsed /\ tx'.seen = tx.seen /\ tx'.buf = tx.buf /\ tx'.next = tx.next
    BY <1>1, <2>3 DEF TxQueues
  <2>5. Transmitting'
    BY <1>1, <2>1, <2>2, <2>4 DEF Transmitting, Card!Inc
  <2> QED BY <1>1, <1>5, <2>1, <2>4, <2>5
<1>8. CASE Card!OutputReturns
  <2>1. /\ tx.at = "wait" /\ tx.usedIdx # tx.lastUsed /\ transmitted' = transmitted
        /\ tx' = [tx EXCEPT !.at = "idle", !.lastUsed = tx.usedIdx]
    BY <1>8 DEF Card!OutputReturns
  <2>2. /\ tx' \in TxQueues /\ tx'.at = "idle" /\ tx'.availIdx = tx.availIdx /\ tx'.usedIdx = tx.usedIdx
        /\ tx'.lastUsed = tx.usedIdx /\ tx'.seen = tx.seen /\ tx'.buf = tx.buf /\ tx'.next = tx.next
    BY <1>1, <2>1 DEF TxQueues
  <2>3. tx.usedIdx = tx.availIdx /\ tx.next = n + 1
    BY <1>1, <1>3, <2>1 DEF Transmitting
  <2>4. Transmitting'
    BY <1>1, <1>3, <2>1, <2>2, <2>3 DEF Transmitting
  <2> QED BY <1>1, <1>5, <2>1, <2>2, <2>4
<1>9. CASE Card!DeviceSends
  <2>1. /\ tx.seen # tx.availIdx /\ transmitted' = Append(transmitted, tx.buf)
        /\ tx' = [tx EXCEPT !.seen = Card!Inc(tx.seen), !.usedIdx = Card!Inc(tx.usedIdx)]
    BY <1>9 DEF Card!DeviceSends
  <2>2. /\ tx.at = "wait" /\ tx.seen = tx.lastUsed /\ tx.usedIdx = tx.lastUsed
        /\ tx.availIdx = Card!Inc(tx.lastUsed) /\ tx.buf = n + 1 /\ tx.next = n + 2
    BY <1>1, <1>3, <2>1 DEF Transmitting, TxQueues
  <2>3. PICK i \in RingIndices : i = Card!Inc(tx.lastUsed) /\ i # tx.lastUsed /\ tx.availIdx = i
    BY <1>4, <2>2
  <2>4. tx' = [tx EXCEPT !.seen = i, !.usedIdx = i]
    BY <2>1, <2>2, <2>3
  <2>5. /\ tx' \in TxQueues /\ tx'.at = "wait" /\ tx'.availIdx = i /\ tx'.usedIdx = i
        /\ tx'.lastUsed = tx.lastUsed /\ tx'.seen = i /\ tx'.buf = n + 1 /\ tx'.next = n + 2
    BY <1>1, <2>2, <2>3, <2>4 DEF TxQueues
  <2>6. /\ transmitted' \in Seq(Nat) /\ Len(transmitted') = n + 1 /\ transmitted'[n + 1] = n + 1
        /\ \A j \in 1 .. n : transmitted'[j] = transmitted[j]
    <3>1. transmitted' = Append(transmitted, n + 1)
      BY <2>1, <2>2
    <3> QED BY <1>1, <1>3, <3>1
  <2>7. \A j \in 1 .. n + 1 : transmitted'[j] = j
    <3>1. \A j \in 1 .. n : transmitted[j] = j
      BY <1>1, <1>3 DEF Transmitting
    <3> QED BY <2>6, <3>1
  <2>8. Transmitting'
    BY <2>3, <2>5, <2>6, <2>7 DEF Transmitting, Card!Inc
  <2> QED BY <1>5, <2>5, <2>6, <2>8
<1> QED BY <1>6, <1>7, <1>8, <1>9

\* Every step of the card and its driver, and those of the others, which leave them alone.
LEMMA CardSteps ==
  ASSUME CardInv, Card!Next \/ UNCHANGED cardVars PROVE CardInv'
<1>1. CASE UNCHANGED cardVars
  <2>1. Receiving' /\ Transmitting'
    BY <1>1, RxKept, TxKept DEF CardInv, cardVars
  <2> QED BY <1>1, <2>1 DEF CardInv, CardTypes, cardVars
<1>2. CASE \E pbuf \in BOOLEAN : Card!PollTakes(pbuf)
  BY <1>2, CardTakes
<1>3. CASE Card!DeviceReceives \/ Card!PollReturns \/ Card!PollAdvances
  BY <1>3, CardReceives, CardReturns, CardAdvances
<1>4. CASE Card!OutputFills \/ Card!OutputPublishes \/ Card!OutputReturns \/ Card!DeviceSends
  BY <1>4, CardOutputs
<1>5. CASE Card!Quiet
  BY <1>1, <1>5 DEF Card!Quiet, Card!vars, cardVars
<1> QED BY <1>1, <1>2, <1>3, <1>4, <1>5 DEF Card!Next

-------------------------------------------------------------------------------
(* Keyboard and mouse (idt_handle_irq, mouse_handler)                       *)

\* The code the controller holds.
CodeHeld == IF controller # << >> /\ ~controller[1].aux THEN <<controller[1].code>> ELSE << >>

\* The codes, the lengths of a packet and the parts of what is on its way.
LEMMA DeskFacts ==
    /\ Desk!Codes = Desk!Keystrokes \cup {Desk!Prefix}
    /\ \A l \in Lengths : l \in Nat /\ l >= 1
    /\ Desk!InTransit = CodeHeld \o kbd.queue
    /\ \A c \in Desk!Keystrokes : c = <<c[1], c[2]>> /\ c[1] \in Keys /\ c[2] \in {"down", "up"}
    /\ Desk!Prefix[1] \notin Shifts \cup Alts \cup Ctrls
    /\ \A way \in {"down", "up"} : /\ <<FakeShift, way>> \in Desk!Keystrokes
                                   /\ <<FakeShift, way>>[1] = FakeShift /\ <<FakeShift, way>>[2] = way
    /\ \A c \in Desk!Keystrokes : c # Desk!Prefix
<1>1. Desk!Codes = Desk!Keystrokes \cup {Desk!Prefix}
  BY DEF Desk!Codes
<1>2. \A c \in Keys \X {"down", "up"} : c = <<c[1], c[2]>> /\ c[1] \in Keys /\ c[2] \in {"down", "up"}
  OBVIOUS
<1>3. Desk!Prefix[1] = "E0" /\ Desk!Prefix[2] = "prefix"
  BY DEF Desk!Prefix
<1>4. \A way \in {"down", "up"} : /\ <<FakeShift, way>> \in Keys \X {"down", "up"}
                                 /\ <<FakeShift, way>>[1] = FakeShift /\ <<FakeShift, way>>[2] = way
  BY EventsAssumption
<1>5. \A c \in Desk!Keystrokes : c # Desk!Prefix
  BY <1>2, <1>3 DEF Desk!Keystrokes
<1> QED BY <1>1, <1>2, <1>3, <1>4, <1>5, EventsAssumption DEF Desk!InTransit, CodeHeld, Desk!Keystrokes

\* The controller holds a byte of the one device or of the other.
LEMMA DeskHolds ==
  ASSUME DeskTypes
  PROVE  /\ CodeHeld \in Seq(Desk!Codes)
         /\ controller # << >> => Head(controller) = controller[1]
                                  /\ controller[1] \in KeyBytes \cup MouseBytes
<1>1. CASE controller = << >>
  BY <1>1 DEF CodeHeld
<1>2. CASE controller # << >>
  <2>1. PICK b \in KeyBytes \cup MouseBytes : controller = <<b>>
    BY <1>2 DEF DeskTypes
  <2>2. Head(controller) = b /\ controller[1] = b
    BY <2>1
  <2>3. b.aux \/ b.code \in Desk!Codes
    BY DEF KeyBytes, MouseBytes
  <2> QED BY <2>1, <2>2, <2>3 DEF CodeHeld
<1> QED BY <1>1, <1>2

\* Nothing typed, nothing heard.
LEMMA DeskInit == Desk!Init => DeskInv
<1> SUFFICES ASSUME Desk!Init PROVE DeskInv
  OBVIOUS
<1>1. mouse.packet = << >> /\ mouse.x = ScreenWidth \div 2 /\ mouse.left = FALSE
      /\ mouse.size \in Lengths /\ mouse.ready \in BOOLEAN
      /\ mouse \in [ready : BOOLEAN, size : Lengths, packet : {<< >>}, x : {ScreenWidth \div 2}, left : {FALSE}]
  BY DEF Desk!Init, Desk!MouseInit
<1>2. DeskTypes
  <2>1. ScreenWidth \div 2 \in Int
    BY EventsAssumption
  <2>2. mouse \in [ready : BOOLEAN, size : Lengths, packet : Seq(MouseBytes), x : Int, left : BOOLEAN]
    <3>1. PICK r \in BOOLEAN, s \in Lengths, w \in Int :
            mouse = [ready |-> r, size |-> s, packet |-> << >>, x |-> w, left |-> FALSE]
      BY <1>1, <2>1
    <3>2. << >> \in Seq(MouseBytes)
      OBVIOUS
    <3> QED BY <3>1, <3>2
  <2>3. dev \in [on : BOOLEAN, queue : Seq(MouseBytes), sent : Seq(Motions)]
    <3>1. PICK o \in BOOLEAN : dev = [on |-> o, queue |-> << >>, sent |-> << >>]
      BY DEF Desk!Init, Desk!MouseInit
    <3>2. << >> \in Seq(MouseBytes) /\ << >> \in Seq(Motions)
      OBVIOUS
    <3> QED BY <3>1, <3>2
  <2>4. kbd \in [held : SUBSET Keys, queue : Seq(Desk!Codes), sent : Seq(Desk!Codes),
                 typed : Nat, locked : SUBSET Grey]
    <3>1. PICK l \in SUBSET Grey : kbd = [held |-> {}, queue |-> << >>, sent |-> << >>, typed |-> 0, locked |-> l]
      BY DEF Desk!Init
    <3>2. << >> \in Seq(Desk!Codes)
      OBVIOUS
    <3> QED BY <3>1, <3>2
  <2>5. mode \in Modes
    BY DEF Desk!Init, Modes
  <2> QED BY <2>2, <2>3, <2>4, <2>5 DEF Desk!Init, DeskTypes
<1>3. Flags /\ KeysHeld
  <2>1. \A group : ~LastDown(group, << >>)
    BY DEF LastDown
  <2>2. kbd.sent = << >>
    BY DEF Desk!Init
  <2> QED BY <2>1, <2>2 DEF Desk!Init, Flags, KeysHeld, PrefixLast
<1>4. dev.queue = << >> /\ dev.sent = << >>
  BY DEF Desk!Init, Desk!MouseInit
<1>5. Chained /\ Cut
  BY <1>1, <1>4, DeskFacts DEF Desk!Init, Chained, Chain, Cut, MouseRest
<1>6. heard.codes \o Desk!InTransit = kbd.sent
  BY DEF Desk!Init, Desk!InTransit
<1> QED BY <1>2, <1>3, <1>5, <1>6 DEF DeskInv, Desk!Init

\* The invariant gives both promises: a flag that is set was set by a key whose
\* last code is going down.
LEMMA DeskSound == DeskInv => Desk!StreamsKept /\ Desk!NeverStuck
<1> SUFFICES ASSUME DeskInv, ~crossed PROVE Desk!StreamsKept /\ Desk!NeverStuck
  BY DEF Desk!StreamsKept, Desk!NeverStuck
<1>1. Desk!StreamsKept
  <2>1. \A i \in 1 .. Len(heard.packets) : DOMAIN heard.packets[i] = 1 .. Len(heard.packets[i])
    BY DEF DeskInv, DeskTypes
  <2>2. DOMAIN heard.packets = 1 .. Len(heard.packets)
    BY DEF DeskInv, DeskTypes
  <2>3. heard.codes \o Desk!InTransit = kbd.sent /\ Cut
    BY DEF DeskInv
  <2>4. ASSUME NEW i \in DOMAIN heard.packets, NEW j \in DOMAIN heard.packets[i]
        PROVE  heard.packets[i][j].of = i /\ heard.packets[i][j].at = j
    BY <2>1, <2>2, <2>3 DEF Cut
  <2> QED BY <2>3, <2>4 DEF Desk!StreamsKept
<1>2. ASSUME Desk!InTransit = << >> PROVE heard.codes = kbd.sent
  BY <1>2 DEF DeskInv, DeskTypes
<1>3. Desk!NeverStuck
  BY <1>2 DEF DeskInv, Flags, KeysHeld, Desk!NeverStuck
<1> QED BY <1>1, <1>3

\* What is on its way from the keyboard, and from the mouse, as sequences.
LEMMA DeskRest ==
  ASSUME DeskTypes
  PROVE  /\ MouseRest \in Seq(MouseBytes)
         /\ Desk!InTransit \in Seq(Desk!Codes)
         /\ controller = << >> => MouseRest = dev.queue /\ Desk!InTransit = kbd.queue
         /\ controller # << >> /\ controller[1].aux =>
               MouseRest = controller \o dev.queue /\ Desk!InTransit = kbd.queue
         /\ controller # << >> /\ ~controller[1].aux =>
               MouseRest = dev.queue /\ Desk!InTransit = <<controller[1].code>> \o kbd.queue
<1>1. dev.queue \in Seq(MouseBytes) /\ kbd.queue \in Seq(Desk!Codes)
  BY DEF DeskTypes
<1>2. << >> \o dev.queue = dev.queue /\ << >> \o kbd.queue = kbd.queue
  BY <1>1, ConcatEmptySeq
<1>3. Desk!InTransit = CodeHeld \o kbd.queue
  BY DeskFacts
<1>4. CASE controller = << >>
  BY <1>1, <1>2, <1>3, <1>4 DEF MouseRest, CodeHeld
<1>5. CASE controller # << >>
  <2>1. PICK b \in KeyBytes \cup MouseBytes : controller = <<b>> /\ controller[1] = b
    BY <1>5 DEF DeskTypes
  <2>2. CASE b.aux
    <3>1. b \in MouseBytes
      BY <2>2 DEF KeyBytes
    <3>2. MouseRest = controller \o dev.queue /\ Desk!InTransit = kbd.queue
      BY <1>2, <1>3, <1>5, <2>1, <2>2 DEF MouseRest, CodeHeld
    <3>3. controller \in Seq(MouseBytes)
      BY <2>1, <3>1
    <3>4. MouseRest \in Seq(MouseBytes)
      BY <1>1, <3>2, <3>3, ConcatProperties
    <3> QED BY <1>1, <1>5, <2>1, <2>2, <3>2, <3>4
  <2>3. CASE ~b.aux
    <3>1. b \in KeyBytes /\ b.code \in Desk!Codes
      BY <2>3 DEF MouseBytes, KeyBytes
    <3>2. MouseRest = dev.queue /\ Desk!InTransit = <<controller[1].code>> \o kbd.queue
      BY <1>2, <1>3, <1>5, <2>1, <2>3 DEF MouseRest, CodeHeld
    <3>3. <<controller[1].code>> \in Seq(Desk!Codes)
      BY <2>1, <3>1
    <3>4. Desk!InTransit \in Seq(Desk!Codes)
      BY <1>1, <3>2, <3>3, ConcatProperties
    <3> QED BY <1>1, <1>5, <2>1, <2>3, <3>2, <3>4
  <2> QED BY <2>2, <2>3
<1> QED BY <1>4, <1>5

\* The mouse's part of a step that is the keyboard's, and the reverse.
LEMMA MouseKept ==
  ASSUME Chained, Cut, MouseRest' = MouseRest, dev'.sent = dev.sent, heard'.packets = heard.packets,
         mouse' = mouse
  PROVE  Chained' /\ Cut'
<1>1. Chained'
  <2>1. \A b, c : Follows(b, c)' <=> Follows(b, c)
    BY DEF Follows
  <2>3. Chain(MouseRest, Len(heard.packets), Len(mouse.packet), Len(dev.sent))'
        <=> Chain(MouseRest, Len(heard.packets), Len(mouse.packet), Len(dev.sent))
    BY <2>1 DEF Chain
  <2> QED BY <2>3 DEF Chained
<1>2. Cut'
  BY DEF Cut
<1> QED BY <1>1, <1>2

\* ConcatAssociative, for any set.
LEMMA Associative ==
  ASSUME NEW S, NEW a, NEW b, NEW c, a \in Seq(S), b \in Seq(S), c \in Seq(S)
  PROVE  (a \o b) \o c = a \o (b \o c)
  BY ConcatAssociative

\* A code more: it is the last of its group, and of all.
Ends(group, codes, c, more) ==
    /\ more \in Seq(Desk!Codes)
    /\ c[1] \in group => (LastDown(group, more) <=> c[2] = "down")
    /\ c[1] \notin group => (LastDown(group, more) <=> LastDown(group, codes))
    /\ PrefixLast(more) <=> c = Desk!Prefix

LEMMA LastAppends ==
  ASSUME NEW group, NEW codes, codes \in Seq(Desk!Codes), NEW c, c \in Desk!Codes
  PROVE  Ends(group, codes, c, Append(codes, c))
<1>1. PICK n \in Nat : n = Len(codes)
  OBVIOUS
<1>2. PICK more \in Seq(Desk!Codes) :
        /\ more = Append(codes, c) /\ Len(more) = n + 1 /\ more[n + 1] = c /\ more # << >>
        /\ \A i \in 1 .. n : more[i] = codes[i]
  <2>1. /\ Append(codes, c) \in Seq(Desk!Codes) /\ Len(Append(codes, c)) = n + 1
        /\ Append(codes, c)[n + 1] = c /\ \A i \in 1 .. n : Append(codes, c)[i] = codes[i]
        /\ Append(codes, c) # << >>
    BY <1>1
  <2> QED BY <2>1
<1>3. \A i \in 1 .. n + 1 : i \in 1 .. n \/ i = n + 1
  OBVIOUS
<1>4. \A i \in 1 .. n : i \in 1 .. n + 1 /\ n + 1 > i /\ ~(i > n + 1)
  OBVIOUS
<1>5. n + 1 \in 1 .. n + 1 /\ ~(n + 1 > n + 1)
  OBVIOUS
<1>6. LastDown(group, more) <=>
        \E i \in 1 .. n + 1 : /\ more[i][1] \in group /\ more[i][2] = "down"
                              /\ \A j \in 1 .. n + 1 : j > i /\ more[j][1] \in group => more[j][2] = "down"
  BY <1>2 DEF LastDown
<1>7. LastDown(group, codes) <=>
        \E i \in 1 .. n : /\ codes[i][1] \in group /\ codes[i][2] = "down"
                          /\ \A j \in 1 .. n : j > i /\ codes[j][1] \in group => codes[j][2] = "down"
  BY <1>1 DEF LastDown
<1>8. c[1] \in group => (LastDown(group, more) <=> c[2] = "down")
  <2> SUFFICES ASSUME c[1] \in group PROVE LastDown(group, more) <=> c[2] = "down"
    OBVIOUS
  <2>1. ASSUME c[2] = "down" PROVE LastDown(group, more)
    <3>1. \A j \in 1 .. n + 1 : ~(j > n + 1)
      OBVIOUS
    <3> QED BY <1>2, <1>5, <1>6, <2>1, <3>1
  <2>2. ASSUME LastDown(group, more) PROVE c[2] = "down"
    <3>1. PICK i \in 1 .. n + 1 :
            /\ more[i][1] \in group /\ more[i][2] = "down"
            /\ \A j \in 1 .. n + 1 : j > i /\ more[j][1] \in group => more[j][2] = "down"
      BY <1>6, <2>2
    <3>2. CASE i = n + 1
      BY <1>2, <3>1, <3>2
    <3>3. CASE i \in 1 .. n
      BY <1>2, <1>4, <1>5, <3>1, <3>3
    <3> QED BY <1>3, <3>2, <3>3
  <2> QED BY <2>1, <2>2
<1>9. c[1] \notin group => (LastDown(group, more) <=> LastDown(group, codes))
  <2> SUFFICES ASSUME c[1] \notin group PROVE LastDown(group, more) <=> LastDown(group, codes)
    OBVIOUS
  <2>1. ASSUME LastDown(group, codes) PROVE LastDown(group, more)
    <3>1. PICK i \in 1 .. n :
            /\ codes[i][1] \in group /\ codes[i][2] = "down"
            /\ \A j \in 1 .. n : j > i /\ codes[j][1] \in group => codes[j][2] = "down"
      BY <1>7, <2>1
    <3>2. more[i][1] \in group /\ more[i][2] = "down" /\ i \in 1 .. n + 1
      BY <1>2, <1>4, <3>1
    <3>3. \A j \in 1 .. n + 1 : j > i /\ more[j][1] \in group => more[j][2] = "down"
      BY <1>2, <1>3, <3>1
    <3> QED BY <1>6, <3>2, <3>3
  <2>2. ASSUME LastDown(group, more) PROVE LastDown(group, codes)
    <3>1. PICK i \in 1 .. n + 1 :
            /\ more[i][1] \in group /\ more[i][2] = "down"
            /\ \A j \in 1 .. n + 1 : j > i /\ more[j][1] \in group => more[j][2] = "down"
      BY <1>6, <2>2
    <3>2. i \in 1 .. n
      BY <1>2, <1>3, <3>1
    <3>3. /\ codes[i][1] \in group /\ codes[i][2] = "down"
          /\ \A j \in 1 .. n : j > i /\ codes[j][1] \in group => codes[j][2] = "down"
      BY <1>2, <1>4, <3>1, <3>2
    <3> QED BY <1>7, <3>2, <3>3
  <2> QED BY <2>1, <2>2
<1>10. PrefixLast(more) <=> c = Desk!Prefix
  BY <1>2 DEF PrefixLast
<1> QED BY <1>2, <1>8, <1>9, <1>10 DEF Ends

\* The same for a code with its prefix.
Framed(c, m) == m = <<c>> \/ m = Desk!Prefixed(c)

LEMMA FramedCodes ==
  ASSUME NEW c \in Desk!Keystrokes, NEW m, Framed(c, m) PROVE m \in Seq(Desk!Codes)
<1>1. PICK p \in Desk!Codes : p = Desk!Prefix /\ c \in Desk!Codes
  BY DeskFacts
<1>2. PICK q, r : q = <<p>> /\ r = <<c>> /\ q \in Seq(Desk!Codes) /\ r \in Seq(Desk!Codes)
  <2>1. <<p>> \in Seq(Desk!Codes) /\ <<c>> \in Seq(Desk!Codes)
    BY <1>1
  <2> QED BY <2>1
<1>3. q \o r \in Seq(Desk!Codes)
  BY <1>2, ConcatProperties
<1>4. m = r \/ m = q \o r
  BY <1>1, <1>2 DEF Framed, Desk!Prefixed
<1> QED BY <1>2, <1>3, <1>4

LEMMA LastPrefixed ==
  ASSUME NEW group \in {Shifts, Alts, Ctrls}, NEW codes, codes \in Seq(Desk!Codes),
         NEW c \in Desk!Keystrokes, NEW m, Framed(c, m)
  PROVE  Ends(group, codes, c, codes \o m)
<1>1. PICK p \in Desk!Codes : p = Desk!Prefix /\ p[1] \notin group /\ c \in Desk!Codes /\ c # p
  BY DeskFacts
<1>2. CASE m = <<c>>
  <2>1. codes \o m = Append(codes, c)
    BY <1>1, <1>2, AppendIsConcat
  <2> QED BY <1>1, <2>1, LastAppends
<1>3. CASE m = Desk!Prefixed(c)
  <2>1. PICK one : one = Append(codes, p)
    OBVIOUS
  <2>2. Ends(group, codes, p, one)
    BY <1>1, <2>1, LastAppends
  <2>3. Ends(group, one, c, Append(one, c))
    BY <1>1, <2>2, LastAppends DEF Ends
  <2>4. Append(one, c) = codes \o m
    <3>1. PICK q, r : q = <<p>> /\ r = <<c>> /\ q \in Seq(Desk!Codes) /\ r \in Seq(Desk!Codes)
      <4>1. <<p>> \in Seq(Desk!Codes) /\ <<c>> \in Seq(Desk!Codes)
        BY <1>1
      <4> QED BY <4>1
    <3>2. m = q \o r
      BY <1>1, <1>3, <3>1 DEF Desk!Prefixed
    <3>3. one = codes \o q
      BY <1>1, <2>1, <3>1, AppendIsConcat
    <3>4. Append(one, c) = one \o r
      BY <1>1, <2>2, <3>1, AppendIsConcat DEF Ends
    <3>5. (codes \o q) \o r = codes \o (q \o r)
      <4>1. codes \in Seq(Desk!Codes) /\ q \in Seq(Desk!Codes) /\ r \in Seq(Desk!Codes)
        BY <3>1
      <4> QED BY ONLY <4>1, Associative
    <3> QED BY <3>2, <3>3, <3>4, <3>5
  <2>5. LastDown(group, one) <=> LastDown(group, codes)
    BY <1>1, <2>2 DEF Ends
  <2> QED BY <2>3, <2>4, <2>5 DEF Ends
<1> QED BY <1>2, <1>3 DEF Framed

\* What the keyboard sends for a key: its code; or, of a grey key, that code behind or
\* before the borrowed code of a Shift.
LEMMA DeskSends ==
  ASSUME NEW c \in Desk!Keystrokes
  PROVE  \/ /\ Desk!Sends(c) \in {<<c>>, Desk!Prefixed(c)}
            /\ c[2] = "up" => ~Desk!Wrapped(c[1])
         \/ /\ c[2] = "down" /\ Desk!Wrapped(c[1])
            /\ Desk!Sends(c) = Desk!Prefixed(<<FakeShift, IF Desk!ShiftHeld THEN "up" ELSE "down">>)
                               \o Desk!Prefixed(c)
         \/ /\ c[2] = "up" /\ Desk!Wrapped(c[1])
            /\ Desk!Sends(c) = Desk!Prefixed(c)
                               \o Desk!Prefixed(<<FakeShift, IF Desk!ShiftHeld THEN "down" ELSE "up">>)
<1>1. PICK m \in {<<c>>, Desk!Prefixed(c)} :
        m = Desk!WithPrefix(c) /\ (Desk!Wrapped(c[1]) => m = Desk!Prefixed(c))
  BY EventsAssumption DEF Desk!WithPrefix, Desk!Wrapped
<1>2. m \in Seq(Desk!Codes)
  BY FramedCodes DEF Framed
<1>3. << >> \o m = m /\ m \o << >> = m
  BY <1>2, ConcatEmptySeq
<1>4. PICK a, b : a = Desk!Before(c) /\ b = Desk!After(c)
  OBVIOUS
<1>5. Desk!Sends(c) = a \o m \o b
  BY <1>1, <1>4 DEF Desk!Sends
<1>6. CASE c[2] = "down" /\ c[1] \notin kbd.held /\ Desk!Wrapped(c[1])
  <2>1. /\ b = << >>
        /\ a = Desk!Prefixed(<<FakeShift, IF Desk!ShiftHeld THEN "up" ELSE "down">>)
    BY <1>4, <1>6 DEF Desk!Before, Desk!After, Desk!Fake
  <2>2. a \in Seq(Desk!Codes)
    <3>1. PICK f \in Desk!Keystrokes : f = <<FakeShift, IF Desk!ShiftHeld THEN "up" ELSE "down">>
      BY DeskFacts
    <3>2. Framed(f, a)
      BY <2>1, <3>1 DEF Framed
    <3> QED BY <3>1, <3>2, FramedCodes
  <2>3. a \o m \in Seq(Desk!Codes)
    BY <1>2, <2>2, ConcatProperties
  <2>4. (a \o m) \o b = a \o m
    BY <2>1, <2>3, ConcatEmptySeq
  <2> QED BY <1>1, <1>5, <1>6, <2>1, <2>4
<1>7. CASE c[2] = "up" /\ Desk!Wrapped(c[1])
  <2>1. /\ a = << >>
        /\ b = Desk!Prefixed(<<FakeShift, IF Desk!ShiftHeld THEN "down" ELSE "up">>)
    BY <1>4, <1>7 DEF Desk!Before, Desk!After, Desk!Fake
  <2> QED BY <1>1, <1>3, <1>5, <1>7, <2>1
<1>8. CASE ~(c[2] = "down" /\ c[1] \notin kbd.held /\ Desk!Wrapped(c[1])) /\ ~(c[2] = "up" /\ Desk!Wrapped(c[1]))
  <2>1. a = << >> /\ b = << >>
    BY <1>4, <1>8 DEF Desk!Before, Desk!After
  <2> QED BY <1>1, <1>3, <1>5, <1>8, <2>1
<1> QED BY <1>6, <1>7, <1>8

\* A key is held, or held no more, and the codes sent tell it.
LEMMA DeskHolding ==
  ASSUME DeskTypes, KeysHeld, NEW c \in Desk!Keystrokes, c[2] = "up" => c[1] \in kbd.held,
         kbd'.held = (IF c[2] = "down" THEN kbd.held \cup {c[1]} ELSE kbd.held \ {c[1]}),
         kbd'.sent = kbd.sent \o Desk!Sends(c), kbd'.locked = kbd.locked
  PROVE  KeysHeld' /\ Desk!Sends(c) \in Seq(Desk!Codes)
<1>1. /\ kbd.sent \in Seq(Desk!Codes) /\ kbd.locked \cap Shifts = {} /\ FakeShift \in Shifts
      /\ FakeShift \notin Alts /\ FakeShift \notin Ctrls /\ kbd.locked \subseteq Grey /\ Grey \cap Shifts = {}
      /\ c[2] \in {"down", "up"}
  BY EventsAssumption, DeskFacts DEF DeskTypes
<1>2. PICK w \in {"down", "up"}, f \in Desk!Keystrokes :
        f = <<FakeShift, w>> /\ f[1] = FakeShift /\ f[2] = w
        /\ w = IF (c[2] = "down") <=> Desk!ShiftHeld THEN "up" ELSE "down"
  BY DeskFacts
<1>3. PICK fake, plain : fake = Desk!Prefixed(f) /\ plain = Desk!Prefixed(c)
  OBVIOUS
<1>4. /\ Framed(f, fake) /\ Framed(c, plain) /\ Framed(c, <<c>>)
      /\ <<c>> \in Seq(Desk!Codes) /\ fake \in Seq(Desk!Codes) /\ plain \in Seq(Desk!Codes)
  <2>1. Framed(f, fake) /\ Framed(c, plain) /\ Framed(c, <<c>>)
    BY <1>3 DEF Framed
  <2> QED BY <2>1, FramedCodes
<1>5. \/ /\ Desk!Sends(c) \in {<<c>>, plain} /\ (c[2] = "up" => ~Desk!Wrapped(c[1]))
      \/ c[2] = "down" /\ Desk!Wrapped(c[1]) /\ Desk!Sends(c) = fake \o plain
      \/ c[2] = "up" /\ Desk!Wrapped(c[1]) /\ Desk!Sends(c) = plain \o fake
  BY <1>1, <1>2, <1>3, DeskSends
<1>6. Desk!Sends(c) \in Seq(Desk!Codes)
  <2>1. fake \o plain \in Seq(Desk!Codes) /\ plain \o fake \in Seq(Desk!Codes)
    BY <1>4, ConcatProperties
  <2> QED BY <1>4, <1>5, <2>1
<1>8. Desk!ShiftHeld <=> kbd.held \cap Shifts # {}
  BY DEF Desk!ShiftHeld
<1>7. /\ Desk!Wrapped(c[1]) => c[1] \in Grey
      /\ Desk!Wrapped(c[1]) /\ ~Desk!ShiftHeld => c[1] \in kbd.locked
  BY <1>8 DEF Desk!Wrapped, Desk!ShiftHeld
<1>9. CASE Desk!Sends(c) \in {<<c>>, plain} /\ (c[2] = "up" => ~Desk!Wrapped(c[1]))
  <2>0. PICK m : kbd'.sent = kbd.sent \o m /\ Framed(c, m)
    BY <1>4, <1>9
  <2>1. \A group \in {Shifts, Alts, Ctrls} : Ends(group, kbd.sent, c, kbd'.sent)
    BY <1>1, <2>0, LastPrefixed
  <2>2. ~PrefixLast(kbd'.sent)
    BY <2>1, DeskFacts DEF Ends
  <2>3. ASSUME NEW group \in {Alts, Ctrls}, LastDown(group, kbd'.sent) PROVE kbd'.held \cap group # {}
    BY <1>1, <2>1, <2>3 DEF KeysHeld, Ends
  <2>4. ASSUME LastDown(Shifts, kbd'.sent) PROVE kbd'.held \cap (Shifts \cup kbd.locked) # {}
    <3>1. CASE c[1] \in Shifts
      BY <2>1, <2>4, <3>1 DEF Ends
    <3>2. CASE c[1] \notin Shifts
      <4>1. PICK k \in kbd.held : k \in Shifts \cup kbd.locked
        BY <2>1, <2>4, <3>2 DEF KeysHeld, Ends
      <4>2. CASE k # c[1] \/ c[2] = "down"
        BY <4>1, <4>2
      <4>3. CASE k = c[1] /\ c[2] = "up"
        <5>1. c[1] \in kbd.locked /\ ~Desk!Wrapped(c[1])
          BY <1>9, <3>2, <4>1, <4>3
        <5>2. Desk!ShiftHeld
          BY <1>1, <5>1 DEF Desk!Wrapped
        <5> QED BY <1>8, <3>2, <5>2
      <4> QED BY <1>1, <4>2, <4>3
    <3> QED BY <3>1, <3>2
  <2> QED BY <1>6, <2>2, <2>3, <2>4 DEF KeysHeld
<1>10. CASE c[2] = "down" /\ Desk!Wrapped(c[1]) /\ Desk!Sends(c) = fake \o plain
  <2>1. PICK half : half = kbd.sent \o fake /\ half \in Seq(Desk!Codes)
    BY <1>1, <1>4, ConcatProperties
  <2>2. kbd'.sent = half \o plain
    <3>1. kbd.sent \o (fake \o plain) = (kbd.sent \o fake) \o plain
      <4>1. PICK a, b, d : a = kbd.sent /\ b = fake /\ d = plain
        OBVIOUS
      <4>2. a \in Seq(Desk!Codes) /\ b \in Seq(Desk!Codes) /\ d \in Seq(Desk!Codes)
        BY <1>1, <1>4, <4>1
      <4>3. (a \o b) \o d = a \o (b \o d)
        BY ONLY <4>2, Associative
      <4> QED BY <4>1, <4>3
    <3> QED BY <1>10, <2>1, <3>1
  <2>3. \A group \in {Shifts, Alts, Ctrls} :
          Ends(group, kbd.sent, f, half)
    BY <1>1, <1>2, <1>4, <2>1, LastPrefixed
  <2>4. \A group \in {Shifts, Alts, Ctrls} :
          Ends(group, half, c, kbd'.sent)
    BY ONLY <1>2, <1>4, <2>1, <2>2, c \in Desk!Keystrokes, LastPrefixed
  <2>5. ~PrefixLast(kbd'.sent)
    BY <1>2, <2>4, DeskFacts DEF Ends
  <2>6. ASSUME NEW group \in {Alts, Ctrls}, LastDown(group, kbd'.sent) PROVE kbd'.held \cap group # {}
    BY <1>1, <1>2, <1>10, <2>3, <2>4, <2>6 DEF KeysHeld, Ends
  <2>7. ASSUME LastDown(Shifts, kbd'.sent) PROVE kbd'.held \cap (Shifts \cup kbd.locked) # {}
    BY <1>1, <1>2, <1>7, <1>10, <2>3, <2>4, <2>7 DEF Ends
  <2> QED BY <1>6, <2>5, <2>6, <2>7 DEF KeysHeld
<1>11. CASE c[2] = "up" /\ Desk!Wrapped(c[1]) /\ Desk!Sends(c) = plain \o fake
  <2>1. PICK half : half = kbd.sent \o plain /\ half \in Seq(Desk!Codes)
    BY <1>1, <1>4, ConcatProperties
  <2>2. kbd'.sent = half \o fake
    <3>1. kbd.sent \o (plain \o fake) = (kbd.sent \o plain) \o fake
      <4>1. PICK a, b, d : a = kbd.sent /\ b = plain /\ d = fake
        OBVIOUS
      <4>2. a \in Seq(Desk!Codes) /\ b \in Seq(Desk!Codes) /\ d \in Seq(Desk!Codes)
        BY <1>1, <1>4, <4>1
      <4>3. (a \o b) \o d = a \o (b \o d)
        BY ONLY <4>2, Associative
      <4> QED BY <4>1, <4>3
    <3> QED BY <1>11, <2>1, <3>1
  <2>3. \A group \in {Shifts, Alts, Ctrls} :
          Ends(group, kbd.sent, c, half)
    BY <1>1, <1>2, <1>4, <2>1, LastPrefixed
  <2>4. \A group \in {Shifts, Alts, Ctrls} :
          Ends(group, half, f, kbd'.sent)
    BY ONLY <1>2, <1>4, <2>1, <2>2, c \in Desk!Keystrokes, LastPrefixed
  <2>5. ~PrefixLast(kbd'.sent)
    BY <1>2, <2>4, DeskFacts DEF Ends
  <2>6. ASSUME NEW group \in {Alts, Ctrls}, LastDown(group, kbd'.sent) PROVE kbd'.held \cap group # {}
    BY <1>1, <1>2, <1>11, <2>3, <2>4, <2>6 DEF KeysHeld, Ends
  <2>7. ASSUME LastDown(Shifts, kbd'.sent) PROVE kbd'.held \cap (Shifts \cup kbd.locked) # {}
    <3>1. Desk!ShiftHeld
      BY <1>2, <1>1, <1>11, <2>4, <2>7 DEF Ends
    <3> QED BY <1>1, <1>7, <1>8, <1>11, <3>1
  <2> QED BY <1>6, <2>5, <2>6, <2>7 DEF KeysHeld
<1> QED BY <1>5, <1>9, <1>10, <1>11

\* A key goes down, again, or up.
LEMMA DeskTyped ==
  ASSUME DeskInv, NEW c \in Desk!Keystrokes, Desk!Type(c) PROVE DeskInv'
<1>1. /\ DeskTypes /\ Flags /\ KeysHeld
      /\ UNCHANGED <<dev, controller, irq, mode, mouse, heard, crossed>>
      /\ c[2] = "up" => c[1] \in kbd.held
  BY DEF DeskInv, Desk!Type
<1>2. PICK held2, m, typed2 :
        /\ held2 = (IF c[2] = "down" THEN kbd.held \cup {c[1]} ELSE kbd.held \ {c[1]})
        /\ m = Desk!Sends(c) /\ typed2 = kbd.typed + 1
  OBVIOUS
<1>3. /\ kbd = [held |-> kbd.held, queue |-> kbd.queue, sent |-> kbd.sent, typed |-> kbd.typed,
                locked |-> kbd.locked]
      /\ kbd.held \in SUBSET Keys /\ kbd.queue \in Seq(Desk!Codes) /\ kbd.sent \in Seq(Desk!Codes)
      /\ kbd.typed \in Nat /\ kbd.locked \in SUBSET Grey
  BY <1>1 DEF DeskTypes
<1>4. PICK queue2, sent2 : queue2 = kbd.queue \o m /\ sent2 = kbd.sent \o m
  OBVIOUS
<1>5. kbd' = [kbd EXCEPT !.held = held2, !.queue = queue2, !.sent = sent2, !.typed = typed2]
  BY <1>2, <1>4 DEF Desk!Type
<1>6. /\ kbd' = [held |-> held2, queue |-> queue2, sent |-> sent2, typed |-> typed2, locked |-> kbd.locked]
      /\ kbd'.held = held2 /\ kbd'.queue = queue2 /\ kbd'.sent = sent2 /\ kbd'.locked = kbd.locked
  BY <1>3, <1>5
<1>7. KeysHeld' /\ m \in Seq(Desk!Codes)
  BY <1>1, <1>2, <1>4, <1>6, DeskHolding
<1>8. /\ held2 \in SUBSET Keys /\ queue2 \in Seq(Desk!Codes) /\ sent2 \in Seq(Desk!Codes)
      /\ typed2 \in Nat
  <2>1. held2 \in SUBSET Keys /\ typed2 \in Nat
    BY <1>2, <1>3, DeskFacts
  <2> QED BY <1>3, <1>4, <1>7, <2>1, ConcatProperties
<1>9. DeskTypes'
  <2>1. kbd' \in [held : SUBSET Keys, queue : Seq(Desk!Codes), sent : Seq(Desk!Codes),
                  typed : Nat, locked : SUBSET Grey]
    BY <1>3, <1>6, <1>8
  <2> QED BY <1>1, <2>1 DEF DeskTypes
<1>10. Flags'
  BY <1>1 DEF Flags
<1>11. ASSUME ~crossed
       PROVE  heard'.codes \o Desk!InTransit' = kbd'.sent /\ Chained' /\ Cut'
  <2>1. heard.codes \in Seq(Desk!Codes) /\ Desk!InTransit \in Seq(Desk!Codes)
        /\ heard.codes \o Desk!InTransit = kbd.sent /\ CodeHeld \in Seq(Desk!Codes)
    BY <1>1, <1>11, DeskRest, DeskHolds DEF DeskInv, DeskTypes
  <2>2. Desk!InTransit' = CodeHeld \o queue2 /\ Desk!InTransit = CodeHeld \o kbd.queue
    BY <1>1, <1>6, DeskFacts DEF Desk!InTransit, CodeHeld
  <2>3. CodeHeld \o queue2 = Desk!InTransit \o m
    <3>1. PICK a, b, d \in Seq(Desk!Codes) : a = CodeHeld /\ b = kbd.queue /\ d = m
      BY <1>3, <1>7, <2>1
    <3>2. (a \o b) \o d = a \o (b \o d)
      BY Associative
    <3> QED BY <1>4, <2>2, <3>1, <3>2
  <2>4. heard.codes \o (Desk!InTransit \o m) = kbd.sent \o m
    <3>1. PICK a, b, d \in Seq(Desk!Codes) : a = heard.codes /\ b = Desk!InTransit /\ d = m
      BY <1>7, <2>1
    <3>2. (a \o b) \o d = a \o (b \o d)
      BY Associative
    <3> QED BY <2>1, <3>1, <3>2
  <2>5. heard'.codes \o Desk!InTransit' = kbd'.sent
    BY <1>1, <1>4, <1>6, <2>2, <2>3, <2>4
  <2>6. MouseRest' = MouseRest
    BY <1>1 DEF MouseRest
  <2> QED BY <1>1, <1>11, <2>5, <2>6, MouseKept DEF DeskInv
<1> QED BY <1>1, <1>7, <1>9, <1>10, <1>11 DEF DeskInv

\* A place behind the first k is a place of the second part.
LEMMA Splits ==
  ASSUME NEW k \in Nat, NEW s \in Nat, NEW i \in 1 .. k + s - 1, i > k
  PROVE  \E j \in 1 .. s : i = k + j /\ j < s /\ i + 1 = k + (j + 1) /\ j + 1 \in 1 .. s
<1>1. PICK j \in Nat : j = i - k
  OBVIOUS
<1>2. j >= 1 /\ j < s /\ i = k + j
  BY <1>1
<1> QED BY <1>2

\* The places of two sequences in the one they make.
LEMMA CatParts ==
  ASSUME NEW S, NEW a, NEW b, a \in Seq(S), b \in Seq(S), NEW k \in Nat, NEW s \in Nat,
         k = Len(a), s = Len(b)
  PROVE  /\ a \o b \in Seq(S) /\ Len(a \o b) = k + s
         /\ \A i \in 1 .. k : (a \o b)[i] = a[i]
         /\ \A i \in 1 .. s : (a \o b)[k + i] = b[i]
<1>1. /\ a \o b \in Seq(S) /\ Len(a \o b) = k + s
      /\ \A i \in 1 .. k + s : (a \o b)[i] = IF i <= k THEN a[i] ELSE b[i - k]
  BY ConcatProperties
<1>2. \A i \in 1 .. k : i \in 1 .. k + s /\ i <= k
  OBVIOUS
<1>3. \A i \in 1 .. s : k + i \in 1 .. k + s /\ ~(k + i <= k) /\ (k + i) - k = i
  OBVIOUS
<1> QED BY <1>1, <1>2, <1>3

\* A byte put before the others.
LEMMA PutFirst ==
  ASSUME NEW S, NEW b \in S, NEW q \in Seq(S), NEW k \in Nat, k = Len(q)
  PROVE  /\ <<b>> \o q \in Seq(S) /\ Len(<<b>> \o q) = k + 1 /\ (<<b>> \o q)[1] = b
         /\ \A i \in 1 .. k : (<<b>> \o q)[i + 1] = q[i]
<1>1. PICK one : one = <<b>>
  OBVIOUS
<1>2. one \in Seq(S) /\ Len(one) = 1 /\ one[1] = b
  BY <1>1
<1>3. /\ one \o q \in Seq(S) /\ Len(one \o q) = 1 + k
      /\ \A i \in 1 .. 1 : (one \o q)[i] = one[i]
      /\ \A i \in 1 .. k : (one \o q)[1 + i] = q[i]
  <2>1. PICK j \in Nat : j = 1
    OBVIOUS
  <2>2. one \in Seq(S) /\ j = Len(one)
    BY <1>2, <2>1
  <2>3. /\ one \o q \in Seq(S) /\ Len(one \o q) = j + k
        /\ \A i \in 1 .. j : (one \o q)[i] = one[i]
        /\ \A i \in 1 .. k : (one \o q)[j + i] = q[i]
    BY <2>2, CatParts
  <2> QED BY <2>1, <2>3
<1>4. 1 + k = k + 1 /\ 1 \in 1 .. 1
      /\ \A i \in 1 .. k : 1 + i = i + 1
  OBVIOUS
<1> QED BY <1>1, <1>2, <1>3, <1>4

\* The bytes of the packet after the last.
Packet(new, last) ==
    /\ Len(new) = mouse.size
    /\ \A i \in 1 .. Len(new) : new[i].of = last + 1 /\ new[i].at = i /\ (i = 1 => new[i].bit3)

\* A packet more at the end of a chain.
LEMMA ChainGrows ==
  ASSUME NEW rest \in Seq(MouseBytes), NEW new \in Seq(MouseBytes), NEW n \in Nat, NEW g \in Nat,
         NEW last \in Nat, Chain(rest, n, g, last), mouse.size \in Nat, mouse.size >= 1,
         Packet(new, last)
  PROVE  Chain(rest \o new, n, g, last + 1)
<1>1. PICK k, s \in Nat : k = Len(rest) /\ s = mouse.size /\ s = Len(new) /\ s >= 1
  BY DEF Packet
<1>2. PICK all \in Seq(MouseBytes) :
        /\ all = rest \o new /\ Len(all) = k + s
        /\ \A i \in 1 .. k : all[i] = rest[i]
        /\ \A i \in 1 .. s : all[k + i] = new[i]
  <2>1. /\ rest \o new \in Seq(MouseBytes) /\ Len(rest \o new) = k + s
        /\ \A i \in 1 .. k : (rest \o new)[i] = rest[i]
        /\ \A i \in 1 .. s : (rest \o new)[k + i] = new[i]
    <3>1. rest \in Seq(MouseBytes) /\ new \in Seq(MouseBytes) /\ k = Len(rest) /\ s = Len(new)
      BY <1>1
    <3> QED BY ONLY <3>1, CatParts
  <2> QED BY <2>1
<1>3. \A i \in 1 .. s : all[k + i].of = last + 1 /\ all[k + i].at = i /\ (i = 1 => all[k + i].bit3)
  <2>1. \A i \in 1 .. s : new[i].of = last + 1 /\ new[i].at = i /\ (i = 1 => new[i].bit3)
    <3> SUFFICES ASSUME NEW i \in 1 .. s
                 PROVE  new[i].of = last + 1 /\ new[i].at = i /\ (i = 1 => new[i].bit3)
      OBVIOUS
    <3>1. i \in 1 .. Len(new)
      BY <1>1
    <3> QED BY <3>1 DEF Packet
  <2> SUFFICES ASSUME NEW i \in 1 .. s
               PROVE  all[k + i].of = last + 1 /\ all[k + i].at = i /\ (i = 1 => all[k + i].bit3)
    OBVIOUS
  <2>2. all[k + i] = new[i]
    BY <1>2
  <2> QED BY <2>1, <2>2
<1>4. \A i \in 1 .. k + s : i \in 1 .. k \/ \E j \in 1 .. s : i = k + j
  <2> SUFFICES ASSUME NEW i \in 1 .. k + s, i \notin 1 .. k PROVE \E j \in 1 .. s : i = k + j
    OBVIOUS
  <2>1. i - k \in 1 .. s /\ i = k + (i - k)
    BY <1>1
  <2> QED BY <2>1
<1>5. all # << >> /\ Len(all) - 1 = k + s - 1 /\ s \in 1 .. s /\ 1 \in 1 .. s
  BY <1>1, <1>2
<1>6. all[Len(all)].of = last + 1 /\ all[Len(all)].at = s
  <2>1. Len(all) = k + s /\ s \in 1 .. s
    BY <1>2, <1>5
  <2>2. all[k + s].of = last + 1 /\ all[k + s].at = s
    BY <1>3, <2>1
  <2> QED BY <2>1, <2>2
<1>7. \A i \in 1 .. k + s : all[i].at = 1 => all[i].bit3
  <2> SUFFICES ASSUME NEW i \in 1 .. k + s, all[i].at = 1 PROVE all[i].bit3
    OBVIOUS
  <2>1. CASE i \in 1 .. k
    BY <1>1, <1>2, <2>1 DEF Chain
  <2>2. CASE \E j \in 1 .. s : i = k + j
    <3>1. PICK j \in 1 .. s : i = k + j
      BY <2>2
    <3>2. all[k + j].at = j /\ (j = 1 => all[k + j].bit3)
      BY <1>3
    <3> QED BY <3>1, <3>2
  <2> QED BY <1>4, <2>1, <2>2
<1>8. CASE k = 0
  <2>1. rest = << >> /\ n = last /\ g = 0
    <3>1. rest = << >>
      BY <1>1, <1>8, EmptySeq
    <3> QED BY <3>1 DEF Chain
  <2>2. \A i \in 1 .. s : all[i].of = last + 1 /\ all[i].at = i
    <3> SUFFICES ASSUME NEW i \in 1 .. s PROVE all[i].of = last + 1 /\ all[i].at = i
      OBVIOUS
    <3>1. k + i = i
      BY <1>8
    <3>2. all[k + i].of = last + 1 /\ all[k + i].at = i
      BY <1>3
    <3> QED BY <3>1, <3>2
  <2>3. all[1].of = n + 1 /\ all[1].at = g + 1
    BY <1>5, <2>1, <2>2
  <2>4. \A i \in 1 .. k + s - 1 : Follows(all[i], all[i + 1])
    <3> SUFFICES ASSUME NEW i \in 1 .. s - 1 PROVE Follows(all[i], all[i + 1])
      BY <1>1, <1>8
    <3>1. i \in 1 .. s /\ i + 1 \in 1 .. s /\ i < s
      BY <1>1
    <3> QED BY <1>1, <2>2, <3>1 DEF Follows
  <2> QED BY <1>1, <1>2, <1>5, <1>6, <1>7, <2>3, <2>4 DEF Chain
<1>9. CASE k # 0
  <2>1. rest # << >> /\ 1 \in 1 .. k /\ k \in 1 .. k
    BY <1>1, <1>9
  <2>2. all[1].of = n + 1 /\ all[1].at = g + 1
    BY <1>1, <1>2, <2>1 DEF Chain
  <2>3. \A i \in 1 .. k + s - 1 : Follows(all[i], all[i + 1])
    <3> SUFFICES ASSUME NEW i \in 1 .. k + s - 1 PROVE Follows(all[i], all[i + 1])
      OBVIOUS
    <3>1. CASE i < k
      <4>1. i \in 1 .. k - 1 /\ i \in 1 .. k /\ i + 1 \in 1 .. k
        BY <1>1, <3>1
      <4>2. Follows(rest[i], rest[i + 1])
        BY <1>1, <4>1 DEF Chain
      <4> QED BY <1>2, <4>1, <4>2
    <3>2. CASE i = k
      <4>1. all[k].of = last /\ all[k].at = s
        BY <1>1, <1>2, <2>1 DEF Chain
      <4>2. all[k + 1].of = last + 1 /\ all[k + 1].at = 1
        BY <1>3, <1>5
      <4> QED BY <1>1, <3>2, <4>1, <4>2 DEF Follows
    <3>3. CASE i > k
      <4>1. PICK j \in 1 .. s : i = k + j /\ j < s /\ i + 1 = k + (j + 1) /\ j + 1 \in 1 .. s
        <5>1. k \in Nat /\ s \in Nat /\ i \in 1 .. k + s - 1 /\ i > k
          BY <3>3
        <5> QED BY ONLY <5>1, Splits
      <4>2. /\ all[i].of = last + 1 /\ all[i].at = j
            /\ all[i + 1].of = last + 1 /\ all[i + 1].at = j + 1
        BY <1>3, <4>1
      <4> QED BY <1>1, <4>1, <4>2 DEF Follows
    <3> QED BY <1>1, <3>1, <3>2, <3>3
  <2> QED BY <1>1, <1>2, <1>5, <1>6, <1>7, <2>2, <2>3 DEF Chain
<1> QED BY <1>8, <1>9

\* The first byte of a chain, and what is behind it.
LEMMA ChainHead ==
  ASSUME NEW b \in MouseBytes, NEW q \in Seq(MouseBytes), NEW n \in Nat, NEW g \in Nat,
         NEW last \in Nat, Chain(<<b>> \o q, n, g, last), mouse.size \in Nat, g < mouse.size
  PROVE  /\ b.of = n + 1 /\ b.at = g + 1 /\ (b.at = 1 => b.bit3)
         /\ g + 1 < mouse.size => Chain(q, n, g + 1, last)
         /\ ~(g + 1 < mouse.size) => Chain(q, n + 1, 0, last)
<1>1. PICK k, s \in Nat : k = Len(q) /\ s = mouse.size
  OBVIOUS
<1>2. PICK all \in Seq(MouseBytes) :
        /\ all = <<b>> \o q /\ Len(all) = k + 1 /\ all[1] = b
        /\ \A i \in 1 .. k : all[i + 1] = q[i]
  <2>1. /\ <<b>> \o q \in Seq(MouseBytes) /\ Len(<<b>> \o q) = k + 1 /\ (<<b>> \o q)[1] = b
        /\ \A i \in 1 .. k : (<<b>> \o q)[i + 1] = q[i]
    BY <1>1, PutFirst
  <2> QED BY <2>1
<1>3. all # << >> /\ 1 \in 1 .. k + 1
  BY <1>1, <1>2
<1>4. b.of = n + 1 /\ b.at = g + 1 /\ (b.at = 1 => b.bit3)
  BY <1>1, <1>2, <1>3 DEF Chain
<1>5. \A i \in 1 .. k : q[i].at = 1 => q[i].bit3
  <2>1. \A i \in 1 .. k : i + 1 \in 1 .. k + 1
    BY <1>1
  <2> QED BY <1>1, <1>2, <2>1 DEF Chain
<1>6. \A i \in 1 .. k - 1 : Follows(q[i], q[i + 1])
  <2> SUFFICES ASSUME NEW i \in 1 .. k - 1 PROVE Follows(q[i], q[i + 1])
    OBVIOUS
  <2>1. i \in 1 .. k /\ i + 1 \in 1 .. k /\ i + 1 \in 1 .. (k + 1) - 1
    BY <1>1
  <2>2. Follows(all[i + 1], all[(i + 1) + 1])
    BY <1>2, <2>1 DEF Chain
  <2> QED BY <1>2, <2>1, <2>2
<1>7. all[k + 1].of = last /\ all[k + 1].at = s
  BY <1>1, <1>2, <1>3 DEF Chain
<1>8. CASE k = 0
  <2>1. b.of = last /\ b.at = s /\ q = << >>
    BY <1>1, <1>2, <1>7, <1>8
  <2>2. ~(g + 1 < s) /\ n + 1 = last
    BY <1>4, <2>1
  <2>3. Chain(q, n + 1, 0, last)
    BY <1>1, <1>8, <2>1, <2>2 DEF Chain
  <2> QED BY <1>1, <1>4, <2>2, <2>3
<1>9. CASE k # 0
  <2>1. q # << >> /\ 1 \in 1 .. k /\ k \in 1 .. k
    BY <1>1, <1>9
  <2>2. q[k].of = last /\ q[k].at = s
    BY <1>2, <1>7, <2>1
  <2>3. Follows(b, q[1])
    <3>1. 1 \in 1 .. (k + 1) - 1
      BY <1>1, <1>9
    <3>2. Follows(all[1], all[1 + 1])
      BY <1>2, <3>1 DEF Chain
    <3> QED BY <1>2, <2>1, <3>2
  <2>4. CASE g + 1 < s
    <3>1. q[1].of = n + 1 /\ q[1].at = (g + 1) + 1
      BY <1>1, <1>4, <2>3, <2>4 DEF Follows
    <3>2. Chain(q, n, g + 1, last)
      BY <1>1, <1>5, <1>6, <2>1, <2>2, <3>1 DEF Chain
    <3> QED BY <1>1, <1>4, <2>4, <3>2
  <2>5. CASE ~(g + 1 < s)
    <3>1. q[1].of = (n + 1) + 1 /\ q[1].at = 0 + 1
      BY <1>1, <1>4, <2>3, <2>5 DEF Follows
    <3>2. Chain(q, n + 1, 0, last)
      BY <1>1, <1>5, <1>6, <2>1, <2>2, <3>1 DEF Chain
    <3> QED BY <1>1, <1>4, <2>5, <3>2
  <2> QED BY <2>4, <2>5
<1> QED BY <1>8, <1>9

\* The mouse has one more packet to send.
LEMMA DeskReported ==
  ASSUME DeskInv, NEW m \in Motions, NEW bits \in BOOLEAN, Desk!Report(m, bits) PROVE DeskInv'
<1>1. /\ DeskTypes /\ Flags /\ KeysHeld
      /\ UNCHANGED <<kbd, controller, irq, mode, mouse, heard, crossed>>
  BY DEF DeskInv, Desk!Report
<1>2. PICK n, s \in Nat : n = Len(dev.sent) /\ s = mouse.size /\ s >= 1
  <2>1. Len(dev.sent) \in Nat /\ mouse.size \in Lengths
    BY <1>1 DEF DeskTypes
  <2> QED BY <2>1, DeskFacts
<1>3. PICK new \in Seq(MouseBytes) :
        new = [i \in 1 .. mouse.size |-> Desk!MouseByte(n + 1, i, i = 1 \/ bits)] /\ Packet(new, n)
  <2>1. PICK new : new = [i \in 1 .. mouse.size |-> Desk!MouseByte(n + 1, i, i = 1 \/ bits)]
    OBVIOUS
  <2>2. \A i \in 1 .. s : Desk!MouseByte(n + 1, i, i = 1 \/ bits) \in MouseBytes
    <3> SUFFICES ASSUME NEW i \in 1 .. s PROVE Desk!MouseByte(n + 1, i, i = 1 \/ bits) \in MouseBytes
      OBVIOUS
    <3> DEFINE eight == i = 1 \/ bits
    <3>1. eight \in BOOLEAN /\ n + 1 \in Nat /\ i \in Nat
      OBVIOUS
    <3> HIDE DEF eight
    <3>2. Desk!MouseByte(n + 1, i, eight) \in MouseBytes
      BY <3>1 DEF Desk!MouseByte, MouseBytes
    <3> QED BY <3>2 DEF eight
  <2>3. new \in [1 .. s -> MouseBytes]
    BY <1>2, <2>1, <2>2
  <2>4. new \in Seq(MouseBytes) /\ Len(new) = s
    BY <2>3, IsSequence
  <2>5. \A i \in 1 .. s : new[i].of = n + 1 /\ new[i].at = i /\ (i = 1 => new[i].bit3)
    BY <1>2, <2>1 DEF Desk!MouseByte
  <2>6. Packet(new, n)
    BY <1>2, <2>4, <2>5 DEF Packet
  <2> QED BY <2>1, <2>4, <2>6
<1>4. PICK queue2, sent2 : queue2 = dev.queue \o new /\ sent2 = Append(dev.sent, m)
  OBVIOUS
<1>5. /\ dev.on \in BOOLEAN /\ dev.queue \in Seq(MouseBytes) /\ dev.sent \in Seq(Motions)
      /\ dev = [on |-> dev.on, queue |-> dev.queue, sent |-> dev.sent]
  BY <1>1 DEF DeskTypes
<1>6. /\ dev' = [on |-> dev.on, queue |-> queue2, sent |-> sent2]
      /\ dev'.on = dev.on /\ dev'.queue = queue2 /\ dev'.sent = sent2
  <2>1. dev' = [dev EXCEPT !.sent = sent2, !.queue = queue2]
    BY <1>2, <1>3, <1>4 DEF Desk!Report
  <2> QED BY <1>5, <2>1
<1>7. queue2 \in Seq(MouseBytes) /\ sent2 \in Seq(Motions) /\ Len(sent2) = n + 1
  <2>1. dev.queue \o new \in Seq(MouseBytes)
    BY <1>5, ConcatProperties
  <2>2. Append(dev.sent, m) \in Seq(Motions) /\ Len(Append(dev.sent, m)) = Len(dev.sent) + 1
    BY <1>5
  <2> QED BY <1>2, <1>4, <2>1, <2>2
<1>8. DeskTypes'
  BY <1>1, <1>5, <1>6, <1>7 DEF DeskTypes
<1>9. Flags' /\ KeysHeld'
  BY <1>1 DEF Flags, KeysHeld
<1>10. ASSUME ~crossed
       PROVE  Desk!InTransit' = Desk!InTransit /\ Chained' /\ Cut'
  <2>1. PICK rest \in Seq(MouseBytes), a, b \in Seq(MouseBytes) :
          /\ rest = MouseRest /\ rest = a \o b /\ b = dev.queue
          /\ a = IF controller # << >> /\ controller[1].aux THEN controller ELSE << >>
    <3>1. MouseRest \in Seq(MouseBytes)
      BY <1>1, DeskRest
    <3>2. (IF controller # << >> /\ controller[1].aux THEN controller ELSE << >>) \in Seq(MouseBytes)
      <4>1. CASE controller # << >> /\ controller[1].aux
        <5>1. PICK c \in KeyBytes \cup MouseBytes : controller = <<c>> /\ controller[1] = c
          BY <1>1, <4>1 DEF DeskTypes
        <5>2. c \in MouseBytes
          BY <4>1, <5>1 DEF KeyBytes
        <5> QED BY <4>1, <5>1, <5>2
      <4>2. CASE ~(controller # << >> /\ controller[1].aux)
        BY <4>2
      <4> QED BY <4>1, <4>2
    <3> QED BY <1>5, <3>1, <3>2 DEF MouseRest
  <2>2. MouseRest' = a \o queue2
    BY <1>1, <1>6, <2>1 DEF MouseRest
  <2>3. a \o queue2 = rest \o new
    <3>1. a \in Seq(MouseBytes) /\ b \in Seq(MouseBytes) /\ new \in Seq(MouseBytes)
      OBVIOUS
    <3>2. (a \o b) \o new = a \o (b \o new)
      BY <3>1, Associative
    <3> QED BY <1>4, <2>1, <3>2
  <2>4. Chained /\ Cut
    BY <1>10 DEF DeskInv
  <2>5. PICK h, g \in Nat : h = Len(heard.packets) /\ g = Len(mouse.packet)
    BY <1>1 DEF DeskTypes
  <2>6. Chain(rest, h, g, n)
    BY <1>2, <2>1, <2>4, <2>5 DEF Chained
  <2>7. Chain(rest \o new, h, g, n + 1)
    BY <1>2, <1>3, <2>1, <2>6, ChainGrows
  <2>8. Chain(MouseRest', h, g, n + 1)
    BY <2>2, <2>3, <2>7
  <2>9. Chain(MouseRest, Len(heard.packets), Len(mouse.packet), Len(dev.sent))'
    BY <1>1, <1>6, <1>7, <2>5, <2>8 DEF Chain, Follows
  <2>10. Chained' /\ Cut'
    BY <1>1, <2>4, <2>9 DEF Chained, Cut
  <2>11. Desk!InTransit' = Desk!InTransit
    BY <1>1 DEF Desk!InTransit
  <2> QED BY <2>10, <2>11
<1> QED BY <1>1, <1>8, <1>9, <1>10 DEF DeskInv

\* The head before the tail is the sequence.
LEMMA HeadFirst ==
  ASSUME NEW S, NEW q \in Seq(S), q # << >>
  PROVE  Head(q) \in S /\ Tail(q) \in Seq(S) /\ <<Head(q)>> \o Tail(q) = q
<1>1. PICK b, t : b = Head(q) /\ t = Tail(q)
  OBVIOUS
<1>2. PICK k \in Nat : k + 1 = Len(q)
  <2>1. Len(q) \in Nat \ {0}
    BY EmptySeq
  <2>2. Len(q) - 1 \in Nat /\ (Len(q) - 1) + 1 = Len(q)
    BY <2>1
  <2> QED BY <2>2
<1>3. b \in S /\ t \in Seq(S) /\ Len(t) = k /\ b = q[1] /\ \A i \in 1 .. k : t[i] = q[i + 1]
  <2>1. /\ Head(q) \in S /\ Tail(q) \in Seq(S) /\ Len(Tail(q)) = Len(q) - 1
        /\ \A i \in 1 .. Len(Tail(q)) : Tail(q)[i] = q[i + 1]
    BY HeadTailProperties
  <2>2. Head(q) = q[1] /\ (k + 1) - 1 = k
    BY <1>2
  <2> QED BY <1>1, <1>2, <2>1, <2>2
<1>4. PICK all \in Seq(S) : /\ all = <<b>> \o t /\ Len(all) = k + 1 /\ all[1] = b
                            /\ \A i \in 1 .. k : all[i + 1] = t[i]
  <2>1. /\ <<b>> \o t \in Seq(S) /\ Len(<<b>> \o t) = k + 1 /\ (<<b>> \o t)[1] = b
        /\ \A i \in 1 .. k : (<<b>> \o t)[i + 1] = t[i]
    BY <1>3, PutFirst
  <2> QED BY <2>1
<1>5. \A i \in 1 .. k + 1 : all[i] = q[i]
  <2> SUFFICES ASSUME NEW i \in 1 .. k + 1 PROVE all[i] = q[i]
    OBVIOUS
  <2>1. CASE i = 1
    BY <1>3, <1>4, <2>1
  <2>2. CASE i # 1
    <3>1. PICK j \in 1 .. k : j + 1 = i
      <4>1. i - 1 \in 1 .. k /\ (i - 1) + 1 = i
        BY <2>2
      <4> QED BY <4>1
    <3> QED BY <1>3, <1>4, <3>1
  <2> QED BY <2>1, <2>2
<1>6. all = q
  BY <1>2, <1>4, <1>5, SeqEqual
<1> QED BY <1>1, <1>3, <1>4, <1>6

\* The controller takes a code of the keyboard.
LEMMA DeskLoadedKey ==
  ASSUME DeskInv, Desk!LoadKey PROVE DeskInv'
<1>1. /\ DeskTypes /\ Flags /\ KeysHeld
      /\ controller = << >> /\ kbd.queue # << >>
      /\ UNCHANGED <<dev, mode, mouse, heard, crossed>>
  BY DEF DeskInv, Desk!LoadKey
<1>2. PICK c, q : c = Head(kbd.queue) /\ q = Tail(kbd.queue)
  OBVIOUS
<1>3. c \in Desk!Codes /\ q \in Seq(Desk!Codes) /\ <<c>> \o q = kbd.queue
  <2>1. kbd.queue \in Seq(Desk!Codes)
    BY <1>1 DEF DeskTypes
  <2> QED BY <1>1, <1>2, <2>1, HeadFirst
<1>4. PICK b : b = Desk!KeyByte(c)
  OBVIOUS
<1>5. b \in KeyBytes /\ ~b.aux /\ b.code = c
  BY <1>3, <1>4 DEF Desk!KeyByte, KeyBytes
<1>6. /\ kbd.held \in SUBSET Keys /\ kbd.sent \in Seq(Desk!Codes)
      /\ kbd.typed \in Nat /\ kbd.locked \in SUBSET Grey
      /\ kbd = [held |-> kbd.held, queue |-> kbd.queue, sent |-> kbd.sent, typed |-> kbd.typed,
                locked |-> kbd.locked]
  BY <1>1 DEF DeskTypes
<1>7. /\ kbd' = [held |-> kbd.held, queue |-> q, sent |-> kbd.sent, typed |-> kbd.typed, locked |-> kbd.locked]
      /\ kbd'.held = kbd.held /\ kbd'.queue = q /\ kbd'.sent = kbd.sent /\ kbd'.locked = kbd.locked
  <2>1. kbd' = [kbd EXCEPT !.queue = q]
    BY <1>2 DEF Desk!LoadKey
  <2> QED BY <1>6, <2>1
<1>8. controller' = <<b>> /\ controller' # << >> /\ controller'[1] = b
  BY <1>2, <1>4 DEF Desk!LoadKey
<1>9. DeskTypes'
  <2>1. kbd' \in [held : SUBSET Keys, queue : Seq(Desk!Codes), sent : Seq(Desk!Codes),
                  typed : Nat, locked : SUBSET Grey]
    BY <1>3, <1>6, <1>7
  <2>2. controller' \in {<<d>> : d \in KeyBytes \cup MouseBytes}
    BY <1>5, <1>8
  <2> QED BY <1>1, <2>1, <2>2 DEF DeskTypes
<1>10. Flags' /\ KeysHeld'
  BY <1>1, <1>7 DEF Flags, KeysHeld
<1>11. Desk!InTransit' = Desk!InTransit
  <2>1. Desk!InTransit = kbd.queue
    BY <1>1, DeskRest
  <2>2. Desk!InTransit' = <<c>> \o q
    BY <1>5, <1>7, <1>8 DEF Desk!InTransit
  <2> QED BY <1>3, <2>1, <2>2
<1>12. MouseRest' = MouseRest
  BY <1>1, <1>5, <1>8 DEF MouseRest
<1> QED BY <1>1, <1>5, <1>7, <1>8, <1>9, <1>10, <1>11, <1>12, MouseKept DEF DeskInv

\* The controller takes a byte of the mouse.
LEMMA DeskLoadedMouse ==
  ASSUME DeskInv, Desk!LoadMouse PROVE DeskInv'
<1>1. /\ DeskTypes /\ Flags /\ KeysHeld
      /\ controller = << >> /\ dev.queue # << >>
      /\ irq' = irq \cup {12}
      /\ UNCHANGED <<kbd, mode, mouse, heard, crossed>>
  BY DEF DeskInv, Desk!LoadMouse
<1>2. PICK b, q : b = Head(dev.queue) /\ q = Tail(dev.queue)
  OBVIOUS
<1>3. b \in MouseBytes /\ q \in Seq(MouseBytes) /\ <<b>> \o q = dev.queue
  <2>1. dev.queue \in Seq(MouseBytes)
    BY <1>1 DEF DeskTypes
  <2> QED BY <1>1, <1>2, <2>1, HeadFirst
<1>4. b.aux
  BY <1>3 DEF MouseBytes
<1>5. /\ dev.on \in BOOLEAN /\ dev.sent \in Seq(Motions)
      /\ dev = [on |-> dev.on, queue |-> dev.queue, sent |-> dev.sent]
  BY <1>1 DEF DeskTypes
<1>6. /\ dev' = [on |-> dev.on, queue |-> q, sent |-> dev.sent]
      /\ dev'.on = dev.on /\ dev'.queue = q /\ dev'.sent = dev.sent
  <2>1. dev' = [dev EXCEPT !.queue = q]
    BY <1>2 DEF Desk!LoadMouse
  <2> QED BY <1>5, <2>1
<1>7. controller' = <<b>> /\ controller' # << >> /\ controller'[1] = b
  BY <1>2 DEF Desk!LoadMouse
<1>8. DeskTypes'
  <2>1. dev' \in [on : BOOLEAN, queue : Seq(MouseBytes), sent : Seq(Motions)]
    BY <1>3, <1>5, <1>6
  <2>2. controller' \in {<<d>> : d \in KeyBytes \cup MouseBytes}
    BY <1>3, <1>7
  <2> QED BY <1>1, <2>1, <2>2 DEF DeskTypes
<1>9. Flags' /\ KeysHeld'
  BY <1>1 DEF Flags, KeysHeld
<1>10. Desk!InTransit' = Desk!InTransit
  BY <1>1, <1>4, <1>7 DEF Desk!InTransit
<1>11. MouseRest' = MouseRest
  <2>1. MouseRest = dev.queue
    BY <1>1, DeskRest
  <2>2. MouseRest' = <<b>> \o q
    BY <1>4, <1>6, <1>7 DEF MouseRest
  <2> QED BY <1>3, <2>1, <2>2
<1>12. ASSUME ~crossed PROVE 1 \notin irq'
  BY <1>1, <1>12 DEF DeskInv
<1> QED BY <1>1, <1>6, <1>8, <1>9, <1>10, <1>11, <1>12, MouseKept DEF DeskInv

\* An interrupt that is over, or a step of another part.
LEMMA DeskIdle ==
  ASSUME DeskInv, irq' \subseteq irq, UNCHANGED <<kbd, dev, controller, mode, mouse, heard, crossed>>
  PROVE  DeskInv'
<1>1. DeskTypes' /\ Flags' /\ KeysHeld'
  <2>1. DeskTypes'
    BY DEF DeskInv, DeskTypes
  <2>2. Flags'
    BY DEF DeskInv, Flags
  <2>3. KeysHeld'
    BY DEF DeskInv, KeysHeld
  <2> QED BY <2>1, <2>2, <2>3
<1>2. MouseRest' = MouseRest /\ Desk!InTransit' = Desk!InTransit
  BY DEF MouseRest, Desk!InTransit
<1> QED BY <1>1, <1>2, MouseKept DEF DeskInv

\* What idt_handle_irq makes of the flags.
LEMMA DeskDecodes ==
  ASSUME DeskTypes, NEW c \in Desk!Codes, Desk!Decode(c)
  PROVE  /\ mode' \in Modes
         /\ mode'.shift => (c[1] \in Shifts /\ c[2] = "down") \/ (c[1] \notin Shifts /\ mode.shift)
         /\ mode'.alt => (c[1] \in Alts /\ c[2] = "down") \/ (c[1] \notin Alts /\ mode.alt)
         /\ mode'.ctrl => (c[1] \in Ctrls /\ c[2] = "down") \/ (c[1] \notin Ctrls /\ mode.ctrl)
         /\ mode'.extended => c = Desk!Prefix
<1> DEFINE down == c[2] = "down"
           shift2 == IF down THEN mode.shift \/ c[1] \in Shifts ELSE mode.shift /\ ~Desk!ShiftClears(c)
           alt2 == IF down THEN mode.alt \/ c[1] \in Alts ELSE mode.alt /\ c[1] \notin Alts
           ctrl2 == IF down THEN mode.ctrl \/ c[1] \in Ctrls ELSE mode.ctrl /\ c[1] \notin Ctrls
           layout2 == IF down /\ ((c[1] \in Shifts /\ mode.alt) \/ (c[1] \in Alts /\ mode.shift))
                      THEN IF mode.layout = "EN" THEN "RU" ELSE "EN" ELSE mode.layout
           extended2 == c = Desk!Prefix
<1>1. mode' = [shift |-> shift2, alt |-> alt2, ctrl |-> ctrl2, layout |-> layout2, extended |-> extended2]
  BY DEF Desk!Decode
<1>2. mode.shift \in BOOLEAN /\ mode.alt \in BOOLEAN /\ mode.ctrl \in BOOLEAN /\ mode.layout \in {"EN", "RU"}
  BY DEF DeskTypes, Modes
<1>3. /\ shift2 \in BOOLEAN /\ alt2 \in BOOLEAN /\ ctrl2 \in BOOLEAN /\ layout2 \in {"EN", "RU"}
      /\ extended2 \in BOOLEAN
  BY <1>2
<1>4. /\ shift2 => (c[1] \in Shifts /\ down) \/ (c[1] \notin Shifts /\ mode.shift)
      /\ alt2 => (c[1] \in Alts /\ down) \/ (c[1] \notin Alts /\ mode.alt)
      /\ ctrl2 => (c[1] \in Ctrls /\ down) \/ (c[1] \notin Ctrls /\ mode.ctrl)
  BY DEF Desk!ShiftClears
<1>5. extended2 => c = Desk!Prefix
  OBVIOUS
<1> HIDE DEF shift2, alt2, ctrl2, layout2, extended2
<1>6. mode' \in Modes
  BY <1>1, <1>3 DEF Modes
<1>7. mode'.shift = shift2 /\ mode'.alt = alt2 /\ mode'.ctrl = ctrl2 /\ mode'.extended = extended2
  BY <1>1
<1> QED BY <1>4, <1>5, <1>6, <1>7

\* They follow the codes.
LEMMA DeskFollows ==
  ASSUME DeskTypes, Flags, ~crossed, NEW c \in Desk!Codes, Desk!Decode(c),
         heard'.codes = Append(heard.codes, c)
  PROVE  Flags'
<1>1. heard.codes \in Seq(Desk!Codes)
  BY DEF DeskTypes
<1>2. PICK more : more = heard'.codes
  OBVIOUS
<1>3. \A group \in {Shifts, Alts, Ctrls} : Ends(group, heard.codes, c, more)
  BY <1>1, <1>2, LastAppends
<1>4. /\ mode.shift => LastDown(Shifts, heard.codes)
      /\ mode.alt => LastDown(Alts, heard.codes)
      /\ mode.ctrl => LastDown(Ctrls, heard.codes)
  BY DEF Flags
<1>5. /\ mode'.shift => LastDown(Shifts, more)
      /\ mode'.alt => LastDown(Alts, more)
      /\ mode'.ctrl => LastDown(Ctrls, more)
      /\ mode'.extended => PrefixLast(more)
  BY <1>3, <1>4, DeskDecodes DEF Ends
<1> QED BY <1>2, <1>5 DEF Flags

\* The keyboard's interrupt. While no byte changed hands it finds a byte of the keyboard.
LEMMA DeskHeardKey ==
  ASSUME DeskInv, Desk!KeyIrq
  PROVE  DeskInv' /\ (~crossed => ~crossed')
<1>2. DeskTypes /\ Flags /\ KeysHeld
  BY DEF DeskInv
<1>1. PICK b : b = Head(controller)
  OBVIOUS
<1>3. PICK c \in Desk!Codes :
        /\ controller # << >> /\ (~b.aux => c = b.code)
        /\ Desk!Decode(c)
        /\ heard' = IF b.aux THEN heard ELSE [heard EXCEPT !.codes = Append(heard.codes, c)]
        /\ crossed' <=> (crossed \/ b.aux)
        /\ 1 \in irq /\ irq' = irq \ {1} /\ controller' = << >>
        /\ UNCHANGED <<kbd, dev, mouse>>
  BY <1>1 DEF Desk!KeyIrq
<1>4. b = controller[1] /\ b \in KeyBytes \cup MouseBytes
  BY <1>1, <1>2, <1>3, DeskHolds
<1>5. /\ heard.codes \in Seq(Desk!Codes) /\ heard.packets \in Seq(Seq(MouseBytes))
      /\ heard = [codes |-> heard.codes, packets |-> heard.packets]
  BY <1>2 DEF DeskTypes
<1>6. PICK codes2 : codes2 = Append(heard.codes, c)
  OBVIOUS
<1>7. codes2 \in Seq(Desk!Codes)
  BY <1>5, <1>6
<1>8. ~b.aux => /\ heard' = [codes |-> codes2, packets |-> heard.packets]
                /\ heard'.codes = codes2 /\ heard'.packets = heard.packets
  <2>1. ~b.aux => heard' = [heard EXCEPT !.codes = codes2]
    BY <1>3, <1>6
  <2> QED BY <1>5, <2>1
<1>9. Flags' /\ mode' \in Modes
  <2>1. mode' \in Modes
    BY <1>2, <1>3, DeskDecodes
  <2>2. ~b.aux /\ ~crossed => Flags'
    BY <1>2, <1>3, <1>6, <1>8, DeskFollows
  <2> QED BY <1>3, <2>1, <2>2 DEF Flags
<1>10. DeskTypes'
  <2>1. heard' \in [codes : Seq(Desk!Codes), packets : Seq(Seq(MouseBytes))]
    BY <1>2, <1>3, <1>5, <1>7, <1>8 DEF DeskTypes
  <2> QED BY <1>2, <1>3, <1>9, <2>1 DEF DeskTypes
<1>11. KeysHeld'
  BY <1>2, <1>3 DEF KeysHeld
<1>12. ~crossed => ~b.aux
  BY <1>3, <1>4 DEF DeskInv
<1>13. ASSUME ~crossed, ~b.aux
       PROVE  heard'.codes \o Desk!InTransit' = kbd'.sent /\ Chained' /\ Cut'
  <2>1. Desk!InTransit = <<c>> \o kbd.queue /\ MouseRest = dev.queue
    BY <1>2, <1>3, <1>4, <1>13, DeskRest
  <2>2. kbd.queue \in Seq(Desk!Codes) /\ dev.queue \in Seq(MouseBytes)
    BY <1>2 DEF DeskTypes
  <2>3. << >> \o kbd.queue = kbd.queue /\ << >> \o dev.queue = dev.queue
    BY <2>2, ConcatEmptySeq
  <2>4. Desk!InTransit' = kbd.queue /\ MouseRest' = dev.queue
    BY <1>3, <2>3 DEF Desk!InTransit, MouseRest
  <2>5. heard.codes \o Desk!InTransit = kbd.sent
    BY <1>13 DEF DeskInv
  <2>6. codes2 \o kbd.queue = heard.codes \o (<<c>> \o kbd.queue)
    <3>1. PICK one : one = <<c>>
      OBVIOUS
    <3>2. one \in Seq(Desk!Codes) /\ codes2 = heard.codes \o one
      BY <1>5, <1>6, <3>1, AppendIsConcat
    <3>3. (heard.codes \o one) \o kbd.queue = heard.codes \o (one \o kbd.queue)
      <4>1. PICK a, q \in Seq(Desk!Codes) : a = heard.codes /\ q = kbd.queue
        BY <1>5, <2>2
      <4>2. (a \o one) \o q = a \o (one \o q)
        BY <3>2, Associative
      <4> QED BY <4>1, <4>2
    <3> QED BY <3>1, <3>2, <3>3
  <2>7. Chained' /\ Cut'
    BY <1>3, <1>8, <1>13, <2>1, <2>4, MouseKept DEF DeskInv
  <2>8. heard'.codes = codes2 /\ kbd'.sent = kbd.sent
    BY <1>3, <1>8, <1>13
  <2> QED BY <2>1, <2>4, <2>5, <2>6, <2>7, <2>8
<1> QED BY <1>3, <1>9, <1>10, <1>11, <1>12, <1>13 DEF DeskInv

\* What handle_mouse_packet leaves of a packet.
LEMMA DeskDecodedPacket ==
  ASSUME DeskTypes, NEW p \in Seq(MouseBytes), p # << >>
  PROVE  /\ Desk!Decoded(p).ready = mouse.ready /\ Desk!Decoded(p).size = mouse.size
         /\ Desk!Decoded(p).packet = << >>
         /\ Desk!Decoded(p) \in [ready : BOOLEAN, size : Lengths, packet : Seq(MouseBytes),
                                 x : Int, left : BOOLEAN]
<1>1. PICK r \in BOOLEAN, s \in Lengths, q \in Seq(MouseBytes), x \in Int, l \in BOOLEAN :
        mouse = [ready |-> r, size |-> s, packet |-> q, x |-> x, left |-> l]
  BY DEF DeskTypes
<1>2. Desk!Report1(p) \in [dx : Int, left : BOOLEAN, overflow : BOOLEAN]
  <2>1. CASE Desk!OfOnePacket(p)
    <3>1. PICK n \in DOMAIN dev.sent : \A i \in DOMAIN p : p[i].of = n
      BY <2>1 DEF Desk!OfOnePacket
    <3>2. 1 \in DOMAIN p
      <4>1. Len(p) \in Nat \ {0} /\ DOMAIN p = 1 .. Len(p)
        BY EmptySeq, LenProperties
      <4> QED BY <4>1
    <3>3. dev.sent[n] \in Motions
      <4>1. dev.sent \in Seq(Motions)
        BY DEF DeskTypes
      <4> QED BY <4>1, ElementOfSeq, LenProperties
    <3>4. Desk!Report1(p) = dev.sent[n]
      BY <2>1, <3>1, <3>2 DEF Desk!Report1
    <3> QED BY <3>3, <3>4, EventsAssumption
  <2>2. CASE ~Desk!OfOnePacket(p)
    BY <2>2 DEF Desk!Report1, Desk!Still
  <2> QED BY <2>1, <2>2
<1>3. PICK d \in Int, m \in BOOLEAN, o \in BOOLEAN :
        Desk!Report1(p) = [dx |-> d, left |-> m, overflow |-> o]
  BY <1>2
<1>4. PICK y \in Int : y = Desk!Clamp(x + d)
  <2>1. x + d \in Int /\ ScreenWidth \in Int /\ ScreenWidth - 1 \in Int
    BY EventsAssumption
  <2>2. Desk!Clamp(x + d) \in Int
    BY <2>1 DEF Desk!Clamp
  <2> QED BY <2>2
<1>5. << >> \in Seq(MouseBytes)
  OBVIOUS
<1>6. CASE ~p[1].bit3 \/ Desk!Report1(p).overflow
  <2>1. Desk!Decoded(p) = [ready |-> r, size |-> s, packet |-> << >>, x |-> x, left |-> l]
    BY <1>1, <1>6 DEF Desk!Decoded
  <2> QED BY <1>1, <1>5, <2>1
<1>7. CASE ~(~p[1].bit3 \/ Desk!Report1(p).overflow)
  <2>1. Desk!Decoded(p) = [mouse EXCEPT !.packet = << >>, !.x = Desk!Clamp(mouse.x + Desk!Report1(p).dx),
                                        !.left = Desk!Report1(p).left]
    BY <1>7 DEF Desk!Decoded
  <2>2. mouse.x = x /\ Desk!Report1(p).dx = d /\ Desk!Report1(p).left = m
    BY <1>1, <1>3
  <2>3. Desk!Decoded(p) = [mouse EXCEPT !.packet = << >>, !.x = y, !.left = m]
    BY <1>4, <2>1, <2>2
  <2>4. Desk!Decoded(p) = [ready |-> r, size |-> s, packet |-> << >>, x |-> y, left |-> m]
    BY <1>1, <2>3
  <2> QED BY <1>1, <1>5, <2>4
<1> QED BY <1>6, <1>7

\* The mouse's handler takes a byte: an unwanted one, one of a packet, or the last of it.
LEMMA DeskCollected ==
  ASSUME DeskInv, Desk!MouseIrqByte PROVE DeskInv'
<1>1. DeskTypes /\ Flags /\ KeysHeld
  BY DEF DeskInv
<1>2. PICK b : b = Head(controller)
  OBVIOUS
<1>3. /\ controller # << >> /\ controller' = << >> /\ mouse.ready
      /\ Desk!Collect(b) /\ (crossed' <=> (crossed \/ ~b.aux))
      /\ UNCHANGED <<kbd, dev, irq, mode>>
  BY <1>2 DEF Desk!MouseIrqByte
<1>4. b = controller[1] /\ b \in KeyBytes \cup MouseBytes /\ (b.aux => b \in MouseBytes)
  <2>1. b = controller[1] /\ b \in KeyBytes \cup MouseBytes
    BY <1>1, <1>2, <1>3, DeskHolds
  <2> QED BY <2>1 DEF KeyBytes
<1>5. /\ heard.codes \in Seq(Desk!Codes) /\ heard.packets \in Seq(Seq(MouseBytes))
      /\ heard = [codes |-> heard.codes, packets |-> heard.packets]
      /\ mouse.packet \in Seq(MouseBytes) /\ mouse.size \in Lengths
  BY <1>1 DEF DeskTypes
<1>6. PICK n, g, s \in Nat : n = Len(heard.packets) /\ g = Len(mouse.packet) /\ s = mouse.size /\ s >= 1
  <2>1. Len(heard.packets) \in Nat /\ Len(mouse.packet) \in Nat /\ mouse.size \in Nat /\ mouse.size >= 1
    BY <1>5, DeskFacts
  <2> QED BY <2>1
<1>7. PICK p : p = Append(mouse.packet, b)
  OBVIOUS
<1>8. b.aux => /\ p \in Seq(MouseBytes) /\ Len(p) = g + 1 /\ p # << >> /\ p[g + 1] = b
               /\ \A i \in 1 .. g : p[i] = mouse.packet[i]
  BY <1>4, <1>5, <1>6, <1>7
<1>9. \/ UNCHANGED <<mouse, heard>> /\ ~(b.aux /\ Desk!Aligned(mouse.packet, b))
      \/ b.aux /\ g + 1 < s /\ mouse' = [mouse EXCEPT !.packet = p] /\ heard' = heard
      \/ /\ b.aux /\ ~(g + 1 < s) /\ mouse' = Desk!Decoded(p)
         /\ heard' = [heard EXCEPT !.packets = Append(heard.packets, p)]
  BY <1>3, <1>6, <1>7, <1>8 DEF Desk!Collect
<1>10. /\ heard'.codes = heard.codes /\ heard' \in [codes : Seq(Desk!Codes), packets : Seq(Seq(MouseBytes))]
       /\ mouse' \in [ready : BOOLEAN, size : Lengths, packet : Seq(MouseBytes), x : Int, left : BOOLEAN]
       /\ mouse'.size = mouse.size /\ mouse'.ready = mouse.ready
       /\ b.aux /\ g + 1 < s /\ Desk!Aligned(mouse.packet, b) =>
             mouse'.packet = p /\ heard'.packets = heard.packets
       /\ b.aux /\ ~(g + 1 < s) /\ Desk!Aligned(mouse.packet, b) =>
             mouse'.packet = << >> /\ heard'.packets = Append(heard.packets, p)
  <2>1. CASE UNCHANGED <<mouse, heard>> /\ ~(b.aux /\ Desk!Aligned(mouse.packet, b))
    BY <1>1, <2>1 DEF DeskTypes
  <2>2. CASE b.aux /\ g + 1 < s /\ mouse' = [mouse EXCEPT !.packet = p] /\ heard' = heard
    <3>1. PICK r \in BOOLEAN, z \in Lengths, q \in Seq(MouseBytes), x \in Int, l \in BOOLEAN :
            mouse = [ready |-> r, size |-> z, packet |-> q, x |-> x, left |-> l]
      BY <1>1 DEF DeskTypes
    <3>2. mouse' = [ready |-> r, size |-> z, packet |-> p, x |-> x, left |-> l]
      BY <2>2, <3>1
    <3> QED BY <1>1, <1>8, <2>2, <3>1, <3>2 DEF DeskTypes
  <2>3. CASE /\ b.aux /\ ~(g + 1 < s) /\ mouse' = Desk!Decoded(p)
             /\ heard' = [heard EXCEPT !.packets = Append(heard.packets, p)]
    <3>1. PICK packets2 : packets2 = Append(heard.packets, p)
      OBVIOUS
    <3>2. packets2 \in Seq(Seq(MouseBytes))
      BY <1>5, <1>8, <2>3, <3>1
    <3>3. heard' = [codes |-> heard.codes, packets |-> packets2]
      <4>1. heard' = [heard EXCEPT !.packets = packets2]
        BY <2>3, <3>1
      <4> QED BY <1>5, <4>1
    <3>4. /\ mouse'.ready = mouse.ready /\ mouse'.size = mouse.size /\ mouse'.packet = << >>
          /\ mouse' \in [ready : BOOLEAN, size : Lengths, packet : Seq(MouseBytes), x : Int, left : BOOLEAN]
      BY <1>1, <1>8, <2>3, DeskDecodedPacket
    <3> QED BY <1>5, <2>3, <3>1, <3>2, <3>3, <3>4
  <2> QED BY <1>9, <2>1, <2>2, <2>3
<1>11. DeskTypes'
  BY <1>1, <1>3, <1>10 DEF DeskTypes
<1>12. Flags' /\ KeysHeld'
  <2>1. heard'.codes = heard.codes /\ mode' = mode /\ kbd' = kbd
    BY <1>3, <1>10
  <2>2. Flags'
    BY <1>1, <1>3, <2>1 DEF Flags
  <2>3. KeysHeld'
    BY <1>1, <2>1 DEF KeysHeld
  <2> QED BY <2>2, <2>3
<1>13. ASSUME ~crossed, b.aux
       PROVE  1 \notin irq /\ heard'.codes \o Desk!InTransit' = kbd'.sent /\ Chained' /\ Cut'
  <2>1. 1 \notin irq /\ heard.codes \o Desk!InTransit = kbd.sent /\ Chained /\ Cut
    BY <1>3, <1>4, <1>13 DEF DeskInv
  <2>2. kbd.queue \in Seq(Desk!Codes) /\ dev.queue \in Seq(MouseBytes)
    BY <1>1 DEF DeskTypes
  <2>3. MouseRest = controller \o dev.queue /\ Desk!InTransit = kbd.queue
    BY <1>1, <1>3, <1>4, <1>13, DeskRest
  <2>4. controller = <<b>>
    <3>1. PICK d \in KeyBytes \cup MouseBytes : controller = <<d>>
      BY <1>1, <1>3 DEF DeskTypes
    <3> QED BY <1>4, <3>1
  <2>5. << >> \o kbd.queue = kbd.queue /\ << >> \o dev.queue = dev.queue
    BY <2>2, ConcatEmptySeq
  <2>6. Desk!InTransit' = kbd.queue /\ MouseRest' = dev.queue
    BY <1>3, <2>5 DEF Desk!InTransit, MouseRest
  <2>7. PICK last \in Nat : last = Len(dev.sent)
    BY <1>1 DEF DeskTypes
  <2>8. /\ b.of = n + 1 /\ b.at = g + 1 /\ (b.at = 1 => b.bit3)
        /\ g + 1 < s => Chain(dev.queue, n, g + 1, last)
        /\ ~(g + 1 < s) => Chain(dev.queue, n + 1, 0, last)
    <3>1. PICK q \in Seq(MouseBytes) : q = dev.queue
      BY <2>2
    <3>2. Chain(<<b>> \o q, n, g, last) /\ g < s
      BY <1>6, <2>1, <2>3, <2>4, <2>7, <3>1 DEF Chained
    <3>3. b \in MouseBytes
      BY <1>4, <1>13
    <3>4. /\ b.of = n + 1 /\ b.at = g + 1 /\ (b.at = 1 => b.bit3)
          /\ g + 1 < mouse.size => Chain(q, n, g + 1, last)
          /\ ~(g + 1 < mouse.size) => Chain(q, n + 1, 0, last)
      BY <1>6, <3>2, <3>3, ChainHead
    <3> QED BY <1>6, <3>1, <3>4
  <2>9. Desk!Aligned(mouse.packet, b)
    <3>1. CASE mouse.packet = << >>
      <4>1. g = 0
        BY <1>6, <3>1
      <4> QED BY <2>8, <4>1 DEF Desk!Aligned
    <3>2. CASE mouse.packet # << >>
      BY <3>2 DEF Desk!Aligned
    <3> QED BY <3>1, <3>2
  <2>10. \A i \in 1 .. g + 1 : p[i].of = n + 1 /\ p[i].at = i
    <3> SUFFICES ASSUME NEW i \in 1 .. g + 1 PROVE p[i].of = n + 1 /\ p[i].at = i
      OBVIOUS
    <3>1. CASE i = g + 1
      BY <1>8, <1>13, <2>8, <3>1
    <3>2. CASE i # g + 1
      <4>1. i \in 1 .. g
        BY <3>2
      <4>2. mouse.packet[i].of = n + 1 /\ mouse.packet[i].at = i
        BY <1>6, <2>1, <4>1 DEF Chained
      <4> QED BY <1>8, <1>13, <4>1, <4>2
    <3> QED BY <3>1, <3>2
  <2>11. CASE g + 1 < s
    <3>1. mouse'.packet = p /\ heard'.packets = heard.packets
      BY <1>10, <1>13, <2>9, <2>11
    <3>2. Chain(dev.queue, n, g + 1, last)
      BY <2>8, <2>11
    <3>3. Chain(MouseRest, Len(heard.packets), Len(mouse.packet), Len(dev.sent))'
      <4>1. Len(heard'.packets) = n /\ Len(mouse'.packet) = g + 1 /\ Len(dev'.sent) = last
        BY <1>3, <1>6, <1>8, <1>13, <2>7, <3>1
      <4> QED BY <1>10, <2>6, <3>2, <4>1 DEF Chain, Follows
    <3>4. Chained'
      <4>1. mouse'.size = s /\ mouse'.packet = p /\ Len(p) = g + 1 /\ Len(heard'.packets) = n
        BY <1>6, <1>8, <1>10, <1>13, <3>1
      <4>2. \A i \in 1 .. Len(mouse'.packet) :
               mouse'.packet[i].of = Len(heard'.packets) + 1 /\ mouse'.packet[i].at = i
        BY <2>10, <4>1
      <4> QED BY <2>11, <3>3, <4>1, <4>2 DEF Chained
    <3>5. Cut'
      BY <2>1, <3>1 DEF Cut
    <3> QED BY <1>3, <1>10, <2>1, <2>3, <2>6, <3>4, <3>5
  <2>12. CASE ~(g + 1 < s)
    <3>1. mouse'.packet = << >> /\ heard'.packets = Append(heard.packets, p)
      BY <1>10, <1>13, <2>9, <2>12
    <3>2. Chain(dev.queue, n + 1, 0, last)
      BY <2>8, <2>12
    <3>3. /\ Len(heard'.packets) = n + 1 /\ heard'.packets[n + 1] = p
          /\ \A i \in 1 .. n : heard'.packets[i] = heard.packets[i]
      <4>1. p \in Seq(MouseBytes)
        BY <1>8, <1>13
      <4> QED BY <1>5, <1>6, <3>1, <4>1
    <3>4. Chain(MouseRest, Len(heard.packets), Len(mouse.packet), Len(dev.sent))'
      <4>1. Len(mouse'.packet) = 0 /\ Len(dev'.sent) = last
        BY <1>3, <2>7, <3>1
      <4> QED BY <1>10, <2>6, <3>2, <3>3, <4>1 DEF Chain, Follows
    <3>5. Chained'
      <4>1. Len(mouse'.packet) = 0 /\ mouse'.size = s
        BY <1>6, <1>10, <3>1
      <4>2. 0 < s /\ \A i \in 1 .. 0 : FALSE
        BY <1>6
      <4> QED BY <3>4, <4>1, <4>2 DEF Chained
    <3>6. Cut'
      <4> SUFFICES ASSUME NEW i \in 1 .. n + 1, NEW j \in 1 .. Len(heard'.packets[i])
                   PROVE  heard'.packets[i][j].of = i /\ heard'.packets[i][j].at = j
        BY <3>3 DEF Cut
      <4>1. CASE i = n + 1
        <5>1. j \in 1 .. g + 1
          BY <1>8, <1>13, <3>3, <4>1
        <5> QED BY <2>10, <3>3, <4>1, <5>1
      <4>2. CASE i # n + 1
        <5>1. i \in 1 .. n
          BY <4>2
        <5>2. heard'.packets[i] = heard.packets[i]
          BY <3>3, <5>1
        <5>3. j \in 1 .. Len(heard.packets[i]) /\ i \in 1 .. Len(heard.packets)
          BY <1>6, <5>1, <5>2
        <5>4. heard.packets[i][j].of = i /\ heard.packets[i][j].at = j
          BY <2>1, <5>3 DEF Cut
        <5> QED BY <5>2, <5>4
      <4> QED BY <4>1, <4>2
    <3> QED BY <1>3, <1>10, <2>1, <2>3, <2>6, <3>5, <3>6
  <2> QED BY <2>11, <2>12
<1> QED BY <1>3, <1>11, <1>12, <1>13 DEF DeskInv

\* Every step of the two devices, and those of the others, which leave them alone.
LEMMA DeskSteps ==
  ASSUME DeskInv, Desk!Next \/ UNCHANGED ps2Vars PROVE DeskInv'
<1>1. CASE \E c \in Desk!Keystrokes : Desk!Type(c)
  BY <1>1, DeskTyped
<1>2. CASE \E m \in Motions, bits \in BOOLEAN : Desk!Report(m, bits)
  BY <1>2, DeskReported
<1>3. CASE Desk!LoadKey
  BY <1>3, DeskLoadedKey
<1>4. CASE Desk!LoadMouse
  BY <1>4, DeskLoadedMouse
<1>5. CASE Desk!KeyIrq
  BY <1>5, DeskHeardKey
<1>6. CASE Desk!MouseIrqByte
  BY <1>6, DeskCollected
<1>7. CASE Desk!KeyIrqEmpty \/ Desk!MouseIrqUnready \/ Desk!MouseIrqEnds \/ Desk!Quiet \/ UNCHANGED ps2Vars
  <2>1. irq' \subseteq irq /\ UNCHANGED <<kbd, dev, controller, mode, mouse, heard, crossed>>
    BY <1>7 DEF Desk!KeyIrqEmpty, Desk!MouseIrqUnready, Desk!MouseIrqEnds, Desk!Quiet, Desk!vars, ps2Vars
  <2> QED BY <2>1, DeskIdle
<1> QED BY <1>1, <1>2, <1>3, <1>4, <1>5, <1>6, <1>7 DEF Desk!Next

\* Only the mouse's handler makes the first byte change hands.
LEMMA DeskCrosses ==
  ASSUME DeskInv, Desk!Next, ~crossed, crossed'
  PROVE  mouse.ready /\ ~controller[1].aux /\ heard' = heard
<1>1. ~Desk!KeyIrq
  BY DeskHeardKey
<1>2. Desk!MouseIrqByte
  BY <1>1 DEF Desk!Next, Desk!Type, Desk!Report, Desk!LoadKey, Desk!LoadMouse, Desk!KeyIrqEmpty,
              Desk!MouseIrqUnready, Desk!MouseIrqEnds, Desk!Quiet, Desk!vars
<1>3. PICK b : b = Head(controller)
  OBVIOUS
<1>4. controller # << >> /\ mouse.ready /\ ~b.aux /\ Desk!Collect(b)
  BY <1>2, <1>3 DEF Desk!MouseIrqByte
<1>5. b = controller[1]
  BY <1>3, <1>4, DeskHolds DEF DeskInv
<1> QED BY <1>4, <1>5 DEF Desk!Collect

-------------------------------------------------------------------------------
(* The queue of events (input_push, input_pop)                              *)

\* What is assumed of the queue.
LEMMA QueueBounds == Capacity \in Nat /\ Capacity > 0 /\ Wrap \in Nat /\ Wrap > 0
BY EventsAssumption

\* An index that went once round the ring.
LEMMA Around ==
  ASSUME NEW n \in 0 .. 2 * Capacity - 1
  PROVE  n % Capacity = IF n < Capacity THEN n ELSE n - Capacity
BY QueueBounds

\* Empty: head and tail are at the same slot.
LEMMA QueueEmptyAtFirst == ASSUME Queue!Init PROVE QueueInv
<1>1. 0 \in Queue!Slot /\ 0 % Capacity = 0
  BY Around, QueueBounds DEF Queue!Slot
<1> QED BY <1>1, QueueBounds DEF Queue!Init, QueueInv, Queue!TypeOK, Queue!Consistent

\* Each step of the ring, on the counters alone.
LEMMA PushCounts ==
  ASSUME QueueInv, NEW e \in Events, Queue!Push(e)
  PROVE  QueueInv'
<1>1. /\ Capacity \in Nat /\ Capacity > 0 /\ head \in 0 .. Capacity - 1
      /\ tail \in 0 .. Capacity - 1 /\ waiting \in 0 .. Capacity - 1
      /\ tail = (head + waiting) % Capacity
  BY QueueBounds DEF QueueInv, Queue!TypeOK, Queue!Consistent, Queue!Slot, Queue!Push
<1>2. tail' = (tail + 1) % Capacity /\ waiting' = waiting + 1 /\ head' = head
  BY DEF Queue!Push, Queue!After
<1>3. tail' \in Queue!Slot /\ tail' = (head' + waiting') % Capacity
  <2>1. /\ head + waiting \in 0 .. 2 * Capacity - 1 /\ head + (waiting + 1) \in 0 .. 2 * Capacity - 1
        /\ tail + 1 \in 0 .. 2 * Capacity - 1
    BY <1>1
  <2> QED BY <1>1, <1>2, <2>1, Around DEF Queue!Slot
<1>4. buffer' \in [Queue!Slot -> Events]
  BY <1>1 DEF QueueInv, Queue!TypeOK, Queue!Push
<1> QED BY <1>1, <1>2, <1>3, <1>4 DEF QueueInv, Queue!TypeOK, Queue!Consistent, Queue!Push

\* A pop moves head on and counts down.
LEMMA PopCounts ==
  ASSUME QueueInv, Queue!Pop
  PROVE  QueueInv' /\ head' = (head + 1) % Capacity
<1>1. /\ Capacity \in Nat /\ Capacity > 0 /\ head \in 0 .. Capacity - 1
      /\ tail \in 0 .. Capacity - 1 /\ waiting \in 1 .. Capacity
      /\ tail = (head + waiting) % Capacity
  BY QueueBounds DEF QueueInv, Queue!TypeOK, Queue!Consistent, Queue!Slot, Queue!Pop
<1>2. head' = (head + 1) % Capacity /\ waiting' = waiting - 1 /\ tail' = tail
  BY DEF Queue!Pop, Queue!After
<1>3. head' \in Queue!Slot /\ tail' = (head' + waiting') % Capacity
  <2>1. head + waiting \in 0 .. 2 * Capacity - 1 /\ head + 1 \in 0 .. 2 * Capacity - 1
    BY <1>1
  <2>2. head' = IF head + 1 < Capacity THEN head + 1 ELSE 0
    BY <1>1, <1>2, <2>1, Around
  <2>3. head' + waiting' \in 0 .. 2 * Capacity - 1
    BY <1>1, <1>2, <2>2
  <2> QED BY <1>1, <1>2, <2>1, <2>2, <2>3, Around DEF Queue!Slot
<1>4. buffer[head] \in Events /\ popped' = <<buffer[head]>>
  BY <1>1 DEF QueueInv, Queue!TypeOK, Queue!Pop, Queue!Slot
<1> QED BY <1>1, <1>2, <1>3, <1>4 DEF QueueInv, Queue!TypeOK, Queue!Consistent, Queue!Pop

\* A refused event changes only its counter.
LEMMA DropCounts == ASSUME QueueInv, Queue!Drop PROVE QueueInv'
<1>1. dropped' \in 0 .. Wrap - 1
  BY QueueBounds DEF QueueInv, Queue!TypeOK, Queue!Drop
<1> QED BY <1>1 DEF QueueInv, Queue!TypeOK, Queue!Consistent, Queue!Drop

\* Every step keeps the counters in agreement.
LEMMA QueueKeeps == ASSUME QueueInv, [Queue!Next]_(Queue!vars) PROVE QueueInv'
<1>1. CASE Queue!PopNone
  BY <1>1 DEF Queue!PopNone, QueueInv, Queue!TypeOK, Queue!Consistent
<1>2. CASE UNCHANGED Queue!vars
  BY <1>2 DEF Queue!vars, QueueInv, Queue!TypeOK, Queue!Consistent
<1> QED BY <1>1, <1>2, PushCounts, PopCounts, DropCounts DEF Queue!Next


\* n events of the buffer b, read from slot h on.
Taking(b, h, n) == [i \in 1 .. n |-> b[(h + i - 1) % Capacity]]

\* What is read from slot h on is a sequence of n events.
LEMMA ReadIsSeq ==
  ASSUME NEW b \in [Queue!Slot -> Events], NEW h \in Queue!Slot, NEW n \in 0 .. Capacity
  PROVE  /\ Taking(b, h, n) \in Seq(Events) /\ Len(Taking(b, h, n)) = n
         /\ \A i \in 1 .. n : /\ (h + i - 1) % Capacity \in Queue!Slot
                              /\ h + i - 1 \in 0 .. 2 * Capacity - 1
                              /\ Taking(b, h, n)[i] = b[(h + i - 1) % Capacity]
<1>1. Capacity \in Nat /\ Capacity > 0 /\ h \in 0 .. Capacity - 1
  BY QueueBounds DEF Queue!Slot
<1>2. ASSUME NEW i \in 1 .. n
      PROVE  h + i - 1 \in 0 .. 2 * Capacity - 1 /\ (h + i - 1) % Capacity \in Queue!Slot
  <2>1. h + i - 1 \in 0 .. 2 * Capacity - 1
    BY <1>1
  <2> QED BY <1>1, <2>1, Around DEF Queue!Slot
<1>3. Taking(b, h, n) \in [1 .. n -> Events]
  BY <1>2 DEF Taking
<1>4. n \in Nat /\ Taking(b, h, n) \in Seq(Events)
  BY <1>1, <1>3
<1>5. Len(Taking(b, h, n)) = n
  <2>1. /\ Len(Taking(b, h, n)) \in Nat /\ DOMAIN Taking(b, h, n) = 1 .. n
        /\ DOMAIN Taking(b, h, n) = 1 .. Len(Taking(b, h, n))
    BY <1>3, <1>4, LenProperties
  <2> QED BY <1>4, <2>1
<1> QED BY <1>2, <1>4, <1>5 DEF Taking

\* The contents are what is read from head on, before and after a step.
LEMMA ContentsIsRead ==
  /\ Queue!Contents = Taking(buffer, head, waiting)
  /\ Queue!Contents' = Taking(buffer', head', waiting')
BY DEF Queue!Contents, Taking

\* A push writes behind the last event and disturbs none.
LEMMA PushAppends ==
  ASSUME QueueInv, NEW e \in Events, Queue!Push(e)
  PROVE  Queue!Contents' = Append(Queue!Contents, e) /\ Len(Queue!Contents) < Capacity
<1>1. /\ Capacity \in Nat /\ Capacity > 0 /\ head \in 0 .. Capacity - 1 /\ head \in Queue!Slot
      /\ waiting \in 0 .. Capacity - 1 /\ tail = (head + waiting) % Capacity
      /\ head' = head /\ waiting' = waiting + 1 /\ buffer' = [buffer EXCEPT ![tail] = e]
      /\ buffer \in [Queue!Slot -> Events] /\ tail \in Queue!Slot
  BY QueueBounds DEF QueueInv, Queue!TypeOK, Queue!Consistent, Queue!Slot, Queue!Push
<1>2. buffer' \in [Queue!Slot -> Events] /\ waiting \in 0 .. Capacity /\ waiting' \in 0 .. Capacity
  BY <1>1
<1>3. /\ Queue!Contents \in Seq(Events) /\ Len(Queue!Contents) = waiting
      /\ \A i \in 1 .. waiting : Queue!Contents[i] = buffer[(head + i - 1) % Capacity]
  <2>1. buffer \in [Queue!Slot -> Events] /\ head \in Queue!Slot /\ waiting \in 0 .. Capacity
    BY <1>1, <1>2
  <2> QED BY <2>1, ReadIsSeq, ContentsIsRead
<1>4. /\ Queue!Contents' \in Seq(Events) /\ Len(Queue!Contents') = waiting + 1
      /\ \A i \in 1 .. waiting + 1 : Queue!Contents'[i] = buffer'[(head + i - 1) % Capacity]
  <2>1. buffer' \in [Queue!Slot -> Events] /\ head' \in Queue!Slot /\ waiting' \in 0 .. Capacity
    BY <1>1, <1>2
  <2>2. head' = head /\ waiting' = waiting + 1
    BY <1>1
  <2>3. /\ Queue!Contents' \in Seq(Events) /\ Len(Queue!Contents') = waiting'
        /\ \A i \in 1 .. waiting' : Queue!Contents'[i] = buffer'[(head' + i - 1) % Capacity]
    BY <2>1, ReadIsSeq, ContentsIsRead
  <2> QED BY <2>2, <2>3
<1>5. ASSUME NEW i \in 1 .. waiting PROVE Queue!Contents'[i] = Queue!Contents[i]
  <2>1. head + i - 1 \in 0 .. 2 * Capacity - 1 /\ head + waiting \in 0 .. 2 * Capacity - 1
    BY <1>1
  <2>2. (head + i - 1) % Capacity # tail /\ (head + i - 1) % Capacity \in Queue!Slot
    BY <1>1, <2>1, Around DEF Queue!Slot
  <2>3. i \in 1 .. waiting + 1
    BY <1>1
  <2> QED BY <1>1, <1>3, <1>4, <2>2, <2>3
<1>6. Queue!Contents'[waiting + 1] = e
  BY <1>1, <1>4
<1>7. /\ Append(Queue!Contents, e) \in Seq(Events) /\ Len(Append(Queue!Contents, e)) = waiting + 1
      /\ \A i \in 1 .. waiting : Append(Queue!Contents, e)[i] = Queue!Contents[i]
      /\ Append(Queue!Contents, e)[waiting + 1] = e
  BY <1>3, AppendProperties
<1>8. \A i \in 1 .. waiting + 1 : Queue!Contents'[i] = Append(Queue!Contents, e)[i]
  BY <1>1, <1>5, <1>6, <1>7
<1> QED BY <1>1, <1>3, <1>4, <1>7, <1>8, SeqEqual

\* A pop takes the first event.
LEMMA PopTakesHead ==
  ASSUME QueueInv, Queue!Pop
  PROVE  Queue!Contents # <<>> /\ popped' = <<Head(Queue!Contents)>> /\ Queue!Contents' = Tail(Queue!Contents)
<1>1. /\ Capacity \in Nat /\ Capacity > 0 /\ head \in 0 .. Capacity - 1 /\ head \in Queue!Slot
      /\ waiting \in 1 .. Capacity /\ popped' = <<buffer[head]>>
      /\ head' = (head + 1) % Capacity /\ waiting' = waiting - 1 /\ buffer' = buffer
      /\ buffer \in [Queue!Slot -> Events]
  BY QueueBounds DEF QueueInv, Queue!TypeOK, Queue!Slot, Queue!Pop, Queue!After
<1>2. head' = (IF head + 1 < Capacity THEN head + 1 ELSE 0) /\ head' \in Queue!Slot
  <2>1. head + 1 \in 0 .. 2 * Capacity - 1
    BY <1>1
  <2> QED BY <1>1, <2>1, Around DEF Queue!Slot
<1>3. waiting \in 0 .. Capacity /\ waiting' \in 0 .. Capacity
  BY <1>1
<1>4. /\ Queue!Contents \in Seq(Events) /\ Len(Queue!Contents) = waiting
      /\ \A i \in 1 .. waiting : Queue!Contents[i] = buffer[(head + i - 1) % Capacity]
  BY <1>1, <1>3, ReadIsSeq, ContentsIsRead
<1>5. /\ Queue!Contents' \in Seq(Events) /\ Len(Queue!Contents') = waiting - 1
      /\ \A i \in 1 .. waiting - 1 : Queue!Contents'[i] = buffer[(head' + i - 1) % Capacity]
  BY <1>1, <1>2, <1>3, ReadIsSeq, ContentsIsRead
<1>6. Queue!Contents # <<>> /\ Queue!Contents[1] = buffer[head]
  <2>1. head + 1 - 1 = head /\ head \in 0 .. 2 * Capacity - 1 /\ 1 \in 1 .. waiting
    BY <1>1
  <2>2. head % Capacity = head
    BY <1>1, <2>1, Around
  <2> QED BY <1>1, <1>4, <2>1, <2>2
<1>7. popped' = <<Head(Queue!Contents)>>
  BY <1>1, <1>4, <1>6
<1>8. /\ Tail(Queue!Contents) \in Seq(Events) /\ Len(Tail(Queue!Contents)) = waiting - 1
      /\ \A i \in 1 .. waiting - 1 : Tail(Queue!Contents)[i] = Queue!Contents[i + 1]
  BY <1>4, <1>6, HeadTailProperties
<1>9. ASSUME NEW i \in 1 .. waiting - 1 PROVE Queue!Contents'[i] = Queue!Contents[i + 1]
  <2>1. /\ i + 1 \in 1 .. waiting /\ head + (i + 1) - 1 \in 0 .. 2 * Capacity - 1
        /\ head' + i - 1 \in 0 .. 2 * Capacity - 1
    BY <1>1, <1>2
  <2>2. (head + (i + 1) - 1) % Capacity = (head' + i - 1) % Capacity
    BY <1>1, <1>2, <2>1, Around
  <2> QED BY <1>4, <1>5, <2>1, <2>2
<1>10. \A i \in 1 .. waiting - 1 : Queue!Contents'[i] = Tail(Queue!Contents)[i]
  BY <1>8, <1>9
<1>11. Queue!Contents' = Tail(Queue!Contents)
  BY <1>5, <1>8, <1>10, SeqEqual
<1> QED BY <1>6, <1>7, <1>11


\* The empty ring is the empty queue.
LEMMA InitialQueue == ASSUME Queue!Init PROVE Queue!Fifo!Init
<1>1. waiting = 0 /\ Queue!Contents = Taking(buffer, head, 0)
  BY ContentsIsRead DEF Queue!Init
<1>2. Taking(buffer, head, 0) = <<>>
  BY DEF Taking
<1> QED BY <1>1, <1>2 DEF Queue!Init, Queue!Fifo!Init

\* Every step of the ring is a step of the queue.
LEMMA QueueImplements ==
  ASSUME QueueInv, [Queue!Next]_(Queue!vars)
  PROVE  [Queue!Fifo!Next]_(Queue!Fifo!vars)
<1>1. Len(Queue!Contents) = waiting /\ (waiting = 0 <=> Queue!Contents = <<>>) /\ waiting \in 0 .. Capacity
  <2>1. buffer \in [Queue!Slot -> Events] /\ head \in Queue!Slot /\ waiting \in 0 .. Capacity
    BY DEF QueueInv, Queue!TypeOK
  <2>2. Queue!Contents \in Seq(Events) /\ Len(Queue!Contents) = waiting
    BY <2>1, ReadIsSeq, ContentsIsRead
  <2> QED BY <2>1, <2>2, EmptySeq
<1>2. ASSUME NEW e \in Events, Queue!Push(e) PROVE Queue!Fifo!Push(e)
  BY <1>2, PushAppends DEF Queue!Push, Queue!Fifo!Push
<1>3. CASE Queue!Drop
  <2>1. Queue!Contents' = Queue!Contents
    BY <1>3 DEF Queue!Drop, Queue!Contents
  <2>2. Len(Queue!Contents) = Capacity
    BY <1>1, <1>3, QueueBounds DEF Queue!Drop
  <2> QED BY <1>3, <2>1, <2>2 DEF Queue!Drop, Queue!Fifo!Drop, Queue!Fifo!Next
<1>4. CASE Queue!Pop
  <2>1. dropped' = dropped
    BY <1>4 DEF Queue!Pop
  <2> QED BY <1>4, <2>1, PopTakesHead DEF Queue!Fifo!Pop, Queue!Fifo!Next
<1>5. CASE Queue!PopNone
  <2>1. Queue!Contents' = Queue!Contents /\ Queue!Contents = <<>>
    BY <1>1, <1>5 DEF Queue!PopNone, Queue!Contents
  <2> QED BY <1>5, <2>1 DEF Queue!PopNone, Queue!Fifo!Nothing, Queue!Fifo!Next
<1>6. CASE UNCHANGED Queue!vars
  BY <1>6 DEF Queue!vars, Queue!Fifo!vars, Queue!Contents
<1> QED BY <1>2, <1>3, <1>4, <1>5, <1>6 DEF Queue!Next, Queue!Fifo!Next

\* The queue begins empty, as the abstract one does.
LEMMA QueueInit == Queue!Init => QueueInv /\ Queue!Fifo!Init
BY QueueEmptyAtFirst, InitialQueue

\* The invariant gives the agreement of the counters.
LEMMA QueueSound == QueueInv => Queue!Consistent
BY DEF QueueInv

\* Every step of the queue, and those of the others, which leave it alone, is a step of the
\* abstract one.
LEMMA QueueSteps ==
  ASSUME QueueInv, Queue!Next \/ UNCHANGED queueVars
  PROVE  QueueInv' /\ [Queue!Fifo!Next]_(Queue!Fifo!vars)
<1>1. [Queue!Next]_(Queue!vars)
  BY DEF queueVars, Queue!vars
<1> QED BY <1>1, QueueKeeps, QueueImplements

-------------------------------------------------------------------------------
(* The parts side by side (Io)                                             *)

IoInv == DiskInv /\ CardInv /\ DnsInv /\ EchoInv /\ WebInv /\ DeskInv /\ QueueInv

\* A step is one part's; it leaves the others where they are.
LEMMA IoParts ==
  ASSUME [IoNext]_ioVars
  PROVE  /\ Disk!Next \/ UNCHANGED diskVars
         /\ Card!Next \/ UNCHANGED cardVars
         /\ Dns!Next \/ UNCHANGED dnsVars
         /\ Echo!Next \/ UNCHANGED pingVars
         /\ Web!Next \/ UNCHANGED webVars
         /\ Desk!Next \/ UNCHANGED ps2Vars
         /\ Queue!Next \/ UNCHANGED queueVars
BY DEF IoNext, FileStep, SockStep, DiskStep, CardStep, DnsStep, EchoStep, WebStep, DeskStep, QueueStep,
       ioVars

LEMMA IoSteps == IoInv /\ [IoNext]_ioVars => IoInv'
<1> SUFFICES ASSUME IoInv, [IoNext]_ioVars PROVE IoInv'
  OBVIOUS
<1>1. DiskInv' /\ CardInv' /\ DnsInv'
  BY IoParts, DiskSteps, CardSteps, DnsSteps DEF IoInv
<1>2. EchoInv' /\ WebInv' /\ DeskInv' /\ QueueInv'
  BY IoParts, EchoSteps, WebSteps, DeskSteps, QueueSteps DEF IoInv
<1> QED BY <1>1, <1>2 DEF IoInv

\* All parts keep their invariants side by side.
LEMMA IoInvariant == IoSpec => []IoInv
<1>1. IoInit => IoInv
  BY DiskInit, CardInit, DnsInit, EchoInit, WebInit, DeskInit, QueueInit
  DEF IoInit, IoInv
<1> QED BY <1>1, IoSteps, PTL DEF IoSpec

\* A sector holds only what was meant for it, a request that succeeded was carried out, the
\* network card and its driver never both own a buffer, and no packet is doubled or out of
\* order when the indices wrap (ahci.c:270-390, storage.c:84-160, virtio_net.c:199-262).
THEOREM DevicesAreSound == IoSpec => []DevicesSound
<1>1. IoInv => DevicesSound
  BY DiskSound, CardSound DEF IoInv, DevicesSound
<1> QED BY <1>1, IoInvariant, PTL

\* What a program is handed as an address is of a name it asked for, what it is handed as an
\* echo, if it pings alone, is of its own request, and each fetch gives back its socket and
\* its memory, however it ends (net.c:47-600, 680-1180).
THEOREM AnswersAreOwned == IoSpec => []AnswersOwned
<1>1. IoInv => AnswersOwned
  BY EchoTypesHold, WebSound DEF IoInv, DnsInv, AnswersOwned
<1> QED BY <1>1, IoInvariant, PTL

\* Only a connection that times out a second time has a client close the number of a socket
\* that is another's by then (net.c:880-960).
THEOREM AstrayOnlyAfterTimeout == IoSpec => OnlyAfterTimeout
<1>1. IoInv /\ [IoNext]_ioVars =>
        [~astray /\ astray' =>
            \E t \in Threads : op[t].at = "last" /\ op[t].closed /\ Web!Foreign(t)]_(Web!vars)
  <2> SUFFICES ASSUME IoInv, [IoNext]_ioVars, ~astray, astray'
               PROVE  \E t \in Threads : op[t].at = "last" /\ op[t].closed /\ Web!Foreign(t)
    OBVIOUS
  <2>1. Web!Next
    <3>1. Web!Next \/ UNCHANGED webVars
      BY IoParts
    <3>2. UNCHANGED webVars => (astray' <=> astray)
      BY ONLY DEF webVars
    <3> QED BY <3>1, <3>2
  <2> QED BY <2>1, WebAstray DEF IoInv
<1> QED BY <1>1, IoInvariant, PTL DEF IoSpec, OnlyAfterTimeout, Web!OnlyAfterTimeout

\* While no byte went to the wrong handler the keyboard's handler has every scan code, once
\* and in order, the mouse's packets are cut where the mouse cut them, and a modifier that is
\* set stands for a key that is held; the counters of the queue behind them always agree
\* (mouse.c:206-360, idt.c:434, input.c:37-80).
THEOREM InputIsKept == IoSpec => []InputKept
<1>1. IoInv => InputKept
  BY DeskSound, QueueSound DEF IoInv, InputKept
<1> QED BY <1>1, IoInvariant, PTL

\* Bytes begin to go to the wrong handler in one way only, when the mouse's handler empties
\* the controller and meets a scan code (mouse.c:324); and the ring of events implements the
\* queue that counts what it refuses (input.c:37-80).
THEOREM OnlyTheDrainLosesKeys == IoSpec => InputSteps
<1>1. IoInv /\ [IoNext]_ioVars =>
        [~crossed /\ crossed' => mouse.ready /\ ~controller[1].aux /\ heard' = heard]_(Desk!vars)
  <2> SUFFICES ASSUME IoInv, [IoNext]_ioVars, ~crossed, crossed'
               PROVE  mouse.ready /\ ~controller[1].aux /\ heard' = heard
    OBVIOUS
  <2>1. Desk!Next
    <3>1. Desk!Next \/ UNCHANGED ps2Vars
      BY IoParts
    <3>2. UNCHANGED ps2Vars => (crossed' <=> crossed)
      BY ONLY DEF ps2Vars
    <3> QED BY <3>1, <3>2
  <2> QED BY <2>1, DeskCrosses DEF IoInv
<1>2. IoInit => Queue!Fifo!Init
  BY QueueInit DEF IoInit
<1>3. IoInv /\ [IoNext]_ioVars => [Queue!Fifo!Next]_(Queue!Fifo!vars)
  <2> SUFFICES ASSUME IoInv, [IoNext]_ioVars PROVE [Queue!Fifo!Next]_(Queue!Fifo!vars)
    OBVIOUS
  <2>1. Queue!Next \/ UNCHANGED queueVars
    BY IoParts
  <2> QED BY <2>1, QueueSteps DEF IoInv
<1> QED BY <1>1, <1>2, <1>3, IoInvariant, PTL
        DEF IoSpec, InputSteps, Desk!OnlyTheDrainCrosses, Queue!ImplementsFifo, Queue!Fifo!Spec
================================================================================
