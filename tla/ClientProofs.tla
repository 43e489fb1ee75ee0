---------------------------- MODULE ClientProofs ----------------------------
(* Proofs about what a tab does over the wire, for any number of requests,  *)
(* batches, ports, groups and ranges: on the control channel a scan that    *)
(* resolves is whole, and a request that waits is queued, on its way, or    *)
(* was on a port that died; a viewport, or the blocks of a server-side grid,*)
(* that wait for nothing are current.                                       *)
EXTENDS ControlChannel, RowModes, DataLemmas, TLAPS

-----------------------------------------------------------------------------
(* Sequences in which nothing occurs twice.                                 *)

Once(s) == \A i, j \in DOMAIN s : s[i] = s[j] => i = j

LEMMA AppendSeq ==
    ASSUME NEW T, NEW s \in Seq(T), NEW x \in T
    PROVE  /\ Append(s, x) \in Seq(T)
           /\ ToSet(Append(s, x)) = ToSet(s) \cup {x}
           /\ Once(s) /\ x \notin ToSet(s) => Once(Append(s, x))
<1>1. Append(s, x) \in Seq(T) /\ DOMAIN Append(s, x) = 1 .. Len(s) + 1
      /\ Append(s, x)[Len(s) + 1] = x /\ \A i \in 1 .. Len(s) : Append(s, x)[i] = s[i]
    OBVIOUS
<1>2. DOMAIN s = 1 .. Len(s) /\ Len(s) \in Nat
    OBVIOUS
<1>3. ToSet(Append(s, x)) = ToSet(s) \cup {x}
    BY <1>1, <1>2 DEF ToSet
<1>4. Once(s) /\ x \notin ToSet(s) => Once(Append(s, x))
    BY <1>1, <1>2 DEF Once, ToSet
<1> QED BY <1>1, <1>3, <1>4

LEMMA TailSeq ==
    ASSUME NEW T, NEW s \in Seq(T), s # <<>>
    PROVE  /\ Head(s) \in T /\ Head(s) \in ToSet(s) /\ Tail(s) \in Seq(T)
           /\ ToSet(Tail(s)) \subseteq ToSet(s)
           /\ ToSet(s) = {Head(s)} \cup ToSet(Tail(s))
           /\ Once(s) => Once(Tail(s)) /\ Head(s) \notin ToSet(Tail(s))
<1>1. Tail(s) \in Seq(T) /\ DOMAIN Tail(s) = 1 .. Len(s) - 1 /\ Head(s) = s[1]
      /\ \A i \in 1 .. Len(s) - 1 : Tail(s)[i] = s[i + 1]
    OBVIOUS
<1>2. DOMAIN s = 1 .. Len(s) /\ Len(s) \in Nat \ {0}
    OBVIOUS
<1>3. ToSet(Tail(s)) \subseteq ToSet(s)
    BY <1>1, <1>2 DEF ToSet
<1>4. ToSet(s) \subseteq {Head(s)} \cup ToSet(Tail(s))
    <2>1. ASSUME NEW i \in DOMAIN s PROVE s[i] \in {Head(s)} \cup ToSet(Tail(s))
        <3>1. CASE i = 1
            BY <3>1, <1>1
        <3>2. CASE i # 1
            <4>1. i - 1 \in 1 .. Len(s) - 1
                BY <3>2, <1>2
            <4>2. Tail(s)[i - 1] = s[i]
                BY <4>1, <1>1, <1>2
            <4> QED BY <4>1, <4>2, <1>1 DEF ToSet
        <3> QED BY <3>1, <3>2
    <2> QED BY <2>1 DEF ToSet
<1>5. Head(s) \in T /\ Head(s) \in ToSet(s)
    BY <1>1, <1>2 DEF ToSet
<1>6. Once(s) => Once(Tail(s)) /\ Head(s) \notin ToSet(Tail(s))
    BY <1>1, <1>2 DEF Once, ToSet
<1> QED BY <1>1, <1>3, <1>4, <1>5, <1>6

LEMMA NothingTwice == ToSet(<<>>) = {} /\ Once(<<>>)
<1> DEFINE s == <<>>
<1>1. DOMAIN s = 1 .. 0
    OBVIOUS
<1> HIDE DEF s
<1>2. ToSet(s) = {}
    BY <1>1 DEF ToSet
<1>3. Once(s)
    BY <1>1 DEF Once
<1> QED BY <1>2, <1>3 DEF s

LEMMA EmptyConcat ==
    ASSUME NEW T, NEW s \in Seq(T)
    PROVE  <<>> \o s = s
OBVIOUS

-----------------------------------------------------------------------------
(* What a port brings back to a request: batches and the result in order,   *)
(* nothing left out.  A result comes where batch Batches + 1 would.         *)

Rank(m) == IF m.kind = "result" THEN Batches + 1 ELSE m.batch

Brings(d, i, r) == d[i].request = r /\ d[i].kind # "error"

\* Batch c of r is among the first n of d.
Carries(d, n, r, c) == \E j \in 1 .. n : d[j] = [request |-> r, kind |-> "partial", batch |-> c]

\* Every batch after g and up to b is among the first n of d.
Covers(d, n, r, g, b) == \A c \in Nat : g < c /\ c <= b => Carries(d, n, r, c)

InOrder(d, r, g) ==
    \A i \in DOMAIN d : Brings(d, i, r) =>
        Rank(d[i]) > g /\ Covers(d, i - 1, r, g, Rank(d[i]) - 1)

\* No batch comes twice.
NoneTwice(d, r) ==
    \A i, j \in DOMAIN d : /\ d[i].request = r /\ d[i].kind = "partial"
                           /\ d[j] = d[i]
                           => i = j

Told(d) == {d[i].request : i \in DOMAIN d}

LEMMA MessageFacts ==
    ASSUME NEW m \in Message
    PROVE  /\ m.request \in Requests /\ m.kind \in {"partial", "result", "error"}
           /\ m.batch \in Nat /\ m.batch <= Batches /\ Rank(m) \in Nat /\ Batches \in Nat
           /\ m = [request |-> m.request, kind |-> m.kind, batch |-> m.batch]
BY ControlChannelAssumption DEF Message, Rank

LEMMA AppendTold ==
    ASSUME NEW d \in Seq(Message), NEW m \in Message
    PROVE  Told(Append(d, m)) = Told(d) \cup {m.request}
<1>1. DOMAIN Append(d, m) = 1 .. Len(d) + 1 /\ DOMAIN d = 1 .. Len(d) /\ Len(d) \in Nat
      /\ Append(d, m)[Len(d) + 1] = m /\ \A i \in 1 .. Len(d) : Append(d, m)[i] = d[i]
    OBVIOUS
<1> QED BY <1>1 DEF Told

LEMMA TailTold ==
    ASSUME NEW d \in Seq(Message), d # <<>>
    PROVE  Told(Tail(d)) \subseteq Told(d) /\ Head(d).request \in Told(d)
<1>1. DOMAIN Tail(d) = 1 .. Len(d) - 1 /\ DOMAIN d = 1 .. Len(d) /\ Len(d) \in Nat \ {0}
      /\ Head(d) = d[1] /\ \A i \in 1 .. Len(d) - 1 : Tail(d)[i] = d[i + 1]
    OBVIOUS
<1> QED BY <1>1 DEF Told

\* Appending a message of another request, or one that comes next.
LEMMA AppendOrder ==
    ASSUME NEW d \in Seq(Message), NEW m \in Message, NEW r \in Requests, NEW g \in Nat,
           InOrder(d, r, g),
           m.request = r /\ m.kind # "error" =>
             Rank(m) > g /\ Covers(d, Len(d), r, g, Rank(m) - 1)
    PROVE  InOrder(Append(d, m), r, g)
<1>1. DOMAIN Append(d, m) = 1 .. Len(d) + 1 /\ DOMAIN d = 1 .. Len(d) /\ Len(d) \in Nat
      /\ Append(d, m)[Len(d) + 1] = m /\ \A i \in 1 .. Len(d) : Append(d, m)[i] = d[i]
    OBVIOUS
<1>2. ASSUME NEW n \in 0 .. Len(d), NEW c, Carries(d, n, r, c)
      PROVE  Carries(Append(d, m), n, r, c)
    BY <1>1, <1>2 DEF Carries
<1>3. ASSUME NEW n \in 0 .. Len(d), NEW b, Covers(d, n, r, g, b)
      PROVE  Covers(Append(d, m), n, r, g, b)
    BY <1>2, <1>3 DEF Covers
<1>4. ASSUME NEW i \in 1 .. Len(d) + 1, Brings(Append(d, m), i, r)
      PROVE  /\ Rank(Append(d, m)[i]) > g
             /\ Covers(Append(d, m), i - 1, r, g, Rank(Append(d, m)[i]) - 1)
    <2>1. CASE i = Len(d) + 1
        BY <2>1, <1>1, <1>3, <1>4 DEF Brings
    <2>2. CASE i # Len(d) + 1
        <3>1. i \in DOMAIN d /\ Append(d, m)[i] = d[i] /\ i - 1 \in 0 .. Len(d)
            BY <2>2, <1>1
        <3>2. Rank(d[i]) > g /\ Covers(d, i - 1, r, g, Rank(d[i]) - 1)
            BY <3>1, <1>4 DEF InOrder, Brings
        <3> QED BY <3>1, <3>2, <1>3
    <2> QED BY <2>1, <2>2
<1> QED BY <1>1, <1>4 DEF InOrder

\* The sender's own count stays covered, with the batch it just sent.
LEMMA AppendCovers ==
    ASSUME NEW d \in Seq(Message), NEW m \in Message, NEW r \in Requests, NEW g \in Nat,
           NEW b \in Nat, Covers(d, Len(d), r, g, b)
    PROVE  /\ Covers(Append(d, m), Len(Append(d, m)), r, g, b)
           /\ m = [request |-> r, kind |-> "partial", batch |-> b + 1] =>
                Covers(Append(d, m), Len(Append(d, m)), r, g, b + 1)
<1>1. Len(Append(d, m)) = Len(d) + 1 /\ Len(d) \in Nat
      /\ Append(d, m)[Len(d) + 1] = m /\ \A i \in 1 .. Len(d) : Append(d, m)[i] = d[i]
    OBVIOUS
<1>2. ASSUME NEW c, Carries(d, Len(d), r, c)
      PROVE  Carries(Append(d, m), Len(d) + 1, r, c)
    BY <1>1, <1>2 DEF Carries
<1>3. m = [request |-> r, kind |-> "partial", batch |-> b + 1] =>
        Carries(Append(d, m), Len(d) + 1, r, b + 1)
    BY <1>1 DEF Carries
<1> QED BY <1>1, <1>2, <1>3 DEF Covers

LEMMA AppendTwice ==
    ASSUME NEW d \in Seq(Message), NEW m \in Message, NEW r \in Requests, NoneTwice(d, r),
           m.request = r /\ m.kind = "partial" => \A i \in DOMAIN d : d[i] # m
    PROVE  NoneTwice(Append(d, m), r)
<1>1. DOMAIN Append(d, m) = 1 .. Len(d) + 1 /\ DOMAIN d = 1 .. Len(d) /\ Len(d) \in Nat
      /\ Append(d, m)[Len(d) + 1] = m /\ \A i \in 1 .. Len(d) : Append(d, m)[i] = d[i]
    OBVIOUS
<1> QED BY <1>1 DEF NoneTwice

LEMMA TailTwice ==
    ASSUME NEW d \in Seq(Message), d # <<>>, NEW r \in Requests, NoneTwice(d, r)
    PROVE  NoneTwice(Tail(d), r)
<1>1. DOMAIN Tail(d) = 1 .. Len(d) - 1 /\ DOMAIN d = 1 .. Len(d) /\ Len(d) \in Nat \ {0}
      /\ \A i \in 1 .. Len(d) - 1 : Tail(d)[i] = d[i + 1]
    OBVIOUS
<1> QED BY <1>1 DEF NoneTwice

\* What the first message of an ordered stream can be.
LEMMA HeadOrder ==
    ASSUME NEW d \in Seq(Message), d # <<>>, NEW r \in Requests, NEW g \in Nat,
           InOrder(d, r, g), Head(d).request = r, Head(d).kind # "error"
    PROVE  Rank(Head(d)) = g + 1
<1>1. DOMAIN d = 1 .. Len(d) /\ Len(d) \in Nat \ {0} /\ Head(d) = d[1] /\ d[1] \in Message
    OBVIOUS
<1>2. Rank(d[1]) > g /\ Covers(d, 0, r, g, Rank(d[1]) - 1)
    BY <1>1 DEF InOrder, Brings
<1>3. \A c : ~Carries(d, 0, r, c)
    BY DEF Carries
<1>4. Rank(d[1]) \in Nat
    BY <1>1, MessageFacts
<1>5. ~(g < g + 1 /\ g + 1 <= Rank(d[1]) - 1)
    BY <1>2, <1>3 DEF Covers
<1> QED BY <1>1, <1>2, <1>4, <1>5

\* A message that is no batch of r leaves r's stream in order.
LEMMA TailCovers ==
    ASSUME NEW d \in Seq(Message), d # <<>>, NEW r \in Requests, NEW g \in Nat,
           NEW n \in Nat, n < Len(d), NEW b \in Int, Covers(d, n + 1, r, g, b)
    PROVE  /\ ~(Head(d).request = r /\ Head(d).kind = "partial") => Covers(Tail(d), n, r, g, b)
           /\ Head(d) = [request |-> r, kind |-> "partial", batch |-> g + 1] =>
                Covers(Tail(d), n, r, g + 1, b)
<1>1. Len(d) \in Nat \ {0} /\ Head(d) = d[1]
      /\ \A i \in 1 .. Len(d) - 1 : Tail(d)[i] = d[i + 1]
    OBVIOUS
<1>2. ASSUME NEW c, Carries(d, n + 1, r, c),
             Head(d) # [request |-> r, kind |-> "partial", batch |-> c]
      PROVE  Carries(Tail(d), n, r, c)
    <2>1. PICK j \in 1 .. n + 1 : d[j] = [request |-> r, kind |-> "partial", batch |-> c]
        BY <1>2 DEF Carries
    <2>2. j # 1
        BY <2>1, <1>1, <1>2
    <2>3. j - 1 \in 1 .. n /\ Tail(d)[j - 1] = d[j]
        BY <2>2, <1>1
    <2> QED BY <2>1, <2>3 DEF Carries
<1>3. ASSUME ~(Head(d).request = r /\ Head(d).kind = "partial")
      PROVE  Covers(Tail(d), n, r, g, b)
    <2>1. \A c : Head(d) # [request |-> r, kind |-> "partial", batch |-> c]
        BY <1>3
    <2> QED BY <1>2, <2>1 DEF Covers
<1>4. ASSUME Head(d) = [request |-> r, kind |-> "partial", batch |-> g + 1]
      PROVE  Covers(Tail(d), n, r, g + 1, b)
    <2>1. ASSUME NEW c \in Nat, g + 1 < c, c <= b
          PROVE  Carries(Tail(d), n, r, c)
        <3>1. Head(d) # [request |-> r, kind |-> "partial", batch |-> c]
            BY <1>4, <2>1
        <3>2. g < c
            BY <2>1
        <3>3. Carries(d, n + 1, r, c)
            BY <3>2, <2>1 DEF Covers
        <3> QED BY <3>1, <3>3, <1>2
    <2> QED BY <2>1 DEF Covers
<1> QED BY <1>3, <1>4

LEMMA TailOrder ==
    ASSUME NEW d \in Seq(Message), d # <<>>, NEW r \in Requests, NEW g \in Nat, InOrder(d, r, g)
    PROVE  /\ ~(Head(d).request = r /\ Head(d).kind = "partial") => InOrder(Tail(d), r, g)
           /\ /\ NoneTwice(d, r)
              /\ Head(d) = [request |-> r, kind |-> "partial", batch |-> g + 1]
              => InOrder(Tail(d), r, g + 1)
<1>1. DOMAIN Tail(d) = 1 .. Len(d) - 1 /\ DOMAIN d = 1 .. Len(d) /\ Len(d) \in Nat \ {0}
      /\ Head(d) = d[1] /\ \A i \in 1 .. Len(d) - 1 : Tail(d)[i] = d[i + 1]
    OBVIOUS
<1>2. ASSUME NEW i \in 1 .. Len(d) - 1, Brings(Tail(d), i, r)
      PROVE  /\ Tail(d)[i] = d[i + 1] /\ d[i + 1] \in Message
             /\ Rank(d[i + 1]) > g
             /\ Covers(d, i, r, g, Rank(d[i + 1]) - 1)
    <2>1. i + 1 \in DOMAIN d /\ Tail(d)[i] = d[i + 1] /\ (i + 1) - 1 = i
        BY <1>1
    <2>2. Brings(d, i + 1, r)
        BY <1>2, <2>1 DEF Brings
    <2> QED BY <2>1, <2>2 DEF InOrder
<1>3. ASSUME ~(Head(d).request = r /\ Head(d).kind = "partial")
      PROVE  InOrder(Tail(d), r, g)
    <2>1. ASSUME NEW i \in 1 .. Len(d) - 1, Brings(Tail(d), i, r)
          PROVE  Rank(Tail(d)[i]) > g /\ Covers(Tail(d), i - 1, r, g, Rank(Tail(d)[i]) - 1)
        <3> i - 1 \in Nat /\ i - 1 < Len(d) /\ (i - 1) + 1 = i
            BY <1>1
        <3>1. Rank(d[i + 1]) \in Nat /\ Tail(d)[i] = d[i + 1]
            BY <1>2, <2>1, MessageFacts
        <3> QED BY <3>1, <1>2, <1>3, <2>1, TailCovers
    <2> QED BY <2>1, <1>1 DEF InOrder
<1>4. ASSUME NoneTwice(d, r), Head(d) = [request |-> r, kind |-> "partial", batch |-> g + 1]
      PROVE  InOrder(Tail(d), r, g + 1)
    <2>1. ASSUME NEW i \in 1 .. Len(d) - 1, Brings(Tail(d), i, r)
          PROVE  Rank(Tail(d)[i]) > g + 1 /\ Covers(Tail(d), i - 1, r, g + 1, Rank(Tail(d)[i]) - 1)
        <3> i - 1 \in Nat /\ i - 1 < Len(d) /\ (i - 1) + 1 = i
            BY <1>1
        <3>1. Rank(d[i + 1]) \in Nat /\ Tail(d)[i] = d[i + 1]
            BY <1>2, <2>1, MessageFacts
        <3>2. Covers(Tail(d), i - 1, r, g + 1, Rank(Tail(d)[i]) - 1)
            BY <3>1, <1>2, <1>4, <2>1, TailCovers
        <3>3. Rank(d[i + 1]) # g + 1
            <4>1. SUFFICES ASSUME Rank(d[i + 1]) = g + 1 PROVE FALSE
                OBVIOUS
            <4>2. d[i + 1].request = r /\ d[i + 1].kind # "error"
                BY <2>1, <1>2 DEF Brings
            <4>3. CASE d[i + 1].kind = "result"
                <5>1. Batches + 1 = g + 1
                    BY <4>1, <4>3 DEF Rank
                <5>2. Head(d) \in Message
                    OBVIOUS
                <5>3. g + 1 <= Batches
                    BY <5>2, <1>4, MessageFacts
                <5> QED BY <5>1, <5>3, ControlChannelAssumption
            <4>4. CASE d[i + 1].kind = "partial"
                <5>1. d[i + 1].batch = g + 1
                    BY <4>1, <4>4 DEF Rank
                <5>2. d[i + 1] = [request |-> r, kind |-> "partial", batch |-> g + 1]
                    BY <5>1, <4>2, <4>4, <1>2, <2>1, MessageFacts
                <5>3. d[1] = d[i + 1] /\ 1 \in DOMAIN d /\ i + 1 \in DOMAIN d
                    BY <5>2, <1>1, <1>4
                <5>4. 1 = i + 1
                    BY <5>3, <4>2, <4>4, <1>4, <1>1 DEF NoneTwice
                <5> QED BY <5>4
            <4> QED BY <4>2, <4>3, <4>4, <1>2, <2>1, MessageFacts
        <3>4. Rank(d[i + 1]) \in Nat
            BY <1>2, <2>1, MessageFacts
        <3> QED BY <3>2, <3>3, <3>4, <1>2, <2>1
    <2> QED BY <2>1, <1>1 DEF InOrder
<1> QED BY <1>3, <1>4

LEMMA EmptyOrder ==
    ASSUME NEW r, NEW g
    PROVE  Told(<<>>) = {} /\ InOrder(<<>>, r, g) /\ NoneTwice(<<>>, r)
<1>1. DOMAIN <<>> = {}
    OBVIOUS
<1> QED BY <1>1 DEF Told, InOrder, NoneTwice

\* A message of another request says nothing to r.
LEMMA UntoldOrder ==
    ASSUME NEW d \in Seq(Message), NEW r, r \notin Told(d), NEW g
    PROVE  InOrder(d, r, g) /\ NoneTwice(d, r)
BY DEF Told, InOrder, NoneTwice, Brings

-----------------------------------------------------------------------------
(* The invariant.                                                           *)

PortState == [life : PortLife, closes : 0 .. 2, held : Seq(Requests), up : Seq(Requests),
              down : Seq(Message)]

Types ==
    /\ request \in [Requests -> [at : {"new", "pending"} \cup Settled, got : Seq(Nat)]]
    /\ carrier \in [Requests -> 0 .. MaxPorts]
    /\ outbox \in Seq(Requests)
    /\ current \in Ports
    /\ connected \in BOOLEAN
    /\ port \in [Ports -> PortState]
    /\ serving \subseteq [request : Requests, port : Ports, sent : 0 .. Batches]

\* A queued request is on no port, once in the queue; one that no port took
\* has heard nothing.
Queued ==
    /\ Once(outbox) /\ \A r \in ToSet(outbox) : carrier[r] = 0
    /\ \A r \in Requests : /\ request[r].at = "new" => carrier[r] = 0 /\ r \notin ToSet(outbox)
                           /\ carrier[r] = 0 => request[r].got = <<>>

Opened ==
    /\ port[current].life # "unopened"
    /\ \A p \in Ports : p > current => port[p].life = "unopened"

\* What a port carries, and for whom: a request is on its carrier only, and
\* once, and is not answered before it is taken.
Carrying(pt) == ToSet(pt.held) \cup ToSet(pt.up) \cup Told(pt.down)

PortHolds(pt) ==
    /\ pt.life # "open" => pt.up = <<>> /\ pt.down = <<>>
    /\ pt.life # "joining" => pt.held = <<>>
    /\ Once(pt.held) /\ Once(pt.up)
    /\ \A r \in ToSet(pt.up) : r \notin Told(pt.down)

Placed == \A p \in Ports : PortHolds(port[p]) /\ \A r \in Carrying(port[p]) : carrier[r] = p

Served ==
    /\ \A s \in serving : /\ port[s.port].life = "open" /\ carrier[s.request] = s.port
                          /\ s.request \notin ToSet(port[s.port].up)
    /\ \A s, t \in serving : s.request = t.request => s = t

\* What a waiting scan has heard, and will hear, is its batches in order.
Streams(d, got, r) ==
    /\ InOrder(d, r, Len(got)) /\ NoneTwice(d, r)
    /\ \A i \in 1 .. Len(got) : got[i] = i

Unheard(pt, r, got) == r \in ToSet(pt.held) \cup ToSet(pt.up) => got = <<>>

Streaming ==
    \A r \in Scans : request[r].at = "pending" /\ carrier[r] # 0 =>
        /\ Streams(port[carrier[r]].down, request[r].got, r)
        /\ Unheard(port[carrier[r]], r, request[r].got)

\* The hub's count is the batches that are heard or on their way.
Sent(s, d, g) ==
    /\ g <= s.sent
    /\ Covers(d, Len(d), s.request, g, s.sent)
    /\ \A i \in DOMAIN d : d[i].request = s.request /\ d[i].kind = "partial" => d[i].batch <= s.sent

Sending ==
    \A s \in serving : s.request \in Scans /\ request[s.request].at = "pending" =>
        Sent(s, port[s.port].down, Len(request[s.request].got))

ChannelInv ==
    /\ Types /\ Queued /\ Opened /\ Placed /\ Served /\ Streaming /\ Sending
    /\ ResolvedScanIsWhole

-----------------------------------------------------------------------------
(* Every step keeps it.                                                     *)

LEMMA InitChannel == ControlInit => ChannelInv
<1> SUFFICES ASSUME ControlInit PROVE ChannelInv
    OBVIOUS
<1> USE DEF ControlInit
<1>1. Types
    <2>1. Unopened \in PortState /\ [Unopened EXCEPT !.life = "joining"] \in PortState
        <3>1. <<>> \in Seq(Requests) /\ <<>> \in Seq(Message) /\ 0 \in 0 .. 2
            OBVIOUS
        <3> HIDE DEF ControlInit
        <3>2. Unopened \in PortState
            BY <3>1 DEF PortState, Unopened, PortLife
        <3>3. [Unopened EXCEPT !.life = "joining"] \in PortState
            BY <3>1, <3>2 DEF PortState, PortLife
        <3> QED BY <3>2, <3>3
    <2>2. 1 \in Ports /\ Ports = 1 .. MaxPorts
        BY ControlChannelAssumption DEF Ports
    <2> QED BY <2>1, <2>2, ControlChannelAssumption DEF Types
<1>2. Queued
    BY NothingTwice DEF Queued
<1>3. Opened
    BY ControlChannelAssumption DEF Opened, Ports, Unopened
<1>4. Placed
    BY NothingTwice, EmptyOrder DEF Placed, PortHolds, Carrying, Unopened
<1>5. Served /\ Sending
    BY DEF Served, Sending
<1>6. Streaming /\ ResolvedScanIsWhole
    BY ControlChannelAssumption DEF Streaming, ResolvedScanIsWhole
<1> QED BY <1>1, <1>2, <1>3, <1>4, <1>5, <1>6 DEF ChannelInv

\* A request that only times out, or a port that only ends, disturbs nothing.
LEMMA TimeoutKeeps ==
    ASSUME ChannelInv, NEW r \in Requests, RequestTimeout(r)
    PROVE  ChannelInv'
<1> USE DEF ChannelInv, RequestTimeout
<1>1. request' \in [Requests -> [at : {"new", "pending"} \cup Settled, got : Seq(Nat)]]
      /\ \A q \in Requests : /\ request'[q].got = request[q].got
                             /\ request'[q].at # "timedOut" => request'[q] = request[q]
                             /\ request'[q].at \notin {"new", "timedOut"} => request'[q] = request[q]
    BY DEF Types, Settled
<1>2. Types'
    BY <1>1 DEF Types
<1>3. Queued'
    BY <1>1 DEF Queued
<1>4. Opened' /\ Placed' /\ Served'
    BY DEF Opened, Placed, Served
<1>5. Streaming' /\ Sending' /\ ResolvedScanIsWhole'
    BY <1>1, ControlChannelAssumption DEF Streaming, Sending, ResolvedScanIsWhole, Types
<1> QED BY <1>2, <1>3, <1>4, <1>5

LEMMA CloseKeeps ==
    ASSUME ChannelInv, NEW p \in Ports, HandleClose(p)
    PROVE  ChannelInv'
<1> USE DEF ChannelInv, HandleClose
<1>1. port' \in [Ports -> PortState]
      /\ \A q \in Ports : /\ port'[q].life = port[q].life /\ port'[q].held = port[q].held
                          /\ port'[q].up = port[q].up /\ port'[q].down = port[q].down
    <2>1. port \in [Ports -> PortState] /\ port[p].closes - 1 \in 0 .. 2
        BY DEF Types, PortState
    <2>2. port' = [port EXCEPT ![p] = [port[p] EXCEPT !.closes = port[p].closes - 1]]
        OBVIOUS
    <2>3. [port[p] EXCEPT !.closes = port[p].closes - 1] \in PortState
        BY <2>1 DEF PortState
    <2> QED BY <2>1, <2>2, <2>3 DEF PortState
<1>2. Types'
    BY <1>1 DEF Types
<1>3. Queued' /\ ResolvedScanIsWhole'
    BY DEF Queued, ResolvedScanIsWhole
<1>4. Opened'
    BY <1>1 DEF Opened, Types
<1>5. Placed'
    BY <1>1 DEF Placed, PortHolds, Carrying
<1>6. Served' /\ Sending'
    BY <1>1 DEF Served, Sending, Types
<1>7. Streaming'
    BY <1>1, ControlChannelAssumption DEF Streaming, Unheard, Types, Ports
<1> QED BY <1>2, <1>3, <1>4, <1>5, <1>6, <1>7

LEMMA PortFacts ==
    ASSUME Types, NEW p \in Ports
    PROVE  /\ port[p] \in PortState /\ port[p].life \in PortLife /\ p \in Nat \ {0}
           /\ port[p].held \in Seq(Requests) /\ port[p].up \in Seq(Requests)
           /\ port[p].down \in Seq(Message)
BY ControlChannelAssumption DEF Types, PortState, Ports

\* A step of one port.
LEMMA OnePort ==
    ASSUME Types, NEW p \in Ports, NEW pt \in PortState, port' = [port EXCEPT ![p] = pt]
    PROVE  port' \in [Ports -> PortState] /\ port'[p] = pt
           /\ \A q \in Ports : q # p => port'[q] = port[q]
BY DEF Types

LEMMA OnePortPlaced ==
    ASSUME Placed, NEW p \in Ports, NEW pt, port'[p] = pt, UNCHANGED carrier,
           \A q \in Ports : q # p => port'[q] = port[q],
           PortHolds(pt), \A r \in Carrying(pt) : carrier[r] = p
    PROVE  Placed'
BY DEF Placed, PortHolds, Carrying

LEMMA ScanFacts ==
    ASSUME Types, NEW r \in Scans
    PROVE  /\ r \in Requests /\ request[r].got \in Seq(Nat) /\ Len(request[r].got) \in Nat
           /\ carrier[r] # 0 => carrier[r] \in Ports
BY ControlChannelAssumption DEF Types, Ports

LEMMA BreakKeeps ==
    ASSUME ChannelInv, NEW p \in Ports, Break(p)
    PROVE  ChannelInv'
<1> USE DEF ChannelInv
<1>1. PICK n \in {1, 2} :
        port' = [port EXCEPT ![p] = [Unopened EXCEPT !.life = "dead", !.closes = n]]
    BY DEF Break
<1> DEFINE pt == [Unopened EXCEPT !.life = "dead", !.closes = n]
<1>2. /\ pt \in PortState /\ pt.life = "dead"
      /\ pt.held = <<>> /\ pt.up = <<>> /\ pt.down = <<>>
    <2>1. <<>> \in Seq(Requests) /\ <<>> \in Seq(Message) /\ n \in 0 .. 2
        OBVIOUS
    <2> QED BY <2>1 DEF PortState, Unopened, PortLife
<1> HIDE DEF pt
<1>3. port' \in [Ports -> PortState] /\ port'[p] = pt
      /\ \A q \in Ports : q # p => port'[q] = port[q]
    BY <1>1, <1>2, OnePort DEF pt
<1>4. /\ serving' = {s \in serving : s.port # p}
      /\ UNCHANGED <<request, carrier, outbox, current, connected>>
    BY DEF Break
<1>5. Types'
    BY <1>3, <1>4 DEF Types
<1>6. Queued' /\ ResolvedScanIsWhole'
    BY <1>4 DEF Queued, ResolvedScanIsWhole
<1>7. Opened'
    <2>1. port[p].life # "unopened"
        BY DEF Break, Alive
    <2> QED BY <2>1, <1>2, <1>3, <1>4 DEF Opened, Types
<1>8. Placed'
    <2>1. PortHolds(pt) /\ Carrying(pt) = {}
        BY <1>2, NothingTwice, EmptyOrder DEF PortHolds, Carrying
    <2> QED BY <2>1, <1>3, <1>4, OnePortPlaced
<1>9. Served' /\ Sending'
    <2>1. \A s \in serving' : s \in serving /\ port'[s.port] = port[s.port]
        BY <1>3, <1>4 DEF Types
    <2> QED BY <2>1, <1>4 DEF Served, Sending
<1>10. Streaming'
    <2> SUFFICES ASSUME NEW r \in Scans, request[r].at = "pending", carrier[r] # 0
                 PROVE  /\ Streams(port'[carrier[r]].down, request[r].got, r)
                        /\ Unheard(port'[carrier[r]], r, request[r].got)
        BY <1>4 DEF Streaming
    <2>1. CASE carrier[r] = p
        <3>1. Streams(port[carrier[r]].down, request[r].got, r)
            BY DEF Streaming
        <3>2. InOrder(<<>>, r, Len(request[r].got)) /\ NoneTwice(<<>>, r)
            BY EmptyOrder
        <3>3. Streams(pt.down, request[r].got, r)
            BY <3>1, <3>2, <1>2 DEF Streams
        <3>4. Unheard(pt, r, request[r].got)
            BY <1>2, NothingTwice DEF Unheard
        <3> QED BY <2>1, <3>3, <3>4, <1>3
    <2>2. CASE carrier[r] # p
        BY <2>2, <1>3, ScanFacts DEF Streaming
    <2> QED BY <2>1, <2>2
<1> QED BY <1>5, <1>6, <1>7, <1>8, <1>9, <1>10

LEMMA JoinedKeeps ==
    ASSUME ChannelInv, NEW p \in Ports, Joined(p)
    PROVE  ChannelInv'
<1> USE DEF ChannelInv
<1> DEFINE old == port[p]
           pt == [old EXCEPT !.life = "open", !.held = <<>>, !.up = old.held]
<1>1. /\ old \in PortState /\ old.life = "joining" /\ old.up = <<>> /\ old.down = <<>>
      /\ PortHolds(old) /\ \A r \in Carrying(old) : carrier[r] = p
    BY PortFacts DEF Joined, Placed, PortHolds
<1>2. /\ pt \in PortState /\ pt.life = "open"
      /\ pt.held = <<>> /\ pt.up = old.held /\ pt.down = <<>>
    <2>1. <<>> \in Seq(Requests) /\ old.held \in Seq(Requests)
        BY <1>1 DEF PortState
    <2> QED BY <2>1, <1>1 DEF PortState, PortLife
<1>3. port' = [port EXCEPT ![p] = pt]
    <2>1. old.up \o old.held = old.held
        BY <1>1, EmptyConcat DEF PortState
    <2> QED BY <2>1 DEF Joined
<1> HIDE DEF old, pt
<1>4. port' \in [Ports -> PortState] /\ port'[p] = pt
      /\ \A q \in Ports : q # p => port'[q] = port[q]
    BY <1>2, <1>3, OnePort
<1>5. UNCHANGED <<request, carrier, outbox, current, connected, serving>>
    BY DEF Joined
<1>6. Types' /\ Queued' /\ ResolvedScanIsWhole'
    BY <1>4, <1>5 DEF Types, Queued, ResolvedScanIsWhole
<1>7. Opened'
    BY <1>1, <1>2, <1>4, <1>5 DEF Opened, Types, old
<1>8. Placed'
    <2>1. PortHolds(pt) /\ Carrying(pt) \subseteq Carrying(old)
        BY <1>1, <1>2, NothingTwice, EmptyOrder DEF PortHolds, Carrying
    <2> QED BY <2>1, <1>1, <1>4, <1>5, OnePortPlaced
<1>9. Served' /\ Sending'
    <2>1. \A s \in serving : port'[s.port] = port[s.port]
        BY <1>1, <1>4 DEF Served, Types, old
    <2> QED BY <2>1, <1>5 DEF Served, Sending
<1>10. Streaming'
    <2> SUFFICES ASSUME NEW r \in Scans, request[r].at = "pending", carrier[r] # 0
                 PROVE  /\ Streams(port'[carrier[r]].down, request[r].got, r)
                        /\ Unheard(port'[carrier[r]], r, request[r].got)
        BY <1>5 DEF Streaming
    <2>1. CASE carrier[r] = p
        BY <2>1, <1>1, <1>2, <1>4 DEF Streaming, Unheard, old
    <2>2. CASE carrier[r] # p
        BY <2>2, <1>4, ScanFacts DEF Streaming
    <2> QED BY <2>1, <2>2
<1> QED BY <1>6, <1>7, <1>8, <1>9, <1>10

LEMMA TakesKeeps ==
    ASSUME ChannelInv, NEW p \in Ports, HubTakes(p)
    PROVE  ChannelInv'
<1> USE DEF ChannelInv
<1> DEFINE old == port[p]
           taken == Head(old.up)
           pt == [old EXCEPT !.up = Tail(old.up)]
           new == [request |-> taken, port |-> p, sent |-> 0]
<1>1. /\ old \in PortState /\ old.up \in Seq(Requests) /\ old.up # <<>> /\ old.life = "open"
      /\ old.held = <<>> /\ old.down \in Seq(Message)
      /\ PortHolds(old) /\ \A r \in Carrying(old) : carrier[r] = p
    BY PortFacts DEF HubTakes, Placed, PortHolds
<1>2. /\ port' = [port EXCEPT ![p] = pt] /\ serving' = serving \cup {new}
      /\ UNCHANGED <<request, carrier, outbox, current, connected>>
    BY DEF HubTakes
<1>3. /\ taken \in Requests /\ taken \in ToSet(old.up)
      /\ Tail(old.up) \in Seq(Requests) /\ ToSet(Tail(old.up)) \subseteq ToSet(old.up)
      /\ Once(Tail(old.up)) /\ taken \notin ToSet(Tail(old.up))
    BY <1>1, TailSeq DEF PortHolds
<1>4. /\ taken \in Carrying(old) /\ carrier[taken] = p /\ taken \notin Told(old.down)
    BY <1>1, <1>3 DEF Carrying, PortHolds
<1>5. /\ pt \in PortState /\ pt.life = "open" /\ pt.held = old.held
      /\ pt.up = Tail(old.up) /\ pt.down = old.down
    BY <1>1, <1>3 DEF PortState
<1>6. /\ new \in [request : Requests, port : Ports, sent : 0 .. Batches]
      /\ new.request = taken /\ new.port = p /\ new.sent = 0
    BY <1>3, ControlChannelAssumption
<1> HIDE DEF old, taken, pt, new
<1>7. port' \in [Ports -> PortState] /\ port'[p] = pt
      /\ \A q \in Ports : q # p => port'[q] = port[q]
    BY <1>2, <1>5, OnePort
<1>8. Types' /\ Queued' /\ ResolvedScanIsWhole'
    BY <1>2, <1>6, <1>7 DEF Types, Queued, ResolvedScanIsWhole
<1>9. Opened'
    BY <1>1, <1>2, <1>5, <1>7 DEF Opened, Types, old
<1>10. Placed'
    <2>1. PortHolds(pt) /\ Carrying(pt) \subseteq Carrying(old)
        BY <1>1, <1>3, <1>5 DEF PortHolds, Carrying
    <2> QED BY <2>1, <1>1, <1>2, <1>7, OnePortPlaced
<1>11. Served'
    <2>1. \A s \in serving : s.request # taken
        BY <1>3, <1>4 DEF Served, old
    <2>2. \A q \in Ports : port'[q].life = port[q].life /\ ToSet(port'[q].up) \subseteq ToSet(port[q].up)
        BY <1>1, <1>3, <1>5, <1>7 DEF old
    <2>3. \A s \in serving : s.port \in Ports
        BY DEF Types
    <2>4. ASSUME NEW s \in serving'
          PROVE  /\ port'[s.port].life = "open" /\ carrier[s.request] = s.port
                 /\ s.request \notin ToSet(port'[s.port].up)
        <3>1. CASE s = new
            BY <3>1, <1>3, <1>4, <1>5, <1>6, <1>7, <1>1
        <3>2. CASE s \in serving
            BY <3>2, <2>2, <2>3 DEF Served
        <3> QED BY <3>1, <3>2, <1>2
    <2>5. \A s, t \in serving' : s.request = t.request => s = t
        BY <2>1, <1>2, <1>6 DEF Served
    <2> QED BY <2>4, <2>5, <1>2 DEF Served
<1>12. Sending'
    <2>1. \A q \in Ports : port'[q].down = port[q].down
        BY <1>5, <1>7 DEF old
    <2>2. ASSUME taken \in Scans, request[taken].at = "pending"
          PROVE  Sent(new, pt.down, Len(request[taken].got))
        <3>1. carrier[taken] # 0 /\ port[carrier[taken]] = old
            BY <1>4, PortFacts DEF old
        <3>2. request[taken].got = <<>>
            BY <2>2, <3>1, <1>3 DEF Streaming, Unheard
        <3>3. Len(request[taken].got) = 0
            BY <3>2
        <3>4. Covers(pt.down, Len(pt.down), taken, 0, 0)
            BY DEF Covers
        <3>5. \A i \in DOMAIN pt.down : pt.down[i].request # taken
            BY <1>4, <1>5 DEF Told
        <3> QED BY <3>3, <3>4, <3>5, <1>6 DEF Sent
    <2>3. ASSUME NEW s \in serving', s.request \in Scans, request[s.request].at = "pending"
          PROVE  Sent(s, port'[s.port].down, Len(request[s.request].got))
        <3>1. CASE s = new
            BY <3>1, <2>2, <2>3, <1>6, <1>7
        <3>2. CASE s \in serving
            BY <3>2, <2>1, <2>3 DEF Sending, Types
        <3> QED BY <3>1, <3>2, <1>2
    <2> QED BY <2>3, <1>2 DEF Sending
<1>13. Streaming'
    <2>1. \A q \in Ports : port'[q].down = port[q].down /\ port'[q].held = port[q].held
                           /\ ToSet(port'[q].up) \subseteq ToSet(port[q].up)
        BY <1>3, <1>5, <1>7 DEF old
    <2> QED BY <2>1, <1>2, ScanFacts DEF Streaming, Unheard
<1> QED BY <1>8, <1>9, <1>10, <1>11, <1>12, <1>13

\* What a step that sends one message on port p leaves as it was.
LEMMA SendFacts ==
    ASSUME ChannelInv, NEW s \in serving, NEW kind \in {"partial", "result", "error"},
           NEW n \in 0 .. Batches, Sends(s, kind, n),
           UNCHANGED <<request, carrier, outbox, current, connected>>,
           serving' \subseteq [request : Requests, port : Ports, sent : 0 .. Batches],
           \A t \in serving' : \E u \in serving : t.request = u.request /\ t.port = u.port,
           \A t, u \in serving' : t.request = u.request => t = u
    PROVE  /\ Types' /\ Queued' /\ Opened' /\ Placed' /\ Served' /\ ResolvedScanIsWhole'
           /\ \A q \in Ports : port'[q].held = port[q].held /\ port'[q].up = port[q].up
                               /\ (q # s.port => port'[q].down = port[q].down)
           /\ port'[s.port].down =
                Append(port[s.port].down, [request |-> s.request, kind |-> kind, batch |-> n])
<1> USE DEF ChannelInv
<1> DEFINE p == s.port
           old == port[p]
           m == [request |-> s.request, kind |-> kind, batch |-> n]
           pt == [old EXCEPT !.down = Append(old.down, m)]
<1>1. /\ p \in Ports /\ s.request \in Requests /\ m \in Message
      /\ old.life = "open" /\ carrier[s.request] = p /\ s.request \notin ToSet(old.up)
    BY DEF Types, Served, Message
<1>2. /\ old \in PortState /\ old.down \in Seq(Message)
      /\ PortHolds(old) /\ \A r \in Carrying(old) : carrier[r] = p
    BY <1>1, PortFacts DEF Placed
<1>3. /\ pt \in PortState /\ pt.life = old.life /\ pt.held = old.held /\ pt.up = old.up
      /\ pt.down = Append(old.down, m) /\ Told(pt.down) = Told(old.down) \cup {s.request}
    <2>1. Append(old.down, m) \in Seq(Message)
        BY <1>1, <1>2
    <2>2. Told(Append(old.down, m)) = Told(old.down) \cup {s.request}
        BY <1>1, <1>2, AppendTold
    <2> QED BY <2>1, <2>2, <1>2 DEF PortState
<1>4. port' = [port EXCEPT ![p] = pt]
    BY DEF Sends
<1> HIDE DEF p, old, m, pt
<1>5. port' \in [Ports -> PortState] /\ port'[p] = pt
      /\ \A q \in Ports : q # p => port'[q] = port[q]
    BY <1>1, <1>3, <1>4, OnePort
<1>6. Types' /\ Queued' /\ ResolvedScanIsWhole'
    BY <1>5 DEF Types, Queued, ResolvedScanIsWhole
<1>7. \A q \in Ports : port'[q].life = port[q].life /\ port'[q].held = port[q].held
                       /\ port'[q].up = port[q].up
    BY <1>3, <1>5 DEF old
<1>8. Opened'
    BY <1>7 DEF Opened, Types
<1>9. Placed'
    <2>1. PortHolds(pt) /\ Carrying(pt) = Carrying(old) \cup {s.request}
        BY <1>1, <1>2, <1>3 DEF PortHolds, Carrying
    <2> QED BY <2>1, <1>1, <1>2, <1>5, OnePortPlaced
<1>10. Served'
    <2>1. \A u \in serving : u.port \in Ports
        BY DEF Types
    <2> QED BY <2>1, <1>7 DEF Served
<1>11. \A q \in Ports : q # p => port'[q].down = port[q].down
    BY <1>5
<1>12. port'[p].down = Append(port[p].down, m)
    BY <1>3, <1>5 DEF old
<1> QED BY <1>6, <1>7, <1>8, <1>9, <1>10, <1>11, <1>12 DEF p, m

\* The message is one that d, after g batches were heard, lacks.
ComesNext(m, d, g) ==
    /\ m.kind # "error" => Rank(m) > g /\ Covers(d, Len(d), m.request, g, Rank(m) - 1)
    /\ m.kind = "partial" => \A i \in DOMAIN d : d[i] # m

\* A message that comes next for its own request leaves every stream in
\* order, and the counts of the other requests as they were.
LEMMA SendKeepsOthers ==
    ASSUME ChannelInv, NEW s \in serving, NEW m \in Message, m.request = s.request,
           UNCHANGED <<request, carrier>>,
           \A q \in Ports : port'[q].held = port[q].held /\ port'[q].up = port[q].up
                            /\ (q # s.port => port'[q].down = port[q].down),
           port'[s.port].down = Append(port[s.port].down, m),
           s.request \in Scans /\ request[s.request].at = "pending" =>
             ComesNext(m, port[s.port].down, Len(request[s.request].got))
    PROVE  /\ Streaming'
           /\ \A t \in serving : t.request # s.request /\ t.request \in Scans
                                 /\ request[t.request].at = "pending" =>
                Sent(t, port'[t.port].down, Len(request[t.request].got))
<1> USE DEF ChannelInv
<1> DEFINE p == s.port
           d == port[p].down
<1>1. /\ p \in Ports /\ p # 0 /\ carrier[s.request] = p /\ d \in Seq(Message)
      /\ s.request \in Requests
    BY PortFacts DEF Types, Served
<1>2. ASSUME NEW r \in Scans, request[r].at = "pending", carrier[r] # 0
      PROVE  /\ Streams(port'[carrier[r]].down, request[r].got, r)
             /\ Unheard(port'[carrier[r]], r, request[r].got)
    <2>1. /\ Streams(port[carrier[r]].down, request[r].got, r) /\ carrier[r] \in Ports
          /\ Unheard(port[carrier[r]], r, request[r].got) /\ r \in Requests
          /\ Len(request[r].got) \in Nat
        BY <1>2, ScanFacts DEF Streaming
    <2>2. Unheard(port'[carrier[r]], r, request[r].got)
        <3>1. port'[carrier[r]].held = port[carrier[r]].held
              /\ port'[carrier[r]].up = port[carrier[r]].up
            BY <2>1
        <3> QED BY <2>1, <3>1 DEF Unheard
    <2>3. CASE carrier[r] # p
        <3>1. port'[carrier[r]].down = port[carrier[r]].down
            BY <2>1, <2>3
        <3> QED BY <2>1, <2>2, <3>1
    <2>4. CASE carrier[r] = p /\ r # s.request
        <3>1. InOrder(Append(d, m), r, Len(request[r].got)) /\ NoneTwice(Append(d, m), r)
            BY <2>1, <2>4, <1>1, AppendOrder, AppendTwice DEF Streams
        <3> QED BY <2>1, <2>2, <2>4, <3>1 DEF Streams
    <2>5. CASE r = s.request
        <3>1. /\ m.kind # "error" => Rank(m) > Len(request[r].got)
                    /\ Covers(d, Len(d), r, Len(request[r].got), Rank(m) - 1)
              /\ m.kind = "partial" => \A i \in DOMAIN d : d[i] # m
            BY <1>2, <2>5 DEF ComesNext
        <3>2. InOrder(Append(d, m), r, Len(request[r].got)) /\ NoneTwice(Append(d, m), r)
            BY <2>1, <2>5, <3>1, <1>1, AppendOrder, AppendTwice DEF Streams
        <3> QED BY <2>1, <2>2, <2>5, <3>2, <1>1 DEF Streams
    <2> QED BY <2>3, <2>4, <2>5
<1>3. ASSUME NEW t \in serving, t.request # s.request, t.request \in Scans,
             request[t.request].at = "pending"
      PROVE  Sent(t, port'[t.port].down, Len(request[t.request].got))
    <2>1. Sent(t, port[t.port].down, Len(request[t.request].got)) /\ t.port \in Ports
          /\ t.request \in Requests /\ t.sent \in Nat /\ Len(request[t.request].got) \in Nat
        BY <1>3, ScanFacts, ControlChannelAssumption DEF Sending, Types
    <2>2. CASE t.port # p
        <3>1. port'[t.port].down = port[t.port].down
            BY <2>1, <2>2
        <3> QED BY <2>1, <3>1
    <2>3. CASE t.port = p
        <3>1. Covers(Append(d, m), Len(Append(d, m)), t.request,
                     Len(request[t.request].got), t.sent)
            BY <2>1, <2>3, <1>1, AppendCovers DEF Sent
        <3>2. DOMAIN Append(d, m) = DOMAIN d \cup {Len(d) + 1} /\ Append(d, m)[Len(d) + 1] = m
              /\ \A i \in DOMAIN d : Append(d, m)[i] = d[i]
            <4> HIDE DEF d
            <4> QED BY <1>1
        <3>3. ASSUME NEW i \in DOMAIN Append(d, m), Append(d, m)[i].request = t.request,
                     Append(d, m)[i].kind = "partial"
              PROVE  Append(d, m)[i].batch <= t.sent
            BY <3>2, <3>3, <2>1, <2>3, <1>3 DEF Sent
        <3> QED BY <3>1, <3>3, <2>1, <2>3 DEF Sent
    <2> QED BY <2>2, <2>3
<1> QED BY <1>2, <1>3 DEF Streaming

LEMMA BatchKeeps ==
    ASSUME ChannelInv, NEW s \in serving, HubSendsBatch(s)
    PROVE  ChannelInv'
<1> USE DEF ChannelInv
<1> DEFINE new == [s EXCEPT !.sent = s.sent + 1]
           m == [request |-> s.request, kind |-> "partial", batch |-> s.sent + 1]
           r == s.request
           d == port[s.port].down
           g == Len(request[r].got)
<1>1. /\ serving' = (serving \ {s}) \cup {new} /\ Sends(s, "partial", s.sent + 1)
      /\ UNCHANGED <<request, carrier, outbox, current, connected>>
      /\ r \in Scans
    BY DEF HubSendsBatch
<1>2. /\ s.sent \in Nat /\ s.sent + 1 \in 0 .. Batches /\ s.port \in Ports /\ r \in Requests
      /\ s \in [request : Requests, port : Ports, sent : 0 .. Batches]
    BY ControlChannelAssumption DEF HubSendsBatch, Types
<1>3. /\ new \in [request : Requests, port : Ports, sent : 0 .. Batches]
      /\ new.request = r /\ new.port = s.port /\ new.sent = s.sent + 1
    BY <1>2
<1>4. \A t, u \in serving' : t.request = u.request => t = u
    BY <1>1, <1>3 DEF Served
<1>5. m \in Message /\ m.request = r /\ m.kind = "partial" /\ m.batch = s.sent + 1
      /\ Rank(m) = s.sent + 1
    BY <1>2 DEF Message, Rank
<1>6. d \in Seq(Message) /\ g \in Nat
    BY <1>1, <1>2, PortFacts, ScanFacts
<1> HIDE DEF new, m, d, g
<1>7. /\ Types' /\ Queued' /\ Opened' /\ Placed' /\ Served' /\ ResolvedScanIsWhole'
      /\ \A q \in Ports : port'[q].held = port[q].held /\ port'[q].up = port[q].up
                          /\ (q # s.port => port'[q].down = port[q].down)
      /\ port'[s.port].down = Append(d, m)
    <2>1. serving' \subseteq [request : Requests, port : Ports, sent : 0 .. Batches]
        BY <1>1, <1>3 DEF Types
    <2>2. \A t \in serving' : \E u \in serving : t.request = u.request /\ t.port = u.port
        BY <1>1, <1>3
    <2> QED BY <2>1, <2>2, <1>1, <1>2, <1>4, SendFacts DEF m, d
<1>8. ASSUME request[r].at = "pending"
      PROVE  Sent(s, d, g) /\ \A i \in DOMAIN d : d[i] # m
    <2>1. Sent(s, d, g)
        BY <1>1, <1>8 DEF Sending, d, g
    <2> QED BY <2>1, <1>2, <1>5 DEF Sent
<1>9. ASSUME request[r].at = "pending"
      PROVE  /\ Rank(m) > g /\ Covers(d, Len(d), r, g, Rank(m) - 1)
             /\ \A i \in DOMAIN d : d[i] # m
    <2>1. Rank(m) - 1 = s.sent
        BY <1>2, <1>5
    <2> QED BY <2>1, <1>2, <1>5, <1>6, <1>8, <1>9 DEF Sent
<1>10. /\ Streaming'
       /\ \A t \in serving : t.request # s.request /\ t.request \in Scans
                             /\ request[t.request].at = "pending" =>
            Sent(t, port'[t.port].down, Len(request[t.request].got))
    <2>1. request[r].at = "pending" => ComesNext(m, d, g)
        BY <1>5, <1>9 DEF ComesNext
    <2> QED BY <2>1, <1>1, <1>5, <1>7, SendKeepsOthers DEF d, g
<1>11. ASSUME request[r].at = "pending"
       PROVE  Sent(new, Append(d, m), g)
    <2>1. Covers(Append(d, m), Len(Append(d, m)), r, g, s.sent + 1)
        BY <1>2, <1>5, <1>6, <1>8, <1>11, AppendCovers DEF Sent, m
    <2>2. DOMAIN Append(d, m) = DOMAIN d \cup {Len(d) + 1} /\ Append(d, m)[Len(d) + 1] = m
          /\ \A i \in DOMAIN d : Append(d, m)[i] = d[i]
        BY <1>6
    <2>3. ASSUME NEW i \in DOMAIN d, d[i].request = r, d[i].kind = "partial"
          PROVE  d[i].batch <= s.sent + 1
        <3>1. d[i].batch <= s.sent /\ d[i] \in Message
            BY <2>3, <1>8, <1>11, <1>6 DEF Sent
        <3> QED BY <3>1, <1>2, MessageFacts
    <2>4. ASSUME NEW i \in DOMAIN Append(d, m), Append(d, m)[i].request = r,
                 Append(d, m)[i].kind = "partial"
          PROVE  Append(d, m)[i].batch <= s.sent + 1
        BY <2>2, <2>3, <2>4, <1>2, <1>5
    <2>5. g <= s.sent + 1
        BY <1>2, <1>6, <1>8, <1>11 DEF Sent
    <2> QED BY <2>1, <2>4, <2>5, <1>3 DEF Sent
<1>12. Sending'
    <2>1. ASSUME NEW t \in serving', t.request \in Scans, request[t.request].at = "pending"
          PROVE  Sent(t, port'[t.port].down, Len(request[t.request].got))
        <3>1. CASE t = new
            BY <3>1, <2>1, <1>3, <1>7, <1>11 DEF g
        <3>2. CASE t \in serving /\ t # s
            BY <3>2, <2>1, <1>10 DEF Served
        <3> QED BY <3>1, <3>2, <1>1
    <2> QED BY <2>1, <1>1 DEF Sending
<1> QED BY <1>7, <1>10, <1>12

LEMMA RepliesKeeps ==
    ASSUME ChannelInv, NEW s \in serving, HubReplies(s)
    PROVE  ChannelInv'
<1> USE DEF ChannelInv
<1> DEFINE r == s.request
           d == port[s.port].down
           g == Len(request[r].got)
<1>1. /\ serving' = serving \ {s}
      /\ UNCHANGED <<request, carrier, outbox, current, connected>>
    BY DEF HubReplies
<1>2. PICK kind \in {"result", "error"} :
        Sends(s, kind, 0) /\ (kind = "result" => (r \in Scans => s.sent = Batches))
    BY DEF HubReplies
<1> DEFINE m == [request |-> r, kind |-> kind, batch |-> 0]
<1>3. /\ s.sent \in Nat /\ 0 \in 0 .. Batches /\ s.port \in Ports /\ r \in Requests
      /\ Batches \in Nat
    BY ControlChannelAssumption DEF Types
<1>4. m \in Message /\ m.request = r /\ m.kind = kind /\ m.kind # "partial"
    BY <1>3 DEF Message
<1>5. kind = "result" => Rank(m) = Batches + 1
    BY <1>4 DEF Rank
<1> HIDE DEF m, d, g
<1>6. /\ Types' /\ Queued' /\ Opened' /\ Placed' /\ Served' /\ ResolvedScanIsWhole'
      /\ \A q \in Ports : port'[q].held = port[q].held /\ port'[q].up = port[q].up
                          /\ (q # s.port => port'[q].down = port[q].down)
      /\ port'[s.port].down = Append(d, m)
    <2>1. serving' \subseteq [request : Requests, port : Ports, sent : 0 .. Batches]
        BY <1>1 DEF Types
    <2>2. \A t \in serving' : \E u \in serving : t.request = u.request /\ t.port = u.port
        BY <1>1
    <2>3. \A t, u \in serving' : t.request = u.request => t = u
        BY <1>1 DEF Served
    <2>4. kind \in {"partial", "result", "error"}
        BY <1>2
    <2> QED BY <2>1, <2>2, <2>3, <2>4, <1>1, <1>2, <1>3, SendFacts DEF m, d
<1>7. ASSUME r \in Scans, request[r].at = "pending", m.kind # "error"
      PROVE  Rank(m) > g /\ Covers(d, Len(d), r, g, Rank(m) - 1)
    <2>1. Sent(s, d, g) /\ g \in Nat
        BY <1>7, ScanFacts DEF Sending, d, g
    <2>2. Rank(m) - 1 = s.sent /\ Rank(m) = s.sent + 1
        BY <1>2, <1>3, <1>4, <1>5, <1>7
    <2> QED BY <2>1, <2>2, <1>3 DEF Sent
<1>8. /\ Streaming'
      /\ \A t \in serving : t.request # s.request /\ t.request \in Scans
                            /\ request[t.request].at = "pending" =>
           Sent(t, port'[t.port].down, Len(request[t.request].got))
    <2>1. r \in Scans /\ request[r].at = "pending" => ComesNext(m, d, g)
        BY <1>4, <1>7 DEF ComesNext
    <2> QED BY <2>1, <1>1, <1>4, <1>6, SendKeepsOthers DEF d, g
<1>9. Sending'
    <2>1. \A t \in serving' : t \in serving /\ t.request # s.request
        BY <1>1 DEF Served
    <2> QED BY <2>1, <1>1, <1>8 DEF Sending
<1> QED BY <1>6, <1>8, <1>9

LEMMA HandledFacts ==
    ASSUME NEW rq \in [at : {"new", "pending"} \cup Settled, got : Seq(Nat)], NEW m \in Message
    PROVE  /\ Handled(rq, m) \in [at : {"new", "pending"} \cup Settled, got : Seq(Nat)]
           /\ rq.at # "pending" => Handled(rq, m) = rq
           /\ Handled(rq, m).at = "new" => rq.at = "new"
           /\ Handled(rq, m).at = "pending" =>
                rq.at = "pending" /\ m.kind = "partial" /\ Handled(rq, m).got = Append(rq.got, m.batch)
           /\ Handled(rq, m).at = "resolved" /\ rq.at = "pending" =>
                m.kind = "result" /\ Handled(rq, m).got = rq.got
<1>1. m.kind \in {"partial", "result", "error"} /\ Append(rq.got, m.batch) \in Seq(Nat)
    <2>1. m.batch \in Nat
        BY MessageFacts
    <2> QED BY <2>1, MessageFacts
<1>2. CASE rq.at # "pending"
    BY <1>2 DEF Handled
<1>3. CASE rq.at = "pending" /\ m.kind = "partial"
    BY <1>1, <1>3 DEF Handled, Settled
<1>4. CASE rq.at = "pending" /\ m.kind = "result"
    BY <1>4 DEF Handled, Settled
<1>5. CASE rq.at = "pending" /\ m.kind = "error"
    BY <1>5 DEF Handled, Settled
<1> QED BY <1>1, <1>2, <1>3, <1>4, <1>5

LEMMA ReceiveKeeps ==
    ASSUME ChannelInv, NEW p \in Ports, Receive(p)
    PROVE  ChannelInv'
<1> USE DEF ChannelInv
<1> DEFINE old == port[p]
           d == old.down
           m == Head(d)
           r == m.request
           rest == Tail(d)
           pt == [old EXCEPT !.down = rest]
           got == request[r].got
           g == Len(got)
<1>1. /\ old \in PortState /\ old.life = "open" /\ d \in Seq(Message) /\ d # <<>>
      /\ PortHolds(old) /\ \A q \in Carrying(old) : carrier[q] = p
      /\ p \in Nat \ {0}
    BY PortFacts DEF Receive, Placed
<1>2. /\ m \in Message /\ rest \in Seq(Message) /\ Told(rest) \subseteq Told(d)
      /\ r \in Told(d) /\ r \in Requests
    <2>1. m \in Message /\ rest \in Seq(Message)
        BY <1>1
    <2> QED BY <2>1, <1>1, TailTold, MessageFacts
<1>3. carrier[r] = p /\ carrier[r] # 0
    BY <1>1, <1>2 DEF Carrying
<1>4. /\ port' = [port EXCEPT ![p] = pt]
      /\ request' = [request EXCEPT ![r] = Handled(request[r], m)]
      /\ UNCHANGED <<carrier, outbox, current, connected, serving>>
    BY DEF Receive
<1>5. /\ pt \in PortState /\ pt.life = "open" /\ pt.held = old.held /\ pt.up = old.up
      /\ pt.down = rest
    BY <1>1, <1>2 DEF PortState
<1>6. /\ m.kind \in {"partial", "result", "error"} /\ m.batch \in Nat
      /\ m = [request |-> r, kind |-> m.kind, batch |-> m.batch] /\ Batches \in Nat
    BY <1>2, MessageFacts
<1>7. request[r] \in [at : {"new", "pending"} \cup Settled, got : Seq(Nat)] /\ g \in Nat
    BY <1>2 DEF Types
<1>8. /\ Handled(request[r], m) \in [at : {"new", "pending"} \cup Settled, got : Seq(Nat)]
      /\ request[r].at # "pending" => Handled(request[r], m) = request[r]
      /\ Handled(request[r], m).at = "new" => request[r].at = "new"
      /\ Handled(request[r], m).at = "pending" =>
           request[r].at = "pending" /\ m.kind = "partial"
           /\ Handled(request[r], m).got = Append(got, m.batch)
      /\ Handled(request[r], m).at = "resolved" /\ request[r].at = "pending" =>
           m.kind = "result" /\ Handled(request[r], m).got = got
    BY <1>2, <1>7, HandledFacts
<1> HIDE DEF old, d, m, r, rest, pt, g, got
<1>9. port' \in [Ports -> PortState] /\ port'[p] = pt
      /\ \A q \in Ports : q # p => port'[q] = port[q]
    BY <1>4, <1>5, OnePort
<1>10. request' \in [Requests -> [at : {"new", "pending"} \cup Settled, got : Seq(Nat)]]
       /\ request'[r] = Handled(request[r], m)
       /\ \A q \in Requests : q # r => request'[q] = request[q]
    BY <1>2, <1>4, <1>8 DEF Types
<1>11. Types'
    BY <1>4, <1>9, <1>10 DEF Types
<1>12. Queued'
    BY <1>3, <1>4, <1>8, <1>10 DEF Queued
<1>13. Opened'
    BY <1>1, <1>4, <1>5, <1>9 DEF Opened, Types, old
<1>14. Placed'
    <2>1. PortHolds(pt) /\ Carrying(pt) \subseteq Carrying(old)
        BY <1>1, <1>2, <1>5 DEF PortHolds, Carrying, d
    <2> QED BY <2>1, <1>1, <1>4, <1>9, OnePortPlaced
<1>15. Served'
    <2>1. \A q \in Ports : port'[q].life = port[q].life /\ port'[q].up = port[q].up
        BY <1>1, <1>5, <1>9 DEF old
    <2>2. \A s \in serving : s.port \in Ports
        BY DEF Types
    <2> QED BY <2>1, <2>2, <1>4 DEF Served
\* What the waiting scan hears is what comes next.
<1>16. ASSUME r \in Scans, request[r].at = "pending"
       PROVE  /\ InOrder(d, r, g) /\ NoneTwice(d, r) /\ \A i \in 1 .. g : got[i] = i
              /\ m.kind = "partial" => m.batch = g + 1
              /\ m.kind = "result" => g = Batches
    <2>1. Streams(d, got, r)
        BY <1>3, <1>16 DEF Streaming, d, old, got
    <2>2. InOrder(d, r, g) /\ NoneTwice(d, r) /\ \A i \in 1 .. g : got[i] = i
        BY <2>1 DEF Streams, g
    <2>3. m.kind # "error" => Rank(m) = g + 1
        BY <2>2, <1>1, <1>2, <1>7, HeadOrder DEF m, r
    <2>4. m.kind = "result" => Batches + 1 = g + 1
        BY <2>3 DEF Rank
    <2>5. m.kind = "partial" => m.batch = g + 1
        BY <2>3 DEF Rank
    <2> QED BY <2>2, <2>4, <2>5, <1>6, <1>7
<1>17. ASSUME NEW q \in Scans, request'[q].at = "pending", carrier[q] # 0
       PROVE  /\ Streams(port'[carrier[q]].down, request'[q].got, q)
              /\ Unheard(port'[carrier[q]], q, request'[q].got)
    <2>1. q \in Requests /\ request[q].got \in Seq(Nat) /\ Len(request[q].got) \in Nat
          /\ carrier[q] \in Ports
        BY <1>17, ScanFacts
    <2>2. CASE q = r
        <3>1. /\ request[r].at = "pending" /\ m.kind = "partial"
              /\ request'[r].got = Append(got, g + 1) /\ m.batch = g + 1
            BY <2>2, <1>8, <1>10, <1>16, <1>17
        <3>2. /\ InOrder(d, r, g) /\ NoneTwice(d, r) /\ \A i \in 1 .. g : got[i] = i
              /\ m = [request |-> r, kind |-> "partial", batch |-> g + 1]
            BY <2>2, <3>1, <1>6, <1>16
        <3>3. InOrder(rest, r, g + 1) /\ NoneTwice(rest, r)
            BY <3>2, <1>1, <1>2, <1>7, TailOrder, TailTwice DEF m, rest
        <3>4. Len(Append(got, g + 1)) = g + 1
              /\ \A i \in 1 .. g + 1 : Append(got, g + 1)[i] = i
            BY <3>2, <1>7 DEF g
        <3>5. r \notin ToSet(old.held) \cup ToSet(old.up)
            <4>1. old.held = <<>> /\ \A x \in ToSet(old.up) : x \notin Told(d)
                BY <1>1 DEF PortHolds, d
            <4> QED BY <4>1, <1>2, NothingTwice
        <3>6. Streams(rest, request'[r].got, r) /\ Unheard(pt, r, request'[r].got)
            BY <3>1, <3>3, <3>4, <3>5, <1>5 DEF Streams, Unheard
        <3> QED BY <3>6, <2>2, <1>3, <1>5, <1>9
    <2>3. CASE q # r
        <3>1. request'[q] = request[q]
            BY <2>1, <2>3, <1>10
        <3>2. /\ Streams(port[carrier[q]].down, request[q].got, q)
              /\ Unheard(port[carrier[q]], q, request[q].got)
            BY <3>1, <1>17 DEF Streaming
        <3>3. CASE carrier[q] = p
            <4>1. InOrder(rest, q, Len(request[q].got)) /\ NoneTwice(rest, q)
                BY <2>1, <2>3, <3>2, <3>3, <1>1, TailOrder, TailTwice DEF Streams, m, r, rest, d, old
            <4>2. Streams(rest, request[q].got, q)
                BY <4>1, <3>2 DEF Streams
            <4>3. Unheard(pt, q, request[q].got)
                BY <3>2, <3>3, <1>5 DEF Unheard, old
            <4> QED BY <4>2, <4>3, <3>1, <3>3, <1>5, <1>9
        <3>4. CASE carrier[q] # p
            BY <3>1, <3>2, <3>4, <2>1, <1>9
        <3> QED BY <3>3, <3>4
    <2> QED BY <2>2, <2>3
<1>18. ASSUME NEW s \in serving, s.request \in Scans, request'[s.request].at = "pending"
       PROVE  Sent(s, port'[s.port].down, Len(request'[s.request].got))
    <2>1. /\ s.request \in Requests /\ s.port \in Ports /\ s.sent \in Nat
          /\ Len(request[s.request].got) \in Nat
        BY <1>18, ScanFacts, ControlChannelAssumption DEF Types
    <2>2. request[s.request].at = "pending"
        BY <2>1, <1>8, <1>10, <1>18
    <2>3. Sent(s, port[s.port].down, Len(request[s.request].got))
        BY <2>2, <1>18 DEF Sending
    <2>4. CASE s.port # p
        <3>1. s.request # r
            BY <2>4, <1>3 DEF Served
        <3> QED BY <3>1, <2>1, <2>3, <2>4, <1>9, <1>10
    <2>5. CASE s.port = p
        <3> DEFINE n == Len(d) - 1
                   h == Len(request[s.request].got)
        <3>1. /\ n \in Nat /\ n < Len(d) /\ n + 1 = Len(d) /\ Len(rest) = n
              /\ DOMAIN rest = 1 .. n /\ DOMAIN d = 1 .. n + 1
              /\ d[1] = m /\ \A i \in 1 .. n : rest[i] = d[i + 1]
            BY <1>1 DEF rest, m
        <3>2. Sent(s, d, h)
            BY <2>3, <2>5 DEF d, old
        <3> HIDE DEF n, h
        <3>3. h \in Nat
            BY <2>1 DEF h
        <3>4. \A i \in DOMAIN rest : rest[i].request = s.request /\ rest[i].kind = "partial" =>
                rest[i].batch <= s.sent
            <4> TAKE i \in DOMAIN rest
            <4>1. i + 1 \in DOMAIN d /\ rest[i] = d[i + 1]
                BY <3>1
            <4> QED BY <4>1, <3>2 DEF Sent
        <3>5. CASE s.request # r
            <4>1. Covers(rest, Len(rest), s.request, h, s.sent)
                BY <3>1, <3>2, <3>3, <3>5, <2>1, <1>1, TailCovers DEF Sent, m, r, rest
            <4>2. request'[s.request] = request[s.request]
                BY <3>5, <2>1, <1>10
            <4> QED BY <4>1, <4>2, <3>2, <3>4, <2>5, <1>5, <1>9 DEF Sent, h
        <3>6. CASE s.request = r
            <4>1. /\ m.kind = "partial" /\ request'[r].got = Append(got, g + 1)
                  /\ m.batch = g + 1 /\ h = g
                BY <3>6, <2>2, <1>8, <1>10, <1>16, <1>18 DEF h, g, got
            <4>2. m = [request |-> r, kind |-> "partial", batch |-> g + 1]
                BY <4>1, <1>6
            <4>3. Len(request'[r].got) = g + 1
                BY <4>1, <1>7 DEF g
            <4>4. Covers(rest, Len(rest), r, g + 1, s.sent)
                BY <4>1, <4>2, <3>1, <3>2, <3>3, <3>6, <2>1, <1>1, TailCovers DEF Sent, m, rest
            <4>5. g + 1 <= s.sent
                <5>1. 1 \in DOMAIN d /\ d[1].request = s.request /\ d[1].kind = "partial"
                      /\ d[1].batch = g + 1
                    BY <4>2, <3>1, <3>6
                <5> QED BY <5>1, <3>2 DEF Sent
            <4> QED BY <4>3, <4>4, <4>5, <3>4, <3>6, <2>5, <1>5, <1>9 DEF Sent
        <3> QED BY <3>5, <3>6
    <2> QED BY <2>4, <2>5
<1>19. ASSUME NEW q \in Scans, request'[q].at = "resolved"
       PROVE  request'[q].got = [i \in 1 .. Batches |-> i]
    <2>1. q \in Requests /\ request[q].got \in Seq(Nat)
        BY ScanFacts
    <2>2. CASE request[q].at = "resolved"
        <3>1. request'[q] = request[q]
            BY <2>1, <2>2, <1>8, <1>10
        <3> QED BY <3>1, <2>2 DEF ResolvedScanIsWhole
    <2>3. CASE request[q].at # "resolved"
        <3>1. q = r /\ request[r].at = "pending" /\ m.kind = "result" /\ request'[r].got = got
            BY <2>1, <2>3, <1>8, <1>10, <1>19
        <3>2. g = Batches /\ \A i \in 1 .. g : got[i] = i
            BY <3>1, <1>16
        <3>3. got \in Seq(Nat) /\ Len(got) = Batches
            BY <3>1, <3>2, <2>1 DEF g, got
        <3>4. got = [i \in 1 .. Batches |-> i]
            BY <3>2, <3>3
        <3> QED BY <3>1, <3>4
    <2> QED BY <2>2, <2>3
<1> QED
    BY <1>4, <1>11, <1>12, <1>13, <1>14, <1>15, <1>17, <1>18, <1>19
    DEF Streaming, Sending, ResolvedScanIsWhole

LEMMA ReconnectKeeps ==
    ASSUME ChannelInv, Reconnect
    PROVE  ChannelInv'
<1> USE DEF ChannelInv
<1> DEFINE p == current + 1
           pt == [Unopened EXCEPT !.life = "joining", !.held = outbox]
<1>1. /\ p \in Ports /\ p \in Nat \ {0} /\ p > current /\ current \in Ports /\ p # current
      /\ outbox \in Seq(Requests)
    BY ControlChannelAssumption DEF Reconnect, Types, Ports
<1>2. /\ pt \in PortState /\ pt.life = "joining" /\ pt.held = outbox
      /\ pt.up = <<>> /\ pt.down = <<>>
    <2>1. <<>> \in Seq(Requests) /\ <<>> \in Seq(Message) /\ 0 \in 0 .. 2
        OBVIOUS
    <2> QED BY <2>1, <1>1 DEF PortState, Unopened, PortLife
<1>3. /\ current' = p /\ connected' = TRUE /\ port' = [port EXCEPT ![p] = pt]
      /\ carrier' = [q \in Requests |-> IF q \in ToSet(outbox) THEN p ELSE carrier[q]]
      /\ outbox' = <<>> /\ UNCHANGED <<request, serving>>
    BY DEF Reconnect
<1>4. port[p].life = "unopened"
    BY <1>1 DEF Opened
<1> HIDE DEF p, pt
<1>5. port' \in [Ports -> PortState] /\ port'[p] = pt
      /\ \A q \in Ports : q # p => port'[q] = port[q]
    BY <1>1, <1>2, <1>3, OnePort
<1>6. carrier' \in [Requests -> 0 .. MaxPorts]
      /\ \A q \in Requests : carrier'[q] = IF q \in ToSet(outbox) THEN p ELSE carrier[q]
    <2>1. p \in 0 .. MaxPorts
        BY <1>1 DEF Ports
    <2> QED BY <2>1, <1>3 DEF Types
<1>7. \A q \in ToSet(outbox) : carrier[q] = 0 /\ q \in Requests
    <2>1. \A i \in DOMAIN outbox : outbox[i] \in Requests
        BY <1>1
    <2> QED BY <2>1 DEF Queued, ToSet
<1>8. Types'
    <2>1. <<>> \in Seq(Requests) /\ TRUE \in BOOLEAN
        OBVIOUS
    <2> QED BY <2>1, <1>1, <1>3, <1>5, <1>6 DEF Types
<1>9. Queued' /\ ResolvedScanIsWhole'
    <2>1. \A q \in Requests : /\ request[q].at = "new" => carrier'[q] = 0
                              /\ carrier'[q] = 0 => carrier[q] = 0
        BY <1>1, <1>6 DEF Queued
    <2> QED BY <2>1, <1>3, NothingTwice DEF Queued, ResolvedScanIsWhole
<1>10. Opened'
    <2>1. \A q \in Ports : q > p => q > current /\ q # p
        BY <1>1 DEF Ports
    <2> QED BY <2>1, <1>2, <1>3, <1>5 DEF Opened
<1>11. Placed'
    <2>1. PortHolds(pt) /\ \A q \in Carrying(pt) : carrier'[q] = p
        <3>1. Carrying(pt) = ToSet(outbox)
            BY <1>2, NothingTwice, EmptyOrder DEF Carrying
        <3>2. PortHolds(pt)
            BY <1>2, NothingTwice, EmptyOrder DEF PortHolds, Queued
        <3> QED BY <3>1, <3>2, <1>6, <1>7
    <2>2. ASSUME NEW q \in Ports, q # p
          PROVE  PortHolds(port'[q]) /\ \A x \in Carrying(port'[q]) : carrier'[x] = q
        <3>1. port'[q] = port[q] /\ q # 0
            BY <2>2, <1>5, PortFacts
        <3>2. \A x \in Carrying(port[q]) : carrier[x] = q /\ x \in Requests
            <4>1. \A x \in ToSet(port[q].held) \cup ToSet(port[q].up) : x \in Requests
                BY PortFacts DEF ToSet
            <4>2. \A x \in Told(port[q].down) : x \in Requests
                BY PortFacts, MessageFacts DEF Told
            <4> QED BY <4>1, <4>2 DEF Placed, Carrying
        <3>3. \A x \in Carrying(port[q]) : x \notin ToSet(outbox)
            BY <3>1, <3>2, <1>7
        <3> QED BY <3>1, <3>2, <3>3, <1>6 DEF Placed
    <2> QED BY <2>1, <2>2, <1>5 DEF Placed, PortHolds, Carrying
<1>12. \A s \in serving : /\ s.port \in Ports /\ s.port # 0 /\ s.request \in Requests
                          /\ s.port # p /\ carrier'[s.request] = s.port
    <2>1. \A s \in serving : s.port \in Ports /\ s.request \in Requests
        BY DEF Types
    <2> QED BY <2>1, <1>4, <1>6, <1>7, PortFacts DEF Served
<1>13. Served' /\ Sending'
    <2>1. \A s \in serving : port'[s.port] = port[s.port]
        BY <1>5, <1>12
    <2> QED BY <2>1, <1>3, <1>12 DEF Served, Sending
<1>14. ASSUME NEW r \in Scans, request[r].at = "pending", carrier'[r] # 0
       PROVE  /\ Streams(port'[carrier'[r]].down, request[r].got, r)
              /\ Unheard(port'[carrier'[r]], r, request[r].got)
    <2>1. r \in Requests
        BY ScanFacts
    <2>2. CASE r \in ToSet(outbox)
        <3>1. request[r].got = <<>> /\ carrier'[r] = p
            BY <2>1, <2>2, <1>6, <1>7 DEF Queued
        <3>2. Streams(<<>>, <<>>, r)
            BY EmptyOrder DEF Streams
        <3> QED BY <3>1, <3>2, <1>2, <1>5 DEF Unheard
    <2>3. CASE r \notin ToSet(outbox)
        <3>1. carrier'[r] = carrier[r] /\ carrier[r] \in Ports
            BY <2>1, <2>3, <1>6, <1>14, ScanFacts
        <3>2. Streams(port[carrier[r]].down, request[r].got, r)
              /\ Unheard(port[carrier[r]], r, request[r].got)
            BY <3>1, <1>14 DEF Streaming
        <3>3. CASE carrier[r] = p
            <4>1. InOrder(<<>>, r, Len(request[r].got)) /\ NoneTwice(<<>>, r)
                BY EmptyOrder
            <4>2. Streams(pt.down, request[r].got, r)
                BY <4>1, <3>2, <1>2 DEF Streams
            <4>3. Unheard(pt, r, request[r].got)
                BY <2>3, <1>2, NothingTwice DEF Unheard
            <4> QED BY <4>2, <4>3, <3>1, <3>3, <1>5
        <3>4. CASE carrier[r] # p
            BY <3>1, <3>2, <3>4, <1>5
        <3> QED BY <3>3, <3>4
    <2> QED BY <2>2, <2>3
<1> QED BY <1>3, <1>8, <1>9, <1>10, <1>11, <1>13, <1>14 DEF Streaming

LEMMA AskKeeps ==
    ASSUME ChannelInv, NEW r \in Requests, Ask(r)
    PROVE  ChannelInv'
<1> USE DEF ChannelInv
<1>1. /\ request[r].at = "new" /\ request' = [request EXCEPT ![r].at = "pending"]
      /\ UNCHANGED <<current, connected, serving>>
    BY DEF Ask
<1>2. carrier[r] = 0 /\ r \notin ToSet(outbox) /\ request[r].got = <<>>
    BY <1>1 DEF Queued
<1>3. /\ request' \in [Requests -> [at : {"new", "pending"} \cup Settled, got : Seq(Nat)]]
      /\ \A q \in Requests : request'[q].got = request[q].got
      /\ \A q \in Requests : q # r => request'[q] = request[q]
      /\ request'[r].at = "pending"
    BY <1>1 DEF Types
<1>4. ResolvedScanIsWhole'
    BY <1>3, ControlChannelAssumption DEF ResolvedScanIsWhole
\* No port has heard of r, and the hub does not serve it.
<1>5. \A q \in Ports : r \notin Carrying(port[q])
    BY <1>2, PortFacts DEF Placed
<1>6. \A s \in serving : s.request # r /\ s.request \in Requests /\ s.port \in Ports
    BY <1>2, PortFacts DEF Served, Types
<1>7. CASE ~connected
    <2>1. outbox' = Append(outbox, r) /\ UNCHANGED <<port, carrier>>
        BY <1>7 DEF Ask
    <2>2. /\ outbox' \in Seq(Requests) /\ ToSet(outbox') = ToSet(outbox) \cup {r}
          /\ Once(outbox')
        <3>1. outbox \in Seq(Requests)
            BY DEF Types
        <3> QED BY <3>1, <2>1, <1>2, AppendSeq DEF Queued
    <2>3. Types'
        BY <2>1, <2>2, <1>1, <1>3 DEF Types
    <2>4. Queued'
        <3>1. \A q \in ToSet(outbox') : carrier[q] = 0
            BY <2>2, <1>2 DEF Queued
        <3>2. ASSUME NEW q \in Requests
              PROVE  /\ request'[q].at = "new" => carrier[q] = 0 /\ q \notin ToSet(outbox')
                     /\ carrier[q] = 0 => request'[q].got = <<>>
            BY <2>2, <1>2, <1>3 DEF Queued
        <3> QED BY <3>1, <3>2, <2>1, <2>2 DEF Queued
    <2>5. Opened' /\ Placed' /\ Served'
        BY <2>1, <1>1 DEF Opened, Placed, Served
    <2>6. Sending'
        BY <2>1, <1>1, <1>3, <1>6 DEF Sending
    <2>7. Streaming'
        BY <2>1, <1>2, <1>3, ScanFacts DEF Streaming
    <2> QED BY <2>3, <2>4, <2>5, <2>6, <2>7, <1>4
<1>8. CASE connected
    <2> DEFINE p == current
               old == port[p]
               pt == Posted(old, <<r>>)
    <2>1. /\ port' = [port EXCEPT ![p] = pt] /\ carrier' = [carrier EXCEPT ![r] = p]
          /\ outbox' = outbox
        BY <1>8 DEF Ask
    <2>2. /\ p \in Ports /\ p \in Nat \ {0} /\ old \in PortState /\ PortHolds(old)
          /\ \A q \in Carrying(old) : carrier[q] = p
          /\ old.held \in Seq(Requests) /\ old.up \in Seq(Requests)
          /\ r \notin ToSet(old.held) /\ r \notin ToSet(old.up) /\ r \notin Told(old.down)
        <3>1. p \in Ports
            BY DEF Types
        <3> QED BY <3>1, <1>5, PortFacts DEF Placed, Carrying
    <2>3. /\ Append(old.held, r) \in Seq(Requests) /\ Append(old.up, r) \in Seq(Requests)
          /\ ToSet(Append(old.held, r)) = ToSet(old.held) \cup {r}
          /\ ToSet(Append(old.up, r)) = ToSet(old.up) \cup {r}
          /\ Once(Append(old.held, r)) /\ Once(Append(old.up, r))
          /\ old.held \o <<r>> = Append(old.held, r) /\ old.up \o <<r>> = Append(old.up, r)
        BY <2>2, AppendSeq, AppendIsConcat DEF PortHolds
    <2>4. /\ pt \in PortState /\ pt.life = old.life /\ pt.down = old.down /\ PortHolds(pt)
          /\ Carrying(pt) \subseteq Carrying(old) \cup {r}
          /\ ToSet(old.up) \subseteq ToSet(pt.up) /\ ToSet(pt.up) \subseteq ToSet(old.up) \cup {r}
          /\ ToSet(pt.held) \subseteq ToSet(old.held) \cup {r}
        <3>1. CASE old.life = "joining"
            <4>1. pt = [old EXCEPT !.held = Append(old.held, r)]
                BY <3>1, <2>3 DEF Posted
            <4>2. pt \in PortState /\ pt.life = old.life /\ pt.down = old.down /\ pt.up = old.up
                  /\ pt.held = Append(old.held, r)
                BY <4>1, <2>2, <2>3 DEF PortState
            <4> HIDE DEF pt, old
            <4>3. PortHolds(pt)
                BY <4>2, <2>2, <2>3, <3>1 DEF PortHolds
            <4> QED BY <4>2, <4>3, <2>3 DEF Carrying
        <3>2. CASE old.life = "open"
            <4>1. pt = [old EXCEPT !.up = Append(old.up, r)]
                BY <3>2, <2>3 DEF Posted
            <4>2. pt \in PortState /\ pt.life = old.life /\ pt.down = old.down /\ pt.held = old.held
                  /\ pt.up = Append(old.up, r)
                BY <4>1, <2>2, <2>3 DEF PortState
            <4> HIDE DEF pt, old
            <4>3. PortHolds(pt)
                BY <4>2, <2>2, <2>3, <3>2 DEF PortHolds
            <4> QED BY <4>2, <4>3, <2>3 DEF Carrying
        <3>3. CASE old.life \notin {"joining", "open"}
            <4>1. pt = old
                BY <3>3 DEF Posted
            <4> QED BY <4>1, <2>2
        <3> QED BY <3>1, <3>2, <3>3
    <2> HIDE DEF p, old, pt
    <2>5. port' \in [Ports -> PortState] /\ port'[p] = pt
          /\ \A q \in Ports : q # p => port'[q] = port[q]
        BY <2>1, <2>2, <2>4, OnePort
    <2>6. /\ carrier' \in [Requests -> 0 .. MaxPorts] /\ carrier'[r] = p
          /\ \A q \in Requests : q # r => carrier'[q] = carrier[q]
        <3>1. p \in 0 .. MaxPorts
            BY <2>2 DEF Ports
        <3> QED BY <3>1, <2>1 DEF Types
    <2>7. Types'
        BY <2>1, <2>5, <2>6, <1>1, <1>3 DEF Types
    <2>8. Queued'
        <3>1. \A i \in DOMAIN outbox : outbox[i] \in Requests
            BY DEF Types
        <3>2. \A q \in ToSet(outbox) : q # r /\ q \in Requests
            BY <3>1, <1>2 DEF ToSet
        <3>3. ASSUME NEW q \in Requests
              PROVE  /\ request'[q].at = "new" => carrier'[q] = 0 /\ q \notin ToSet(outbox)
                     /\ carrier'[q] = 0 => request'[q].got = <<>>
            BY <2>2, <2>6, <1>2, <1>3 DEF Queued
        <3> QED BY <3>2, <3>3, <2>1, <2>6 DEF Queued
    <2>9. Opened'
        BY <2>4, <2>5, <1>1 DEF Opened, p, old, Types
    <2>10. \A q \in Ports : \A x \in Carrying(port[q]) : x # r /\ x \in Requests
        <3> TAKE q \in Ports
        <3>1. \A x \in ToSet(port[q].held) \cup ToSet(port[q].up) : x \in Requests
            BY PortFacts DEF ToSet
        <3>2. \A x \in Told(port[q].down) : x \in Requests
            BY PortFacts, MessageFacts DEF Told
        <3> QED BY <3>1, <3>2, <1>5 DEF Carrying
    <2>11. ASSUME NEW q \in Ports
           PROVE  PortHolds(port'[q]) /\ \A x \in Carrying(port'[q]) : carrier'[x] = q
        <3>1. CASE q = p
            BY <3>1, <2>2, <2>4, <2>5, <2>6, <2>10 DEF old
        <3>2. CASE q # p
            BY <3>2, <2>5, <2>6, <2>10 DEF Placed
        <3> QED BY <3>1, <3>2
    <2>12. Placed'
        BY <2>11 DEF Placed, PortHolds, Carrying
    <2>13. \A q \in Ports : port'[q].down = port[q].down /\ port'[q].life = port[q].life
                            /\ ToSet(port'[q].up) \subseteq ToSet(port[q].up) \cup {r}
                            /\ ToSet(port'[q].held) \subseteq ToSet(port[q].held) \cup {r}
        BY <2>4, <2>5 DEF old
    <2>14. Served'
        <3>1. ASSUME NEW s \in serving
              PROVE  /\ port'[s.port].life = "open" /\ carrier'[s.request] = s.port
                     /\ s.request \notin ToSet(port'[s.port].up)
            BY <2>6, <2>13, <1>6 DEF Served
        <3> QED BY <3>1, <1>1 DEF Served
    <2>15. Sending'
        BY <2>13, <1>1, <1>3, <1>6 DEF Sending
    <2>16. ASSUME NEW q \in Scans, request'[q].at = "pending", carrier'[q] # 0
           PROVE  /\ Streams(port'[carrier'[q]].down, request'[q].got, q)
                  /\ Unheard(port'[carrier'[q]], q, request'[q].got)
        <3>1. q \in Requests
            BY ScanFacts
        <3>2. CASE q = r
            <4>1. carrier'[q] = p /\ request'[q].got = <<>>
                BY <3>2, <2>6, <1>2, <1>3
            <4>2. InOrder(old.down, r, 0) /\ NoneTwice(old.down, r)
                BY <2>2, PortFacts, UntoldOrder DEF old
            <4>3. Streams(old.down, <<>>, r)
                BY <4>2 DEF Streams
            <4> QED BY <4>1, <4>3, <3>2, <2>4, <2>5 DEF Unheard
        <3>3. CASE q # r
            <4>1. request'[q] = request[q] /\ carrier'[q] = carrier[q] /\ carrier[q] \in Ports
                BY <3>1, <3>3, <2>6, <2>16, <1>3, ScanFacts
            <4>2. /\ Streams(port[carrier[q]].down, request[q].got, q)
                  /\ Unheard(port[carrier[q]], q, request[q].got)
                BY <4>1, <2>16 DEF Streaming
            <4> QED BY <4>1, <4>2, <3>3, <2>13 DEF Unheard
        <3> QED BY <3>2, <3>3
    <2> QED BY <2>7, <2>8, <2>9, <2>12, <2>14, <2>15, <2>16, <1>4 DEF Streaming
<1> QED BY <1>7, <1>8

LEMMA ChannelStep == ChannelInv /\ [ControlNext]_controlVars => ChannelInv'
<1> SUFFICES ASSUME ChannelInv, [ControlNext]_controlVars PROVE ChannelInv'
    OBVIOUS
<1>1. CASE \E r \in Requests : Ask(r) \/ RequestTimeout(r)
    BY <1>1, AskKeeps, TimeoutKeeps
<1>2. CASE \E p \in Ports : Receive(p) \/ Joined(p) \/ HandleClose(p) \/ Break(p) \/ HubTakes(p)
    BY <1>2, ReceiveKeeps, JoinedKeeps, CloseKeeps, BreakKeeps, TakesKeeps
<1>3. CASE Reconnect
    BY <1>3, ReconnectKeeps
<1>4. CASE \E s \in serving : HubSendsBatch(s) \/ HubReplies(s)
    BY <1>4, BatchKeeps, RepliesKeeps
<1>5. CASE UNCHANGED controlVars
    BY <1>5 DEF controlVars, ChannelInv, Types, Queued, Opened, Placed, PortHolds, Carrying,
                Served, Streaming, Streams, Unheard, Sending, Sent, ResolvedScanIsWhole
<1> QED BY <1>1, <1>2, <1>3, <1>4, <1>5 DEF ControlNext

(* The channel's invariant: every request is in one place, and what a       *)
(* waiting scan has heard and will hear is its batches in order.            *)
THEOREM ChannelInvariance == ControlSpec => []ChannelInv
<1>1. ControlInit => ChannelInv
    BY InitChannel
<1>2. ChannelInv /\ [ControlNext]_controlVars => ChannelInv'
    BY ChannelStep
<1> QED BY <1>1, <1>2, PTL DEF ControlSpec

(* A scan that resolves has delivered every batch, in order and once,       *)
(* however many ports broke or were replaced meanwhile.                     *)
THEOREM ScanIsWhole == ControlSpec => []ResolvedScanIsWhole
<1>1. ChannelInv => ResolvedScanIsWhole
    BY DEF ChannelInv
<1> QED BY <1>1, ChannelInvariance, PTL

-----------------------------------------------------------------------------
(* A request that waits is queued, on its way, or was on a port that died.  *)

Ends(d, r) == \E i \in DOMAIN d : d[i].request = r /\ d[i].kind # "partial"

\* r is on its way on port p, or p is dead.
OnPort(pt, r) ==
    pt.life = "dead" \/ r \in ToSet(pt.held) \cup ToSet(pt.up) \/ Ends(pt.down, r)

IsServed(r) == \E s \in serving : s.request = r

Accounted ==
    \A r \in Requests : request[r].at = "pending" =>
        IF carrier[r] = 0 THEN r \in ToSet(outbox)
        ELSE OnPort(port[carrier[r]], r) \/ IsServed(r)

LEMMA AccountedIs == Accounted => RequestsAreAccounted
BY DEF Accounted, RequestsAreAccounted, OnItsWay, OnPort, Ends, IsServed

LEMMA AppendEnds ==
    ASSUME NEW d \in Seq(Message), NEW m \in Message, NEW r
    PROVE  /\ Ends(d, r) => Ends(Append(d, m), r)
           /\ m.request = r /\ m.kind # "partial" => Ends(Append(d, m), r)
<1>1. DOMAIN Append(d, m) = 1 .. Len(d) + 1 /\ DOMAIN d = 1 .. Len(d) /\ Len(d) \in Nat
      /\ Append(d, m)[Len(d) + 1] = m /\ \A i \in 1 .. Len(d) : Append(d, m)[i] = d[i]
    OBVIOUS
<1> QED BY <1>1 DEF Ends

LEMMA TailEnds ==
    ASSUME NEW d \in Seq(Message), d # <<>>, NEW r, Ends(d, r),
           ~(Head(d).request = r /\ Head(d).kind # "partial")
    PROVE  Ends(Tail(d), r)
<1>1. DOMAIN Tail(d) = 1 .. Len(d) - 1 /\ DOMAIN d = 1 .. Len(d) /\ Len(d) \in Nat \ {0}
      /\ Head(d) = d[1] /\ \A i \in 1 .. Len(d) - 1 : Tail(d)[i] = d[i + 1]
    OBVIOUS
<1>2. PICK i \in DOMAIN d : d[i].request = r /\ d[i].kind # "partial"
    BY DEF Ends
<1>3. i # 1 /\ i - 1 \in 1 .. Len(d) - 1
    BY <1>1, <1>2
<1>4. Tail(d)[i - 1] = d[i]
    BY <1>1, <1>3
<1> QED BY <1>1, <1>2, <1>3, <1>4 DEF Ends

\* A step that takes nothing off a request's way, and asks nothing.
LEMMA WayKept ==
    ASSUME ChannelInv, Accounted, UNCHANGED <<carrier, outbox>>,
           \A r \in Requests : request'[r].at = "pending" =>
               /\ request[r].at = "pending"
               /\ carrier[r] # 0 /\ (OnPort(port[carrier[r]], r) \/ IsServed(r)) =>
                    OnPort(port'[carrier[r]], r) \/ IsServed(r)'
    PROVE  Accounted'
BY DEF Accounted

LEMMA CarrierFacts ==
    ASSUME ChannelInv, NEW r \in Requests
    PROVE  /\ carrier[r] # 0 => carrier[r] \in Ports /\ port[carrier[r]].down \in Seq(Message)
           /\ \A s \in serving : s.request = r => carrier[r] = s.port
<1>1. carrier[r] # 0 => carrier[r] \in Ports
    BY ControlChannelAssumption DEF ChannelInv, Types, Ports
<1> QED BY <1>1, PortFacts DEF ChannelInv, Served

LEMMA AskAccounts ==
    ASSUME ChannelInv, Accounted, NEW r \in Requests, Ask(r)
    PROVE  Accounted'
<1>1. /\ request' = [request EXCEPT ![r].at = "pending"] /\ serving' = serving
      /\ carrier[r] = 0 /\ Types
    BY DEF Ask, ChannelInv, Queued
<1>2. \A q \in Requests : q # r => request'[q] = request[q]
    BY <1>1 DEF Types
<1>3. CASE ~connected
    <2>1. outbox' = Append(outbox, r) /\ UNCHANGED <<port, carrier>> /\ outbox \in Seq(Requests)
        BY <1>1, <1>3 DEF Ask, Types
    <2>2. ToSet(outbox') = ToSet(outbox) \cup {r}
        BY <2>1, AppendSeq
    <2> QED BY <2>1, <2>2, <1>1, <1>2 DEF Accounted, OnPort, IsServed
<1>4. CASE connected
    <2> DEFINE p == current
               old == port[p]
               pt == Posted(old, <<r>>)
    <2>1. /\ port' = [port EXCEPT ![p] = pt] /\ carrier' = [carrier EXCEPT ![r] = p]
          /\ outbox' = outbox
        BY <1>4 DEF Ask
    <2>2. /\ p \in Ports /\ p \in Nat \ {0} /\ old \in PortState /\ old.life \in PortLife
          /\ old.held \in Seq(Requests) /\ old.up \in Seq(Requests) /\ old.life # "unopened"
        <3>1. p \in Ports
            BY <1>1 DEF Types
        <3> QED BY <3>1, <1>1, PortFacts DEF ChannelInv, Opened
    <2>3. /\ OnPort(pt, r) /\ \A q : OnPort(old, q) => OnPort(pt, q)
        <3>1. CASE old.life = "joining"
            <4>1. pt.life = old.life /\ pt.down = old.down /\ pt.up = old.up
                  /\ pt.held = Append(old.held, r)
                BY <3>1, <2>2, AppendIsConcat DEF Posted, PortState
            <4> HIDE DEF pt, old
            <4>2. ToSet(pt.held) = ToSet(old.held) \cup {r}
                BY <4>1, <2>2, AppendSeq
            <4> QED BY <4>1, <4>2 DEF OnPort
        <3>2. CASE old.life = "open"
            <4>1. pt.life = old.life /\ pt.down = old.down /\ pt.held = old.held
                  /\ pt.up = Append(old.up, r)
                BY <3>2, <2>2, AppendIsConcat DEF Posted, PortState
            <4> HIDE DEF pt, old
            <4>2. ToSet(pt.up) = ToSet(old.up) \cup {r}
                BY <4>1, <2>2, AppendSeq
            <4> QED BY <4>1, <4>2 DEF OnPort
        <3>3. CASE old.life = "dead"
            BY <3>3 DEF Posted, OnPort
        <3> QED BY <3>1, <3>2, <3>3, <2>2 DEF PortLife
    <2> HIDE DEF p, old, pt
    <2>4. port'[p] = pt /\ \A q \in Ports : q # p => port'[q] = port[q]
        BY <2>1, <2>2, <1>1 DEF Types
    <2>5. carrier'[r] = p /\ \A q \in Requests : q # r => carrier'[q] = carrier[q]
        BY <2>1, <1>1 DEF Types
    <2>6. ASSUME NEW q \in Requests, q # r, request[q].at = "pending"
          PROVE  IF carrier[q] = 0 THEN q \in ToSet(outbox)
                 ELSE OnPort(port'[carrier[q]], q) \/ IsServed(q)
        <3>1. carrier[q] # 0 => carrier[q] \in Ports
            BY CarrierFacts
        <3> QED BY <3>1, <2>3, <2>4, <2>6 DEF Accounted, old
    <2>7. OnPort(port'[carrier'[r]], r) /\ carrier'[r] # 0
        BY <2>2, <2>3, <2>4, <2>5
    <2> QED BY <2>1, <2>5, <2>6, <2>7, <1>1, <1>2 DEF Accounted, IsServed
<1> QED BY <1>3, <1>4

LEMMA ReceiveAccounts ==
    ASSUME ChannelInv, Accounted, NEW p \in Ports, Receive(p)
    PROVE  Accounted'
<1> DEFINE old == port[p]
           d == old.down
           m == Head(d)
           pt == [old EXCEPT !.down = Tail(d)]
<1>1. Types /\ old \in PortState /\ d \in Seq(Message) /\ d # <<>> /\ m \in Message
    BY PortFacts DEF Receive, ChannelInv
<1>2. m.request \in Requests /\ m.kind \in {"partial", "result", "error"}
      /\ pt.life = old.life /\ pt.held = old.held /\ pt.up = old.up /\ pt.down = Tail(d)
    BY <1>1, MessageFacts DEF PortState
<1>3. /\ port' = [port EXCEPT ![p] = pt]
      /\ request' = [request EXCEPT ![m.request] = Handled(request[m.request], m)]
      /\ UNCHANGED <<carrier, outbox, serving>>
    BY DEF Receive
<1>4. request[m.request] \in [at : {"new", "pending"} \cup Settled, got : Seq(Nat)]
    BY <1>1, <1>2 DEF Types
<1>5. Handled(request[m.request], m).at = "pending" =>
        request[m.request].at = "pending" /\ m.kind = "partial"
    BY <1>1, <1>4, HandledFacts
<1> HIDE DEF old, d, m, pt
<1>6. port'[p] = pt /\ \A q \in Ports : q # p => port'[q] = port[q]
    BY <1>1, <1>3 DEF Types
<1>7. /\ request'[m.request] = Handled(request[m.request], m)
      /\ \A q \in Requests : q # m.request => request'[q] = request[q]
    BY <1>1, <1>2, <1>3 DEF Types
<1>8. ASSUME NEW r \in Requests, request'[r].at = "pending", carrier[r] # 0,
             OnPort(port[carrier[r]], r)
      PROVE  OnPort(port'[carrier[r]], r)
    <2>1. carrier[r] \in Ports
        BY <1>8, CarrierFacts
    <2>2. CASE carrier[r] # p
        BY <2>1, <2>2, <1>6, <1>8
    <2>3. CASE carrier[r] = p
        <3>1. ~(m.request = r /\ m.kind # "partial")
            BY <1>5, <1>7, <1>8
        <3>2. Ends(d, r) => Ends(Tail(d), r)
            BY <3>1, <1>1, TailEnds DEF m
        <3> QED BY <3>2, <2>3, <1>2, <1>6, <1>8 DEF OnPort, d, old
    <2> QED BY <2>2, <2>3
<1>9. \A r \in Requests : request'[r].at = "pending" => request[r].at = "pending"
    BY <1>5, <1>7
<1>10. \A r : IsServed(r) => IsServed(r)'
    BY <1>3 DEF IsServed
<1> QED BY <1>3, <1>8, <1>9, <1>10, WayKept

LEMMA PortAccounts ==
    ASSUME ChannelInv, Accounted, NEW p \in Ports,
           Joined(p) \/ HandleClose(p) \/ Break(p) \/ HubTakes(p)
    PROVE  Accounted'
<1> DEFINE old == port[p]
<1>1. Types /\ old \in PortState /\ old.held \in Seq(Requests) /\ old.up \in Seq(Requests)
      /\ UNCHANGED <<request, carrier, outbox>>
    BY PortFacts DEF ChannelInv, Joined, HandleClose, Break, HubTakes
<1>2. \A r \in Requests : carrier[r] # 0 => carrier[r] \in Ports
    BY CarrierFacts
<1>3. CASE Joined(p)
    <2>1. old.up = <<>> /\ PortHolds(old) /\ serving' = serving
        BY <1>3 DEF Joined, ChannelInv, Placed, PortHolds
    <2>2. old.up \o old.held = old.held
        BY <2>1, <1>1, EmptyConcat
    <2>3. port' = [port EXCEPT ![p] = [old EXCEPT !.life = "open", !.held = <<>>, !.up = old.held]]
        BY <2>2, <1>3 DEF Joined
    <2> HIDE DEF old
    <2>4. /\ port'[p].up = old.held /\ port'[p].down = old.down
          /\ \A q \in Ports : q # p => port'[q] = port[q]
        BY <2>3, <1>1 DEF Types, PortState
    <2>5. old.life # "dead"
        BY <1>3 DEF Joined, old
    <2>6. \A q : OnPort(old, q) => OnPort(port'[p], q)
        BY <2>1, <2>4, <2>5, NothingTwice DEF OnPort
    <2> QED BY <2>1, <2>4, <2>6, <1>1, <1>2, WayKept DEF IsServed, old
<1>4. CASE HandleClose(p)
    <2>1. port' = [port EXCEPT ![p] = [old EXCEPT !.closes = old.closes - 1]] /\ serving' = serving
        BY <1>4 DEF HandleClose
    <2> HIDE DEF old
    <2>2. /\ port'[p].up = old.up /\ port'[p].down = old.down /\ port'[p].held = old.held
          /\ port'[p].life = old.life
          /\ \A q \in Ports : q # p => port'[q] = port[q]
        BY <2>1, <1>1 DEF Types, PortState
    <2>3. \A q : OnPort(old, q) => OnPort(port'[p], q)
        BY <2>2 DEF OnPort
    <2> QED BY <2>1, <2>2, <2>3, <1>1, <1>2, WayKept DEF IsServed, old
<1>5. CASE Break(p)
    <2>1. PICK n \in {1, 2} :
            port' = [port EXCEPT ![p] = [Unopened EXCEPT !.life = "dead", !.closes = n]]
        BY <1>5 DEF Break
    <2>2. port'[p].life = "dead" /\ \A q \in Ports : q # p => port'[q] = port[q]
        BY <2>1, <1>1 DEF Types, Unopened
    <2>3. \A q : OnPort(port'[p], q)
        BY <2>2 DEF OnPort
    <2>4. \A q \in Requests : IsServed(q) /\ carrier[q] # p => IsServed(q)'
        <3>1. serving' = {s \in serving : s.port # p}
            BY <1>5 DEF Break
        <3>2. \A s \in serving : carrier[s.request] = s.port
            BY DEF ChannelInv, Served
        <3> QED BY <3>1, <3>2 DEF IsServed
    <2> QED BY <2>2, <2>3, <2>4, <1>1, <1>2, WayKept
<1>6. CASE HubTakes(p)
    <2>0. PICK taken : taken = Head(old.up)
        OBVIOUS
    <2> DEFINE new == [request |-> taken, port |-> p, sent |-> 0]
    <2>1. /\ port' = [port EXCEPT ![p] = [old EXCEPT !.up = Tail(old.up)]]
          /\ serving' = serving \cup {new} /\ old.up # <<>>
        BY <2>0, <1>6 DEF HubTakes
    <2>2. ToSet(old.up) = {taken} \cup ToSet(Tail(old.up))
        BY <2>0, <2>1, <1>1, TailSeq
    <2> HIDE DEF old
    <2>3. /\ port'[p].up = Tail(old.up) /\ port'[p].down = old.down
          /\ port'[p].held = old.held /\ port'[p].life = old.life
          /\ \A q \in Ports : q # p => port'[q] = port[q]
        BY <2>1, <1>1 DEF Types, PortState
    <2>4. IsServed(taken)' /\ \A q : IsServed(q) => IsServed(q)'
        <3>1. new \in serving' /\ new.request = taken
            BY <2>1
        <3> QED BY <3>1, <2>1 DEF IsServed
    <2>5. \A q : OnPort(old, q) => OnPort(port'[p], q) \/ IsServed(q)'
        BY <2>2, <2>3, <2>4 DEF OnPort
    <2> QED BY <2>3, <2>4, <2>5, <1>1, <1>2, WayKept DEF old
<1> QED BY <1>3, <1>4, <1>5, <1>6

LEMMA HubAccounts ==
    ASSUME ChannelInv, Accounted, NEW s \in serving, HubSendsBatch(s) \/ HubReplies(s)
    PROVE  Accounted'
<1> DEFINE p == s.port
           old == port[p]
           r == s.request
<1>1. /\ Types /\ p \in Ports /\ r \in Requests /\ s.sent \in Nat /\ carrier[r] = p
      /\ UNCHANGED <<request, carrier, outbox>> /\ Batches \in Nat
      /\ s \in [request : Requests, port : Ports, sent : 0 .. Batches]
    BY ControlChannelAssumption DEF ChannelInv, Types, Served, HubSendsBatch, HubReplies
<1>2. old \in PortState /\ old.down \in Seq(Message)
    BY <1>1, PortFacts
<1>3. PICK kind \in {"partial", "result", "error"}, n \in 0 .. Batches :
        /\ Sends(s, kind, n)
        /\ kind = "partial" => HubSendsBatch(s)
        /\ serving' = IF kind = "partial" THEN (serving \ {s}) \cup {[s EXCEPT !.sent = s.sent + 1]}
                      ELSE serving \ {s}
    <2>1. CASE HubSendsBatch(s)
        <3>1. s.sent + 1 \in 0 .. Batches /\ Sends(s, "partial", s.sent + 1)
              /\ serving' = (serving \ {s}) \cup {[s EXCEPT !.sent = s.sent + 1]}
            BY <2>1, <1>1 DEF HubSendsBatch
        <3> QED BY <3>1, <2>1
    <2>2. CASE HubReplies(s)
        <3>1. 0 \in 0 .. Batches /\ serving' = serving \ {s}
            BY <2>2, <1>1 DEF HubReplies
        <3>2. \E kind \in {"result", "error"} : Sends(s, kind, 0)
            BY <2>2 DEF HubReplies
        <3> QED BY <3>1, <3>2
    <2> QED BY <2>1, <2>2
<1> DEFINE m == [request |-> r, kind |-> kind, batch |-> n]
<1>4. m \in Message /\ m.request = r /\ m.kind = kind
    BY <1>1 DEF Message
<1>5. port' = [port EXCEPT ![p] = [old EXCEPT !.down = Append(old.down, m)]]
    BY <1>3 DEF Sends
<1> HIDE DEF m, p, old, r
<1>6. /\ port'[p].up = old.up /\ port'[p].down = Append(old.down, m)
      /\ port'[p].held = old.held /\ port'[p].life = old.life
      /\ \A q \in Ports : q # p => port'[q] = port[q]
    BY <1>1, <1>2, <1>5 DEF Types, PortState
<1>7. \A q : Ends(old.down, q) => Ends(Append(old.down, m), q)
    BY <1>2, <1>4, AppendEnds
<1>8. \A q : OnPort(old, q) => OnPort(port'[p], q)
    BY <1>6, <1>7 DEF OnPort
<1>9. \A q : IsServed(q) /\ q # r => IsServed(q)'
    BY <1>3 DEF IsServed, r
<1>10. OnPort(port'[p], r) \/ IsServed(r)'
    <2>1. CASE kind = "partial"
        <3>1. [s EXCEPT !.sent = s.sent + 1].request = r
            BY <1>1 DEF r
        <3> QED BY <3>1, <2>1, <1>3 DEF IsServed
    <2>2. CASE kind # "partial"
        <3>1. Ends(Append(old.down, m), r)
            BY <2>2, <1>2, <1>4, AppendEnds
        <3> QED BY <3>1, <1>6 DEF OnPort
    <2> QED BY <2>1, <2>2
<1>11. \A q \in Requests : carrier[q] # 0 => carrier[q] \in Ports
    BY CarrierFacts
<1> QED BY <1>1, <1>6, <1>8, <1>9, <1>10, <1>11, WayKept DEF old

LEMMA ReconnectAccounts ==
    ASSUME ChannelInv, Accounted, Reconnect
    PROVE  Accounted'
<1> DEFINE p == current + 1
           pt == [Unopened EXCEPT !.life = "joining", !.held = outbox]
<1>1. /\ Types /\ p \in Ports /\ p \in Nat \ {0} /\ p > current
      /\ UNCHANGED <<request, serving>>
    BY ControlChannelAssumption DEF Reconnect, ChannelInv, Types, Ports
<1>2. /\ port' = [port EXCEPT ![p] = pt]
      /\ carrier' = [q \in Requests |-> IF q \in ToSet(outbox) THEN p ELSE carrier[q]]
    BY DEF Reconnect
<1>3. port[p].life = "unopened" /\ PortHolds(port[p])
    BY <1>1 DEF ChannelInv, Opened, Placed
<1>4. pt.held = outbox
    BY DEF Unopened
<1> HIDE DEF p, pt
<1>5. port'[p] = pt /\ \A q \in Ports : q # p => port'[q] = port[q]
    BY <1>1, <1>2 DEF Types
<1>6. \A q : ~OnPort(port[p], q)
    <2>1. port[p].held = <<>> /\ port[p].up = <<>> /\ port[p].down = <<>>
        BY <1>3 DEF PortHolds
    <2>2. \A q : ~Ends(<<>>, q)
        BY DEF Ends
    <2> QED BY <2>1, <2>2, <1>3, NothingTwice DEF OnPort
<1>7. ASSUME NEW r \in Requests, request[r].at = "pending"
      PROVE  carrier'[r] # 0 /\ (OnPort(port'[carrier'[r]], r) \/ IsServed(r))
    <2>1. CASE r \in ToSet(outbox)
        BY <2>1, <1>1, <1>2, <1>4, <1>5 DEF OnPort
    <2>2. CASE r \notin ToSet(outbox)
        <3>1. /\ carrier'[r] = carrier[r] /\ carrier[r] # 0
              /\ OnPort(port[carrier[r]], r) \/ IsServed(r)
            BY <2>2, <1>2, <1>7 DEF Accounted
        <3>2. carrier[r] \in Ports
            BY <3>1, CarrierFacts
        <3> QED BY <3>1, <3>2, <1>5, <1>6
    <2> QED BY <2>1, <2>2
<1> QED BY <1>1, <1>7 DEF Accounted, IsServed

LEMMA AccountedStep == ChannelInv /\ Accounted /\ [ControlNext]_controlVars => Accounted'
<1> SUFFICES ASSUME ChannelInv, Accounted, [ControlNext]_controlVars PROVE Accounted'
    OBVIOUS
<1>1. ASSUME NEW r \in Requests, RequestTimeout(r) PROVE Accounted'
    <2>1. /\ request' = [request EXCEPT ![r].at = "timedOut"]
          /\ UNCHANGED <<carrier, outbox, port, serving>> /\ Types
        BY <1>1 DEF RequestTimeout, ChannelInv
    <2>2. \A q \in Requests : request'[q].at = "pending" => request[q].at = "pending"
        BY <2>1 DEF Types
    <2> QED BY <2>1, <2>2, WayKept DEF IsServed
<1>2. CASE \E r \in Requests : Ask(r) \/ RequestTimeout(r)
    BY <1>1, <1>2, AskAccounts
<1>3. CASE \E p \in Ports : Receive(p) \/ Joined(p) \/ HandleClose(p) \/ Break(p) \/ HubTakes(p)
    BY <1>3, ReceiveAccounts, PortAccounts
<1>4. CASE Reconnect
    BY <1>4, ReconnectAccounts
<1>5. CASE \E s \in serving : HubSendsBatch(s) \/ HubReplies(s)
    BY <1>5, HubAccounts
<1>6. CASE UNCHANGED controlVars
    BY <1>6 DEF controlVars, Accounted, OnPort, IsServed
<1> QED BY <1>2, <1>3, <1>4, <1>5, <1>6 DEF ControlNext

(* A request that waits is in the queue, on its way on its port, being      *)
(* answered, or was on a port that died with it.                            *)
THEOREM WaitingIsAccounted == ControlSpec => []RequestsAreAccounted
<1>1. ControlInit => Accounted
    BY DEF ControlInit, Accounted
<1>2. Accounted => RequestsAreAccounted
    BY AccountedIs
<1> QED BY <1>1, <1>2, AccountedStep, ChannelInvariance, PTL DEF ControlSpec

------------------------------------------------------------------------------
(* The viewport.  A settled viewport is current because the last request    *)
(* that counts is answered after everything that could have made it wrong,  *)
(* and because the rows asked for behind it are answered later still.       *)

FlatRow == [group : Groups, leaf : BOOLEAN, version : 0 .. MaxTicks]
Trees == [Groups -> [present : BOOLEAN, open : BOOLEAN, version : 0 .. MaxTicks]]

(* The requests of a viewport, with what the engine has answered.           *)
RowReads ==
    [what : {"count", "fill"}, stage : 0 .. 2, start : Nat, end : Nat, count : 0 .. MaxRows, rows : Seq(FlatRow)]
Toggles == [what : {"toggle"}, stage : 0 .. 2, index : Nat, collapse : BOOLEAN, count : 0 .. MaxRows]
Opening == [what : {"open"}, stage : {0, 2}]
ViewRequests == RowReads \cup Toggles \cup Opening

ViewportTypes ==
    /\ ViewportTypeOK
    /\ ticks \in 0 .. MaxTicks
    /\ requests \in Seq(ViewRequests)

(* The view is asked for first, and once.                                   *)
OpensFirst ==
    IF handle = "none" THEN Len(requests) = 1 /\ requests[1].what = "open"
                       ELSE \A i \in DOMAIN requests : requests[i].what # "open"

(* The engine takes the calls of the requests in their order.               *)
InTurn(s) == \A i, j \in DOMAIN s : i < j => s[j].stage <= s[i].stage

TimerHasAReason == refreshTimer => pendingRefresh

(* What a request has been answered so far is what the engine has now.      *)
RowsOf(c, list) == SubSeq(list, c.start + 1, Least(Len(list), Least(c.end, Len(list))))
Fresh(c, list) ==
    /\ c.what = "toggle" /\ c.stage = 2 => c.count = Len(list)
    /\ c.what \in {"count", "fill"} /\ c.stage >= 1 => c.count = Len(list)
    /\ c.what = "fill" /\ c.stage = 2 => c.rows = RowsOf(c, list)

(* Behind the i-th request the grid does not count again.                   *)
OnlyFillsAfter(s, i) == \A j \in DOMAIN s : j > i => s[j].what = "fill"
OnlyFills(s) == \A j \in DOMAIN s : s[j].what = "fill"
LastAreFresh(s, list) == \A i \in DOMAIN s : OnlyFillsAfter(s, i) => Fresh(s[i], list)

AskedFor(s, i) == \E j \in DOMAIN s : s[j].start <= i /\ i < s[j].end
SameRow(row, r) == row.group = r.group /\ row.leaf = r.leaf /\ row.version = r.version
Current(i) == SameRow(shown[i], Flat[i + 1])

NothingNew == handle = "open" /\ ~deltaOut /\ ~refreshTimer /\ ~dropped

GridIsCounted ==
    OnlyFills(requests) =>
        /\ rowCount = Len(Flat)
        /\ \A i \in range[1] .. range[2] : i < rowCount => AskedFor(requests, i) \/ Current(i)

LastCountIsCurrent == NothingNew => LastAreFresh(requests, Flat) /\ GridIsCounted

ViewportInv ==
    ViewportTypes /\ OpensFirst /\ InTurn(requests) /\ TimerHasAReason /\ LastCountIsCurrent

------------------------------------------------------------------------------
LEMMA FlatIsAList ==
    ASSUME tree \in Trees
    PROVE  Flat \in Seq(FlatRow) /\ Len(Flat) \in 0 .. MaxRows
<1>. DEFINE there == {x \in Groups : tree[x].present}
            n == Cardinality(there)
            ss == [g \in 1 .. n |-> WindowOf(g)]
<1>0. MaxGroups \in Nat BY ViewportAssumption
<1>1. n \in 0 .. MaxGroups
    <2>1. IsFiniteSet(Groups) /\ Cardinality(Groups) = MaxGroups
        BY <1>0, FS_Interval DEF Groups
    <2>2. Cardinality(there) <= Cardinality(Groups) /\ IsFiniteSet(there) BY <2>1, FS_Subset
    <2>3. n \in Nat BY <2>2, FS_CardinalityType
    <2>. QED BY <2>1, <2>2, <2>3, <1>0
<1>. HIDE DEF n
<1>2. ASSUME NEW g \in 1 .. n PROVE WindowOf(g) \in Seq(FlatRow) /\ Len(WindowOf(g)) \in {1, 2}
    <2>1. g \in Groups BY <1>0, <1>1 DEF Groups
    <2>2. tree[g].version \in 0 .. MaxTicks BY <2>1 DEF Trees
    <2>. DEFINE group == [group |-> g, leaf |-> FALSE, version |-> tree[g].version]
                leaf == [group EXCEPT !.leaf = TRUE]
    <2>3. group \in FlatRow /\ leaf \in FlatRow BY <2>1, <2>2 DEF FlatRow
    <2>4. WindowOf(g) = <<group, leaf>> \/ WindowOf(g) = <<group>> BY DEF WindowOf
    <2>. HIDE DEF group, leaf
    <2>5. <<group, leaf>> \in Seq(FlatRow) /\ Len(<<group, leaf>>) = 2 BY <2>3
    <2>6. <<group>> \in Seq(FlatRow) /\ Len(<<group>>) = 1 BY <2>3
    <2>. QED BY <2>4, <2>5, <2>6
<1>3. ss \in Seq(Seq(FlatRow)) /\ Len(ss) = n /\ n \in Nat
      /\ \A m \in 1 .. n : ss[m] \in Seq(FlatRow) /\ Len(ss[m]) \in {1, 2}
    <2>1. n \in Nat BY <1>1
    <2>2. \A g \in 1 .. n : WindowOf(g) \in Seq(FlatRow) BY <1>2
    <2>3. ss \in [1 .. n -> Seq(FlatRow)] BY <2>2
    <2>4. ss \in Seq(Seq(FlatRow)) /\ Len(ss) = n
        <3>. HIDE DEF ss
        <3>. QED BY <2>1, <2>3
    <2>. QED BY <2>1, <2>4, <1>2
<1>4. Flat = FlattenSeq(ss) BY Zenon DEF Flat, n
<1>. HIDE DEF ss
<1>5. PICK v \in [0 .. n -> Seq(FlatRow)] : IsFlattening(v, ss) /\ FlattenSeq(ss) = v[n]
    BY <1>3, FlattenGoesThrough
<1>. DEFINE Short == {m \in Nat : m <= n => Len(v[m]) <= 2 * m}
<1>6. 0 \in Short BY <1>5 DEF IsFlattening
<1>7. ASSUME NEW m \in Nat, m \in Short PROVE m + 1 \in Short
    <2>1. SUFFICES ASSUME m + 1 <= n PROVE Len(v[m + 1]) <= 2 * (m + 1) OBVIOUS
    <2>2. m \in 0 .. n /\ m + 1 \in 1 .. n /\ (m + 1) - 1 = m BY <2>1, <1>3
    <2>3. v[m + 1] = v[m] \o ss[m + 1] BY <2>2, <1>3, <1>5 DEF IsFlattening
    <2>4. v[m] \in Seq(FlatRow) /\ ss[m + 1] \in Seq(FlatRow) /\ Len(ss[m + 1]) \in {1, 2}
        BY <2>2, <1>3, <1>5
    <2>5. Len(v[m + 1]) = Len(v[m]) + Len(ss[m + 1]) BY <2>3, <2>4, ConcatProperties
    <2>6. Len(v[m]) \in Nat /\ Len(v[m]) <= 2 * m BY <2>2, <2>4, <1>7, LenProperties
    <2>7. \A a \in Nat, b \in {1, 2} : a <= 2 * m => a + b <= 2 * (m + 1) OBVIOUS
    <2>. QED BY <2>4, <2>5, <2>6, <2>7
<1>8. n \in Short
    <2>. HIDE DEF Short
    <2>. QED BY <1>3, <1>6, <1>7, Induction
<1>9. Flat \in Seq(FlatRow) /\ Len(Flat) <= 2 * n BY <1>3, <1>4, <1>5, <1>8
<1>. QED BY <1>0, <1>1, <1>9, LenProperties DEF MaxRows

LEMMA SameTreeSameList == ASSUME tree' = tree PROVE Flat' = Flat
BY DEF Flat, WindowOf

\* What is put behind the requests, or behind all of them but the first.
New == {f \in Seq(RowReads \cup Toggles) : Len(f) <= 1 /\ \A i \in DOMAIN f : f[i].stage = 0}

LEMMA NewRequests ==
    ASSUME NEW c \in RowReads \cup Toggles, c.stage = 0
    PROVE  <<c>> \in New
<1>1. <<c>> \in Seq(RowReads \cup Toggles) /\ Len(<<c>>) = 1 /\ DOMAIN <<c>> = {1} /\ <<c>>[1] = c
    OBVIOUS
<1>. QED BY <1>1 DEF New

LEMMA NoneIsNew == <<>> \in New
BY DEF New

LEMMA PutBehind ==
    ASSUME NEW s \in Seq(ViewRequests), NEW f \in New
    PROVE  LET t == s \o f IN
           /\ t \in Seq(ViewRequests) /\ Len(t) = Len(s) + Len(f) /\ DOMAIN t = 1 .. Len(t)
           /\ Len(f) \in 0 .. 1 /\ Len(s) \in Nat /\ DOMAIN s = 1 .. Len(s)
           /\ \A i \in 1 .. Len(s) : t[i] = s[i]
           /\ Len(f) = 1 => t[Len(s) + 1] = f[1] /\ f[1].stage = 0
           /\ Len(t) <= Len(s) + 1
<1>0. f \in Seq(RowReads \cup Toggles) /\ Len(f) <= 1 BY DEF New
<1>1. f \in Seq(ViewRequests) /\ Len(f) \in 0 .. 1
    <2>1. \A i \in 1 .. Len(f) : f[i] \in ViewRequests BY <1>0, LenProperties DEF ViewRequests
    <2>2. Len(f) \in Nat /\ DOMAIN f = 1 .. Len(f) /\ f = [i \in 1 .. Len(f) |-> f[i]]
        BY <1>0, LenProperties
    <2>3. f \in [1 .. Len(f) -> ViewRequests] BY <2>1, <2>2
    <2>. QED BY <1>0, <2>2, <2>3
<1>2. Len(s) \in Nat /\ Len(f) \in Nat BY <1>1, LenProperties
<1>3. Len(s) + Len(f) <= Len(s) + 1 BY <1>0, <1>2
<1>. QED BY <1>1, <1>3, ConcatProperties, LenProperties DEF New

LEMMA TailThen ==
    ASSUME NEW s \in Seq(ViewRequests), s # <<>>, NEW f \in New
    PROVE  LET t == Tail(s) \o f IN
           /\ t \in Seq(ViewRequests) /\ Len(t) = Len(s) - 1 + Len(f) /\ DOMAIN t = 1 .. Len(t)
           /\ Len(f) \in 0 .. 1 /\ Len(s) \in Nat \ {0} /\ DOMAIN s = 1 .. Len(s)
           /\ \A i \in 1 .. Len(s) - 1 : t[i] = s[i + 1]
           /\ Len(f) = 1 => t[Len(s)] = f[1] /\ f[1].stage = 0
           /\ Head(s) = s[1]
           /\ Len(t) <= Len(s)
<1>1. Tail(s) \in Seq(ViewRequests) /\ Len(Tail(s)) = Len(s) - 1 /\ Len(s) \in Nat \ {0}
      /\ \A i \in 1 .. Len(s) - 1 : Tail(s)[i] = s[i + 1]
    BY HeadTailProperties, LenProperties
<1>2. Head(s) = s[1] /\ (Len(s) - 1) + 1 = Len(s) BY <1>1
<1>. QED BY <1>1, <1>2, PutBehind

\* One more is in turn, and so are the rest once the first is answered.
LEMMA OneMoreInTurn ==
    ASSUME NEW t, NEW n \in Nat, NEW k \in 0 .. 1, DOMAIN t = 1 .. (n + k),
           \A i \in 1 .. n : t[i].stage \in 0 .. 2,
           \A i, j \in 1 .. n : i < j => t[j].stage <= t[i].stage,
           k = 1 => t[n + 1].stage = 0
    PROVE  InTurn(t)
<1>1. ASSUME NEW i \in 1 .. (n + k), NEW j \in 1 .. (n + k), i < j
      PROVE  t[j].stage <= t[i].stage
    <2>1. i \in 1 .. n BY <1>1
    <2>2. CASE j \in 1 .. n BY <1>1, <2>1, <2>2
    <2>3. CASE j \notin 1 .. n
        <3>1. j = n + 1 /\ k = 1 BY <2>3
        <3>2. t[j].stage = 0 /\ t[i].stage \in 0 .. 2 BY <2>1, <3>1
        <3>3. \A x \in 0 .. 2 : 0 <= x OBVIOUS
        <3>. QED BY <3>2, <3>3
    <2>. QED BY <2>2, <2>3
<1>. QED BY <1>1 DEF InTurn

LEMMA StaysInTurn ==
    ASSUME NEW s \in Seq(ViewRequests), InTurn(s), NEW f \in New
    PROVE  InTurn(s \o f) /\ (s # <<>> => InTurn(Tail(s) \o f))
<1>0. Len(s) \in Nat /\ DOMAIN s = 1 .. Len(s) BY LenProperties
<1>1. \A i \in 1 .. Len(s) : s[i].stage \in 0 .. 2
    BY LenProperties DEF ViewRequests, RowReads, Toggles, Opening
<1>2. InTurn(s \o f)
    <2>. DEFINE t == s \o f
                n == Len(s)
                k == Len(f)
    <2>1. /\ DOMAIN t = 1 .. (n + k) /\ k \in 0 .. 1 /\ n \in Nat
          /\ \A i \in 1 .. n : t[i] = s[i]
          /\ k = 1 => t[n + 1].stage = 0
        BY PutBehind
    <2>2. \A i, j \in 1 .. n : i < j => s[j].stage <= s[i].stage BY <1>0 DEF InTurn
    <2>. HIDE DEF t, n, k
    <2>3. \A i \in 1 .. n : t[i].stage \in 0 .. 2 BY <1>1, <2>1 DEF n
    <2>4. \A i, j \in 1 .. n : i < j => t[j].stage <= t[i].stage BY <2>1, <2>2
    <2>5. InTurn(t) BY <2>1, <2>3, <2>4, OneMoreInTurn
    <2>. QED BY <2>5 DEF t
<1>3. ASSUME s # <<>> PROVE InTurn(Tail(s) \o f)
    <2>. DEFINE t == Tail(s) \o f
                n == Len(s) - 1
                k == Len(f)
    <2>1. /\ DOMAIN t = 1 .. (n + k) /\ k \in 0 .. 1 /\ n \in Nat
          /\ \A i \in 1 .. n : t[i] = s[i + 1] /\ i + 1 \in 1 .. Len(s)
          /\ k = 1 => t[n + 1].stage = 0
        BY <1>3, <1>0, TailThen
    <2>2. \A i, j \in 1 .. n : i < j => s[j + 1].stage <= s[i + 1].stage BY <1>0 DEF InTurn
    <2>. HIDE DEF t, n, k
    <2>3. \A i \in 1 .. n : t[i].stage \in 0 .. 2 BY <1>1, <2>1
    <2>4. \A i, j \in 1 .. n : i < j => t[j].stage <= t[i].stage BY <2>1, <2>2
    <2>5. InTurn(t) BY <2>1, <2>3, <2>4, OneMoreInTurn
    <2>. QED BY <2>5 DEF t
<1>. QED BY <1>2, <1>3

\* What fill asks for, and that it covers the range.
LEMMA FillCovers ==
    ASSUME NEW count \in 0 .. MaxRows, NEW r \in Nat \X Nat
    PROVE  LET f == Fill(count, r) IN
           /\ f \in New
           /\ Len(f) = 1 => f[1].what = "fill" /\ f[1].start = r[1] /\ f[1].end \in Nat
           /\ \A i \in r[1] .. r[2] : i < count => Len(f) = 1 /\ f[1].start <= i /\ i < f[1].end
<1>. DEFINE end == Least(count, r[2] + 1)
            c == AskRows("fill", r[1], end)
<1>1. r[1] \in Nat /\ r[2] \in Nat /\ count \in Nat /\ end \in Nat /\ MaxRows \in Nat
    BY ViewportAssumption DEF Least, MaxRows
<1>2. c \in RowReads /\ c.what = "fill" /\ c.stage = 0 /\ c.start = r[1] /\ c.end = end
    BY <1>1 DEF AskRows, RowReads
<1>3. CASE end <= r[1]
    <2>1. Fill(count, r) = <<>> BY <1>3 DEF Fill
    <2>. QED BY <1>1, <1>3, <2>1, NoneIsNew DEF Least
<1>4. CASE ~(end <= r[1])
    <2>1. Fill(count, r) = <<c>> BY <1>4 DEF Fill
    <2>2. Len(<<c>>) = 1 /\ <<c>>[1] = c /\ <<c>> \in New BY <1>2, NewRequests
    <2>3. \A i \in r[1] .. r[2] : i < count => i < end BY <1>1 DEF Least
    <2>. HIDE DEF c, end
    <2>. QED BY <1>1, <1>2, <2>1, <2>2, <2>3
<1>. QED BY <1>3, <1>4

------------------------------------------------------------------------------
\* What is behind the requests is fresh while it has not been answered.
LEMMA FreshBehind ==
    ASSUME NEW s \in Seq(ViewRequests), NEW f \in New, NEW list, LastAreFresh(s, list)
    PROVE  LastAreFresh(s \o f, list) /\ (s # <<>> => LastAreFresh(Tail(s) \o f, list))
<1>0. Len(s) \in Nat /\ DOMAIN s = 1 .. Len(s) BY LenProperties
<1>1. LastAreFresh(s \o f, list)
    <2>. DEFINE t == s \o f
                n == Len(s)
                k == Len(f)
    <2>1. /\ DOMAIN t = 1 .. (n + k) /\ k \in 0 .. 1 /\ n \in Nat /\ DOMAIN s = 1 .. n
          /\ \A i \in 1 .. n : t[i] = s[i]
          /\ k = 1 => t[n + 1].stage = 0
        BY PutBehind
    <2>. HIDE DEF t, n, k
    <2>2. ASSUME NEW i \in DOMAIN t, OnlyFillsAfter(t, i) PROVE Fresh(t[i], list)
        <3>1. CASE i \in 1 .. n
            <4>1. \A j \in 1 .. n : j \in DOMAIN t BY <2>1
            <4>2. OnlyFillsAfter(s, i) BY <2>1, <2>2, <4>1 DEF OnlyFillsAfter
            <4>. QED BY <2>1, <3>1, <4>2 DEF LastAreFresh
        <3>2. CASE i \notin 1 .. n
            <4>1. i = n + 1 /\ k = 1 BY <2>1, <3>2
            <4>. QED BY <2>1, <4>1 DEF Fresh
        <3>. QED BY <3>1, <3>2
    <2>3. LastAreFresh(t, list) BY <2>2, Zenon DEF LastAreFresh
    <2>. QED BY <2>3 DEF t
<1>2. ASSUME s # <<>> PROVE LastAreFresh(Tail(s) \o f, list)
    <2>. DEFINE t == Tail(s) \o f
                n == Len(s) - 1
                k == Len(f)
    <2>1. /\ DOMAIN t = 1 .. (n + k) /\ k \in 0 .. 1 /\ n \in Nat /\ DOMAIN s = 1 .. (n + 1)
          /\ \A i \in 1 .. n : t[i] = s[i + 1]
          /\ k = 1 => t[n + 1].stage = 0
        BY <1>2, <1>0, TailThen
    <2>. HIDE DEF t, n, k
    <2>2. ASSUME NEW i \in DOMAIN t, OnlyFillsAfter(t, i) PROVE Fresh(t[i], list)
        <3>1. CASE i \in 1 .. n
            <4>1. ASSUME NEW j \in DOMAIN s, j > i + 1 PROVE s[j].what = "fill"
                <5>1. j - 1 \in 1 .. n /\ j - 1 > i /\ (j - 1) + 1 = j BY <2>1, <3>1, <4>1
                <5>2. j - 1 \in DOMAIN t BY <2>1, <5>1
                <5>3. t[j - 1].what = "fill" BY <2>2, <5>1, <5>2 DEF OnlyFillsAfter
                <5>. QED BY <2>1, <5>1, <5>3
            <4>2. OnlyFillsAfter(s, i + 1) BY <4>1, Zenon DEF OnlyFillsAfter
            <4>3. i + 1 \in DOMAIN s BY <2>1, <3>1
            <4>. QED BY <2>1, <3>1, <4>2, <4>3 DEF LastAreFresh
        <3>2. CASE i \notin 1 .. n
            <4>1. i = n + 1 /\ k = 1 BY <2>1, <3>2
            <4>. QED BY <2>1, <4>1 DEF Fresh
        <3>. QED BY <3>1, <3>2
    <2>3. LastAreFresh(t, list) BY <2>2, Zenon DEF LastAreFresh
    <2>. QED BY <2>3 DEF t
<1>. QED BY <1>1, <1>2

\* Behind a count that is still to come, whatever was answered will be again.
LEMMA CountedAgain ==
    ASSUME NEW s \in Seq(ViewRequests), NEW c \in RowReads \cup Toggles, c.stage = 0, c.what # "fill", NEW list
    PROVE  LastAreFresh(s \o <<c>>, list) /\ ~OnlyFills(s \o <<c>>)
<1>. DEFINE f == <<c>>
            t == s \o f
            n == Len(s)
<1>1. f \in New /\ Len(f) = 1 /\ f[1] = c BY NewRequests
<1>2. DOMAIN t = 1 .. (n + 1) /\ n \in Nat /\ t[n + 1] = c
    <2>. HIDE DEF f
    <2>1. DOMAIN t = 1 .. Len(t) /\ Len(t) = n + Len(f) /\ n \in Nat /\ t[n + 1] = f[1] BY <1>1, PutBehind
    <2>. QED BY <1>1, <2>1
<1>. HIDE DEF t, f, n
<1>3. ~OnlyFills(t)
    <2>1. n + 1 \in DOMAIN t BY <1>2
    <2>. QED BY <1>2, <2>1 DEF OnlyFills
<1>4. ASSUME NEW i \in DOMAIN t, OnlyFillsAfter(t, i) PROVE Fresh(t[i], list)
    <2>1. n + 1 \in DOMAIN t /\ (i = n + 1 \/ n + 1 > i) BY <1>2
    <2>2. i = n + 1 BY <1>2, <1>4, <2>1 DEF OnlyFillsAfter
    <2>. QED BY <1>2, <2>2 DEF Fresh
<1>5. LastAreFresh(t, list) BY <1>4, Zenon DEF LastAreFresh
<1>. QED BY <1>3, <1>5 DEF t, f

\* A window of the list as it is.
LEMMA WindowTyped ==
    ASSUME NEW list \in Seq(FlatRow), NEW from \in Nat, NEW to \in Nat, to <= Len(list)
    PROVE  /\ SubSeq(list, from + 1, to) \in Seq(FlatRow)
           /\ Len(SubSeq(list, from + 1, to)) = IF from + 1 <= to THEN to - from ELSE 0
           /\ \A n \in 1 .. to - from : SubSeq(list, from + 1, to)[n] = list[from + n]
<1>1. \A i \in from + 1 .. to : list[i] \in FlatRow BY LenProperties
<1>2. from + 1 \in Int /\ to \in Int OBVIOUS
<1>3. /\ SubSeq(list, from + 1, to) \in Seq(FlatRow)
      /\ Len(SubSeq(list, from + 1, to)) = IF from + 1 <= to THEN to - (from + 1) + 1 ELSE 0
      /\ \A i \in 1 .. to - (from + 1) + 1 : SubSeq(list, from + 1, to)[i] = list[(from + 1) + i - 1]
    BY <1>1, <1>2, SubSeqProperties
<1>4. to - (from + 1) + 1 = to - from /\ \A i \in 1 .. to - from : (from + 1) + i - 1 = from + i OBVIOUS
<1>. QED BY <1>3, <1>4

\* What a call of the engine does to a request, and which one moves the tree.
EngineMovesTo(i, x) ==
    /\ i \in DOMAIN requests /\ x \in ViewRequests
    /\ requests' = [requests EXCEPT ![i] = x]
    /\ x.what = requests[i].what
    /\ x.stage >= requests[i].stage
    /\ \A j \in 1 .. i - 1 : requests[j].stage >= x.stage
    /\ x.what = "fill" => x.start = requests[i].start /\ x.end = requests[i].end
    /\ Fresh(requests[i], Flat) => Fresh(x, Flat)
    /\ tree' \in Trees
    /\ tree' # tree => x.what = "toggle" /\ requests[i].stage = 0 /\ x.stage = 1

\* The requests as the engine answers them.
LEMMA ReadAnswered ==
    ASSUME NEW c \in RowReads, NEW n \in 0 .. MaxRows, NEW rows \in Seq(FlatRow)
    PROVE  /\ [c EXCEPT !.stage = 1, !.count = n] \in RowReads
           /\ [c EXCEPT !.stage = 2, !.rows = rows] \in RowReads
<1>1. ASSUME NEW k \in 0 .. 2 PROVE [c EXCEPT !.stage = k] \in RowReads BY DEF RowReads
<1>2. ASSUME NEW d \in RowReads
      PROVE  [d EXCEPT !.count = n] \in RowReads /\ [d EXCEPT !.rows = rows] \in RowReads
    BY DEF RowReads
<1>3. [c EXCEPT !.stage = 1, !.count = n] = [[c EXCEPT !.stage = 1] EXCEPT !.count = n] BY DEF RowReads
<1>4. [c EXCEPT !.stage = 2, !.rows = rows] = [[c EXCEPT !.stage = 2] EXCEPT !.rows = rows] BY DEF RowReads
<1>5. [c EXCEPT !.stage = 1] \in RowReads /\ [c EXCEPT !.stage = 2] \in RowReads
    <2>1. 1 \in 0 .. 2 /\ 2 \in 0 .. 2 OBVIOUS
    <2>. QED BY <1>1, <2>1
<1>6. [[c EXCEPT !.stage = 1] EXCEPT !.count = n] \in RowReads BY <1>2, <1>5
<1>7. [[c EXCEPT !.stage = 2] EXCEPT !.rows = rows] \in RowReads BY <1>2, <1>5
<1>. QED BY <1>3, <1>4, <1>6, <1>7, Zenon

LEMMA ToggleAnswered ==
    ASSUME NEW c \in Toggles, NEW n \in 0 .. MaxRows
    PROVE  /\ [c EXCEPT !.stage = 1] \in Toggles
           /\ [c EXCEPT !.stage = 2, !.count = n] \in Toggles
<1>1. ASSUME NEW k \in 0 .. 2 PROVE [c EXCEPT !.stage = k] \in Toggles BY DEF Toggles
<1>2. ASSUME NEW d \in Toggles PROVE [d EXCEPT !.count = n] \in Toggles BY DEF Toggles
<1>3. [c EXCEPT !.stage = 2, !.count = n] = [[c EXCEPT !.stage = 2] EXCEPT !.count = n] BY DEF Toggles
<1>4. [c EXCEPT !.stage = 1] \in Toggles /\ [c EXCEPT !.stage = 2] \in Toggles
    <2>1. 1 \in 0 .. 2 /\ 2 \in 0 .. 2 OBVIOUS
    <2>. QED BY <1>1, <2>1
<1>5. [[c EXCEPT !.stage = 2] EXCEPT !.count = n] \in Toggles BY <1>2, <1>4
<1>. QED BY <1>3, <1>4, <1>5, Zenon

LEMMA EngineMoves ==
    ASSUME ViewportTypes, OpensFirst, NEW i \in Nat, EngineStep(i)
    PROVE  \E x \in ViewRequests : EngineMovesTo(i, x)
<1>0. tree \in Trees BY DEF ViewportTypes, ViewportTypeOK, Trees
<1>1. Flat \in Seq(FlatRow) /\ Len(Flat) \in 0 .. MaxRows BY <1>0, FlatIsAList
<1>2. requests \in Seq(ViewRequests) /\ i \in DOMAIN requests
      /\ i \in 1 .. Len(requests) /\ Len(requests) \in Nat /\ DOMAIN requests = 1 .. Len(requests)
    BY LenProperties DEF EngineStep, ViewportTypes
<1>3. \A j \in 1 .. Len(requests) : requests[j] \in ViewRequests BY <1>2
<1>4. \A r \in ViewRequests : r.stage \in 0 .. 2 BY DEF ViewRequests, RowReads, Toggles, Opening
<1>5. \A j \in 1 .. i - 1 : j \in 1 .. Len(requests) BY <1>2
<1>6. PICK c \in ViewRequests : c = requests[i] BY <1>2, <1>3
<1>7. c.stage \in 0 .. 1
    <2>1. c.stage < 2 BY <1>6 DEF EngineStep
    <2>. QED BY <1>4, <2>1
<1>8. \A j \in 1 .. i - 1 : requests[j].stage >= c.stage + 1
    <2>1. ASSUME NEW j \in 1 .. i - 1 PROVE requests[j].stage >= c.stage + 1
        <3>1. requests[j].stage > c.stage BY <1>6 DEF EngineStep
        <3>2. requests[j].stage \in 0 .. 2 BY <1>3, <1>4, <1>5
        <3>. QED BY <1>7, <3>1, <3>2
    <2>. QED BY <2>1
<1>9. MaxRows \in Nat BY ViewportAssumption DEF MaxRows
<1>. DEFINE Changed(x) == requests' = [requests EXCEPT ![i] = x]
<1>10. CASE c.what = "open"
    <2>1. handle = "none" /\ i = 1
        <3>1. handle = "none" BY <1>2, <1>6, <1>10 DEF OpensFirst
        <3>2. Len(requests) = 1 BY <3>1 DEF OpensFirst
        <3>. QED BY <1>2, <3>1, <3>2
    <2>. DEFINE x == [c EXCEPT !.stage = 2]
    <2>2. x \in ViewRequests /\ x.what = "open" /\ x.stage = 2
        <3>1. c \in Opening BY <1>10 DEF ViewRequests, RowReads, Toggles
        <3>. QED BY <3>1 DEF Opening, ViewRequests
    <2>3. Changed(x) /\ tree' = tree BY <1>6, <1>10 DEF EngineStep
    <2>4. 1 .. i - 1 = {} BY <2>1
    <2>. HIDE DEF x
    <2>5. EngineMovesTo(i, x) BY <1>0, <1>2, <1>6, <1>7, <1>10, <2>2, <2>3, <2>4 DEF EngineMovesTo, Fresh
    <2>. QED BY <2>2, <2>5
<1>11. CASE c.what = "toggle" /\ c.stage = 0
    <2>. DEFINE x == [c EXCEPT !.stage = 1]
    <2>1. c \in Toggles BY <1>11 DEF ViewRequests, RowReads, Opening
    <2>2. x \in ViewRequests /\ x.what = "toggle" /\ x.stage = 1
        BY <1>9, <2>1, ToggleAnswered DEF Toggles, ViewRequests
    <2>3. /\ Changed(x)
          /\ tree' = IF c.index < Len(Flat)
                     THEN [tree EXCEPT ![Flat[c.index + 1].group].open =
                              IF Flat[c.index + 1].leaf THEN @ ELSE ~c.collapse]
                     ELSE tree
        BY <1>6, <1>11 DEF EngineStep
    <2>4. tree' \in Trees
        <3>1. CASE c.index < Len(Flat)
            <4>1. c.index + 1 \in 1 .. Len(Flat) /\ c.collapse \in BOOLEAN BY <1>1, <2>1, <3>1 DEF Toggles
            <4>2. Flat[c.index + 1] \in FlatRow BY <1>1, <4>1
            <4>3. Flat[c.index + 1].group \in Groups BY <4>2 DEF FlatRow
            <4>4. PICK g \in Groups : g = Flat[c.index + 1].group BY <4>3
            <4>5. PICK open \in BOOLEAN : open = IF Flat[c.index + 1].leaf THEN tree[g].open ELSE ~c.collapse
                BY <1>0, <4>1 DEF Trees
            <4>6. tree' = [tree EXCEPT ![g] = [tree[g] EXCEPT !.open = open]]
                BY <2>3, <3>1, <4>4, <4>5
            <4>7. [tree[g] EXCEPT !.open = open] \in [present : BOOLEAN, open : BOOLEAN, version : 0 .. MaxTicks]
                BY <1>0 DEF Trees
            <4>. QED BY <1>0, <4>6, <4>7 DEF Trees
        <3>. QED BY <1>0, <2>3, <3>1
    <2>. HIDE DEF x
    <2>5. \A j \in 1 .. i - 1 : requests[j].stage >= x.stage BY <1>8, <1>11, <2>2
    <2>6. EngineMovesTo(i, x) BY <1>2, <1>6, <1>11, <2>2, <2>3, <2>4, <2>5 DEF EngineMovesTo, Fresh
    <2>. QED BY <2>2, <2>6
<1>12. CASE c.what = "toggle" /\ c.stage = 1
    <2>. DEFINE x == [c EXCEPT !.stage = 2, !.count = Len(Flat)]
    <2>1. c \in Toggles BY <1>12 DEF ViewRequests, RowReads, Opening
    <2>2. x \in ViewRequests /\ x.what = "toggle" /\ x.stage = 2 /\ x.count = Len(Flat)
        <3>1. PICK n \in 0 .. MaxRows : n = Len(Flat) BY <1>1
        <3>. QED BY <2>1, <3>1, ToggleAnswered DEF Toggles, ViewRequests
    <2>3. Changed(x) /\ tree' = tree BY <1>6, <1>12 DEF EngineStep
    <2>. HIDE DEF x
    <2>4. \A j \in 1 .. i - 1 : requests[j].stage >= x.stage BY <1>8, <1>12, <2>2
    <2>5. EngineMovesTo(i, x) BY <1>0, <1>2, <1>6, <1>12, <2>2, <2>3, <2>4 DEF EngineMovesTo, Fresh
    <2>. QED BY <2>2, <2>5
<1>13. CASE c.what \in {"count", "fill"}
    <2>. DEFINE x == ReadStep(c)
                to == Least(Len(Flat), Least(c.end, c.count))
    <2>1. c \in RowReads BY <1>13 DEF ViewRequests, Toggles, Opening
    <2>2. Changed(x) /\ tree' = tree BY <1>6, <1>13 DEF EngineStep
    <2>3. CASE c.stage = 0
        <3>1. PICK n \in 0 .. MaxRows : n = Len(Flat) BY <1>1
        <3>2. x = [c EXCEPT !.stage = 1, !.count = n] BY <2>3, <3>1 DEF ReadStep
        <3>. HIDE DEF x
        <3>3. x \in ViewRequests /\ x.what = c.what /\ x.stage = 1 /\ x.count = Len(Flat)
              /\ x.start = c.start /\ x.end = c.end
            BY <2>1, <3>1, <3>2, ReadAnswered DEF RowReads, ViewRequests
        <3>4. \A j \in 1 .. i - 1 : requests[j].stage >= x.stage BY <1>8, <2>3, <3>3
        <3>5. EngineMovesTo(i, x) BY <1>0, <1>2, <1>6, <1>13, <2>2, <2>3, <3>3, <3>4 DEF EngineMovesTo, Fresh
        <3>. QED BY <3>3, <3>5
    <2>4. CASE c.stage = 1
        <3>0. to \in Nat /\ to <= Len(Flat) /\ c.start \in Nat /\ c.end \in Nat /\ c.count \in Nat
            BY <1>1, <1>9, <2>1 DEF Least, RowReads
        <3>1. SubSeq(Flat, c.start + 1, to) \in Seq(FlatRow) BY <1>1, <3>0, WindowTyped
        <3>2. PICK rows \in Seq(FlatRow) : rows = SubSeq(Flat, c.start + 1, to) BY <3>1
        <3>3. x = [c EXCEPT !.stage = 2, !.rows = rows] BY <2>4, <3>2 DEF ReadStep
        <3>. HIDE DEF to, x
        <3>4. x \in ViewRequests /\ x.what = c.what /\ x.stage = 2 /\ x.count = c.count
              /\ x.start = c.start /\ x.end = c.end /\ x.rows = rows
            BY <1>9, <2>1, <3>3, ReadAnswered DEF RowReads, ViewRequests
        <3>5. c.count = Len(Flat) => x.rows = RowsOf(x, Flat) BY <3>2, <3>4 DEF RowsOf, to
        <3>6. \A j \in 1 .. i - 1 : requests[j].stage >= x.stage BY <1>8, <2>4, <3>4
        <3>7. EngineMovesTo(i, x)
            BY <1>0, <1>2, <1>6, <1>13, <2>2, <2>4, <3>4, <3>5, <3>6 DEF EngineMovesTo, Fresh
        <3>. QED BY <3>4, <3>7
    <2>. QED BY <1>7, <2>3, <2>4
<1>14. c.what \in {"open", "toggle", "count", "fill"}
    BY DEF ViewRequests, RowReads, Toggles, Opening
<1>. QED BY <1>7, <1>10, <1>11, <1>12, <1>13, <1>14

------------------------------------------------------------------------------
LEMMA RequestKinds ==
    ASSUME NEW c \in ViewRequests
    PROVE  /\ c.what \in {"count", "fill"} => c \in RowReads
           /\ c.what = "toggle" => c \in Toggles
           /\ c.what = "open" => c \in Opening
           /\ c.stage \in 0 .. 2
BY DEF ViewRequests, RowReads, Toggles, Opening

LEMMA HeadRequest ==
    ASSUME requests \in Seq(ViewRequests), NEW what, Answered(what)
    PROVE  /\ requests # <<>> /\ Head(requests) = requests[1] /\ Head(requests) \in ViewRequests
           /\ 1 \in DOMAIN requests /\ Len(requests) \in Nat \ {0} /\ DOMAIN requests = 1 .. Len(requests)
           /\ requests[1].what = what /\ requests[1].stage = 2
<1>1. requests # <<>> /\ Head(requests).what = what /\ Head(requests).stage = 2 BY DEF Answered
<1>2. Head(requests) = requests[1] /\ Len(requests) \in Nat \ {0} /\ DOMAIN requests = 1 .. Len(requests)
      /\ Head(requests) \in ViewRequests
    BY <1>1
<1>3. 1 \in DOMAIN requests BY <1>2
<1>. QED BY <1>1, <1>2, <1>3

LEMMA CountReads == CountRead("count") \in RowReads /\ CountRead("count").stage = 0 /\ CountRead("count").what = "count"
<1>1. 0 \in 0 .. MaxRows BY ViewportAssumption DEF MaxRows
<1>. QED BY <1>1 DEF CountRead, AskRows, RowReads

LEMMA BlockTyped ==
    ASSUME shown \in [0 .. MaxRows - 1 -> Row \cup {NoRowYet}], NEW c \in RowReads
    PROVE  Block(c) \in [0 .. MaxRows - 1 -> Row \cup {NoRowYet}]
<1>. DEFINE ShownAt(i) ==
        LET n == i - c.start + 1 IN
        IF i < c.start \/ n > Len(c.rows) THEN shown[i]
        ELSE [group |-> c.rows[n].group, leaf |-> c.rows[n].leaf, version |-> c.rows[n].version,
              expanded |-> n < Len(c.rows) /\ c.rows[n + 1].leaf /\ ~c.rows[n].leaf]
<1>1. c.start \in Nat /\ c.rows \in Seq(FlatRow) BY DEF RowReads
<1>2. ASSUME NEW i \in 0 .. MaxRows - 1 PROVE ShownAt(i) \in Row \cup {NoRowYet}
    <2>. DEFINE n == i - c.start + 1
    <2>1. CASE i < c.start \/ n > Len(c.rows) BY <2>1
    <2>2. CASE ~(i < c.start \/ n > Len(c.rows))
        <3>1. n \in 1 .. Len(c.rows) BY <1>1, <2>2
        <3>2. PICK r \in FlatRow : r = c.rows[n] BY <1>1, <3>1
        <3>. DEFINE deeper == n < Len(c.rows) /\ c.rows[n + 1].leaf /\ ~c.rows[n].leaf
        <3>3. deeper \in BOOLEAN OBVIOUS
        <3>4. ShownAt(i) = [group |-> r.group, leaf |-> r.leaf, version |-> r.version, expanded |-> deeper]
            BY <2>2, <3>2
        <3>. HIDE DEF deeper, ShownAt
        <3>. QED BY <3>2, <3>3, <3>4 DEF Row, FlatRow
    <2>. QED BY <2>1, <2>2
<1>3. Block(c) = [i \in 0 .. MaxRows - 1 |-> ShownAt(i)] BY DEF Block
<1>. HIDE DEF ShownAt
<1>. QED BY <1>2, <1>3

\* The rows of a fresh answer are shown, the others stay.
LEMMA BlockShows ==
    ASSUME tree \in Trees, NEW c \in RowReads, c.rows = RowsOf(c, Flat),
           NEW i \in 0 .. MaxRows - 1, i < Len(Flat)
    PROVE  IF c.start <= i /\ i < c.end THEN SameRow(Block(c)[i], Flat[i + 1])
                                        ELSE Block(c)[i] = shown[i]
<1>. DEFINE to == Least(Len(Flat), Least(c.end, Len(Flat)))
            n == i - c.start + 1
<1>1. Flat \in Seq(FlatRow) /\ Len(Flat) \in Nat BY FlatIsAList, LenProperties
<1>2. c.start \in Nat /\ c.end \in Nat BY DEF RowReads
<1>3. to \in Nat /\ to <= Len(Flat) /\ (i + 1 <= to <=> i < c.end) BY <1>1, <1>2 DEF Least
<1>4. c.rows = SubSeq(Flat, c.start + 1, to) BY DEF RowsOf
<1>5. Block(c)[i] =
         IF i < c.start \/ n > Len(c.rows) THEN shown[i]
         ELSE [group |-> c.rows[n].group, leaf |-> c.rows[n].leaf, version |-> c.rows[n].version,
               expanded |-> n < Len(c.rows) /\ c.rows[n + 1].leaf /\ ~c.rows[n].leaf]
    BY DEF Block
<1>. HIDE DEF to
<1>6. /\ Len(c.rows) = IF c.start + 1 <= to THEN to - c.start ELSE 0
      /\ \A m \in 1 .. to - c.start : c.rows[m] = Flat[c.start + m]
    <2>1. /\ Len(SubSeq(Flat, c.start + 1, to)) = IF c.start + 1 <= to THEN to - c.start ELSE 0
          /\ \A m \in 1 .. to - c.start : SubSeq(Flat, c.start + 1, to)[m] = Flat[c.start + m]
        BY <1>1, <1>2, <1>3, WindowTyped
    <2>. QED BY <2>1, <1>4
<1>7. CASE c.start <= i /\ i < c.end
    <2>1. i + 1 <= to /\ c.start + 1 <= to BY <1>2, <1>3, <1>7
    <2>2. n \in 1 .. to - c.start /\ c.start + n = i + 1 BY <1>2, <1>3, <1>7, <2>1
    <2>3. ~(i < c.start \/ n > Len(c.rows)) BY <1>2, <1>3, <1>6, <1>7, <2>1, <2>2
    <2>4. c.rows[n] = Flat[i + 1] BY <1>6, <2>2
    <2>. QED BY <1>5, <1>7, <2>3, <2>4 DEF SameRow
<1>8. CASE ~(c.start <= i /\ i < c.end)
    <2>1. i < c.start \/ n > Len(c.rows) BY <1>2, <1>3, <1>6, <1>8
    <2>. QED BY <1>5, <1>8, <2>1
<1>. QED BY <1>7, <1>8

------------------------------------------------------------------------------
\* What the answer of a count asks for next.
Refill(count) == IF handle = "open" THEN Fill(count, range) ELSE <<>>

LEMMA RefillIsNew ==
    ASSUME range \in Ranges, NEW count \in 0 .. MaxRows
    PROVE  Refill(count) \in New
<1>1. range \in Nat \X Nat BY ViewportAssumption
<1>2. Fill(count, range) \in New BY <1>1, FillCovers
<1>. QED BY <1>2, NoneIsNew DEF Refill

LEMMA ViewportTypesStep ==
    ASSUME ViewportTypes, OpensFirst, [ViewportNext]_viewportVars
    PROVE  ViewportTypes'
<1>. USE DEF ViewportTypes, ViewportTypeOK
<1>0. /\ requests \in Seq(ViewRequests) /\ Len(requests) \in Nat /\ range \in Nat \X Nat
      /\ {MaxTicks, MaxCallsOut, MaxToggles} \subseteq Nat /\ Ranges \subseteq (Nat \X Nat) /\ MaxRows \in Nat
    BY LenProperties, ViewportAssumption DEF MaxRows
<1>1. CASE UpstreamTick
    <2>1. PICK g \in Groups : tree' = [tree EXCEPT ![g] = [tree[g] EXCEPT !.present = TRUE, !.version = ticks + 1]]
        BY <1>1 DEF UpstreamTick
    <2>2. ticks + 1 \in 0 .. MaxTicks /\ ticks' = ticks + 1 BY <1>0, <1>1 DEF UpstreamTick
    <2>3. [tree[g] EXCEPT !.present = TRUE, !.version = ticks + 1]
            \in [present : BOOLEAN, open : BOOLEAN, version : 0 .. MaxTicks]
        BY <2>2
    <2>. QED BY <1>1, <2>1, <2>2, <2>3 DEF UpstreamTick
<1>2. CASE ViewOpened
    <2>. DEFINE c == CountRead("count")
    <2>1. requests' = Tail(requests) \o <<c>> /\ <<c>> \in New /\ Len(<<c>>) = 1
        <3>1. Tail(requests) \in Seq(ViewRequests) BY <1>0, <1>2, HeadRequest, HeadTailProperties DEF ViewOpened
        <3>2. requests' = Append(Tail(requests), c) BY <1>2 DEF ViewOpened
        <3>3. c \in ViewRequests BY CountReads DEF ViewRequests
        <3>. HIDE DEF c
        <3>4. Append(Tail(requests), c) = Tail(requests) \o <<c>> BY <3>1, <3>3, AppendIsConcat
        <3>. QED BY <3>2, <3>4, CountReads, NewRequests DEF c
    <2>2. requests # <<>> BY <1>2 DEF ViewOpened, Answered
    <2>. HIDE DEF c
    <2>3. requests' \in Seq(ViewRequests) /\ Len(requests') = Len(requests) BY <1>0, <2>1, <2>2, TailThen
    <2>. QED BY <1>2, <2>3 DEF ViewOpened
<1>3. CASE Counted
    <2>1. requests # <<>> /\ Head(requests).count \in 0 .. MaxRows
        BY <1>0, <1>3, HeadRequest, RequestKinds DEF Counted, RowReads
    <2>2. requests' = Tail(requests) \o Refill(Head(requests).count) BY <1>3 DEF Counted, Refill
    <2>3. Refill(Head(requests).count) \in New BY <2>1, RefillIsNew
    <2>4. requests' \in Seq(ViewRequests) /\ Len(requests') <= Len(requests)
        BY <1>0, <2>1, <2>2, <2>3, TailThen
    <2>5. rowCount' \in 0 .. MaxRows BY <1>3, <2>1 DEF Counted
    <2>6. UNCHANGED <<tree, ticks, deltaOut, handle, range, pendingRefresh, refreshTimer, shown>>
        BY <1>3 DEF Counted
    <2>7. Len(requests') <= MaxCallsOut + 1
        <3>1. Len(requests') \in Nat /\ MaxCallsOut \in Nat BY <2>4, <1>0, LenProperties
        <3>. QED BY <3>1, <2>4, <1>0
    <2>. QED BY <2>4, <2>5, <2>6, <2>7
<1>4. CASE Filled
    <2>1. requests # <<>> /\ Head(requests) \in RowReads BY <1>0, <1>4, HeadRequest, RequestKinds DEF Filled
    <2>2. requests' \in Seq(ViewRequests) /\ Len(requests') = Len(requests) - 1
        BY <1>0, <1>4, <2>1, HeadTailProperties DEF Filled
    <2>3. shown' \in [0 .. MaxRows - 1 -> Row \cup {NoRowYet}] BY <1>4, <2>1, BlockTyped DEF Filled
    <2>. QED BY <1>0, <1>4, <2>2, <2>3 DEF Filled
<1>5. CASE Toggled
    <2>1. requests # <<>> /\ Head(requests).count \in 0 .. MaxRows
        BY <1>0, <1>5, HeadRequest, RequestKinds DEF Toggled, Toggles
    <2>2. requests' = Tail(requests) \o Refill(Head(requests).count) BY <1>5 DEF Toggled, Refill
    <2>3. Refill(Head(requests).count) \in New BY <2>1, RefillIsNew
    <2>4. requests' \in Seq(ViewRequests) /\ Len(requests') <= Len(requests)
        BY <1>0, <2>1, <2>2, <2>3, TailThen
    <2>5. rowCount' \in 0 .. MaxRows BY <1>5, <2>1 DEF Toggled
    <2>6. UNCHANGED <<tree, ticks, deltaOut, handle, range, pendingRefresh, refreshTimer, shown>>
        BY <1>5 DEF Toggled
    <2>7. Len(requests') <= MaxCallsOut + 1
        <3>1. Len(requests') \in Nat /\ MaxCallsOut \in Nat BY <2>4, <1>0, LenProperties
        <3>. QED BY <3>1, <2>4, <1>0
    <2>. QED BY <2>4, <2>5, <2>6, <2>7
<1>6. CASE Fails
    <2>1. requests' \in Seq(ViewRequests) /\ Len(requests') = Len(requests) - 1
        BY <1>0, <1>6, HeadTailProperties DEF Fails
    <2>. QED BY <1>0, <1>6, <2>1 DEF Fails
<1>7. ASSUME NEW i \in 1 .. MaxCallsOut + 1, EngineStep(i) PROVE ViewportTypes'
    <2>1. i \in Nat BY <1>0
    <2>2. PICK x \in ViewRequests : EngineMovesTo(i, x) BY <1>7, <2>1, EngineMoves
    <2>3. /\ requests' = [requests EXCEPT ![i] = x] /\ i \in 1 .. Len(requests)
          /\ tree' \in Trees
        BY <1>0, <2>2, LenProperties DEF EngineMovesTo
    <2>4. requests' \in Seq(ViewRequests) /\ Len(requests') = Len(requests) BY <1>0, <2>3, ExceptSeq
    <2>5. UNCHANGED <<ticks, toggles, deltaOut, handle, rowCount, range, pendingRefresh, refreshTimer, shown>>
        BY <1>7 DEF EngineStep
    <2>. QED BY <2>3, <2>4, <2>5 DEF Trees
<1>8. ASSUME NEW r \in Ranges, SetViewportRange(r) PROVE ViewportTypes'
    <2>. DEFINE f == IF handle = "open" THEN Fill(rowCount, r) ELSE <<>>
    <2>1. f \in New
        <3>1. r \in Nat \X Nat BY <1>0
        <3>2. Fill(rowCount, r) \in New BY <3>1, FillCovers
        <3>. QED BY <3>2, NoneIsNew
    <2>2. requests' = requests \o f BY <1>8 DEF SetViewportRange
    <2>. HIDE DEF f
    <2>3. requests' \in Seq(ViewRequests) /\ Len(requests') <= Len(requests) + 1
        BY <1>0, <2>1, <2>2, PutBehind
    <2>. QED BY <1>0, <1>8, <2>3 DEF SetViewportRange
<1>9. ASSUME NEW i \in 0 .. MaxRows - 1, Toggle(i) PROVE ViewportTypes'
    <2>. DEFINE c == [what |-> "toggle", stage |-> 0, index |-> i, collapse |-> shown[i].expanded, count |-> 0]
    <2>1. c \in ViewRequests
        <3>1. shown[i] \in Row BY <1>9 DEF Toggle
        <3>2. shown[i].expanded \in BOOLEAN BY <3>1 DEF Row
        <3>3. 0 \in 0 .. MaxRows /\ i \in Nat BY <1>0
        <3>. QED BY <3>2, <3>3 DEF Toggles, ViewRequests
    <2>2. requests' = Append(requests, c) BY <1>9 DEF Toggle
    <2>. HIDE DEF c
    <2>3. requests' \in Seq(ViewRequests) /\ Len(requests') = Len(requests) + 1
        BY <1>0, <2>1, <2>2, AppendProperties
    <2>. QED BY <1>0, <1>9, <2>3 DEF Toggle
<1>10. CASE OnUpstreamChange BY <1>10 DEF OnUpstreamChange
<1>11. CASE RefreshDue
    <2>1. CountRead("count") \in ViewRequests BY CountReads DEF ViewRequests
    <2>2. /\ Append(requests, CountRead("count")) \in Seq(ViewRequests)
          /\ Len(Append(requests, CountRead("count"))) = Len(requests) + 1
        BY <1>0, <2>1, AppendProperties
    <2>3. CASE requests' = Append(requests, CountRead("count"))
        <3>1. Len(requests) < MaxCallsOut BY <1>11 DEF RefreshDue
        <3>2. requests' \in Seq(ViewRequests) /\ Len(requests') <= MaxCallsOut + 1 BY <1>0, <2>2, <2>3, <3>1
        <3>. QED BY <1>11, <3>2 DEF RefreshDue
    <2>4. CASE requests' = requests BY <1>0, <1>11, <2>4 DEF RefreshDue
    <2>. QED BY <1>11, <2>3, <2>4 DEF RefreshDue
<1>12. CASE Destroy BY <1>12 DEF Destroy
<1>13. CASE UNCHANGED viewportVars BY <1>13 DEF viewportVars
<1>. QED BY <1>1, <1>2, <1>3, <1>4, <1>5, <1>6, <1>7, <1>8, <1>9, <1>10, <1>11, <1>12, <1>13 DEF ViewportNext

------------------------------------------------------------------------------
\* What a step does to the requests.
Stays == requests' = requests /\ (handle' = handle \/ (handle = "open" /\ handle' = "gone"))
Continues ==
    /\ handle # "none" /\ handle' = handle
    /\ \E f \in New : requests' = requests \o f \/ (requests # <<>> /\ requests' = Tail(requests) \o f)
Begins == handle' = "open" /\ requests' = <<CountRead("count")>>
Works == handle' = handle /\ \E i \in Nat, x \in ViewRequests : EngineMovesTo(i, x)

LEMMA FirstIsOpen ==
    ASSUME ViewportTypes, OpensFirst, NEW what, Answered(what)
    PROVE  IF what = "open" THEN handle = "none" /\ Len(requests) = 1 /\ requests # <<>>
                            ELSE handle # "none"
<1>1. 1 \in DOMAIN requests /\ requests[1].what = what /\ requests # <<>>
    BY HeadRequest DEF ViewportTypes
<1>. QED BY <1>1 DEF OpensFirst

LEMMA RequestsMove ==
    ASSUME ViewportTypes, OpensFirst, [ViewportNext]_viewportVars
    PROVE  Stays \/ Continues \/ Begins \/ Works
<1>0. /\ requests \in Seq(ViewRequests) /\ range \in Nat \X Nat /\ range \in Ranges
      /\ rowCount \in 0 .. MaxRows
      /\ MaxCallsOut \in Nat /\ Ranges \subseteq (Nat \X Nat)
    BY LenProperties, ViewportAssumption DEF ViewportTypes, ViewportTypeOK
<1>1. CASE UpstreamTick BY <1>1 DEF UpstreamTick, Stays
<1>2. CASE ViewOpened
    <2>1. Len(requests) = 1 /\ requests # <<>> BY <1>2, FirstIsOpen DEF ViewOpened
    <2>2. Tail(requests) = <<>>
        <3>1. Tail(requests) \in Seq(ViewRequests) /\ Len(Tail(requests)) = Len(requests) - 1
            BY <1>0, <2>1, HeadTailProperties
        <3>2. Len(Tail(requests)) = 0 BY <2>1, <3>1
        <3>3. \A t \in Seq(ViewRequests) : Len(t) = 0 => t = <<>> OBVIOUS
        <3>. QED BY <3>1, <3>2, <3>3, Zenon
    <2>3. requests' = Append(<<>>, CountRead("count")) /\ handle' = "open" BY <1>2, <2>2 DEF ViewOpened
    <2>. QED BY <2>3 DEF Begins
<1>3. CASE Counted
    <2>1. requests # <<>> /\ Head(requests).count \in 0 .. MaxRows
        BY <1>0, <1>3, HeadRequest, RequestKinds DEF Counted, RowReads
    <2>2. requests' = Tail(requests) \o Refill(Head(requests).count) BY <1>3 DEF Counted, Refill
    <2>3. Refill(Head(requests).count) \in New BY <1>0, <2>1, RefillIsNew
    <2>4. handle # "none" /\ handle' = handle BY <1>3, FirstIsOpen DEF Counted
    <2>. QED BY <2>1, <2>2, <2>3, <2>4 DEF Continues
<1>4. CASE Filled \/ Fails
    <2>1. requests # <<>> /\ requests' = Tail(requests) BY <1>4 DEF Filled, Fails, Answered
    <2>2. handle # "none" /\ handle' = handle
        <3>1. CASE Filled BY <3>1, FirstIsOpen DEF Filled
        <3>2. CASE Fails
            <4>1. Answered(Head(requests).what) /\ Head(requests).what # "open"
                BY <3>2 DEF Fails, Answered
            <4>. QED BY <3>2, <4>1, FirstIsOpen DEF Fails
        <3>. QED BY <1>4, <3>1, <3>2
    <2>3. Tail(requests) = Tail(requests) \o <<>>
        <3>1. Tail(requests) \in Seq(ViewRequests) BY <1>0, <2>1, HeadTailProperties
        <3>. QED BY <3>1, ConcatEmptySeq
    <2>. QED BY <2>1, <2>2, <2>3, NoneIsNew DEF Continues
<1>5. CASE Toggled
    <2>1. requests # <<>> /\ Head(requests).count \in 0 .. MaxRows
        BY <1>0, <1>5, HeadRequest, RequestKinds DEF Toggled, Toggles
    <2>2. requests' = Tail(requests) \o Refill(Head(requests).count) BY <1>5 DEF Toggled, Refill
    <2>3. Refill(Head(requests).count) \in New BY <1>0, <2>1, RefillIsNew
    <2>4. handle # "none" /\ handle' = handle BY <1>5, FirstIsOpen DEF Toggled
    <2>. QED BY <2>1, <2>2, <2>3, <2>4 DEF Continues
<1>7. ASSUME NEW i \in 1 .. MaxCallsOut + 1, EngineStep(i) PROVE Works
    <2>1. i \in Nat BY <1>0
    <2>2. PICK x \in ViewRequests : EngineMovesTo(i, x) BY <1>7, <2>1, EngineMoves
    <2>3. handle' = handle BY <1>7 DEF EngineStep
    <2>. QED BY <2>1, <2>2, <2>3 DEF Works
<1>8. ASSUME NEW r \in Ranges, SetViewportRange(r) PROVE Stays \/ Continues
    <2>1. r \in Nat \X Nat BY <1>0
    <2>2. Fill(rowCount, r) \in New BY <1>0, <2>1, FillCovers
    <2>3. CASE handle = "open"
        <3>1. requests' = requests \o Fill(rowCount, r) /\ handle' = handle BY <1>8, <2>3 DEF SetViewportRange
        <3>. QED BY <2>2, <2>3, <3>1 DEF Continues
    <2>4. CASE handle # "open"
        <3>1. requests' = requests \o <<>> /\ handle' = handle BY <1>8, <2>4 DEF SetViewportRange
        <3>2. requests \o <<>> = requests BY <1>0, ConcatEmptySeq
        <3>. QED BY <3>1, <3>2 DEF Stays
    <2>. QED BY <2>3, <2>4
<1>9. ASSUME NEW i \in 0 .. MaxRows - 1, Toggle(i) PROVE Continues
    <2>. DEFINE c == [what |-> "toggle", stage |-> 0, index |-> i, collapse |-> shown[i].expanded, count |-> 0]
    <2>1. c \in Toggles /\ c.stage = 0
        <3>1. shown[i] \in Row BY <1>9 DEF Toggle, ViewportTypes, ViewportTypeOK
        <3>2. shown[i].expanded \in BOOLEAN BY <3>1 DEF Row
        <3>3. 0 \in 0 .. MaxRows /\ i \in Nat BY ViewportAssumption DEF MaxRows
        <3>. QED BY <3>2, <3>3 DEF Toggles
    <2>2. requests' = Append(requests, c) /\ handle = "open" /\ handle' = handle BY <1>9 DEF Toggle
    <2>. HIDE DEF c
    <2>3. requests' = requests \o <<c>> BY <1>0, <2>1, <2>2, AppendIsConcat DEF ViewRequests
    <2>4. <<c>> \in New BY <2>1, NewRequests
    <2>. QED BY <2>2, <2>3, <2>4 DEF Continues
<1>10. CASE OnUpstreamChange BY <1>10 DEF OnUpstreamChange, Stays
<1>11. CASE RefreshDue
    <2>. DEFINE c == CountRead("count")
    <2>1. CASE pendingRefresh /\ handle = "open"
        <3>1. requests' = Append(requests, c) /\ handle' = handle BY <1>11, <2>1 DEF RefreshDue
        <3>2. c \in ViewRequests /\ <<c>> \in New BY CountReads, NewRequests DEF ViewRequests
        <3>. HIDE DEF c
        <3>3. requests' = requests \o <<c>> BY <1>0, <3>1, <3>2, AppendIsConcat
        <3>. QED BY <2>1, <3>1, <3>2, <3>3 DEF Continues
    <2>2. CASE ~(pendingRefresh /\ handle = "open") BY <1>11, <2>2 DEF RefreshDue, Stays
    <2>. QED BY <2>1, <2>2
<1>12. CASE Destroy BY <1>12 DEF Destroy, Stays
<1>13. CASE UNCHANGED viewportVars BY <1>13 DEF viewportVars, Stays
<1>. QED BY <1>1, <1>2, <1>3, <1>4, <1>5, <1>7, <1>8, <1>9, <1>10, <1>11, <1>12, <1>13 DEF ViewportNext

\* The requests with one of them answered further.
LEMMA Moved ==
    ASSUME ViewportTypes, NEW i \in Nat, NEW x, EngineMovesTo(i, x)
    PROVE  /\ DOMAIN requests' = DOMAIN requests /\ Len(requests') = Len(requests) /\ Len(requests) \in Nat
           /\ DOMAIN requests = 1 .. Len(requests)
           /\ \A j \in DOMAIN requests : requests'[j] = IF j = i THEN x ELSE requests[j]
           /\ \A j \in DOMAIN requests : requests'[j].what = requests[j].what
           /\ \A j \in DOMAIN requests : requests[j].stage \in 0 .. 2
           /\ x.stage \in 0 .. 2
<1>1. requests \in Seq(ViewRequests) /\ i \in 1 .. Len(requests) /\ x \in ViewRequests
      /\ requests' = [requests EXCEPT ![i] = x] /\ x.what = requests[i].what
    BY LenProperties DEF ViewportTypes, EngineMovesTo
<1>2. requests' \in Seq(ViewRequests) /\ Len(requests') = Len(requests)
      /\ \A j \in 1 .. Len(requests) : requests'[j] = IF j = i THEN x ELSE requests[j]
    BY <1>1, ExceptSeq
<1>3. DOMAIN requests' = 1 .. Len(requests) /\ DOMAIN requests = 1 .. Len(requests) /\ Len(requests) \in Nat
    BY <1>1, <1>2, LenProperties
<1>4. \A j \in DOMAIN requests : requests[j] \in ViewRequests BY <1>1
<1>. QED BY <1>1, <1>2, <1>3, <1>4, RequestKinds

LEMMA OpensFirstStep ==
    ASSUME ViewportTypes, OpensFirst, [ViewportNext]_viewportVars
    PROVE  OpensFirst'
<1>0. requests \in Seq(ViewRequests) /\ DOMAIN requests = 1 .. Len(requests) /\ Len(requests) \in Nat
    BY LenProperties DEF ViewportTypes
<1>1. CASE Stays BY <1>1 DEF Stays, OpensFirst
<1>2. CASE Continues
    <2>1. PICK f \in New : requests' = requests \o f \/ (requests # <<>> /\ requests' = Tail(requests) \o f)
        BY <1>2 DEF Continues
    <2>2. \A j \in DOMAIN requests : requests[j].what # "open" BY <1>2 DEF Continues, OpensFirst
    <2>3. Len(f) = 1 => f[1].what # "open"
        <3>1. f \in Seq(RowReads \cup Toggles) BY DEF New
        <3>2. Len(f) = 1 => f[1] \in RowReads \cup Toggles BY <3>1
        <3>. QED BY <3>2 DEF RowReads, Toggles
    <2>. DEFINE k == Len(f)
    <2>4. CASE requests' = requests \o f
        <3>. DEFINE n == Len(requests)
        <3>1. /\ DOMAIN requests' = 1 .. (n + k) /\ k \in 0 .. 1 /\ n \in Nat /\ DOMAIN requests = 1 .. n
              /\ \A j \in 1 .. n : requests'[j] = requests[j]
              /\ k = 1 => requests'[n + 1] = f[1]
            BY <1>0, <2>4, PutBehind
        <3>. HIDE DEF k, n
        <3>2. ASSUME NEW j \in DOMAIN requests' PROVE requests'[j].what # "open"
            <4>1. CASE j \in 1 .. n BY <2>2, <3>1, <4>1
            <4>2. CASE j \notin 1 .. n
                <5>1. j = n + 1 /\ k = 1 BY <3>1, <4>2
                <5>. QED BY <2>3, <3>1, <5>1 DEF k
            <4>. QED BY <4>1, <4>2
        <3>. QED BY <1>2, <3>2 DEF Continues, OpensFirst
    <2>5. CASE requests # <<>> /\ requests' = Tail(requests) \o f
        <3>. DEFINE n == Len(requests) - 1
        <3>1. /\ DOMAIN requests' = 1 .. (n + k) /\ k \in 0 .. 1 /\ n \in Nat /\ DOMAIN requests = 1 .. (n + 1)
              /\ \A j \in 1 .. n : requests'[j] = requests[j + 1]
              /\ k = 1 => requests'[n + 1] = f[1]
            BY <1>0, <2>5, TailThen
        <3>. HIDE DEF k, n
        <3>2. ASSUME NEW j \in DOMAIN requests' PROVE requests'[j].what # "open"
            <4>1. CASE j \in 1 .. n
                <5>1. j + 1 \in DOMAIN requests BY <3>1, <4>1
                <5>. QED BY <2>2, <3>1, <4>1, <5>1
            <4>2. CASE j \notin 1 .. n
                <5>1. j = n + 1 /\ k = 1 BY <3>1, <4>2
                <5>. QED BY <2>3, <3>1, <5>1 DEF k
            <4>. QED BY <4>1, <4>2
        <3>. QED BY <1>2, <3>2 DEF Continues, OpensFirst
    <2>. QED BY <2>1, <2>4, <2>5
<1>3. CASE Begins
    <2>1. DOMAIN requests' = {1} /\ requests'[1].what = "count" BY <1>3, CountReads DEF Begins
    <2>. QED BY <1>3, <2>1 DEF Begins, OpensFirst
<1>4. CASE Works
    <2>1. PICK i \in Nat, x \in ViewRequests : EngineMovesTo(i, x) BY <1>4 DEF Works
    <2>. QED BY <1>4, <2>1, Moved DEF Works, OpensFirst
<1>. QED BY <1>1, <1>2, <1>3, <1>4, RequestsMove

LEMMA InTurnStep ==
    ASSUME ViewportTypes, OpensFirst, InTurn(requests), [ViewportNext]_viewportVars
    PROVE  InTurn(requests)'
<1>0. requests \in Seq(ViewRequests) BY DEF ViewportTypes
<1>1. CASE Stays BY <1>1 DEF Stays
<1>2. CASE Continues BY <1>0, <1>2, StaysInTurn DEF Continues
<1>3. CASE Begins
    <2>1. DOMAIN requests' = {1} BY <1>3 DEF Begins
    <2>. QED BY <2>1 DEF InTurn
<1>4. CASE Works
    <2>1. PICK i \in Nat, x \in ViewRequests : EngineMovesTo(i, x) BY <1>4 DEF Works
    <2>2. i \in DOMAIN requests /\ DOMAIN requests' = DOMAIN requests /\ DOMAIN requests = 1 .. Len(requests)
          /\ Len(requests) \in Nat
        BY <2>1, Moved DEF EngineMovesTo
    <2>3. ASSUME NEW a \in DOMAIN requests', NEW b \in DOMAIN requests', a < b
          PROVE  requests'[b].stage <= requests'[a].stage
        <3>0. a \in Nat /\ b \in Nat /\ a \in DOMAIN requests /\ b \in DOMAIN requests BY <2>2
        <3>1. requests[b].stage <= requests[a].stage BY <2>3, <3>0 DEF InTurn
        <3>2. /\ requests[a].stage \in 0 .. 2 /\ requests[b].stage \in 0 .. 2 /\ x.stage \in 0 .. 2
              /\ requests'[a] = IF a = i THEN x ELSE requests[a]
              /\ requests'[b] = IF b = i THEN x ELSE requests[b]
            BY <2>1, <3>0, Moved
        <3>3. CASE a = i
            <4>1. b # i BY <2>3, <3>3
            <4>2. x.stage >= requests[a].stage BY <2>1, <3>3 DEF EngineMovesTo
            <4>. QED BY <3>1, <3>2, <3>3, <4>1, <4>2
        <3>4. CASE b = i
            <4>1. a # i /\ a \in 1 .. i - 1 BY <2>2, <2>3, <3>0, <3>4
            <4>2. requests[a].stage >= x.stage BY <2>1, <4>1 DEF EngineMovesTo
            <4>. QED BY <3>2, <3>4, <4>1, <4>2
        <3>5. CASE a # i /\ b # i BY <3>1, <3>2, <3>5
        <3>. QED BY <3>3, <3>4, <3>5
    <2>. QED BY <2>3 DEF InTurn
<1>. QED BY <1>1, <1>2, <1>3, <1>4, RequestsMove

LEMMA TimerStep ==
    ASSUME ViewportTypes, TimerHasAReason, [ViewportNext]_viewportVars
    PROVE  TimerHasAReason'
<1>. USE DEF TimerHasAReason
<1>1. CASE OnUpstreamChange BY <1>1 DEF OnUpstreamChange
<1>2. CASE RefreshDue BY <1>2 DEF RefreshDue
<1>3. CASE Destroy BY <1>3 DEF Destroy
<1>4. CASE UNCHANGED <<pendingRefresh, refreshTimer>> BY <1>4
<1>5. \/ OnUpstreamChange \/ RefreshDue \/ Destroy \/ UNCHANGED <<pendingRefresh, refreshTimer>>
    BY DEF ViewportNext, viewportVars, UpstreamTick, ViewOpened, Counted, Filled, Toggled, Fails, EngineStep,
           SetViewportRange, Toggle
<1>. QED BY <1>1, <1>2, <1>3, <1>4, <1>5

------------------------------------------------------------------------------
(* The last count is current.  Every step but four leaves the tree as it is *)
(* and takes nothing new: an answer is then fresh, and stays it.            *)
Counts == LastAreFresh(requests, Flat) /\ GridIsCounted

\* Rows asked for of a range that has been counted.
LEMMA RangeIsAskedFor ==
    ASSUME NEW s \in Seq(ViewRequests), NEW count \in 0 .. MaxRows, NEW r \in Nat \X Nat,
           NEW i \in r[1] .. r[2], i < count
    PROVE  AskedFor(s \o Fill(count, r), i) /\ (s # <<>> => AskedFor(Tail(s) \o Fill(count, r), i))
<1>. DEFINE f == Fill(count, r)
<1>1. f \in New /\ Len(f) = 1 /\ f[1].start <= i /\ i < f[1].end BY FillCovers
<1>. HIDE DEF f
<1>2. AskedFor(s \o f, i)
    <2>. DEFINE t == s \o f
                n == Len(s)
    <2>1. DOMAIN t = 1 .. Len(t) /\ Len(t) = n + 1 /\ n \in Nat /\ t[n + 1] = f[1] BY <1>1, PutBehind
    <2>. HIDE DEF t, n
    <2>2. n + 1 \in DOMAIN t BY <2>1
    <2>3. AskedFor(t, i) BY <1>1, <2>1, <2>2 DEF AskedFor
    <2>. QED BY <2>3 DEF t
<1>3. ASSUME s # <<>> PROVE AskedFor(Tail(s) \o f, i)
    <2>. DEFINE t == Tail(s) \o f
                n == Len(s)
    <2>1. DOMAIN t = 1 .. Len(t) /\ Len(t) = n - 1 + Len(f) /\ n \in Nat \ {0} /\ t[n] = f[1]
        BY <1>1, <1>3, TailThen
    <2>. HIDE DEF t, n
    <2>2. n \in DOMAIN t BY <1>1, <2>1
    <2>3. AskedFor(t, i) BY <1>1, <2>1, <2>2 DEF AskedFor
    <2>. QED BY <2>3 DEF t
<1>. QED BY <1>2, <1>3 DEF f

\* Of the requests before, only fills were among those that come after.
LEMMA FillsBefore ==
    ASSUME NEW s \in Seq(ViewRequests), NEW f \in New
    PROVE  /\ OnlyFills(s \o f) => OnlyFills(s)
           /\ s # <<>> /\ OnlyFills(Tail(s) \o f) => OnlyFillsAfter(s, 1)
<1>1. ASSUME OnlyFills(s \o f) PROVE OnlyFills(s)
    <2>. DEFINE t == s \o f
    <2>0. Len(t) = Len(s) + Len(f) /\ Len(f) \in 0 .. 1 /\ Len(s) \in Nat /\ DOMAIN t = 1 .. Len(t) BY PutBehind
    <2>1. \A j \in DOMAIN s : j \in DOMAIN t /\ t[j] = s[j]
        <3>1. DOMAIN s = 1 .. Len(s) /\ \A j \in 1 .. Len(s) : t[j] = s[j] BY PutBehind
        <3>. HIDE DEF t
        <3>2. \A j \in 1 .. Len(s) : j \in 1 .. Len(t) BY <2>0
        <3>. QED BY <2>0, <3>1, <3>2
    <2>. HIDE DEF t
    <2>2. OnlyFills(t) BY <1>1 DEF t
    <2>. QED BY <2>1, <2>2 DEF OnlyFills
<1>2. ASSUME s # <<>>, OnlyFills(Tail(s) \o f) PROVE OnlyFillsAfter(s, 1)
    <2>. DEFINE t == Tail(s) \o f
                n == Len(s) - 1
                k == Len(f)
    <2>1. /\ DOMAIN t = 1 .. (n + k) /\ k \in 0 .. 1 /\ n \in Nat /\ DOMAIN s = 1 .. (n + 1)
          /\ \A i \in 1 .. n : t[i] = s[i + 1]
        BY <1>2, TailThen, LenProperties
    <2>. HIDE DEF t, n, k
    <2>2. OnlyFills(t) BY <1>2 DEF t
    <2>3. ASSUME NEW j \in DOMAIN s, j > 1 PROVE s[j].what = "fill"
        <3>1. j - 1 \in 1 .. n /\ (j - 1) + 1 = j BY <2>1, <2>3
        <3>2. j - 1 \in DOMAIN t BY <2>1, <3>1
        <3>. QED BY <2>1, <2>2, <3>1, <3>2 DEF OnlyFills
    <2>. QED BY <2>3 DEF OnlyFillsAfter
<1>. QED BY <1>1, <1>2

\* What a count or a toggle that was answered leaves behind.
LEMMA CountArrives ==
    ASSUME ViewportTypes, Counts, handle = "open", NEW what \in {"count", "toggle"}, Answered(what),
           requests' = Tail(requests) \o Refill(Head(requests).count),
           rowCount' = Head(requests).count, UNCHANGED <<tree, range, shown>>
    PROVE  Counts'
<1>. DEFINE c == requests[1]
<1>0. requests \in Seq(ViewRequests) /\ range \in Nat \X Nat /\ range \in Ranges
    BY ViewportAssumption DEF ViewportTypes, ViewportTypeOK
<1>1. requests # <<>> /\ Head(requests) = c /\ c \in ViewRequests /\ 1 \in DOMAIN requests
      /\ c.what = what /\ c.stage = 2
    BY <1>0, HeadRequest
<1>2. c.count \in 0 .. MaxRows BY <1>1, RequestKinds DEF RowReads, Toggles
<1>3. Flat' = Flat BY SameTreeSameList
<1>4. Refill(c.count) = Fill(c.count, range) /\ Refill(c.count) \in New
    BY <1>0, <1>2, RefillIsNew DEF Refill
<1>5. requests' = Tail(requests) \o Fill(c.count, range) BY <1>1, <1>4
<1>6. LastAreFresh(requests, Flat)'
    <2>1. LastAreFresh(Tail(requests) \o Fill(c.count, range), Flat)
        BY <1>0, <1>1, <1>4, FreshBehind DEF Counts
    <2>. QED BY <1>3, <1>5, <2>1
<1>7. ASSUME OnlyFills(requests') PROVE c.count = Len(Flat)
    <2>1. OnlyFillsAfter(requests, 1) BY <1>0, <1>1, <1>4, <1>5, <1>7, FillsBefore
    <2>2. Fresh(c, Flat) BY <1>1, <2>1 DEF Counts, LastAreFresh
    <2>. QED BY <1>1, <2>2 DEF Fresh
<1>8. \A i \in range[1] .. range[2] : i < c.count => AskedFor(requests', i)
    <2>. HIDE DEF c
    <2>. QED BY <1>0, <1>1, <1>2, <1>5, RangeIsAskedFor
<1>9. rowCount' = c.count BY <1>1
<1>10. GridIsCounted'
    <2>. HIDE DEF c
    <2>1. range' = range OBVIOUS
    <2>. QED BY <1>3, <1>7, <1>8, <1>9, <2>1 DEF GridIsCounted
<1>. QED BY <1>6, <1>10 DEF Counts

LEMMA FillArrives ==
    ASSUME ViewportTypes, Counts, Filled
    PROVE  Counts'
<1>. DEFINE c == requests[1]
<1>0. requests \in Seq(ViewRequests) /\ range \in Nat \X Nat /\ tree \in Trees
    BY ViewportAssumption DEF ViewportTypes, ViewportTypeOK, Trees
<1>1. requests # <<>> /\ Head(requests) = c /\ c \in ViewRequests /\ 1 \in DOMAIN requests
      /\ c.what = "fill" /\ c.stage = 2 /\ DOMAIN requests = 1 .. Len(requests) /\ Len(requests) \in Nat \ {0}
    BY <1>0, HeadRequest DEF Filled
<1>2. c \in RowReads BY <1>1, RequestKinds
<1>3. Flat' = Flat BY SameTreeSameList DEF Filled
<1>4. requests' = Tail(requests) \o <<>>
    <2>1. requests' = Tail(requests) /\ Tail(requests) \in Seq(ViewRequests)
        BY <1>0, <1>1, HeadTailProperties DEF Filled
    <2>. QED BY <2>1, ConcatEmptySeq
<1>5. LastAreFresh(requests, Flat)'
    <2>1. LastAreFresh(Tail(requests) \o <<>>, Flat) BY <1>0, <1>1, NoneIsNew, FreshBehind DEF Counts
    <2>. QED BY <1>3, <1>4, <2>1
<1>6. ASSUME OnlyFills(requests') PROVE GridIsCounted'
    <2>1. OnlyFillsAfter(requests, 1) BY <1>0, <1>1, <1>4, <1>6, NoneIsNew, FillsBefore
    <2>2. OnlyFills(requests)
        <3>1. \A j \in DOMAIN requests : j = 1 \/ j > 1 BY <1>1
        <3>. QED BY <1>1, <2>1, <3>1 DEF OnlyFills, OnlyFillsAfter
    <2>3. Fresh(c, Flat) BY <1>1, <2>1 DEF Counts, LastAreFresh
    <2>4. c.rows = RowsOf(c, Flat) BY <1>1, <2>3 DEF Fresh
    <2>5. rowCount = Len(Flat) /\ rowCount' = rowCount /\ range' = range /\ shown' = Block(c)
        BY <1>1, <2>2 DEF Counts, GridIsCounted, Filled
    <2>. HIDE DEF c
    <2>6. ASSUME NEW i \in range[1] .. range[2], i < rowCount
          PROVE  AskedFor(requests', i) \/ SameRow(Block(c)[i], Flat[i + 1])
        <3>1. i \in 0 .. MaxRows - 1
            <4>1. i \in Nat /\ rowCount \in 0 .. MaxRows /\ MaxRows \in Nat
                BY <1>0, ViewportAssumption DEF MaxRows, ViewportTypes, ViewportTypeOK
            <4>. QED BY <2>6, <4>1
        <3>2. i < Len(Flat) BY <2>5, <2>6
        <3>3. IF c.start <= i /\ i < c.end THEN SameRow(Block(c)[i], Flat[i + 1])
                                           ELSE Block(c)[i] = shown[i]
            BY <1>0, <1>2, <2>4, <3>1, <3>2, BlockShows
        <3>4. CASE c.start <= i /\ i < c.end BY <3>3, <3>4
        <3>5. CASE ~(c.start <= i /\ i < c.end)
            <4>1. Block(c)[i] = shown[i] BY <3>3, <3>5
            <4>2. AskedFor(requests, i) \/ Current(i) BY <2>2, <2>6 DEF Counts, GridIsCounted
            <4>3. CASE Current(i) BY <4>1, <4>3 DEF Current
            <4>4. CASE AskedFor(requests, i)
                <5>1. PICK j \in DOMAIN requests : requests[j].start <= i /\ i < requests[j].end
                    BY <4>4 DEF AskedFor
                <5>2. j # 1 BY <3>5, <5>1 DEF c
                <5>. DEFINE n == Len(requests) - 1
                <5>3. DOMAIN requests' = 1 .. n /\ n \in Nat /\ \A m \in 1 .. n : requests'[m] = requests[m + 1]
                    <6>1. Tail(requests) \in Seq(ViewRequests) /\ requests' = Tail(requests)
                          /\ Len(requests') = n /\ n \in Nat
                          /\ \A m \in 1 .. n : requests'[m] = requests[m + 1]
                        BY <1>0, <1>1, HeadTailProperties DEF Filled
                    <6>. QED BY <6>1
                <5>4. j - 1 \in 1 .. n /\ (j - 1) + 1 = j BY <1>1, <5>1, <5>2
                <5>. HIDE DEF n
                <5>5. requests'[j - 1] = requests[j] /\ j - 1 \in DOMAIN requests' BY <5>3, <5>4
                <5>. QED BY <5>1, <5>5 DEF AskedFor
            <4>. QED BY <4>2, <4>3, <4>4
        <3>. QED BY <3>4, <3>5
    <2>7. \A i \in range[1] .. range[2] : i < rowCount => AskedFor(requests', i) \/ SameRow(shown'[i], Flat'[i + 1])
        BY <1>3, <2>5, <2>6
    <2>. QED BY <1>3, <2>5, <2>7 DEF GridIsCounted, Current
<1>7. GridIsCounted'
    <2>1. CASE OnlyFills(requests') BY <1>6, <2>1
    <2>2. CASE ~OnlyFills(requests') BY <2>2 DEF GridIsCounted
    <2>. QED BY <2>1, <2>2
<1>. QED BY <1>5, <1>7 DEF Counts

LEMMA RangeMoves ==
    ASSUME ViewportTypes, Counts, handle = "open", NEW r \in Ranges, SetViewportRange(r)
    PROVE  Counts'
<1>0. requests \in Seq(ViewRequests) /\ r \in Nat \X Nat /\ rowCount \in 0 .. MaxRows
    BY ViewportAssumption DEF ViewportTypes, ViewportTypeOK
<1>. DEFINE f == Fill(rowCount, r)
<1>1. f \in New BY <1>0, FillCovers
<1>2. requests' = requests \o f /\ range' = r /\ rowCount' = rowCount /\ shown' = shown
    BY DEF SetViewportRange
<1>3. Flat' = Flat BY SameTreeSameList DEF SetViewportRange
<1>4. LastAreFresh(requests, Flat)'
    <2>. HIDE DEF f
    <2>. QED BY <1>0, <1>1, <1>2, <1>3, FreshBehind DEF Counts
<1>5. \A i \in r[1] .. r[2] : i < rowCount => AskedFor(requests', i)
    BY <1>0, <1>2, RangeIsAskedFor
<1>6. OnlyFills(requests') => rowCount = Len(Flat)
    <2>. HIDE DEF f
    <2>. QED BY <1>0, <1>1, <1>2, FillsBefore DEF Counts, GridIsCounted
<1>. HIDE DEF f
<1>. QED BY <1>2, <1>3, <1>4, <1>5, <1>6 DEF Counts, GridIsCounted

LEMMA CaretClicked ==
    ASSUME ViewportTypes, NEW i \in 0 .. MaxRows - 1, Toggle(i)
    PROVE  Counts'
<1>. DEFINE c == [what |-> "toggle", stage |-> 0, index |-> i, collapse |-> shown[i].expanded, count |-> 0]
<1>1. c \in Toggles /\ c.stage = 0 /\ c.what # "fill"
    <2>1. shown[i] \in Row BY DEF Toggle, ViewportTypes, ViewportTypeOK
    <2>2. shown[i].expanded \in BOOLEAN BY <2>1 DEF Row
    <2>3. 0 \in 0 .. MaxRows /\ i \in Nat BY ViewportAssumption DEF MaxRows
    <2>. QED BY <2>2, <2>3 DEF Toggles
<1>2. requests \in Seq(ViewRequests) /\ requests' = Append(requests, c) BY DEF ViewportTypes, Toggle
<1>. HIDE DEF c
<1>3. requests' = requests \o <<c>> BY <1>1, <1>2, AppendIsConcat DEF ViewRequests
<1>4. LastAreFresh(requests', Flat') /\ ~OnlyFills(requests') BY <1>1, <1>2, <1>3, CountedAgain
<1>. QED BY <1>4 DEF Counts, GridIsCounted

LEMMA RefreshBegins ==
    ASSUME ViewportTypes, RefreshDue, TimerHasAReason, handle' = "open"
    PROVE  Counts'
<1>. DEFINE c == CountRead("count")
<1>1. requests \in Seq(ViewRequests) /\ requests' = Append(requests, c)
    BY DEF ViewportTypes, RefreshDue, TimerHasAReason
<1>2. c \in RowReads /\ c.stage = 0 /\ c.what # "fill" BY CountReads
<1>. HIDE DEF c
<1>3. requests' = requests \o <<c>> BY <1>1, <1>2, AppendIsConcat DEF ViewRequests
<1>4. LastAreFresh(requests', Flat') /\ ~OnlyFills(requests') BY <1>1, <1>2, <1>3, CountedAgain
<1>. QED BY <1>4 DEF Counts, GridIsCounted

LEMMA ViewBegins ==
    ASSUME ViewportTypes, OpensFirst, ViewOpened
    PROVE  Counts'
<1>. DEFINE c == CountRead("count")
<1>1. c \in RowReads /\ c.stage = 0 /\ c.what # "fill" BY CountReads
<1>2. Tail(requests) \in Seq(ViewRequests) /\ requests' = Append(Tail(requests), c)
    <2>1. requests # <<>> /\ requests \in Seq(ViewRequests) BY DEF ViewOpened, Answered, ViewportTypes
    <2>. QED BY <2>1, HeadTailProperties DEF ViewOpened
<1>. HIDE DEF c
<1>3. requests' = Tail(requests) \o <<c>> BY <1>1, <1>2, AppendIsConcat DEF ViewRequests
<1>4. LastAreFresh(requests', Flat') /\ ~OnlyFills(requests') BY <1>1, <1>2, <1>3, CountedAgain
<1>. QED BY <1>4 DEF Counts, GridIsCounted

LEMMA EngineWorks ==
    ASSUME ViewportTypes, OpensFirst, InTurn(requests), Counts, NEW i \in Nat, EngineStep(i)
    PROVE  Counts'
<1>1. PICK x \in ViewRequests : EngineMovesTo(i, x) BY EngineMoves
<1>2. /\ DOMAIN requests' = DOMAIN requests /\ Len(requests) \in Nat /\ DOMAIN requests = 1 .. Len(requests)
      /\ i \in DOMAIN requests
      /\ \A j \in DOMAIN requests : requests'[j] = IF j = i THEN x ELSE requests[j]
      /\ \A j \in DOMAIN requests : requests'[j].what = requests[j].what
      /\ \A j \in DOMAIN requests : requests[j].stage \in 0 .. 2
    BY <1>1, Moved DEF EngineMovesTo
<1>3. rowCount' = rowCount /\ range' = range /\ shown' = shown BY DEF EngineStep
<1>4. CASE tree' = tree
    <2>1. Flat' = Flat BY <1>4, SameTreeSameList
    <2>2. ASSUME NEW j \in DOMAIN requests', OnlyFillsAfter(requests', j) PROVE Fresh(requests'[j], Flat')
        <3>1. OnlyFillsAfter(requests, j) BY <1>2, <2>2 DEF OnlyFillsAfter
        <3>2. Fresh(requests[j], Flat) BY <1>2, <3>1 DEF Counts, LastAreFresh
        <3>3. CASE j = i
            <4>1. Fresh(x, Flat) BY <1>1, <3>2, <3>3 DEF EngineMovesTo
            <4>. QED BY <1>2, <2>1, <3>3, <4>1
        <3>4. CASE j # i BY <1>2, <2>1, <3>2, <3>4
        <3>. QED BY <3>3, <3>4
    <2>3. LastAreFresh(requests', Flat') BY <2>2, Zenon DEF LastAreFresh
    <2>4. ASSUME OnlyFills(requests') PROVE GridIsCounted'
        <3>1. OnlyFills(requests) BY <1>2, <2>4 DEF OnlyFills
        <3>2. ASSUME NEW a, AskedFor(requests, a) PROVE AskedFor(requests', a)
            <4>1. PICK j \in DOMAIN requests : requests[j].start <= a /\ a < requests[j].end
                BY <3>2 DEF AskedFor
            <4>2. requests'[j].start = requests[j].start /\ requests'[j].end = requests[j].end
                <5>1. x.what = "fill" BY <1>2, <2>4 DEF OnlyFills
                <5>2. x.start = requests[i].start /\ x.end = requests[i].end BY <1>1, <5>1 DEF EngineMovesTo
                <5>. QED BY <1>2, <5>2
            <4>. QED BY <1>2, <4>1, <4>2 DEF AskedFor
        <3>. QED BY <1>3, <2>1, <3>1, <3>2 DEF Counts, GridIsCounted, Current
    <2>5. GridIsCounted'
        <3>1. CASE OnlyFills(requests') BY <2>4, <3>1
        <3>2. CASE ~OnlyFills(requests') BY <3>2 DEF GridIsCounted
        <3>. QED BY <3>1, <3>2
    <2>. QED BY <2>3, <2>5 DEF Counts
<1>5. CASE tree' # tree
    <2>1. x.what = "toggle" /\ requests[i].stage = 0 /\ x.stage = 1 BY <1>1, <1>5 DEF EngineMovesTo
    <2>2. requests'[i] = x BY <1>2
    <2>3. ASSUME NEW j \in DOMAIN requests', OnlyFillsAfter(requests', j) PROVE Fresh(requests'[j], Flat')
        <3>0. j \in DOMAIN requests /\ j \in Nat /\ i \in Nat BY <1>2
        <3>1. ~(i > j) BY <1>2, <2>1, <2>2, <2>3, <3>0 DEF OnlyFillsAfter
        <3>2. CASE j = i BY <2>1, <2>2, <3>2 DEF Fresh
        <3>3. CASE j # i
            <4>1. i < j BY <3>0, <3>1, <3>3
            <4>2. requests[j].stage <= requests[i].stage BY <1>2, <3>0, <4>1 DEF InTurn
            <4>3. requests[j].stage = 0 BY <1>2, <2>1, <3>0, <4>2
            <4>4. requests'[j] = requests[j] BY <1>2, <3>0, <3>3
            <4>. QED BY <4>3, <4>4 DEF Fresh
        <3>. QED BY <3>2, <3>3
    <2>4. LastAreFresh(requests', Flat') BY <2>3, Zenon DEF LastAreFresh
    <2>5. ~OnlyFills(requests') BY <1>2, <2>1, <2>2 DEF OnlyFills
    <2>. QED BY <2>4, <2>5 DEF Counts, GridIsCounted
<1>. QED BY <1>4, <1>5

LEMMA LastCountStep ==
    ASSUME ViewportTypes, OpensFirst, InTurn(requests), TimerHasAReason, LastCountIsCurrent,
           [ViewportNext]_viewportVars
    PROVE  LastCountIsCurrent'
<1>0. SUFFICES ASSUME NothingNew' PROVE Counts' BY DEF LastCountIsCurrent, Counts
<1>. USE DEF NothingNew
<1>1. CASE UpstreamTick BY <1>0, <1>1 DEF UpstreamTick
<1>2. CASE ViewOpened BY <1>2, ViewBegins
<1>3. CASE RefreshDue BY <1>0, <1>3, RefreshBegins
<1>4. ASSUME NEW i \in 0 .. MaxRows - 1, Toggle(i) PROVE Counts' BY <1>4, CaretClicked
<1>5. CASE OnUpstreamChange BY <1>0, <1>5 DEF OnUpstreamChange
<1>6. CASE Destroy
    <2>1. handle' # "open" BY <1>6 DEF Destroy
    <2>. QED BY <1>0, <2>1
<1>7. CASE Fails BY <1>0, <1>7 DEF Fails
<1>8. CASE Counted
    <2>1. handle = "open" /\ Counts BY <1>0, <1>8 DEF Counted, LastCountIsCurrent, Counts
    <2>2. requests' = Tail(requests) \o Refill(Head(requests).count) BY <1>8 DEF Counted, Refill
    <2>. QED BY <1>8, <2>1, <2>2, CountArrives DEF Counted
<1>9. CASE Toggled
    <2>1. handle = "open" /\ Counts BY <1>0, <1>9 DEF Toggled, LastCountIsCurrent, Counts
    <2>2. requests' = Tail(requests) \o Refill(Head(requests).count) BY <1>9 DEF Toggled, Refill
    <2>. QED BY <1>9, <2>1, <2>2, CountArrives DEF Toggled
<1>10. CASE Filled
    <2>1. Counts BY <1>0, <1>10 DEF Filled, LastCountIsCurrent, Counts
    <2>. QED BY <1>10, <2>1, FillArrives
<1>11. ASSUME NEW i \in 1 .. MaxCallsOut + 1, EngineStep(i) PROVE Counts'
    <2>1. Counts BY <1>0, <1>11 DEF EngineStep, LastCountIsCurrent, Counts
    <2>2. i \in Nat BY ViewportAssumption
    <2>. QED BY <1>11, <2>1, <2>2, EngineWorks
<1>12. ASSUME NEW r \in Ranges, SetViewportRange(r) PROVE Counts'
    <2>1. handle = "open" /\ Counts BY <1>0, <1>12 DEF SetViewportRange, LastCountIsCurrent, Counts
    <2>. QED BY <1>12, <2>1, RangeMoves
<1>13. CASE UNCHANGED viewportVars
    <2>1. Counts /\ Flat' = Flat BY <1>0, <1>13, SameTreeSameList DEF viewportVars, LastCountIsCurrent, Counts
    <2>. QED BY <1>13, <2>1 DEF viewportVars, Counts, GridIsCounted, Current
<1>. QED BY <1>1, <1>2, <1>3, <1>4, <1>5, <1>6, <1>7, <1>8, <1>9, <1>10, <1>11, <1>12, <1>13 DEF ViewportNext

LEMMA ViewportStarts == ASSUME ViewportInit PROVE ViewportInv
<1>0. MaxTicks \in Nat /\ MaxCallsOut \in Nat /\ MaxRows \in Nat
    BY ViewportAssumption DEF MaxRows
<1>. DEFINE c == [what |-> "open", stage |-> 0]
<1>1. requests \in Seq(ViewRequests) /\ Len(requests) = 1 /\ requests[1].what = "open" /\ DOMAIN requests = {1}
    <2>1. c \in ViewRequests /\ c.what = "open" BY DEF Opening, ViewRequests
    <2>2. requests = <<c>> BY DEF ViewportInit
    <2>. HIDE DEF c
    <2>. QED BY <2>1, <2>2
<1>2. ViewportTypes
    <2>1. tree \in [Groups -> [present : BOOLEAN, open : BOOLEAN, version : 0 .. MaxTicks]]
        BY <1>0 DEF ViewportInit
    <2>2. shown \in [0 .. MaxRows - 1 -> Row \cup {NoRowYet}] BY DEF ViewportInit
    <2>3. ticks \in 0 .. MaxTicks /\ rowCount \in 0 .. MaxRows BY <1>0 DEF ViewportInit
    <2>4. Len(requests) <= MaxCallsOut + 1 BY <1>0, <1>1
    <2>5. deltaOut \in BOOLEAN /\ pendingRefresh \in BOOLEAN /\ refreshTimer \in BOOLEAN
          /\ handle \in {"none", "open", "gone"} /\ range \in Ranges
        BY DEF ViewportInit
    <2>. QED BY <1>1, <2>1, <2>2, <2>3, <2>4, <2>5 DEF ViewportTypes, ViewportTypeOK
<1>3. OpensFirst BY <1>1 DEF OpensFirst, ViewportInit
<1>4. InTurn(requests) BY <1>1 DEF InTurn
<1>. QED BY <1>2, <1>3, <1>4 DEF ViewportInv, TimerHasAReason, LastCountIsCurrent, NothingNew, ViewportInit

LEMMA ViewportStep == ASSUME ViewportInv, [ViewportNext]_viewportVars PROVE ViewportInv'
BY ViewportTypesStep, OpensFirstStep, InTurnStep, TimerStep, LastCountStep DEF ViewportInv

THEOREM ViewportInvariance == ViewportSpec => []ViewportInv
BY ViewportStarts, ViewportStep, PTL DEF ViewportSpec

\* SettledViewportIsCurrent: for any number of groups, ranges, changes, clicks
\* and requests, a viewport that waits for nothing shows what the engine has.
THEOREM ViewportSettlesCurrent == ViewportSpec => []SettledViewportIsCurrent
<1>1. ViewportInv => SettledViewportIsCurrent
    <2>1. SUFFICES ASSUME ViewportInv, handle = "open", requests = <<>>, ~deltaOut, ~refreshTimer, ~dropped
                   PROVE  /\ rowCount = Len(Flat)
                          /\ \A i \in range[1] .. range[2] : i < rowCount =>
                               /\ shown[i].group = Flat[i + 1].group
                               /\ shown[i].leaf = Flat[i + 1].leaf
                               /\ shown[i].version = Flat[i + 1].version
        BY DEF SettledViewportIsCurrent
    <2>2. DOMAIN requests = {} BY <2>1
    <2>3. OnlyFills(requests) BY <2>2 DEF OnlyFills
    <2>4. GridIsCounted BY <2>1 DEF ViewportInv, LastCountIsCurrent, NothingNew
    <2>5. \A i : ~AskedFor(requests, i) BY <2>2 DEF AskedFor
    <2>. QED BY <2>3, <2>4, <2>5 DEF GridIsCounted, Current, SameRow
<1>. QED BY <1>1, ViewportInvariance, PTL

\* ViewportTypeOK.
THEOREM ViewportTypeCorrect == ViewportSpec => []ViewportTypeOK
<1>1. ViewportInv => ViewportTypeOK BY DEF ViewportInv, ViewportTypes
<1>. QED BY <1>1, ViewportInvariance, PTL

------------------------------------------------------------------------------
(* The blocks.  A route is quiet when nothing the grid has not acted on can *)
(* have changed what the engine has of it.  Then what was last asked for a  *)
(* block is answered as the engine is now, and a block nobody asks for is   *)
(* as it is now; a route that was not quiet becomes it by asking again.     *)

IsRead(c) ==
    \E rows : c \in [route : Routes, block : BlockIds, stage : 0 .. 2, count : Nat, rows : {rows}]

IsReads(s) == s \in Seq(ToSet(s)) /\ \A n \in DOMAIN s : IsRead(s[n])

BlockTypes ==
    /\ leaves \in [Leaves -> 0 .. MaxLeafMoves + 1] /\ leafMoves \in 0 .. MaxLeafMoves
    /\ groupNews \subseteq {SubSeq(l, 1, n) : l \in Leaves, n \in 1 .. Levels}
    /\ rowNews \in BOOLEAN /\ refreshPending \in BOOLEAN /\ refreshSet \in BOOLEAN
    /\ ssrmAttached \in BOOLEAN /\ readFailed \in BOOLEAN
    /\ IsReads(reads)
    /\ DOMAIN blocks = Routes

AsksFor(s, r, i) == \E n \in DOMAIN s : s[n].route = r /\ s[n].block = i
IsLastOf(s, n) == \A m \in DOMAIN s : m > n => ~(s[m].route = s[n].route /\ s[m].block = s[n].block)

\* What a read has been answered so far is what the engine has now.
ReadIsFresh(c, view) ==
    /\ c.stage >= 1 => c.count = Len(view)
    /\ c.stage = 2 =>
         LET from == BlockStart(c.route, c.block)
         IN  c.rows = SubSeq(view, from + 1, Smaller(Smaller(from + BlockRows, c.count), Len(view)))
BlockOf(kids, i) == SubSeq(kids, i * BlockRows + 1, Smaller((i + 1) * BlockRows, Len(kids)))

\* The reads s keep the blocks b of the route r current, or have.
KeepCurrent(s, b, r, view, kids) ==
    /\ \A n \in DOMAIN s : s[n].route = r /\ IsLastOf(s, n) => ReadIsFresh(s[n], view)
    /\ \A i \in BlockIds : b[i] # NotLoaded /\ ~AsksFor(s, r, i) => b[i] = BlockOf(kids, i)

Quiet(route) ==
    (~rowNews /\ ~refreshSet) \/ (Grouped(route) /\ route \notin RoutesToRefresh(groupNews))
RouteIsCurrent(r) == KeepCurrent(reads, blocks[r], r, ViewOf(r), Children(r))

BlocksInv ==
    /\ BlockTypes
    /\ refreshSet => refreshPending
    /\ ssrmAttached /\ ~readFailed => \A r \in Routes : Quiet(r) => RouteIsCurrent(r)

------------------------------------------------------------------------------
\* The children of a route are a list without a total.
LEMMA ChildrenAreAList ==
    ASSUME NEW route
    PROVE  /\ Children(route) \in Seq(ToSet(Children(route)))
           /\ \A i \in 1 .. Len(Children(route)) : ~Children(route)[i].total
<1>. DEFINE below == {l \in Leaves : IsPrefix(route, l) /\ leaves[l] # Absent}
            values == {k[Len(route) + 1] : k \in below}
            Nth(i) == CHOOSE v \in values : Cardinality({u \in values : u < v}) = i - 1
            Child(i) == RowAt(Append(route, Nth(i)))
            n == Cardinality(values)
<1>1. IsFiniteSet(below)
    <2>1. below \in SUBSET Leaves OBVIOUS
    <2>. HIDE DEF below
    <2>. QED BY <2>1, FS_Subset, BlockAssumption
<1>2. IsFiniteSet(values)
    <2>. DEFINE f == [k \in below |-> k[Len(route) + 1]]
    <2>. HIDE DEF below
    <2>1. f \in Surjection(below, values) BY DEF Surjection
    <2>. HIDE DEF values, f
    <2>. QED BY <1>1, <2>1, FS_Surjection
<1>3. n \in Nat
    <2>. HIDE DEF values
    <2>. QED BY <1>2, FS_CardinalityType
<1>4. Children(route) = [i \in 1 .. n |-> Child(i)] BY DEF Children
<1>5. \A i : ~Child(i).total BY DEF RowAt
<1>. HIDE DEF n, Child
<1>6. DOMAIN Children(route) = 1 .. n /\ \A i \in 1 .. n : Children(route)[i] = Child(i) BY <1>4
<1>7. Children(route) \in [1 .. n -> ToSet(Children(route))] BY <1>4, <1>6 DEF ToSet
<1>8. Children(route) \in Seq(ToSet(Children(route))) /\ Len(Children(route)) = n BY <1>3, <1>7
<1>. QED BY <1>5, <1>6, <1>8

\* Before them there is the total, if the route is grouped.
LEMMA ViewIsAList ==
    ASSUME NEW route \in Routes
    PROVE  LET S == ToSet(Children(route)) \cup {GrandTotal}
               n == Len(Children(route))
           IN  /\ n \in Nat /\ Offset(route) \in {0, 1}
               /\ ViewOf(route) \in Seq(S) /\ Len(ViewOf(route)) = Offset(route) + n
               /\ \A i \in 1 .. n : ViewOf(route)[Offset(route) + i] = Children(route)[i]
<1>. DEFINE S == ToSet(Children(route)) \cup {GrandTotal}
            total == <<GrandTotal>>
            kids == Children(route)
<1>1. kids \in Seq(S)
    <2>1. ToSet(kids) \subseteq S OBVIOUS
    <2>. QED BY <2>1, ChildrenAreAList, SeqMonotonic
<1>2. total \in Seq(S) /\ Len(total) = 1 OBVIOUS
<1>3. Len(kids) \in Nat BY <1>1, LenProperties
<1>. HIDE DEF kids, S, total
<1>4. CASE Grouped(route)
    <2>1. ViewOf(route) = total \o kids /\ Offset(route) = 1 BY <1>4 DEF ViewOf, Offset, total, kids
    <2>2. /\ total \o kids \in Seq(S) /\ Len(total \o kids) = 1 + Len(kids)
          /\ \A i \in 1 .. Len(total) + Len(kids) :
                (total \o kids)[i] = IF i <= Len(total) THEN total[i] ELSE kids[i - Len(total)]
        BY <1>1, <1>2, ConcatProperties
    <2>3. ASSUME NEW i \in 1 .. Len(kids) PROVE (total \o kids)[1 + i] = kids[i]
        <3>1. 1 + i \in 1 .. Len(total) + Len(kids) /\ ~(1 + i <= Len(total)) /\ (1 + i) - Len(total) = i
            BY <1>2, <1>3
        <3>. QED BY <2>2, <3>1
    <2>. QED BY <1>3, <2>1, <2>2, <2>3 DEF kids, S
<1>5. CASE ~Grouped(route)
    <2>1. ViewOf(route) = <<>> \o kids /\ Offset(route) = 0 BY <1>5 DEF ViewOf, Offset, kids
    <2>2. <<>> \o kids = kids BY <1>1, ConcatEmptySeq
    <2>3. \A i \in 1 .. Len(kids) : 0 + i = i /\ 0 + Len(kids) = Len(kids) BY <1>3
    <2>4. 0 + Len(kids) = Len(kids) BY <1>3
    <2>. QED BY <1>1, <1>3, <2>1, <2>2, <2>3, <2>4 DEF kids, S
<1>. QED BY <1>4, <1>5

\* The window of a block, without the total, is the block's own children.
LEMMA WindowIsTheBlock ==
    ASSUME NEW route \in Routes, NEW i \in BlockIds
    PROVE  LET from == BlockStart(route, i)
               kids == Children(route)
           IN  MapGroupRows(Window(route, from, Smaller(from + BlockRows, Len(ViewOf(route))))) =
                  SubSeq(kids, i * BlockRows + 1, Smaller((i + 1) * BlockRows, Len(kids)))
<1>. DEFINE kids == Children(route)
            view == ViewOf(route)
            off == Offset(route)
            n == Len(kids)
            at == i * BlockRows
            to == Smaller((at + off) + BlockRows, Len(view))
            upTo == Smaller(at + BlockRows, n)
            S == ToSet(kids) \cup {GrandTotal}
<1>1. /\ n \in Nat /\ off \in {0, 1} /\ view \in Seq(S) /\ Len(view) = off + n
      /\ \A m \in 1 .. n : view[off + m] = kids[m]
    BY ViewIsAList
<1>2. kids \in Seq(ToSet(kids)) /\ \A m \in 1 .. n : ~kids[m].total BY ChildrenAreAList
<1>3. at \in Nat /\ BlockRows \in Nat /\ (i + 1) * BlockRows = at + BlockRows /\ BlockStart(route, i) = at + off
    BY BlockAssumption DEF BlockIds, BlockStart
<1>. HIDE DEF kids, view, off, n, at
<1>4. to \in Nat /\ upTo \in Nat /\ to = upTo + off /\ upTo <= n /\ to <= Len(view) BY <1>1, <1>3 DEF Smaller
<1>5. Smaller(to, Len(view)) = to BY <1>4 DEF Smaller
<1>. HIDE DEF to, upTo
<1>. DEFINE w == SubSeq(view, (at + off) + 1, to)
            b == SubSeq(kids, at + 1, upTo)
<1>6. \A m \in (at + 1) .. upTo : m \in 1 .. n BY <1>1, <1>3, <1>4
<1>7. \A m \in (at + 1) .. upTo : kids[m] \in ToSet(kids) BY <1>2, <1>6, ElementOfSeq DEF n
<1>8. /\ b \in Seq(ToSet(kids))
      /\ Len(b) = IF at + 1 <= upTo THEN upTo - (at + 1) + 1 ELSE 0
      /\ \A m \in 1 .. upTo - (at + 1) + 1 : b[m] = kids[(at + 1) + m - 1]
    <2>1. at + 1 \in Int /\ upTo \in Int BY <1>3, <1>4
    <2>. QED BY <1>7, <2>1, SubSeqProperties
<1>9. \A m \in ((at + off) + 1) .. to : m - off \in (at + 1) .. upTo /\ m = off + (m - off)
    BY <1>1, <1>3, <1>4
<1>10. \A m \in ((at + off) + 1) .. to : view[m] \in ToSet(kids)
    BY <1>1, <1>6, <1>7, <1>9
<1>11. /\ w \in Seq(ToSet(kids))
       /\ Len(w) = IF (at + off) + 1 <= to THEN to - ((at + off) + 1) + 1 ELSE 0
       /\ \A m \in 1 .. to - ((at + off) + 1) + 1 : w[m] = view[((at + off) + 1) + m - 1]
    <2>1. (at + off) + 1 \in Int /\ to \in Int BY <1>1, <1>3, <1>4
    <2>. QED BY <1>10, <2>1, SubSeqProperties
<1>12. Len(w) = Len(b) /\ to - ((at + off) + 1) + 1 = upTo - (at + 1) + 1
    BY <1>1, <1>3, <1>4, <1>8, <1>11
<1>13. ASSUME NEW m \in 1 .. Len(b) PROVE w[m] = b[m] /\ ~b[m].total
    <2>1. m \in 1 .. upTo - (at + 1) + 1 BY <1>3, <1>4, <1>8
    <2>2. (at + 1) + m - 1 \in 1 .. n /\ ((at + off) + 1) + m - 1 = off + ((at + 1) + m - 1)
        BY <1>1, <1>3, <1>4, <2>1
    <2>. QED BY <1>1, <1>2, <1>8, <1>11, <1>12, <2>1, <2>2
<1>. HIDE DEF w, b
<1>14. w = b BY <1>8, <1>11, <1>12, <1>13, SeqEqual
<1>15. MapGroupRows(w) = w
    <2>. DEFINE T == {r \in ToSet(w) : ~r.total}
    <2>1. Len(w) \in Nat /\ DOMAIN w = 1 .. Len(w) BY <1>11, LenProperties
    <2>2. \A m \in 1 .. Len(w) : w[m] \in T BY <1>12, <1>13, <1>14, <2>1 DEF ToSet
    <2>. HIDE DEF T
    <2>3. KeepIn(w, T) = w BY <1>11, <2>2, KeptWhole
    <2>. QED BY <2>3 DEF MapGroupRows, T
<1>16. Window(route, BlockStart(route, i), Smaller(BlockStart(route, i) + BlockRows, Len(ViewOf(route)))) = w
    BY <1>3, <1>5 DEF Window, w, view, to
<1>. QED BY <1>3, <1>14, <1>15, <1>16 DEF b, kids, upTo, n, at

\* A row that moves changes the view of no route but those it is under.
LEMMA ViewKeeps ==
    ASSUME NEW route, NEW l, NEW v, leaves' = [leaves EXCEPT ![l] = v], route \in Routes,
           ~IsPrefix(route, l), DOMAIN leaves = Leaves
    PROVE  Children(route)' = Children(route) /\ ViewOf(route)' = ViewOf(route)
<1>1. \A k \in Leaves : k # l => leaves'[k] = leaves[k] OBVIOUS
<1>. DEFINE values == {k[Len(route) + 1] : k \in {x \in Leaves : IsPrefix(route, x) /\ leaves[x] # Absent}}
            now == {k[Len(route) + 1] : k \in {x \in Leaves : IsPrefix(route, x) /\ leaves'[x] # Absent}}
            Nth(i) == CHOOSE u \in values : Cardinality({w \in values : w < u}) = i - 1
<1>2. now = values BY <1>1
<1>3. ASSUME NEW u, NEW k \in Leaves, IsPrefix(Append(route, u), k) PROVE IsPrefix(route, k)
    <2>1. route \in Seq(Nat) /\ k \in Seq(Nat) BY BlockAssumption
    <2>. DEFINE T == Nat \cup {u}
    <2>0. Nat \subseteq T /\ u \in T OBVIOUS
    <2>. HIDE DEF T
    <2>2. route \in Seq(T) /\ k \in Seq(T) BY <2>0, <2>1, SeqMonotonic
    <2>. DEFINE a == Append(route, u)
                n == Len(route)
    <2>3. /\ n \in Nat /\ Len(a) = n + 1
          /\ \A i \in 1 .. n : a[i] = route[i]
        BY <2>0, <2>2, AppendProperties, LenProperties
    <2>4. Len(a) <= Len(k) /\ SubSeq(a, 1, Len(a)) = SubSeq(k, 1, Len(a)) BY <1>3 DEF IsPrefix
    <2>5. a \in Seq(T) BY <2>0, <2>2, AppendProperties
    <2>. HIDE DEF a, n
    <2>6. Len(k) \in Nat /\ n + 1 <= Len(k) BY <2>1, <2>3, <2>4, LenProperties
    <2>7. \A i \in 1 .. n + 1 : a[i] = k[i]
        <3>. DEFINE p == SubSeq(a, 1, n + 1)
                    q == SubSeq(k, 1, n + 1)
        <3>0. p = q BY <2>3, <2>4
        <3>1. \A i \in 1 .. n + 1 : a[i] \in T /\ k[i] \in T
            BY <2>2, <2>3, <2>5, <2>6, ElementOfSeq
        <3>2. 1 \in Int /\ n + 1 \in Int /\ (n + 1) - 1 + 1 = n + 1 BY <2>3
        <3>3. \A i \in 1 .. n + 1 : p[i] = a[1 + i - 1] BY <3>1, <3>2, SubSeqProperties
        <3>4. \A i \in 1 .. n + 1 : q[i] = k[1 + i - 1] BY <3>1, <3>2, SubSeqProperties
        <3>5. \A i \in 1 .. n + 1 : 1 + i - 1 = i OBVIOUS
        <3>. HIDE DEF p, q
        <3>. QED BY <3>0, <3>3, <3>4, <3>5
    <2>8. \A i \in 1 .. n : route[i] = k[i] BY <2>3, <2>7
    <2>9. SubSeq(route, 1, n) = SubSeq(k, 1, n)
        <3>. DEFINE p == SubSeq(route, 1, n)
                    q == SubSeq(k, 1, n)
        <3>1. \A i \in 1 .. n : route[i] \in T /\ k[i] \in T
            BY <2>2, <2>3, <2>6, ElementOfSeq DEF n
        <3>2. 1 \in Int /\ n \in Int /\ n - 1 + 1 = n BY <2>3
        <3>3. p \in Seq(T) /\ (Len(p) = IF 1 <= n THEN n - 1 + 1 ELSE 0) /\ \A i \in 1 .. n : p[i] = route[1 + i - 1]
            BY <3>1, <3>2, SubSeqProperties
        <3>4. q \in Seq(T) /\ (Len(q) = IF 1 <= n THEN n - 1 + 1 ELSE 0) /\ \A i \in 1 .. n : q[i] = k[1 + i - 1]
            BY <3>1, <3>2, SubSeqProperties
        <3>5. \A i \in 1 .. n : 1 + i - 1 = i OBVIOUS
        <3>6. Len(p) = n /\ Len(q) = n BY <2>3, <3>3, <3>4
        <3>. HIDE DEF p, q
        <3>. QED BY <2>8, <3>3, <3>4, <3>5, <3>6, SeqEqual DEF p, q
    <2>. QED BY <2>3, <2>6, <2>9 DEF IsPrefix, n
<1>. DEFINE RowNow(p) ==
                [total |-> FALSE, path |-> p,
                 held |-> {<<k, leaves'[k]>> : k \in {x \in Leaves : IsPrefix(p, x) /\ leaves'[x] # Absent}}]
            NthNow(i) == CHOOSE u \in now : Cardinality({w \in now : w < u}) = i - 1
<1>4. ASSUME NEW u PROVE RowNow(Append(route, u)) = RowAt(Append(route, u))
    <2>. DEFINE a == Append(route, u)
    <2>1. \A k \in Leaves : IsPrefix(a, k) => k # l /\ leaves'[k] = leaves[k] BY <1>1, <1>3
    <2>. HIDE DEF a
    <2>2. {<<k, leaves'[k]>> : k \in {x \in Leaves : IsPrefix(a, x) /\ leaves'[x] # Absent}}
            = {<<k, leaves[k]>> : k \in {x \in Leaves : IsPrefix(a, x) /\ leaves[x] # Absent}}
        BY <2>1
    <2>. QED BY <2>2 DEF RowAt, a
<1>5. Children(route) = [i \in 1 .. Cardinality(values) |-> RowAt(Append(route, Nth(i)))] BY DEF Children
<1>6. Children(route)' = [i \in 1 .. Cardinality(now) |-> RowNow(Append(route, NthNow(i)))]
    BY DEF Children, RowAt
<1>7. \A i : NthNow(i) = Nth(i) BY <1>2
<1>. HIDE DEF values, now, Nth, NthNow, RowNow
<1>8. Children(route)' = Children(route) BY <1>2, <1>4, <1>5, <1>6, <1>7
<1>. QED BY <1>8 DEF ViewOf, Grouped

LEMMA SameLeavesSameView ==
    ASSUME NEW route, leaves' = leaves
    PROVE  Children(route)' = Children(route) /\ ViewOf(route)' = ViewOf(route)
BY DEF Children, ViewOf, Grouped, RowAt

\* The route of a group is told of when a row under it moves.
LEMMA ToldOfTheRoute ==
    ASSUME NEW route \in Routes, NEW l \in Leaves, Grouped(route), IsPrefix(route, l)
    PROVE  route \in RoutesToRefresh({SubSeq(l, 1, n) : n \in 1 .. Levels})
<1>. DEFINE n == Len(route)
            p == SubSeq(l, 1, n + 1)
<1>1. route \in Seq(Nat) /\ l \in Seq(Nat) /\ Len(l) = Levels + 1 /\ Levels \in Nat BY BlockAssumption
<1>2. n \in Nat /\ n < Levels BY <1>1, LenProperties DEF Grouped
<1>3. SubSeq(route, 1, n) = SubSeq(l, 1, n) BY DEF IsPrefix
<1>4. SubSeq(route, 1, n) = route BY <1>1, SubSeqFull
<1>. HIDE DEF n
<1>5. \A i \in 1 .. n + 1 : l[i] \in Nat BY <1>1, <1>2, ElementOfSeq
<1>6. p \in Seq(Nat) /\ Len(p) = n + 1 /\ \A i \in 1 .. n + 1 : p[i] = l[i]
    <2>1. 1 \in Int /\ n + 1 \in Int /\ (n + 1) - 1 + 1 = n + 1 /\ 1 <= n + 1 BY <1>2
    <2>2. p \in Seq(Nat) /\ Len(p) = n + 1 /\ \A i \in 1 .. n + 1 : p[i] = l[1 + i - 1]
        BY <1>5, <2>1, SubSeqProperties
    <2>3. \A i \in 1 .. n + 1 : 1 + i - 1 = i OBVIOUS
    <2>. HIDE DEF p
    <2>. QED BY <2>2, <2>3
<1>7. SubSeq(p, 1, n) = SubSeq(l, 1, n)
    <2>1. \A i \in 1 .. n : i \in 1 .. n + 1 BY <1>2
    <2>. DEFINE x == SubSeq(p, 1, n)
                y == SubSeq(l, 1, n)
    <2>2. 1 \in Int /\ n \in Int /\ n - 1 + 1 = n BY <1>2
    <2>. HIDE DEF p
    <2>3. \A i \in 1 .. n : p[i] \in Nat /\ l[i] \in Nat BY <1>5, <1>6, <2>1
    <2>4. x \in Seq(Nat) /\ (Len(x) = IF 1 <= n THEN n - 1 + 1 ELSE 0) /\ \A i \in 1 .. n : x[i] = p[1 + i - 1]
        BY <2>2, <2>3, SubSeqProperties
    <2>5. y \in Seq(Nat) /\ (Len(y) = IF 1 <= n THEN n - 1 + 1 ELSE 0) /\ \A i \in 1 .. n : y[i] = l[1 + i - 1]
        BY <2>2, <2>3, SubSeqProperties
    <2>6. \A i \in 1 .. n : 1 + i - 1 = i OBVIOUS
    <2>7. Len(x) = n /\ Len(y) = n BY <1>2, <2>4, <2>5
    <2>. HIDE DEF x, y
    <2>. QED BY <1>6, <2>1, <2>4, <2>5, <2>6, <2>7, SeqEqual DEF x, y
<1>8. Front(p) = route
    <2>1. Len(p) - 1 = n BY <1>2, <1>6
    <2>. HIDE DEF p
    <2>. QED BY <1>3, <1>4, <1>7, <2>1 DEF Front
<1>9. n + 1 \in 1 .. Levels BY <1>1, <1>2
<1>. QED BY <1>8, <1>9 DEF RoutesToRefresh

NewReads == {ReadOf(r, i) : r \in Routes, i \in BlockIds}

\* What is asked for again: all of the routes that is shown or asked for.
LEMMA RereadIs ==
    ASSUME NEW routes \in SUBSET Routes
    PROVE  /\ Reread(routes) \in Seq(NewReads)
           /\ \A r \in routes, i \in BlockIds : i \in Shown(r) \cup Asked(r) =>
                \E n \in 1 .. Len(Reread(routes)) : Reread(routes)[n] = ReadOf(r, i)
<1>. DEFINE all == SetToSeq(NewReads)
            T == {c \in {ReadOf(r, i) : r \in routes, i \in BlockIds} : c.block \in Shown(c.route) \cup Asked(c.route)}
<1>1. IsFiniteSet(NewReads)
    <2>. DEFINE f == [x \in Routes \X BlockIds |-> ReadOf(x[1], x[2])]
    <2>1. IsFiniteSet(BlockIds) /\ IsFiniteSet(Routes) BY BlockAssumption, FS_Interval DEF BlockIds
    <2>2. IsFiniteSet(Routes \X BlockIds) BY <2>1, FS_Product
    <2>3. f \in Surjection(Routes \X BlockIds, NewReads)
        <3>1. f \in [Routes \X BlockIds -> NewReads] BY DEF NewReads
        <3>2. ASSUME NEW c \in NewReads PROVE \E x \in Routes \X BlockIds : f[x] = c
            <4>1. PICK r \in Routes, i \in BlockIds : c = ReadOf(r, i) BY DEF NewReads
            <4>2. <<r, i>> \in Routes \X BlockIds /\ f[<<r, i>>] = c BY <4>1
            <4>. HIDE DEF f
            <4>. QED BY <4>2
        <3>. HIDE DEF f
        <3>. QED BY <3>1, <3>2 DEF Surjection
    <2>. QED BY <2>2, <2>3, FS_Surjection
<1>2. /\ all \in Seq(NewReads)
      /\ \A c \in NewReads : \E n \in 1 .. Len(all) : all[n] = c
    BY <1>1, SeqOfSet
<1>3. Reread(routes) = KeepIn(all, T) BY DEF Reread, NewReads
<1>. HIDE DEF all, T
<1>4. KeepIn(all, T) \in Seq(NewReads) BY <1>2, KeptIsPicked
<1>5. PICK f \in [1 .. Len(KeepIn(all, T)) -> Nat] : IsPicked(f, KeepIn(all, T), all, T)
    BY <1>2, KeptIsPicked
<1>6. ASSUME NEW r \in routes, NEW i \in BlockIds, i \in Shown(r) \cup Asked(r)
      PROVE  \E n \in 1 .. Len(KeepIn(all, T)) : KeepIn(all, T)[n] = ReadOf(r, i)
    <2>. DEFINE c == ReadOf(r, i)
    <2>1. c.block = i /\ c.route = r BY DEF ReadOf
    <2>2. c \in T BY <1>6, <2>1 DEF T
    <2>3. c \in NewReads BY DEF NewReads
    <2>. HIDE DEF c
    <2>4. PICK m \in 1 .. Len(all) : all[m] = c BY <1>2, <2>3
    <2>5. PICK n \in 1 .. Len(KeepIn(all, T)) : f[n] = m BY <1>5, <2>2, <2>4 DEF IsPicked
    <2>6. KeepIn(all, T)[n] = all[f[n]] BY <1>5 DEF IsPicked
    <2>. QED BY <2>4, <2>5, <2>6 DEF c
<1>. QED BY <1>3, <1>4, <1>6

------------------------------------------------------------------------------
\* What becomes of the reads.
LEMMA NewReadsAre ==
    ASSUME NEW c \in NewReads
    PROVE  IsRead(c) /\ c.stage = 0
<1>1. PICK r \in Routes, i \in BlockIds : c = ReadOf(r, i) BY DEF NewReads
<1>2. c \in [route : Routes, block : BlockIds, stage : 0 .. 2, count : Nat, rows : {<<>>}]
    BY <1>1 DEF ReadOf
<1>3. c.stage = 0 BY <1>1 DEF ReadOf
<1>. QED BY <1>2, <1>3 DEF IsRead

LEMMA ReadFields ==
    ASSUME NEW c, IsRead(c)
    PROVE  c.route \in Routes /\ c.block \in BlockIds /\ c.stage \in 0 .. 2 /\ c.count \in Nat
BY DEF IsRead

LEMMA ReadsJoin ==
    ASSUME NEW s, IsReads(s), NEW f \in Seq(NewReads)
    PROVE  /\ IsReads(s \o f) /\ Len(s) \in Nat /\ Len(f) \in Nat /\ DOMAIN s = 1 .. Len(s)
           /\ DOMAIN (s \o f) = 1 .. Len(s) + Len(f)
           /\ \A n \in 1 .. Len(s) : (s \o f)[n] = s[n]
           /\ \A n \in 1 .. Len(f) : (s \o f)[Len(s) + n] = f[n]
<1>. DEFINE T == ToSet(s) \cup NewReads
            a == Len(s)
            k == Len(f)
            t == s \o f
<1>1. s \in Seq(T) /\ f \in Seq(T)
    <2>1. ToSet(s) \subseteq T /\ NewReads \subseteq T OBVIOUS
    <2>. HIDE DEF T
    <2>. QED BY <2>1, SeqMonotonic DEF IsReads
<1>. HIDE DEF T
<1>2. a \in Nat /\ k \in Nat /\ DOMAIN s = 1 .. a /\ DOMAIN f = 1 .. k BY <1>1, LenProperties
<1>3. /\ t \in Seq(T) /\ Len(t) = a + k
      /\ \A n \in 1 .. a + k : t[n] = IF n <= a THEN s[n] ELSE f[n - a]
    BY <1>1, ConcatProperties
<1>. HIDE DEF a, k, t
<1>4. DOMAIN t = 1 .. a + k BY <1>3, LenProperties
<1>5. \A n \in 1 .. a : t[n] = s[n]
    <2>1. \A n \in 1 .. a : n \in 1 .. a + k /\ n <= a BY <1>2
    <2>. QED BY <1>3, <2>1
<1>6. \A n \in 1 .. k : t[a + n] = f[n]
    <2>1. \A n \in 1 .. k : a + n \in 1 .. a + k /\ ~(a + n <= a) /\ (a + n) - a = n BY <1>2
    <2>. QED BY <1>3, <2>1
<1>7. ASSUME NEW n \in DOMAIN t PROVE IsRead(t[n])
    <2>1. n \in 1 .. a \/ \E m \in 1 .. k : n = a + m
        <3>1. n \in 1 .. a \/ (n - a \in 1 .. k /\ n = a + (n - a)) BY <1>2, <1>4
        <3>. QED BY <3>1
    <2>2. CASE n \in 1 .. a BY <2>2, <1>2, <1>5 DEF IsReads
    <2>3. CASE \E m \in 1 .. k : n = a + m
        <3>1. PICK m \in 1 .. k : n = a + m BY <2>3
        <3>2. f[m] \in NewReads BY <3>1, ElementOfSeq DEF k
        <3>. QED BY <3>1, <3>2, <1>6, NewReadsAre
    <2>. QED BY <2>1, <2>2, <2>3
<1>8. t \in Seq(ToSet(t)) BY <1>2, <1>3, <1>4 DEF ToSet
<1>. QED BY <1>2, <1>4, <1>5, <1>6, <1>7, <1>8 DEF IsReads, a, k, t

LEMMA ReadsTail ==
    ASSUME NEW s, IsReads(s), s # <<>>
    PROVE  /\ IsReads(Tail(s)) /\ IsRead(Head(s)) /\ Head(s) = s[1] /\ 1 \in DOMAIN s
           /\ \A n \in DOMAIN Tail(s) : n + 1 \in DOMAIN s /\ Tail(s)[n] = s[n + 1] /\ n \in Nat
           /\ \A n \in DOMAIN s : n \in Nat /\ (n = 1 \/ n - 1 \in DOMAIN Tail(s))
<1>. DEFINE t == Tail(s)
            k == Len(s)
            T == ToSet(s)
<1>1. s \in Seq(T) /\ k \in Nat /\ DOMAIN s = 1 .. k BY LenProperties DEF IsReads
<1>2. k # 0 /\ Head(s) = s[1] BY <1>1
<1>3. t \in Seq(T) /\ Len(t) = k - 1 /\ \A n \in 1 .. Len(t) : t[n] = s[n + 1] BY <1>1, HeadTailProperties
<1>. HIDE DEF t, k, T
<1>4. DOMAIN t = 1 .. k - 1 BY <1>3, LenProperties
<1>5. t \in Seq(ToSet(t)) BY <1>1, <1>2, <1>3, <1>4 DEF ToSet
<1>6. \A n \in DOMAIN t : n + 1 \in DOMAIN s /\ t[n] = s[n + 1] /\ n \in Nat BY <1>1, <1>2, <1>3, <1>4
<1>7. \A n \in DOMAIN s : n \in Nat /\ (n = 1 \/ n - 1 \in DOMAIN t) BY <1>1, <1>2, <1>4
<1>8. 1 \in DOMAIN s BY <1>1, <1>2
<1>. QED BY <1>2, <1>5, <1>6, <1>7, <1>8 DEF IsReads, t

LEMMA ReadsExcept ==
    ASSUME NEW s, IsReads(s), NEW n \in DOMAIN s, NEW c, IsRead(c)
    PROVE  LET t == [s EXCEPT ![n] = c] IN
           IsReads(t) /\ DOMAIN t = DOMAIN s /\ t[n] = c /\ \A m \in DOMAIN s : m # n => t[m] = s[m]
<1>. DEFINE t == [s EXCEPT ![n] = c]
            k == Len(s)
            T == ToSet(s)
<1>1. s \in Seq(T) /\ k \in Nat /\ DOMAIN s = 1 .. k BY LenProperties DEF IsReads
<1>2. DOMAIN t = 1 .. k /\ t[n] = c /\ \A m \in DOMAIN s : m # n => t[m] = s[m] BY <1>1
<1>3. t \in [1 .. k -> ToSet(t)]
    <2>1. t = [m \in 1 .. k |-> t[m]] BY <1>1
    <2>. HIDE DEF t
    <2>. QED BY <1>2, <2>1 DEF ToSet
<1>. HIDE DEF t
<1>4. t \in Seq(ToSet(t)) BY <1>1, <1>3
<1>. QED BY <1>1, <1>2, <1>4 DEF IsReads, t

------------------------------------------------------------------------------
\* Reads put behind the others keep a route current, and make it so when they
\* ask for all of it.
LEMMA JoinKeeps ==
    ASSUME NEW s, IsReads(s), NEW f \in Seq(NewReads), NEW r \in Routes, NEW b, NEW view, NEW kids,
           \/ KeepCurrent(s, b, r, view, kids)
           \/ \A i \in BlockIds : b[i] # NotLoaded \/ AsksFor(s, r, i) => \E n \in 1 .. Len(f) : f[n] = ReadOf(r, i)
    PROVE  KeepCurrent(s \o f, b, r, view, kids)
<1>. DEFINE t == s \o f
            a == Len(s)
            k == Len(f)
<1>1. /\ a \in Nat /\ k \in Nat /\ DOMAIN s = 1 .. a /\ DOMAIN t = 1 .. a + k
      /\ \A n \in 1 .. a : t[n] = s[n]
      /\ \A n \in 1 .. k : t[a + n] = f[n]
    BY ReadsJoin
<1>2. \A n \in 1 .. k : f[n] \in NewReads BY ElementOfSeq
<1>3. \A n \in 1 .. a : n \in 1 .. a + k BY <1>1
<1>4. \A n \in 1 .. k : a + n \in 1 .. a + k /\ \A m \in 1 .. a : a + n > m BY <1>1
<1>. HIDE DEF t, a, k
<1>5. \A i \in BlockIds, n \in 1 .. k : f[n] = ReadOf(r, i) =>
        a + n \in DOMAIN t /\ t[a + n].route = r /\ t[a + n].block = i
    BY <1>1, <1>4 DEF ReadOf
<1>6. ASSUME NEW n \in DOMAIN t, t[n].route = r, IsLastOf(t, n) PROVE ReadIsFresh(t[n], view)
    <2>1. n \in 1 .. a \/ \E m \in 1 .. k : n = a + m
        <3>1. n \in 1 .. a \/ (n - a \in 1 .. k /\ n = a + (n - a)) BY <1>1
        <3>. QED BY <3>1
    <2>2. CASE n \in 1 .. a
        <3>1. t[n] = s[n] /\ s[n].block \in BlockIds BY <2>2, <1>1, ReadFields DEF IsReads
        <3>2. IsLastOf(s, n) BY <1>1, <1>3, <1>6, <2>2 DEF IsLastOf
        <3>3. CASE KeepCurrent(s, b, r, view, kids) BY <1>1, <1>6, <2>2, <3>1, <3>2, <3>3 DEF KeepCurrent
        <3>4. CASE \A i \in BlockIds : b[i] # NotLoaded \/ AsksFor(s, r, i) => \E m \in 1 .. k : f[m] = ReadOf(r, i)
            <4>1. AsksFor(s, r, s[n].block) BY <1>1, <1>6, <2>2, <3>1 DEF AsksFor
            <4>2. PICK m \in 1 .. k : f[m] = ReadOf(r, s[n].block) BY <3>1, <3>4, <4>1
            <4>3. a + m \in DOMAIN t /\ t[a + m].route = r /\ t[a + m].block = s[n].block BY <1>5, <3>1, <4>2
            <4>4. a + m > n BY <1>4, <2>2, <4>2
            <4>. QED BY <1>6, <3>1, <4>3, <4>4 DEF IsLastOf
        <3>. QED BY <3>3, <3>4 DEF k
    <2>3. CASE \E m \in 1 .. k : n = a + m
        <3>1. PICK m \in 1 .. k : n = a + m BY <2>3
        <3>2. t[n].stage = 0 BY <3>1, <1>1, <1>2, NewReadsAre
        <3>. QED BY <3>2 DEF ReadIsFresh
    <2>. QED BY <2>1, <2>2, <2>3
<1>7. ASSUME NEW i \in BlockIds, b[i] # NotLoaded, ~AsksFor(t, r, i) PROVE b[i] = BlockOf(kids, i)
    <2>1. ~AsksFor(s, r, i) BY <1>1, <1>3, <1>7 DEF AsksFor
    <2>2. CASE KeepCurrent(s, b, r, view, kids) BY <1>7, <2>1, <2>2 DEF KeepCurrent
    <2>3. CASE \E n \in 1 .. k : f[n] = ReadOf(r, i) BY <2>3, <1>5, <1>7 DEF AsksFor
    <2>. QED BY <1>7, <2>2, <2>3 DEF k
<1>. QED BY <1>6, <1>7 DEF KeepCurrent, t

\* An answer is taken in: it is the engine's as it is now.
LEMMA AnswerKeeps ==
    ASSUME NEW s, IsReads(s), NEW n \in DOMAIN s, NEW c, IsRead(c), NEW r, NEW b, NEW view, NEW kids,
           KeepCurrent(s, b, r, view, kids), c.route = s[n].route, c.block = s[n].block,
           s[n].route = r /\ ReadIsFresh(s[n], view) => ReadIsFresh(c, view)
    PROVE  KeepCurrent([s EXCEPT ![n] = c], b, r, view, kids)
<1>1. PICK t : t = [s EXCEPT ![n] = c] OBVIOUS
<1>2. DOMAIN t = DOMAIN s /\ t[n] = c /\ \A m \in DOMAIN s : m # n => t[m] = s[m] BY <1>1, ReadsExcept
<1>3. \A m \in DOMAIN s : t[m].route = s[m].route /\ t[m].block = s[m].block BY <1>2
<1>4. \A m \in DOMAIN s : IsLastOf(t, m) <=> IsLastOf(s, m) BY <1>2, <1>3 DEF IsLastOf
<1>5. \A i : AsksFor(t, r, i) <=> AsksFor(s, r, i) BY <1>2, <1>3 DEF AsksFor
<1>6. ASSUME NEW m \in DOMAIN t, t[m].route = r, IsLastOf(t, m) PROVE ReadIsFresh(t[m], view)
    <2>1. m \in DOMAIN s /\ s[m].route = r /\ IsLastOf(s, m) BY <1>2, <1>3, <1>4, <1>6
    <2>2. ReadIsFresh(s[m], view) BY <2>1 DEF KeepCurrent
    <2>. QED BY <1>2, <2>1, <2>2
<1>. QED BY <1>1, <1>5, <1>6 DEF KeepCurrent

\* The rows of the first read are put into their block.
LEMMA ArrivalKeeps ==
    ASSUME NEW s, IsReads(s), s # <<>>, Head(s).stage = 2, NEW r \in Routes, NEW b, NEW b2,
           KeepCurrent(s, b, r, ViewOf(r), Children(r)),
           Head(s).route # r => b2 = b,
           Head(s).route = r => \A i \in BlockIds :
               b2[i] = NotLoaded \/ b2[i] = IF i = Head(s).block THEN MapGroupRows(Head(s).rows) ELSE b[i]
    PROVE  KeepCurrent(Tail(s), b2, r, ViewOf(r), Children(r))
<1>1. PICK t, c : t = Tail(s) /\ c = Head(s) OBVIOUS
<1>2. PICK view, kids : view = ViewOf(r) /\ kids = Children(r) OBVIOUS
<1>3. /\ IsReads(t) /\ IsRead(c) /\ c = s[1] /\ 1 \in DOMAIN s
      /\ \A n \in DOMAIN t : n + 1 \in DOMAIN s /\ t[n] = s[n + 1] /\ n \in Nat
      /\ \A n \in DOMAIN s : n \in Nat /\ (n = 1 \/ n - 1 \in DOMAIN t)
    BY <1>1, ReadsTail
<1>4. ASSUME NEW n \in DOMAIN t, t[n].route = r, IsLastOf(t, n) PROVE ReadIsFresh(t[n], view)
    <2>1. n + 1 \in DOMAIN s /\ t[n] = s[n + 1] /\ n \in Nat BY <1>3
    <2>2. ASSUME NEW m \in DOMAIN s, m > n + 1
          PROVE  ~(s[m].route = s[n + 1].route /\ s[m].block = s[n + 1].block)
        <3>1. m \in Nat /\ m - 1 \in DOMAIN t /\ m - 1 > n /\ (m - 1) + 1 = m BY <1>3, <2>1, <2>2
        <3>2. t[m - 1] = s[m] BY <1>3, <3>1
        <3>. QED BY <1>4, <2>1, <3>1, <3>2 DEF IsLastOf
    <2>3. IsLastOf(s, n + 1) BY <2>1, <2>2 DEF IsLastOf
    <2>. QED BY <1>2, <1>4, <2>1, <2>3 DEF KeepCurrent
<1>5. ASSUME NEW i \in BlockIds, b2[i] # NotLoaded, ~AsksFor(t, r, i) PROVE b2[i] = BlockOf(kids, i)
    <2>1. \A n \in DOMAIN s : n = 1 \/ ~(s[n].route = r /\ s[n].block = i)
        <3>1. ASSUME NEW n \in DOMAIN s, n # 1 PROVE ~(s[n].route = r /\ s[n].block = i)
            <4>1. n - 1 \in DOMAIN t /\ (n - 1) + 1 = n BY <1>3, <3>1
            <4>2. t[n - 1] = s[n] BY <1>3, <4>1
            <4>. QED BY <1>5, <4>1, <4>2 DEF AsksFor
        <3>. QED BY <3>1
    <2>2. CASE c.route = r /\ c.block = i
        <3>1. IsLastOf(s, 1) BY <1>3, <2>1, <2>2 DEF IsLastOf
        <3>2. ReadIsFresh(c, view) BY <1>2, <1>3, <2>2, <3>1 DEF KeepCurrent
        <3>3. c.stage = 2 BY <1>1
        <3>4. /\ c.count = Len(view)
              /\ c.rows = SubSeq(view, BlockStart(r, i) + 1,
                                 Smaller(Smaller(BlockStart(r, i) + BlockRows, c.count), Len(view)))
            BY <2>2, <3>2, <3>3 DEF ReadIsFresh
        <3>5. c.rows = Window(r, BlockStart(r, i), Smaller(BlockStart(r, i) + BlockRows, Len(ViewOf(r))))
            BY <1>2, <3>4 DEF Window
        <3>6. MapGroupRows(c.rows) = BlockOf(kids, i) BY <1>2, <3>5, WindowIsTheBlock DEF BlockOf
        <3>. QED BY <1>1, <1>5, <2>2, <3>6
    <2>3. CASE ~(c.route = r /\ c.block = i)
        <3>1. ~AsksFor(s, r, i) BY <1>3, <2>1, <2>3 DEF AsksFor
        <3>2. b2[i] = b[i] BY <1>1, <1>5, <2>3
        <3>. QED BY <1>2, <1>5, <3>1, <3>2 DEF KeepCurrent
    <2>. QED BY <2>2, <2>3
<1>. QED BY <1>1, <1>2, <1>4, <1>5 DEF KeepCurrent

------------------------------------------------------------------------------
\* A step of the engine for the n-th read.
Answer(c) ==
    LET from == BlockStart(c.route, c.block)
        to == Smaller(from + BlockRows, c.count)
    IN  IF c.stage = 0 THEN [c EXCEPT !.stage = 1, !.count = Len(ViewOf(c.route))]
                       ELSE [c EXCEPT !.stage = 2, !.rows = Window(c.route, from, to)]

LEMMA AnswerIsRead ==
    ASSUME NEW c, IsRead(c), c.stage < 2
    PROVE  /\ IsRead(Answer(c)) /\ Answer(c).route = c.route /\ Answer(c).block = c.block
           /\ ReadIsFresh(c, ViewOf(c.route)) => ReadIsFresh(Answer(c), ViewOf(c.route))
<1>1. PICK x : c \in [route : Routes, block : BlockIds, stage : 0 .. 2, count : Nat, rows : {x}] BY DEF IsRead
<1>2. c.route \in Routes /\ c.block \in BlockIds /\ c.stage \in {0, 1} /\ c.count \in Nat BY <1>1
<1>3. CASE c.stage = 0
    <2>1. PICK k \in Nat : k = Len(ViewOf(c.route)) BY <1>2, ViewIsAList, LenProperties
    <2>2. Answer(c) = [[c EXCEPT !.stage = 1] EXCEPT !.count = k] BY <1>1, <1>3, <2>1 DEF Answer
    <2>3. PICK d : d = [c EXCEPT !.stage = 1] OBVIOUS
    <2>4. d \in [route : Routes, block : BlockIds, stage : 0 .. 2, count : Nat, rows : {x}]
          /\ d.route = c.route /\ d.block = c.block /\ d.stage = 1
        BY <1>1, <2>3
    <2>5. PICK e : e = [d EXCEPT !.count = k] OBVIOUS
    <2>6. e \in [route : Routes, block : BlockIds, stage : 0 .. 2, count : Nat, rows : {x}]
          /\ e.route = c.route /\ e.block = c.block /\ e.stage = 1 /\ e.count = k
        BY <2>1, <2>4, <2>5
    <2>7. ReadIsFresh(e, ViewOf(c.route)) BY <2>1, <2>6 DEF ReadIsFresh
    <2>. QED BY <2>2, <2>3, <2>5, <2>6, <2>7 DEF IsRead
<1>4. CASE c.stage = 1
    <2>1. PICK w : w = Window(c.route, BlockStart(c.route, c.block),
                              Smaller(BlockStart(c.route, c.block) + BlockRows, c.count)) OBVIOUS
    <2>2. Answer(c) = [[c EXCEPT !.stage = 2] EXCEPT !.rows = w] BY <1>1, <1>4, <2>1 DEF Answer
    <2>3. PICK d : d = [c EXCEPT !.stage = 2] OBVIOUS
    <2>4. d \in [route : Routes, block : BlockIds, stage : 0 .. 2, count : Nat, rows : {x}]
          /\ d.route = c.route /\ d.block = c.block /\ d.stage = 2 /\ d.count = c.count
        BY <1>1, <2>3
    <2>5. PICK e : e = [d EXCEPT !.rows = w] OBVIOUS
    <2>6. e \in [route : Routes, block : BlockIds, stage : 0 .. 2, count : Nat, rows : {w}]
          /\ e.route = c.route /\ e.block = c.block /\ e.stage = 2 /\ e.count = c.count /\ e.rows = w
        BY <2>4, <2>5
    <2>7. ReadIsFresh(c, ViewOf(c.route)) => ReadIsFresh(e, ViewOf(c.route))
        BY <1>4, <2>1, <2>6 DEF ReadIsFresh, Window
    <2>. QED BY <2>2, <2>3, <2>5, <2>6, <2>7 DEF IsRead
<1>. QED BY <1>2, <1>3, <1>4

\* A route that was current stays it while its view, its blocks and the reads
\* are what they were.
LEMMA RouteStays ==
    ASSUME NEW r \in Routes, RouteIsCurrent(r), leaves' = leaves, reads' = reads, blocks' = blocks
    PROVE  RouteIsCurrent(r)'
BY SameLeavesSameView DEF RouteIsCurrent

LEMMA RouteJoins ==
    ASSUME BlockTypes, NEW r \in Routes, NEW f \in Seq(NewReads), reads' = reads \o f,
           leaves' = leaves, blocks' = blocks,
           \/ RouteIsCurrent(r)
           \/ \A i \in BlockIds : i \in Shown(r) \cup Asked(r) => \E n \in 1 .. Len(f) : f[n] = ReadOf(r, i)
    PROVE  RouteIsCurrent(r)'
<1>1. PICK b, view, kids : b = blocks[r] /\ view = ViewOf(r) /\ kids = Children(r) OBVIOUS
<1>2. blocks'[r] = b /\ ViewOf(r)' = view /\ Children(r)' = kids BY <1>1, SameLeavesSameView
<1>3. \A i \in BlockIds : b[i] # NotLoaded \/ AsksFor(reads, r, i) => i \in Shown(r) \cup Asked(r)
    BY <1>1 DEF AsksFor, Shown, Asked
<1>4. \/ KeepCurrent(reads, b, r, view, kids)
      \/ \A i \in BlockIds : b[i] # NotLoaded \/ AsksFor(reads, r, i) => \E n \in 1 .. Len(f) : f[n] = ReadOf(r, i)
    BY <1>1, <1>3 DEF RouteIsCurrent
<1>5. IsReads(reads) BY DEF BlockTypes
<1>6. KeepCurrent(reads \o f, b, r, view, kids) BY <1>4, <1>5, JoinKeeps
<1>. QED BY <1>2, <1>6 DEF RouteIsCurrent

\* One more read.
LEMMA OneMore ==
    ASSUME BlockTypes, NEW c \in NewReads
    PROVE  Append(reads, c) = reads \o <<c>> /\ <<c>> \in Seq(NewReads)
<1>1. PICK T : T = ToSet(reads) \cup {c} OBVIOUS
<1>2. reads \in Seq(T) /\ c \in T BY <1>1, SeqMonotonic DEF BlockTypes, IsReads
<1>. QED BY <1>2, AppendIsConcat

LEMMA BlocksStart == SsrmInit => BlocksInv
<1>. SUFFICES ASSUME SsrmInit PROVE BlocksInv OBVIOUS
<1>1. reads = <<>> /\ DOMAIN reads = {} BY DEF SsrmInit
<1>2. IsReads(reads) BY <1>1 DEF IsReads, ToSet
<1>3. leaves \in [Leaves -> 0 .. MaxLeafMoves + 1]
    <2>1. {Absent, 1} \subseteq 0 .. MaxLeafMoves + 1 BY BlockAssumption DEF Absent
    <2>. QED BY <2>1 DEF SsrmInit
<1>4. BlockTypes
    <2>1. leafMoves \in 0 .. MaxLeafMoves BY BlockAssumption DEF SsrmInit
    <2>2. groupNews \subseteq {SubSeq(l, 1, n) : l \in Leaves, n \in 1 .. Levels} BY DEF SsrmInit
    <2>3. /\ rowNews \in BOOLEAN /\ refreshPending \in BOOLEAN /\ refreshSet \in BOOLEAN
          /\ ssrmAttached \in BOOLEAN /\ readFailed \in BOOLEAN /\ DOMAIN blocks = Routes
        BY DEF SsrmInit
    <2>. QED BY <1>2, <1>3, <2>1, <2>2, <2>3 DEF BlockTypes
<1>5. ASSUME NEW r \in Routes PROVE RouteIsCurrent(r)
    <2>1. \A i \in BlockIds : blocks[r][i] = NotLoaded BY DEF SsrmInit
    <2>. QED BY <1>1, <2>1 DEF RouteIsCurrent, KeepCurrent
<1>. QED BY <1>4, <1>5 DEF BlocksInv, SsrmInit

LEMMA BlocksStep == ASSUME BlocksInv, [SsrmNext]_ssrmVars PROVE BlocksInv'
<1>0. /\ BlockTypes /\ (refreshSet => refreshPending) /\ IsReads(reads)
      /\ ssrmAttached /\ ~readFailed => \A r \in Routes : Quiet(r) => RouteIsCurrent(r)
    BY DEF BlocksInv, BlockTypes
<1>1. ASSUME NEW l \in Leaves, NEW v \in {Absent, leafMoves + 2}, LeafMoves(l, v) PROVE BlocksInv'
    <2>1. /\ leafMoves < MaxLeafMoves /\ leaves' = [leaves EXCEPT ![l] = v] /\ leafMoves' = leafMoves + 1
          /\ rowNews' = TRUE /\ groupNews' = groupNews \cup {SubSeq(l, 1, n) : n \in 1 .. Levels}
          /\ reads' = reads /\ blocks' = blocks /\ refreshPending' = refreshPending
          /\ refreshSet' = refreshSet /\ ssrmAttached' = ssrmAttached /\ readFailed' = readFailed
        BY <1>1 DEF LeafMoves
    <2>2. leafMoves + 1 \in 0 .. MaxLeafMoves /\ v \in 0 .. MaxLeafMoves + 1
        BY <1>0, <2>1, BlockAssumption DEF BlockTypes, Absent
    <2>3. leaves' \in [Leaves -> 0 .. MaxLeafMoves + 1] BY <1>0, <2>1, <2>2 DEF BlockTypes
    <2>4. groupNews' \subseteq {SubSeq(k, 1, n) : k \in Leaves, n \in 1 .. Levels} BY <1>0, <2>1 DEF BlockTypes
    <2>5. BlockTypes' BY <1>0, <2>1, <2>2, <2>3, <2>4 DEF BlockTypes
    <2>6. ASSUME NEW r \in Routes, Quiet(r)', ssrmAttached', ~readFailed' PROVE RouteIsCurrent(r)'
        <3>1. Grouped(r) /\ r \notin RoutesToRefresh(groupNews') BY <2>1, <2>6 DEF Quiet, Grouped
        <3>2. /\ r \notin RoutesToRefresh(groupNews)
              /\ r \notin RoutesToRefresh({SubSeq(l, 1, n) : n \in 1 .. Levels})
            BY <2>1, <3>1 DEF RoutesToRefresh
        <3>3. ~IsPrefix(r, l) BY <3>1, <3>2, ToldOfTheRoute
        <3>4. RouteIsCurrent(r) BY <1>0, <2>1, <2>6, <3>1, <3>2 DEF Quiet
        <3>5. DOMAIN leaves = Leaves BY <1>0 DEF BlockTypes
        <3>6. Children(r)' = Children(r) /\ ViewOf(r)' = ViewOf(r) BY <2>1, <3>3, <3>5, ViewKeeps
        <3>. QED BY <2>1, <3>4, <3>6 DEF RouteIsCurrent
    <2>. QED BY <1>0, <2>1, <2>5, <2>6 DEF BlocksInv
<1>2. ASSUME NEW f \in Seq(NewReads), reads' = reads \o f,
             UNCHANGED <<leaves, leafMoves, blocks, ssrmAttached, readFailed>>,
             rowNews' = rowNews, groupNews' \subseteq groupNews,
             refreshPending' \in BOOLEAN, refreshSet' \in BOOLEAN, refreshSet' => refreshPending',
             \A r \in Routes : Quiet(r)' /\ ~Quiet(r) =>
                 \A i \in BlockIds : i \in Shown(r) \cup Asked(r) => \E n \in 1 .. Len(f) : f[n] = ReadOf(r, i)
      PROVE  BlocksInv'
    <2>1. IsReads(reads') BY <1>0, <1>2, ReadsJoin
    <2>2. BlockTypes' BY <1>0, <1>2, <2>1 DEF BlockTypes
    <2>3. ASSUME NEW r \in Routes, Quiet(r)', ssrmAttached', ~readFailed' PROVE RouteIsCurrent(r)'
        <3>1. RouteIsCurrent(r)
              \/ \A i \in BlockIds : i \in Shown(r) \cup Asked(r) => \E n \in 1 .. Len(f) : f[n] = ReadOf(r, i)
            BY <1>0, <1>2, <2>3
        <3>. QED BY <1>0, <1>2, <3>1, RouteJoins
    <2>. QED BY <1>2, <2>2, <2>3 DEF BlocksInv
<1>3. ASSUME NEW route \in Routes, NEW i \in BlockIds, GetRows(route, i) PROVE BlocksInv'
    <2>1. ReadOf(route, i) \in NewReads BY DEF NewReads
    <2>2. reads' = reads \o <<ReadOf(route, i)>> /\ <<ReadOf(route, i)>> \in Seq(NewReads)
        BY <1>0, <1>3, <2>1, OneMore DEF GetRows
    <2>3. UNCHANGED <<leaves, leafMoves, rowNews, groupNews, blocks, refreshPending, refreshSet, ssrmAttached, readFailed>>
        BY <1>3 DEF GetRows
    <2>4. \A r \in Routes : Quiet(r)' <=> Quiet(r) BY <2>3 DEF Quiet, Grouped
    <2>5. refreshPending' \in BOOLEAN /\ refreshSet' \in BOOLEAN /\ (refreshSet' => refreshPending')
        BY <1>0, <2>3 DEF BlockTypes
    <2>. QED BY <1>2, <2>2, <2>3, <2>4, <2>5
<1>4. ASSUME NEW n \in DOMAIN reads, ReadWindow(n) PROVE BlocksInv'
    <2>1. PICK c : c = reads[n] OBVIOUS
    <2>2. IsRead(c) /\ c.stage < 2 BY <1>0, <1>4, <2>1 DEF IsReads, ReadWindow
    <2>3. PICK d : d = Answer(c) OBVIOUS
    <2>4. IsRead(d) /\ d.route = c.route /\ d.block = c.block
          /\ (ReadIsFresh(c, ViewOf(c.route)) => ReadIsFresh(d, ViewOf(c.route)))
        BY <2>2, <2>3, AnswerIsRead
    <2>5. reads' = [reads EXCEPT ![n] = d] BY <1>4, <2>1, <2>3 DEF ReadWindow, Answer
    <2>6. UNCHANGED <<leaves, leafMoves, rowNews, groupNews, blocks, refreshPending, refreshSet, ssrmAttached, readFailed>>
        BY <1>4 DEF ReadWindow
    <2>7. IsReads(reads') BY <1>0, <2>4, <2>5, ReadsExcept
    <2>8. BlockTypes' BY <1>0, <2>6, <2>7 DEF BlockTypes
    <2>9. ASSUME NEW r \in Routes, Quiet(r)', ssrmAttached', ~readFailed' PROVE RouteIsCurrent(r)'
        <3>1. RouteIsCurrent(r) BY <1>0, <2>6, <2>9 DEF Quiet, Grouped
        <3>2. PICK b, view, kids : b = blocks[r] /\ view = ViewOf(r) /\ kids = Children(r) OBVIOUS
        <3>3. blocks'[r] = b /\ ViewOf(r)' = view /\ Children(r)' = kids BY <2>6, <3>2, SameLeavesSameView
        <3>4. KeepCurrent(reads, b, r, view, kids) BY <3>1, <3>2 DEF RouteIsCurrent
        <3>5. reads[n].route = r /\ ReadIsFresh(reads[n], view) => ReadIsFresh(d, view) BY <2>1, <2>4, <3>2
        <3>6. KeepCurrent([reads EXCEPT ![n] = d], b, r, view, kids)
            BY <1>0, <2>1, <2>4, <3>4, <3>5, AnswerKeeps
        <3>. QED BY <2>5, <3>3, <3>6 DEF RouteIsCurrent
    <2>. QED BY <1>0, <2>6, <2>8, <2>9 DEF BlocksInv
<1>5. CASE BlockArrives
    <2>1. PICK c : c = Head(reads) OBVIOUS
    <2>2. reads # <<>> /\ c.stage = 2 /\ reads' = Tail(reads)
          /\ UNCHANGED <<leaves, leafMoves, rowNews, groupNews, refreshPending, refreshSet, ssrmAttached, readFailed>>
        BY <1>5, <2>1 DEF BlockArrives
    <2>3. IsRead(c) /\ IsReads(reads') BY <1>0, <2>1, <2>2, ReadsTail
    <2>4. c.route \in Routes BY <2>3, ReadFields
    <2>5. PICK past :
            blocks' = [blocks EXCEPT ![c.route] =
                [i \in BlockIds |-> IF i * BlockRows >= past THEN NotLoaded
                                    ELSE IF i = c.block THEN MapGroupRows(c.rows) ELSE blocks[c.route][i]]]
        BY <1>5, <2>1 DEF BlockArrives
    <2>6. DOMAIN blocks' = Routes BY <1>0, <2>5 DEF BlockTypes
    <2>7. BlockTypes' BY <1>0, <2>2, <2>3, <2>6 DEF BlockTypes
    <2>8. ASSUME NEW r \in Routes, Quiet(r)', ssrmAttached', ~readFailed' PROVE RouteIsCurrent(r)'
        <3>1. RouteIsCurrent(r) BY <1>0, <2>2, <2>8 DEF Quiet, Grouped
        <3>2. PICK b, b2 : b = blocks[r] /\ b2 = blocks'[r] OBVIOUS
        <3>3. ViewOf(r)' = ViewOf(r) /\ Children(r)' = Children(r) BY <2>2, SameLeavesSameView
        <3>4. KeepCurrent(reads, b, r, ViewOf(r), Children(r)) BY <3>1, <3>2 DEF RouteIsCurrent
        <3>5. DOMAIN blocks = Routes BY <1>0 DEF BlockTypes
        <3>6. c.route # r => b2 = b BY <2>5, <3>2, <3>5
        <3>7. c.route = r => \A i \in BlockIds :
                b2[i] = NotLoaded \/ b2[i] = IF i = c.block THEN MapGroupRows(c.rows) ELSE b[i]
            BY <2>5, <3>2, <3>5
        <3>8. KeepCurrent(Tail(reads), b2, r, ViewOf(r), Children(r))
            BY <1>0, <2>1, <2>2, <3>4, <3>6, <3>7, ArrivalKeeps
        <3>. QED BY <2>2, <3>2, <3>3, <3>8 DEF RouteIsCurrent
    <2>. QED BY <1>0, <2>2, <2>7, <2>8 DEF BlocksInv
<1>6. CASE ReadFailed
    <2>1. reads # <<>> /\ reads' = Tail(reads) /\ readFailed' = TRUE
          /\ UNCHANGED <<leaves, leafMoves, rowNews, groupNews, blocks, refreshPending, refreshSet, ssrmAttached>>
        BY <1>6 DEF ReadFailed
    <2>2. IsReads(reads') BY <1>0, <2>1, ReadsTail
    <2>. QED BY <1>0, <2>1, <2>2 DEF BlocksInv, BlockTypes
<1>7. CASE OnRowDelta
    <2>1. rowNews /\ rowNews' = FALSE
          /\ UNCHANGED <<leaves, leafMoves, groupNews, reads, blocks, ssrmAttached, readFailed>>
        BY <1>7 DEF OnRowDelta
    <2>2. IF ssrmAttached THEN refreshPending' = TRUE /\ refreshSet' = TRUE
                          ELSE refreshPending' = refreshPending /\ refreshSet' = refreshSet
        BY <1>7 DEF OnRowDelta
    <2>3. BlockTypes'
        <3>1. refreshPending' \in BOOLEAN /\ refreshSet' \in BOOLEAN /\ rowNews' \in BOOLEAN
            <4>1. refreshPending \in BOOLEAN /\ refreshSet \in BOOLEAN BY <1>0 DEF BlockTypes
            <4>2. CASE ssrmAttached BY <2>1, <2>2, <4>2
            <4>3. CASE ~ssrmAttached BY <2>1, <2>2, <4>1, <4>3, Zenon
            <4>. QED BY <4>2, <4>3
        <3>2. IsReads(reads') BY <1>0, <2>1
        <3>. QED BY <1>0, <2>1, <3>1, <3>2 DEF BlockTypes
    <2>4. ASSUME NEW r \in Routes, Quiet(r)', ssrmAttached', ~readFailed' PROVE RouteIsCurrent(r)'
        <3>1. Quiet(r) BY <2>1, <2>2, <2>4 DEF Quiet, Grouped
        <3>. QED BY <1>0, <2>1, <2>4, <3>1, RouteStays
    <2>. QED BY <1>0, <2>2, <2>3, <2>4 DEF BlocksInv
<1>8. CASE OnGroupDelta
    <2>1. PICK R : R = RoutesToRefresh(groupNews) \cap Routes OBVIOUS
    <2>2. PICK f : f = Reread(R) OBVIOUS
    <2>3. R \in SUBSET Routes BY <2>1
    <2>4. /\ f \in Seq(NewReads)
          /\ \A r \in R, i \in BlockIds : i \in Shown(r) \cup Asked(r) => \E n \in 1 .. Len(f) : f[n] = ReadOf(r, i)
        BY <2>2, <2>3, RereadIs
    <2>5. /\ reads' = reads \o f /\ groupNews' = {}
          /\ UNCHANGED <<leaves, leafMoves, rowNews, blocks, refreshPending, refreshSet, ssrmAttached, readFailed>>
        BY <1>8, <2>1, <2>2 DEF OnGroupDelta
    <2>6. ASSUME NEW r \in Routes, ~Quiet(r), Quiet(r)' PROVE r \in R BY <2>1, <2>5, <2>6 DEF Quiet, Grouped
    <2>7. \A r \in Routes : Quiet(r)' /\ ~Quiet(r) =>
            \A i \in BlockIds : i \in Shown(r) \cup Asked(r) => \E n \in 1 .. Len(f) : f[n] = ReadOf(r, i)
        BY <2>4, <2>6
    <2>8. refreshPending' \in BOOLEAN /\ refreshSet' \in BOOLEAN /\ (refreshSet' => refreshPending')
          /\ groupNews' \subseteq groupNews
        BY <1>0, <2>5 DEF BlockTypes
    <2>. QED BY <1>2, <2>4, <2>5, <2>7, <2>8
<1>9. CASE RefreshAll
    <2>1. PICK f : f = Reread(Routes) OBVIOUS
    <2>2. /\ f \in Seq(NewReads)
          /\ \A r \in Routes, i \in BlockIds : i \in Shown(r) \cup Asked(r) => \E n \in 1 .. Len(f) : f[n] = ReadOf(r, i)
        BY <2>1, RereadIs
    <2>3. /\ reads' = reads \o f /\ refreshSet' = FALSE /\ refreshPending' = FALSE
          /\ UNCHANGED <<leaves, leafMoves, rowNews, groupNews, blocks, ssrmAttached, readFailed>>
        BY <1>0, <1>9, <2>1 DEF RefreshAll
    <2>. QED BY <1>2, <2>2, <2>3
<1>10. CASE DestroySsrm
    <2>1. ssrmAttached' = FALSE
          /\ UNCHANGED <<leaves, leafMoves, rowNews, groupNews, reads, blocks, refreshPending, refreshSet, readFailed>>
        BY <1>10 DEF DestroySsrm
    <2>2. ssrmAttached' \in BOOLEAN BY <2>1
    <2>3. BlockTypes'
        <3>1. leaves' = leaves /\ leafMoves' = leafMoves /\ groupNews' = groupNews /\ reads' = reads /\ blocks' = blocks
            BY <2>1
        <3>2. rowNews' = rowNews /\ refreshPending' = refreshPending /\ refreshSet' = refreshSet /\ readFailed' = readFailed
            BY <2>1
        <3>3. rowNews' \in BOOLEAN /\ refreshPending' \in BOOLEAN /\ refreshSet' \in BOOLEAN /\ readFailed' \in BOOLEAN
            <4>1. rowNews \in BOOLEAN /\ refreshPending \in BOOLEAN /\ refreshSet \in BOOLEAN /\ readFailed \in BOOLEAN
                BY <1>0 DEF BlockTypes
            <4>2. \A b \in BOOLEAN : \A c : c = b => c \in BOOLEAN OBVIOUS
            <4>. QED BY <3>2, <4>1, <4>2, Zenon
        <3>. QED BY <1>0, <2>2, <3>1, <3>3 DEF BlockTypes
    <2>. QED BY <1>0, <2>1, <2>3 DEF BlocksInv
<1>11. CASE UNCHANGED ssrmVars
    <2>1. UNCHANGED <<leaves, leafMoves, rowNews, groupNews, reads, blocks, refreshPending, refreshSet,
                      ssrmAttached, readFailed>>
        BY <1>11 DEF ssrmVars
    <2>2. BlockTypes' BY <1>0, <2>1 DEF BlockTypes
    <2>3. \A r \in Routes : Quiet(r)' <=> Quiet(r) BY <2>1 DEF Quiet, Grouped
    <2>4. \A r \in Routes : RouteIsCurrent(r) => RouteIsCurrent(r)' BY <2>1, RouteStays
    <2>. QED BY <1>0, <2>1, <2>2, <2>3, <2>4 DEF BlocksInv
<1>. QED BY <1>1, <1>3, <1>4, <1>5, <1>6, <1>7, <1>8, <1>9, <1>10, <1>11 DEF SsrmNext

THEOREM BlocksInvariance == SsrmSpec => []BlocksInv
BY BlocksStart, BlocksStep, PTL DEF SsrmSpec

\* SettledBlocksAreCurrent: for any number of rows, routes, blocks, changes
\* and reads.
THEOREM BlocksSettleCurrent == SsrmSpec => []SettledBlocksAreCurrent
<1>1. BlocksInv => SettledBlocksAreCurrent
    <2>1. ASSUME BlocksInv, reads = <<>>, ssrmAttached, ~readFailed, NEW r \in Routes, Quiet(r),
                 NEW i \in Shown(r)
          PROVE  BlockIsCurrent(r, i)
        <3>1. KeepCurrent(reads, blocks[r], r, ViewOf(r), Children(r)) BY <2>1 DEF BlocksInv, RouteIsCurrent
        <3>2. ~AsksFor(reads, r, i) BY <2>1 DEF AsksFor
        <3>3. i \in BlockIds /\ blocks[r][i] # NotLoaded BY DEF Shown
        <3>. QED BY <3>1, <3>2, <3>3 DEF KeepCurrent, BlockIsCurrent, BlockOf
    <2>2. \A r : groupNews = {} => r \notin RoutesToRefresh(groupNews) BY DEF RoutesToRefresh
    <2>. QED BY <2>1, <2>2 DEF SettledBlocksAreCurrent, Quiet
<1>. QED BY <1>1, BlocksInvariance, PTL

\* SsrmTypeOK.
THEOREM BlocksTypeCorrect == SsrmSpec => []SsrmTypeOK
<1>1. BlocksInv => SsrmTypeOK
    <2>1. SUFFICES ASSUME BlocksInv PROVE SsrmTypeOK OBVIOUS
    <2>2. BlockTypes BY <2>1 DEF BlocksInv
    <2>3. leaves \in [Leaves -> Absent .. MaxLeafMoves + 1] BY <2>2 DEF BlockTypes, Absent
    <2>4. \A n \in DOMAIN reads : reads[n].route \in Routes BY <2>2, ReadFields DEF BlockTypes, IsReads
    <2>5. \A p \in groupNews : Len(p) \in 1 .. Levels
        <3>1. ASSUME NEW l \in Leaves, NEW n \in 1 .. Levels PROVE Len(SubSeq(l, 1, n)) = n
            <4>1. l \in Seq(Nat) /\ Len(l) = Levels + 1 /\ Levels \in Nat BY BlockAssumption
            <4>2. \A i \in 1 .. n : l[i] \in Nat BY <4>1, ElementOfSeq
            <4>3. 1 \in Int /\ n \in Int /\ n - 1 + 1 = n /\ 1 <= n BY <4>1
            <4>. QED BY <4>2, <4>3, SubSeqProperties
        <3>. QED BY <2>2, <3>1 DEF BlockTypes
    <2>. QED BY <2>2, <2>3, <2>4, <2>5 DEF BlockTypes, SsrmTypeOK
<1>. QED BY <1>1, BlocksInvariance, PTL

-----------------------------------------------------------------------------
\* A grid that reads windows and one that reads blocks, once settled, show the
\* rows of the engine in their places (vrm.mjs, ssrm.mjs).
THEOREM GridSettlesCurrent == RowModesSpec => []SettledGridIsCurrent
<1>1. SettledViewportIsCurrent /\ SettledBlocksAreCurrent => SettledGridIsCurrent
  BY DEF SettledGridIsCurrent
<1> QED BY <1>1, ViewportSettlesCurrent, BlocksSettleCurrent, PTL DEF RowModesSpec
=============================================================================
