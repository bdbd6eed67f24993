------------------------- MODULE WebVisualizerProofs -------------------------
(***************************************************************************)
(* Proofs about WebVisualizer, for any number of browsers and whatever     *)
(* they do: no socket leaks, none is closed twice or used afterwards, and  *)
(* after a stop the thread comes nearer to its end with every step.        *)
(***************************************************************************)
EXTENDS WebVisualizer, SequenceTheorems, FiniteSetTheorems, TLAPS

-----------------------------------------------------------------------------
(* Sequences without repetition *)

Unique(s) == \A i, j \in 1 .. Len(s) : s[i] = s[j] => i = j
Lists == {s \in Seq(Conns) : Unique(s)}

LEMMA RangeIs ==
  ASSUME NEW s \in Seq(Conns)
  PROVE  \A c : c \in Range(s) <=> \E i \in 1 .. Len(s) : s[i] = c
<1>1. DOMAIN s = 1 .. Len(s)
  OBVIOUS
<1> QED
  BY <1>1 DEF Range

LEMMA EmptyList == ASSUME NEW s, s = <<>> PROVE s \in Lists /\ Range(s) = {}
<1>1. s \in Seq(Conns) /\ Len(s) = 0
  OBVIOUS
<1>2. \A c : c \notin Range(s)
  <2>1. \A c : c \in Range(s) <=> \E i \in 1 .. Len(s) : s[i] = c
    BY ONLY <1>1, RangeIs
  <2>2. 1 .. Len(s) = {}
    BY <1>1
  <2> QED
    BY ONLY <2>1, <2>2
<1>3. Range(s) = {}
  BY <1>2
<1> QED
  BY <1>1, <1>3 DEF Lists, Unique

LEMMA AppendList ==
  ASSUME NEW s \in Lists, NEW c \in Conns, c \notin Range(s)
  PROVE  Append(s, c) \in Lists /\ Range(Append(s, c)) = Range(s) \cup {c}
<1> DEFINE t == Append(s, c)
<1>1. /\ t \in Seq(Conns) /\ Len(t) = Len(s) + 1 /\ t[Len(s) + 1] = c
      /\ \A i \in 1 .. Len(s) : t[i] = s[i]
  BY AppendProperties DEF Lists
<1>2. Len(s) \in Nat /\ s \in Seq(Conns)
  BY DEF Lists
<1>3. \A i \in 1 .. Len(s) : s[i] # c
  BY <1>2, RangeIs
<1> HIDE DEF t
<1>4. Unique(t)
  BY <1>1, <1>2, <1>3 DEF Lists, Unique
<1>5. \A d : d \in Range(t) <=> d \in Range(s) \/ d = c
  BY <1>1, <1>2, RangeIs
<1> QED
  BY <1>1, <1>4, <1>5 DEF Lists, t

LEMMA TailList ==
  ASSUME NEW s \in Lists, s # <<>>
  PROVE  /\ Tail(s) \in Lists /\ Head(s) \in Range(s) /\ Head(s) \in Conns
         /\ Range(Tail(s)) = Range(s) \ {Head(s)}
<1> DEFINE t == Tail(s)
<1>1. /\ s \in Seq(Conns) /\ t \in Seq(Conns) /\ Len(t) = Len(s) - 1 /\ Head(s) = s[1]
      /\ \A i \in 1 .. Len(t) : t[i] = s[i + 1]
  BY HeadTailProperties DEF Lists
<1>2. Len(s) \in Nat /\ Len(s) >= 1 /\ Unique(s)
  BY DEF Lists
<1> HIDE DEF t
<1>3. Unique(t)
  BY <1>1, <1>2 DEF Unique
<1>4. ASSUME NEW d PROVE d \in Range(t) <=> d \in Range(s) /\ d # s[1]
  <2>1. ASSUME d \in Range(t) PROVE d \in Range(s) /\ d # s[1]
    <3>1. PICK i \in 1 .. Len(t) : t[i] = d
      BY <1>1, <2>1, RangeIs
    <3>2. i + 1 \in 1 .. Len(s) /\ s[i + 1] = d /\ i + 1 # 1 /\ 1 \in 1 .. Len(s)
      BY <1>1, <1>2, <3>1
    <3> QED
      BY <1>1, <1>2, <3>2, RangeIs DEF Unique
  <2>2. ASSUME d \in Range(s), d # s[1] PROVE d \in Range(t)
    <3>1. PICK i \in 1 .. Len(s) : s[i] = d
      BY <1>1, <2>2, RangeIs
    <3>2. i - 1 \in 1 .. Len(t) /\ t[i - 1] = s[(i - 1) + 1] /\ (i - 1) + 1 = i
      BY <1>1, <1>2, <2>2, <3>1
    <3> QED
      BY <1>1, <3>1, <3>2, RangeIs
  <2> QED
    BY <2>1, <2>2
<1>5. Head(s) \in Range(s) /\ Head(s) \in Conns
  BY <1>1, <1>2, RangeIs
<1> QED
  BY <1>1, <1>3, <1>4, <1>5 DEF Lists, t

LEMMA RemoveList ==
  ASSUME NEW s \in Lists, NEW k \in 1 .. Len(s)
  PROVE  /\ RemoveAt(s, k) \in Lists /\ s[k] \in Range(s) /\ s[k] \in Conns
         /\ Len(RemoveAt(s, k)) = Len(s) - 1
         /\ Range(RemoveAt(s, k)) = Range(s) \ {s[k]}
<1> DEFINE t == RemoveAt(s, k)
           a == SubSeq(s, 1, k - 1)
           b == SubSeq(s, k + 1, Len(s))
<1>1. s \in Seq(Conns) /\ Len(s) \in Nat /\ k \in Nat /\ 1 <= k /\ k <= Len(s) /\ Unique(s)
  BY DEF Lists
<1>2. a \in Seq(Conns) /\ Len(a) = k - 1 /\ \A i \in 1 .. k - 1 : a[i] = s[i]
  BY <1>1
<1>3. b \in Seq(Conns) /\ Len(b) = Len(s) - k /\ \A i \in 1 .. Len(s) - k : b[i] = s[k + i]
  BY <1>1
<1>4. /\ t \in Seq(Conns) /\ Len(t) = Len(s) - 1
      /\ \A i \in 1 .. Len(t) : t[i] = IF i < k THEN s[i] ELSE s[i + 1]
  <2>1. t = a \o b
    BY DEF RemoveAt
  <2> HIDE DEF t, a, b
  <2>2. t \in Seq(Conns) /\ Len(t) = Len(a) + Len(b)
    BY <1>2, <1>3, <2>1, ConcatProperties
  <2>3. \A i \in 1 .. Len(a) + Len(b) : t[i] = IF i <= Len(a) THEN a[i] ELSE b[i - Len(a)]
    BY <1>2, <1>3, <2>1, ConcatProperties
  <2>4. Len(t) = Len(s) - 1
    BY <1>1, <1>2, <1>3, <2>2
  <2>5. ASSUME NEW i \in 1 .. Len(t) PROVE t[i] = IF i < k THEN s[i] ELSE s[i + 1]
    <3>1. CASE i < k
      BY <1>1, <1>2, <2>2, <2>3, <3>1
    <3>2. CASE i >= k
      <4>1. i - Len(a) \in 1 .. Len(s) - k /\ k + (i - Len(a)) = i + 1
        BY <1>1, <1>2, <2>4, <3>2
      <4>2. t[i] = b[i - Len(a)]
        BY <1>1, <1>2, <2>2, <2>3, <3>2
      <4>3. b[i - Len(a)] = s[k + (i - Len(a))]
        BY <1>3, <4>1
      <4> QED
        BY <1>1, <3>2, <4>1, <4>2, <4>3
    <3> QED
      BY <1>1, <3>1, <3>2
  <2> QED
    BY <2>2, <2>4, <2>5
<1> HIDE DEF t, a, b
<1>5. Unique(t)
  BY <1>1, <1>4 DEF Unique
<1>6. ASSUME NEW d PROVE d \in Range(t) <=> d \in Range(s) /\ d # s[k]
  <2>1. ASSUME d \in Range(t) PROVE d \in Range(s) /\ d # s[k]
    <3>1. PICK i \in 1 .. Len(t) : t[i] = d
      BY <1>4, <2>1, RangeIs
    <3>2. PICK j \in 1 .. Len(s) : s[j] = d /\ j # k
      BY <1>1, <1>4, <3>1
    <3> QED
      BY <1>1, <3>2, RangeIs DEF Unique
  <2>2. ASSUME d \in Range(s), d # s[k] PROVE d \in Range(t)
    <3>1. PICK i \in 1 .. Len(s) : s[i] = d
      BY <1>1, <2>2, RangeIs
    <3>2. CASE i < k
      BY <1>1, <1>4, <3>1, <3>2, RangeIs
    <3>3. CASE i > k
      <4>1. i - 1 \in 1 .. Len(t) /\ ~(i - 1 < k) /\ (i - 1) + 1 = i
        BY <1>1, <1>4, <3>1, <3>3
      <4>2. t[i - 1] = s[i]
        BY <1>4, <4>1
      <4> QED
        BY <1>4, <3>1, <4>1, <4>2, RangeIs
    <3> QED
      BY <1>1, <2>2, <3>1, <3>2, <3>3
  <2> QED
    BY <2>1, <2>2
<1>7. s[k] \in Range(s) /\ s[k] \in Conns
  BY <1>1, RangeIs
<1> QED
  BY <1>4, <1>5, <1>6, <1>7 DEF Lists, t

\* As many elements as places.
LEMMA CountList == ASSUME NEW s \in Lists PROVE Cardinality(Range(s)) = Len(s)
<1>1. s \in Seq(Conns) /\ Len(s) \in Nat /\ s \in [1 .. Len(s) -> Range(s)]
  BY RangeIs DEF Lists
<1>2. s \in Bijection(1 .. Len(s), Range(s))
  BY <1>1, RangeIs DEF Lists, Unique, Bijection, Injection, Surjection, IsInjective
<1> QED
  BY <1>1, <1>2, FS_CountingElements DEF ExistsBijection

-----------------------------------------------------------------------------
(* The sockets *)

Answering == {"recv", "header", "page"}

\* Where each socket is held: a queued one in the backlog, an open one among
\* the clients or as the one being answered.
Held == \A c \in Conns : /\ sock[c] = "queued" <=> c \in Range(backlog)
                         /\ sock[c] = "open" <=> c \in Range(clients) \/ c = cur

SocketInv ==
  /\ pc \in Answering \cup {"accept", "read", "send", "sleep", "close", "done"}
  /\ clients \in Lists /\ backlog \in Lists
  /\ at \in Nat \ {0}
  /\ sock \in [Conns -> {"new", "queued", "open", "closed"}]
  /\ cur \in Conns \cup {NoConn}
  /\ cur = NoConn <=> pc \notin Answering
  /\ cur \notin Range(clients)
  /\ Held
  /\ pc = "done" => clients = <<>> /\ backlog = <<>>

LEMMA ListRange == ASSUME NEW s \in Lists PROVE Range(s) \subseteq Conns
  BY RangeOfSeq DEF Lists

LEMMA SocketStart == WebInit => SocketInv
<1> SUFFICES ASSUME WebInit PROVE SocketInv
  OBVIOUS
<1>1. clients \in Lists /\ backlog \in Lists /\ Range(clients) = {} /\ Range(backlog) = {}
  BY EmptyList DEF WebInit
<1> QED
  BY <1>1, WebAssumption DEF WebInit, SocketInv, Held, Answering

LEMMA BrowserStep ==
  ASSUME SocketInv, NEW c \in Conns, Browser(c) PROVE SocketInv'
<1>1. CASE Connect(c)
  <2>1. c \notin Range(backlog) /\ c \notin Range(clients) /\ c # cur /\ backlog \in Lists
    BY <1>1 DEF SocketInv, Held, Connect
  <2>2. backlog' \in Lists /\ Range(backlog') = Range(backlog) \cup {c}
    BY <1>1, <2>1, AppendList DEF Connect
  <2>3. sock' = [sock EXCEPT ![c] = "queued"] /\ pc # "done" /\ UNCHANGED server
    BY <1>1 DEF Connect
  <2> QED
    BY <2>1, <2>2, <2>3 DEF SocketInv, Held, server
<1>2. CASE \/ Stall(c) \/ Leave(c) \/ Reset(c) \/ Drain(c)
           \/ \E what \in {"events", "page"} : Ask(c, what)
  BY <1>2 DEF Stall, Leave, Reset, Drain, Ask, SocketInv, Held, server
<1> QED
  BY <1>1, <1>2 DEF Browser

LEMMA LoopStep == ASSUME SocketInv, Loop PROVE SocketInv'
<1>l. clients \in Lists /\ backlog \in Lists /\ Range(clients) \subseteq Conns /\ Range(backlog) \subseteq Conns
  BY ListRange DEF SocketInv
<1>1. CASE Accept
  <2> DEFINE c == Head(backlog)
  <2>1. /\ c \in Range(backlog) /\ c \in Conns
        /\ backlog' \in Lists /\ Range(backlog') = Range(backlog) \ {c}
    BY <1>1, <1>l, TailList DEF Accept
  <2>2. /\ cur' = c /\ sock' = [sock EXCEPT ![c] = "open"] /\ pc' = "recv" /\ cur = NoConn
        /\ UNCHANGED <<clients, at>>
    BY <1>1 DEF Accept, SocketInv, Answering
  <2> HIDE DEF c
  <2>3. c \notin Range(clients) /\ c # NoConn
    BY <2>1, WebAssumption DEF SocketInv, Held
  <2> QED
    BY <2>1, <2>2, <2>3, WebAssumption DEF SocketInv, Held, Answering
<1>2. CASE AcceptNone \/ ReadLog \/ SentAll \/ Sleep
  BY <1>2 DEF AcceptNone, ReadLog, SentAll, Sleep, network, SocketInv, Held, Answering
<1>3. CASE Recv
  <2>1. cur \in Conns /\ cur \notin Range(clients) /\ UNCHANGED <<clients, backlog, at>>
    BY <1>3, WebAssumption DEF Recv, SocketInv, Answering
  <2>2. CASE sock' = Closed(cur) /\ cur' = NoConn /\ pc' = "accept"
    BY <1>l, <2>1, <2>2, WebAssumption DEF Closed, SocketInv, Held, Answering
  <2>3. CASE UNCHANGED <<sock, cur>> /\ pc' \in {"header", "page"} /\ pc = "recv"
    BY <2>1, <2>3 DEF SocketInv, Held, Answering
  <2> QED
    BY <1>3, <2>2, <2>3 DEF Recv
<1>4. CASE SendHeader
  <2>1. /\ cur \in Conns /\ cur \notin Range(clients) /\ UNCHANGED <<backlog, at>>
        /\ cur' = NoConn /\ pc' = "accept"
    BY <1>4, WebAssumption DEF SendHeader, SocketInv, Answering
  <2>2. CASE sock' = Closed(cur) /\ UNCHANGED clients
    BY <1>l, <2>1, <2>2, WebAssumption DEF Closed, SocketInv, Held, Answering
  <2>3. CASE clients' = Append(clients, cur) /\ UNCHANGED sock
    <3>1. clients' \in Lists /\ Range(clients') = Range(clients) \cup {cur}
      BY <1>l, <2>1, <2>3, AppendList
    <3> QED
      BY <1>l, <2>1, <2>3, <3>1, WebAssumption DEF SocketInv, Held, Answering
  <2> QED
    BY <1>4, <2>2, <2>3 DEF SendHeader
<1>5. CASE SendPage
  BY <1>5, <1>l, WebAssumption DEF SendPage, Closed, SocketInv, Held, Answering
<1>6. CASE SendEvent
  <2>1. at \in 1 .. Len(clients) /\ pc' = pc /\ pc = "send" /\ UNCHANGED <<cur, backlog>> /\ cur = NoConn
    BY <1>6, <1>l DEF SendEvent, SocketInv, Answering, Lists
  <2>2. CASE sock' = Closed(clients[at]) /\ clients' = RemoveAt(clients, at) /\ UNCHANGED at
    <3>1. /\ clients' \in Lists /\ Range(clients') = Range(clients) \ {clients[at]}
          /\ clients[at] \in Range(clients) /\ clients[at] \in Conns
      BY <1>l, <2>1, <2>2, RemoveList
    <3> QED
      BY <1>l, <2>1, <2>2, <3>1, WebAssumption DEF Closed, SocketInv, Held, Answering
  <2>3. CASE at' = at + 1 /\ UNCHANGED <<sock, clients>>
    BY <2>1, <2>3 DEF SocketInv, Held, Answering
  <2> QED
    BY <1>6, <2>2, <2>3 DEF SendEvent
<1>7. CASE CloseAll
  <2>1. clients' \in Lists /\ backlog' \in Lists /\ Range(clients') = {} /\ Range(backlog') = {}
    BY <1>7, EmptyList DEF CloseAll
  <2>2. cur = NoConn /\ cur' = NoConn
    BY <1>7 DEF CloseAll, SocketInv, Answering
  <2>3. \A c \in Conns : sock'[c] \in {"new", "closed"}
    BY <1>7, <2>2, WebAssumption DEF CloseAll, SocketInv, Held
  <2> QED
    BY <1>7, <2>1, <2>2, <2>3, WebAssumption DEF CloseAll, SocketInv, Held, Answering
<1> QED
  BY <1>1, <1>2, <1>3, <1>4, <1>5, <1>6, <1>7 DEF Loop

LEMMA SocketStep == SocketInv /\ [Next]_vars => SocketInv'
<1> SUFFICES ASSUME SocketInv, [Next]_vars PROVE SocketInv'
  OBVIOUS
<1>1. CASE Sample \/ Stop \/ UNCHANGED vars
  BY <1>1 DEF Sample, Stop, vars, network, SocketInv, Held
<1> QED
  BY <1>1, BrowserStep, LoopStep DEF Next

LEMMA SocketsHeld == SocketInv => NoLeak
<1> SUFFICES ASSUME SocketInv PROVE NoLeak
  OBVIOUS
<1>1. Range(clients) \subseteq Conns /\ Cardinality(Range(clients)) = Len(clients)
  BY ListRange, CountList DEF SocketInv
<1>2. ASSUME NEW c
      PROVE  c \in {d \in Conns : sock[d] = "open"} <=>
                 c \in Range(clients) \cup (IF cur = NoConn THEN {} ELSE {cur})
  BY <1>1, WebAssumption DEF SocketInv, Held
<1>3. {c \in Conns : sock[c] = "open"} =
          Range(clients) \cup (IF cur = NoConn THEN {} ELSE {cur})
  BY <1>2
<1>4. ASSUME pc = "done", NEW c \in Conns PROVE sock[c] \in {"new", "closed"}
  <2>1. Range(clients) = {} /\ Range(backlog) = {} /\ cur = NoConn
    BY <1>4, EmptyList DEF SocketInv, Answering
  <2> QED
    BY <2>1, WebAssumption DEF SocketInv, Held
<1> QED
  BY <1>1, <1>3, <1>4 DEF SocketInv, NoLeak

\* No descriptor leaks and none is used after its close, on any of the paths of
\* loop() that close one, for any number of browsers.
THEOREM SocketsKept == Spec => []NoLeak
  BY SocketStart, SocketStep, SocketsHeld, PTL DEF Spec

-----------------------------------------------------------------------------
(* Types: the sockets' as above, and what the browsers and send make of theirs *)

PeerType == /\ running \in BOOLEAN /\ fresh \in BOOLEAN
            /\ divider \in 0 .. Divider - 1
            /\ peer \in [Conns -> {"reading", "stalled", "left", "reset"}]
            /\ asked \in [Conns -> {"nothing", "events", "page"}]
            /\ buf \in [Conns -> 0 .. Room]

\* Whatever is sent, a buffer holds what it has room for.
LEMMA SentFits ==
  ASSUME buf \in [Conns -> 0 .. Room], NEW c \in Conns, NEW units \in Nat
  PROVE  Sent(c, units) \in [Conns -> 0 .. Room]
<1> DEFINE all == buf[c] + units
<1>1. all \in Nat /\ Room \in Nat
  BY WebAssumption
<1>2. Min({all, Room}) \in {all, Room} /\ Min({all, Room}) <= Room /\ Min({all, Room}) \in Nat
  <2> HIDE DEF all
  <2>1. \E x \in {all, Room} : \A y \in {all, Room} : x <= y
    BY <1>1
  <2>2. Min({all, Room}) \in {all, Room} /\ \A y \in {all, Room} : Min({all, Room}) <= y
    BY <2>1 DEF Min
  <2> QED
    BY <1>1, <2>2
<1>3. Sent(c, units) = [buf EXCEPT ![c] = Min({all, Room})]
  BY DEF Sent
<1> QED
  BY <1>1, <1>2, <1>3

LEMMA PeerStart == WebInit => PeerType
<1> SUFFICES ASSUME WebInit PROVE PeerType
  OBVIOUS
<1>1. Room \in Nat /\ 0 \in 0 .. Room /\ 0 \in 0 .. Divider - 1
  BY WebAssumption
<1>2. running \in BOOLEAN /\ fresh \in BOOLEAN
  BY DEF WebInit
<1>3. divider = 0 /\ buf = [c \in Conns |-> 0] /\ buf \in [Conns -> 0 .. Room]
  BY <1>1 DEF WebInit
<1>4. /\ peer \in [Conns -> {"reading", "stalled", "left", "reset"}]
      /\ asked \in [Conns -> {"nothing", "events", "page"}]
  BY DEF WebInit
<1> QED
  BY <1>1, <1>2, <1>3, <1>4 DEF PeerType

LEMMA PeerStep == ASSUME SocketInv, PeerType, [Next]_vars PROVE PeerType'
<1>r. Room \in Nat /\ Divider \in Nat \ {0}
  BY WebAssumption
<1>1. ASSUME NEW c \in Conns, Browser(c) PROVE PeerType'
  <2>1. CASE Connect(c) \/ \E what \in {"events", "page"} : Ask(c, what)
    BY <2>1 DEF Connect, Ask, server, PeerType
  <2>2. CASE Stall(c) \/ Leave(c) \/ Reset(c)
    BY <2>2 DEF Stall, Leave, Reset, server, PeerType
  <2>3. CASE Drain(c)
    BY <1>r, <2>3 DEF Drain, server, PeerType
  <2> QED
    BY <1>1, <2>1, <2>2, <2>3 DEF Browser
<1>2. CASE SendHeader \/ SendPage \/ SendEvent
  <2>1. /\ UNCHANGED <<running, fresh, divider, peer, asked>>
        /\ pc \in Answering \cup {"send"}
    BY <1>2 DEF SendHeader, SendPage, SendEvent, Answering
  <2>2. buf' \in [Conns -> 0 .. Room]
    <3>1. CASE SendHeader \/ SendPage
      <4>1. cur \in Conns
        BY <3>1, WebAssumption DEF SendHeader, SendPage, SocketInv, Answering
      <4>2. buf' \in {buf, Sent(cur, 1), Sent(cur, Room)}
        BY <3>1 DEF SendHeader, SendPage
      <4> QED
        BY <1>r, <4>1, <4>2, SentFits DEF PeerType
    <3>2. CASE SendEvent
      <4>1. at \in 1 .. Len(clients) /\ clients \in Seq(Conns)
        BY <3>2 DEF SendEvent, SocketInv, Lists
      <4>2. clients[at] \in Conns
        BY <4>1
      <4>3. buf' \in {buf, Sent(clients[at], EventUnits)}
        BY <3>2 DEF SendEvent
      <4> QED
        BY <4>2, <4>3, SentFits DEF PeerType, EventUnits
    <3> QED
      BY <1>2, <3>1, <3>2
  <2> QED
    BY <2>1, <2>2 DEF PeerType
<1>3. CASE ReadLog
  <2>1. fresh' = FALSE /\ UNCHANGED <<running, peer, asked, buf>>
    BY <1>3 DEF ReadLog, network
  <2>2. \/ divider' \in {0, divider}
        \/ divider' = divider + 1 /\ ~(divider + 1 >= Divider)
    BY <1>3 DEF ReadLog
  <2>3. divider' \in 0 .. Divider - 1
    BY <1>r, <2>2 DEF PeerType
  <2> QED
    BY <2>1, <2>3 DEF PeerType
<1>4. CASE Accept \/ AcceptNone \/ Recv \/ SentAll \/ Sleep \/ CloseAll
  BY <1>4 DEF Accept, AcceptNone, Recv, SentAll, Sleep, CloseAll, network, PeerType
<1>5. CASE Sample \/ Stop \/ UNCHANGED vars
  BY <1>5 DEF Sample, Stop, vars, network, PeerType
<1> QED
  BY <1>1, <1>2, <1>3, <1>4, <1>5 DEF Next, Loop

\* Type correctness: the divider stays below its limit, and a send buffer never
\* holds more than it has room for.
THEOREM TypeCorrect == Spec => []TypeOK
<1>1. SocketInv /\ PeerType => TypeOK
  BY DEF SocketInv, PeerType, TypeOK, Answering, Lists
<1>2. PeerType /\ SocketInv /\ [Next]_vars => PeerType'
  BY PeerStep
<1> QED
  BY <1>1, <1>2, SocketStart, SocketStep, PeerStart, PTL DEF Spec

-----------------------------------------------------------------------------
(* The way to the end *)

\* The iterator is never more than one past the last client.
InList == pc = "send" => at <= Len(clients) + 1

LEMMA InListStep == SocketInv /\ InList /\ [Next]_vars => InList'
<1> SUFFICES ASSUME SocketInv, InList, [Next]_vars PROVE InList'
  OBVIOUS
<1>1. Len(clients) \in Nat /\ at \in Nat
  BY DEF SocketInv, Lists
<1>2. CASE ReadLog
  BY <1>1, <1>2 DEF ReadLog, InList
<1>3. CASE SendEvent
  <2>1. at <= Len(clients)
    BY <1>3 DEF SendEvent
  <2>2. CASE clients' = RemoveAt(clients, at) /\ at' = at
    <3>1. at \in 1 .. Len(clients)
      BY <1>1, <2>1 DEF SocketInv
    <3>2. Len(clients') = Len(clients) - 1
      BY <2>2, <3>1, RemoveList DEF SocketInv
    <3> QED
      BY <1>1, <2>1, <2>2, <3>2 DEF InList
  <2>3. CASE clients' = clients /\ at' = at + 1
    BY <1>1, <2>1, <2>3 DEF InList
  <2> QED
    BY <1>3, <2>2, <2>3 DEF SendEvent
<1>4. CASE Accept \/ AcceptNone \/ Recv \/ SendHeader \/ SendPage \/ SentAll \/ Sleep \/ CloseAll
  BY <1>4 DEF Accept, AcceptNone, Recv, SendHeader, SendPage, SentAll, Sleep, CloseAll, InList
<1>5. CASE \/ Sample \/ Stop \/ UNCHANGED vars
           \/ \E c \in Conns : Browser(c)
  BY <1>5 DEF Sample, Stop, vars, Browser, Connect, Stall, Leave, Reset, Drain, Ask, server, InList
<1> QED
  BY <1>2, <1>3, <1>4, <1>5 DEF Next, Loop

Waiting == {c \in Conns : sock[c] \in {"new", "queued"}}

\* Nothing but Accept takes a connection out of those that wait.
LEMMA WaitingStep ==
  ASSUME SocketInv, [Next]_vars
  PROVE  IF Accept THEN \E c \in Waiting : Waiting' = Waiting \ {c}
         ELSE pc # "close" => Waiting' = Waiting
<1>1. CASE Accept
  <2> DEFINE c == Head(backlog)
  <2>1. c \in Range(backlog) /\ c \in Conns /\ sock' = [sock EXCEPT ![c] = "open"]
    BY <1>1, TailList DEF Accept, SocketInv
  <2> HIDE DEF c
  <2>2. sock[c] = "queued"
    BY <2>1 DEF SocketInv, Held
  <2>3. c \in Waiting /\ Waiting' = Waiting \ {c}
    BY <2>1, <2>2 DEF Waiting, SocketInv
  <2> QED
    BY <1>1, <2>3
<1>2. ASSUME NEW c \in Conns, sock[c] = "open", sock' = Closed(c) PROVE Waiting' = Waiting
  BY <1>2 DEF Waiting, Closed, SocketInv
<1>3. CASE Recv \/ SendHeader \/ SendPage
  <2>1. cur \in Conns /\ sock[cur] = "open" /\ (sock' = sock \/ sock' = Closed(cur)) /\ pc # "accept"
    BY <1>3, WebAssumption DEF Recv, SendHeader, SendPage, SocketInv, Held, Answering
  <2>2. ~Accept
    BY <2>1 DEF Accept
  <2> QED
    BY <1>2, <2>1, <2>2 DEF Waiting
<1>4. CASE SendEvent
  <2>1. at \in 1 .. Len(clients) /\ ~Accept
    BY <1>4 DEF SendEvent, Accept, SocketInv, Lists
  <2>2. clients[at] \in Conns /\ sock[clients[at]] = "open"
    BY <2>1, RemoveList DEF SocketInv, Held
  <2>3. sock' = sock \/ sock' = Closed(clients[at])
    BY <1>4 DEF SendEvent
  <2> QED
    BY <1>2, <2>1, <2>2, <2>3 DEF Waiting
<1>5. CASE ~Accept /\ (AcceptNone \/ ReadLog \/ SentAll \/ Sleep \/ Sample \/ Stop \/ UNCHANGED vars)
  BY <1>5 DEF AcceptNone, ReadLog, SentAll, Sleep, Sample, Stop, network, vars, Waiting
<1>6. ASSUME NEW c \in Conns, Browser(c), ~Accept PROVE Waiting' = Waiting
  <2>1. CASE Connect(c)
    BY <2>1 DEF Connect, Waiting, SocketInv
  <2>2. CASE ~Connect(c)
    BY <1>6, <2>2 DEF Browser, Stall, Leave, Reset, Drain, Ask, Waiting
  <2> QED
    BY <2>1, <2>2
<1>7. CASE CloseAll
  BY <1>7 DEF CloseAll, Accept
<1> QED
  BY <1>1, <1>3, <1>4, <1>5, <1>6, <1>7 DEF Next, Loop

LEMMA ComingCount ==
  ASSUME SocketInv, [Next]_vars
  PROVE  /\ Coming \in Nat
         /\ Accept => Coming' = Coming - 1
         /\ ~Accept /\ pc # "close" => Coming' = Coming
<1>1. IsFiniteSet(Waiting) /\ Coming = Cardinality(Waiting) /\ Coming' = Cardinality(Waiting')
  BY WebAssumption, FS_Subset DEF Waiting, Coming
<1>2. Coming \in Nat
  BY <1>1, FS_CardinalityType
<1>3. CASE Accept
  <2>1. PICK c \in Waiting : Waiting' = Waiting \ {c}
    BY <1>3, WaitingStep
  <2> QED
    BY <1>1, <1>2, <1>3, <2>1, FS_RemoveElement
<1>4. CASE ~Accept
  BY <1>1, <1>2, <1>4, WaitingStep
<1> QED
  BY <1>3, <1>4

LEMMA StepsLeftIs ==
  /\ \A n, u : StepsLeft("accept", n, u) = 0 + 3 * n + Cardinality(Conns) + 5
  /\ \A n, u : StepsLeft("page", n, u) = 1 + 3 * n + Cardinality(Conns) + 5
  /\ \A n, u : StepsLeft("header", n, u) = 1 + 3 * n + Cardinality(Conns) + 5
  /\ \A n, u : StepsLeft("recv", n, u) = 2 + 3 * n + Cardinality(Conns) + 5
  /\ \A n, u : StepsLeft("read", n, u) = Cardinality(Conns) + 4
  /\ \A n, u : StepsLeft("send", n, u) = u + 3
  /\ \A n, u : StepsLeft("sleep", n, u) = 2
  /\ \A n, u : StepsLeft("close", n, u) = 1
  /\ \A n, u : StepsLeft("done", n, u) = 0
BY DEF StepsLeft

\* There are no more clients than connections.
LEMMA ClientsBound ==
  ASSUME SocketInv
  PROVE  /\ Len(clients) \in Nat /\ Cardinality(Conns) \in Nat
         /\ Len(clients) <= Cardinality(Conns)
<1>1. Range(clients) \subseteq Conns /\ Cardinality(Range(clients)) = Len(clients)
  BY ListRange, CountList DEF SocketInv
<1>2. Cardinality(Range(clients)) <= Cardinality(Conns)
  BY <1>1, WebAssumption, FS_Subset
<1> QED
  BY <1>1, <1>2, WebAssumption, FS_CardinalityType DEF SocketInv, Lists

Nearer == StepsLeft(pc', Coming', Unsent') < StepsLeft(pc, Coming, Unsent)

LEMMA LoopNearer == ASSUME SocketInv, InList, ~running, Loop PROVE Nearer
<1> DEFINE C == Cardinality(Conns)
<1>1. Len(clients) \in Nat /\ C \in Nat /\ Len(clients) <= C /\ at \in Nat
  BY ClientsBound DEF SocketInv
<1>2. [Next]_vars
  BY DEF Next
<1>3. Coming \in Nat /\ (Accept => Coming' = Coming - 1) /\ (~Accept /\ pc # "close" => Coming' = Coming)
  BY <1>2, ComingCount
<1> HIDE DEF C
<1>s. /\ \A n, u : StepsLeft("accept", n, u) = 0 + 3 * n + C + 5
      /\ \A n, u : StepsLeft("page", n, u) = 1 + 3 * n + C + 5
      /\ \A n, u : StepsLeft("header", n, u) = 1 + 3 * n + C + 5
      /\ \A n, u : StepsLeft("recv", n, u) = 2 + 3 * n + C + 5
      /\ \A n, u : StepsLeft("read", n, u) = C + 4
      /\ \A n, u : StepsLeft("send", n, u) = u + 3
      /\ \A n, u : StepsLeft("sleep", n, u) = 2
      /\ \A n, u : StepsLeft("close", n, u) = 1
      /\ \A n, u : StepsLeft("done", n, u) = 0
  BY StepsLeftIs DEF C
<1>4. CASE Accept
  <2>1. pc = "accept" /\ pc' = "recv" /\ Coming' = Coming - 1
    BY <1>3, <1>4 DEF Accept
  <2> QED
    BY <1>1, <1>3, <1>s, <2>1 DEF Nearer
<1>5. CASE AcceptNone
  <2>1. pc = "accept" /\ pc' = "read"
    BY <1>5 DEF AcceptNone
  <2> QED
    BY <1>1, <1>3, <1>s, <2>1 DEF Nearer
<1>6. CASE Recv
  <2>1. pc = "recv" /\ pc' \in {"accept", "header", "page"} /\ Coming' = Coming
    BY <1>3, <1>6 DEF Recv, Accept
  <2> QED
    BY <1>1, <1>3, <1>s, <2>1 DEF Nearer
<1>7. CASE SendHeader \/ SendPage
  <2>1. pc \in {"header", "page"} /\ pc' = "accept" /\ Coming' = Coming
    BY <1>3, <1>7 DEF SendHeader, SendPage, Accept
  <2> QED
    BY <1>1, <1>3, <1>s, <2>1 DEF Nearer
<1>8. CASE ReadLog
  <2>1. CASE pc' = "sleep"
    BY <1>1, <1>8, <1>s, <2>1 DEF ReadLog, Nearer
  <2>2. CASE pc' = "send" /\ at' = 1
    <3>1. Unsent' = Len(clients) /\ pc = "read"
      BY <1>1, <1>8, <2>2 DEF Unsent, ReadLog
    <3> QED
      BY <1>1, <1>s, <2>2, <3>1 DEF Nearer
  <2> QED
    BY <1>8, <2>1, <2>2 DEF ReadLog
<1>9. CASE SendEvent
  <2>1. pc = "send" /\ pc' = "send" /\ at <= Len(clients)
    BY <1>9 DEF SendEvent
  <2>2. Unsent' = Unsent - 1 /\ Unsent \in Nat
    <3>1. CASE clients' = RemoveAt(clients, at) /\ at' = at
      <4>1. at \in 1 .. Len(clients)
        BY <1>1, <2>1 DEF SocketInv
      <4>2. Len(clients') = Len(clients) - 1
        BY <3>1, <4>1, RemoveList DEF SocketInv
      <4> QED
        BY <1>1, <2>1, <3>1, <4>2 DEF Unsent
    <3>2. CASE clients' = clients /\ at' = at + 1
      BY <1>1, <2>1, <3>2 DEF Unsent
    <3> QED
      BY <1>9, <3>1, <3>2 DEF SendEvent
  <2> QED
    BY <1>s, <2>1, <2>2 DEF Nearer
<1>10. CASE SentAll
  <2>1. pc = "send" /\ pc' = "sleep" /\ Unsent = 0
    BY <1>1, <1>10 DEF SentAll, InList, Unsent
  <2> QED
    BY <1>s, <2>1 DEF Nearer
<1>11. CASE Sleep
  BY <1>11, <1>s DEF Sleep, Nearer
<1>12. CASE CloseAll
  BY <1>12, <1>s DEF CloseAll, Nearer
<1> QED
  BY <1>4, <1>5, <1>6, <1>7, <1>8, <1>9, <1>10, <1>11, <1>12 DEF Loop

LEMMA OthersKeep ==
  ASSUME SocketInv, [Next]_vars, ~Loop, ~running PROVE UNCHANGED <<server, Coming>>
<1>1. UNCHANGED server
  BY DEF Next, Sample, Stop, Browser, Connect, Stall, Leave, Reset, Drain, Ask, vars, server
<1>2. ~Accept
  BY DEF Loop
<1>3. CASE pc # "close"
  BY <1>1, <1>2, <1>3, ComingCount
<1>4. CASE pc = "close"
  <2>1. Waiting' = Waiting
    <3>1. CASE \E c \in Conns : Connect(c)
      BY <3>1 DEF Connect, Waiting, SocketInv
    <3>2. CASE ~ \E c \in Conns : Connect(c)
      BY <3>2 DEF Next, Sample, Stop, Browser, Stall, Leave, Reset, Drain, Ask, vars, network, Waiting
    <3> QED
      BY <3>1, <3>2
  <2> QED
    BY <1>1, <2>1 DEF Coming, Waiting
<1> QED
  BY <1>3, <1>4

\* After the stop the thread has a number of steps to go that the connections
\* bound, and neither it nor a browser ever adds to them.
THEOREM StopIsBounded == Spec => StopsSoon
<1>1. WebInit => InList
  BY DEF WebInit, InList
<1>2. SocketInv /\ InList /\ [Next]_vars =>
        [~running => Nearer \/ UNCHANGED <<server, Coming>>]_vars
  BY LoopNearer, OthersKeep
<1>3. [~running => Nearer \/ UNCHANGED <<server, Coming>>]_vars =>
        [~running => \/ StepsLeft(pc', Coming', Unsent') < StepsLeft(pc, Coming, Unsent)
                     \/ UNCHANGED <<server, Coming>>]_vars
  BY DEF Nearer
<1> QED
  BY <1>1, <1>2, <1>3, SocketStart, SocketStep, InListStep, PTL DEF Spec, StopsSoon
=============================================================================
