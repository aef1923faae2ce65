---------------------------- MODULE LiveFeedProofs -----------------------------
(***************************************************************************)
(* Theorems about LiveFeed: what a chart's list can contain, who a message *)
(* is delivered to, what becomes of a candle that was sent, and that the   *)
(* client implements SubRegistry, for any number of charts, keys, candles, *)
(* setting changes and lost connections.                                   *)
(***************************************************************************)
EXTENDS LiveFeed, Induction, TLAPS

--------------------------------------------------------------------------------
(* Sequences.                                                                   *)

\* The last n elements of a sequence are its elements in their order.
LEMMA LastNFacts ==
    ASSUME NEW S, NEW s \in Seq(S), NEW n \in Nat \ {0}
    PROVE  /\ LastN(s, n) \in Seq(S)
           /\ Len(LastN(s, n)) = IF Len(s) > n THEN n ELSE Len(s)
           /\ \A i \in 1 .. Len(LastN(s, n)) : LastN(s, n)[i] = s[i + (Len(s) - Len(LastN(s, n)))]
<1> DEFINE m == IF Len(s) > n THEN Len(s) - n + 1 ELSE 1
<1>1. LastN(s, n) = SubSeq(s, m, Len(s))
  BY DEF LastN
<1>2. m \in 1 .. Len(s) + 1 /\ Len(s) \in Nat
  OBVIOUS
<1>3. /\ SubSeq(s, m, Len(s)) \in Seq(S) /\ Len(SubSeq(s, m, Len(s))) = Len(s) - m + 1
      /\ \A i \in 1 .. Len(s) - m + 1 : SubSeq(s, m, Len(s))[i] = s[m + i - 1]
  <2> HIDE DEF m
  <2> QED
    BY <1>2
<1>4. Len(s) - m + 1 = IF Len(s) > n THEN n ELSE Len(s)
  BY <1>2
<1> HIDE DEF m
<1>5. Len(LastN(s, n)) = Len(s) - m + 1 /\ Len(s) - Len(LastN(s, n)) = m - 1
  BY <1>1, <1>2, <1>3
<1>6. \A i \in 1 .. Len(s) - m + 1 : i + (m - 1) = m + i - 1
  BY <1>2
<1> QED
  BY <1>1, <1>3, <1>4, <1>5, <1>6

\* Every element of a finite set is in its sequence, once.
LEMMA SetToSeqFacts ==
    ASSUME NEW S, IsFiniteSet(S)
    PROVE  /\ Cardinality(S) \in Nat /\ SetToSeq(S) \in Seq(S) /\ Len(SetToSeq(S)) = Cardinality(S)
           /\ \A x \in S : \E i \in 1 .. Cardinality(S) : SetToSeq(S)[i] = x
<1> DEFINE n == Cardinality(S)
<1>1. n \in Nat /\ ExistsBijection(1 .. n, S)
  BY FS_CardinalityType
<1> HIDE DEF n
<1>2. \E f \in [1 .. n -> S] : IsInjective(f)
  BY <1>1 DEF ExistsBijection, Bijection, Injection, Surjection, IsInjective
<1>3. SetToSeq(S) \in [1 .. n -> S] /\ IsInjective(SetToSeq(S))
  BY <1>2 DEF SetToSeq, n
<1>4. SetToSeq(S) \in Injection(1 .. n, S)
  BY <1>3 DEF Injection
<1>5. IsFiniteSet(1 .. n) /\ Cardinality(1 .. n) = n
  BY <1>1, FS_Interval
<1>6. SetToSeq(S) \in Surjection(1 .. n, S)
  BY <1>4, <1>5, FS_Injection DEF n
<1>7. \A x \in S : \E i \in 1 .. n : SetToSeq(S)[i] = x
  BY <1>6 DEF Surjection
<1> QED
  BY <1>1, <1>3, <1>7 DEF n

\* The parts of a candle.
LEMMA CandleFields ==
    ASSUME NEW b \in Candles
    PROVE  b.key \in Keys /\ b.t \in Times /\ b.t \in Nat /\ b.t >= 1 /\ b.final \in BOOLEAN /\ b # None
  BY LiveFeedAssumption DEF Candles, Times

\* The first, the last and the elements of a sequence of candles.
LEMMA CandleSequence ==
    ASSUME NEW s \in Seq(Candles)
    PROVE  /\ Len(s) \in Nat /\ DOMAIN s = 1 .. Len(s)
           /\ \A i \in 1 .. Len(s) : s[i] \in Candles /\ s[i].t \in Nat
           /\ s # <<>> => /\ Len(s) >= 1 /\ 1 \in 1 .. Len(s) /\ Len(s) \in 1 .. Len(s)
                          /\ Head(s) = s[1] /\ Last(s) = s[Len(s)]
<1>1. /\ Len(s) \in Nat /\ DOMAIN s = 1 .. Len(s) /\ \A i \in 1 .. Len(s) : s[i] \in Candles
      /\ s # <<>> => Len(s) >= 1 /\ Head(s) = s[1]
  OBVIOUS
<1>2. Last(s) = s[Len(s)]
  BY DEF Last
<1> QED
  BY <1>1, <1>2, CandleFields

\* Candles of one key; in strict order of time, except at the base compression.
InOrder(s, k) ==
    /\ \A i \in DOMAIN s : s[i].key = k
    /\ k \notin Base => \A i, j \in DOMAIN s : i < j => s[i].t < s[j].t

\* An answer of ClickHouse is such a list of what is stored.
LEMMA PageFacts ==
    ASSUME NEW k \in Keys, NEW dates \in SUBSET Times, NEW p \in Pages(k, dates)
    PROVE  /\ p \in Seq(Candles) /\ InOrder(p, k)
           /\ \A i \in DOMAIN p : p[i].t \in dates
<1>1. PICK n \in 0 .. PageLen : p \in [1 .. n -> {Complete(k, t) : t \in dates}]
  BY DEF Pages
<1>2. n \in Nat /\ DOMAIN p = 1 .. n
  BY <1>1, LiveFeedAssumption
<1>3. \A t \in dates : Complete(k, t) \in Candles /\ Complete(k, t).key = k /\ Complete(k, t).t = t
  BY DEF Complete, Candles
<1>4. \A i \in 1 .. n : p[i] \in Candles /\ p[i].key = k /\ p[i].t \in dates
  BY <1>1, <1>3
<1>5. p \in Seq(Candles)
  BY <1>1, <1>2, <1>4
<1>6. \A i, j \in DOMAIN p : i < j => p[i].t < p[j].t
  BY DEF Pages
<1> QED
  BY <1>2, <1>4, <1>5, <1>6 DEF InOrder

\* So is any answer to a load: newest first it comes only at the base compression.
LEMMA AnswerFacts ==
    ASSUME NEW k \in Keys, NEW dates \in SUBSET Times, NEW p \in Answers(k, dates)
    PROVE  p \in Seq(Candles) /\ InOrder(p, k)
<1>1. CASE p \in Pages(k, dates)
  BY <1>1, PageFacts
<1>2. ASSUME k \in Base, NEW q \in Pages(k, dates), p = Reverse(q)
      PROVE  p \in Seq(Candles) /\ InOrder(p, k)
  <2>1. q \in Seq(Candles) /\ \A i \in DOMAIN q : q[i].key = k
    BY PageFacts DEF InOrder
  <2> DEFINE n == Len(q)
  <2>2. n \in Nat /\ DOMAIN q = 1 .. n /\ p = [i \in 1 .. n |-> q[n - i + 1]]
    BY <1>2, <2>1 DEF Reverse
  <2>3. \A i \in 1 .. n : q[i] \in Candles /\ q[i].key = k
    BY <2>1, <2>2
  <2> HIDE DEF n
  <2>4. \A i \in 1 .. n : n - i + 1 \in 1 .. n
    BY <2>2
  <2>5. DOMAIN p = 1 .. n /\ \A i \in 1 .. n : p[i] \in Candles /\ p[i].key = k
    BY <2>2, <2>3, <2>4
  <2>6. p \in Seq(Candles)
    BY <2>2, <2>3, <2>4
  <2> QED
    BY <1>2, <2>5, <2>6 DEF InOrder
<1> QED
  BY <1>1, <1>2 DEF Answers

--------------------------------------------------------------------------------
(* Types, in five parts.                                                        *)

Command == [op : {"subscribe", "unsubscribe"}, key : Keys]
Load == [key : Keys, active : BOOLEAN, answered : BOOLEAN, page : Seq(Candles)]
Older == [key : Keys, before : Times]

ClientType ==
    /\ ws \in {"none", "connecting", "open", "lost"} /\ timer \in BOOLEAN
    /\ delay \in {1, 2, 4, 8, 10} /\ subs \in [Keys -> Charts \union {None}]
    /\ key \in [Charts -> Keys]

ConnectionType ==
    /\ asked \subseteq Keys /\ served \subseteq asked /\ commands \in Seq(Command)
    /\ wire \in Seq(Candles) /\ Len(wire) <= MaxWire

MarketType ==
    /\ clock \in Start .. MaxTime /\ hub \in BOOLEAN
    /\ traded \subseteq Series /\ closing \subseteq Series /\ telling \subseteq Keys
    /\ closing # {} => clock > Start
    /\ rows \in [Series -> SUBSET (1 .. clock)]

ChartType ==
    /\ loads \in [Shown -> SUBSET Load] /\ more \in [Shown -> Older \union {None}]
    /\ list \in [Shown -> Seq(Candles)] /\ \A c \in Shown : Len(list[c]) <= MaxCandles
    /\ buffer \in [Shown -> Candles \union {None}]

HistoryType ==
    /\ switches \in 0 .. MaxSwitches /\ troubles \in 0 .. MaxTroubles
    /\ shared \subseteq Charts /\ spoiled \subseteq Shown /\ due \in [Shown -> SUBSET Times]

Types == ClientType /\ ConnectionType /\ MarketType /\ ChartType /\ HistoryType

\* The steps by whom they are made.
ClientStep == OnOpen \/ OnClose \/ Reconnect \/ Break \/ Deliver

ServerStep ==
    \/ ServerRead \/ HubStops \/ Boundary
    \/ \E z \in Series : Trade(z) \/ CloserFlush(z)
    \/ \E k \in Keys : ServerUpdate(k) \/ ServerUpdateLate(k) \/ Announce(k)

ChartStep(c) == ServerAnswer(c) \/ LoadDone(c) \/ LoadMore(c) \/ MoreDone(c) \/ Flush(c)

\* Every step is a change of settings, a step of a chart, of the client or of the server.
LEMMA StepsAre ==
    Next <=> \/ ClientStep \/ ServerStep
             \/ \E c \in Charts, k \in Keys : SwitchKey(c, k)
             \/ \E c \in Shown : ChartStep(c)
  BY DEF Next, ClientStep, ServerStep, ChartStep

\* What none of them touches.
LEMMA ClientStepLeaves ==
    ASSUME ClientStep
    PROVE  /\ UNCHANGED <<subs, clock, hub, traded, closing, telling, rows>>
           /\ UNCHANGED <<loads, more, list, key, switches, shared, spoiled>>
  BY DEF ClientStep, OnOpen, OnClose, Reconnect, Break, Deliver, client, server, connection,
         market, data, history

\* What the steps of the server leave alone.
LEMMA ServerStepLeaves ==
    ASSUME ServerStep
    PROVE  /\ UNCHANGED <<ws, timer, delay, subs, key, switches, troubles, shared, spoiled>>
           /\ UNCHANGED <<loads, more, list, buffer>>
  BY DEF ServerStep, ServerRead, HubStops, Boundary, Trade, CloserFlush, ServerUpdate, ServerUpdateLate,
         Announce, client, data, history

\* Only a command that is read changes what was asked for.
LEMMA OtherServerStepLeaves ==
    ASSUME ServerStep, ~ServerRead
    PROVE  UNCHANGED <<commands, served, asked>>
  BY DEF ServerStep, HubStops, Boundary, Trade, CloserFlush, ServerUpdate, ServerUpdateLate, Announce,
         connection

\* What the steps of a chart leave alone.
LEMMA ChartStepLeaves ==
    ASSUME NEW c \in Shown, ChartStep(c)
    PROVE  /\ UNCHANGED <<ws, timer, delay, subs, key, switches, troubles, shared>>
           /\ UNCHANGED <<commands, served, asked, wire>>
           /\ UNCHANGED <<clock, hub, traded, closing, telling, rows>>
  BY DEF ChartStep, ServerAnswer, LoadDone, LoadMore, MoreDone, Flush, client, server, connection, market,
         history

\* The numbers the bounds are, and what the clock can show.
LEMMA ClockType ==
    ASSUME MarketType
    PROVE  /\ clock \in Times /\ clock \in Nat /\ clock >= 1 /\ clock <= MaxTime
           /\ MaxTime \in Nat /\ Start \in Nat /\ Start >= 1
           /\ \A n \in Nat : n >= 1 /\ n <= clock => n \in Times
           /\ closing # {} => clock - 1 \in Times
           /\ \A z \in Series : rows[z] \subseteq Times
  BY LiveFeedAssumption DEF MarketType, Times

\* The server's steps send one candle of the key they are about, or none.
LEMMA ServerStepSends ==
    ASSUME Types, ServerStep
    PROVE  UNCHANGED <<wire, due>> \/ \E m \in Candles : Sent(m)
<1>1. ASSUME NEW k \in Keys, ServerUpdate(k) PROVE \E m \in Candles : Sent(m)
  <2>1. Growing(k, clock) \in Candles
    BY ClockType DEF Types, Growing, Candles
  <2> QED
    BY <1>1, <2>1 DEF ServerUpdate
<1>2. ASSUME NEW k \in Keys, ServerUpdateLate(k) PROVE \E m \in Candles : Sent(m)
  <2>1. closing # {}
    BY <1>2 DEF ServerUpdateLate
  <2>2. Growing(k, clock - 1) \in Candles
    BY <2>1, ClockType DEF Types, Growing, Candles
  <2> QED
    BY <1>2, <2>2 DEF ServerUpdateLate
<1>3. ASSUME NEW k \in Keys, Announce(k) PROVE \E m \in Candles : Sent(m)
  <2>1. Complete(k, clock) \in Candles
    BY ClockType DEF Types, Complete, Candles
  <2> QED
    BY <1>3, <2>1 DEF Announce
<1>4. ASSUME ServerRead \/ HubStops \/ Boundary \/ \E z \in Series : Trade(z) \/ CloserFlush(z)
      PROVE  UNCHANGED <<wire, due>>
  BY <1>4 DEF ServerRead, HubStops, Boundary, Trade, CloserFlush, connection, history
<1> QED
  BY <1>1, <1>2, <1>3, <1>4 DEF ServerStep


\* A list is merged with a candle of the buffer without growing past its limit.
LEMMA MergedType ==
    ASSUME NEW s \in Seq(Candles), Len(s) <= MaxCandles, NEW b \in Candles
    PROVE  Merged(s, b) \in Seq(Candles) /\ Len(Merged(s, b)) <= MaxCandles
<1>0. MaxCandles \in Nat \ {0}
  BY LiveFeedAssumption
<1>1. Append(s, b) \in Seq(Candles)
  OBVIOUS
<1>2. LastN(Append(s, b), MaxCandles) \in Seq(Candles) /\ Len(LastN(Append(s, b), MaxCandles)) <= MaxCandles
  <2> DEFINE a == Append(s, b)
  <2>1. a \in Seq(Candles) /\ Len(a) \in Nat
    BY <1>1
  <2> HIDE DEF a
  <2>2. LastN(a, MaxCandles) \in Seq(Candles) /\ Len(LastN(a, MaxCandles)) = IF Len(a) > MaxCandles THEN MaxCandles ELSE Len(a)
    BY <1>0, <2>1, LastNFacts
  <2> QED
    BY <1>0, <2>1, <2>2 DEF a
<1>3. s # <<>> => [s EXCEPT ![Len(s)] = b] \in Seq(Candles) /\ Len([s EXCEPT ![Len(s)] = b]) = Len(s)
  OBVIOUS
<1> QED
  BY <1>2, <1>3 DEF Merged

\* A page, and a list with an older page in front, cut to the limit.
LEMMA PagedType ==
    ASSUME NEW p \in Seq(Candles), NEW s \in Seq(Candles)
    PROVE  /\ LastN(p \o s, MaxCandles) \in Seq(Candles) /\ Len(LastN(p \o s, MaxCandles)) <= MaxCandles
           /\ LastN(p, MaxCandles) \in Seq(Candles) /\ Len(LastN(p, MaxCandles)) <= MaxCandles
<1>1. MaxCandles \in Nat \ {0}
  BY LiveFeedAssumption
<1>2. \A a \in Seq(Candles) : /\ LastN(a, MaxCandles) \in Seq(Candles)
                              /\ Len(LastN(a, MaxCandles)) <= MaxCandles
  BY <1>1, LastNFacts
<1>3. p \o s \in Seq(Candles)
  OBVIOUS
<1> QED
  BY <1>2, <1>3

\* What is sent when a connection opens.
LEMMA ResubscriptionFacts ==
    ASSUME ClientType
    PROVE  /\ Resubscription \in Seq(Command)
           /\ \A k \in Keys : k \in Wanted <=> \E i \in DOMAIN Resubscription : Resubscription[i].key = k
           /\ \A i \in DOMAIN Resubscription : Resubscription[i] = Subscribe(Resubscription[i].key)
<1> DEFINE s == SetToSeq(Wanted)
<1>1. Wanted \subseteq Keys /\ IsFiniteSet(Wanted)
  BY LiveFeedAssumption, FS_Subset DEF Wanted
<1>2. s \in Seq(Wanted) /\ \A k \in Wanted : \E i \in DOMAIN s : s[i] = k
  BY <1>1, SetToSeqFacts
<1>3. Resubscription = [i \in DOMAIN s |-> Subscribe(s[i])]
  BY DEF Resubscription
<1> HIDE DEF s
<1>4. \A i \in DOMAIN s : s[i] \in Wanted /\ Subscribe(s[i]) \in Command /\ Subscribe(s[i]).key = s[i]
  BY <1>1, <1>2 DEF Subscribe, Command
<1>5. DOMAIN s = 1 .. Len(s) /\ Len(s) \in Nat
  BY <1>2
<1>6. Resubscription \in Seq(Command) /\ DOMAIN Resubscription = DOMAIN s
  BY <1>3, <1>4, <1>5
<1> QED
  BY <1>1, <1>2, <1>3, <1>4, <1>6

\* The dates in lists, buffers and on the wire are times.
LEMMA DatesType ==
    ASSUME Types
    PROVE  /\ \A s \in Seq(Candles) : Dates(s) \subseteq Times
           /\ \A c \in Shown : Dates(list[c]) \subseteq Times /\ Buffered(c) \subseteq Times /\ OnWire(c) \subseteq Times
<1>1. \A s \in Seq(Candles) : Dates(s) \subseteq Times
  <2>1. ASSUME NEW s \in Seq(Candles), NEW i \in DOMAIN s PROVE s[i].t \in Times
    BY CandleSequence, CandleFields
  <2> QED
    BY <2>1 DEF Dates
<1>2. ASSUME NEW c \in Shown PROVE Buffered(c) \subseteq Times
  BY CandleFields DEF Buffered, Types, ChartType
<1>3. ASSUME NEW c \in Shown PROVE OnWire(c) \subseteq Times
  <2>1. \A m \in ToSet(wire) : m \in Candles
    BY DEF ToSet, Types, ConnectionType
  <2> QED
    BY <2>1, CandleFields DEF OnWire
<1> QED
  BY <1>1, <1>2, <1>3 DEF Types, ChartType

\* The steps of the client.
LEMMA ClientTypes ==
    ASSUME Types, ClientStep
    PROVE  Types'
<1>0. /\ UNCHANGED <<subs, clock, hub, traded, closing, telling, rows>>
      /\ UNCHANGED <<loads, more, list, key, switches, shared, spoiled>>
  BY ClientStepLeaves
<1>1. ClientType'
  <2>1. CASE Reconnect
    <3>1. delay \in {1, 2, 4, 8, 10}
      BY DEF Types, ClientType
    <3>2. delay' \in {1, 2, 4, 8, 10}
      BY <2>1, <3>1 DEF Reconnect
    <3> QED
      BY <2>1, <3>2 DEF Reconnect, Types, ClientType
  <2>2. CASE OnOpen \/ OnClose \/ Break
    BY <2>2 DEF OnOpen, OnClose, Break, Types, ClientType
  <2>3. CASE Deliver
    BY <2>3 DEF Deliver, client, Types, ClientType
  <2> QED
    BY <2>1, <2>2, <2>3 DEF ClientStep
<1>2. ConnectionType'
  <2>0. MaxWire \in Nat
    BY LiveFeedAssumption
  <2>1. CASE OnOpen
    BY <2>1, ResubscriptionFacts DEF OnOpen, Types, ConnectionType
  <2>2. CASE OnClose \/ Reconnect
    BY <2>2 DEF OnClose, Reconnect, server, connection, Types, ConnectionType
  <2>3. CASE Break
    BY <2>0, <2>3 DEF Break, Types, ConnectionType
  <2>4. CASE Deliver
    <3>1. wire \in Seq(Candles) /\ wire # <<>> /\ wire' = Tail(wire) /\ Len(wire) <= MaxWire
      BY <2>4 DEF Deliver, Types, ConnectionType
    <3>2. wire' \in Seq(Candles) /\ Len(wire') <= MaxWire
      BY <2>0, <3>1
    <3> QED
      BY <2>4, <3>2 DEF Deliver, Types, ConnectionType
  <2> QED
    BY <2>1, <2>2, <2>3, <2>4 DEF ClientStep
<1>3. MarketType'
  BY <1>0 DEF Types, MarketType
<1>4. ChartType'
  <2>1. CASE Deliver
    <3>1. Head(wire) \in Candles
      BY <2>1 DEF Deliver, Types, ConnectionType
    <3> QED
      BY <1>0, <2>1, <3>1 DEF Deliver, Types, ChartType
  <2>2. CASE ~Deliver
    <3>1. buffer' = buffer
      BY <2>2 DEF ClientStep, OnOpen, OnClose, Reconnect, Break, data
    <3> QED
      BY <1>0, <3>1 DEF Types, ChartType
  <2> QED
    BY <2>1, <2>2
<1>5. HistoryType'
  <2>0. MaxTroubles \in Nat
    BY LiveFeedAssumption
  <2>1. troubles' \in 0 .. MaxTroubles
    BY <2>0 DEF ClientStep, OnOpen, OnClose, Reconnect, Break, Deliver, Types, HistoryType
  <2>2. due' = due \/ (due' \in [Shown -> SUBSET Times])
    BY DEF ClientStep, OnOpen, OnClose, Reconnect, Break, Deliver, history, Types, HistoryType
  <2> QED
    BY <1>0, <2>1, <2>2 DEF Types, HistoryType
<1> QED
  BY <1>1, <1>2, <1>3, <1>4, <1>5 DEF Types

\* The steps of the server.
LEMMA ServerTypes ==
    ASSUME Types, ServerStep
    PROVE  Types'
<1>0. /\ UNCHANGED <<ws, timer, delay, subs, key, switches, troubles, shared, spoiled>>
      /\ UNCHANGED <<loads, more, list, buffer>>
  BY ServerStepLeaves
<1>t. /\ clock \in Times /\ clock \in Nat /\ clock <= MaxTime /\ MaxTime \in Nat /\ Start \in Nat
  BY ClockType DEF Types
<1>1. ClientType' /\ ChartType'
  BY <1>0 DEF Types, ClientType, ChartType
<1>2. wire' \in Seq(Candles) /\ Len(wire') <= MaxWire /\ due' \in [Shown -> SUBSET Times]
  <2>1. CASE UNCHANGED <<wire, due>>
    BY <2>1 DEF Types, ConnectionType, HistoryType
  <2>2. ASSUME NEW m \in Candles, Sent(m)
        PROVE  wire' \in Seq(Candles) /\ Len(wire') <= MaxWire /\ due' \in [Shown -> SUBSET Times]
    <3>1. m.t \in Times
      BY CandleFields
    <3>2. due' \in [Shown -> SUBSET Times]
      BY <2>2, <3>1 DEF Sent, Types, HistoryType
    <3>3. wire \in Seq(Candles) /\ Len(wire) < MaxWire /\ wire' = Append(wire, m) /\ MaxWire \in Nat
      BY <2>2, LiveFeedAssumption DEF Sent, Types, ConnectionType
    <3>4. wire' \in Seq(Candles) /\ Len(wire') = Len(wire) + 1
      BY <3>3
    <3> QED
      BY <3>2, <3>3, <3>4
  <2> QED
    BY <2>1, <2>2, ServerStepSends
<1>3. asked' \subseteq Keys /\ served' \subseteq asked' /\ commands' \in Seq(Command)
  <2>1. CASE ServerRead
    <3>0. commands \in Seq(Command) /\ commands # <<>> /\ commands' = Tail(commands)
      BY <2>1 DEF ServerRead, Types, ConnectionType
    <3>1. Head(commands).key \in Keys
      <4>1. Head(commands) \in Command
        BY <3>0
      <4> QED
        BY <4>1 DEF Command
    <3>2. commands' \in Seq(Command)
      BY <3>0
    <3>3. asked' \subseteq Keys /\ served' \subseteq asked'
      BY <2>1, <3>1 DEF ServerRead, Types, ConnectionType
    <3> QED
      BY <3>2, <3>3
  <2>2. CASE ~ServerRead
    <3>1. UNCHANGED <<commands, served, asked>>
      BY <2>2, OtherServerStepLeaves
    <3> QED
      BY <3>1 DEF Types, ConnectionType
  <2> QED
    BY <2>1, <2>2
<1>4. MarketType'
  <2>1. CASE Boundary
    BY <1>t, <2>1 DEF Boundary, Types, MarketType
  <2>2. ASSUME NEW z \in Series, CloserFlush(z) PROVE MarketType'
    <3>1. /\ UNCHANGED <<clock, hub>> /\ closing' = closing \ {z} /\ traded' \subseteq traded
          /\ telling' \subseteq telling \union Keys
          /\ rows' \in {rows, [rows EXCEPT ![z] = @ \union {clock}]}
      BY <2>2 DEF CloserFlush
    <3>2. clock \in 1 .. clock
      BY <1>t, ClockType DEF Types
    <3>3. rows' \in [Series -> SUBSET (1 .. clock)]
      BY <3>1, <3>2 DEF Types, MarketType
    <3> QED
      BY <3>1, <3>3 DEF Types, MarketType
  <2>3. ASSUME NEW z \in Series, Trade(z) PROVE MarketType'
    BY <2>3 DEF Trade, Types, MarketType
  <2>4. ASSUME NEW k \in Keys, ServerUpdate(k) \/ ServerUpdateLate(k) \/ Announce(k) PROVE MarketType'
    BY <2>4 DEF ServerUpdate, ServerUpdateLate, Announce, market, Types, MarketType
  <2>5. CASE ServerRead \/ HubStops
    BY <2>5 DEF ServerRead, HubStops, market, Types, MarketType
  <2> QED
    BY <2>1, <2>2, <2>3, <2>4, <2>5 DEF ServerStep
<1> QED
  BY <1>0, <1>1, <1>2, <1>3, <1>4 DEF Types, ConnectionType, HistoryType

\* A change of a chart's settings.
LEMMA SwitchTypes ==
    ASSUME Types, NEW c \in Charts, NEW k \in Keys, SwitchKey(c, k)
    PROVE  Types'
<1>1. ClientType'
  <2>1. key[c] \in Keys /\ key' = [key EXCEPT ![c] = k] /\ subs' = [subs EXCEPT ![key[c]] = None, ![k] = c]
    BY DEF SwitchKey, Rebound, Types, ClientType
  <2>2. subs' \in [Keys -> Charts \union {None}] /\ key' \in [Charts -> Keys]
    BY <2>1 DEF Types, ClientType
  <2> QED
    BY <2>2 DEF SwitchKey, Types, ClientType
<1>2. ConnectionType' /\ MarketType'
  <2>1. Unsubscribe(key[c]) \in Command /\ Subscribe(k) \in Command
    BY DEF Unsubscribe, Subscribe, Command, Types, ClientType
  <2>2. commands \o <<Unsubscribe(key[c]), Subscribe(k)>> \in Seq(Command)
    BY <2>1 DEF Types, ConnectionType
  <2>3. commands' \in Seq(Command)
    BY <2>2 DEF SwitchKey, Types, ConnectionType
  <2>4. UNCHANGED <<served, asked, wire>> /\ UNCHANGED <<clock, hub, traded, closing, telling, rows>>
    BY DEF SwitchKey, market
  <2> QED
    BY <2>3, <2>4 DEF Types, ConnectionType, MarketType
<1>3. ChartType'
  <2>1. NewLoad(k) \in Load
    <3>1. <<>> \in Seq(Candles)
      OBVIOUS
    <3> QED
      BY <3>1 DEF NewLoad, Load
  <2>2. \A r \in Load : [r EXCEPT !.active = FALSE, !.answered = FALSE, !.page = <<>>] \in Load
    <3>1. <<>> \in Seq(Candles)
      OBVIOUS
    <3> QED
      BY <3>1 DEF Load
  <2>3. \A d \in Shown : loads[d] \subseteq Load
    BY DEF Types, ChartType
  <2>4. loads' \in [Shown -> SUBSET Load]
    BY <2>1, <2>2, <2>3 DEF SwitchKey
  <2> QED
    BY <2>4 DEF SwitchKey, Types, ChartType
<1>4. HistoryType'
  <2>1. MaxSwitches \in Nat
    BY LiveFeedAssumption
  <2>3. due' \in [Shown -> SUBSET Times]
    BY DEF SwitchKey, Types, HistoryType
  <2>4. shared' \subseteq Charts
    BY DEF SwitchKey, Types, HistoryType
  <2>5. switches' \in 0 .. MaxSwitches
    <3>1. switches < MaxSwitches /\ switches' = switches + 1
      BY DEF SwitchKey
    <3> QED
      BY <2>1, <3>1 DEF Types, HistoryType
  <2>6. UNCHANGED <<troubles, spoiled>>
    BY DEF SwitchKey
  <2> QED
    BY <2>3, <2>4, <2>5, <2>6 DEF Types, HistoryType
<1> QED
  BY <1>1, <1>2, <1>3, <1>4 DEF Types

\* What a chart does by itself, and the answers to its requests.
LEMMA ChartTypes ==
    ASSUME Types, NEW c \in Shown, ChartStep(c)
    PROVE  Types'
<1>0. /\ loads[c] \subseteq Load /\ list[c] \in Seq(Candles) /\ Len(list[c]) <= MaxCandles
      /\ due[c] \subseteq Times /\ key[c] \in Keys
  BY LiveFeedAssumption DEF Types, ClientType, ChartType, HistoryType
<1>1. ClientType' /\ ConnectionType' /\ MarketType'
  BY ChartStepLeaves DEF Types, ClientType, ConnectionType, MarketType
<1>2. UNCHANGED <<switches, troubles, shared>>
  BY ChartStepLeaves
<1>r. \A k \in Keys : SeriesOf[k] \in Series /\ rows[SeriesOf[k]] \subseteq Times
  BY LiveFeedAssumption, ClockType DEF Types
<1>3. CASE ServerAnswer(c)
  <2>1. PICK r \in loads[c] : \E p \in Answers(r.key, rows[SeriesOf[r.key]]) :
          loads' = [loads EXCEPT ![c] = (@ \ {r}) \union {[r EXCEPT !.answered = TRUE, !.page = p]}]
    BY <1>3 DEF ServerAnswer
  <2>2. r \in Load /\ r.key \in Keys
    BY <1>0 DEF Load
  <2>3. \A p \in Answers(r.key, rows[SeriesOf[r.key]]) : p \in Seq(Candles)
    BY <1>r, <2>2, AnswerFacts
  <2>4. \A p \in Answers(r.key, rows[SeriesOf[r.key]]) : [r EXCEPT !.answered = TRUE, !.page = p] \in Load
    <3>1. \A p \in Seq(Candles) : [r EXCEPT !.answered = TRUE, !.page = p] \in Load
      BY <2>2 DEF Load
    <3> QED
      BY <2>3, <3>1
  <2>5. loads' \in [Shown -> SUBSET Load]
    <3>1. PICK a \in Load : loads' = [loads EXCEPT ![c] = (@ \ {r}) \union {a}]
      BY <2>1, <2>4
    <3>2. loads \in [Shown -> SUBSET Load]
      BY DEF Types, ChartType
    <3> QED
      BY <3>1, <3>2
  <2> QED
    BY <1>1, <1>3, <2>5 DEF ServerAnswer, history, Types, ChartType, HistoryType
<1>4. CASE LoadDone(c)
  <2>1. PICK r \in loads[c], ok \in BOOLEAN :
          /\ loads' = [loads EXCEPT ![c] = @ \ {r}]
          /\ IF r.active
               THEN LET loaded == IF ok THEN LastN(r.page, MaxCandles) ELSE <<>> IN
                    /\ list' = [list EXCEPT ![c] = loaded]
                    /\ spoiled' = spoiled \ {c}
                    /\ due' = [due EXCEPT ![c] =
                                 Dates(loaded) \union (@ \intersect (OnWire(c) \union Buffered(c)))]
               ELSE UNCHANGED <<list, spoiled, due>>
          /\ UNCHANGED <<more, buffer>>
    BY <1>4 DEF LoadDone
  <2>2. r.page \in Seq(Candles)
    BY <1>0 DEF Load
  <2>3. CASE ~r.active
    BY <1>1, <1>2, <2>1, <2>3 DEF Types, ChartType, HistoryType
  <2>4. CASE r.active
    <3> DEFINE loaded == IF ok THEN LastN(r.page, MaxCandles) ELSE <<>>
    <3>1. loaded \in Seq(Candles) /\ Len(loaded) <= MaxCandles
      <4>1. LastN(r.page, MaxCandles) \in Seq(Candles) /\ Len(LastN(r.page, MaxCandles)) <= MaxCandles
        BY <2>2, PagedType
      <4>2. <<>> \in Seq(Candles) /\ Len(<<>>) <= MaxCandles
        BY LiveFeedAssumption
      <4> QED
        BY <4>1, <4>2
    <3>2. /\ list' = [list EXCEPT ![c] = loaded] /\ spoiled' = spoiled \ {c}
          /\ due' = [due EXCEPT ![c] = Dates(loaded) \union (@ \intersect (OnWire(c) \union Buffered(c)))]
      BY <2>1, <2>4
    <3> HIDE DEF loaded
    <3>3. Dates(loaded) \subseteq Times
      BY <3>1, DatesType
    <3>4. due' \in [Shown -> SUBSET Times] /\ spoiled' \subseteq Shown
      BY <1>0, <3>2, <3>3 DEF Types, HistoryType
    <3>5. list' \in [Shown -> Seq(Candles)] /\ \A d \in Shown : Len(list'[d]) <= MaxCandles
      BY <3>1, <3>2 DEF Types, ChartType
    <3> QED
      BY <1>1, <1>2, <2>1, <3>4, <3>5 DEF Types, ChartType, HistoryType
  <2> QED
    BY <2>3, <2>4
<1>5. CASE LoadMore(c)
  <2>0. list[c] # <<>>
    BY <1>5 DEF LoadMore
  <2>1. Head(list[c]).t \in Times
    BY <1>0, <2>0, CandleSequence, CandleFields
  <2>2. [key |-> key[c], before |-> Head(list[c]).t] \in Older
    BY <1>0, <2>1 DEF Older
  <2> QED
    BY <1>1, <1>5, <2>2 DEF LoadMore, history, Types, ChartType, HistoryType
<1>6. CASE MoreDone(c)
  <2>1. more[c].key \in Keys
    BY <1>6 DEF MoreDone, Types, ChartType, Older
  <2>2. ASSUME NEW p \in Pages(more[c].key, {t \in rows[SeriesOf[more[c].key]] : t < more[c].before})
        PROVE  /\ LastN(p \o list[c], MaxCandles) \in Seq(Candles)
               /\ Len(LastN(p \o list[c], MaxCandles)) <= MaxCandles
    <3>1. {t \in rows[SeriesOf[more[c].key]] : t < more[c].before} \in SUBSET Times
      BY <1>r, <2>1
    <3>2. p \in Seq(Candles)
      BY <2>1, <3>1, PageFacts
    <3> QED
      BY <1>0, <3>2, PagedType
  <2>3. \/ list' = list
        \/ \E p \in Pages(more[c].key, {t \in rows[SeriesOf[more[c].key]] : t < more[c].before}) :
             list' = [list EXCEPT ![c] = LastN(p \o list[c], MaxCandles)]
    BY <1>6 DEF MoreDone
  <2>4. list' \in [Shown -> Seq(Candles)] /\ \A d \in Shown : Len(list'[d]) <= MaxCandles
    BY <2>2, <2>3 DEF Types, ChartType
  <2>5. spoiled' \subseteq Shown /\ due' = due /\ loads' = loads /\ buffer' = buffer
    BY <1>6 DEF MoreDone, Types, HistoryType
  <2>6. more' \in [Shown -> Older \union {None}]
    BY <1>6 DEF MoreDone, Types, ChartType
  <2> QED
    BY <1>1, <1>2, <2>4, <2>5, <2>6 DEF Types, ChartType, HistoryType
<1>7. CASE Flush(c)
  <2>1. buffer[c] \in Candles
    BY <1>7 DEF Flush, Types, ChartType
  <2>2. Merged(list[c], buffer[c]) \in Seq(Candles) /\ Len(Merged(list[c], buffer[c])) <= MaxCandles
    BY <1>0, <2>1, MergedType
  <2>3. list' = [list EXCEPT ![c] = Merged(list[c], buffer[c])] /\ UNCHANGED <<loads, more>>
    BY <1>7 DEF Flush
  <2>4. list' \in [Shown -> Seq(Candles)] /\ \A d \in Shown : Len(list'[d]) <= MaxCandles
    BY <2>2, <2>3 DEF Types, ChartType
  <2>5. Buffered(c) \subseteq Times
    BY DatesType
  <2>6. spoiled' \subseteq Shown /\ due' \in [Shown -> SUBSET Times]
    BY <1>0, <1>7, <2>5 DEF Flush, Types, HistoryType
  <2>7. buffer' \in [Shown -> Candles \union {None}]
    BY <1>7 DEF Flush, Types, ChartType
  <2> QED
    BY <1>1, <1>2, <2>3, <2>4, <2>6, <2>7 DEF Types, ChartType, HistoryType
<1> QED
  BY <1>3, <1>4, <1>5, <1>6, <1>7 DEF ChartStep

\* The page when it is mounted.
LEMMA TypesInit == Init => Types
<1> SUFFICES ASSUME Init PROVE Types
  OBVIOUS
<1>1. ClientType
  <2>1. ASSUME NEW k \in Keys PROVE subs[k] \in Charts \union {None}
    <3> DEFINE on == {c \in Charts : First[c] = k}
    <3>1. on \in SUBSET Nat /\ IsFiniteSet(on) /\ on \subseteq Charts
      BY LiveFeedAssumption, FS_Subset
    <3>2. subs[k] = IF on = {} THEN None ELSE Max(on)
      BY DEF Init
    <3> HIDE DEF on
    <3> QED
      BY <3>1, <3>2, MaxIn
  <2>2. subs \in [Keys -> Charts \union {None}]
    BY <2>1 DEF Init
  <2> QED
    BY <2>2, LiveFeedAssumption DEF Init, ClientType
<1>2. ConnectionType /\ MarketType
  <2>1. Start \in Nat /\ MaxTime \in Nat /\ Start <= MaxTime
    BY LiveFeedAssumption
  <2>2. ConnectionType
    BY LiveFeedAssumption DEF Init, ConnectionType
  <2>3. rows \in [Series -> SUBSET (1 .. clock)]
    BY DEF Init
  <2>4. MarketType
    BY <2>1, <2>3 DEF Init, MarketType
  <2> QED
    BY <2>2, <2>4
<1>3. ChartType
  <2>0. MaxCandles \in Nat /\ Len(<<>>) = 0 /\ <<>> \in Seq(Candles)
    BY LiveFeedAssumption
  <2>1. \A c \in Shown : NewLoad(First[c]) \in Load
    BY <2>0, LiveFeedAssumption DEF NewLoad, Load
  <2> QED
    BY <2>0, <2>1 DEF Init, ChartType
<1>4. HistoryType
  BY LiveFeedAssumption DEF Init, HistoryType
<1> QED
  BY <1>1, <1>2, <1>3, <1>4 DEF Types

\* Every step keeps the types.
LEMMA TypesStep == Types /\ [Next]_vars => Types'
<1>1. ASSUME Types, UNCHANGED vars PROVE Types'
  <2>1. /\ UNCHANGED <<ws, timer, delay, subs, key>> /\ UNCHANGED <<commands, served, asked, wire>>
        /\ UNCHANGED <<clock, hub, traded, closing, telling, rows>>
        /\ UNCHANGED <<loads, more, list, buffer>> /\ UNCHANGED <<switches, troubles, shared, spoiled, due>>
    BY <1>1 DEF vars, client, server, connection, market, data, history
  <2> QED
    BY <1>1, <2>1 DEF Types, ClientType, ConnectionType, MarketType, ChartType, HistoryType
<1> QED
  BY <1>1, ClientTypes, ServerTypes, SwitchTypes, ChartTypes, StepsAre

\* No list grows past its limit and nothing but candles is in it, whatever pages and updates
\* are put into it (App.tsx, handleLoadMore and the 200 ms flush).
THEOREM TypeOKHolds == Spec => []TypeOK
<1>1. Types => TypeOK
  BY DEF Types, ClientType, ConnectionType, MarketType, ChartType, HistoryType, Command, Load, Older, TypeOK
<1> QED
  BY <1>1, TypesInit, TypesStep, PTL DEF Spec

--------------------------------------------------------------------------------
(* Subscriptions.                                                               *)

\* Charts with the same key are on record as sharing it, besides the two properties.
SubscriptionInv ==
    /\ CallbackShowsKey /\ SilentOnlyWhenShared
    /\ \A c \in Charts, d \in Charts : c # d /\ key[c] = key[d] => c \in shared

\* Only a change of settings concerns who is subscribed to what.
LEMMA SubscriptionStep == Types /\ SubscriptionInv /\ [Next]_vars => SubscriptionInv'
<1> SUFFICES ASSUME Types, SubscriptionInv, [Next]_vars PROVE SubscriptionInv'
  OBVIOUS
<1>1. ASSUME UNCHANGED <<subs, key, shared>> PROVE SubscriptionInv'
  BY <1>1 DEF SubscriptionInv, CallbackShowsKey, SilentOnlyWhenShared, Owns
<1>2. ASSUME NEW c \in Charts, NEW k \in Keys, SwitchKey(c, k) PROVE SubscriptionInv'
  <2> DEFINE with == {d \in Charts \ {c} : key[d] = k}
  <2>1. /\ k # key[c] /\ key' = [key EXCEPT ![c] = k]
        /\ subs' = [subs EXCEPT ![key[c]] = None, ![k] = c]
        /\ shared' = IF with = {} THEN shared \ {c} ELSE shared \union with \union {c}
    BY <1>2 DEF SwitchKey, Rebound
  <2>2. /\ key[c] \in Keys /\ key \in [Charts -> Keys] /\ subs \in [Keys -> Charts \union {None}]
        /\ None \notin Charts
    BY LiveFeedAssumption DEF Types, ClientType
  <2>3. CallbackShowsKey'
    BY <2>1, <2>2 DEF SubscriptionInv, CallbackShowsKey
  <2>4. \A d \in Charts, e \in Charts : d # e /\ key'[d] = key'[e] => d \in shared'
    <3> SUFFICES ASSUME NEW d \in Charts, NEW e \in Charts, d # e, key'[d] = key'[e]
                 PROVE  d \in shared'
      OBVIOUS
    <3>1. CASE d = c \/ e = c
      <4>1. with # {} /\ d \in with \union {c}
        BY <2>1, <2>2, <3>1
      <4> QED
        BY <2>1, <4>1
    <3>2. CASE d # c /\ e # c
      BY <2>1, <2>2, <3>2 DEF SubscriptionInv
    <3> QED
      BY <3>1, <3>2
  <2>5. ASSUME NEW d \in Charts, ~Owns(d)' PROVE d \in shared'
    <3>1. d # c
      BY <2>1, <2>2, <2>5 DEF Owns
    <3>2. key'[d] = key[d] /\ subs'[key[d]] # d
      BY <2>1, <2>2, <2>5, <3>1 DEF Owns
    <3>3. CASE key[d] = k
      BY <2>1, <3>1, <3>3
    <3>4. CASE key[d] = key[c]
      BY <2>1, <3>1, <3>4 DEF SubscriptionInv
    <3>5. CASE key[d] \notin {k, key[c]}
      <4>1. ~Owns(d)
        BY <2>1, <2>2, <3>2, <3>5 DEF Owns
      <4> QED
        BY <2>1, <3>1, <4>1 DEF SubscriptionInv, SilentOnlyWhenShared
    <3> QED
      BY <3>3, <3>4, <3>5
  <2> QED
    BY <2>3, <2>4, <2>5 DEF SubscriptionInv, SilentOnlyWhenShared
<1>3. ASSUME NEW c \in Shown, ChartStep(c) PROVE SubscriptionInv'
  BY <1>1, <1>3, ChartStepLeaves
<1>4. ASSUME ClientStep PROVE SubscriptionInv'
  BY <1>1, <1>4, ClientStepLeaves
<1>5. ASSUME ServerStep PROVE SubscriptionInv'
  BY <1>1, <1>5, ServerStepLeaves
<1>6. CASE UNCHANGED vars
  BY <1>1, <1>6 DEF vars, client, history
<1> QED
  BY <1>2, <1>3, <1>4, <1>5, <1>6, StepsAre

\* The last chart of a key has its callbacks when the page is mounted.
LEMMA SubscriptionInit == Init => SubscriptionInv
<1> SUFFICES ASSUME Init PROVE SubscriptionInv
  OBVIOUS
<1> DEFINE on(k) == {c \in Charts : First[c] = k}
<1>1. ASSUME NEW k \in Keys
      PROVE  /\ on(k) = {} => subs[k] = None
             /\ on(k) # {} => subs[k] \in on(k)
  <2>1. on(k) \in SUBSET Nat /\ IsFiniteSet(on(k))
    BY LiveFeedAssumption, FS_Subset
  <2>2. subs[k] = IF on(k) = {} THEN None ELSE Max(on(k))
    BY DEF Init
  <2> HIDE DEF on
  <2> QED
    BY <2>1, <2>2, MaxIn
<1>2. key = First /\ First \in [Charts -> Keys]
  BY LiveFeedAssumption DEF Init
<1>3. CallbackShowsKey
  BY <1>1, <1>2 DEF CallbackShowsKey
<1>4. shared = {c \in Charts : \E d \in Charts \ {c} : First[c] = First[d]}
  BY DEF Init
<1>5. SilentOnlyWhenShared
  BY <1>1, <1>2, <1>4 DEF SilentOnlyWhenShared, Owns
<1> QED
  BY <1>2, <1>3, <1>4, <1>5 DEF SubscriptionInv

\* A message of an abandoned subscription reaches no chart (wsClient.ts, subCallbacks): the
\* callbacks left belong to a chart that shows their key.
THEOREM CallbackShowsKeyHolds == Spec => []CallbackShowsKey
<1>1. SubscriptionInv => CallbackShowsKey
  BY DEF SubscriptionInv
<1> QED
  BY <1>1, TypesInit, TypesStep, SubscriptionInit, SubscriptionStep, PTL DEF Spec

\* Two charts on one key are the only way a chart falls silent (wsClient.ts, unsubscribe).
THEOREM SilentOnlyWhenSharedHolds == Spec => []SilentOnlyWhenShared
<1>1. SubscriptionInv => SilentOnlyWhenShared
  BY DEF SubscriptionInv
<1> QED
  BY <1>1, TypesInit, TypesStep, SubscriptionInit, SubscriptionStep, PTL DEF Spec

--------------------------------------------------------------------------------
(* The client implements SubRegistry, step by step.                             *)

\* Without a connection nothing is asked for over it and nothing is on its way.
LinkInv == ws # "open" => asked = {} /\ commands = <<>>

\* A connection that opens begins with nothing asked for.
LEMMA LinkStep == LinkInv /\ [Next]_vars => LinkInv'
<1> SUFFICES ASSUME LinkInv, [Next]_vars PROVE LinkInv'
  OBVIOUS
<1>1. ASSUME UNCHANGED <<ws, asked, commands>> PROVE LinkInv'
  BY <1>1 DEF LinkInv
<1>2. ASSUME NEW c \in Charts, NEW k \in Keys, SwitchKey(c, k) PROVE LinkInv'
  BY <1>2 DEF SwitchKey, LinkInv
<1>3. ASSUME NEW c \in Shown, ChartStep(c) PROVE LinkInv'
  BY <1>1, <1>3, ChartStepLeaves
<1>4. CASE OnOpen \/ OnClose \/ Reconnect \/ Break \/ ServerRead
  BY <1>4 DEF OnOpen, OnClose, Reconnect, Break, ServerRead, client, server, connection, LinkInv
<1>5. CASE Deliver
  BY <1>1, <1>5 DEF Deliver, client
<1>6. ASSUME ServerStep, ~ServerRead PROVE LinkInv'
  BY <1>1, <1>6, ServerStepLeaves, OtherServerStepLeaves
<1>7. CASE UNCHANGED vars
  BY <1>1, <1>7 DEF vars, client, server, connection
<1> QED
  BY <1>2, <1>3, <1>4, <1>5, <1>6, <1>7, StepsAre DEF ClientStep

\* What has been asked for when the commands cs come after S.
HeldBy(S, cs) == {k \in Keys :
                    \/ k \in S /\ \A i \in DOMAIN cs : cs[i].key # k
                    \/ \E i \in DOMAIN cs : /\ cs[i] = Subscribe(k)
                                            /\ \A j \in DOMAIN cs : j > i => cs[j].key # k}

\* With every subscription sent the client has asked for what is wanted.
LEMMA HeldAfterOpen ==
    ASSUME Types, OnOpen, LinkInv
    PROVE  Held' = Wanted
<1> DEFINE cs == Resubscription
<1>1. Held' = HeldBy({}, cs)
  <2>1. asked' = {} /\ commands' = Resubscription
    BY DEF OnOpen, LinkInv
  <2>2. Held' = HeldBy(asked', commands')
    BY DEF Held, HeldBy
  <2> QED
    BY <2>1, <2>2
<1>2. /\ cs \in Seq(Command)
      /\ \A k \in Keys : k \in Wanted <=> \E i \in DOMAIN cs : cs[i].key = k
      /\ \A i \in DOMAIN cs : cs[i] = Subscribe(cs[i].key)
  BY ResubscriptionFacts DEF Types
<1> HIDE DEF cs
<1>3. ASSUME NEW k \in Keys PROVE k \in HeldBy({}, cs) <=> k \in Wanted
  <2>1. CASE k \in Wanted
    <3> DEFINE I == {i \in DOMAIN cs : cs[i].key = k}
    <3>1. I # {} /\ I \subseteq 1 .. Len(cs) /\ Len(cs) \in Nat
      BY <1>2, <2>1
    <3> HIDE DEF I
    <3>5. I \in SUBSET Nat /\ \A j \in I : j <= Len(cs)
      BY <3>1
    <3>2. PICK i \in I : \A j \in I : j <= i
      BY <3>1, <3>5, GreatestNatural
    <3>3. i \in DOMAIN cs /\ cs[i] = Subscribe(k) /\ i \in Nat
      <4>1. i \in DOMAIN cs /\ cs[i].key = k
        BY <3>2 DEF I
      <4>2. i \in Nat
        BY <3>1, <3>2
      <4>3. cs[i] = Subscribe(cs[i].key)
        BY <1>2, <4>1
      <4> QED
        BY <4>1, <4>2, <4>3
    <3>4. \A j \in DOMAIN cs : j > i => cs[j].key # k
      BY <1>2, <3>1, <3>2, <3>3 DEF I
    <3> QED
      BY <2>1, <3>3, <3>4 DEF HeldBy
  <2>2. CASE k \notin Wanted
    <3>1. \A i \in DOMAIN cs : cs[i].key # k
      BY <1>2, <2>2
    <3>2. \A i \in DOMAIN cs : cs[i] # Subscribe(k)
      BY <3>1 DEF Subscribe
    <3> QED
      BY <2>2, <3>2 DEF HeldBy
  <2> QED
    BY <2>1, <2>2
<1> QED
  BY <1>1, <1>3 DEF HeldBy, Wanted

\* A chart that changes from one key to another.
LEMMA HeldAfterSwitch ==
    ASSUME NEW S, NEW cs \in Seq(Command), NEW old \in Keys, NEW k \in Keys, old # k
    PROVE  HeldBy(S, cs \o <<Unsubscribe(old), Subscribe(k)>>) = (HeldBy(S, cs) \ {old}) \union {k}
<1> DEFINE ds == cs \o <<Unsubscribe(old), Subscribe(k)>>
           n == Len(cs)
<1>1. /\ n \in Nat /\ DOMAIN cs = 1 .. n /\ DOMAIN ds = 1 .. n + 2
      /\ \A i \in 1 .. n : ds[i] = cs[i]
      /\ ds[n + 1] = Unsubscribe(old) /\ ds[n + 2] = Subscribe(k)
  OBVIOUS
<1>2. Unsubscribe(old).key = old /\ Subscribe(k).key = k
      /\ \A l \in Keys : Unsubscribe(old) # Subscribe(l) /\ (Subscribe(k) = Subscribe(l) => k = l)
  BY DEF Unsubscribe, Subscribe
<1> HIDE DEF ds, n
<1>3. \A i \in 1 .. n + 2 : i \in 1 .. n \/ i = n + 1 \/ i = n + 2
  BY <1>1
<1>4. ASSUME NEW l \in Keys, l \notin {old, k}
      PROVE  l \in HeldBy(S, ds) <=> l \in HeldBy(S, cs)
  <2>1. (\A i \in 1 .. n + 2 : ds[i].key # l) <=> (\A i \in 1 .. n : cs[i].key # l)
    BY <1>1, <1>2, <1>3, <1>4
  <2>2. ASSUME NEW i \in 1 .. n
        PROVE  (\A j \in 1 .. n + 2 : j > i => ds[j].key # l) <=> (\A j \in 1 .. n : j > i => cs[j].key # l)
    BY <1>1, <1>2, <1>3, <1>4
  <2>3. ds[n + 1] # Subscribe(l) /\ ds[n + 2] # Subscribe(l)
    BY <1>1, <1>2, <1>4
  <2>4. (\E i \in 1 .. n + 2 : ds[i] = Subscribe(l) /\ \A j \in 1 .. n + 2 : j > i => ds[j].key # l)
          <=> (\E i \in 1 .. n : cs[i] = Subscribe(l) /\ \A j \in 1 .. n : j > i => cs[j].key # l)
    <3>1. ASSUME NEW i \in 1 .. n
          PROVE  (ds[i] = Subscribe(l) /\ \A j \in 1 .. n + 2 : j > i => ds[j].key # l)
                   <=> (cs[i] = Subscribe(l) /\ \A j \in 1 .. n : j > i => cs[j].key # l)
      BY <1>1, <2>2
    <3>2. \A i \in 1 .. n : i \in 1 .. n + 2
      BY <1>1
    <3>3. \A i \in 1 .. n + 2 : ds[i] = Subscribe(l) => i \in 1 .. n
      BY <1>3, <2>3
    <3> QED
      BY <3>1, <3>2, <3>3
  <2> QED
    BY <1>1, <2>1, <2>4 DEF HeldBy
<1>5. k \in HeldBy(S, ds)
  <2>1. n + 2 \in 1 .. n + 2 /\ \A j \in 1 .. n + 2 : ~(j > n + 2)
    BY <1>1
  <2> QED
    BY <1>1, <2>1 DEF HeldBy
<1>6. old \notin HeldBy(S, ds)
  <2>1. n + 1 \in 1 .. n + 2 /\ ds[n + 1].key = old
    BY <1>1, <1>2
  <2>2. ASSUME NEW i \in 1 .. n + 2, ds[i] = Subscribe(old) PROVE i < n + 1
    <3>1. i # n + 1
      BY <1>1, <1>2, <2>2
    <3>2. i # n + 2
      BY <1>1, <1>2, <2>2
    <3> QED
      BY <1>1, <3>1, <3>2
  <2>3. \A i \in 1 .. n + 2 : ds[i] = Subscribe(old) => n + 1 > i
    BY <1>1, <2>2
  <2> QED
    BY <1>1, <2>1, <2>3 DEF HeldBy
<1>7. \A l \in HeldBy(S, ds) \union HeldBy(S, cs) : l \in Keys
  BY DEF HeldBy
<1> QED
  BY <1>4, <1>5, <1>6, <1>7 DEF ds

\* Reading a command changes nothing about what has been asked for.
LEMMA HeldAfterRead ==
    ASSUME NEW S, NEW cs \in Seq(Command), cs # <<>>
    PROVE  HeldBy(IF Head(cs).op = "subscribe" THEN S \union {Head(cs).key} ELSE S \ {Head(cs).key},
                  Tail(cs)) = HeldBy(S, cs)
<1> DEFINE m == Head(cs)
           T == IF m.op = "subscribe" THEN S \union {m.key} ELSE S \ {m.key}
           ds == Tail(cs)
           n == Len(cs)
<1>1. /\ n \in Nat /\ n >= 1 /\ DOMAIN cs = 1 .. n /\ DOMAIN ds = 1 .. n - 1
      /\ \A i \in 1 .. n - 1 : ds[i] = cs[i + 1]
      /\ cs[1] = m /\ m \in Command
  OBVIOUS
<1>2. \A l \in Keys : m = Subscribe(l) <=> m.op = "subscribe" /\ m.key = l
  BY <1>1 DEF Command, Subscribe
<1>3. \A l \in Keys : l \in T <=> m = Subscribe(l) \/ (l \in S /\ m.key # l)
  BY <1>1, <1>2 DEF Command
<1> HIDE DEF m, T, ds, n
<1>4. \A i \in 1 .. n : i = 1 \/ (i - 1 \in 1 .. n - 1 /\ (i - 1) + 1 = i)
  BY <1>1
<1>5. \A i \in 1 .. n - 1 : i + 1 \in 1 .. n /\ i + 1 # 1 /\ i + 1 > 1
  BY <1>1
<1>6. ASSUME NEW l \in Keys PROVE l \in HeldBy(T, ds) <=> l \in HeldBy(S, cs)
  <2>1. (\A i \in 1 .. n : cs[i].key # l) <=> m.key # l /\ \A i \in 1 .. n - 1 : ds[i].key # l
    <3>1. ASSUME NEW i \in 1 .. n, i # 1 PROVE i - 1 \in 1 .. n - 1 /\ cs[i] = ds[i - 1]
      <4>1. i - 1 \in 1 .. n - 1 /\ (i - 1) + 1 = i
        BY <1>4, <3>1
      <4>2. ds[i - 1] = cs[(i - 1) + 1]
        BY <1>1, <4>1
      <4> QED
        BY <4>1, <4>2
    <3>2. 1 \in 1 .. n /\ \A i \in 1 .. n - 1 : i + 1 \in 1 .. n /\ ds[i] = cs[i + 1]
      BY <1>1, <1>5
    <3> QED
      BY <1>1, <3>1, <3>2
  <2>2. (\A j \in 1 .. n : j > 1 => cs[j].key # l) <=> \A j \in 1 .. n - 1 : ds[j].key # l
    <3>1. \A j \in 1 .. n : j > 1 => j - 1 \in 1 .. n - 1 /\ cs[j] = ds[j - 1]
      BY <1>1, <1>4
    <3> QED
      BY <1>1, <1>5, <3>1
  <2>3. ASSUME NEW i \in 1 .. n - 1
        PROVE  (\A j \in 1 .. n : j > i + 1 => cs[j].key # l) <=> \A j \in 1 .. n - 1 : j > i => ds[j].key # l
    <3>1. \A j \in 1 .. n : j > i + 1 => j - 1 \in 1 .. n - 1 /\ j - 1 > i /\ cs[j] = ds[j - 1]
      BY <1>1, <1>4
    <3>2. \A j \in 1 .. n - 1 : j > i => j + 1 \in 1 .. n /\ j + 1 > i + 1 /\ ds[j] = cs[j + 1]
      BY <1>1, <1>5
    <3> QED
      BY <3>1, <3>2
  <2> DEFINE Last1(i) == cs[i] = Subscribe(l) /\ \A j \in 1 .. n : j > i => cs[j].key # l
             Last2(i) == ds[i] = Subscribe(l) /\ \A j \in 1 .. n - 1 : j > i => ds[j].key # l
  <2>4. \A i \in 1 .. n - 1 : Last2(i) <=> Last1(i + 1)
    BY <1>1, <2>3
  <2>5. Last1(1) <=> m = Subscribe(l) /\ \A j \in 1 .. n - 1 : ds[j].key # l
    BY <1>1, <2>2
  <2> HIDE DEF Last1, Last2
  <2>6. (\E i \in 1 .. n : Last1(i)) <=> Last1(1) \/ \E i \in 1 .. n - 1 : Last2(i)
    <3>1. ASSUME NEW i \in 1 .. n, Last1(i), i # 1 PROVE \E j \in 1 .. n - 1 : Last2(j)
      <4>1. i - 1 \in 1 .. n - 1 /\ (i - 1) + 1 = i
        BY <1>4, <3>1
      <4>2. Last2(i - 1)
        BY <2>4, <3>1, <4>1
      <4> QED
        BY <4>1, <4>2
    <3>2. 1 \in 1 .. n
      BY <1>1
    <3> QED
      BY <1>5, <2>4, <3>1, <3>2
  <2>7. l \in HeldBy(S, cs) <=> (l \in S /\ \A i \in 1 .. n : cs[i].key # l) \/ \E i \in 1 .. n : Last1(i)
    BY <1>1 DEF HeldBy, Last1
  <2>8. l \in HeldBy(T, ds) <=> (l \in T /\ \A i \in 1 .. n - 1 : ds[i].key # l) \/ \E i \in 1 .. n - 1 : Last2(i)
    BY <1>1 DEF HeldBy, Last2
  <2> QED
    BY <1>3, <2>1, <2>5, <2>6, <2>7, <2>8
<1> QED
  BY <1>6 DEF HeldBy, T, ds, m

\* A chart that leaves a key leaves what is wanted for it.
LEMMA WantedAfterSwitch ==
    ASSUME Types, NEW c \in Charts, NEW k \in Keys, SwitchKey(c, k)
    PROVE  Wanted' = (Wanted \ {key[c]}) \union {k}
<1>1. key[c] \in Keys /\ k # key[c] /\ None \notin Charts /\ subs \in [Keys -> Charts \union {None}]
  BY LiveFeedAssumption DEF SwitchKey, Types, ClientType
<1>2. subs' = [subs EXCEPT ![key[c]] = None, ![k] = c]
  BY DEF SwitchKey, Rebound
<1> QED
  BY <1>1, <1>2 DEF Wanted

\* The client starts as SubRegistry does and every one of its steps is a step of SubRegistry,
\* or changes nothing SubRegistry speaks of: through any order of setting changes, losses and
\* reconnections, what it has asked the server for over the connection it has is exactly the
\* active subscriptions (wsClient.ts).
THEOREM RegistryStepsHold == Spec => Registry!Init /\ [][Registry!Next]_(Registry!vars)
<1>1. Init => Registry!Init
  BY DEF Init, Registry!Init, Wanted
<1>2. Init => LinkInv
  BY DEF Init, LinkInv
<1>3. ASSUME Types, LinkInv, [Next]_vars PROVE [Registry!Next]_(Registry!vars)
  <2> DEFINE have == IF ws = "open" THEN Held ELSE {}
  <2>0. Held = HeldBy(asked, commands) /\ Held' = HeldBy(asked', commands')
    BY DEF Held, HeldBy
  <2>1. ASSUME Wanted' = Wanted, have' = have, (ws' = "open") = (ws = "open")
        PROVE  [Registry!Next]_(Registry!vars)
    BY <2>1 DEF Registry!vars
  <2>2. ASSUME UNCHANGED <<ws, subs, asked, commands>> PROVE [Registry!Next]_(Registry!vars)
    BY <2>0, <2>1, <2>2 DEF Wanted
  <2>3. CASE OnOpen
    <3>1. ws = "connecting" /\ ws' = "open" /\ subs' = subs
      BY <2>3 DEF OnOpen
    <3>2. Wanted' = Wanted
      BY <3>1 DEF Wanted
    <3>3. Held' = Wanted
      BY <1>3, <2>3, HeldAfterOpen
    <3>4. Registry!Up
      BY <3>1, <3>2, <3>3 DEF Registry!Up
    <3> QED
      BY <3>4 DEF Registry!Next
  <2>4. CASE Break
    <3>1. ws = "open" /\ ws' = "lost" /\ subs' = subs
      BY <2>4 DEF Break
    <3>2. Wanted' = Wanted
      BY <3>1 DEF Wanted
    <3>3. Registry!Down
      BY <3>1, <3>2 DEF Registry!Down
    <3> QED
      BY <3>3 DEF Registry!Next
  <2>5. CASE OnClose \/ Reconnect
    <3>1. ws # "open" /\ ws' # "open" /\ subs' = subs
      BY <2>5 DEF OnClose, Reconnect
    <3>2. Wanted' = Wanted
      BY <3>1 DEF Wanted
    <3> QED
      BY <2>1, <3>1, <3>2
  <2>6. CASE ServerRead
    <3>1. ws' = ws /\ subs' = subs
      BY <2>6 DEF ServerRead, client
    <3>2. Wanted' = Wanted
      BY <3>1 DEF Wanted
    <3>3. /\ commands \in Seq(Command) /\ commands # <<>> /\ commands' = Tail(commands)
          /\ asked' = IF Head(commands).op = "subscribe" THEN asked \union {Head(commands).key}
                                                         ELSE asked \ {Head(commands).key}
      BY <1>3, <2>6 DEF ServerRead, Types, ConnectionType
    <3>4. Held' = Held
      BY <2>0, <3>3, HeldAfterRead
    <3> QED
      BY <2>1, <3>1, <3>2, <3>4
  <2>7. ASSUME NEW c \in Charts, NEW k \in Keys, SwitchKey(c, k)
        PROVE  [Registry!Next]_(Registry!vars)
    <3>1. /\ key[c] \in Keys /\ k # key[c] /\ ws' = ws /\ asked' = asked /\ commands \in Seq(Command)
          /\ commands' = IF ws = "open" THEN commands \o <<Unsubscribe(key[c]), Subscribe(k)>>
                                        ELSE commands
      BY <1>3, <2>7 DEF SwitchKey, Types, ClientType, ConnectionType
    <3>2. Wanted' = (Wanted \ {key[c]}) \union {k}
      BY <1>3, <2>7, WantedAfterSwitch
    <3>3. ws = "open" => Held' = (Held \ {key[c]}) \union {k}
      BY <2>0, <3>1, HeldAfterSwitch
    <3>4. Registry!Change(key[c], k)
      BY <3>1, <3>2, <3>3 DEF Registry!Change
    <3> QED
      BY <3>1, <3>4 DEF Registry!Next
  <2>8. ASSUME Deliver \/ (ServerStep /\ ~ServerRead) \/ UNCHANGED vars PROVE [Registry!Next]_(Registry!vars)
    <3>1. CASE Deliver \/ UNCHANGED vars
      BY <2>2, <3>1 DEF Deliver, vars, client, server, connection
    <3>2. CASE ServerStep /\ ~ServerRead
      BY <2>2, <3>2, ServerStepLeaves, OtherServerStepLeaves
    <3> QED
      BY <2>8, <3>1, <3>2
  <2>9. ASSUME NEW c \in Shown, ChartStep(c) PROVE [Registry!Next]_(Registry!vars)
    BY <2>2, <2>9, ChartStepLeaves
  <2> QED
    BY <1>3, <2>3, <2>4, <2>5, <2>6, <2>7, <2>8, <2>9, StepsAre DEF ClientStep
<1> QED
  BY <1>1, <1>2, <1>3, TypesInit, TypesStep, LinkStep, PTL DEF Spec
--------------------------------------------------------------------------------
(* The order of a list.                                                         *)

\* The newest candles of a list in order are in order.
LEMMA NewestInOrder ==
    ASSUME NEW s \in Seq(Candles), NEW k, InOrder(s, k)
    PROVE  InOrder(LastN(s, MaxCandles), k)
<1> DEFINE l == LastN(s, MaxCandles)
           n == Len(s)
           m == Len(l)
<1>0. MaxCandles \in Nat \ {0}
  BY LiveFeedAssumption
<1>1. /\ l \in Seq(Candles) /\ m = IF n > MaxCandles THEN MaxCandles ELSE n
      /\ \A i \in 1 .. m : l[i] = s[i + (n - m)]
  BY <1>0, LastNFacts
<1>2. n \in Nat /\ DOMAIN s = 1 .. n /\ DOMAIN l = 1 .. m
  BY <1>1
<1> HIDE DEF l, n, m
<1>3. m \in Nat /\ \A i \in 1 .. m : i + (n - m) \in 1 .. n
  BY <1>0, <1>1, <1>2
<1>4. m \in Nat /\ n \in Nat
  BY <1>2, <1>3
<1>5. \A i \in DOMAIN l : l[i].key = k
  BY <1>1, <1>2, <1>3 DEF InOrder
<1>6. ASSUME k \notin Base, NEW i \in 1 .. m, NEW j \in 1 .. m, i < j PROVE l[i].t < l[j].t
  <2>1. i + (n - m) \in 1 .. n /\ j + (n - m) \in 1 .. n
    BY <1>3
  <2>3. i + (n - m) < j + (n - m)
    BY <1>4, <1>6
  <2>2. s[i + (n - m)].t < s[j + (n - m)].t
    BY <1>2, <1>6, <2>1, <2>3 DEF InOrder
  <2> QED
    BY <1>1, <2>2
<1> QED
  BY <1>2, <1>5, <1>6 DEF InOrder, l

\* An older page in front of a list, or a later candle behind it, leaves it in order.
LEMMA JoinedInOrder ==
    ASSUME NEW p \in Seq(Candles), NEW s \in Seq(Candles), NEW k, InOrder(p, k), InOrder(s, k),
           k \notin Base => \A i \in DOMAIN p, j \in DOMAIN s : p[i].t < s[j].t
    PROVE  p \o s \in Seq(Candles) /\ InOrder(p \o s, k)
<1> DEFINE a == p \o s
           n == Len(p)
           m == Len(s)
<1>1. /\ n \in Nat /\ m \in Nat /\ DOMAIN p = 1 .. n /\ DOMAIN s = 1 .. m /\ DOMAIN a = 1 .. n + m
      /\ a \in Seq(Candles)
      /\ \A i \in 1 .. n + m : a[i] = IF i <= n THEN p[i] ELSE s[i - n]
  OBVIOUS
<1> HIDE DEF a, n, m
<1>2. \A i \in 1 .. n + m : IF i <= n THEN i \in 1 .. n ELSE i - n \in 1 .. m
  BY <1>1
<1>3. \A i \in DOMAIN a : a[i].key = k
  BY <1>1, <1>2 DEF InOrder
<1>4. ASSUME k \notin Base, NEW i \in 1 .. n + m, NEW j \in 1 .. n + m, i < j PROVE a[i].t < a[j].t
  <2>1. CASE j <= n
    <3>1. i <= n
      BY <1>1, <1>4, <2>1
    <3> QED
      BY <1>1, <1>2, <1>4, <2>1, <3>1 DEF InOrder
  <2>2. CASE i <= n /\ ~(j <= n)
    BY <1>1, <1>2, <1>4, <2>2
  <2>3. CASE ~(i <= n)
    <3>1. ~(j <= n) /\ i - n < j - n
      BY <1>1, <1>4, <2>3
    <3> QED
      BY <1>1, <1>2, <1>4, <2>3, <3>1 DEF InOrder
  <2> QED
    BY <2>1, <2>2, <2>3
<1> QED
  BY <1>1, <1>3, <1>4 DEF InOrder, a

\* In a list in order no candle is later than the last or earlier than the first.
LEMMA EndsInOrder ==
    ASSUME NEW s \in Seq(Candles), s # <<>>, NEW k, k \notin Base, InOrder(s, k)
    PROVE  \A i \in DOMAIN s : s[i].t <= Last(s).t /\ Head(s).t <= s[i].t
<1> DEFINE n == Len(s)
<1>1. n \in Nat /\ n >= 1 /\ DOMAIN s = 1 .. n /\ Head(s) = s[1] /\ Last(s) = s[n]
  BY CandleSequence
<1>2. \A i \in 1 .. n : s[i].t \in Nat
  BY CandleSequence
<1> HIDE DEF n
<1>3. 1 \in 1 .. n /\ n \in 1 .. n
  BY <1>1
<1>4. ASSUME NEW i \in 1 .. n PROVE s[i].t <= s[n].t /\ s[1].t <= s[i].t
  <2>1. (i = n \/ i < n) /\ (i = 1 \/ 1 < i)
    BY <1>1
  <2>2. (i < n => s[i].t < s[n].t) /\ (1 < i => s[1].t < s[i].t)
    BY <1>1, <1>3 DEF InOrder
  <2>3. s[i].t \in Nat /\ s[n].t \in Nat /\ s[1].t \in Nat
    BY <1>2, <1>3
  <2> QED
    BY <2>1, <2>2, <2>3
<1> QED
  BY <1>1, <1>4

\* A list with a candle in place of the last one.
Replaced(s, b) == [s EXCEPT ![Len(s)] = b]

\* It keeps its dates, and stays in order.
LEMMA ReplacedFacts ==
    ASSUME NEW s \in Seq(Candles), s # <<>>, NEW b \in Candles, b.t = Last(s).t
    PROVE  /\ Replaced(s, b) \in Seq(Candles) /\ Len(Replaced(s, b)) = Len(s)
           /\ \A i \in 1 .. Len(s) : Replaced(s, b)[i].t = s[i].t
           /\ \A k : InOrder(s, k) /\ b.key = k => InOrder(Replaced(s, b), k)
<1>1. Len(s) \in Nat /\ DOMAIN s = 1 .. Len(s) /\ Last(s) = s[Len(s)]
  BY CandleSequence
<1>2. /\ Replaced(s, b) \in Seq(Candles) /\ Len(Replaced(s, b)) = Len(s) /\ DOMAIN Replaced(s, b) = 1 .. Len(s)
      /\ \A i \in 1 .. Len(s) : Replaced(s, b)[i] = IF i = Len(s) THEN b ELSE s[i]
  BY DEF Replaced
<1>3. \A i \in 1 .. Len(s) : Replaced(s, b)[i].t = s[i].t
  BY <1>1, <1>2
<1>4. ASSUME NEW k, InOrder(s, k), b.key = k PROVE InOrder(Replaced(s, b), k)
  <2>1. \A i \in 1 .. Len(s) : Replaced(s, b)[i].key = k
    BY <1>1, <1>2, <1>4 DEF InOrder
  <2>2. k \notin Base => \A i, j \in 1 .. Len(s) : i < j => Replaced(s, b)[i].t < Replaced(s, b)[j].t
    BY <1>1, <1>3, <1>4 DEF InOrder
  <2> QED
    BY <1>2, <2>1, <2>2 DEF InOrder
<1> QED
  BY <1>2, <1>3, <1>4

\* A flush leaves a list in order.
LEMMA MergedInOrder ==
    ASSUME NEW k, NEW s \in Seq(Candles), InOrder(s, k), NEW b \in Candles, b.key = k
    PROVE  InOrder(Merged(s, b), k)
<1>1. <<b>> \in Seq(Candles) /\ InOrder(<<b>>, k)
  <2>1. <<b>> \in Seq(Candles) /\ DOMAIN <<b>> = 1 .. 1 /\ <<b>>[1] = b
    OBVIOUS
  <2>2. \A i \in 1 .. 1 : i = 1
    OBVIOUS
  <2>3. \A i, j \in 1 .. 1 : ~(i < j)
    OBVIOUS
  <2> QED
    BY <2>1, <2>2, <2>3 DEF InOrder
<1>2. ASSUME s = <<>> \/ b.t > Last(s).t PROVE InOrder(LastN(Append(s, b), MaxCandles), k)
  <2>1. ASSUME k \notin Base, NEW i \in DOMAIN s, NEW j \in DOMAIN <<b>> PROVE s[i].t < <<b>>[j].t
    <3>1. <<b>>[j] = b /\ s # <<>>
      OBVIOUS
    <3>2. s[i].t \in Nat /\ s[i].t <= Last(s).t /\ Last(s).t \in Nat /\ b.t \in Nat
      BY <2>1, <3>1, EndsInOrder, CandleSequence, CandleFields
    <3> QED
      BY <1>2, <3>1, <3>2
  <2>2. s \o <<b>> \in Seq(Candles) /\ InOrder(s \o <<b>>, k)
    BY <1>1, <2>1, JoinedInOrder
  <2>3. Append(s, b) = s \o <<b>>
    OBVIOUS
  <2> QED
    BY <2>2, <2>3, NewestInOrder
<1>3. ASSUME s # <<>>, b.t = Last(s).t PROVE InOrder([s EXCEPT ![Len(s)] = b], k)
  BY <1>3, ReplacedFacts DEF Replaced
<1> QED
  BY <1>2, <1>3 DEF Merged

\* Besides the property: a load that counts is for the key the chart has, and its answer is in
\* order.
OrderInv ==
    /\ \A c \in Shown : \A r \in loads[c] :
         r.active => r.key = key[c] /\ (r.answered => InOrder(r.page, r.key))
    /\ \A c \in Shown : Loaded(c) /\ c \notin spoiled => InOrder(list[c], key[c])

\* Initially every list is loading.
LEMMA OrderInit == Init => OrderInv
<1> SUFFICES ASSUME Init, NEW c \in Shown
             PROVE  /\ \A r \in loads[c] : r.active => r.key = key[c] /\ (r.answered => InOrder(r.page, r.key))
                    /\ Loaded(c) => InOrder(list[c], key[c])
  BY DEF OrderInv
<1>1. loads[c] = {NewLoad(First[c])} /\ key = First
  BY DEF Init
<1> QED
  BY <1>1 DEF NewLoad, Loaded

\* What is stored of a key's series.
LEMMA StoredTimes ==
    ASSUME Types, NEW k \in Keys
    PROVE  rows[SeriesOf[k]] \in SUBSET Times
  BY LiveFeedAssumption, ClockType DEF Types

\* Each of a chart's steps leaves its list in order, or says that it is spoiled.
LEMMA OrderChartStep ==
    ASSUME Types, OrderInv, NEW c \in Shown, ChartStep(c)
    PROVE  OrderInv'
<1>0. /\ UNCHANGED key /\ key[c] \in Keys /\ loads[c] \subseteq Load /\ loads \in [Shown -> SUBSET Load]
      /\ list[c] \in Seq(Candles) /\ list \in [Shown -> Seq(Candles)]
  BY ChartStepLeaves, LiveFeedAssumption DEF Types, ClientType, ChartType
<1>1. ASSUME \A d \in Shown \ {c} : loads'[d] = loads[d] /\ list'[d] = list[d] /\ (d \in spoiled' <=> d \in spoiled),
             \A r \in loads'[c] : r.active => r.key = key[c] /\ (r.answered => InOrder(r.page, r.key)),
             Loaded(c)' /\ c \notin spoiled' => InOrder(list'[c], key[c])
      PROVE  OrderInv'
  <2>1. \A d \in Shown \ {c} : Loaded(d)' <=> Loaded(d)
    BY <1>1 DEF Loaded
  <2>2. \A d \in Shown : \A r \in loads'[d] : r.active => r.key = key'[d] /\ (r.answered => InOrder(r.page, r.key))
    BY <1>0, <1>1 DEF OrderInv
  <2>3. ASSUME NEW d \in Shown, Loaded(d)', d \notin spoiled' PROVE InOrder(list'[d], key'[d])
    BY <1>0, <1>1, <2>1, <2>3 DEF OrderInv
  <2> QED
    BY <2>2, <2>3 DEF OrderInv
<1>2. CASE ServerAnswer(c)
  <2>1. PICK r \in loads[c] : \E p \in Answers(r.key, rows[SeriesOf[r.key]]) :
          /\ r.active
          /\ loads' = [loads EXCEPT ![c] = (@ \ {r}) \union {[r EXCEPT !.answered = TRUE, !.page = p]}]
    BY <1>2 DEF ServerAnswer
  <2>2. PICK p \in Answers(r.key, rows[SeriesOf[r.key]]) :
          /\ r.active
          /\ loads' = [loads EXCEPT ![c] = (@ \ {r}) \union {[r EXCEPT !.answered = TRUE, !.page = p]}]
    BY <2>1
  <2> DEFINE a == [r EXCEPT !.answered = TRUE, !.page = p]
  <2>3. r \in Load /\ r.key \in Keys /\ r.key = key[c]
    BY <1>0, <2>2 DEF Load, OrderInv
  <2>4. a.active = r.active /\ a.key = r.key /\ a.page = p
    BY <2>3 DEF Load
  <2>5. InOrder(p, r.key)
    BY <2>3, StoredTimes, AnswerFacts
  <2>6. loads'[c] = (loads[c] \ {r}) \union {a} /\ \A d \in Shown \ {c} : loads'[d] = loads[d]
    BY <1>0, <2>2
  <2> HIDE DEF a
  <2>7. \A q \in loads'[c] : q.active => q.key = key[c] /\ (q.answered => InOrder(q.page, q.key))
    BY <2>3, <2>4, <2>5, <2>6 DEF OrderInv
  <2>8. ~Loaded(c)'
    BY <2>2, <2>4, <2>6 DEF Loaded
  <2>9. UNCHANGED <<list, spoiled>>
    BY <1>2 DEF ServerAnswer, history
  <2> QED
    BY <1>1, <2>6, <2>7, <2>8, <2>9
<1>3. CASE LoadDone(c)
  <2>1. PICK r \in loads[c], ok \in BOOLEAN :
          /\ ok => r.answered \/ ~r.active
          /\ loads' = [loads EXCEPT ![c] = @ \ {r}]
          /\ IF r.active
               THEN /\ list' = [list EXCEPT ![c] = IF ok THEN LastN(r.page, MaxCandles) ELSE <<>>]
                    /\ spoiled' = spoiled \ {c}
               ELSE UNCHANGED <<list, spoiled>>
    BY <1>3 DEF LoadDone
  <2>2. loads'[c] = loads[c] \ {r} /\ \A d \in Shown \ {c} : loads'[d] = loads[d]
    BY <1>0, <2>1
  <2>3. \A q \in loads'[c] : q.active => q.key = key[c] /\ (q.answered => InOrder(q.page, q.key))
    BY <2>2 DEF OrderInv
  <2>4. CASE r.active
    <3>1. r.key = key[c] /\ r.page \in Seq(Candles) /\ (ok => InOrder(r.page, key[c]))
      BY <1>0, <2>1, <2>4 DEF Load, OrderInv
    <3>2. ok => InOrder(LastN(r.page, MaxCandles), key[c])
      BY <3>1, NewestInOrder
    <3>3. InOrder(<<>>, key[c])
      BY DEF InOrder
    <3>4. list'[c] = (IF ok THEN LastN(r.page, MaxCandles) ELSE <<>>)
          /\ \A d \in Shown \ {c} : list'[d] = list[d] /\ (d \in spoiled' <=> d \in spoiled)
      BY <1>0, <2>1, <2>4
    <3>5. InOrder(list'[c], key[c])
      BY <3>2, <3>3, <3>4
    <3> QED
      BY <1>1, <2>2, <2>3, <3>4, <3>5
  <2>5. CASE ~r.active
    <3>1. UNCHANGED <<list, spoiled>>
      BY <2>1, <2>5
    <3>2. Loaded(c)' => Loaded(c)
      BY <2>2, <2>5 DEF Loaded
    <3>3. Loaded(c)' /\ c \notin spoiled' => InOrder(list'[c], key[c])
      BY <3>1, <3>2 DEF OrderInv
    <3> QED
      BY <1>1, <2>2, <2>3, <3>1, <3>3
  <2> QED
    BY <2>4, <2>5
<1>4. CASE LoadMore(c)
  <2>1. UNCHANGED <<loads, list, spoiled>>
    BY <1>4 DEF LoadMore, history
  <2> QED
    BY <1>0, <2>1 DEF OrderInv, Loaded
<1>5. CASE MoreDone(c)
  <2> DEFINE stored == {t \in rows[SeriesOf[more[c].key]] : t < more[c].before}
  <2>1. CASE UNCHANGED <<list, spoiled>>
    <3>1. UNCHANGED <<loads, list, spoiled>>
      BY <1>5, <2>1 DEF MoreDone
    <3> QED
      BY <1>0, <3>1 DEF OrderInv, Loaded
  <2>2. ASSUME NEW p \in Pages(more[c].key, stored), list' = [list EXCEPT ![c] = LastN(p \o @, MaxCandles)],
               spoiled' = IF \/ list[c] = <<>> \/ more[c].key # key[c] \/ more[c].before # Head(list[c]).t
                            THEN spoiled \union {c} ELSE spoiled
        PROVE  OrderInv'
    <3>1. loads' = loads /\ more[c] \in Older
      BY <1>5 DEF MoreDone, Types, ChartType
    <3>2. list'[c] = LastN(p \o list[c], MaxCandles) /\ \A d \in Shown \ {c} : list'[d] = list[d]
      BY <1>0, <2>2
    <3>3. ASSUME Loaded(c)', c \notin spoiled' PROVE InOrder(list'[c], key[c])
      <4>1. /\ list[c] # <<>> /\ more[c].key = key[c] /\ more[c].before = Head(list[c]).t
            /\ InOrder(list[c], key[c])
        BY <2>2, <3>1, <3>3 DEF OrderInv, Loaded
      <4>2. stored \in SUBSET Times
        BY <1>0, <4>1, StoredTimes
      <4>3. p \in Seq(Candles) /\ InOrder(p, key[c]) /\ \A i \in DOMAIN p : p[i].t \in stored
        <5> HIDE DEF stored
        <5> QED
          BY <1>0, <2>2, <4>1, <4>2, PageFacts
      <4>4. ASSUME key[c] \notin Base, NEW i \in DOMAIN p, NEW j \in DOMAIN list[c] PROVE p[i].t < list[c][j].t
        <5>1. p[i].t < Head(list[c]).t /\ p[i].t \in Nat
          BY <4>1, <4>3, CandleSequence
        <5>2. Head(list[c]).t <= list[c][j].t /\ list[c][j].t \in Nat /\ Head(list[c]).t \in Nat
          BY <1>0, <4>1, <4>4, EndsInOrder, CandleSequence
        <5> QED
          BY <5>1, <5>2
      <4>5. p \o list[c] \in Seq(Candles) /\ InOrder(p \o list[c], key[c])
        <5> HIDE DEF stored
        <5> QED
          BY <1>0, <4>1, <4>3, <4>4, JoinedInOrder
      <4> QED
        BY <3>2, <4>5, NewestInOrder
    <3> HIDE DEF stored
    <3> QED
      BY <1>1, <2>2, <3>1, <3>2, <3>3 DEF OrderInv
  <2> QED
    BY <1>5, <2>1, <2>2 DEF MoreDone
<1>6. CASE Flush(c)
  <2>1. /\ buffer[c] \in Candles /\ loads' = loads
        /\ list' = [list EXCEPT ![c] = Merged(list[c], buffer[c])]
        /\ spoiled' = IF buffer[c].key # key[c] THEN spoiled \union {c} ELSE spoiled
    BY <1>6 DEF Flush, Types, ChartType
  <2>2. list'[c] = Merged(list[c], buffer[c]) /\ \A d \in Shown \ {c} : list'[d] = list[d]
    BY <1>0, <2>1
  <2>3. ASSUME Loaded(c)', c \notin spoiled' PROVE InOrder(list'[c], key[c])
    <3>1. buffer[c].key = key[c] /\ InOrder(list[c], key[c])
      BY <2>1, <2>3 DEF OrderInv, Loaded
    <3> QED
      BY <1>0, <2>1, <2>2, <3>1, MergedInOrder
  <2> QED
    BY <1>1, <2>1, <2>2, <2>3 DEF OrderInv
<1> QED
  BY <1>2, <1>3, <1>4, <1>5, <1>6 DEF ChartStep

\* Every step keeps the order.
LEMMA OrderStep == Types /\ OrderInv /\ [Next]_vars => OrderInv'
<1> SUFFICES ASSUME Types, OrderInv, [Next]_vars PROVE OrderInv'
  OBVIOUS
<1>1. ASSUME UNCHANGED <<loads, list, key, spoiled>> PROVE OrderInv'
  BY <1>1 DEF OrderInv, Loaded
<1>2. ASSUME NEW c \in Charts, NEW k \in Keys, SwitchKey(c, k) PROVE OrderInv'
  <2>1. /\ key' = [key EXCEPT ![c] = k] /\ key \in [Charts -> Keys] /\ UNCHANGED <<list, spoiled>>
        /\ loads' = [d \in Shown |-> IF d # c THEN loads[d]
                      ELSE {[r EXCEPT !.active = FALSE, !.answered = FALSE, !.page = <<>>] :
                              r \in loads[d]} \union {NewLoad(k)}]
    BY <1>2 DEF SwitchKey, Types, ClientType
  <2>2. ASSUME NEW d \in Shown, d # c
        PROVE  /\ \A r \in loads'[d] : r.active => r.key = key'[d] /\ (r.answered => InOrder(r.page, r.key))
               /\ Loaded(d)' /\ d \notin spoiled' => InOrder(list'[d], key'[d])
    <3>1. loads'[d] = loads[d] /\ key'[d] = key[d] /\ d \in Charts
      BY <2>1, <2>2, LiveFeedAssumption
    <3> QED
      BY <2>1, <3>1 DEF OrderInv, Loaded
  <2>3. ASSUME c \in Shown
        PROVE  /\ \A r \in loads'[c] : r.active => r.key = key'[c] /\ ~r.answered
               /\ ~Loaded(c)'
    <3>1. /\ loads[c] \subseteq Load /\ key'[c] = k
          /\ loads'[c] = {[r EXCEPT !.active = FALSE, !.answered = FALSE, !.page = <<>>] : r \in loads[c]}
                           \union {NewLoad(k)}
      BY <2>1, <2>3 DEF Types, ChartType
    <3>2. \A r \in Load : ~[r EXCEPT !.active = FALSE, !.answered = FALSE, !.page = <<>>].active
      BY DEF Load
    <3>3. NewLoad(k).active /\ NewLoad(k).key = k /\ ~NewLoad(k).answered
      BY DEF NewLoad
    <3> QED
      BY <3>1, <3>2, <3>3 DEF Loaded
  <2> QED
    BY <2>2, <2>3 DEF OrderInv
<1>3. ASSUME NEW c \in Shown, ChartStep(c) PROVE OrderInv'
  BY <1>3, OrderChartStep
<1>4. ASSUME ClientStep PROVE OrderInv'
  BY <1>1, <1>4, ClientStepLeaves
<1>5. ASSUME ServerStep PROVE OrderInv'
  BY <1>1, <1>5, ServerStepLeaves
<1>6. CASE UNCHANGED vars
  BY <1>1, <1>6 DEF vars, data, history
<1> QED
  BY <1>2, <1>3, <1>4, <1>5, <1>6, StepsAre

\* A loaded list is of the chart's own key and, except at the base compression, in order of
\* time through any order of answers, older pages, flushes and changes of settings (App.tsx,
\* the loading effect, handleLoadMore and the 200 ms flush), unless something meant for
\* another list went into it.
THEOREM ListInOrderHolds == Spec => []ListInOrder
<1>1. Types /\ OrderInv => ListInOrder
  <2> SUFFICES ASSUME Types, OrderInv, NEW c \in Shown, Loaded(c), c \notin spoiled
               PROVE  /\ \A i \in DOMAIN list[c] : list[c][i].key = key[c]
                      /\ key[c] \notin Base => \A i \in 1 .. Len(list[c]) - 1 : list[c][i].t < list[c][i + 1].t
    BY DEF ListInOrder
  <2>1. InOrder(list[c], key[c]) /\ list[c] \in Seq(Candles)
    BY DEF OrderInv, Types, ChartType
  <2>2. DOMAIN list[c] = 1 .. Len(list[c]) /\ Len(list[c]) \in Nat
    BY <2>1
  <2>3. \A i \in 1 .. Len(list[c]) - 1 : i \in DOMAIN list[c] /\ i + 1 \in DOMAIN list[c] /\ i < i + 1
    BY <2>2
  <2> QED
    BY <2>1, <2>3 DEF InOrder
<1> QED
  BY <1>1, TypesInit, TypesStep, OrderInit, OrderStep, PTL DEF Spec

--------------------------------------------------------------------------------
(* What becomes of a candle that was sent.                                      *)

\* A candle of each date of the list is still there behind an older page: the list alone is
\* not longer than its limit.
LEMMA PagedKeeps ==
    ASSUME NEW p \in Seq(Candles), NEW s \in Seq(Candles), Len(s) <= MaxCandles
    PROVE  Dates(s) \subseteq Dates(LastN(p \o s, MaxCandles))
<1> DEFINE a == p \o s
           l == LastN(a, MaxCandles)
           n == Len(p)
           m == Len(s)
           w == Len(l)
<1>0. MaxCandles \in Nat \ {0}
  BY LiveFeedAssumption
<1>1. /\ n \in Nat /\ m \in Nat /\ DOMAIN s = 1 .. m /\ a \in Seq(Candles) /\ Len(a) = n + m
      /\ \A i \in 1 .. m : a[n + i] = s[i]
  OBVIOUS
<1> HIDE DEF a, n, m
<1> DEFINE o == Len(a)
<1>2. /\ l \in Seq(Candles) /\ w = IF o > MaxCandles THEN MaxCandles ELSE o
      /\ \A i \in 1 .. w : l[i] = a[i + (o - w)]
  <2>1. a \in Seq(Candles)
    BY <1>1
  <2> QED
    BY <1>0, <2>1, LastNFacts
<1>5. o = n + m
  BY <1>1
<1> HIDE DEF o
<1>3. DOMAIN l = 1 .. w
  BY <1>2
<1> HIDE DEF l, w
<1>4. ASSUME NEW i \in 1 .. m PROVE s[i].t \in Dates(l)
  <2>1. m <= w /\ w \in Nat /\ w <= n + m
    <3>1. m <= MaxCandles
      BY DEF m
    <3> QED
      BY <1>0, <1>1, <1>2, <1>5, <3>1
  <2> DEFINE j == i + (w - m)
  <2>2. j \in 1 .. w /\ j + (o - w) = n + i
    BY <1>1, <1>5, <2>1
  <2> HIDE DEF j
  <2>3. l[j] = s[i]
    BY <1>1, <1>2, <2>2
  <2> QED
    BY <1>3, <2>2, <2>3 DEF Dates
<1>6. Dates(s) \subseteq Dates(l)
  BY <1>1, <1>4 DEF Dates
<1> QED
  BY <1>6 DEF l, a

\* A flush costs what Cost says and no more.
LEMMA FlushCosts ==
    ASSUME NEW s \in Seq(Candles), Len(s) <= MaxCandles, NEW b \in Candles
    PROVE  (Dates(s) \union {b.t}) \ Cost(s, b) \subseteq Dates(Merged(s, b))
<1>0. MaxCandles \in Nat \ {0} /\ b.t \in Nat
  BY LiveFeedAssumption, CandleFields
<1>1. ASSUME s = <<>> \/ b.t > Last(s).t
      PROVE  (Dates(s) \union {b.t}) \ Cost(s, b) \subseteq Dates(LastN(Append(s, b), MaxCandles))
  <2> DEFINE a == Append(s, b)
             l == LastN(a, MaxCandles)
             n == Len(s)
             w == Len(l)
  <2>1. /\ n \in Nat /\ DOMAIN s = 1 .. n /\ a \in Seq(Candles) /\ Len(a) = n + 1
        /\ a[n + 1] = b /\ \A i \in 1 .. n : a[i] = s[i]
    OBVIOUS
  <2>2. n <= MaxCandles
    OBVIOUS
  <2>3. (s = <<>> <=> n = 0) /\ (s # <<>> => Head(s) = s[1] /\ Last(s).t \in Nat)
    BY CandleSequence
  <2> HIDE DEF a, n
  <2>4. /\ l \in Seq(Candles) /\ w = IF n + 1 > MaxCandles THEN MaxCandles ELSE n + 1
        /\ \A i \in 1 .. w : l[i] = a[i + (n + 1 - w)]
    BY <1>0, <2>1, LastNFacts
  <2>5. DOMAIN l = 1 .. w
    BY <2>4
  <2> HIDE DEF l, w
  <2>6. w \in Nat /\ w >= 1 /\ (w = n + 1 \/ (w = n /\ n = MaxCandles))
    BY <1>0, <2>1, <2>2, <2>4
  <2>7. b.t \in Dates(l)
    <3>1. w \in 1 .. w /\ w + (n + 1 - w) = n + 1
      BY <2>1, <2>6
    <3>2. l[w] = b
      BY <2>1, <2>4, <3>1
    <3> QED
      BY <2>5, <3>1, <3>2 DEF Dates
  <2>8. ASSUME NEW i \in 1 .. n, w = n + 1 \/ i # 1 PROVE s[i].t \in Dates(l)
    <3> DEFINE j == i - (n + 1 - w)
    <3>1. j \in 1 .. w /\ j + (n + 1 - w) = i
      BY <2>1, <2>6, <2>8
    <3> HIDE DEF j
    <3>2. l[j] = s[i]
      BY <2>1, <2>4, <3>1
    <3> QED
      BY <2>5, <3>1, <3>2 DEF Dates
  <2>9. ASSUME NEW x \in Dates(s), x \notin Cost(s, b) PROVE x \in Dates(l)
    <3>1. PICK i \in 1 .. n : x = s[i].t
      BY <2>1 DEF Dates
    <3>2. s # <<>>
      BY <2>1, <2>3, <3>1
    <3>3. ~(b.t < Last(s).t) /\ b.t # Last(s).t
      BY <1>0, <1>1, <2>3, <3>2
    <3>4. n = MaxCandles => x # Head(s).t
      BY <2>9, <3>2, <3>3 DEF Cost, n
    <3>5. w = n + 1 \/ i # 1
      BY <2>3, <2>6, <3>1, <3>2, <3>4
    <3> QED
      BY <2>8, <3>1, <3>5
  <2>10. (Dates(s) \union {b.t}) \ Cost(s, b) \subseteq Dates(l)
    BY <2>7, <2>9
  <2> QED
    BY <2>10 DEF l, a
<1>2. ASSUME s # <<>>, b.t = Last(s).t
      PROVE  Dates(s) \union {b.t} \subseteq Dates(Replaced(s, b))
  <2>1. /\ Len(s) \in Nat /\ DOMAIN s = 1 .. Len(s) /\ Last(s) = s[Len(s)] /\ Len(s) \in 1 .. Len(s)
    BY <1>2, CandleSequence
  <2>2. Replaced(s, b) \in Seq(Candles) /\ Len(Replaced(s, b)) = Len(s)
        /\ \A i \in 1 .. Len(s) : Replaced(s, b)[i].t = s[i].t
    BY <1>2, ReplacedFacts
  <2>3. DOMAIN Replaced(s, b) = 1 .. Len(s)
    BY <2>2
  <2>4. Dates(s) \subseteq Dates(Replaced(s, b))
    BY <2>1, <2>2, <2>3 DEF Dates
  <2>5. b.t \in Dates(s)
    BY <1>2, <2>1 DEF Dates
  <2> QED
    BY <2>4, <2>5
<1>3. ASSUME s # <<>>, ~(b.t > Last(s).t), b.t # Last(s).t
      PROVE  (Dates(s) \union {b.t}) \ Cost(s, b) \subseteq Dates(s)
  <2>1. Last(s).t \in Nat
    BY <1>3, CandleSequence
  <2>2. b.t < Last(s).t
    BY <1>0, <1>3, <2>1
  <2>3. Cost(s, b) = {b.t} \ Dates(s)
    BY <1>3, <2>2 DEF Cost
  <2> QED
    BY <2>3
<1> QED
  BY <1>1, <1>2, <1>3 DEF Merged, Replaced

\* The property for one chart.
Kept(c) == Loaded(c) /\ c \notin spoiled => due[c] \subseteq Dates(list[c]) \union OnWire(c) \union Buffered(c)

\* A message that is delivered to the owner of its key is in the buffer, in place of another.
LEMMA KeptDelivered ==
    ASSUME Types, CallbackShowsKey, NEW c \in Shown, Kept(c), Deliver
    PROVE  Kept(c)'
<1> DEFINE m == Head(wire)
<1>1. /\ wire \in Seq(Candles) /\ wire # <<>> /\ wire' = Tail(wire)
      /\ UNCHANGED <<loads, list, key, spoiled>>
  BY ClientStepLeaves DEF Deliver, Types, ConnectionType
<1>2. m \in Candles /\ ToSet(wire) = {m} \union ToSet(Tail(wire))
  <2>1. m \in Candles
    BY <1>1
  <2>2. wire = <<m>> \o Tail(wire) /\ Tail(wire) \in Seq(Candles)
    BY <1>1
  <2>3. /\ Len(wire) \in Nat /\ Len(wire) >= 1 /\ DOMAIN wire = 1 .. Len(wire)
        /\ DOMAIN Tail(wire) = 1 .. Len(wire) - 1 /\ wire[1] = m
        /\ \A i \in 1 .. Len(wire) - 1 : Tail(wire)[i] = wire[i + 1]
    BY <1>1
  <2>4. ToSet(wire) \subseteq {m} \union ToSet(Tail(wire))
    <3> SUFFICES ASSUME NEW i \in 1 .. Len(wire), i # 1 PROVE wire[i] \in ToSet(Tail(wire))
      BY <2>3 DEF ToSet
    <3> DEFINE j == i - 1
    <3>1. j \in 1 .. Len(wire) - 1 /\ j + 1 = i
      BY <2>3
    <3> HIDE DEF j
    <3>2. Tail(wire)[j] = wire[i]
      BY <2>3, <3>1
    <3> QED
      BY <2>3, <3>1, <3>2 DEF ToSet
  <2>5. ToSet(Tail(wire)) \subseteq ToSet(wire)
    <3> SUFFICES ASSUME NEW i \in 1 .. Len(wire) - 1 PROVE Tail(wire)[i] \in ToSet(wire)
      BY <2>3 DEF ToSet
    <3>1. i + 1 \in 1 .. Len(wire) /\ Tail(wire)[i] = wire[i + 1]
      BY <2>3
    <3> QED
      BY <2>3, <3>1 DEF ToSet
  <2>6. m \in ToSet(wire)
    <3>1. 1 \in 1 .. Len(wire)
      BY <2>3
    <3> QED
      BY <2>3, <3>1 DEF ToSet
  <2> QED
    BY <2>1, <2>4, <2>5, <2>6
<1>3. /\ buffer' = [d \in Shown |-> IF subs[m.key] = d THEN m ELSE buffer[d]]
      /\ due' = [d \in Shown |->
            IF subs[m.key] = d THEN due[d] \ (Buffered(d) \ (Dates(list[d]) \union {m.t}))
            ELSE IF m.key = key[d] THEN due[d] \ ({m.t} \ (Dates(list[d]) \union Buffered(d)))
            ELSE due[d]]
  BY DEF Deliver
<1> HIDE DEF m
<1>4. OnWire(c) \subseteq OnWire(c)' \union (IF m.key = key[c] THEN {m.t} ELSE {})
  BY <1>1, <1>2 DEF OnWire
<1>5. Loaded(c)' = Loaded(c) /\ Dates(list[c])' = Dates(list[c])
  BY <1>1 DEF Loaded, Dates
<1>6. m.key \in Keys /\ m # None /\ c \in Charts /\ None \notin Charts
  BY <1>2, CandleFields, LiveFeedAssumption
<1>7. CASE subs[m.key] = c
  <2>1. key[c] = m.key
    BY <1>6, <1>7 DEF CallbackShowsKey
  <2>2. Buffered(c)' = {m.t}
    BY <1>1, <1>3, <1>6, <1>7, <2>1 DEF Buffered
  <2>3. due'[c] = due[c] \ (Buffered(c) \ (Dates(list[c]) \union {m.t}))
    BY <1>3, <1>7
  <2> QED
    BY <1>1, <1>4, <1>5, <2>2, <2>3 DEF Kept
<1>8. CASE subs[m.key] # c
  <2>1. Buffered(c)' = Buffered(c)
    BY <1>1, <1>3, <1>8 DEF Buffered
  <2>2. due'[c] = IF m.key = key[c] THEN due[c] \ ({m.t} \ (Dates(list[c]) \union Buffered(c))) ELSE due[c]
    BY <1>3, <1>8
  <2> QED
    BY <1>1, <1>4, <1>5, <2>1, <2>2 DEF Kept
<1> QED
  BY <1>7, <1>8

\* What the steps of the client lose, they take out of "due".
LEMMA KeptByClient ==
    ASSUME Types, CallbackShowsKey, NEW c \in Shown, Kept(c), ClientStep
    PROVE  Kept(c)'
<1>1. UNCHANGED <<loads, list, key, spoiled>>
  BY ClientStepLeaves
<1>2. CASE Deliver
  BY <1>2, KeptDelivered
<1>3. CASE Break
  <2>1. buffer' = buffer /\ wire' = <<>>
        /\ due'[c] = due[c] \ (OnWire(c) \ (Dates(list[c]) \union Buffered(c)))
    BY <1>3 DEF Break, data
  <2>2. Loaded(c)' = Loaded(c) /\ Dates(list[c])' = Dates(list[c]) /\ Buffered(c)' = Buffered(c)
    BY <1>1, <2>1 DEF Loaded, Dates, Buffered
  <2> QED
    BY <1>1, <2>1, <2>2 DEF Kept
<1>4. CASE OnOpen \/ OnClose \/ Reconnect
  <2>1. UNCHANGED <<wire, buffer, due>>
    BY <1>4 DEF OnOpen, OnClose, Reconnect, server, connection, data, history
  <2> QED
    BY <1>1, <2>1 DEF Kept, Loaded, Dates, OnWire, Buffered
<1> QED
  BY <1>2, <1>3, <1>4 DEF ClientStep

\* The server adds the same date to the wire and to "due".
LEMMA KeptByServer ==
    ASSUME Types, NEW c \in Shown, Kept(c), ServerStep
    PROVE  Kept(c)'
<1>1. UNCHANGED <<loads, list, key, spoiled, buffer>>
  BY ServerStepLeaves
<1>2. CASE UNCHANGED <<wire, due>>
  BY <1>1, <1>2 DEF Kept, Loaded, Dates, OnWire, Buffered
<1>3. ASSUME NEW m \in Candles, Sent(m) PROVE Kept(c)'
  <2>1. /\ wire \in Seq(Candles) /\ wire' = Append(wire, m)
        /\ due'[c] = IF key[c] = m.key THEN due[c] \union {m.t} ELSE due[c]
    BY <1>3 DEF Sent, Types, ConnectionType
  <2>2. ToSet(wire') = ToSet(wire) \union {m}
    <3>1. /\ Len(wire) \in Nat /\ DOMAIN wire = 1 .. Len(wire) /\ DOMAIN wire' = 1 .. Len(wire) + 1
          /\ wire'[Len(wire) + 1] = m /\ \A i \in 1 .. Len(wire) : wire'[i] = wire[i]
      BY <2>1
    <3>2. 1 .. Len(wire) + 1 = (1 .. Len(wire)) \union {Len(wire) + 1}
      BY <3>1
    <3> QED
      BY <3>1, <3>2 DEF ToSet
  <2>3. OnWire(c)' = OnWire(c) \union (IF key[c] = m.key THEN {m.t} ELSE {})
    BY <1>1, <2>2 DEF OnWire
  <2>4. Loaded(c)' = Loaded(c) /\ Dates(list[c])' = Dates(list[c]) /\ Buffered(c)' = Buffered(c)
    BY <1>1 DEF Loaded, Dates, Buffered
  <2> QED
    BY <1>1, <2>1, <2>3, <2>4 DEF Kept
<1> QED
  BY <1>2, <1>3, ServerStepSends

\* After a change of settings nothing has been sent to the chart under its new key.
LEMMA KeptBySwitch ==
    ASSUME Types, NEW d \in Charts, NEW k \in Keys, SwitchKey(d, k), NEW c \in Shown, Kept(c)
    PROVE  Kept(c)'
<1>1. UNCHANGED <<wire, list, buffer, spoiled>>
  BY DEF SwitchKey
<1>2. CASE c = d
  <2>1. due'[c] = {}
    BY <1>2 DEF SwitchKey
  <2> QED
    BY <2>1 DEF Kept
<1>3. CASE c # d
  <2>1. due'[c] = due[c] /\ loads'[c] = loads[c] /\ key'[c] = key[c]
    BY <1>3, LiveFeedAssumption DEF SwitchKey, Types, ClientType
  <2> QED
    BY <1>1, <2>1 DEF Kept, Loaded, Dates, OnWire, Buffered
<1> QED
  BY <1>2, <1>3

\* A chart's steps concern that chart.
LEMMA KeptByOthers ==
    ASSUME Types, NEW d \in Shown, ChartStep(d), NEW c \in Shown, c # d, Kept(c)
    PROVE  Kept(c)'
<1>1. UNCHANGED <<key, wire>>
  BY ChartStepLeaves
<1>2. list'[c] = list[c] /\ loads'[c] = loads[c] /\ buffer'[c] = buffer[c] /\ due'[c] = due[c]
      /\ (c \in spoiled' <=> c \in spoiled)
  <2>1. /\ list \in [Shown -> Seq(Candles)] /\ loads \in [Shown -> SUBSET Load]
        /\ buffer \in [Shown -> Candles \union {None}] /\ due \in [Shown -> SUBSET Times]
    BY DEF Types, ChartType, HistoryType
  <2>2. CASE ServerAnswer(d) \/ LoadMore(d)
    BY <2>1, <2>2 DEF ServerAnswer, LoadMore, history
  <2>3. CASE LoadDone(d)
    BY <2>1, <2>3 DEF LoadDone
  <2>4. CASE MoreDone(d)
    BY <2>1, <2>4 DEF MoreDone
  <2>5. CASE Flush(d)
    BY <2>1, <2>5 DEF Flush
  <2> QED
    BY <2>2, <2>3, <2>4, <2>5 DEF ChartStep
<1> QED
  BY <1>1, <1>2 DEF Kept, Loaded, Dates, OnWire, Buffered

\* A step of a chart loses only what the property names.
LEMMA KeptByChart ==
    ASSUME Types, NEW c \in Shown, ChartStep(c), Kept(c)
    PROVE  Kept(c)'
<1>1. UNCHANGED <<key, wire>> /\ OnWire(c)' = OnWire(c)
  BY ChartStepLeaves DEF OnWire
<1>0. /\ list[c] \in Seq(Candles) /\ Len(list[c]) <= MaxCandles /\ loads \in [Shown -> SUBSET Load]
      /\ list \in [Shown -> Seq(Candles)] /\ due \in [Shown -> SUBSET Times] /\ key[c] \in Keys
  BY LiveFeedAssumption DEF Types, ClientType, ChartType, HistoryType
<1>2. CASE ServerAnswer(c)
  <2>1. PICK r \in loads[c] : \E p \in Answers(r.key, rows[SeriesOf[r.key]]) :
          /\ r.active
          /\ loads' = [loads EXCEPT ![c] = (@ \ {r}) \union {[r EXCEPT !.answered = TRUE, !.page = p]}]
    BY <1>2 DEF ServerAnswer
  <2>2. r \in Load
    BY <1>0
  <2>3. \E q \in loads'[c] : q.active
    <3>1. PICK p \in Answers(r.key, rows[SeriesOf[r.key]]) :
            loads' = [loads EXCEPT ![c] = (@ \ {r}) \union {[r EXCEPT !.answered = TRUE, !.page = p]}]
      BY <2>1
    <3>2. [r EXCEPT !.answered = TRUE, !.page = p].active = r.active
      BY <2>2 DEF Load
    <3>3. [r EXCEPT !.answered = TRUE, !.page = p] \in loads'[c]
      BY <1>0, <3>1
    <3> QED
      BY <2>1, <3>2, <3>3
  <2>4. ~Loaded(c)'
    BY <2>3 DEF Loaded
  <2> QED
    BY <2>4 DEF Kept
<1>3. CASE LoadDone(c)
  <2>1. PICK r \in loads[c], ok \in BOOLEAN :
          /\ loads' = [loads EXCEPT ![c] = @ \ {r}]
          /\ IF r.active
               THEN LET loaded == IF ok THEN LastN(r.page, MaxCandles) ELSE <<>> IN
                    /\ list' = [list EXCEPT ![c] = loaded]
                    /\ due' = [due EXCEPT ![c] =
                                 Dates(loaded) \union (@ \intersect (OnWire(c) \union Buffered(c)))]
               ELSE UNCHANGED <<list, spoiled, due>>
          /\ UNCHANGED buffer
    BY <1>3 DEF LoadDone
  <2>2. Buffered(c)' = Buffered(c)
    BY <1>1, <2>1 DEF Buffered
  <2>3. CASE r.active
    <3> DEFINE loaded == IF ok THEN LastN(r.page, MaxCandles) ELSE <<>>
    <3>1. list'[c] = loaded
          /\ due'[c] = Dates(loaded) \union (due[c] \intersect (OnWire(c) \union Buffered(c)))
      BY <1>0, <2>1, <2>3
    <3> HIDE DEF loaded
    <3>2. Dates(list[c])' = Dates(loaded)
      BY <3>1 DEF Dates
    <3> QED
      BY <1>1, <2>2, <3>1, <3>2 DEF Kept
  <2>4. CASE ~r.active
    <3>1. UNCHANGED <<list, spoiled, due>> /\ loads'[c] = loads[c] \ {r}
      BY <1>0, <2>1, <2>4
    <3>2. Loaded(c)' => Loaded(c)
      BY <2>4, <3>1 DEF Loaded
    <3>3. Dates(list[c])' = Dates(list[c])
      BY <3>1 DEF Dates
    <3> QED
      BY <1>1, <2>2, <3>1, <3>2, <3>3 DEF Kept
  <2> QED
    BY <2>3, <2>4
<1>4. CASE LoadMore(c)
  <2>1. UNCHANGED <<loads, list, buffer, spoiled, due>>
    BY <1>4 DEF LoadMore, history
  <2> QED
    BY <1>1, <2>1 DEF Kept, Loaded, Dates, Buffered
<1>5. CASE MoreDone(c)
  <2>1. UNCHANGED <<loads, buffer, due>> /\ (c \notin spoiled' => c \notin spoiled)
    BY <1>5 DEF MoreDone
  <2>2. Buffered(c)' = Buffered(c) /\ Loaded(c)' = Loaded(c)
    BY <1>1, <2>1 DEF Buffered, Loaded
  <2>3. Dates(list[c]) \subseteq Dates(list'[c])
    <3>1. more[c].key \in Keys
      BY <1>5 DEF MoreDone, Types, ChartType, Older
    <3>2. {t \in rows[SeriesOf[more[c].key]] : t < more[c].before} \in SUBSET Times
      BY <3>1, StoredTimes
    <3>3. ASSUME NEW p \in Pages(more[c].key, {t \in rows[SeriesOf[more[c].key]] : t < more[c].before})
          PROVE  Dates(list[c]) \subseteq Dates(LastN(p \o list[c], MaxCandles))
      <4>1. p \in Seq(Candles)
        BY <3>1, <3>2, PageFacts
      <4> QED
        BY <1>0, <4>1, PagedKeeps
    <3>4. \/ list' = list
          \/ \E p \in Pages(more[c].key, {t \in rows[SeriesOf[more[c].key]] : t < more[c].before}) :
               list'[c] = LastN(p \o list[c], MaxCandles)
      BY <1>0, <1>5 DEF MoreDone
    <3> QED
      BY <3>3, <3>4
  <2>4. Dates(list[c])' = Dates(list'[c])
    BY DEF Dates
  <2> QED
    BY <1>1, <2>1, <2>2, <2>3, <2>4 DEF Kept
<1>6. CASE Flush(c)
  <2>1. /\ buffer[c] \in Candles /\ buffer'[c] = None /\ loads' = loads
        /\ list'[c] = Merged(list[c], buffer[c])
        /\ spoiled' = IF buffer[c].key # key[c] THEN spoiled \union {c} ELSE spoiled
        /\ due'[c] = (due[c] \union Buffered(c)) \ Cost(list[c], buffer[c])
    BY <1>0, <1>6 DEF Flush, Types, ChartType
  <2>2. Loaded(c)' = Loaded(c) /\ Dates(list[c])' = Dates(Merged(list[c], buffer[c]))
    BY <2>1 DEF Loaded, Dates
  <2>3. Buffered(c) \subseteq {buffer[c].t}
    BY DEF Buffered
  <2>4. (Dates(list[c]) \union {buffer[c].t}) \ Cost(list[c], buffer[c]) \subseteq Dates(Merged(list[c], buffer[c]))
    BY <1>0, <2>1, FlushCosts
  <2>5. c \notin spoiled' => c \notin spoiled
    BY <2>1
  <2> QED
    BY <1>1, <2>1, <2>2, <2>3, <2>4, <2>5 DEF Kept
<1> QED
  BY <1>2, <1>3, <1>4, <1>5, <1>6 DEF ChartStep

\* Every step keeps what was sent.
LEMMA KeptStep == Types /\ CallbackShowsKey /\ SentCandleKept /\ [Next]_vars => SentCandleKept'
<1> SUFFICES ASSUME Types, CallbackShowsKey, SentCandleKept, [Next]_vars, NEW c \in Shown
             PROVE  Kept(c)'
  BY DEF SentCandleKept, Kept
<1>0. Kept(c)
  BY DEF SentCandleKept, Kept
<1>1. ASSUME ClientStep PROVE Kept(c)'
  BY <1>0, <1>1, KeptByClient
<1>2. ASSUME ServerStep PROVE Kept(c)'
  BY <1>0, <1>2, KeptByServer
<1>3. ASSUME NEW d \in Charts, NEW k \in Keys, SwitchKey(d, k) PROVE Kept(c)'
  BY <1>0, <1>3, KeptBySwitch
<1>4. ASSUME NEW d \in Shown, ChartStep(d) PROVE Kept(c)'
  BY <1>0, <1>4, KeptByOthers, KeptByChart
<1>5. CASE UNCHANGED vars
  <2>1. UNCHANGED <<loads, list, buffer, key, wire, spoiled, due>>
    BY <1>5 DEF vars, server, connection, data, history
  <2> QED
    BY <1>0, <2>1 DEF Kept, Loaded, Dates, OnWire, Buffered
<1> QED
  BY <1>1, <1>2, <1>3, <1>4, <1>5, StepsAre

\* No candle sent to a chart under its key goes missing in any other way than those the
\* property lists, whatever order messages, flushes, answers, older pages, lost connections
\* and changes of settings come in (App.tsx, the effects of a chart; wsClient.ts).
THEOREM SentCandleKeptHolds == Spec => []SentCandleKept
<1>1. Init => SentCandleKept
  BY DEF Init, SentCandleKept
<1>2. SubscriptionInv => CallbackShowsKey
  BY DEF SubscriptionInv
<1> QED
  BY <1>1, <1>2, TypesInit, TypesStep, SubscriptionInit, SubscriptionStep, KeptStep, PTL DEF Spec

================================================================================
