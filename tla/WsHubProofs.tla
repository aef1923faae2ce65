----------------------------- MODULE WsHubProofs ------------------------------
(***************************************************************************)
(* Theorems about WsHub, for every set of clients and addresses and all    *)
(* limits and bounds.                                                      *)
(***************************************************************************)
EXTENDS WsHub, FiniteSetTheorems, TLAPS

USE WsHubAssumption

-------------------------------------------------------------------------------
(* Slow clients.                                                           *)

\* The flags are flags, besides NoSilentGap itself.
GapInv ==
    /\ closed \in [Clients -> BOOLEAN]
    /\ NoSilentGap

\* A message that is offered to a full channel puts its client among the closing ones.
LEMMA OfferKeeps ==
    ASSUME GapInv, NEW c, NEW m, Offer(c, m), UNCHANGED closed
    PROVE  GapInv'
  BY DEF GapInv, NoSilentGap, Offer

\* Only an offer, a Close and a new connection's flags concern NoSilentGap.
LEMMA GapInvStep == GapInv /\ [Next]_vars => GapInv'
<1> SUFFICES ASSUME GapInv, [Next]_vars PROVE GapInv'
  OBVIOUS
<1>1. ASSUME NEW c \in Clients, ServeHTTP(c) \/ ReadPump(c) \/ WritePump(c) \/ PeerCloses(c)
      PROVE  GapInv'
  <2>1. UNCHANGED <<closed, closing, missed>>
    BY <1>1 DEF ServeHTTP, Accept, UpgradeError, Upgrade, Register, StartPumps, ReadPump, HandleMessage,
       Subscribe, Unsubscribe, BadMessage, Answer, ReadFails, Unregister, WritePump, Deliver, WriteFails,
       PeerCloses, connVars
  <2> QED
    BY <2>1 DEF GapInv, NoSilentGap
<1>2. ASSUME NEW c \in Clients, Close(c) PROVE GapInv'
  BY <1>2 DEF Close, GapInv, NoSilentGap
<1>3. CASE SendUpdate
  BY <1>3, OfferKeeps DEF SendUpdate
<1>4. CASE Tick \/ BroadcastTick \/ BroadcastSub \/ Snapshot \/ CandleCloses \/ NotifyCandleClose \/ UNCHANGED vars
  <2>1. UNCHANGED <<closed, closing, missed>>
    BY <1>4 DEF Tick, BroadcastTick, BroadcastSub, Snapshot, CandleCloses, NotifyCandleClose, connVars, vars
  <2> QED
    BY <2>1 DEF GapInv, NoSilentGap
<1>5. ASSUME NEW s \in senders, SendCloseOpen(s) PROVE GapInv'
  <2>1. CASE StartSender(s)
    BY <2>1 DEF StartSender, connVars, GapInv, NoSilentGap
  <2>2. CASE SendClose(s)
    BY <2>2, OfferKeeps DEF SendClose
  <2>3. CASE SendOpen(s)
    BY <2>3, OfferKeeps DEF SendOpen
  <2> QED
    BY <1>5, <2>1, <2>2, <2>3 DEF SendCloseOpen
<1> QED
  BY <1>1, <1>2, <1>3, <1>4, <1>5 DEF Next, Broadcast

\* Whoever misses an update, a close or an open is being closed or has been: neither the
\* broadcast loop nor the goroutines that announce a candle drop a message and go on.
THEOREM NoSilentGapHolds == Spec => []NoSilentGap
<1>1. Init => GapInv
  BY DEF Init, GapInv, NoSilentGap
<1>2. GapInv => NoSilentGap
  BY DEF GapInv
<1> QED
  BY <1>1, <1>2, GapInvStep, PTL DEF Spec

-------------------------------------------------------------------------------
(* Subscriptions.                                                          *)

\* Where the goroutine of a connection stands tells whether the hub knows the client.
Before == {"none", "upgrade", "refused", "register"}
During == {"count", "read", "ok", "error", "unregister"}

SubTypes ==
    /\ rpc \in [Clients -> Before \cup During \cup {"stuck"}]
    /\ subKeys \in [Clients -> SUBSET Keys]
    /\ subs \subseteq Keys \X Clients
    /\ registered \subseteq Clients

Known ==
    \A c \in Clients :
        /\ rpc[c] \in Before => c \notin registered /\ subKeys[c] = {}
        /\ rpc[c] \in During => c \in registered

SubInv == SubTypes /\ Known /\ SubsMirror

\* What a subscription asks for is a key the hub can broadcast.
LEMMA KeyOfRequest ==
    ASSUME NEW comp, ValidCompression(comp)
    PROVE  SubscriptionKey(comp) \in Keys
<1>1. BaseCompression * 1 = BaseCompression /\ 1 \in 1..CompressionLevels
  OBVIOUS
<1>2. BaseCompression \in Keys
  BY <1>1 DEF Keys
<1> QED
  BY <1>2 DEF ValidCompression, SubscriptionKey

\* A connection that moves on without touching the subscriptions.
LEMMA MovesOn ==
    ASSUME SubInv, NEW c \in Clients, NEW to, rpc' = [rpc EXCEPT ![c] = to],
           UNCHANGED <<subKeys, subs, registered>>,
           \/ rpc[c] \in Before /\ to \in Before
           \/ rpc[c] \in During /\ to \in During
    PROVE  SubInv'
<1>1. SubTypes' /\ Known'
  BY DEF SubInv, SubTypes, Known, Before, During
<1>2. SubsMirror'
  BY DEF SubInv, SubsMirror
<1> QED
  BY <1>1, <1>2 DEF SubInv

\* A request leaves both copies of the subscriptions alike.
LEMMA RequestKeeps ==
    ASSUME SubInv, NEW c \in Clients, NEW comp, Subscribe(c, comp) \/ Unsubscribe(c, comp)
    PROVE  SubInv'
<1>1. rpc[c] = "read" /\ c \in registered
  BY DEF Subscribe, Unsubscribe, Receive, SubInv, Known, During
<1>2. CASE Subscribe(c, comp)
  <2>1. CASE UNCHANGED <<subKeys, subs>>
    BY <1>1, <1>2, <2>1, MovesOn DEF Subscribe, During
  <2>2. CASE ~UNCHANGED <<subKeys, subs>>
    <3> DEFINE key == SubscriptionKey(comp)
    <3>1. /\ rpc' = [rpc EXCEPT ![c] = "ok"] /\ registered' = registered
          /\ subKeys' = [subKeys EXCEPT ![c] = @ \cup {key}] /\ subs' = subs \cup {<<key, c>>}
      BY <1>2, <2>2 DEF Subscribe
    <3>2. key \in Keys
      BY <1>2, KeyOfRequest DEF Subscribe
    <3> HIDE DEF key
    <3>3. SubTypes' /\ Known'
      BY <1>1, <3>1, <3>2 DEF SubInv, SubTypes, Known, Before, During
    <3>4. SubsMirror'
      BY <1>1, <3>1, <3>2 DEF SubInv, SubTypes, SubsMirror
    <3> QED
      BY <3>3, <3>4 DEF SubInv
  <2> QED
    BY <2>1, <2>2
<1>3. CASE Unsubscribe(c, comp)
  <2>1. /\ rpc' = [rpc EXCEPT ![c] = "ok"] /\ registered' = registered
        /\ subKeys' = [subKeys EXCEPT ![c] = @ \ {comp}] /\ subs' = subs \ {<<comp, c>>}
    BY <1>3 DEF Unsubscribe
  <2>2. SubTypes' /\ Known'
    BY <1>1, <2>1 DEF SubInv, SubTypes, Known, Before, During
  <2>3. SubsMirror'
    BY <1>1, <2>1 DEF SubInv, SubTypes, SubsMirror
  <2> QED
    BY <2>2, <2>3 DEF SubInv
<1> QED
  BY <1>2, <1>3

\* Register and Unregister change who the hub knows, and what it knows of it.
LEMMA MembershipKeeps ==
    ASSUME SubInv, NEW c \in Clients, Register(c) \/ Unregister(c)
    PROVE  SubInv'
<1>1. CASE Register(c)
  <2>1. /\ rpc[c] = "register" /\ rpc' = [rpc EXCEPT ![c] = "count"]
        /\ registered' = registered \cup {c} /\ UNCHANGED <<subKeys, subs>>
    BY <1>1 DEF Register
  <2>2. SubTypes' /\ Known'
    BY <2>1 DEF SubInv, SubTypes, Known, Before, During
  <2>3. subKeys[c] = {} /\ \A s \in subs : s[2] # c
    BY <2>1 DEF SubInv, SubsMirror, Known, Before
  <2>4. {k \in Keys : <<k, c>> \in subs} = {}
    BY <2>3
  <2>5. SubsMirror'
    BY <2>1, <2>3, <2>4 DEF SubInv, SubsMirror
  <2> QED
    BY <2>2, <2>5 DEF SubInv
<1>2. CASE Unregister(c)
  <2>1. /\ rpc' = [rpc EXCEPT ![c] = "stuck"] /\ subs' = {s \in subs : s[2] # c}
        /\ registered' = registered \ {c} /\ UNCHANGED subKeys
    BY <1>2 DEF Unregister
  <2>2. SubTypes' /\ Known'
    BY <2>1 DEF SubInv, SubTypes, Known, Before, During
  <2>3. SubsMirror'
    BY <2>1 DEF SubInv, SubsMirror
  <2> QED
    BY <2>2, <2>3 DEF SubInv
<1> QED
  BY <1>1, <1>2

\* Every step keeps the two copies alike.
LEMMA SubInvStep == SubInv /\ [Next]_vars => SubInv'
<1> SUFFICES ASSUME SubInv, [Next]_vars PROVE SubInv'
  OBVIOUS
<1>1. ASSUME UNCHANGED <<rpc, subKeys, subs, registered>> PROVE SubInv'
  BY <1>1 DEF SubInv, SubTypes, Known, SubsMirror
<1>2. ASSUME NEW c \in Clients, ServeHTTP(c) PROVE SubInv'
  <2>1. CASE Accept(c)
    <3>1. PICK to \in {"upgrade", "refused"} : rpc' = [rpc EXCEPT ![c] = to]
      BY <2>1 DEF Accept
    <3> QED
      BY <2>1, <3>1, MovesOn DEF Accept, subVars, Before
  <2>2. CASE UpgradeError(c)
    BY <2>2, MovesOn DEF UpgradeError, subVars, Before
  <2>3. CASE Upgrade(c)
    BY <2>3, MovesOn DEF Upgrade, subVars, Before
  <2>4. CASE StartPumps(c)
    BY <2>4, MovesOn DEF StartPumps, subVars, During
  <2> QED
    BY <1>2, <2>1, <2>2, <2>3, <2>4, MembershipKeeps DEF ServeHTTP
<1>3. ASSUME NEW c \in Clients, ReadPump(c) PROVE SubInv'
  <2>1. CASE BadMessage(c)
    BY <2>1, MovesOn DEF BadMessage, Receive, subVars, During
  <2>2. CASE Answer(c)
    BY <2>2, MovesOn DEF Answer, subVars, During
  <2>3. CASE ReadFails(c)
    BY <2>3, MovesOn DEF ReadFails, subVars, During
  <2> QED
    BY <1>3, <2>1, <2>2, <2>3, RequestKeeps, MembershipKeeps DEF ReadPump, HandleMessage
<1>4. ASSUME NEW c \in Clients, WritePump(c) \/ Close(c) \/ PeerCloses(c) PROVE SubInv'
  BY <1>1, <1>4 DEF WritePump, Deliver, WriteFails, Close, PeerCloses, connVars, subVars
<1>5. CASE Broadcast \/ CandleCloses \/ NotifyCandleClose \/ UNCHANGED vars
  BY <1>1, <1>5 DEF Broadcast, Tick, BroadcastTick, BroadcastSub, Snapshot, SendUpdate, CandleCloses,
     NotifyCandleClose, connVars, subVars, vars
<1>6. ASSUME NEW s \in senders, SendCloseOpen(s) PROVE SubInv'
  BY <1>1, <1>6 DEF SendCloseOpen, StartSender, SendClose, SendOpen, connVars, subVars
<1> QED
  BY <1>2, <1>3, <1>4, <1>5, <1>6 DEF Next

\* The hub's subscriptions and those every registered client keeps itself are the same,
\* whatever the clients ask for and however connections come and go.
THEOREM SubsMirrorHolds == Spec => []SubsMirror
<1>1. Init => SubInv
  BY DEF Init, SubInv, SubTypes, Known, SubsMirror, Before, During
<1>2. SubInv => SubsMirror
  BY DEF SubInv
<1> QED
  BY <1>1, <1>2, SubInvStep, PTL DEF Spec

-------------------------------------------------------------------------------
(* Slots.                                                                  *)

\* The connections that hold a slot of their address, if it counts.
Holders(a) == {c \in Clients : addr[c] = a /\ rpc[c] \notin {"none", "refused"}}

SlotTypes ==
    /\ addr \in [Clients -> Addresses]
    /\ rpc \in [Clients -> Before \cup During \cup {"stuck"}]
    /\ slots \in [Addresses -> Nat]

\* An address of the machine itself has no entry, any other one as many as it has holders:
\* always finitely many, also of infinitely many clients.
SlotInv ==
    /\ SlotTypes
    /\ \A a \in LocalAddresses : slots[a] = 0
    /\ \A a \in Addresses \ LocalAddresses :
         IsFiniteSet(Holders(a)) /\ slots[a] = Cardinality(Holders(a))

\* A connection that neither takes nor gives back a slot.
LEMMA SlotsKept ==
    ASSUME SlotInv, UNCHANGED <<addr, slots>>, rpc' \in [Clients -> Before \cup During \cup {"stuck"}],
           \A c \in Clients : rpc'[c] \in {"none", "refused"} <=> rpc[c] \in {"none", "refused"}
    PROVE  SlotInv'
<1>1. \A a : Holders(a)' = Holders(a)
  BY DEF Holders
<1>2. SlotTypes'
  BY DEF SlotInv, SlotTypes
<1> QED
  BY <1>1, <1>2 DEF SlotInv

\* checkIPLimit takes a slot, or lets an address of the machine through without one.
LEMMA AcceptKeeps ==
    ASSUME SlotInv, NEW c \in Clients, Accept(c)
    PROVE  SlotInv'
<1>1. PICK ip \in Addresses :
        /\ rpc[c] = "none" /\ addr' = [addr EXCEPT ![c] = ip]
        /\ \/ ip \in LocalAddresses /\ rpc' = [rpc EXCEPT ![c] = "upgrade"] /\ slots' = slots
           \/ /\ ip \notin LocalAddresses
              /\ slots' = [slots EXCEPT ![ip] = @ + 1] /\ rpc' = [rpc EXCEPT ![c] = "upgrade"]
           \/ ip \notin LocalAddresses /\ rpc' = [rpc EXCEPT ![c] = "refused"] /\ slots' = slots
  BY DEF Accept
<1>2. SlotTypes'
  BY <1>1 DEF SlotInv, SlotTypes, Before, During
<1>3. \A a \in LocalAddresses : slots'[a] = 0
  BY <1>1 DEF SlotInv, SlotTypes
<1>4. ASSUME NEW a \in Addresses \ LocalAddresses
      PROVE  IsFiniteSet(Holders(a)') /\ slots'[a] = Cardinality(Holders(a)')
  <2>1. CASE a = ip /\ rpc' = [rpc EXCEPT ![c] = "upgrade"]
    <3>1. Holders(a)' = Holders(a) \cup {c} /\ c \notin Holders(a)
      BY <1>1, <2>1 DEF SlotInv, SlotTypes, Holders
    <3>2. slots'[a] = slots[a] + 1
      BY <1>1, <2>1 DEF SlotInv, SlotTypes
    <3> QED
      BY <3>1, <3>2, FS_AddElement DEF SlotInv
  <2>2. CASE ~(a = ip /\ rpc' = [rpc EXCEPT ![c] = "upgrade"])
    <3>1. Holders(a)' = Holders(a)
      BY <1>1, <2>2 DEF SlotInv, SlotTypes, Holders
    <3>2. slots'[a] = slots[a]
      BY <1>1, <2>2 DEF SlotInv, SlotTypes
    <3> QED
      BY <3>1, <3>2 DEF SlotInv
  <2> QED
    BY <2>1, <2>2
<1> QED
  BY <1>2, <1>3, <1>4 DEF SlotInv

\* A failed upgrade gives the slot back, if there is one.
LEMMA UpgradeErrorKeeps ==
    ASSUME SlotInv, NEW c \in Clients, UpgradeError(c)
    PROVE  SlotInv'
<1> DEFINE ip == addr[c]
<1>1. /\ rpc[c] = "upgrade" /\ rpc' = [rpc EXCEPT ![c] = "refused"] /\ addr' = addr
      /\ slots' = [slots EXCEPT ![ip] = Release(slots[ip])] /\ ip \in Addresses
  BY DEF UpgradeError, SlotInv, SlotTypes
<1>2. ip \in Addresses
  BY DEF SlotInv, SlotTypes
<1>3. \A n \in Nat : Release(n) \in Nat /\ Release(0) = 0
  BY DEF Release
<1>4. SlotTypes'
  BY <1>1, <1>2, <1>3 DEF SlotInv, SlotTypes, Before, During
<1>5. \A a \in LocalAddresses : slots'[a] = 0
  BY <1>1, <1>3 DEF SlotInv, SlotTypes
<1>6. ASSUME NEW a \in Addresses \ LocalAddresses
      PROVE  IsFiniteSet(Holders(a)') /\ slots'[a] = Cardinality(Holders(a)')
  <2>0. IsFiniteSet(Holders(a)) /\ slots[a] = Cardinality(Holders(a)) /\ slots[a] \in Nat
    BY DEF SlotInv, SlotTypes
  <2>1. CASE a = ip
    <3>1. c \in Holders(a) /\ Holders(a)' = Holders(a) \ {c}
      BY <1>1, <2>1 DEF SlotInv, SlotTypes, Holders
    <3>2. slots[a] # 0
      BY <2>0, <3>1, FS_EmptySet
    <3>3. slots'[a] = slots[a] - 1
      BY <1>1, <2>0, <2>1, <3>2 DEF SlotInv, SlotTypes, Release
    <3> QED
      BY <2>0, <3>1, <3>3, FS_RemoveElement
  <2>2. CASE a # ip
    <3>1. Holders(a)' = Holders(a)
      BY <1>1, <2>2 DEF SlotInv, SlotTypes, Holders
    <3>2. slots'[a] = slots[a]
      BY <1>1, <2>2 DEF SlotInv, SlotTypes
    <3> QED
      BY <2>0, <3>1, <3>2
  <2> QED
    BY <2>1, <2>2
<1> QED
  BY <1>4, <1>5, <1>6 DEF SlotInv

\* Every step leaves each address with as many slots as it has holders.
LEMMA SlotInvStep == SlotInv /\ [Next]_vars => SlotInv'
<1> SUFFICES ASSUME SlotInv, [Next]_vars PROVE SlotInv'
  OBVIOUS
<1>0. rpc \in [Clients -> Before \cup During \cup {"stuck"}]
  BY DEF SlotInv, SlotTypes
<1>1. ASSUME UNCHANGED <<rpc, addr, slots>> PROVE SlotInv'
  BY <1>0, <1>1, SlotsKept
<1>2. ASSUME NEW c \in Clients, NEW to \in Before \cup During \cup {"stuck"},
             rpc' = [rpc EXCEPT ![c] = to], UNCHANGED <<addr, slots>>,
             rpc[c] \notin {"none", "refused"}, to \notin {"none", "refused"}
      PROVE  SlotInv'
  <2>1. rpc' \in [Clients -> Before \cup During \cup {"stuck"}]
    BY <1>0, <1>2
  <2>2. \A d \in Clients : rpc'[d] \in {"none", "refused"} <=> rpc[d] \in {"none", "refused"}
    BY <1>0, <1>2
  <2> QED
    BY <1>2, <2>1, <2>2, SlotsKept
<1>3. ASSUME NEW c \in Clients, Upgrade(c) \/ Register(c) \/ StartPumps(c) PROVE SlotInv'
  BY <1>2, <1>3 DEF Upgrade, Register, StartPumps, Before, During
<1>4. ASSUME NEW c \in Clients, HandleMessage(c) PROVE SlotInv'
  <2>0. {"read", "ok", "error"} \subseteq During
    BY DEF During
  <2>1. CASE BadMessage(c)
    <3>1. rpc[c] = "read" /\ rpc' = [rpc EXCEPT ![c] = "error"] /\ UNCHANGED <<addr, slots>>
      BY <2>1 DEF BadMessage, Receive
    <3> QED
      BY <1>2, <2>0, <3>1
  <2>2. CASE Answer(c)
    <3>1. rpc[c] \in {"ok", "error"} /\ rpc' = [rpc EXCEPT ![c] = "read"] /\ UNCHANGED <<addr, slots>>
      BY <2>2 DEF Answer
    <3> QED
      BY <1>2, <2>0, <3>1
  <2>3. ASSUME NEW comp, Subscribe(c, comp) PROVE SlotInv'
    <3>1. PICK to \in {"error", "ok"} : rpc' = [rpc EXCEPT ![c] = to]
      BY <2>3 DEF Subscribe
    <3>2. rpc[c] = "read" /\ UNCHANGED <<addr, slots>>
      BY <2>3 DEF Subscribe, Receive
    <3> QED
      BY <1>2, <2>0, <3>1, <3>2
  <2>4. ASSUME NEW comp, Unsubscribe(c, comp) PROVE SlotInv'
    <3>1. rpc[c] = "read" /\ rpc' = [rpc EXCEPT ![c] = "ok"] /\ UNCHANGED <<addr, slots>>
      BY <2>4 DEF Unsubscribe, Receive
    <3> QED
      BY <1>2, <2>0, <3>1
  <2> QED
    BY <1>4, <2>1, <2>2, <2>3, <2>4 DEF HandleMessage
<1>5. ASSUME NEW c \in Clients, ReadFails(c) \/ Unregister(c) PROVE SlotInv'
  BY <1>2, <1>5 DEF ReadFails, Unregister, Before, During
<1>6. ASSUME NEW c \in Clients, WritePump(c) \/ Close(c) \/ PeerCloses(c) PROVE SlotInv'
  BY <1>1, <1>6 DEF WritePump, Deliver, WriteFails, Close, PeerCloses, connVars
<1>7. CASE Broadcast \/ CandleCloses \/ NotifyCandleClose \/ UNCHANGED vars
  BY <1>1, <1>7 DEF Broadcast, Tick, BroadcastTick, BroadcastSub, Snapshot, SendUpdate, CandleCloses,
     NotifyCandleClose, connVars, vars
<1>8. ASSUME NEW s \in senders, SendCloseOpen(s) PROVE SlotInv'
  BY <1>1, <1>8 DEF SendCloseOpen, StartSender, SendClose, SendOpen, connVars
<1> QED
  BY <1>3, <1>4, <1>5, <1>6, <1>7, <1>8, AcceptKeeps, UpgradeErrorKeeps DEF Next, ServeHTTP, ReadPump

\* No slot of an address is leaked or handed out twice (handler.go, checkIPLimit and
\* releaseIP), of any number of connections.
THEOREM SlotsAccountedHolds == Spec => []SlotsAccounted
<1>1. Init => SlotInv
  <2> SUFFICES ASSUME Init PROVE SlotInv
    OBVIOUS
  <2>1. SlotTypes
    BY DEF Init, SlotTypes, Before, During
  <2>2. \A a : Holders(a) = {}
    BY DEF Init, Holders
  <2> QED
    BY <2>1, <2>2, FS_EmptySet DEF Init, SlotInv
<1>2. SlotInv => SlotsAccounted
  BY DEF SlotInv, SlotsAccounted, Holders
<1> QED
  BY <1>1, <1>2, SlotInvStep, PTL DEF Spec

-------------------------------------------------------------------------------
(* Types, in five parts.                                                   *)

ConnType ==
    /\ addr \in [Clients -> Addresses]
    /\ conn \in [Clients -> {"none", "open", "closed"}]
    /\ rpc \in [Clients -> {"none", "upgrade", "refused", "register", "count", "read",
                            "ok", "error", "unregister", "stuck"}]
    /\ wpc \in [Clients -> {"none", "run", "done"}]
    /\ closed \in [Clients -> BOOLEAN] /\ closing \subseteq Clients
    /\ slots \in [Addresses -> Nat]

SubType ==
    /\ subKeys \in [Clients -> SUBSET Keys]
    /\ hubLock \in Clients \cup {"free"}
    /\ registered \subseteq Clients /\ subs \subseteq Keys \X Clients

SendType == send \in [Clients -> Seq(Message)] /\ missed \subseteq Clients

CastType ==
    /\ bpc \in {"idle", "tick", "key", "snapshot", "send"}
    /\ keys \subseteq Keys /\ message \in Message /\ targets \subseteq Clients

CloseType ==
    /\ clock \in Times /\ notices \subseteq Times /\ senders \subseteq Sender
    /\ owed \subseteq Clients \X Keys \X Times
    /\ given \subseteq Clients \X Keys \X Times \X {"close", "open"}

SpentType == messages \in Nat /\ troubles \in Nat

Types == ConnType /\ SubType /\ SendType /\ CastType /\ CloseType /\ SpentType

\* The messages the hub and the clients put on a channel.
LEMMA MessageTypes ==
    /\ Ok \in Message /\ Error \in Message
    /\ \A k \in Keys, t \in Times :
         Update(k, t) \in Message /\ CloseMsg(k, t) \in Message /\ OpenMsg(k, t) \in Message
  BY DEF Message, Ok, Error, Update, CloseMsg, OpenMsg

\* An offer puts a message on a channel, or a client among the closing ones.
LEMMA OfferTypes ==
    ASSUME Types, NEW c \in Clients, NEW m \in Message, Offer(c, m)
    PROVE  SendType' /\ closing' \subseteq Clients
<1>1. CASE Full(c)
  BY <1>1 DEF Offer, Types, SendType, ConnType
<1>2. CASE ~Full(c)
  <2>1. send' = [send EXCEPT ![c] = Append(send[c], m)] /\ UNCHANGED <<closing, missed>>
    BY <1>2 DEF Offer
  <2>2. Append(send[c], m) \in Seq(Message)
    BY DEF Types, SendType
  <2> QED
    BY <2>1, <2>2 DEF Types, SendType, ConnType
<1> QED
  BY <1>1, <1>2

\* What a connection does.
LEMMA ConnectionTypes ==
    ASSUME Types, NEW c \in Clients,
           ServeHTTP(c) \/ ReadPump(c) \/ WritePump(c) \/ Close(c) \/ PeerCloses(c)
    PROVE  Types'
<1>1. CastType' /\ CloseType'
  <2>1. UNCHANGED <<bpc, keys, message, targets, clock, notices, senders, owed, given>>
    BY DEF ServeHTTP, Accept, UpgradeError, Upgrade, Register, StartPumps, ReadPump, HandleMessage,
       Subscribe, Unsubscribe, BadMessage, Answer, ReadFails, Unregister, WritePump, Deliver, WriteFails,
       Close, PeerCloses, castVars, closeVars
  <2> QED
    BY <2>1 DEF Types, CastType, CloseType
<1>2. SpentType'
  BY DEF ServeHTTP, Accept, UpgradeError, Upgrade, Register, StartPumps, ReadPump, HandleMessage,
     Subscribe, Unsubscribe, BadMessage, Answer, ReadFails, Unregister, WritePump, Deliver, WriteFails,
     Close, PeerCloses, Receive, Trouble, spent, Types, SpentType
<1>3. SendType'
  <2>1. CASE Answer(c)
    <3>1. send' = send \/ \E m \in Message : send' = [send EXCEPT ![c] = Append(send[c], m)]
      BY <2>1, MessageTypes DEF Answer
    <3>2. \A m \in Message : Append(send[c], m) \in Seq(Message)
      BY DEF Types, SendType
    <3> QED
      BY <2>1, <3>1, <3>2 DEF Answer, Types, SendType
  <2>2. CASE Deliver(c) \/ WriteFails(c)
    <3>1. (send' = send \/ (send' = [send EXCEPT ![c] = Tail(send[c])] /\ send[c] # <<>>)) /\ missed' = missed
      BY <2>2 DEF Deliver, WriteFails, Types, SendType
    <3>2. send[c] # <<>> => Tail(send[c]) \in Seq(Message)
      BY DEF Types, SendType
    <3> QED
      BY <3>1, <3>2 DEF Types, SendType
  <2>3. CASE ~Answer(c) /\ ~WritePump(c)
    <3>1. send' = send /\ missed' = missed
      BY <2>3 DEF ServeHTTP, Accept, UpgradeError, Upgrade, Register, StartPumps, ReadPump, HandleMessage,
         Subscribe, Unsubscribe, BadMessage, ReadFails, Unregister, WritePump, Close, PeerCloses
    <3> QED
      BY <3>1 DEF Types, SendType
  <2> QED
    BY <2>1, <2>2, <2>3 DEF WritePump
<1>4. SubType'
  <2>1. CASE Register(c)
    BY <2>1 DEF Register, Types, SubType
  <2>2. CASE Unregister(c)
    BY <2>2 DEF Unregister, Types, SubType
  <2>3. ASSUME NEW comp, Subscribe(c, comp) PROVE SubType'
    BY <2>3, KeyOfRequest DEF Subscribe, Types, SubType
  <2>4. ASSUME NEW comp, Unsubscribe(c, comp) PROVE SubType'
    BY <2>4 DEF Unsubscribe, Types, SubType
  <2>5. CASE Accept(c) \/ UpgradeError(c) \/ Upgrade(c) \/ StartPumps(c) \/ BadMessage(c) \/ Answer(c)
             \/ ReadFails(c) \/ WritePump(c) \/ Close(c) \/ PeerCloses(c)
    <3>1. UNCHANGED <<hubLock, registered, subs, subKeys>>
      BY <2>5 DEF Accept, UpgradeError, Upgrade, StartPumps, BadMessage, Answer, ReadFails, WritePump,
         Deliver, WriteFails, Close, PeerCloses, subVars
    <3> QED
      BY <3>1 DEF Types, SubType
  <2> QED
    BY <2>1, <2>2, <2>3, <2>4, <2>5 DEF ServeHTTP, ReadPump, HandleMessage
<1>5. ConnType'
  <2>1. CASE Accept(c)
    BY <2>1 DEF Accept, Types, ConnType
  <2>2. CASE UpgradeError(c)
    <3>1. \A n \in Nat : Release(n) \in Nat
      BY DEF Release
    <3>2. Release(slots[addr[c]]) \in Nat
      BY <3>1 DEF Types, ConnType
    <3> QED
      BY <2>2, <3>2 DEF UpgradeError, Types, ConnType
  <2>3. CASE Upgrade(c) \/ Register(c) \/ StartPumps(c)
    BY <2>3 DEF Upgrade, Register, StartPumps, Types, ConnType
  <2>4. CASE HandleMessage(c)
    <3>1. PICK to \in {"ok", "error", "read"} : rpc' = [rpc EXCEPT ![c] = to]
      BY <2>4 DEF HandleMessage, Subscribe, Unsubscribe, BadMessage, Answer
    <3>2. UNCHANGED <<addr, conn, wpc, closed, closing, slots>>
      BY <2>4 DEF HandleMessage, Subscribe, Unsubscribe, BadMessage, Answer
    <3> QED
      BY <3>1, <3>2 DEF Types, ConnType
  <2>5. CASE ReadFails(c) \/ Unregister(c)
    BY <2>5 DEF ReadFails, Unregister, Types, ConnType
  <2>6. CASE Deliver(c)
    BY <2>6 DEF Deliver, connVars, Types, ConnType
  <2>7. CASE WriteFails(c) \/ Close(c) \/ PeerCloses(c)
    BY <2>7 DEF WriteFails, Close, PeerCloses, Types, ConnType
  <2> QED
    BY <2>1, <2>2, <2>3, <2>4, <2>5, <2>6, <2>7 DEF ServeHTTP, ReadPump, WritePump
<1> QED
  BY <1>1, <1>2, <1>3, <1>4, <1>5 DEF Types

\* What the broadcast loop does.
LEMMA BroadcastTypes == ASSUME Types, Broadcast PROVE Types'
<1>1. UNCHANGED <<addr, conn, rpc, wpc, closed, slots, hubLock, registered, subs, subKeys,
                  clock, notices, senders, owed, given, messages, troubles>>
  BY DEF Broadcast, Tick, BroadcastTick, BroadcastSub, Snapshot, SendUpdate, connVars, subVars, closeVars, spent
<1>2. SubType' /\ CloseType' /\ SpentType'
  BY <1>1 DEF Types, SubType, CloseType, SpentType
<1>3. SendType' /\ closing' \subseteq Clients
  <2>1. CASE SendUpdate
    BY <2>1, OfferTypes DEF SendUpdate, Types, CastType
  <2>2. CASE ~SendUpdate
    BY <2>2 DEF Broadcast, Tick, BroadcastTick, BroadcastSub, Snapshot, connVars, Types, SendType, ConnType
  <2> QED
    BY <2>1, <2>2
<1>4. ConnType'
  BY <1>1, <1>3 DEF Types, ConnType
<1>5. CastType'
  <2>1. ASSUME NEW left, left \subseteq Keys, NextKey(left), targets' \subseteq Clients PROVE CastType'
    BY <2>1, MessageTypes DEF NextKey, CastType
  <2>2. CASE Tick \/ BroadcastTick
    <3>1. {s[1] : s \in subs} \subseteq Keys
      BY DEF Types, SubType
    <3> QED
      BY <2>2, <3>1 DEF Tick, BroadcastTick, Types, CastType
  <2>3. CASE BroadcastSub
    <3>1. PICK k \in keys : NextKey(keys \ {k}) \/ (message' = Update(k, clock) /\ bpc' = "snapshot" /\ keys' = keys)
      BY <2>3 DEF BroadcastSub
    <3>2. k \in Keys /\ keys \subseteq Keys /\ targets' = targets /\ targets \subseteq Clients /\ clock \in Times
      BY <2>3 DEF BroadcastSub, Types, CastType, CloseType
    <3>3. CASE NextKey(keys \ {k})
      BY <2>1, <3>2, <3>3
    <3>4. CASE message' = Update(k, clock) /\ bpc' = "snapshot" /\ keys' = keys
      BY <3>2, <3>4, MessageTypes DEF CastType
    <3> QED
      BY <3>1, <3>3, <3>4
  <2>4. CASE Snapshot
    <3>1. targets' \subseteq Clients /\ keys \ {message.key} \subseteq Keys
      BY <2>4 DEF Snapshot, Subscribers, Types, CastType
    <3> QED
      BY <2>1, <2>4, <3>1 DEF Snapshot, Types, CastType
  <2>5. CASE SendUpdate
    <3>1. targets' \subseteq Clients /\ keys \ {message.key} \subseteq Keys
      BY <2>5 DEF SendUpdate, Types, CastType
    <3> QED
      BY <2>1, <2>5, <3>1 DEF SendUpdate, Types, CastType
  <2> QED
    BY <2>2, <2>3, <2>4, <2>5 DEF Broadcast
<1> QED
  BY <1>2, <1>3, <1>4, <1>5 DEF Types

\* What the closing of a candle does.
LEMMA ClosingTypes ==
    ASSUME Types, CandleCloses \/ NotifyCandleClose \/ \E s \in senders : SendCloseOpen(s)
    PROVE  Types'
<1>1. UNCHANGED <<addr, conn, rpc, wpc, closed, slots, hubLock, registered, subs, subKeys,
                  bpc, keys, message, targets, messages, troubles>>
  BY DEF CandleCloses, NotifyCandleClose, SendCloseOpen, StartSender, SendClose, SendOpen, connVars,
     subVars, castVars, spent
<1>2. SubType' /\ CastType' /\ SpentType'
  BY <1>1 DEF Types, SubType, CastType, SpentType
<1>3. \A s \in senders : /\ s.key \in Keys /\ s.candle \in Times /\ s.now \in Times
                         /\ s.left \subseteq Clients /\ s.all \subseteq Clients
                         /\ s.phase \in {"start", "close", "open"}
  BY DEF Types, CloseType, Sender
<1>4. SendType' /\ closing' \subseteq Clients
  <2>1. ASSUME NEW s \in senders, SendClose(s) PROVE SendType' /\ closing' \subseteq Clients
    BY <1>3, <2>1, OfferTypes, MessageTypes DEF SendClose
  <2>2. ASSUME NEW s \in senders, SendOpen(s) PROVE SendType' /\ closing' \subseteq Clients
    BY <1>3, <2>2, OfferTypes, MessageTypes DEF SendOpen
  <2>3. CASE CandleCloses \/ NotifyCandleClose \/ \E s \in senders : StartSender(s)
    BY <2>3 DEF CandleCloses, NotifyCandleClose, StartSender, connVars, Types, SendType, ConnType
  <2> QED
    BY <2>1, <2>2, <2>3 DEF SendCloseOpen
<1>5. ConnType'
  BY <1>1, <1>4 DEF Types, ConnType
<1>6. CloseType'
  <2>1. CASE CandleCloses
    <3>1. /\ clock' = clock + 1 /\ notices' = notices \cup {clock + 1} /\ clock < MaxClock
          /\ UNCHANGED <<senders, owed, given>>
      BY <2>1 DEF CandleCloses
    <3>2. clock + 1 \in Times
      BY <3>1 DEF Types, CloseType, Times
    <3> QED
      BY <3>1, <3>2 DEF Types, CloseType
  <2>2. CASE NotifyCandleClose
    <3>1. PICK t \in notices :
            /\ notices' = notices \ {t}
            /\ senders' = senders \cup
                 {[key |-> k, candle |-> t, phase |-> "start", now |-> 0,
                   left |-> {}, all |-> Subscribers(k)] : k \in {s[1] : s \in subs}}
            /\ owed' = owed \cup {<<s[2], s[1], t>> : s \in subs}
            /\ clock' = clock /\ given' = given
      BY <2>2 DEF NotifyCandleClose
    <3>2. t \in Times /\ 0 \in Times /\ \A s \in subs : s[1] \in Keys /\ s[2] \in Clients
      BY DEF Types, CloseType, SubType, Times
    <3>3. senders' \subseteq Sender
      <4>1. \A k \in {s[1] : s \in subs} :
              [key |-> k, candle |-> t, phase |-> "start", now |-> 0,
               left |-> {}, all |-> Subscribers(k)] \in Sender
        BY <3>2 DEF Sender, Subscribers
      <4> QED
        BY <3>1, <4>1 DEF Types, CloseType
    <3>4. owed' \subseteq Clients \X Keys \X Times
      BY <3>1, <3>2 DEF Types, CloseType
    <3> QED
      BY <3>1, <3>3, <3>4 DEF Types, CloseType
  <2>3. ASSUME NEW s \in senders, NEW r, r \subseteq Sender, Replace(s, r),
               UNCHANGED <<clock, notices, owed>>, given' \subseteq Clients \X Keys \X Times \X {"close", "open"}
        PROVE  CloseType'
    BY <2>3 DEF Replace, Types, CloseType
  <2>4. ASSUME NEW s \in senders, NEW c \in s.left, Give(s, c), s.phase \in {"close", "open"}
        PROVE  given' \subseteq Clients \X Keys \X Times \X {"close", "open"}
    <3>1. <<c, s.key, s.candle, s.phase>> \in Clients \X Keys \X Times \X {"close", "open"}
      BY <1>3, <2>4
    <3>2. given' = given \/ given' = given \cup {<<c, s.key, s.candle, s.phase>>}
      BY <2>4 DEF Give
    <3> QED
      BY <3>1, <3>2 DEF Types, CloseType
  <2>5. ASSUME NEW s \in senders, StartSender(s) PROVE CloseType'
    <3>1. [s EXCEPT !.phase = "close", !.now = clock, !.left = s.all] \in Sender
      BY <1>3 DEF Sender, Types, CloseType
    <3> QED
      BY <2>3, <2>5, <3>1 DEF StartSender, Types, CloseType
  <2>6. ASSUME NEW s \in senders, SendClose(s) PROVE CloseType'
    <3>1. PICK c \in s.left :
            /\ Give(s, c)
            /\ Replace(s, {IF s.left = {c} THEN [s EXCEPT !.phase = "open", !.left = s.all]
                                          ELSE [s EXCEPT !.left = @ \ {c}]})
      BY <2>6 DEF SendClose
    <3>2. /\ [s EXCEPT !.phase = "open", !.left = s.all] \in Sender
          /\ [s EXCEPT !.left = @ \ {c}] \in Sender
      BY <1>3 DEF Sender, Types, CloseType
    <3> QED
      BY <2>3, <2>4, <2>6, <3>1, <3>2 DEF SendClose
  <2>7. ASSUME NEW s \in senders, SendOpen(s) PROVE CloseType'
    <3>1. PICK c \in s.left :
            /\ Give(s, c)
            /\ Replace(s, IF s.left = {c} THEN {} ELSE {[s EXCEPT !.left = @ \ {c}]})
      BY <2>7 DEF SendOpen
    <3>2. [s EXCEPT !.left = @ \ {c}] \in Sender
      BY <1>3 DEF Sender, Types, CloseType
    <3> QED
      BY <2>3, <2>4, <2>7, <3>1, <3>2 DEF SendOpen
  <2> QED
    BY <2>1, <2>2, <2>5, <2>6, <2>7 DEF SendCloseOpen
<1> QED
  BY <1>2, <1>4, <1>5, <1>6 DEF Types

\* The server begins empty.
LEMMA TypesInit == Init => Types
<1> SUFFICES ASSUME Init PROVE Types
  OBVIOUS
<1>1. ConnType /\ SubType /\ CastType /\ CloseType /\ SpentType
  BY MessageTypes DEF Init, ConnType, SubType, CastType, CloseType, SpentType, Times
<1>2. SendType
  BY DEF Init, SendType
<1> QED
  BY <1>1, <1>2 DEF Types

\* Every step keeps the types.
LEMMA TypesStep == Types /\ [Next]_vars => Types'
<1>1. ASSUME Types, UNCHANGED vars PROVE Types'
  BY <1>1 DEF vars, connVars, subVars, castVars, closeVars, spent, Types, ConnType, SubType, SendType,
     CastType, CloseType, SpentType
<1> QED
  BY <1>1, ConnectionTypes, BroadcastTypes, ClosingTypes DEF Next

\* Every map, channel and program counter of the hub holds what its type says: no key is
\* broadcast that was not checked, nothing is sent but a message.
THEOREM TypeOKHolds == Spec => []TypeOK
<1>1. Types => TypeOK
  BY DEF Types, ConnType, SubType, SendType, CastType, CloseType, SpentType, TypeOK
<1> QED
  BY <1>1, TypesInit, TypesStep, PTL DEF Spec

-------------------------------------------------------------------------------
(* The announcements of a closed candle.                                   *)

\* What sender s has still to put on the channel of client c, by its phase.
Pending(s, c) ==
    IF s.phase = "start" THEN {"close", "open"}
    ELSE IF s.phase = "close" THEN (IF c \in s.left THEN {"close", "open"} ELSE {"open"})
    ELSE IF c \in s.left THEN {"open"} ELSE {}

\* What a sender has no longer to give to one of its clients the client was given, ...
SenderDone ==
    \A s \in senders : /\ s.phase # "start" => s.left \subseteq s.all
                       /\ \A c \in s.all \ missed : \A phase \in {"close", "open"} \ Pending(s, c) :
                            <<c, s.key, s.candle, phase>> \in given

\* ... whatever is owed has a sender or was given, ...
OwedHeld ==
    \A o \in owed : o[1] \notin missed =>
        \/ \E s \in senders : s.key = o[2] /\ s.candle = o[3] /\ o[1] \in s.all
        \/ \A phase \in {"close", "open"} : <<o[1], o[2], o[3], phase>> \in given

\* ... and nobody was given an open message before the close message.
InTurn ==
    \A c \in Clients \ missed, k \in Keys, t \in Times :
        <<c, k, t, "open">> \in given => <<c, k, t, "close">> \in given

BoundaryInv == Types /\ SenderDone /\ OwedHeld /\ InTurn

\* One message of a sender that comes after what it has given so far: the sender goes on as
\* one of new, if any of its clients is left.
LEMMA GiveStep ==
    ASSUME BoundaryInv, NEW s \in senders, s.phase \in {"close", "open"}, NEW c \in s.left, NEW new,
           Replace(s, new), Give(s, c), owed' = owed, NEW m, Offer(c, m),
           \A n \in new : /\ n.key = s.key /\ n.candle = s.candle /\ n.all = s.all
                          /\ n.phase # "start" /\ n.left \subseteq n.all
                          /\ \A d \in n.all : {"close", "open"} \ Pending(n, d)
                               \subseteq {"close", "open"} \ (Pending(s, d) \ (IF d = c THEN {s.phase} ELSE {})),
           new = {} => s.phase = "open" /\ s.left = {c}
    PROVE  SenderDone' /\ OwedHeld' /\ InTurn'
<1>0. /\ s.key \in Keys /\ s.candle \in Times /\ s.left \subseteq Clients /\ s.all \subseteq Clients
      /\ s.left \subseteq s.all
  BY DEF BoundaryInv, Types, CloseType, Sender, SenderDone
<1>1. missed \subseteq missed' /\ given \subseteq given'
  BY DEF Offer, Give
<1>2. c \notin missed' => <<c, s.key, s.candle, s.phase>> \in given'
  BY DEF Offer, Give
<1>3. \A x \in given' \ given : x = <<c, s.key, s.candle, s.phase>>
  BY DEF Give
<1>4. senders' = (senders \ {s}) \cup new
  BY DEF Replace
<1>5. \A d \in s.all \ missed' :
        \A phase \in {"close", "open"} \ (Pending(s, d) \ (IF d = c THEN {s.phase} ELSE {})) :
          <<d, s.key, s.candle, phase>> \in given'
  <2> SUFFICES ASSUME NEW d \in s.all \ missed',
                      NEW phase \in {"close", "open"} \ (Pending(s, d) \ (IF d = c THEN {s.phase} ELSE {}))
               PROVE  <<d, s.key, s.candle, phase>> \in given'
    OBVIOUS
  <2>1. CASE phase \notin Pending(s, d)
    BY <1>1, <2>1 DEF BoundaryInv, SenderDone
  <2>2. CASE phase \in Pending(s, d)
    BY <1>2, <2>2
  <2> QED
    BY <2>1, <2>2
<1>6. SenderDone'
  <2>1. ASSUME NEW n \in senders \ {s}
        PROVE  /\ n.phase # "start" => n.left \subseteq n.all
               /\ \A d \in n.all \ missed' : \A phase \in {"close", "open"} \ Pending(n, d) :
                    <<d, n.key, n.candle, phase>> \in given'
    BY <1>1 DEF BoundaryInv, SenderDone
  <2>2. ASSUME NEW n \in new
        PROVE  /\ n.phase # "start" => n.left \subseteq n.all
               /\ \A d \in n.all \ missed' : \A phase \in {"close", "open"} \ Pending(n, d) :
                    <<d, n.key, n.candle, phase>> \in given'
    BY <1>5
  <2> QED
    BY <1>4, <2>1, <2>2 DEF SenderDone, Pending
<1>7. OwedHeld'
  <2> SUFFICES ASSUME NEW o \in owed, o[1] \notin missed'
               PROVE  \/ \E n \in senders' : n.key = o[2] /\ n.candle = o[3] /\ o[1] \in n.all
                      \/ \A phase \in {"close", "open"} : <<o[1], o[2], o[3], phase>> \in given'
    BY DEF OwedHeld
  <2>1. CASE \A phase \in {"close", "open"} : <<o[1], o[2], o[3], phase>> \in given
    BY <1>1, <2>1
  <2>2. ASSUME NEW n \in senders, n # s, n.key = o[2], n.candle = o[3], o[1] \in n.all
        PROVE  n \in senders'
    BY <1>4, <2>2
  <2>3. CASE s.key = o[2] /\ s.candle = o[3] /\ o[1] \in s.all
    <3>1. CASE new # {}
      BY <1>4, <2>3, <3>1
    <3>2. CASE new = {}
      <4>1. s.phase = "open" /\ s.left = {c}
        BY <3>2
      <4>2. Pending(s, o[1]) \ (IF o[1] = c THEN {s.phase} ELSE {}) = {}
        BY <4>1 DEF Pending
      <4> QED
        BY <1>5, <2>3, <4>2
    <3> QED
      BY <3>1, <3>2
  <2> QED
    BY <1>1, <2>1, <2>2, <2>3 DEF BoundaryInv, OwedHeld
<1>8. InTurn'
  <2> SUFFICES ASSUME NEW d \in Clients \ missed', NEW k \in Keys, NEW t \in Times,
                      <<d, k, t, "open">> \in given'
               PROVE  <<d, k, t, "close">> \in given'
    BY DEF InTurn
  <2>1. CASE <<d, k, t, "open">> \in given
    BY <1>1, <2>1 DEF BoundaryInv, InTurn
  <2>2. CASE <<d, k, t, "open">> \notin given
    <3>1. d = c /\ k = s.key /\ t = s.candle /\ s.phase = "open"
      BY <1>3, <2>2
    <3>2. "close" \notin Pending(s, c)
      BY <3>1 DEF Pending
    <3> QED
      BY <1>0, <1>5, <3>1, <3>2
  <2> QED
    BY <2>1, <2>2
<1> QED
  BY <1>6, <1>7, <1>8

\* Every step keeps what the announcements are accounted by.
LEMMA BoundaryInvStep == BoundaryInv /\ [Next]_vars => BoundaryInv'
<1> SUFFICES ASSUME BoundaryInv, [Next]_vars PROVE BoundaryInv'
  OBVIOUS
<1>0. Types'
  BY TypesStep DEF BoundaryInv
<1>t. \A s \in senders : /\ s.key \in Keys /\ s.candle \in Times /\ s.now \in Times
                         /\ s.left \subseteq Clients /\ s.all \subseteq Clients
                         /\ s.phase \in {"start", "close", "open"} /\ s \in Sender
                         /\ s.phase # "start" => s.left \subseteq s.all
  BY DEF BoundaryInv, Types, CloseType, Sender, SenderDone
<1>1. ASSUME UNCHANGED <<senders, owed, given>>, missed \subseteq missed' PROVE BoundaryInv'
  <2>1. SenderDone'
    BY <1>1 DEF BoundaryInv, SenderDone, Pending
  <2>2. OwedHeld' /\ InTurn'
    BY <1>1 DEF BoundaryInv, OwedHeld, InTurn
  <2> QED
    BY <1>0, <2>1, <2>2 DEF BoundaryInv
<1>2. ASSUME NEW c \in Clients, ServeHTTP(c) \/ ReadPump(c) \/ WritePump(c) \/ Close(c) \/ PeerCloses(c)
      PROVE  BoundaryInv'
  <2>1. UNCHANGED <<senders, owed, given, missed>>
    BY <1>2 DEF ServeHTTP, Accept, UpgradeError, Upgrade, Register, StartPumps, ReadPump, HandleMessage,
       Subscribe, Unsubscribe, BadMessage, Answer, ReadFails, Unregister, WritePump, Deliver, WriteFails,
       Close, PeerCloses, closeVars
  <2> QED
    BY <1>1, <2>1
<1>3. CASE Broadcast \/ CandleCloses \/ UNCHANGED vars
  <2>1. UNCHANGED <<senders, owed, given>> /\ missed \subseteq missed'
    BY <1>3 DEF Broadcast, Tick, BroadcastTick, BroadcastSub, Snapshot, SendUpdate, Offer, CandleCloses,
       closeVars, vars
  <2> QED
    BY <1>1, <2>1
<1>4. CASE NotifyCandleClose
  <2> DEFINE fresh(k, t) == [key |-> k, candle |-> t, phase |-> "start", now |-> 0,
                             left |-> {}, all |-> Subscribers(k)]
  <2>1. PICK t \in notices :
          /\ senders' = senders \cup {fresh(k, t) : k \in {s[1] : s \in subs}}
          /\ owed' = owed \cup {<<s[2], s[1], t>> : s \in subs}
          /\ given' = given /\ missed' = missed
    BY <1>4 DEF NotifyCandleClose
  <2>2. \A k : /\ fresh(k, t).key = k /\ fresh(k, t).candle = t /\ fresh(k, t).phase = "start"
               /\ fresh(k, t).all = Subscribers(k)
    OBVIOUS
  <2> HIDE DEF fresh
  <2>3. SenderDone'
    BY <2>1, <2>2 DEF BoundaryInv, SenderDone, Pending
  <2>4. OwedHeld'
    <3> SUFFICES ASSUME NEW o \in owed', o[1] \notin missed
                 PROVE  \/ \E s \in senders' : s.key = o[2] /\ s.candle = o[3] /\ o[1] \in s.all
                        \/ \A phase \in {"close", "open"} : <<o[1], o[2], o[3], phase>> \in given
      BY <2>1 DEF OwedHeld
    <3>1. CASE o \in owed
      BY <2>1, <3>1 DEF BoundaryInv, OwedHeld
    <3>2. CASE o \notin owed
      <4>1. PICK s \in subs : o = <<s[2], s[1], t>>
        BY <2>1, <3>2
      <4>2. s = <<s[1], s[2]>> /\ s[2] \in Clients
        BY DEF BoundaryInv, Types, SubType
      <4>3. s[2] \in Subscribers(s[1])
        BY <4>2 DEF Subscribers
      <4> QED
        BY <2>1, <2>2, <4>1, <4>3
    <3> QED
      BY <3>1, <3>2
  <2>5. InTurn'
    BY <2>1 DEF BoundaryInv, InTurn
  <2> QED
    BY <1>0, <2>3, <2>4, <2>5 DEF BoundaryInv
<1>5. ASSUME NEW s \in senders, StartSender(s) PROVE BoundaryInv'
  <2> DEFINE n == [s EXCEPT !.phase = "close", !.now = clock, !.left = s.all]
  <2>1. s.phase = "start" /\ senders' = (senders \ {s}) \cup {n} /\ UNCHANGED <<owed, given, missed>>
    BY <1>5 DEF StartSender, Replace
  <2>2. n.key = s.key /\ n.candle = s.candle /\ n.all = s.all /\ n.phase = "close" /\ n.left = s.all
    BY <1>t DEF Sender
  <2> HIDE DEF n
  <2>3. SenderDone'
    BY <2>1, <2>2 DEF BoundaryInv, SenderDone, Pending
  <2>4. OwedHeld'
    BY <2>1, <2>2 DEF BoundaryInv, OwedHeld
  <2>5. InTurn'
    BY <2>1 DEF BoundaryInv, InTurn
  <2> QED
    BY <1>0, <2>3, <2>4, <2>5 DEF BoundaryInv
<1>6. ASSUME NEW s \in senders, SendClose(s) PROVE BoundaryInv'
  <2>1. PICK c \in s.left :
          /\ s.phase = "close" /\ Offer(c, CloseMsg(s.key, s.candle)) /\ Give(s, c) /\ owed' = owed
          /\ Replace(s, {IF s.left = {c} THEN [s EXCEPT !.phase = "open", !.left = s.all]
                                        ELSE [s EXCEPT !.left = @ \ {c}]})
    BY <1>6 DEF SendClose
  <2>2. PICK n : /\ Replace(s, {n})
                 /\ n = IF s.left = {c} THEN [s EXCEPT !.phase = "open", !.left = s.all]
                                        ELSE [s EXCEPT !.left = @ \ {c}]
    BY <2>1
  <2>3. /\ n.key = s.key /\ n.candle = s.candle /\ n.all = s.all
        /\ s.left = {c} => n.phase = "open" /\ n.left = s.all
        /\ s.left # {c} => n.phase = "close" /\ n.left = s.left \ {c}
    BY <1>t, <2>1, <2>2 DEF Sender
  <2>4. /\ n.phase # "start" /\ n.left \subseteq n.all
        /\ \A d \in n.all : {"close", "open"} \ Pending(n, d)
             \subseteq {"close", "open"} \ (Pending(s, d) \ (IF d = c THEN {s.phase} ELSE {}))
    BY <1>t, <2>1, <2>3 DEF Pending
  <2>5. SenderDone' /\ OwedHeld' /\ InTurn'
    <3>1. \A x \in {n} : /\ x.key = s.key /\ x.candle = s.candle /\ x.all = s.all
                         /\ x.phase # "start" /\ x.left \subseteq x.all
                         /\ \A d \in x.all : {"close", "open"} \ Pending(x, d)
                              \subseteq {"close", "open"} \ (Pending(s, d) \ (IF d = c THEN {s.phase} ELSE {}))
      BY <2>3, <2>4
    <3>2. {n} = {} => s.phase = "open" /\ s.left = {c}
      OBVIOUS
    <3>3. s.phase \in {"close", "open"} /\ Give(s, c) /\ owed' = owed /\ Replace(s, {n})
      BY <2>1, <2>2
    <3>4. \E m : Offer(c, m)
      BY <2>1
    <3> QED
      BY <3>1, <3>2, <3>3, <3>4, GiveStep
  <2> QED
    BY <1>0, <2>5 DEF BoundaryInv
<1>7. ASSUME NEW s \in senders, SendOpen(s) PROVE BoundaryInv'
  <2>1. PICK c \in s.left :
          /\ s.phase = "open" /\ Offer(c, OpenMsg(s.key, s.now)) /\ Give(s, c) /\ owed' = owed
          /\ Replace(s, IF s.left = {c} THEN {} ELSE {[s EXCEPT !.left = @ \ {c}]})
    BY <1>7 DEF SendOpen
  <2>2. PICK n : n = [s EXCEPT !.left = @ \ {c}]
    OBVIOUS
  <2>3. n.key = s.key /\ n.candle = s.candle /\ n.all = s.all /\ n.phase = "open" /\ n.left = s.left \ {c}
    BY <1>t, <2>1, <2>2 DEF Sender
  <2>4. /\ n.left \subseteq n.all
        /\ \A d \in n.all : {"close", "open"} \ Pending(n, d)
             \subseteq {"close", "open"} \ (Pending(s, d) \ (IF d = c THEN {s.phase} ELSE {}))
    BY <1>t, <2>1, <2>3 DEF Pending
  <2>5. CASE s.left = {c}
    <3>1. Replace(s, {})
      BY <2>1, <2>5
    <3> QED
      BY <1>0, <2>1, <2>5, <3>1, GiveStep DEF BoundaryInv
  <2>6. CASE s.left # {c}
    <3>1. Replace(s, {n})
      BY <2>1, <2>2, <2>6
    <3> QED
      BY <1>0, <2>1, <2>3, <2>4, <3>1, GiveStep DEF BoundaryInv
  <2> QED
    BY <2>5, <2>6
<1> QED
  BY <1>2, <1>3, <1>4, <1>5, <1>6, <1>7 DEF Next, SendCloseOpen

\* Whoever was subscribed when NotifyCandleClose looked (hub.go:408) gets the close message
\* and after it the open message, unless its channel was full: of any number of clients,
\* with any number of candles closing while the goroutines of earlier ones still send.
THEOREM BoundaryAnnouncedHolds == Spec => []BoundaryAnnounced
<1>1. Init => BoundaryInv
  BY TypesInit DEF Init, BoundaryInv, SenderDone, OwedHeld, InTurn
<1>2. BoundaryInv => BoundaryAnnounced
  <2> SUFFICES ASSUME BoundaryInv, NEW o \in owed, o[1] \notin missed
               PROVE  /\ \A phase \in {"close", "open"} :
                           \/ <<o[1], o[2], o[3], phase>> \in given
                           \/ \E s \in senders : /\ s.key = o[2] /\ s.candle = o[3]
                                                 /\ StillToSend(s, o[1], phase)
                      /\ <<o[1], o[2], o[3], "open">> \in given => <<o[1], o[2], o[3], "close">> \in given
    BY DEF BoundaryAnnounced
  <2>1. o[1] \in Clients /\ o[2] \in Keys /\ o[3] \in Times
    BY DEF BoundaryInv, Types, CloseType
  <2>2. ASSUME NEW s \in senders, s.key = o[2], s.candle = o[3], o[1] \in s.all, NEW phase \in {"close", "open"}
        PROVE  <<o[1], o[2], o[3], phase>> \in given \/ StillToSend(s, o[1], phase)
    <3>0. s.phase \in {"start", "close", "open"}
      BY DEF BoundaryInv, Types, CloseType, Sender
    <3>1. CASE phase \in Pending(s, o[1])
      BY <2>2, <3>0, <3>1 DEF Pending, StillToSend
    <3>2. CASE phase \notin Pending(s, o[1])
      BY <2>2, <3>2 DEF BoundaryInv, SenderDone
    <3> QED
      BY <3>1, <3>2
  <2> QED
    BY <2>1, <2>2 DEF BoundaryInv, OwedHeld, InTurn
<1> QED
  BY <1>1, <1>2, BoundaryInvStep, PTL DEF Spec
===============================================================================
