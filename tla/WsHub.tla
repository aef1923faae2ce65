-------------------------------- MODULE WsHub ---------------------------------
(***************************************************************************)
(* The WebSocket side of the backend: the /ws handler with its per-IP      *)
(* slots, the hub with its subscriptions and its broadcast loop, and one   *)
(* client per connection with a read goroutine, a write goroutine and a    *)
(* bounded send channel (backend/internal/ws).                             *)
(*                                                                         *)
(* One (symbol, market, timeframe) is followed, so a subscription key is   *)
(* the compression alone; the clock counts candles of that timeframe.      *)
(*                                                                         *)
(* A section under hub.mu is one step, taken when the lock is free; what a *)
(* goroutine does between two sections is a step of its own.               *)
(***************************************************************************)
EXTENDS Naturals, Sequences, FiniteSets

CONSTANTS
    Clients,           \* connections that may be made
    Addresses,         \* IP addresses they come from
    LocalAddresses,    \* the addresses checkIPLimit lets through
    MaxPerIP,          \* maxPerIP, 10 in main
    MaxSubs,           \* maxSubsPerClient, 20
    BufSize,           \* writeBufSize, 256
    BaseCompression,   \* base compression of the ticker ...
    CompressionLevels, \* ... and how many multiples of it are allowed
    Requests,          \* compressions the clients ask for
    MaxClock,          \* bound: candles that close
    MaxMessages,       \* bound: messages the clients send
    MaxTroubles        \* bound: how often an upgrade fails or a peer breaks off or stalls

ASSUME WsHubAssumption ==
    /\ Addresses # {} /\ LocalAddresses \subseteq Addresses
    /\ "free" \notin Clients
    /\ MaxPerIP \in Nat \ {0} /\ MaxSubs \in Nat \ {0} /\ BufSize \in Nat \ {0}
    /\ BaseCompression \in Nat \ {0} /\ CompressionLevels \in Nat \ {0}
    /\ Requests \subseteq Nat
    /\ MaxClock \in Nat /\ MaxMessages \in Nat /\ MaxTroubles \in Nat

VARIABLES
    addr,        \* the address the connection comes from
    conn,        \* the connection itself: "none", "open", "closed"
    rpc,         \* where the goroutine of ServeHTTP, then of ReadPump, stands
    wpc,         \* where WritePump stands
    subKeys,     \* c.subKeys
    send,        \* c.send
    closed,      \* c.closed
    closing,     \* clients for which a "go c.Close()" has not run yet
    slots,       \* handler.connsByIP, 0 for an address without an entry
    hubLock,     \* the client whose Unregister holds hub.mu, or "free"
    registered,  \* hub.clients
    subs,        \* hub.subs, as pairs <<key, client>>
    bpc,         \* where broadcastTick stands
    keys,        \* subscription keys it has still to broadcast
    message,     \* the update it sends
    targets,     \* the clients it has still to send it to
    clock,       \* candles closed so far
    notices,     \* closed candles whose onClose goroutine has not run yet
    senders,     \* running sendCloseOpen goroutines
    missed,      \* history: clients that a broadcast found with a full channel
    owed, given, \* history: close and open messages due, and put on a channel
    messages,    \* how much of MaxMessages is used up ...
    troubles     \* ... and of MaxTroubles

connVars   == <<addr, conn, rpc, wpc, closed, closing, slots>>
subVars    == <<hubLock, registered, subs, subKeys>>
castVars   == <<bpc, keys, message, targets>>
closeVars  == <<clock, notices, senders, owed, given>>
spent      == <<messages, troubles>>
vars == <<connVars, subVars, send, castVars, closeVars, missed, spent>>

Times == 0..MaxClock

Keys == {BaseCompression * n : n \in 1..CompressionLevels}

\* Control messages carry nothing the properties look at.
Ok    == [type |-> "ok", key |-> 0, time |-> 0]
Error == [type |-> "error", key |-> 0, time |-> 0]
Message == {Ok, Error} \cup [type : {"update", "close", "open"}, key : Keys, time : Times]

Update(k, t) == [type |-> "update", key |-> k, time |-> t]
CloseMsg(k, t) == [type |-> "close", key |-> k, time |-> t]
OpenMsg(k, t) == [type |-> "open", key |-> k, time |-> t]

Sender == [key : Keys, candle : Times, phase : {"start", "close", "open"},
           now : Times, left : SUBSET Clients, all : SUBSET Clients]

Subscribers(k) == {c \in Clients : <<k, c>> \in subs}

Full(c) == Len(send[c]) >= BufSize

LockFree == hubLock = "free"

Trouble == troubles < MaxTroubles /\ troubles' = troubles + 1

-------------------------------------------------------------------------------
(* Handler.ServeHTTP.                                                      *)

\* checkIPLimit; addresses of the machine itself take no slot.
Accept(c) ==
    /\ rpc[c] = "none"
    /\ \E ip \in Addresses :
        /\ addr' = [addr EXCEPT ![c] = ip]
        /\ \/ /\ ip \in LocalAddresses
              /\ rpc' = [rpc EXCEPT ![c] = "upgrade"]
              /\ UNCHANGED slots
           \/ /\ ip \notin LocalAddresses
              /\ slots[ip] < MaxPerIP
              /\ slots' = [slots EXCEPT ![ip] = @ + 1]
              /\ rpc' = [rpc EXCEPT ![c] = "upgrade"]
           \/ /\ ip \notin LocalAddresses
              /\ slots[ip] >= MaxPerIP
              /\ rpc' = [rpc EXCEPT ![c] = "refused"]
              /\ UNCHANGED slots
    /\ UNCHANGED <<conn, wpc, closed, closing, subVars, send, castVars, closeVars, missed, spent>>

\* Mutant: the entry is counted down whether it is there or not.
ReleaseAny(n) == n - 1

\* releaseIP: an entry that falls to zero or below is deleted.
Release(n) == IF n > 0 THEN n - 1 ELSE 0

\* Mutant: the slot is kept.
UpgradeErrorKeepsSlot(c) ==
    /\ rpc[c] = "upgrade"
    /\ rpc' = [rpc EXCEPT ![c] = "refused"]
    /\ Trouble
    /\ UNCHANGED <<addr, conn, wpc, closed, closing, slots, subVars, send, castVars, closeVars, missed, messages>>

UpgradeError(c) ==
    /\ rpc[c] = "upgrade"
    /\ rpc' = [rpc EXCEPT ![c] = "refused"]
    /\ slots' = [slots EXCEPT ![addr[c]] = Release(@)]
    /\ Trouble
    /\ UNCHANGED <<addr, conn, wpc, closed, closing, subVars, send, castVars, closeVars, missed, messages>>

Upgrade(c) ==
    /\ rpc[c] = "upgrade"
    /\ conn' = [conn EXCEPT ![c] = "open"]
    /\ rpc' = [rpc EXCEPT ![c] = "register"]
    /\ UNCHANGED <<addr, wpc, closed, closing, slots, subVars, send, castVars, closeVars, missed, spent>>

\* Hub.Register: the section under the write lock, ...
Register(c) ==
    /\ rpc[c] = "register"
    /\ LockFree
    /\ registered' = registered \cup {c}
    /\ rpc' = [rpc EXCEPT ![c] = "count"]
    /\ UNCHANGED <<addr, conn, wpc, closed, closing, slots, hubLock, subs, subKeys, send, castVars, closeVars, missed, spent>>

\* ... and ClientCount, which takes the lock again; then both pumps start.
StartPumps(c) ==
    /\ rpc[c] = "count"
    /\ LockFree
    /\ rpc' = [rpc EXCEPT ![c] = "read"]
    /\ wpc' = [wpc EXCEPT ![c] = "run"]
    /\ UNCHANGED <<addr, conn, closed, closing, slots, subVars, send, castVars, closeVars, missed, spent>>

-------------------------------------------------------------------------------
(* ReadPump.                                                               *)

\* ReadMessage returns a message.
Receive(c) ==
    /\ rpc[c] = "read" /\ conn[c] = "open"
    /\ messages < MaxMessages
    /\ messages' = messages + 1

\* Validator.ValidateCompression
ValidCompression(comp) == comp = 0 \/ comp \in Keys

\* Hub.Subscribe: 0 stands for the base compression.
SubscriptionKey(comp) == IF comp = 0 THEN BaseCompression ELSE comp

\* handleSubscribe, up to its answer.  The limit is tested before the key is
\* looked up, so a client at its limit cannot repeat a subscription either.
Subscribe(c, comp) ==
    LET key == SubscriptionKey(comp) IN
    /\ Receive(c)
    /\ LockFree
    /\ ValidCompression(comp)
    /\ IF Cardinality(subKeys[c]) >= MaxSubs
       THEN /\ rpc' = [rpc EXCEPT ![c] = "error"]
            /\ UNCHANGED <<subKeys, subs>>
       ELSE /\ rpc' = [rpc EXCEPT ![c] = "ok"]
            /\ subKeys' = [subKeys EXCEPT ![c] = @ \cup {key}]
            /\ subs' = subs \cup {<<key, c>>}
    /\ UNCHANGED <<addr, conn, wpc, closed, closing, slots, hubLock, registered, send, castVars, closeVars, missed, troubles>>

\* Mutant: the client's own set is left alone.
UnsubscribeHubOnly(c, comp) ==
    /\ Receive(c)
    /\ LockFree
    /\ rpc' = [rpc EXCEPT ![c] = "ok"]
    /\ subs' = subs \ {<<comp, c>>}
    /\ UNCHANGED <<addr, conn, wpc, closed, closing, slots, hubLock, registered, subKeys, send, castVars, closeVars, missed, troubles>>

\* Hub.Unsubscribe takes the compression as it is, 0 too.
Unsubscribe(c, comp) ==
    /\ Receive(c)
    /\ LockFree
    /\ rpc' = [rpc EXCEPT ![c] = "ok"]
    /\ subKeys' = [subKeys EXCEPT ![c] = @ \ {comp}]
    /\ subs' = subs \ {<<comp, c>>}
    /\ UNCHANGED <<addr, conn, wpc, closed, closing, slots, hubLock, registered, send, castVars, closeVars, missed, troubles>>

\* A message that is no JSON, has no known action, lacks a parameter or asks for
\* something the validator refuses.
BadMessage(c) ==
    /\ Receive(c)
    /\ rpc' = [rpc EXCEPT ![c] = "error"]
    /\ UNCHANGED <<addr, conn, wpc, closed, closing, slots, subVars, send, castVars, closeVars, missed, troubles>>

\* sendOK and sendError: a full channel drops the answer, and nothing else.
Answer(c) ==
    /\ rpc[c] \in {"ok", "error"}
    /\ rpc' = [rpc EXCEPT ![c] = "read"]
    /\ send' = IF Full(c) THEN send
               ELSE [send EXCEPT ![c] = Append(@, IF rpc[c] = "ok" THEN Ok ELSE Error)]
    /\ UNCHANGED <<addr, conn, wpc, closed, closing, slots, subVars, castVars, closeVars, missed, spent>>

\* ReadMessage fails: the connection is closed at one end or the other, the peer
\* has been silent for pongWait, or its message is too long.
ReadFails(c) ==
    /\ rpc[c] = "read"
    /\ rpc' = [rpc EXCEPT ![c] = "unregister"]
    /\ IF conn[c] = "closed" THEN UNCHANGED troubles ELSE Trouble
    /\ UNCHANGED <<addr, conn, wpc, closed, closing, slots, subVars, send, castVars, closeVars, missed, messages>>

\* Hub.Unregister.  Under the write lock it calls ClientCount, which waits for a
\* read lock of the same mutex: the goroutine stays there, the lock is never
\* released, and conn.Close and releaseIP behind it are not reached.
Unregister(c) ==
    /\ rpc[c] = "unregister"
    /\ LockFree
    /\ hubLock' = c
    /\ registered' = registered \ {c}
    /\ subs' = {s \in subs : s[2] # c}
    /\ rpc' = [rpc EXCEPT ![c] = "stuck"]
    /\ UNCHANGED <<addr, conn, wpc, closed, closing, slots, subKeys, send, castVars, closeVars, missed, spent>>

-------------------------------------------------------------------------------
(* WritePump, Close and the peer.                                          *)

Deliver(c) ==
    /\ wpc[c] = "run" /\ conn[c] = "open"
    /\ send[c] # <<>>
    /\ send' = [send EXCEPT ![c] = Tail(@)]
    /\ UNCHANGED <<connVars, subVars, castVars, closeVars, missed, spent>>

\* A message or a ping cannot be written: the connection is closed, or the peer
\* takes nothing for writeWait.  WritePump closes the connection and ends.
WriteFails(c) ==
    /\ wpc[c] = "run"
    /\ send' = [send EXCEPT ![c] = IF @ = <<>> THEN @ ELSE Tail(@)]
    /\ wpc' = [wpc EXCEPT ![c] = "done"]
    /\ conn' = [conn EXCEPT ![c] = "closed"]
    /\ IF conn[c] = "closed" THEN UNCHANGED troubles ELSE Trouble
    /\ UNCHANGED <<addr, rpc, closed, closing, slots, subVars, castVars, closeVars, missed, messages>>

\* Mutant: the client is marked closed and its connection left open.
CloseFlagOnly(c) ==
    /\ c \in closing
    /\ closing' = closing \ {c}
    /\ closed' = [closed EXCEPT ![c] = TRUE]
    /\ UNCHANGED <<addr, conn, rpc, wpc, slots, subVars, send, castVars, closeVars, missed, spent>>

\* A "go c.Close()" runs; only the first one does anything.
Close(c) ==
    /\ c \in closing
    /\ closing' = closing \ {c}
    /\ closed' = [closed EXCEPT ![c] = TRUE]
    /\ conn' = IF closed[c] THEN conn ELSE [conn EXCEPT ![c] = "closed"]
    /\ UNCHANGED <<addr, rpc, wpc, slots, subVars, send, castVars, closeVars, missed, spent>>

PeerCloses(c) ==
    /\ conn[c] = "open"
    /\ conn' = [conn EXCEPT ![c] = "closed"]
    /\ Trouble
    /\ UNCHANGED <<addr, rpc, wpc, closed, closing, slots, subVars, send, castVars, closeVars, missed, messages>>

-------------------------------------------------------------------------------
(* Hub.Run.                                                                *)

\* Mutant: the message is dropped and the client kept, as for an answer.
OfferOrDrop(c, m) ==
    IF Full(c)
    THEN missed' = missed \cup {c} /\ UNCHANGED <<send, closing>>
    ELSE send' = [send EXCEPT ![c] = Append(@, m)] /\ UNCHANGED <<closing, missed>>

\* "select { case c.send <- data: default: go c.Close() }"
Offer(c, m) ==
    IF Full(c)
    THEN closing' = closing \cup {c} /\ missed' = missed \cup {c} /\ UNCHANGED send
    ELSE send' = [send EXCEPT ![c] = Append(@, m)] /\ UNCHANGED <<closing, missed>>

\* The ticker fires.
Tick ==
    /\ bpc = "idle"
    /\ bpc' = "tick"
    /\ UNCHANGED <<connVars, subVars, send, keys, message, targets, closeVars, missed, spent>>

\* broadcastTick collects the keys.
BroadcastTick ==
    /\ bpc = "tick"
    /\ LockFree
    /\ keys' = {s[1] : s \in subs}
    /\ bpc' = IF subs = {} THEN "idle" ELSE "key"
    /\ UNCHANGED <<connVars, subVars, send, message, targets, closeVars, missed, spent>>

\* After a key: the next one, or back to the ticker.
NextKey(left) ==
    /\ keys' = left
    /\ message' = Ok
    /\ bpc' = IF left = {} THEN "idle" ELSE "key"

\* broadcastSub, up to the message: the live hash of the candle open now has no
\* cells or cannot be read, or the update is built from it.
BroadcastSub ==
    /\ bpc = "key"
    /\ \E k \in keys :
        \/ NextKey(keys \ {k})
        \/ /\ message' = Update(k, clock)
           /\ bpc' = "snapshot"
           /\ UNCHANGED keys
    /\ UNCHANGED <<connVars, subVars, send, targets, closeVars, missed, spent>>

\* The subscribers are looked up after the hash was read; they may have changed.
Snapshot ==
    /\ bpc = "snapshot"
    /\ LockFree
    /\ targets' = Subscribers(message.key)
    /\ IF Subscribers(message.key) = {}
       THEN NextKey(keys \ {message.key})
       ELSE bpc' = "send" /\ UNCHANGED <<keys, message>>
    /\ UNCHANGED <<connVars, subVars, send, closeVars, missed, spent>>

SendUpdate ==
    /\ bpc = "send"
    /\ \E c \in targets :
        /\ Offer(c, message)
        /\ targets' = targets \ {c}
        /\ IF targets = {c}
           THEN NextKey(keys \ {message.key})
           ELSE UNCHANGED <<bpc, keys, message>>
    /\ UNCHANGED <<addr, conn, rpc, wpc, closed, slots, subVars, closeVars, spent>>

-------------------------------------------------------------------------------
(* Candle close.                                                           *)

\* A candle closes; its CandleCloser runs "go cl.onClose(...)".
CandleCloses ==
    /\ clock < MaxClock
    /\ clock' = clock + 1
    /\ notices' = notices \cup {clock + 1}
    /\ UNCHANGED <<connVars, subVars, send, castVars, senders, owed, given, missed, spent>>

\* NotifyCandleClose: one sendCloseOpen goroutine per compression subscribed to.
NotifyCandleClose ==
    /\ LockFree
    /\ \E t \in notices :
        /\ notices' = notices \ {t}
        /\ senders' = senders \cup
             {[key |-> k, candle |-> t, phase |-> "start", now |-> 0,
               left |-> {}, all |-> Subscribers(k)] : k \in {s[1] : s \in subs}}
        /\ owed' = owed \cup {<<s[2], s[1], t>> : s \in subs}
    /\ UNCHANGED <<connVars, subVars, send, castVars, clock, given, missed, spent>>

Replace(s, new) == senders' = (senders \ {s}) \cup new

\* Mutant: only the open messages are sent.
StartSenderOpens(s) ==
    /\ s.phase = "start"
    /\ Replace(s, {[s EXCEPT !.phase = "open", !.now = clock, !.left = s.all]})
    /\ UNCHANGED <<connVars, subVars, send, castVars, clock, notices, owed, given, missed, spent>>

\* sendCloseOpen builds both messages; the open one carries the time it is now.
StartSender(s) ==
    /\ s.phase = "start"
    /\ Replace(s, {[s EXCEPT !.phase = "close", !.now = clock, !.left = s.all]})
    /\ UNCHANGED <<connVars, subVars, send, castVars, clock, notices, owed, given, missed, spent>>

\* history: what went on c's channel
Give(s, c) ==
    given' = IF Full(c) THEN given ELSE given \cup {<<c, s.key, s.candle, s.phase>>}

\* First the close message to every client, ...
SendClose(s) ==
    /\ s.phase = "close"
    /\ \E c \in s.left :
        /\ Offer(c, CloseMsg(s.key, s.candle))
        /\ Give(s, c)
        /\ Replace(s, {IF s.left = {c}
                       THEN [s EXCEPT !.phase = "open", !.left = s.all]
                       ELSE [s EXCEPT !.left = @ \ {c}]})
    /\ UNCHANGED <<addr, conn, rpc, wpc, closed, slots, subVars, castVars, clock, notices, owed, spent>>

\* ... then the open message to every client.
SendOpen(s) ==
    /\ s.phase = "open"
    /\ \E c \in s.left :
        /\ Offer(c, OpenMsg(s.key, s.now))
        /\ Give(s, c)
        /\ Replace(s, IF s.left = {c} THEN {} ELSE {[s EXCEPT !.left = @ \ {c}]})
    /\ UNCHANGED <<addr, conn, rpc, wpc, closed, slots, subVars, castVars, clock, notices, owed, spent>>

-------------------------------------------------------------------------------
Init ==
    /\ addr = [c \in Clients |-> CHOOSE a \in Addresses : TRUE]
    /\ conn = [c \in Clients |-> "none"]
    /\ rpc = [c \in Clients |-> "none"]
    /\ wpc = [c \in Clients |-> "none"]
    /\ subKeys = [c \in Clients |-> {}]
    /\ send = [c \in Clients |-> <<>>]
    /\ closed = [c \in Clients |-> FALSE]
    /\ closing = {}
    /\ slots = [a \in Addresses |-> 0]
    /\ hubLock = "free" /\ registered = {} /\ subs = {}
    /\ bpc = "idle" /\ keys = {} /\ message = Ok /\ targets = {}
    /\ clock = 0 /\ notices = {} /\ senders = {}
    /\ missed = {} /\ owed = {} /\ given = {}
    /\ messages = 0 /\ troubles = 0

ServeHTTP(c) == Accept(c) \/ UpgradeError(c) \/ Upgrade(c) \/ Register(c) \/ StartPumps(c)

HandleMessage(c) ==
    \/ \E comp \in Requests : Subscribe(c, comp) \/ Unsubscribe(c, comp)
    \/ BadMessage(c)
    \/ Answer(c)

ReadPump(c) == HandleMessage(c) \/ ReadFails(c) \/ Unregister(c)

WritePump(c) == Deliver(c) \/ WriteFails(c)

Broadcast == Tick \/ BroadcastTick \/ BroadcastSub \/ Snapshot \/ SendUpdate

SendCloseOpen(s) == StartSender(s) \/ SendClose(s) \/ SendOpen(s)

Next ==
    \/ \E c \in Clients :
        ServeHTTP(c) \/ ReadPump(c) \/ WritePump(c) \/ Close(c) \/ PeerCloses(c)
    \/ Broadcast
    \/ CandleCloses
    \/ NotifyCandleClose
    \/ \E s \in senders : SendCloseOpen(s)

Spec == Init /\ [][Next]_vars

\* The ticker keeps firing and every goroutine that can run does: the broadcast
\* loop, the "go c.Close()" goroutines and the read goroutine of a connection that
\* is closed.  What peers and candles do is up to them.
FairSpec ==
    /\ Spec
    /\ WF_vars(Broadcast)
    /\ \A c \in Clients :
        /\ WF_vars(Close(c))
        /\ WF_vars(conn[c] = "closed" /\ ReadFails(c))
        /\ WF_vars(Unregister(c))

-------------------------------------------------------------------------------
TypeOK ==
    /\ addr \in [Clients -> Addresses]
    /\ conn \in [Clients -> {"none", "open", "closed"}]
    /\ rpc \in [Clients -> {"none", "upgrade", "refused", "register", "count", "read",
                            "ok", "error", "unregister", "stuck"}]
    /\ wpc \in [Clients -> {"none", "run", "done"}]
    /\ subKeys \in [Clients -> SUBSET Keys]
    /\ send \in [Clients -> Seq(Message)]
    /\ closed \in [Clients -> BOOLEAN]
    /\ closing \subseteq Clients
    /\ slots \in [Addresses -> Nat]
    /\ hubLock \in Clients \cup {"free"}
    /\ registered \subseteq Clients
    /\ subs \subseteq Keys \X Clients
    /\ bpc \in {"idle", "tick", "key", "snapshot", "send"}
    /\ keys \subseteq Keys
    /\ message \in Message
    /\ targets \subseteq Clients
    /\ clock \in Times
    /\ notices \subseteq Times
    /\ senders \subseteq Sender
    /\ missed \subseteq Clients
    /\ owed \subseteq Clients \X Keys \X Times
    /\ given \subseteq Clients \X Keys \X Times \X {"close", "open"}
    /\ messages \in Nat /\ troubles \in Nat

\* The subscriptions are kept twice, in the hub and in the client: both always
\* agree, the limit counts what the hub broadcasts, and nothing is broadcast to a
\* client that is not registered.
SubsMirror ==
    /\ \A c \in registered : subKeys[c] = {k \in Keys : <<k, c>> \in subs}
    /\ \A s \in subs : s[2] \in registered

\* Slots are neither leaked nor handed out twice: each address holds one slot for
\* each of its connections that got past checkIPLimit and was not refused by Upgrade.
SlotsAccounted ==
    \A a \in Addresses \ LocalAddresses :
        slots[a] = Cardinality({c \in Clients : addr[c] = a /\ rpc[c] \notin {"none", "refused"}})

\* A client never silently misses an update, a close or an open: one that did is
\* being closed or has been.
NoSilentGap ==
    \A c \in missed : c \in closing \/ closed[c]

\* A sender still has the message of this phase for client c.
StillToSend(s, c, phase) ==
    \/ c \in s.all /\ (s.phase = "start" \/ (s.phase = "close" /\ phase = "open"))
    \/ c \in s.left /\ s.phase = phase

\* Every subscriber of a closing candle gets the close message, and not before it
\* the open message, unless it missed one: what NotifyCandleClose owes is on the
\* client's channel, or a sender still has it to send.
BoundaryAnnounced ==
    \A o \in owed : o[1] \notin missed =>
        /\ \A phase \in {"close", "open"} :
            \/ <<o[1], o[2], o[3], phase>> \in given
            \/ \E s \in senders : s.key = o[2] /\ s.candle = o[3] /\ StillToSend(s, o[1], phase)
        /\ <<o[1], o[2], o[3], "open">> \in given => <<o[1], o[2], o[3], "close">> \in given

\* A client that is too slow is disconnected, whatever else the hub is doing.
SlowClientDisconnected ==
    \A c \in Clients : (c \in missed) ~> (conn[c] = "closed")

\* What docs/05 section 3 promises of backpressure: dropping and disconnecting a
\* slow client does not hold up the others.  After it the broadcast loop still comes
\* back to its ticker.
SlowClientStopsNobody ==
    \A c \in Clients : closed[c] ~> (bpc = "idle")
===============================================================================
