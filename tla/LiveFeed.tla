------------------------------- MODULE LiveFeed --------------------------------
(***************************************************************************)
(* How candles reach the charts of the terminal (frontend-chart): the      *)
(* WebSocket client with its reconnection and its map of subscriptions     *)
(* (lib/wsClient.ts), and the effects of App.tsx that load the history of  *)
(* a chart, page back through it, subscribe it, and every 200 ms apply the *)
(* last candle that came in.                                               *)
(*                                                                         *)
(* JavaScript runs one callback at a time: an effect, an event handler or  *)
(* a promise callback is one step.  A subscription key stands for symbol,  *)
(* market, timeframe and compression.  Time counts candles: date n is the  *)
(* open time of candle n.  What the browser gets is a key, a date and      *)
(* whether it is a growing candle (an "update", dated by its open time) or *)
(* a complete one (a "close" message or the history, which the closer      *)
(* dates by the boundary: the open time of the candle after it).           *)
(***************************************************************************)
EXTENDS Naturals, Sequences, SequencesExt, FiniteSets

CONSTANTS
    None,        \* stands for null
    Charts,      \* the charts of the workspace by number; all of them subscribe
    Shown,       \* those whose candles are followed here
    Keys,        \* subscription keys
    Series,      \* what one closer closes: a symbol, market and timeframe
    SeriesOf,    \* the series of a key; keys of one series differ in compression
    Base,        \* the keys at the base compression of their ticker
    First,       \* the key each chart starts with
    Start,       \* the candle that is open when the page is loaded
    MaxTime,     \* bound: the last candle that opens
    PageLen,     \* candles in one answer of /api/candles, 700 in the backend
    MaxCandles,  \* getMaxCandlesForInterval
    MaxSwitches, \* bound: changes of a chart's settings
    MaxTroubles, \* bound: lost connections and failed attempts to connect
    MaxWire      \* bound: messages on their way to the browser

Times == 1 .. MaxTime
Candles == [key : Keys, t : Times, final : BOOLEAN]

ASSUME LiveFeedAssumption ==
    /\ Charts \subseteq Nat /\ IsFiniteSet(Charts) /\ Shown \subseteq Charts
    /\ IsFiniteSet(Keys) /\ First \in [Charts -> Keys] /\ SeriesOf \in [Keys -> Series]
    /\ Base \subseteq Keys
    /\ None \notin Charts \union Keys \union Candles
    /\ Start \in Nat \ {0} /\ MaxTime \in Nat /\ Start <= MaxTime
    /\ PageLen \in Nat \ {0} /\ MaxCandles \in Nat \ {0}
    /\ MaxSwitches \in Nat /\ MaxTroubles \in Nat /\ MaxWire \in Nat

VARIABLES
    ws,       \* "none", "connecting", "open", or "lost": broken, onclose not yet run
    timer,    \* is reconnectTimer pending
    delay,    \* reconnectDelay, in seconds
    subs,     \* activeSubs and subCallbacks: the chart each key calls back, or None
    commands, \* subscribe and unsubscribe requests on their way to the server
    served,   \* subscriptions the hub holds for this connection
    wire,     \* candle messages on their way to the browser
    clock,    \* the open candle of the market
    hub,      \* is the hub's lock free; once it is not, it never is again
    traded,   \* series whose live hash of the open candle has cells
    closing,  \* series whose closer has not flushed yet since the last boundary
    telling,  \* keys whose "close" message of the last boundary is still to be sent
    rows,     \* the dates of the complete candles in ClickHouse and its cache
    key,      \* the settings of each chart, as a key; prevSubRef is the same
    loads,    \* history requests under way: key, the effect's "active", the answer if any
    more,     \* the request for an older page under way, or None: isLoadingMore
    list,     \* candles0, candles1
    buffer,   \* incomingCandleBufferRef
    switches, troubles,   \* how much of MaxSwitches and MaxTroubles is used
    shared,   \* history: charts whose key another chart had, or took, since they took it
    asked,    \* history: subscriptions requested over this connection, granted or not
    spoiled,  \* history: charts that a page or a candle meant for another list went into
    due       \* history: dates of which a chart was sent something that was not lost since

client == <<ws, timer, delay, subs>>
connection == <<commands, served, asked, wire>>
market == <<clock, hub, traded, closing, telling, rows>>
server == <<connection, market>>
data == <<loads, more, list, buffer>>
history == <<shared, spoiled, due>>
vars == <<client, server, data, key, switches, troubles, history>>

Subscribe(k) == [op |-> "subscribe", key |-> k]
Unsubscribe(k) == [op |-> "unsubscribe", key |-> k]
Wanted == {k \in Keys : subs[k] # None}
Owns(c) == subs[key[c]] = c
NewLoad(k) == [key |-> k, active |-> TRUE, answered |-> FALSE, page |-> <<>>]
LastN(s, n) == SubSeq(s, IF Len(s) > n THEN Len(s) - n + 1 ELSE 1, Len(s))

\* The candle that ended when candle n began.
Complete(k, n) == [key |-> k, t |-> n, final |-> TRUE]
Growing(k, n) == [key |-> k, t |-> n, final |-> FALSE]

\* The answers of ClickHouse over rows of these dates: at most PageLen of them, oldest first.
\* The limit on rows and the role's limit on age may leave out any.
Pages(k, dates) ==
    {p \in UNION {[1 .. n -> {Complete(k, t) : t \in dates}] : n \in 0 .. PageLen} :
        \A i, j \in DOMAIN p : i < j => p[i].t < p[j].t}

\* The answers to a load.  At the base compression they come from the cache, newest first,
\* unless it is empty; what it lacks is left out.
Answers(k, dates) ==
    Pages(k, dates) \union {Reverse(p) : p \in IF k \in Base THEN Pages(k, dates) ELSE {}}

\* Dates of a list; of a chart's own candles in its buffer, and on the wire.
Dates(s) == {s[i].t : i \in DOMAIN s}
Buffered(c) == IF buffer[c] # None /\ buffer[c].key = key[c] THEN {buffer[c].t} ELSE {}
OnWire(c) == {m.t : m \in {n \in ToSet(wire) : n.key = key[c]}}

\* What the client has asked for over this connection, commands under way included: the last
\* one about a key decides.
Held == {k \in Keys :
           \/ k \in asked /\ \A i \in DOMAIN commands : commands[i].key # k
           \/ \E i \in DOMAIN commands : /\ commands[i] = Subscribe(k)
                                         /\ \A j \in DOMAIN commands : j > i => commands[j].key # k}

TypeOK ==
    /\ ws \in {"none", "connecting", "open", "lost"} /\ timer \in BOOLEAN
    /\ delay \in {1, 2, 4, 8, 10}
    /\ subs \in [Keys -> Charts \union {None}] /\ asked \subseteq Keys /\ served \subseteq asked
    /\ commands \in Seq([op : {"subscribe", "unsubscribe"}, key : Keys])
    /\ wire \in Seq(Candles) /\ Len(wire) <= MaxWire
    /\ clock \in Start .. MaxTime /\ hub \in BOOLEAN
    /\ traded \subseteq Series /\ closing \subseteq Series /\ telling \subseteq Keys
    /\ rows \in [Series -> SUBSET (1 .. clock)] /\ key \in [Charts -> Keys]
    /\ \A c \in Shown :
        /\ loads[c] \subseteq [key : Keys, active : BOOLEAN, answered : BOOLEAN, page : Seq(Candles)]
        /\ more[c] \in [key : Keys, before : Times] \union {None}
        /\ list[c] \in Seq(Candles) /\ Len(list[c]) <= MaxCandles
        /\ buffer[c] \in Candles \union {None}
    /\ switches \in 0 .. MaxSwitches /\ troubles \in 0 .. MaxTroubles
    /\ shared \subseteq Charts /\ spoiled \subseteq Shown /\ due \in [Shown -> SUBSET Times]

\* The page is mounted: the charts subscribed in their order, the last one of a key has its
\* callbacks, the client is connecting and every chart has asked for its history.
Init ==
    /\ ws = "connecting" /\ timer = FALSE /\ delay = 1
    /\ subs = [k \in Keys |-> LET on == {c \in Charts : First[c] = k}
                            IN  IF on = {} THEN None ELSE Max(on)]
    /\ commands = <<>> /\ served = {} /\ asked = {} /\ wire = <<>>
    /\ clock = Start /\ hub = TRUE /\ traded = {} /\ closing = {} /\ telling = {}
    /\ rows = [s \in Series |-> 1 .. Start]
    /\ key = First
    /\ loads = [c \in Shown |-> {NewLoad(First[c])}] /\ more = [c \in Shown |-> None]
    /\ list = [c \in Shown |-> <<>>] /\ buffer = [c \in Shown |-> None]
    /\ switches = 0 /\ troubles = 0
    /\ shared = {c \in Charts : \E d \in Charts \ {c} : First[c] = First[d]}
    /\ spoiled = {} /\ due = [c \in Shown |-> {}]
--------------------------------------------------------------------------------
(* The WebSocket client *)

NoResubscription == <<>>
Resubscription == LET s == SetToSeq(Wanted) IN [i \in DOMAIN s |-> Subscribe(s[i])]

\* ws.onopen: the backoff starts over and every active subscription is sent.  The handler
\* upgrades the connection before it calls Register, so it opens under a stopped hub too.
OnOpen ==
    /\ ws = "connecting"
    /\ ws' = "open" /\ delay' = 1
    /\ commands' = Resubscription
    /\ UNCHANGED <<timer, subs, served, asked, wire, market, data, key, switches, troubles, history>>

\* ws.onclose, after a loss or a failed attempt: scheduleReconnect.
OnClose ==
    /\ \/ ws = "lost" /\ UNCHANGED troubles
       \/ ws = "connecting" /\ troubles < MaxTroubles /\ troubles' = troubles + 1
    /\ ws' = "none" /\ timer' = TRUE
    /\ UNCHANGED <<delay, subs, server, data, key, switches, history>>

\* The reconnection timer: connect(), then the delay doubles up to maxReconnectDelay.
Reconnect ==
    /\ timer /\ ws = "none"
    /\ timer' = FALSE /\ ws' = "connecting"
    /\ delay' = IF 2 * delay > 10 THEN 10 ELSE 2 * delay
    /\ UNCHANGED <<subs, server, data, key, switches, troubles, history>>

\* The connection breaks; the browser has not noticed yet and what was under way is gone.
Break ==
    /\ ws = "open" /\ troubles < MaxTroubles
    /\ ws' = "lost" /\ troubles' = troubles + 1
    /\ commands' = <<>> /\ served' = {} /\ asked' = {} /\ wire' = <<>>
    /\ due' = [c \in Shown |-> due[c] \ (OnWire(c) \ (Dates(list[c]) \union Buffered(c)))]
    /\ UNCHANGED <<timer, delay, subs, market, data, key, switches, shared, spoiled>>

\* handleMessage: the candle goes to the chart that has the callbacks of its key, whose
\* buffer holds one candle.  "open", "ok" and "error" messages change nothing.
Deliver ==
    /\ wire # <<>>
    /\ LET m == Head(wire) IN
        /\ wire' = Tail(wire)
        /\ buffer' = [c \in Shown |-> IF subs[m.key] = c THEN m ELSE buffer[c]]
        /\ due' = [c \in Shown |->
             IF subs[m.key] = c THEN due[c] \ (Buffered(c) \ (Dates(list[c]) \union {m.t}))
             ELSE IF m.key = key[c] THEN due[c] \ ({m.t} \ (Dates(list[c]) \union Buffered(c)))
             ELSE due[c]]
    /\ UNCHANGED <<client, commands, served, asked, market, loads, more, list, key, switches,
                   troubles, shared, spoiled>>
--------------------------------------------------------------------------------
(* The server, as the client sees it *)

\* A client's ReadPump handles one command.  A subscription may be refused: the ticker, its
\* timeframes or its compressions are not in the configuration (any more).
ServerRead ==
    /\ hub /\ commands # <<>>
    /\ LET m == Head(commands) IN
         IF m.op = "subscribe"
           THEN /\ asked' = asked \union {m.key}
                /\ \E granted \in SUBSET {m.key} : served' = served \union granted
           ELSE asked' = asked \ {m.key} /\ served' = served \ {m.key}
    /\ commands' = Tail(commands)
    /\ UNCHANGED <<client, wire, market, data, key, switches, troubles, history>>

\* Any disconnect, of this connection after its loss or of another browser: Unregister waits
\* for the lock it holds, and nobody gets it again.
HubStops ==
    /\ hub
    /\ hub' = FALSE
    /\ UNCHANGED <<client, connection, clock, traded, closing, telling, rows, data, key, switches,
                   troubles, history>>

\* A trade of the open candle reaches the live hash.
Trade(z) ==
    /\ z \notin traded
    /\ traded' = traded \union {z}
    /\ UNCHANGED <<client, connection, clock, hub, closing, telling, rows, data, key, switches,
                   troubles, history>>

Sent(m) ==
    /\ Len(wire) < MaxWire
    /\ wire' = Append(wire, m)
    /\ due' = [c \in Shown |-> IF key[c] = m.key THEN due[c] \union {m.t} ELSE due[c]]

\* The hub's tick: the open candle of a subscription, unless its hash is empty.
ServerUpdate(k) ==
    /\ hub /\ k \in served /\ SeriesOf[k] \in traded
    /\ Sent(Growing(k, clock))
    /\ UNCHANGED <<client, commands, served, asked, market, data, key, switches, troubles, shared,
                   spoiled>>

\* A tick that read the clock and the hash before the boundary and sends after it; the closer
\* has not woken up yet.
ServerUpdateLate(k) ==
    /\ hub /\ k \in served /\ SeriesOf[k] \in closing
    /\ Sent(Growing(k, clock - 1))
    /\ UNCHANGED <<client, commands, served, asked, market, data, key, switches, troubles, shared,
                   spoiled>>

\* A boundary: the next candle begins with an empty hash, and the closers sleep for 200 ms.
\* What one of them does after the boundary that follows is left to Ingest.
Boundary ==
    /\ clock < MaxTime
    /\ clock' = clock + 1 /\ traded' = {} /\ closing' = Series /\ telling' = {}
    /\ UNCHANGED <<client, connection, hub, rows, data, key, switches, troubles, history>>

\* The closer has nothing to store, or gets an error; or it stores the candle, dated by the
\* boundary, deletes the hash of that date, which is the open candle's, and has the hub told.
CloserFlush(z) ==
    /\ z \in closing
    /\ closing' = closing \ {z}
    /\ LET stored == [rows EXCEPT ![z] = @ \union {clock}] IN
       \/ rows' \in {rows, stored} /\ UNCHANGED <<traded, telling>>
       \/ /\ rows' = stored /\ traded' \in {traded, traded \ {z}}
          /\ telling' = telling \union {k \in Keys : SeriesOf[k] = z}
    /\ UNCHANGED <<client, connection, clock, hub, data, key, switches, troubles, history>>

\* NotifyCandleClose and sendCloseOpen, in goroutines of their own.
Announce(k) ==
    /\ hub /\ k \in served /\ k \in telling
    /\ telling' = telling \ {k}
    /\ Sent(Complete(k, clock))
    /\ UNCHANGED <<client, commands, served, asked, clock, hub, traded, closing, rows, data, key,
                   switches, troubles, shared, spoiled>>

\* /api/candles is answered with what is stored by now; the answer is on its way.  When the
\* answer to a load that no longer counts was computed makes no difference.
ServerAnswer(c) ==
    /\ \E r \in loads[c] : \E p \in Answers(r.key, rows[SeriesOf[r.key]]) :
        /\ ~r.answered /\ r.active
        /\ loads' = [loads EXCEPT ![c] =
                       (@ \ {r}) \union {[r EXCEPT !.answered = TRUE, !.page = p]}]
    /\ UNCHANGED <<client, server, more, list, buffer, key, switches, troubles, history>>
--------------------------------------------------------------------------------
(* The charts *)

\* unsubscribe deletes the entry of the old key, whoever's it is; subscribe takes the entry
\* of the new one.
ReboundLeavingOld(c, k) == [subs EXCEPT ![k] = c]
ReboundCleaningNew(c, k) == [subs EXCEPT ![key[c]] = None, ![k] = None]
Rebound(c, k) == [subs EXCEPT ![key[c]] = None, ![k] = c]

\* The settings of a chart change.  React runs the clean-ups (the load is no longer active,
\* the old key is unsubscribed), then the effects (a new load, the new key subscribed with
\* this chart's callbacks).  The list and the buffer stay until they are overwritten.
SwitchKey(c, k) ==
    /\ switches < MaxSwitches /\ k # key[c]
    /\ switches' = switches + 1
    /\ key' = [key EXCEPT ![c] = k]
    /\ subs' = Rebound(c, k)
    /\ commands' = IF ws = "open" THEN commands \o <<Unsubscribe(key[c]), Subscribe(k)>>
                                  ELSE commands
    /\ loads' = [d \in Shown |-> IF d # c THEN loads[d]
                   ELSE {[r EXCEPT !.active = FALSE, !.answered = FALSE, !.page = <<>>] :
                           r \in loads[d]} \union {NewLoad(k)}]
    /\ shared' = LET with == {d \in Charts \ {c} : key[d] = k}
                 IN  IF with = {} THEN shared \ {c} ELSE shared \union with \union {c}
    /\ due' = [d \in Shown |-> IF d = c THEN {} ELSE due[d]]
    /\ UNCHANGED <<ws, timer, delay, served, asked, wire, market, more, list, buffer, troubles,
                   spoiled>>

\* The answer to a load, or its failure, which empties the list.  Only an active load counts.
LoadDone(c) == \E r \in loads[c], ok \in BOOLEAN :
    /\ ok => r.answered \/ ~r.active
    /\ loads' = [loads EXCEPT ![c] = @ \ {r}]
    /\ IF r.active
         THEN LET loaded == IF ok THEN LastN(r.page, MaxCandles) ELSE <<>> IN
              /\ list' = [list EXCEPT ![c] = loaded]
              /\ spoiled' = spoiled \ {c}
              /\ due' = [due EXCEPT ![c] =
                           Dates(loaded) \union (@ \intersect (OnWire(c) \union Buffered(c)))]
         ELSE UNCHANGED <<list, spoiled, due>>
    /\ UNCHANGED <<client, server, more, buffer, key, switches, troubles, shared>>

\* Scrolled to the left end: handleLoadMore asks for the page before the oldest candle.
LoadMore(c) ==
    /\ more[c] = None /\ list[c] # <<>>
    /\ more' = [more EXCEPT ![c] = [key |-> key[c], before |-> Head(list[c]).t]]
    /\ UNCHANGED <<client, server, loads, list, buffer, key, switches, troubles, history>>

\* The older page goes in front of whatever the list holds by now, and the newest candles
\* of the result are kept; or the request fails.
MoreDone(c) ==
    /\ more[c] # None
    /\ more' = [more EXCEPT ![c] = None]
    /\ \/ /\ \E p \in Pages(more[c].key, {t \in rows[SeriesOf[more[c].key]] : t < more[c].before}) :
               list' = [list EXCEPT ![c] = LastN(p \o @, MaxCandles)]
          /\ spoiled' = IF \/ list[c] = <<>> \/ more[c].key # key[c]
                           \/ more[c].before # Head(list[c]).t
                          THEN spoiled \union {c} ELSE spoiled
       \/ UNCHANGED <<list, spoiled>>
    /\ UNCHANGED <<client, server, loads, buffer, key, switches, troubles, shared, due>>

\* A later candle is appended, one of the same time replaces the last, an older one is
\* dropped.
MergedAlways(s, b) == LastN(Append(s, b), MaxCandles)
MergedUnsliced(s, b) ==
    IF s = <<>> \/ b.t > Last(s).t THEN Append(s, b)
    ELSE IF b.t = Last(s).t THEN [s EXCEPT ![Len(s)] = b] ELSE s
MergedLaterOnly(s, b) ==
    IF s = <<>> \/ b.t > Last(s).t THEN LastN(Append(s, b), MaxCandles) ELSE s
MergedSameOnly(s, b) ==
    IF s # <<>> /\ b.t = Last(s).t THEN [s EXCEPT ![Len(s)] = b] ELSE s
Merged(s, b) ==
    IF s = <<>> \/ b.t > Last(s).t THEN LastN(Append(s, b), MaxCandles)
    ELSE IF b.t = Last(s).t THEN [s EXCEPT ![Len(s)] = b] ELSE s

\* What a flush of candle b into list s costs: an older candle that is not in the list, or
\* the first one of a full list.
Cost(s, b) ==
    IF s = <<>> \/ b.t = Last(s).t THEN {}
    ELSE IF b.t < Last(s).t THEN {b.t} \ Dates(s)
    ELSE IF Len(s) = MaxCandles THEN {Head(s).t} ELSE {}

\* The 200 ms flush.
Flush(c) ==
    /\ buffer[c] # None
    /\ buffer' = [buffer EXCEPT ![c] = None]
    /\ LET b == buffer[c]
       IN  /\ list' = [list EXCEPT ![c] = Merged(@, b)]
           /\ spoiled' = IF b.key # key[c] THEN spoiled \union {c} ELSE spoiled
           /\ due' = [due EXCEPT ![c] = (@ \union Buffered(c)) \ Cost(list[c], b)]
    /\ UNCHANGED <<client, server, loads, more, key, switches, troubles, shared>>

--------------------------------------------------------------------------------
Next ==
    \/ OnOpen \/ OnClose \/ Reconnect \/ Break \/ Deliver
    \/ ServerRead \/ HubStops \/ Boundary
    \/ \E z \in Series : Trade(z) \/ CloserFlush(z)
    \/ \E k \in Keys : ServerUpdate(k) \/ ServerUpdateLate(k) \/ Announce(k)
    \/ \E c \in Charts, k \in Keys : SwitchKey(c, k)
    \/ \E c \in Shown : ServerAnswer(c) \/ LoadDone(c) \/ LoadMore(c) \/ MoreDone(c) \/ Flush(c)

Spec == Init /\ [][Next]_vars

\* The browser runs due timers and events, and the closers wake up.  As long as the hub is
\* not stopped its read goroutines and its ticker run; it need not last, trades need not come,
\* closers need not succeed and requests need not end.
Fairness ==
    /\ WF_vars(OnOpen) /\ WF_vars(OnClose) /\ WF_vars(Reconnect) /\ WF_vars(Deliver)
    /\ WF_vars(ServerRead) /\ \A k \in Keys : WF_vars(ServerUpdate(k))
    /\ \A z \in Series : WF_vars(CloserFlush(z))
    /\ \A c \in Shown : WF_vars(Flush(c))

FairSpec == Spec /\ Fairness
--------------------------------------------------------------------------------
(* Properties *)

\* The client keeps the promise of SubRegistry: through any order of setting changes, losses
\* and reconnections it has asked the server, over the connection it has, for exactly the
\* active subscriptions, and a lost link comes back.  What the hub makes of it (it may refuse
\* one, and once stopped it reads nothing) is not promised.
Registry == INSTANCE SubRegistry WITH
    want <- Wanted,
    have <- IF ws = "open" THEN Held ELSE {},
    link <- ws = "open"
RegistryKept == Registry!Spec

\* A callback left in subCallbacks belongs to a chart that still shows its key, so no message
\* of an abandoned subscription is put into a chart's buffer.
CallbackShowsKey == \A k \in Keys : subs[k] # None => key[subs[k]] = k

\* A chart without its subscription has, or had, another chart on the same key: two charts
\* with equal settings take the one entry of subCallbacks from each other, and the first to
\* leave deletes it for both.  There is no other way to fall silent.
SilentOnlyWhenShared == \A c \in Charts : ~Owns(c) => c \in shared

Loaded(c) == \A r \in loads[c] : ~r.active

\* A loaded list is of the chart's own key and, except at the base compression, whose loads
\* the cache answers newest first, in strict order of time - unless a page asked for another
\* list or a candle buffered under the previous key has gone into it.
ListInOrder == \A c \in Shown : Loaded(c) /\ c \notin spoiled =>
    /\ \A i \in DOMAIN list[c] : list[c][i].key = key[c]
    /\ key[c] \notin Base => \A i \in 1 .. Len(list[c]) - 1 : list[c][i].t < list[c][i + 1].t

\* Whatever the server sent to a chart under its key, there is a candle of that date in the
\* loaded list or still on its way, unless it was lost in one of these ways: it was on a
\* broken connection, the chart had lost its callbacks, a candle of another date overwrote it
\* in the one-place buffer before the flush, it came after a later one, the list it had gone
\* into was replaced by an answer without it or emptied by a failure, or it was the first one
\* of a full list.
SentCandleKept == \A c \in Shown : Loaded(c) /\ c \notin spoiled =>
    due[c] \subseteq Dates(list[c]) \union OnWire(c) \union Buffered(c)

\* A chart that has its subscription comes to show the growing candle as its last one,
\* whatever loads, losses and reconnections lie between, and although the complete candle
\* before it comes under the same date - unless it loses the subscription to another chart,
\* the hub refuses it or stops, or nothing is traded.
LiveCandleShown == \A c \in Shown :
    Owns(c) ~> \/ ~Owns(c) \/ ~hub \/ SeriesOf[key[c]] \notin traded \/ key[c] \in asked \ served
               \/ list[c] # <<>> /\ Last(list[c]) = Growing(key[c], clock)
================================================================================
