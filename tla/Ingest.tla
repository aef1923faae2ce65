-------------------------------- MODULE Ingest --------------------------------
(***************************************************************************)
(* The ingest pipeline of one (symbol, market): the Binance trade stream,  *)
(* the WSClient goroutine that feeds one aggregator per timeframe, the     *)
(* GapFiller, the live hash in Redis, and one CandleCloser goroutine per   *)
(* timeframe that moves finished candles to ClickHouse and to the cache of *)
(* recent candles (backend/internal/ingest, aggregate, cache, store).      *)
(*                                                                         *)
(* WSClient and the closers share the aggregators without a lock: every    *)
(* access to a shared field is a step, and they interleave freely.         *)
(***************************************************************************)
EXTENDS Aggregator, Sequences, FiniteSets

CONSTANTS
    NumTimeframes,   \* the WSClient feeds aggregators 1 .. NumTimeframes, in this order
    Period,          \* TfSeconds of each timeframe, in clock units
    MaxLast,         \* maxLastCandles, 700 in the code
    MaxClock,        \* bound: the wall clock stops here
    Troubles,        \* what may go wrong: "drop", a connection is lost; "fault", a call
                     \* to ClickHouse, Redis or REST fails; "crash", the process dies
    MaxTroubles      \* bound: how many of these happen in one behaviour

ASSUME IngestAssumption ==
    /\ NumTimeframes \in Nat \ {0}
    /\ Period \in [1..NumTimeframes -> Nat \ {0}]
    /\ MaxLast \in Nat \ {0}
    /\ MaxClock \in Nat
    /\ Troubles \subseteq {"drop", "fault", "crash"}
    /\ MaxTroubles \in Nat

VARIABLES
    clock,        \* wall clock
    tradeTime,    \* tradeTime[id] = T of trade id, for every trade issued so far
    online,       \* the websocket connection is up
    wire,         \* trades sent on the current connection and not read yet
    wpc,          \* where the WSClient goroutine stands in runConn
    trade,        \* the trade runConn read last (0: none)
    cur,          \* the trade in ProcessTrade: trade itself, or one of a gap
    pos,          \* i of "for i := range c.aggs"
    gap,          \* what ProcessTrade(trade) reported as missing
    fill,         \* fetched gap trades still to be processed
    base,         \* the cell IncrCell read from the live hash
    agg,          \* the aggregators
    live,         \* live[tf][t]: the cell of Redis hash agg:...:tf:t
    cpc,          \* where each CandleCloser goroutine stands in Run
    next,         \* the boundary it waits for; the label of the candle it closes
    batch,        \* cells returned by Flush
    rows,         \* ClickHouse: the inserts into the clusters table, oldest first
    cache,        \* Redis sorted set of the last candles
    announced,    \* candles handed to onClose
    added,        \* history: how often each trade was accumulated ...
    stored,       \* ... reached ClickHouse ...
    lost,         \* ... or was given up after it had been accumulated
    troubles      \* how much of MaxTroubles is used up

clientVars == <<wpc, trade, cur, pos, gap, fill, base>>
closerVars == <<cpc, next, batch>>
storeVars  == <<rows, cache, announced>>
streamVars == <<clock, tradeTime, online, wire>>
tallyVars  == <<added, stored, lost>>
vars == <<streamVars, clientVars, agg, live, closerVars, storeVars, tallyVars, troubles>>

Timeframes == 1..NumTimeframes
Times      == 0..MaxClock
Candle     == [time : Nat, cells : Volume]

\* aggregate.CandleTimeUnix: the open time of the candle a time belongs to.
CandleTime(t, tf) == (t \div Period[tf]) * Period[tf]

\* Mutant: the boundary already passed instead of the next one.
NextCloseTimeLate(now, tf) == (now \div Period[tf]) * Period[tf]

\* ingest.nextCloseTime
NextCloseTime(now, tf) == ((now \div Period[tf]) + 1) * Period[tf]

Trouble(kind) ==
    /\ kind \in Troubles
    /\ troubles < MaxTroubles
    /\ troubles' = troubles + 1

-------------------------------------------------------------------------------
(* The outside: time and the exchange.                                     *)

Tick ==
    /\ clock < MaxClock
    /\ clock' = clock + 1
    /\ UNCHANGED <<tradeTime, online, wire, clientVars, agg, live, closerVars, storeVars, tallyVars, troubles>>

\* A trade happens.  It reaches the process only if the connection is up.
Issue ==
    LET id == Len(tradeTime) + 1 IN
    /\ id \in TradeIds
    /\ tradeTime' = Append(tradeTime, clock)
    /\ wire' = IF online THEN wire \cup {id} ELSE wire
    /\ UNCHANGED <<clock, online, clientVars, agg, live, closerVars, storeVars, tallyVars, troubles>>

\* The connection breaks and what was on it is lost.  runConn finds out at its
\* next ReadMessage.
LoseConnection ==
    /\ online
    /\ online' = FALSE
    /\ wire' = {}
    /\ Trouble("drop")
    /\ UNCHANGED <<clock, tradeTime, clientVars, agg, live, closerVars, storeVars, tallyVars>>

-------------------------------------------------------------------------------
(* WSClient.                                                               *)

\* Run dials again after its backoff; how long it waits is left out.
Connect ==
    /\ wpc = "read"
    /\ ~online
    /\ online' = TRUE
    /\ UNCHANGED <<clock, tradeTime, wire, clientVars, agg, live, closerVars, storeVars, tallyVars, troubles>>

\* ReadMessage and ParseTradeMessage.  The code does not count on the ids arriving
\* in order, so they may come in any order; a trade that a gap fill has brought in
\* already arrives a second time here.
ReadTrade ==
    /\ wpc = "read"
    /\ online
    /\ \E id \in wire :
        /\ trade' = id
        /\ cur' = id
        /\ wire' = wire \ {id}
    /\ pos' = 1
    /\ wpc' = "mark"
    /\ UNCHANGED <<clock, tradeTime, online, gap, fill, base, agg, live, closerVars, storeVars, tallyVars, troubles>>

\* After ProcessTrade(cur): fetch the gap it reported, or take the next fetched
\* trade, or go on to the live hash.  Gaps reported for fetched trades are dropped.
Continue(missing, fetched) ==
    IF missing # {}
    THEN wpc' = "fetch" /\ UNCHANGED <<cur, fill>>
    ELSE IF fetched # {}
         THEN /\ wpc' = "mark"
              /\ \E first \in fetched :
                  /\ \A i \in fetched : first <= i
                  /\ cur' = first
                  /\ fill' = fetched \ {first}
         ELSE wpc' = "hget" /\ cur' = trade /\ fill' = {}

\* ProcessTrade: "if a.seen[t.TradeID] return".
SkipSeen ==
    /\ wpc = "mark"
    /\ cur \in agg[pos].seen
    /\ Continue({}, fill)
    /\ UNCHANGED <<streamVars, trade, pos, gap, base, agg, live, closerVars, storeVars, tallyVars, troubles>>

MarkTrade ==
    /\ wpc = "mark"
    /\ cur \notin agg[pos].seen
    /\ agg' = [agg EXCEPT ![pos] = MarkSeen(@, cur)]
    /\ wpc' = "last"
    /\ UNCHANGED <<streamVars, trade, cur, pos, gap, fill, base, live, closerVars, storeVars, tallyVars, troubles>>

\* Gap detection: a read of lastTradeID, ...
DetectGap ==
    /\ wpc = "last"
    /\ gap' = IF cur = trade THEN GapBefore(agg[pos], cur) ELSE {}
    /\ wpc' = "advance"
    /\ UNCHANGED <<streamVars, trade, cur, pos, fill, base, agg, live, closerVars, storeVars, tallyVars, troubles>>

\* ... and then its update, which may already see the reset of a Flush.
MoveLast ==
    /\ wpc = "advance"
    /\ agg' = [agg EXCEPT ![pos] = AdvanceLast(@, cur)]
    /\ wpc' = "add"
    /\ UNCHANGED <<streamVars, trade, cur, pos, gap, fill, base, live, closerVars, storeVars, tallyVars, troubles>>

\* Bin and accumulate; ProcessTrade returns.  A trade added to a cell that Flush has
\* meanwhile thrown away is lost like one added between its copy and its reset.
AddTrade ==
    /\ wpc = "add"
    /\ agg' = [agg EXCEPT ![pos] = Accumulate(@, cur)]
    /\ added' = [added EXCEPT ![pos][cur] = @ + 1]
    /\ Continue(gap, fill)
    /\ UNCHANGED <<streamVars, trade, pos, gap, base, live, closerVars, storeVars, stored, lost, troubles>>

\* FillGap returns the missing trades in order of id, or only the first few of
\* them: a rate limit, an error or an empty batch ends the download.  For futures
\* it returns none (aggTrade ids are another numbering).
FillGap ==
    /\ wpc = "fetch"
    /\ \E upTo \in gap \cup {0} :
        LET fetched == {i \in gap : i <= upTo} IN
        /\ \/ fetched = gap /\ UNCHANGED troubles
           \/ fetched # gap /\ Trouble("fault")
        /\ Continue({}, fetched)
    /\ gap' = {}
    /\ UNCHANGED <<streamVars, trade, pos, base, agg, live, closerVars, storeVars, tallyVars>>

\* IncrCell, first round trip: HGET.  Any error reads as an empty cell.
ReadCell ==
    /\ wpc = "hget"
    /\ \/ base' = live[pos][CandleTime(tradeTime[trade], pos)] /\ UNCHANGED troubles
       \/ base' = NoVolume /\ Trouble("fault")
    /\ wpc' = "hset"
    /\ UNCHANGED <<streamVars, trade, cur, pos, gap, fill, agg, live, closerVars, storeVars, tallyVars>>

\* IncrCell, second round trip: HSET of the value read plus this trade; the
\* loop goes on to the next timeframe or back to ReadMessage.
WriteCell ==
    /\ wpc = "hset"
    /\ \/ /\ live' = [live EXCEPT ![pos][CandleTime(tradeTime[trade], pos)] =
                        [base EXCEPT ![trade] = @ + 1]]
          /\ UNCHANGED troubles
       \/ /\ Trouble("fault")
          /\ UNCHANGED live
    /\ base' = NoVolume
    /\ IF pos < NumTimeframes
       THEN wpc' = "mark" /\ pos' = pos + 1 /\ cur' = trade /\ UNCHANGED trade
       ELSE wpc' = "read" /\ pos' = 1 /\ cur' = 0 /\ trade' = 0
    /\ UNCHANGED <<streamVars, gap, fill, agg, closerVars, storeVars, tallyVars>>

-------------------------------------------------------------------------------
(* CandleCloser of timeframe tf.                                           *)

\* The top of the loop: which boundary to wait for.
Arm(tf) ==
    /\ cpc[tf] = "arm"
    /\ next' = [next EXCEPT ![tf] = NextCloseTime(clock, tf)]
    /\ cpc' = [cpc EXCEPT ![tf] = "sleep"]
    /\ UNCHANGED <<streamVars, clientVars, agg, live, batch, storeVars, tallyVars, troubles>>

\* The timer fires at the boundary and 200 ms pass: the goroutine runs at some
\* time from the boundary on.  Flush copies the cells, ...
FlushCopy(tf) ==
    /\ cpc[tf] = "sleep"
    /\ clock >= next[tf]
    /\ batch' = [batch EXCEPT ![tf] = agg[tf].cells]
    /\ cpc' = [cpc EXCEPT ![tf] = "cells"]
    /\ UNCHANGED <<streamVars, clientVars, agg, live, next, storeVars, tallyVars, troubles>>

\* ... then replaces the three fields one after the other.
FlushCells(tf) ==
    /\ cpc[tf] = "cells"
    /\ agg' = [agg EXCEPT ![tf] = ResetCells(@)]
    /\ lost' = [lost EXCEPT ![tf] = Plus(@, Minus(agg[tf].cells, batch[tf]))]
    /\ cpc' = [cpc EXCEPT ![tf] = "seen"]
    /\ UNCHANGED <<streamVars, clientVars, live, next, batch, storeVars, added, stored, troubles>>

FlushSeen(tf) ==
    /\ cpc[tf] = "seen"
    /\ agg' = [agg EXCEPT ![tf] = ResetSeen(@)]
    /\ cpc' = [cpc EXCEPT ![tf] = "last"]
    /\ UNCHANGED <<streamVars, clientVars, live, next, batch, storeVars, tallyVars, troubles>>

\* Mutant: "return" where the code says "continue".
FlushLastReturns(tf) ==
    /\ cpc[tf] = "last"
    /\ agg' = [agg EXCEPT ![tf] = ResetLast(@)]
    /\ cpc' = [cpc EXCEPT ![tf] = IF batch[tf] = NoVolume THEN "returned" ELSE "insert"]
    /\ UNCHANGED <<streamVars, clientVars, live, next, batch, storeVars, tallyVars, troubles>>

\* An empty candle is skipped.
FlushLast(tf) ==
    /\ cpc[tf] = "last"
    /\ agg' = [agg EXCEPT ![tf] = ResetLast(@)]
    /\ cpc' = [cpc EXCEPT ![tf] = IF batch[tf] = NoVolume THEN "arm" ELSE "insert"]
    /\ UNCHANGED <<streamVars, clientVars, live, next, batch, storeVars, tallyVars, troubles>>

Closed(tf) == [time |-> next[tf], cells |-> batch[tf]]

\* Mutant: the rows are labelled with the open time, the cache with the boundary.
InsertRowsAtOpen(tf) ==
    /\ rows' = [rows EXCEPT ![tf] = Append(@, [Closed(tf) EXCEPT !.time = @ - Period[tf]])]
    /\ stored' = [stored EXCEPT ![tf] = Plus(@, batch[tf])]

InsertRows(tf) ==
    /\ rows' = [rows EXCEPT ![tf] = Append(@, Closed(tf))]
    /\ stored' = [stored EXCEPT ![tf] = Plus(@, batch[tf])]

\* BatchInsert
Insert(tf) ==
    /\ cpc[tf] = "insert"
    /\ InsertRows(tf)
    /\ cpc' = [cpc EXCEPT ![tf] = "cache"]
    /\ UNCHANGED <<streamVars, clientVars, agg, live, next, batch, cache, announced, added, lost, troubles>>

\* BatchInsert reports an error, with or without the rows having reached
\* ClickHouse; the closer logs it and drops the candle.
InsertError(tf) ==
    /\ cpc[tf] = "insert"
    /\ Trouble("fault")
    /\ \/ /\ lost' = [lost EXCEPT ![tf] = Plus(@, batch[tf])]
          /\ UNCHANGED <<rows, stored>>
       \/ InsertRows(tf) /\ UNCHANGED lost
    /\ cpc' = [cpc EXCEPT ![tf] = "arm"]
    /\ batch' = [batch EXCEPT ![tf] = NoVolume]
    /\ UNCHANGED <<streamVars, clientVars, agg, live, next, cache, announced, added>>

\* ZADD, then ZREMRANGEBYRANK 0 -(MaxLast+1): the MaxLast latest stay.
Newest(candles) ==
    {c \in candles : Cardinality({d \in candles : d.time > c.time}) < MaxLast}

\* SetLastCandle.  Its two commands are no transaction: after an error, which is
\* logged, none or only the first of them was carried out, and the closer goes on.
SetLastCandle(tf) ==
    /\ cpc[tf] = "cache"
    /\ \/ /\ cache' = [cache EXCEPT ![tf] = Newest(@ \cup {Closed(tf)})]
          /\ UNCHANGED troubles
       \/ /\ Trouble("fault")
          /\ \E kept \in {{}, {Closed(tf)}} : cache' = [cache EXCEPT ![tf] = @ \cup kept]
    /\ cpc' = [cpc EXCEPT ![tf] = "del"]
    /\ UNCHANGED <<streamVars, clientVars, agg, live, next, batch, rows, announced, tallyVars>>

\* DelAggKey of the key made from the boundary (an error is logged), then
\* "go cl.onClose(...)" and back to the top.
DelLiveAndNotify(tf) ==
    /\ cpc[tf] = "del"
    /\ \/ /\ live' = [live EXCEPT ![tf][next[tf]] = NoVolume]
          /\ UNCHANGED troubles
       \/ /\ Trouble("fault")
          /\ UNCHANGED live
    /\ announced' = [announced EXCEPT ![tf] = @ \cup {Closed(tf)}]
    /\ cpc' = [cpc EXCEPT ![tf] = "arm"]
    /\ batch' = [batch EXCEPT ![tf] = NoVolume]
    /\ UNCHANGED <<streamVars, clientVars, agg, next, rows, cache, tallyVars>>

-------------------------------------------------------------------------------
\* The volume only the process knows of: what the aggregator holds, and what Flush
\* has taken out of it and ClickHouse does not have.  Until Flush resets the cells,
\* the copy and the aggregator hold the same trades.
InMemory(tf) ==
    IF cpc[tf] \in {"seen", "last", "insert"}
    THEN Plus(agg[tf].cells, batch[tf])
    ELSE agg[tf].cells

\* The process dies - the Go runtime aborts it when it catches two goroutines in
\* one map, among other reasons - and docker restarts it.  Redis and ClickHouse
\* keep what they have; the aggregators start empty.
Crash ==
    /\ Trouble("crash")
    /\ online' = FALSE /\ wire' = {}
    /\ wpc' = "read" /\ trade' = 0 /\ cur' = 0 /\ pos' = 1
    /\ gap' = {} /\ fill' = {} /\ base' = NoVolume
    /\ agg' = [tf \in Timeframes |-> NewAggregator]
    /\ cpc' = [tf \in Timeframes |-> "arm"]
    /\ batch' = [tf \in Timeframes |-> NoVolume]
    /\ lost' = [tf \in Timeframes |-> Plus(lost[tf], InMemory(tf))]
    /\ UNCHANGED <<clock, tradeTime, live, next, storeVars, added, stored>>

Init ==
    /\ clock = 0 /\ tradeTime = <<>> /\ online = FALSE /\ wire = {}
    /\ wpc = "read" /\ trade = 0 /\ cur = 0 /\ pos = 1
    /\ gap = {} /\ fill = {} /\ base = NoVolume
    /\ agg = [tf \in Timeframes |-> NewAggregator]
    /\ live = [tf \in Timeframes |-> [t \in Times |-> NoVolume]]
    /\ cpc = [tf \in Timeframes |-> "arm"]
    /\ next = [tf \in Timeframes |-> 0]
    /\ batch = [tf \in Timeframes |-> NoVolume]
    /\ rows = [tf \in Timeframes |-> <<>>]
    /\ cache = [tf \in Timeframes |-> {}]
    /\ announced = [tf \in Timeframes |-> {}]
    /\ added = [tf \in Timeframes |-> NoVolume]
    /\ stored = [tf \in Timeframes |-> NoVolume]
    /\ lost = [tf \in Timeframes |-> NoVolume]
    /\ troubles = 0

ProcessTrade == SkipSeen \/ MarkTrade \/ DetectGap \/ MoveLast \/ AddTrade

IncrCell == ReadCell \/ WriteCell

Client == Connect \/ ReadTrade \/ ProcessTrade \/ FillGap \/ IncrCell

Flush(tf) == FlushCopy(tf) \/ FlushCells(tf) \/ FlushSeen(tf) \/ FlushLast(tf)

Closer(tf) ==
    \/ Arm(tf)
    \/ Flush(tf)
    \/ Insert(tf)
    \/ InsertError(tf)
    \/ SetLastCandle(tf)
    \/ DelLiveAndNotify(tf)

Next ==
    \/ Tick
    \/ Issue
    \/ LoseConnection
    \/ Client
    \/ \E tf \in Timeframes : Closer(tf)
    \/ Crash

Spec == Init /\ [][Next]_vars

\* Time passes, and the Go scheduler runs every closer that can run.  Trades,
\* connections, failures and crashes need not happen.
FairSpec ==
    /\ Spec
    /\ WF_vars(Tick)
    /\ \A tf \in Timeframes : WF_vars(Closer(tf))

-------------------------------------------------------------------------------
StreamTypes ==
    /\ clock \in Times
    /\ tradeTime \in Seq(Times)
    /\ online \in BOOLEAN
    /\ wire \subseteq TradeIds

ClientTypes ==
    /\ wpc \in {"read", "mark", "last", "advance", "add", "fetch", "hget", "hset"}
    /\ trade \in TradeIds \cup {0}
    /\ cur \in TradeIds \cup {0}
    /\ pos \in Timeframes
    /\ gap \subseteq TradeIds
    /\ fill \subseteq TradeIds
    /\ base \in Volume

SharedTypes ==
    /\ agg \in [Timeframes -> AggregatorState]
    /\ live \in [Timeframes -> [Times -> Volume]]

CloserTypes ==
    /\ cpc \in [Timeframes -> {"arm", "sleep", "cells", "seen", "last", "insert", "cache", "del"}]
    /\ next \in [Timeframes -> Nat]
    /\ batch \in [Timeframes -> Volume]

StoreTypes ==
    /\ rows \in [Timeframes -> Seq(Candle)]
    /\ cache \in [Timeframes -> SUBSET Candle]
    /\ announced \in [Timeframes -> SUBSET Candle]

TallyTypes ==
    /\ added \in [Timeframes -> Volume]
    /\ stored \in [Timeframes -> Volume]
    /\ lost \in [Timeframes -> Volume]

TypeOK ==
    /\ StreamTypes /\ ClientTypes /\ SharedTypes
    /\ CloserTypes /\ StoreTypes /\ TallyTypes
    /\ troubles \in Nat

\* The closer never writes a candle time twice and never goes back, across late
\* timers, failed inserts and restarts: ReplacingMergeTree, keyed by candle_time
\* and price, would replace the cells of the first insert by those of the second.
OneInsertPerCandle ==
    \A tf \in Timeframes :
        \A i, j \in 1..Len(rows[tf]) : i < j => rows[tf][i].time < rows[tf][j].time

\* A candle is served from the cache, or announced to the browsers, only when
\* ClickHouse has exactly that candle: a chart never shows a candle that a reload
\* from the database would not find.
PublishedIsStored ==
    \A tf \in Timeframes :
        \A c \in cache[tf] \cup announced[tf] :
            \E i \in 1..Len(rows[tf]) : rows[tf][i] = c

\* Closing a candle never duplicates volume, and there are three ways to lose it
\* only: a trade added between Flush's copy and its reset, a failed insert, and a
\* crash.  Everything else that was ever added is in the open candle, on its way
\* to ClickHouse, or in ClickHouse, once.
VolumeAccounted ==
    \A tf \in Timeframes : \A id \in TradeIds :
        added[tf][id] = InMemory(tf)[id] + stored[tf][id] + lost[tf][id]

\* A counted trade does not stay in memory: if the boundary its closer waits for
\* still comes, it ends up in ClickHouse or is lost in one of the three ways above.
CountedTradeIsFlushed ==
    \A tf \in Timeframes : \A id \in TradeIds :
        (InMemory(tf)[id] > 0 /\ cpc[tf] = "sleep" /\ next[tf] <= MaxClock)
            ~> (InMemory(tf)[id] = 0)

\* The closer of each timeframe always comes back to waiting for a boundary.
CloserComesBack ==
    \A tf \in Timeframes : []<>(cpc[tf] = "sleep")

\* What docs/01 section 4.3 says of candle_time: the open time of the candle its
\* trades belong to.  The closer writes the boundary it waited for, one period later.
CandleTimeIsOpenTime ==
    \A tf \in Timeframes : \A i \in 1..Len(rows[tf]) : \A id \in TradeIds :
        rows[tf][i].cells[id] > 0 => rows[tf][i].time = CandleTime(tradeTime[id], tf)
===============================================================================
