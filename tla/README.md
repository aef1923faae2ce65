# Verification of the cluster-chart terminal

The repository is a service for footprint ("cluster") charts of crypto markets. A Go
backend reads the trade stream of Binance, adds the trades up per price bin and candle,
keeps the open candle in Redis and closed candles in ClickHouse, and pushes both to
browsers over WebSocket. A React application draws them.

This directory holds TLA+ models of the backend's concurrent core and of the stateful parts
of the browser application, the TLC configurations that check them, and proofs checked by
TLAPS. `PROJECT.json` lists for every definition
the source lines it stands for, for every property the run that checks it and a mutated
definition that breaks it, and for every hazard of the code the property that covers it.

## 1. The system

| Part | State | Operations | Talks to |
|---|---|---|---|
| `aggregate.Aggregator` | cells per price bin, `seen` ids, `lastTradeID` | `ProcessTrade`, `Flush` | called by WSClient and CandleCloser, from two goroutines, without a lock |
| `ingest.WSClient` | connection, backoff | `Run`, `connect`, `runConn` | Binance; every aggregator of the symbol; `IncrCell` in Redis |
| `ingest.GapFiller` | none | `FillGap` | Binance REST |
| `ingest.CandleCloser`, one per timeframe | the boundary it waits for | `Run` | `Flush`, ClickHouse, Redis, the hub (callback in a new goroutine) |
| `cache.RedisCache` | live hash per open candle, sorted set of the last 700 | `IncrCell`, `SetLastCandle`, `DelAggKey`, reads | WSClient, closers, hub, REST |
| `store.ClickHouse` | cluster tables (ReplacingMergeTree), ticker table | `BatchInsert`, `QueryCandles`, ticker rows | closers, history loader, REST, admin |
| `ws.Hub` | clients, subscriptions, one RWMutex | register, subscribe, broadcast every tick, announce closed candles | clients' channels, Redis, closers |
| `ws.Client` | send channel, own subscriptions, closed flag | `ReadPump`, `WritePump`, `Close` | hub, browser |
| `ws.Handler` | connections per address | `ServeHTTP` | hub |
| `api` | DOM streams, fear-and-greed cache, ticker list | candles, tickers, DOM | Redis, ClickHouse, Binance |
| `admin` | history jobs, ticker list, log ring | load, progress, tickers, logs | ClickHouse, Redis, history |
| `history` | files in a temporary directory | download, extract, aggregate, insert | Binance archive, ClickHouse |
| browser `wsClient.ts` | socket, reconnect timer, map of subscriptions and callbacks | connect, subscribe, reconnect, dispatch | `/ws`, charts |
| `App.tsx`, data | candle list and one-place buffer per chart, requests under way | load, page back, subscribe, flush every 200 ms | `/api/candles`, `wsClient` |
| `App.tsx`, settings | two charts' settings, focus, layout, indicator list, role, user; `localStorage` | toolbar, focus, layout, effects, role menu | every component below |
| `ClusterChart.tsx` | zoom, scroll, gestures, drawings | mouse and wheel handlers, automatic scroll, range profile | candle list |
| `IndicatorsModal.tsx` | draft of the indicator list | edit, apply | `App.tsx` |
| `DOMSidebar.tsx` | balance, position, limit orders | market and limit orders, matching on a price change | `localStorage` |
| `Header.tsx`, `UserProfile.tsx` | signed-in user, profile form, checkout and its timers | sign in and out, role, plan | `localStorage`, events |
| `AdminPanel.tsx` | history job followed, ticker list and form | load history, follow it, add and delete tickers | admin API |

What is hard here: the trade loop and `Flush` interleave inside one candle; a closed candle
takes four calls to two stores, each of which may fail, and a crash may fall between any
two; trades are lost with a connection, arrive again, or out of order; the hub's mutex is
taken from many goroutines, some of which already hold it; slow browsers fill bounded
channels; timers run late. In the browser one callback runs at a time, but answers, messages
and timers come in any order and find settings that have changed since they were asked for;
effects run for whichever chart has the focus; state is kept in several copies that follow
each other through events, renders and `localStorage`; gestures end in handlers of different
elements. History jobs share files and may be cut off anywhere. `PROJECT.json` lists these hazards at their lines.

What makes each part correct:

* Aggregator and closer: no trade counted twice or dropped unnoticed; one insert per candle
  time; whatever is shown is stored; every candle is closed in the end.
* WSClient: trades missed during a disconnect are fetched.
* Hub, client, handler: both copies of the subscriptions agree; connection slots add up; a
  client that missed a message is disconnected, and that stops nobody else; a closing candle
  is announced to all its subscribers, close before open.
* Browser client: whatever happens to the connection, the server has been asked for exactly the
  subscriptions wanted, and messages reach the chart that shows their key.
* Candle lists: of one key, in order of time, what was sent is kept, the open candle shown.
* Settings: valid for the market, belonging to what the chart shows, never those of a chart
  that is not on the screen; one role in force, stored, and not lost.
* Gestures end; the canvas shows where the container is scrolled to; the value area is right.
* Trading simulator: the account follows from the fills, orders are filled when reached.
* History and admin: a job that is called complete has loaded its days or logged why not; a
  cut download never becomes data; the copies of a ticker agree; the tab stays usable.
* REST reads and the order book: see the plan.

## 2. Modules

| Module | Models |
|---|---|
| `Aggregator` | the fields of one aggregator and each access to them |
| `Ingest` | WSClient, GapFiller, the aggregators, Redis writes, CandleCloser, ClickHouse inserts, restarts |
| `MCIngest` | small instances of `Ingest` |
| `MCIngestSkipped` | `Ingest` watched for the trades of one lost connection |
| `IngestProofs` | theorems about `Ingest` |
| `WsHub` | handler, hub, clients, candle close announcements |
| `MCWsHub` | small instances of `WsHub` |
| `WsHubProofs` | theorems about `WsHub` |
| `SubRegistry` | abstract: what the browser's WebSocket client promises |
| `LiveFeed` | `wsClient.ts` and the data effects of `App.tsx`; implements `SubRegistry` |
| `PaperTrading` | the trading simulator of `DOMSidebar.tsx` |
| `Tiers` | limits of the tier in force |
| `Workspace` | the two charts, toolbar, focus, layout, effects |
| `Indicators` | indicator list, settings window, overlays |
| `ChartView` | gestures, zoom, scroll and drawings of one chart |
| `RangeProfile` | the range volume profile and its value area |
| `Terminal` | composes `Workspace`, `Indicators`, `ChartView`, `RangeProfile` under a changing tier |
| `Account` | user and role with their copies, checkout |
| `HistoryLoad` | history tab, job handlers, pipeline and files |
| `Tickers` | ticker table, handlers' list, database tab |
| `Admin` | composes `HistoryLoad` and `Tickers` |
| `MCFeedLive` | `LiveFeed` on the two instances of `feed_live` |
| `MCLiveFeed`, `MCTerminal`, `MCAdmin` | small instances of these |
| `MCSession` | a small instance of `PaperTrading` and `Account` side by side |
| `LiveFeedProofs`, `PaperTradingProofs`, `TerminalProofs`, `AccountProofs`, `AdminProofs` | theorems about these |
| `Induction` | lemmas for the proofs: induction with a set for the predicate; sums, folds and maxima |

### Ingest

Composes the aggregators (operators of `Aggregator` on the records `agg[tf]`) with the one
goroutine that fills them and the closers that empty them.

A volume is represented by the trades it is made of: a function from trade ids to how often
each was added. One price bin is followed. Bins do not influence each other, and this keeps
exactly what the properties need, which trade is missing or counted twice. Prices,
quantities and their rounding to 0.1 are left out.

| Variable | Code |
|---|---|
| `wpc`, `trade`, `cur`, `pos`, `gap`, `fill`, `base` | locals of `runConn`, `ProcessTrade`, `IncrCell` |
| `agg[tf]` | `Aggregator.cells`, `seen`, `lastTradeID` |
| `live[tf][t]` | Redis hash `agg:<market>:<symbol>:<tf>:<t>` |
| `cpc`, `next`, `batch` | locals of `CandleCloser.Run` |
| `rows`, `cache` | cluster table, sorted set of last candles |
| `announced` | candles given to `onClose` |
| `online`, `wire`, `tradeTime`, `clock` | the outside |
| `added`, `stored`, `lost` | history variables: no action reads them |

Granularity: every access to a field that two goroutines share is an action. `ProcessTrade`
is `SkipSeen` or `MarkTrade`, `DetectGap`, `MoveLast`, `AddTrade`; `Flush` is `FlushCopy`,
`FlushCells`, `FlushSeen`, `FlushLast`. A read and a write that the code makes in a row are one
action only where a `Flush` step between them gives a state that another order of the
actions also gives (the test and the marking of `seen`; the lookup of a cell and the
addition to it, which after a reset is a lost trade like one before it). Go may also abort the
process when it catches two goroutines in one map; that is `Crash`, at any time. Shutdown by
signal loses what a crash loses.

Failures: `Troubles` names the kinds, `MaxTroubles` how many happen in a behaviour. A lost
connection empties the wire. A failing `FillGap` returns a prefix of the gap. A failing
HGET reads as an empty cell. A failing `BatchInsert` may or may not have written. A failing
`SetLastCandle` may have added the candle without trimming.

### WsHub

A critical section of `hub.mu` is one action, guarded by the lock being free; the code between
two sections is an action of its own (`Register` and then `ClientCount`; reading the live
hash and then `Snapshot`). `hubLock` is held beyond one action only in `Unregister`, which
waits for a lock it holds; nothing after it is reached, so `conn.Close` and `releaseIP`
behind it are not actions. Channels are bounded sequences, `go c.Close()` and each
`sendCloseOpen` are goroutines of their own, each send of a message to a client is a step.

One (symbol, market, timeframe) is followed: subscription keys differ in the compression.
Candle contents and texts are left out; answers are `Ok` and `Error`.

| Variable | Code |
|---|---|
| `rpc`, `wpc` | goroutines of `ServeHTTP`/`ReadPump` and `WritePump` |
| `conn`, `addr` | the connection and its address |
| `subKeys`, `send`, `closed` | fields of `Client` |
| `closing` | `go c.Close()` that have not run |
| `slots` | `Handler.connsByIP` |
| `registered`, `subs`, `hubLock` | fields of `Hub` |
| `bpc`, `keys`, `message`, `targets` | locals of `broadcastTick`, `broadcastSub` |
| `notices`, `senders` | `go onClose`, `go sendCloseOpen` |
| `missed`, `owed`, `given` | history variables |

### The browser: what a step is

JavaScript runs one callback at a time, and React commits the updates of a handler together
with the effects they cause before the next event. So a handler with its commit, an effect, a
promise callback, a timer or a message is one action, and what follows an `await` is another.
Where the order inside one event matters it is spelled out: the event that
`handleUserRoleChange` dispatches before its updater has run (`PickedLate`), the commit of
`onClickCapture` before the handler of the button (`ToggledAfterFocus`), `scrollLeft` set before
the spacer has its new width (`Stretch`, `AutoScroll`).

### LiveFeed and SubRegistry

A key stands for symbol, market, timeframe and compression; keys that differ in the compression
only are of one series, which has one closer, one live hash and one set of rows. `Base` are the keys
at the base compression. Every chart subscribes; the lists of those in `Shown` are followed.

A candle is its key, its date and whether it is complete. Date n is the open time of candle n. An
update of the growing candle is dated by its open time (`broadcastSub`); the complete candle, as a
close message and as a row, is dated by the boundary at which it ended (finding 1), which is the open
time of the candle after it. So the browser gets two candles under each date: the complete form of
the one before, and the growing one, which replaces it.

| Variable | Code |
|---|---|
| `ws`, `timer`, `delay` | `WsClient.ws`, `reconnectTimer`, `reconnectDelay` |
| `subs` | `activeSubs` and `subCallbacks` |
| `commands`, `served`, `wire` | requests under way, the hub's subscriptions, messages under way |
| `clock`, `traded`, `closing`, `telling`, `rows` | the open candle, series whose live hash has cells, closers that sleep after a boundary, closes still to be announced, dates of the stored candles |
| `hub` | is the hub's lock free |
| `key` | settings of each chart, and `prevSubRef` |
| `loads`, `more` | history effects with their `active` flag, `handleLoadMore` with `isLoadingMore` |
| `list`, `buffer` | `candles0/1`, `incomingCandleBufferRef0/1` |
| `shared`, `asked`, `spoiled`, `due` | history variables |

The server is modelled as far as the browser can tell. A boundary (`Boundary`) only begins the next
candle. The closer of each series wakes up some time later (`CloserFlush`), as the ticker already sends
updates of the new candle, or one it read before the boundary (`ServerUpdateLate`); it may store
nothing, or get an error whether or not the rows were written; or it stores the candle, may delete the hash
of that date, which is the open candle's, and has the hub tell each key (`Announce`, a goroutine
per key). `ServerRead` may refuse a subscription. `HubStops` is finding 3: any disconnect, of this or
another browser, stops the hub for good; a connection still opens after that, since the upgrade
comes before `Register`, but nothing is read or sent any more. `ServerUpdate` sends nothing for an
empty hash. A load may be answered with any stored candles, as the cache, the row limit and the limit on age
may leave out any: from ClickHouse oldest first, from the cache, at the base compression, newest first.

`SubRegistry` is a set of wanted subscriptions, a link, and what was asked for over it: nothing while
the link is down, exactly what is wanted while it is up. `LiveFeed` implements it
(`RegistryKept`, liveness included) with `want` the keys with callbacks, `link` an open
socket, and `have` what the server has been asked for, requests under way included. It says nothing of
what the server makes of it. The promise is
about keys: `SilentOnlyWhenShared` says what it does not give to two charts with the same one.

`SentCandleKept` follows dates: whatever was sent to a chart, a candle of that date is in its list or
under way, or was lost in a named way. Which of the two candles of a date it is, is the subject of
`LiveCandleShown` for the last one.

### PaperTrading

The effect that matches limit orders is `Match`: `Execute` goes through the orders in the order of
the list, fills those that are triggered and hands the rest on. Prices are integers, the balance is rounded to cents. `net`, `low`,
`high`, `matched`, `foreign`, `early` are history variables; each order also remembers whether
the market was at its price while nothing was matched.

### Terminal: Workspace, Indicators, ChartView, RangeProfile, Tiers

* `Workspace`: `chart`, `active`, `layout` are the per-chart settings, `activeChartIndex` and
  `workspaceLayout`. `Settled` is the two effects that depend on the settings seen through the
  focus; every action that edits or moves the focus ends in it.
* `Indicators`: `indicators` is the list and what is stored of it, `draft` and `shown` the
  window. `Copied` is the effect on `[isOpen, indicators]`.
* `ChartView`: `scrollLeft` is the container's, `view` is `visibleScrollLeft`, `scrolled` a scroll
  event still to come. `AutoScroll` is the effect that goes to the latest candle, for every change
  of the pair, the list, the price range or the container; for a pair other than `fitted` it
  sets the default zoom first, to any width, since forty candles may need any. It assigns `scrollLeft`
  under the old spacer. `UpOrLeave` is `handleMouseUpOrLeave` with its early returns.
* `RangeProfile`: the buckets and one action per round of the loop that extends the value area.
* `Terminal`: the tier, which two of the four read, changes freely. A pair that is picked for the first
  chart is a step of `Workspace` and of `ChartView` together (`ChartStep`): the chart is not mounted
  anew. Otherwise none writes a variable of another. A behaviour of the page is therefore one of each
  with stuttering in between, and `part` chooses the one that moves. This is no restriction for
  properties of one part, which all of them are, and replaces a product of the state spaces by a sum.

### Account

`saved` and `savedRole` are the two keys of `localStorage`, `profileUser`, `role`, `headerUser` and
`tier` their copies in `App`, `Header` and `UserProfile`. `Synchronised` is what the event
`procluster_user_updated` does in all listeners. Another tab writes at any time and its
storage event comes later. `timers` are the verification timers, which nothing cancels.

### Admin: HistoryLoad and Tickers

* `HistoryLoad`: a job is a goroutine with a program counter per day; `zip` and `csv` are the
  files, absent, empty, cut short or whole, shared by all jobs; `creator` says whose file it is
  when two jobs create it; `rows` is the table. `panel`, `sent`, `stray`, `answers`, `sources`
  are the tab and its requests and event streams.
* `Tickers`: `table` with the accepted deletions `doomed`, `configs` of the handlers, `registry`
  the tab, `req` the requests under way, each of which writes the table and then the list.
* `Admin`: as in `Terminal`, `part` chooses the one that moves; what they have in common (mounting,
  restarts, the refusal of an unknown ticker) each can do at any time by itself.

## 3. Runs

`ingest*`, `hub*`, `feed*` and `admin` say `CHECK_DEADLOCK FALSE`: trades, clock, messages, jobs and
failures are bounded, and when they are used up the model stops; the hub really stops. `session` and
`terminal` check for deadlock: a user can always do something. `terminal` is symmetric
in the two drawings and has no liveness property.

| Run | Properties | Instance | Shows |
|---|---|---|---|
| `ingest` | `TypeOK`, `OneInsertPerCandle`, `PublishedIsStored`, `VolumeAccounted` | 3 trades, 1 timeframe, clock to 2, 1 trouble | the safety of closing candles |
| `ingest_live` | `CountedTradeIsFlushed`, `CloserComesBack` | 1 trade, 2 timeframes (1 and 2 units), 1 trouble | closers never stop |
| `ingest_label` | `CandleTimeIsOpenTime` | 1 trade, no trouble | violated: finding 1 |
| `ingest_skipped` | `NoTradeSkipped` | 3 trades, 1 boundary, 1 drop | violated: finding 2 |
| `hub` | `TypeOK`, `SubsMirror`, `SlotsAccounted`, `NoSilentGap`, `SlowClientDisconnected` | 2 clients, 1 slot, 1 subscription, channels of 1, 1 trouble | bookkeeping and backpressure |
| `hub_close` | `BoundaryAnnounced` | 2 clients, 1 closing candle | announcements |
| `hub_stuck` | `SlowClientStopsNobody` | 2 clients, no trouble | violated: finding 3 |
| `feed` | `TypeOK`, `ListInOrder`, `SentCandleKept` | 2 charts, 2 keys of 1 series, candles 2 and 3, pages of 1, lists of 2, 1 switch, 1 trouble, 1 message under way | data of a chart |
| `feed_live` | `CallbackShowsKey`, `SilentOnlyWhenShared`, `RegistryKept`, `LiveCandleShown` | 2 charts; 3 keys, 4 switches, 2 troubles and no candles; or as `feed`, candles 1 and 2, lists of 1 | refinement of `SubRegistry`; the open candle comes to be shown |
| `session` | `TypeOK`, `PositionIsNetOfFills`, `EntryIsAverageOfFills`, `ReachedOrderLeaves`, `FilledOnlyWhenReached`; `RoleIsStored`, `PickNotLost`, `PlanPaidFor` | 1 pair, 3 prices, sizes 1 and 2, 3 orders; 4 tiers, 1 timer per plan | the simulator; the copies of user and role |
| `terminal` | `TypeOK`, `NoShortSpot`, `CompressionBelongsToKey`, `HiddenChartUntouched`, `DraftNotStale`, `GestureNeedsButton`, `ScrollInStep`, `ValueAreaRight` | 2 pairs, 3 intervals, 2 tiers, 2 indicators; changes of the pair, 1 candle, 2 zoom levels, 2 drawings, 3 tools; profiles of 2 candles by 4 steps | the page |
| `admin` | `AdminTypeOK`, `LoadedOrExplained`, `CompleteMeansDone`, `CopiesAgree`, `PanelUsableAgain` | 2 days, 2 jobs, 1 fault, 1 restart; 1 ticker, 2 configurations, 2 requests at once | history loads and ticker table |

Bounds. Three trades are the fewest with one before, one inside and one after a gap, and
let a gap fill race a repeated delivery. A clock of 2 gives each closer two boundaries, so a
late timer can skip one and a restart can meet one. One trouble is a lost connection, a failing
call or a crash, at every point of every behaviour; several in one behaviour are left to the
theorems, which hold for any number. `MaxLast` 1 makes the trim of the cache happen. In `ingest_live` the longer
timeframe has its boundary together with every second one of the shorter. For the hub, two
clients are needed for one to suffer from another; limits and channels of 1 are reached at
once, and both are beyond the first element when full. The bounds are on the environment;
the theorems below do not depend on them.

In `feed*` the two charts start on one key, as they do with the one pair of `EMPTY_PAIRS`. In `feed`
one of them leaves the other; candle 2 ends and candle 3 begins, is closed and announced
in every order with loads, a page and one loss; lists of 2 make every merge and page meet the
cut; the order within a page, which takes two candles, is left to the theorem. `feed_live` checks two
instances at once (`MCFeedLive`). In the one without candles four switches let the charts part, meet and
follow each other over three keys, around two losses or failed attempts, and the hub may stop. In the other one
there is one boundary, so that the complete candle comes under the date of the growing one, one switch and one loss;
the key both start with is at the base compression. There the hub does not stop: it never starts again, and
`LiveCandleShown` asks for nothing from then on.
`feed` has 4.1 million states, `terminal` 2.9, `session` 1.3 and `feed_live`, under fairness, 0.5: two to
three minutes each. In `session` three orders cover, turn and extend a position, sizes 1 and 2 leave a rest,
and three prices put one on either side of an order; the cash refuses the largest buys. In
`terminal` the three intervals are one that spot does not offer and is moved off, one it
offers, and one it does not offer and is not moved off; one tier is at its limit with one
indicator and has one workspace; a channel, a level and a text are the three kinds of drawing
gesture; of two drawings one can be drawn while the other is dragged or deleted; one candle comes
and goes, and with two zoom levels gives the content three widths to scroll in, and a refit room to be
wider than the spacer it meets; the profile has
room for growth on both sides of its largest bucket, ties and empty buckets. All
tiers that can be stored are there for the account; it and the simulator
share no variable, and one moves while the other stands still. In `admin` two jobs meet in every file of a day, with
one fault and one restart anywhere; two requests are the fewest that overlap, and tickers do
not influence each other.

Fairness. `Ingest!FairSpec`: the clock goes on, and the Go scheduler runs each closer that
can run. Nothing is assumed of the trade loop, the network or the stores: a call that fails
returns (the clients have timeouts). `WsHub!FairSpec`: the ticker fires and the broadcast loop
runs, a started `go c.Close()` runs, and a read on a closed connection returns an error and its
goroutine goes on to `Unregister`. Peers owe nothing. `LiveFeed!FairSpec`: the browser runs due timers
and events (`onopen` or `onclose`, reconnect, messages, the flush), and each closer wakes up after a boundary.
The hub's read goroutines and its ticker run as long as its lock is free: `ServerRead` and `ServerUpdate`
are not enabled once `hub` is false, and `LiveCandleShown` promises nothing then (finding 3). Trades,
users, losses and answers to requests owe nothing.
`HistoryLoad!HistoryFairness`: a job's goroutine, which ends a day by failing if nothing else,
and the browser's requests and event streams; nobody has to press a button or stay on the page.

### Findings

1. `closer.go:77` dates a candle by the boundary at which it closes; `docs/01_DATA_MODEL.md`
   says open time. Rows of the history loader are dated by open time, so the two kinds
   collide. The same value names the live hash that `DelAggKey` removes, which is that of the
   candle just begun; the hash of the closed one stays. (`ingest_label`)
2. Trades lost with a connection are looked for only when a later trade of the same candle
   shows the gap, and `Flush` forgets the last id;
   `docs/01_DATA_MODEL.md` asks for the trades after every reconnect. The trace of `ingest_skipped`: trade 1
   is counted, the connection is lost with trade 2 on the wire and comes back, the closer flushes at the
   boundary, trade 3 is read from the new connection, reports no gap and is counted. `MCIngestSkipped`
   remembers what was counted before the loss, what was lost with it and what came after, so that
   trades that only overtake each other on one connection do not count.
3. `Hub.Unregister` calls `ClientCount` while it holds the write lock: the first disconnect
   stops the hub for everybody, against `docs/05_SECURITY.md`. (`hub_stuck`)

`SlotsAccounted` counts the connections stuck in `Unregister` among those that hold a slot:
with finding 3 no slot of a registered connection is ever given back.

### What the models record about the code

Most properties of the browser name their exceptions. Each exception is something the code does
in the model and the run reaches; a property without the exception would be violated. Those
a reader of the code should know of:

* Two charts on one key share one callback entry: the later one gets the messages, and when
  either leaves, both are unsubscribed (`SilentOnlyWhenShared`).
* An older page is put in front of whatever list is there when it arrives; a candle buffered
  under the old key goes into the new list (`spoiled` in `ListInOrder`).
* At the base compression a load is answered from the cache newest first, from ClickHouse and at other
  compressions oldest first, and nobody sorts: the list begins with its newest candle, the growing one is
  appended behind the oldest, and scrolling back asks for the page before the newest (`Base` in `ListInOrder`).
* After a reconnection the subscriptions are sent again and nothing asks for the candles that ended
  meanwhile, which `docs/02_CHART_ENGINE.md` section 8 wants: the next candle is appended behind the hole.
  `SentCandleKept` speaks of what was sent.
* The complete candle comes under the date of the next one: the browser shows it as the new candle
  until the next update replaces it, or drops it if that update came first, and the candle it belongs to stays
  with its last update. An update overwrites another candle in the buffer when both come within
  200 ms; an answer to a load replaces whatever came before it, and one that fails empties the list
  (`due` in `SentCandleKept`).
* The simulator's order form is not rendered in this commit; the engine runs on stored orders.
  A market buy that covers a short loses its profit, a sale out of a long counts its profit
  twice. After a reload or a change of pair orders may be filled against a foreign previous
  price (`FilledOnlyWhenReached`).
* A change of focus to a chart with another key resets that chart's compression; a second chart
  closed from its own menu keeps the focus, and the toolbar edits a chart nobody sees
  (`HiddenChartUntouched`); a page load overwrites the first chart's stored compression; a spot
  chart stays on 50t (`NoShortSpot`). A lower tier removes nothing that is shown. Order and
  visibility of indicators do not survive a reload. The eye of an overlay deactivates it, and
  doing so discards the draft of an open window.
* A pan, or the drag of a drawing, begun while a channel waits for its second click goes on after
  the button is released, and so does a pan begun under such a drag (`GestureNeedsButton`). A pan beyond an end, a stretched time scale, and the
  default zoom of a new pair where it is wider than the one before draw the canvas for a
  place the container is not at (`ScrollInStep`). Every new candle, page or change of the price
  range jumps to the latest candle.
* The role menu is one pick behind; signing in and out and saving the profile dispatch no event.
  A verification timer outlives its dialog and ends the next checkout (`PlanPaidFor`).
* A job is "done" also when it skipped days; its status is never "error". An archive cut short is
  taken for complete and the day is skipped by every later job, until the file is removed; an
  extracted file cut short is loaded (`torn` in `LoadedOrExplained`).
* Overlapping changes of one ticker leave table and handlers' list different; a restart before
  ClickHouse has carried out a deletion brings the ticker back; an emptied table is filled
  again at the next start; the fetch after a deletion may still show the row (`CopiesAgree`).
  A ticker added at run time is not ingested nor known to the API before a restart.

## 4. Proofs

Every invariant of the passing runs, and their one action property, is proved for all values of
the constants; TLC checks the same formulas on the instances above. The bounds (`Max...`) are
constants like the others: any number of trades, clients, candles, orders, jobs, losses and
restarts. The assumptions on the constants are named in the modules that declare them
(`IngestAssumption`, ...): limits and periods are positive, bounds are natural numbers, `None` or
`Null` is none of the values it is told apart from, and what the code fixes (the intervals, the
tools, the names of the tiers the code compares with) is fixed. TLC evaluates all of them.

In each module the proof is the same: an inductive invariant, one step lemma with a case per
action, unchanged parts dealt with once, and a theorem that puts them together. What follows
says why the property alone is not inductive.

### IngestProofs

* `TypeCorrect`. `TypeInv` adds `Issued` (a trade on the wire or being processed has a time) and
  `Copied` (between `FlushCopy` and `FlushCells` the aggregator still has at least what was
  copied), without which the volume `Flush` drops might be negative.
* `OneInsertPerCandleHolds`. `RowsInv` adds `BoundaryOrder`: no row is
  dated after the clock, a closer past its timer has a boundary the clock has reached, and
  from `Arm` to the insert the boundary is later than every row. It rests on
  `NextCloseTimeIsLater`, for all periods. A restart is harmless because the clock has
  reached every boundary that was written and the next one is later than the clock.
* `PublishedIsStoredHolds`. `PublishedInv` adds that a closer that is about to cache or to
  announce its candle has it in ClickHouse.
* `VolumeAccountedHolds`. Inductive relative to `TypeInv`; the argument is one equation per trade
  and timeframe, with a case for each place a batch can be.

### WsHubProofs

From `WsHubAssumption`, which says also that there is an address to connect from.

* `TypeOKHolds`. `Types` says in parts what each map, channel and program counter holds.
* `SubsMirrorHolds`. `SubInv` adds `Known`: a connection that has not been registered has no
  subscriptions and is not in the hub, and one that reads messages is. Without it a late
  `Register` could bring in subscriptions that the hub does not have. `KeyOfRequest` shows that
  what the validator lets through, 0 included, is a key the hub can broadcast.
* `NoSilentGapHolds`. Inductive once `closed` is known to be a function; the three senders share
  the lemma `OfferKeeps`.
* `SlotsAccountedHolds`. `SlotInv` adds that the connections of an address that hold a slot are
  finitely many, so that their number goes up and down by one, and that local addresses
  count nothing.
* `BoundaryAnnouncedHolds`. `BoundaryInv` says for a sender at each of its phases what it has no
  longer to give, and that its clients were given it (`SenderDone`); that what is owed has a sender
  or was given (`OwedHeld`); and that the close message was given before the open message
  (`InTurn`). Any number of senders run at once.

### LiveFeedProofs

* `TypeOKHolds`, `CallbackShowsKeyHolds`, `SilentOnlyWhenSharedHolds`. `SubscriptionInv` adds that two
  charts with one key are both marked as sharing: the later `SwitchKey` of either finds it so.
* `ListInOrderHolds`. `OrderInv` adds that a load whose `active` flag is set is for the chart's key,
  which is what the clean-up of the effect is for, and that its answer is of that key and, except at the base
  compression, in order. `NewestInOrder`, `JoinedInOrder` and `MergedInOrder` are the cut, an older page and
  a flush, for lists of any length.
* `SentCandleKeptHolds`. Inductive with the types and `CallbackShowsKey`, which says that what is put into
  the buffer of a chart under its key was sent to it. The lemmas `Kept...` go through the steps of the client, the server and the
  chart; `PagedKeeps` and `FlushCosts` say what a page and a flush leave of the dates of a list. The
  order of the list plays no part in it, so it holds at every compression.
* `RegistryStepsHold`: `LiveFeed` starts as `SubRegistry` does, and each step is a step of it or changes
  nothing it speaks of. It needs `LinkInv` (without an open connection no command is under way and
  nothing has been asked for). `HeldAfterOpen` and the lemmas before it show what a list of
  commands comes to: the last one about a key decides.

### PaperTradingProofs

* `TypeOKHolds`, `PositionIsNetOfFillsHolds`, `EntryIsAverageOfFillsHolds`. `MoneyInv` is the position,
  the range of the fills and, for a flat account, that entry price and range are 0; without that the
  first fill would be averaged with what is left of an earlier position.
  `RoundBetween` and `AveragedBetween` show that a weighted average rounded to a cent stays between
  prices that are whole cents. `BoughtRight` and `SoldRight` deal with one fill that opens, grows,
  covers or turns the position.
* `ReachedOrderLeavesHolds`, `FilledOnlyWhenReachedHolds`. `PassRight` is the loop over the list of
  orders, for lists of any length: what remains is in order of price and is exactly what was not
  triggered, and money follows through every fill. `OrdersInv` adds that an order's number was handed
  out, that `prevPrice` is the price, and `AwaitedInv`: where `prevPrice` is of this market, it has
  not come to any order of the pair that was not reached when it was placed. An order that is then
  triggered lies between the two prices (`ReachedBetween`).

### TerminalProofs

`part` chooses who moves, so each part has an invariant of its own and the theorems are about the
whole page.

* `NoShortSpotHolds`, `CompressionBelongsToKeyHolds`, `HiddenChartUntouchedHolds` (an action property).
  `WorkspaceInv` is both invariants and `FocusShown`: in the one-chart layout the second chart has
  the focus only where it was closed from its own menu. `SettledFacts` is what the two effects do.
* `DraftNotStaleHolds`, with the types of the window, in `ModalInv`.
* `GestureNeedsButtonHolds`. `GestureInv` adds what happens when the pointer leaves:
  a drag or pan that goes on without the pointer, or behind another unfinished gesture, is
  one of the two that leak.
* `ScrollInStepHolds`. `ScrollInv` is the property with the types: `scrollLeft` within
  the content at every zoom and length of the list. `ScrollFacts` is what the browser does with an
  assignment to it. `AutoScrollKeeps`: only wider candles can want to go further than the old spacer reaches.
* `ValueAreaRightHolds`. `ProfileInv` holds in every round of the loop: the buckets hold the volume
  in the box (`SumPartition`), the area is a run of them around the largest, the volume counted is
  that of the run (`SumAdd`), and the bucket that joined last was needed. At the end the run has
  70%, or has grown over all buckets.
* `TypeOKHolds`: the parts together, for every tier.

### AccountProofs

* `RoleIsStoredHolds`: inductive as it is.
* `PickNotLostHolds`. `PickInv`: as long as a pick is wanted the stored user has it, because the late
  write and its event come after the write of the user.
* `PlanPaidForHolds`. `CheckoutInv` adds that while a checkout is not crossed there is no timer of the
  other plan.

### AdminProofs

* `LoadedOrExplainedHolds`. `LoadInv`: a file cut short is marked or somebody is extracting it; a job
  that reads has a file to read; what is about to be inserted is whole or marked; and the
  claim holds for each day that a job has behind it, done or not.
* `CompleteMeansDoneHolds`. `Followed`: a page on which the button was not pressed twice waits for one
  answer or follows one job, the one it shows, and it is not complete while it does either.
* `CopiesAgreeHolds`. `CopiesInv`: a request between its two writes that met no other is the only
  one with its ticker, and the table has what it will put into the list; the last list
  that was read is right and on its way, or is on the page, whenever nothing is under way
  that will fetch it again.
* `AdminTypeOKHolds`: with `Room`, that a job number is left for every request under way.

### Induction

The prover cannot use a lemma with a predicate as a parameter, so these lemmas have a set in its
place: `NaturalsIn` (a set with 0 and with n + 1 for each n has all naturals), `FiniteSetIn` (the same
for subsets of a finite set), and from them what `SumFunctionOnSet`, `Max` and `FoldLeft` compute,
which the library defines by `CHOOSE` or recursion: `SumAdd`, `SumUnion`, `SumPartition`, `MaxIn`,
`FoldExists`. There are no facts about `SelectSeq`; the models do without.

### Only model-checked

Liveness, and what needs ENABLED: `CountedTradeIsFlushed`, `CloserComesBack`,
`SlowClientDisconnected`, `LiveCandleShown`, `PanelUsableAgain`, and of `RegistryKept` the fairness of
`SubRegistry` (its initial state and steps are `RegistryStepsHold`). The three findings
are counterexamples.

The proofs changed what the models say in a few places, where the invariant turned out not to be
inductive for a larger instance: the drag of a drawing also escapes the button, which takes a second
drawing (`GestureNeedsButton`). `Held` and `Execute` were rewritten to be reasoned about,
with the same state space.

## 5. Plan

In this order; done items are described above.

1. Done: `Aggregator`, `Ingest`, `WsHub`, `SubRegistry`, `LiveFeed`, `PaperTrading`, `Tiers`, `Workspace`,
   `Indicators`, `ChartView`, `RangeProfile`, `Terminal`, `Account`, `HistoryLoad`, `Tickers`, `Admin`.
2. Done: the theorems of section 4.
3. `Reads`: which rows `GetLastCandles` and `QueryCandles` return, over unmerged ReplacingMergeTree parts,
   row limit, live hash; against an abstract store with one value per key.
4. `Dom`: stream map, polling goroutine and request context, fear-and-greed cache.
5. `Clusters`: `BinPriceLow`, `RoundHalfUp`, `MergeCells`, DOM binning and the indicators as
   operators over integers, checked against reference definitions, with their lemmas (a bin
   contains its price, merging keeps volumes).
6. Lemmas that would carry the liveness arguments as far as steps go: a closer that is not at its
   timer has a next step, and what ranks its way back.

## 6. Not modelled

Formatting, logging and HTTP plumbing; lengths of timeouts and backoffs; the proxy
settings; the landing page; deployment files, except that the restart policy is what makes
`Crash` a restart. The parts the plan lists are not modelled yet.

Of the browser: drawing on the canvas and the indicators' curves; the vertical direction of the
chart, whose gestures follow the same handlers; the coordinates of drawings; dragging and
resizing the indicators window; the splitter between the charts; the connection status, which is
kept but not displayed; metrics, logs, compression defaults and tier limits of the admin page,
which are forms over a fetch (nothing reads the compression defaults). `marketData.ts`,
`OrderBook.tsx`, `TimeAndSales.tsx`, `SidebarPairs.tsx` and `destroyWsClient` are not used by
anything in this commit.
