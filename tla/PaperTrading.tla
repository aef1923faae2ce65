----------------------------- MODULE PaperTrading ------------------------------
(***************************************************************************)
(* The trading simulator behind the order-book sidebar of the terminal     *)
(* (frontend-chart/src/components/DOMSidebar.tsx): a cash balance, one     *)
(* position with its average entry price, limit orders that are matched    *)
(* when the price changes, all of it kept in localStorage.                 *)
(*                                                                         *)
(* A handler with the effects React runs after it is one step: the four    *)
(* values are stored in the commit that changes them, so the stored state  *)
(* is the state and a reload reads it back.  Prices are integers in        *)
(* ten-thousandths, the precision entryPrice is kept with; the balance is  *)
(* rounded to cents.  The code rounds at the end of a matching pass, the   *)
(* model after each fill of it.                                            *)
(***************************************************************************)
EXTENDS Integers, Sequences, SequencesExt, FiniteSets

CONSTANTS
    Symbols,    \* pairs that can be shown
    Prices,     \* prices of the market and of limit orders
    Sizes,      \* order sizes
    Cash,       \* balance at the start, 100000 in the code
    MaxOrders   \* bound: orders given

ASSUME PaperTradingAssumption ==
    /\ Prices \subseteq Nat \ {0} /\ Sizes \subseteq Nat \ {0}
    /\ Cash \in Nat /\ MaxOrders \in Nat

VARIABLES
    symbol, price,  \* activePair; its price is 0 until the first candle is loaded
    prevPrice,      \* prevPriceRef
    account,        \* balance, position and entryPrice
    orders,         \* limitOrders, highest price first
    given,          \* how much of MaxOrders is used
    net,            \* history: signed sizes of the fills since the position was closed
    low, high,      \* history: the lowest and highest fill since the position was flat or turned
    matched,        \* history: ids the last matching pass left open at this price and symbol
    foreign,        \* history: prevPrice is not the previous price of this pair
    early           \* history: some order was filled with the market short of its price
                    \* and prevPrice the pair's own

vars == <<symbol, price, prevPrice, account, orders, given, net, low, high, matched, foreign,
          early>>

Orders == [id : 1 .. MaxOrders, price : Prices, size : Sizes, side : {"buy", "sell"},
           symbol : Symbols, crossed : BOOLEAN]

TypeOK ==
    /\ symbol \in Symbols /\ price \in Prices \union {0} /\ prevPrice \in Prices \union {0}
    /\ account \in [balance : Int, position : Int, entry : Nat]
    /\ orders \in Seq(Orders) /\ given \in 0 .. MaxOrders
    /\ \A i, j \in 1 .. Len(orders) : i < j => orders[i].price >= orders[j].price
    /\ net \in Int /\ low \in Nat /\ high \in Nat
    /\ matched \subseteq 1 .. MaxOrders /\ foreign \in BOOLEAN /\ early \in BOOLEAN

Init ==
    /\ symbol \in Symbols /\ price = 0 /\ prevPrice = 0
    /\ account = [balance |-> Cash, position |-> 0, entry |-> 0]
    /\ orders = <<>> /\ given = 0
    /\ net = 0 /\ low = 0 /\ high = 0 /\ matched = {} /\ foreign = TRUE /\ early = FALSE
--------------------------------------------------------------------------------
(* Arithmetic of a fill: a is the account, n is bought or sold at p *)

Abs(x) == IF x < 0 THEN -x ELSE x
Smaller(x, y) == IF x < y THEN x ELSE y
Round(x, d) == IF x < 0 THEN -((d - 2 * x) \div (2 * d)) ELSE (2 * x + d) \div (2 * d)
ToCents(x) == 100 * Round(x, 100)

\* The entry price when n is added at p to a position in the same direction.
Averaged(a, p, n) == Round(Abs(a.position) * a.entry + p * n, Abs(a.position) + n)

\* Position and entry price after a buy: a long grows; a short is covered, and what is left
\* of the order turns it into a long entered at p.
BoughtKeepingEntry(a, p, n) ==
    IF a.position >= 0
      THEN [position |-> a.position + n, entry |-> Averaged(a, p, n)]
      ELSE [position |-> a.position + n, entry |-> IF a.position + n = 0 THEN 0 ELSE a.entry]
BoughtCoverOnly(a, p, n) ==
    IF a.position >= 0
      THEN [position |-> a.position + n, entry |-> Averaged(a, p, n)]
      ELSE LET covered == Smaller(-a.position, n)
           IN  [position |-> a.position + covered,
                entry |-> IF a.position + covered = 0 THEN 0 ELSE a.entry]
Bought(a, p, n) ==
    IF a.position >= 0
      THEN [position |-> a.position + n, entry |-> Averaged(a, p, n)]
      ELSE LET covered == Smaller(-a.position, n)
           IN  IF n > covered
                 THEN [position |-> n - covered, entry |-> p]
                 ELSE [position |-> a.position + covered,
                       entry |-> IF a.position + covered = 0 THEN 0 ELSE a.entry]

\* The same for a sell.
Sold(a, p, n) ==
    IF a.position <= 0
      THEN [position |-> a.position - n, entry |-> Averaged(a, p, n)]
      ELSE LET covered == Smaller(a.position, n)
           IN  IF n > covered
                 THEN [position |-> covered - n, entry |-> p]
                 ELSE [position |-> a.position - covered,
                       entry |-> IF a.position = covered THEN 0 ELSE a.entry]

\* The profit of covering a short, which only the limit-order path adds to the balance:
\* handleMarketBuy adds it too, and then overwrites the balance.
CoverProfit(a, p, n) == IF a.position >= 0 THEN 0
                        ELSE Smaller(-a.position, n) * (a.entry - p)

\* A sell out of a long is credited with its profit and with what it sold for.
SaleCredit(a, p, n) == IF a.position <= 0 THEN 0
                       ELSE Smaller(a.position, n) * ((p - a.entry) + p)

With(a, balance, held) ==
    [balance |-> ToCents(balance), position |-> held.position, entry |-> held.entry]
BuyLimit(a, p, n) == With(a, a.balance - p * n + CoverProfit(a, p, n), Bought(a, p, n))
BuyMarket(a, p, n) == With(a, a.balance - p * n, Bought(a, p, n))
Sell(a, p, n) == With(a, a.balance + SaleCredit(a, p, n), Sold(a, p, n))
--------------------------------------------------------------------------------
(* Matching *)

\* History: the range of fills since the position was flat or changed sides, when the
\* position goes from x to y with a fill at p.
Lowest(lo, x, y, p) == IF y = 0 THEN 0 ELSE IF x * y <= 0 THEN p ELSE IF Abs(y) < Abs(x) THEN lo
                       ELSE Smaller(lo, p)
Highest(hi, x, y, p) == IF y = 0 THEN 0 ELSE IF x * y <= 0 THEN p ELSE IF Abs(y) < Abs(x) THEN hi
                        ELSE -Smaller(-hi, -p)

\* The market is at or through the price of an order.
Beyond(side, limit, p) == IF side = "buy" THEN limit >= p ELSE limit <= p

\* Is the order reached at price p, coming from prev: at or through its price, or in between.
TriggeredOnCross(o, prev, p) ==
    o.price >= Smaller(prev, p) /\ o.price <= -Smaller(-prev, -p)
TriggeredAsSell(o, prev, p) ==
    \/ Beyond("sell", o.price, p)
    \/ o.price >= Smaller(prev, p) /\ o.price <= -Smaller(-prev, -p)
Triggered(o, prev, p) ==
    \/ Beyond(o.side, o.price, p)
    \/ o.price >= Smaller(prev, p) /\ o.price <= -Smaller(-prev, -p)

\* The orders that price p of sym triggers, coming from prev.
Hit(o, sym, prev, p) == o.symbol = sym /\ Triggered(o, prev, p)

\* One round of the loop over limitOrders: an order that is not triggered remains, a buy the
\* balance does not cover is dropped, anything else is filled.
Execute(s, o, sym, prev, p) ==
    IF ~Hit(o, sym, prev, p) THEN [s EXCEPT !.remaining = Append(s.remaining, o)]
    ELSE IF o.side = "buy" /\ s.account.balance < o.price * o.size THEN s ELSE
    LET after == IF o.side = "buy" THEN BuyLimit(s.account, o.price, o.size)
                                   ELSE Sell(s.account, o.price, o.size)
        x == s.account.position
    IN  [remaining |-> s.remaining,
         account |-> after,
         net  |-> s.net + (IF o.side = "buy" THEN o.size ELSE -o.size),
         low  |-> Lowest(s.low, x, after.position, o.price),
         high |-> Highest(s.high, x, after.position, o.price)]

\* The market has not come to the order: not now, and not (history, in the order itself) when
\* it was placed or while nothing was matched.
Unreached(o, p) == ~o.crossed /\ ~Beyond(o.side, o.price, p)

\* The loop over limitOrders.
Pass(sym, prev, p) ==
    FoldLeft(LAMBDA s, o : Execute(s, o, sym, prev, p),
             [remaining |-> <<>>, account |-> account, net |-> net, low |-> low, high |-> high],
             orders)

\* The effect on a change of price.  Without orders, or at an unchanged price, only
\* prevPrice follows.  strange is history: prev is not a price of this market.
Match(sym, prev, p, strange) ==
    LET end == Pass(sym, prev, p)
    IN  IF p = prev
          THEN /\ UNCHANGED <<account, orders, net, low, high, early>>
               /\ matched' = IF sym = symbol THEN matched ELSE {}
          ELSE /\ account' = end.account /\ net' = end.net /\ low' = end.low /\ high' = end.high
               /\ orders' = end.remaining
               /\ matched' = {o.id : o \in {q \in ToSet(end.remaining) : q.symbol = sym}}
               /\ early' = \/ early
                           \/ ~strange /\ \E o \in ToSet(orders) :
                                             Hit(o, sym, prev, p) /\ Unreached(o, p)
--------------------------------------------------------------------------------
(* The operations *)

\* A candle sets the price of the active pair.
PriceChange(p) ==
    /\ p # price
    /\ price' = p /\ prevPrice' = p /\ foreign' = FALSE
    /\ Match(symbol, prevPrice, p, foreign)
    /\ UNCHANGED <<symbol, given>>

\* Another pair becomes the active one, or the same pair on the chart of another market:
\* orders are told apart by symbol only.
ChangePair(s, p) ==
    /\ symbol' = s /\ price' = p /\ prevPrice' = p /\ foreign' = (p = 0 \/ p = prevPrice)
    /\ Match(s, prevPrice, p, TRUE)
    /\ UNCHANGED given

\* The page is loaded again: the account and the orders come back from storage, the price
\* is 0 until the first candle.
Reload ==
    /\ price' = 0 /\ prevPrice' = 0 /\ foreign' = TRUE /\ matched' = {}
    /\ UNCHANGED <<symbol, account, orders, given, net, low, high, early>>

\* The terminal is shown again after the admin or profile page, at price p: what the price
\* did in between was not matched.
Remount(p) ==
    /\ price' = p /\ prevPrice' = p /\ matched' = {} /\ foreign' = FALSE
    /\ orders' = [i \in DOMAIN orders |->
                    [orders[i] EXCEPT !.crossed = @ \/ Beyond(orders[i].side, orders[i].price, p)]]
    /\ UNCHANGED <<symbol, account, given, net, low, high, early>>

Filled(after, p, n) ==
    /\ account' = after
    /\ net' = net + n
    /\ low' = Lowest(low, account.position, after.position, p)
    /\ high' = Highest(high, account.position, after.position, p)
    /\ given' = given + 1
    /\ UNCHANGED <<symbol, price, prevPrice, orders, matched, foreign, early>>

MarketBuy(n) ==
    /\ given < MaxOrders
    /\ account.balance >= price * n
    /\ Filled(BuyMarket(account, price, n), price, n)

MarketSell(n) ==
    /\ given < MaxOrders
    /\ Filled(Sell(account, price, n), price, -n)

\* The order goes behind the orders of the same price.
InsertedLast(o) == Append(orders, o)
Inserted(o) == InsertAt(orders,
                        1 + Max({0} \union {i \in DOMAIN orders : orders[i].price >= o.price}), o)

PlaceLimit(side, p, n) ==
    /\ given < MaxOrders
    /\ given' = given + 1
    /\ LET o == [id |-> given + 1, price |-> p, size |-> n, side |-> side, symbol |-> symbol,
                 crossed |-> price = 0 \/ Beyond(side, p, price)]
       IN  orders' = Inserted(o)
    /\ UNCHANGED <<symbol, price, prevPrice, account, net, low, high, matched, foreign, early>>

CancelLimitOrder(i) ==
    /\ orders' = RemoveAt(orders, i)
    /\ UNCHANGED <<symbol, price, prevPrice, account, given, net, low, high, matched, foreign,
                   early>>

CancelAll ==
    /\ orders # <<>>
    /\ orders' = <<>>
    /\ UNCHANGED <<symbol, price, prevPrice, account, given, net, low, high, matched, foreign,
                   early>>

ClosePosition ==
    /\ account.position # 0
    /\ account' = [balance |-> ToCents(account.balance +
                     (IF account.position > 0
                        THEN account.position * ((price - account.entry) + price)
                        ELSE (-account.position) * (account.entry - price))),
                   position |-> 0, entry |-> 0]
    /\ net' = 0 /\ low' = 0 /\ high' = 0
    /\ UNCHANGED <<symbol, price, prevPrice, orders, given, matched, foreign, early>>

Next ==
    \/ \E p \in Prices : PriceChange(p) \/ Remount(p)
    \/ \E s \in Symbols, p \in Prices \union {0} : ChangePair(s, p)
    \/ Reload
    \/ \E n \in Sizes : MarketBuy(n) \/ MarketSell(n)
    \/ \E side \in {"buy", "sell"}, p \in Prices, n \in Sizes : PlaceLimit(side, p, n)
    \/ \E i \in DOMAIN orders : CancelLimitOrder(i)
    \/ CancelAll
    \/ ClosePosition

Spec == Init /\ [][Next]_vars
--------------------------------------------------------------------------------
(* Properties *)

\* Through partial covers, turns from short to long and back, matching passes that fill
\* several orders and reloads, the position is the sum of the signed sizes filled since it
\* was last closed, and no fill is counted twice or left out.
PositionIsNetOfFills == account.position = net

\* The entry price is an average of the fills that built the position on its present side:
\* it lies between the lowest and the highest of them, and a flat account has none.
EntryIsAverageOfFills ==
    /\ low <= account.entry /\ account.entry <= high
    /\ account.position = 0 => account.entry = 0

\* An order that a matching pass left open is still short of the market: none is skipped.
ReachedOrderLeaves == \A o \in ToSet(orders) :
    o.id \in matched /\ o.symbol = symbol /\ price = prevPrice /\ price # 0 =>
        ~Beyond(o.side, o.price, price)

\* "Buy Limit triggers if price drops to or below the limit order price": an order that the
\* market has not reached is never filled, except on the first price after a page load or
\* after a change of pair, where prevPrice is not a price of that market.
FilledOnlyWhenReached == ~early
================================================================================
