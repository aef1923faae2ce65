------------------------------ MODULE Aggregator ------------------------------
(***************************************************************************)
(* The in-memory aggregator of one (symbol, market, timeframe):            *)
(* backend/internal/aggregate/aggregator.go.                               *)
(*                                                                         *)
(* ProcessTrade and Flush run on different goroutines and take no lock, so *)
(* neither is one step.  This module gives one operator for each access to *)
(* a field the two share; Ingest.tla puts them in order and interleaves    *)
(* them.                                                                   *)
(*                                                                         *)
(* One price bin is followed.  What Bid and Ask of its cell add up to is   *)
(* represented by how often each trade was added: a volume is a function   *)
(* from trade ids to Nat, so that a lost trade and a trade counted twice   *)
(* are both visible and the quantities themselves are not needed.          *)
(***************************************************************************)
EXTENDS Naturals

CONSTANT TradeIds       \* the trade ids the exchange assigns in this model

\* Binance numbers the trades of a symbol 1, 2, 3, ... ; ProcessTrade uses 0
\* for "no trade yet".
ASSUME TradeIdsAssumption == TradeIds \subseteq Nat \ {0}

Volume == [TradeIds -> Nat]

NoVolume == [i \in TradeIds |-> 0]

Plus(v, w) == [i \in TradeIds |-> v[i] + w[i]]

Minus(v, w) == [i \in TradeIds |-> v[i] - w[i]]

AggregatorState == [cells : Volume, seen : SUBSET TradeIds, last : Nat]

NewAggregator == [cells |-> NoVolume, seen |-> {}, last |-> 0]

\* a.seen[t.TradeID] = true
MarkSeen(a, id) == [a EXCEPT !.seen = @ \cup {id}]

\* Mutant: no test for "no trade yet", and the range starts one too early.
GapBeforeUnguarded(a, id) == a.last..(id - 1)

\* gapStart..gapEnd, empty when there is no gap.
GapBefore(a, id) == IF a.last > 0 THEN {i \in TradeIds : a.last < i /\ i < id} ELSE {}

\* lastTradeID never moves backwards while the candle is open.
AdvanceLast(a, id) == [a EXCEPT !.last = IF id > @ THEN id ELSE @]

\* cell.Bid += t.Qty or cell.Ask += t.Qty
Accumulate(a, id) == [a EXCEPT !.cells[id] = @ + 1]

\* Mutant: Flush forgets to replace a.cells.
KeepCells(a) == a

\* The three assignments at the end of Flush.
ResetCells(a) == [a EXCEPT !.cells = NoVolume]
ResetSeen(a)  == [a EXCEPT !.seen = {}]
ResetLast(a)  == [a EXCEPT !.last = 0]
===============================================================================
