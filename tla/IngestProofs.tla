----------------------------- MODULE IngestProofs -----------------------------
(***************************************************************************)
(* Theorems about Ingest, for every number of timeframes, every period,    *)
(* every set of trade ids and every bound.                                 *)
(***************************************************************************)
EXTENDS Ingest, TLAPS

USE TradeIdsAssumption, IngestAssumption

-------------------------------------------------------------------------------
(* Operators.                                                              *)

\* A candle opens at or before every time it contains.
LEMMA CandleTimeBound ==
    ASSUME NEW t \in Times, NEW tf \in Timeframes
    PROVE  CandleTime(t, tf) \in Times
<1>1. Period[tf] \in Nat \ {0}
  BY DEF Timeframes
<1>2. \A p \in Nat \ {0} : (t \div p) * p \in Nat /\ (t \div p) * p <= t
  BY SMT DEF Times
<1>3. CandleTime(t, tf) \in Nat /\ CandleTime(t, tf) <= t
  BY <1>1, <1>2 DEF CandleTime
<1> QED
  BY <1>3 DEF Times

\* The boundary a closer waits for has not passed yet.
LEMMA NextCloseTimeIsLater ==
    ASSUME NEW now \in Times, NEW tf \in Timeframes
    PROVE  NextCloseTime(now, tf) \in Nat /\ NextCloseTime(now, tf) > now
<1>1. Period[tf] \in Nat \ {0}
  BY DEF Timeframes
<1>2. \A p \in Nat \ {0} : ((now \div p) + 1) * p \in Nat /\ ((now \div p) + 1) * p > now
  BY SMT DEF Times
<1> QED
  BY <1>1, <1>2 DEF NextCloseTime

\* Adding and subtracting volumes, and one more trade in a cell, give volumes.
LEMMA VolumeTypes ==
    ASSUME NEW v \in Volume, NEW w \in Volume
    PROVE  /\ NoVolume \in Volume
           /\ Plus(v, w) \in Volume
           /\ (\A i \in TradeIds : w[i] <= v[i]) => Minus(v, w) \in Volume
           /\ \A i \in TradeIds : [v EXCEPT ![i] = @ + 1] \in Volume
  BY DEF Volume, NoVolume, Plus, Minus

\* One more trade counts once, and leaves the other trades alone.
LEMMA Increment ==
    ASSUME NEW v \in Volume, NEW id \in TradeIds, NEW i \in TradeIds
    PROVE  /\ v[i] \in Nat
           /\ [v EXCEPT ![id] = @ + 1][i] = v[i] + (IF i = id THEN 1 ELSE 0)
<1>1. v[i] \in Nat
  BY DEF Volume
<1>2. CASE i = id
  BY <1>1, <1>2 DEF Volume
<1>3. CASE i # id
  BY <1>1, <1>3 DEF Volume
<1> QED
  BY <1>1, <1>2, <1>3

\* Each access of ProcessTrade and Flush to an aggregator gives an aggregator.
LEMMA AggregatorTypes ==
    ASSUME NEW a \in AggregatorState, NEW id \in TradeIds
    PROVE  /\ NewAggregator \in AggregatorState
           /\ MarkSeen(a, id) \in AggregatorState
           /\ AdvanceLast(a, id) \in AggregatorState
           /\ Accumulate(a, id) \in AggregatorState
           /\ GapBefore(a, id) \subseteq TradeIds
<1>1. NewAggregator \in AggregatorState
  BY VolumeTypes DEF AggregatorState, NewAggregator, Volume, NoVolume
<1>2. MarkSeen(a, id) \in AggregatorState
  BY DEF AggregatorState, MarkSeen
<1>3. AdvanceLast(a, id) \in AggregatorState
  BY DEF AggregatorState, AdvanceLast
<1>4. Accumulate(a, id) \in AggregatorState
  <2>1. a.cells \in Volume
    BY DEF AggregatorState
  <2>2. [a.cells EXCEPT ![id] = @ + 1] \in Volume
    BY <2>1 DEF Volume
  <2> QED
    BY <2>2 DEF AggregatorState, Accumulate
<1>5. GapBefore(a, id) \subseteq TradeIds
  BY DEF GapBefore
<1> QED
  BY <1>1, <1>2, <1>3, <1>4, <1>5

\* Each of the three resets of Flush gives an aggregator.
LEMMA FlushTypes ==
    ASSUME NEW a \in AggregatorState
    PROVE  /\ ResetCells(a) \in AggregatorState
           /\ ResetSeen(a) \in AggregatorState
           /\ ResetLast(a) \in AggregatorState
  BY DEF AggregatorState, ResetCells, ResetSeen, ResetLast, Volume, NoVolume

-------------------------------------------------------------------------------
(* Types.                                                                  *)

\* What TypeOK needs besides itself: a trade on the wire or in ProcessTrade has been
\* issued, ...
Issued ==
    /\ wire \subseteq 1..Len(tradeTime)
    /\ wpc # "read" => trade \in TradeIds /\ trade \in 1..Len(tradeTime)
    /\ wpc \in {"mark", "last", "advance", "add"} => cur \in TradeIds

\* ... and what Flush has copied is still in the aggregator until Flush resets it.
Copied ==
    \A tf \in Timeframes :
        cpc[tf] = "cells" => \A i \in TradeIds : batch[tf][i] <= agg[tf].cells[i]

TypeInv == TypeOK /\ Issued /\ Copied

\* The server starts with the right types and with nothing copied.
LEMMA TypeInvInit == Init => TypeInv
<1> SUFFICES ASSUME Init PROVE TypeInv
  OBVIOUS
<1>1. NoVolume \in Volume /\ NewAggregator \in AggregatorState /\ 0 \in Times /\ 1 \in Timeframes
  BY DEF NoVolume, Volume, NewAggregator, AggregatorState, Times, Timeframes
<1>2. StreamTypes
  <2>1. online \in BOOLEAN
    BY Zenon DEF Init
  <2>2. tradeTime \in Seq(Times) /\ clock \in Times /\ wire \subseteq TradeIds
    BY <1>1 DEF Init
  <2> QED
    BY <2>1, <2>2 DEF StreamTypes
<1>6. ClientTypes
  BY <1>1 DEF Init, ClientTypes
<1>3. SharedTypes /\ CloserTypes
  BY <1>1 DEF Init, SharedTypes, CloserTypes
<1>4. StoreTypes /\ TallyTypes /\ troubles \in Nat
  BY <1>1 DEF Init, StoreTypes, TallyTypes
<1>5. Issued /\ Copied
  BY DEF Init, Issued, Copied
<1> QED
  BY <1>2, <1>3, <1>4, <1>5, <1>6 DEF TypeInv, TypeOK

\* A part whose variables do not change keeps its types.
LEMMA Frames ==
    /\ StreamTypes /\ UNCHANGED streamVars => StreamTypes'
    /\ ClientTypes /\ UNCHANGED clientVars => ClientTypes'
    /\ SharedTypes /\ UNCHANGED <<agg, live>> => SharedTypes'
    /\ CloserTypes /\ UNCHANGED closerVars => CloserTypes'
    /\ StoreTypes /\ UNCHANGED storeVars => StoreTypes'
    /\ TallyTypes /\ UNCHANGED tallyVars => TallyTypes'
    /\ Issued /\ UNCHANGED <<tradeTime, wire, clientVars>> => Issued'
    /\ Copied /\ UNCHANGED <<agg, closerVars>> => Copied'
  BY DEF StreamTypes, ClientTypes, SharedTypes, CloserTypes, StoreTypes, TallyTypes,
         Issued, Copied, streamVars, clientVars, closerVars, storeVars, tallyVars

-------------------------------------------------------------------------------
(* Each action keeps the types.                                            *)

\* The clock and the exchange keep the types.
LEMMA TypeStream == ASSUME TypeInv, Tick \/ Issue \/ LoseConnection PROVE TypeInv'
<1>1. CASE Tick
  <2>1. ClientTypes' /\ SharedTypes' /\ CloserTypes' /\ StoreTypes' /\ TallyTypes' /\ Issued' /\ Copied'
    BY <1>1, Frames DEF TypeInv, TypeOK, Tick, streamVars, clientVars, closerVars, storeVars, tallyVars
  <2>2. StreamTypes'
    BY <1>1 DEF TypeInv, TypeOK, StreamTypes, Times, Tick, streamVars
  <2>3. troubles' \in Nat
    BY <1>1 DEF TypeInv, TypeOK, Tick
  <2> QED
    BY <2>1, <2>2, <2>3 DEF TypeInv, TypeOK
<1>2. CASE Issue
  <2>1. ClientTypes' /\ SharedTypes' /\ CloserTypes' /\ StoreTypes' /\ TallyTypes' /\ Copied'
    BY <1>2, Frames DEF TypeInv, TypeOK, Issue, streamVars, clientVars, closerVars, storeVars, tallyVars
  <2>2. StreamTypes'
    <3>1. Len(tradeTime) + 1 \in TradeIds /\ clock \in Times /\ tradeTime \in Seq(Times)
      BY <1>2 DEF TypeInv, TypeOK, StreamTypes, Issue
    <3>2. tradeTime' \in Seq(Times)
      BY <1>2, <3>1 DEF Issue
    <3>3. wire' \subseteq TradeIds
      BY <1>2, <3>1 DEF TypeInv, TypeOK, StreamTypes, Issue
    <3>4. clock' \in Times /\ online' \in BOOLEAN
      BY <1>2 DEF TypeInv, TypeOK, StreamTypes, Issue
    <3> QED
      BY <1>2, <3>2, <3>3, <3>4 DEF StreamTypes
  <2>3. Issued'
    <3>1. tradeTime \in Seq(Times)
      BY <1>2 DEF TypeInv, TypeOK, StreamTypes
    <3>2. Len(tradeTime') = Len(tradeTime) + 1 /\ Len(tradeTime) \in Nat
      BY <1>2, <3>1 DEF Issue
    <3>3. wire' \subseteq 1..Len(tradeTime')
      <4>1. wire \subseteq 1..Len(tradeTime) /\ wire' \subseteq wire \cup {Len(tradeTime) + 1}
        BY <1>2 DEF TypeInv, Issued, Issue
      <4> QED
        BY <1>2, <3>2, <4>1
    <3> QED
      BY <1>2, <3>2, <3>3 DEF TypeInv, Issued, Issue, clientVars
  <2>4. troubles' \in Nat
    BY <1>2 DEF TypeInv, TypeOK, Issue
  <2> QED
    BY <2>1, <2>2, <2>3, <2>4 DEF TypeInv, TypeOK
<1>3. CASE LoseConnection
  <2>1. ClientTypes' /\ SharedTypes' /\ CloserTypes' /\ StoreTypes' /\ TallyTypes' /\ Copied'
    BY <1>3, Frames DEF TypeInv, TypeOK, LoseConnection, streamVars, clientVars, closerVars, storeVars, tallyVars
  <2>2. StreamTypes'
    BY <1>3 DEF TypeInv, TypeOK, StreamTypes, LoseConnection, streamVars
  <2>3. Issued'
    BY <1>3 DEF TypeInv, TypeOK, Issued, LoseConnection, streamVars, clientVars
  <2>4. troubles' \in Nat
    BY <1>3 DEF TypeInv, TypeOK, LoseConnection, Trouble
  <2> QED
    BY <2>1, <2>2, <2>3, <2>4 DEF TypeInv, TypeOK
<1> QED
  BY <1>1, <1>2, <1>3

\* The trade loop keeps the types: runConn, ProcessTrade, FillGap and IncrCell.
LEMMA TypeClient == ASSUME TypeInv, Client PROVE TypeInv'
<1>1. CASE Connect
  <2>1. ClientTypes' /\ SharedTypes' /\ CloserTypes' /\ StoreTypes' /\ TallyTypes' /\ Issued' /\ Copied'
    BY <1>1, Frames DEF TypeInv, TypeOK, Connect, streamVars, clientVars, closerVars, storeVars, tallyVars
  <2>2. StreamTypes'
    BY <1>1 DEF TypeInv, TypeOK, StreamTypes, Connect, streamVars
  <2>3. troubles' \in Nat
    BY <1>1 DEF TypeInv, TypeOK, Connect
  <2> QED
    BY <2>1, <2>2, <2>3 DEF TypeInv, TypeOK
<1>2. CASE ReadTrade
  <2>1. SharedTypes' /\ CloserTypes' /\ StoreTypes' /\ TallyTypes' /\ Copied'
    BY <1>2, Frames DEF TypeInv, TypeOK, ReadTrade, streamVars, clientVars, closerVars, storeVars, tallyVars
  <2>2. StreamTypes'
    BY <1>2 DEF TypeInv, TypeOK, StreamTypes, ReadTrade, streamVars
  <2>3. ClientTypes'
    BY <1>2 DEF TypeInv, TypeOK, ClientTypes, StreamTypes, Timeframes, ReadTrade, clientVars
  <2>4. Issued'
    BY <1>2 DEF TypeInv, TypeOK, Issued, StreamTypes, ReadTrade, streamVars, clientVars
  <2>5. troubles' \in Nat
    BY <1>2 DEF TypeInv, TypeOK, ReadTrade
  <2> QED
    BY <2>1, <2>2, <2>3, <2>4, <2>5 DEF TypeInv, TypeOK
<1>3. CASE SkipSeen
  <2>1. StreamTypes' /\ SharedTypes' /\ CloserTypes' /\ StoreTypes' /\ TallyTypes' /\ Copied'
    BY <1>3, Frames DEF TypeInv, TypeOK, SkipSeen, streamVars, clientVars, closerVars, storeVars, tallyVars
  <2>2. ClientTypes'
    BY <1>3 DEF TypeInv, TypeOK, ClientTypes, Continue, SkipSeen, clientVars
  <2>3. Issued'
    BY <1>3 DEF TypeInv, TypeOK, Issued, Continue, ClientTypes, SkipSeen, streamVars, clientVars
  <2>4. troubles' \in Nat
    BY <1>3 DEF TypeInv, TypeOK, SkipSeen
  <2> QED
    BY <2>1, <2>2, <2>3, <2>4 DEF TypeInv, TypeOK
<1>4. CASE MarkTrade
  <2>1. StreamTypes' /\ CloserTypes' /\ StoreTypes' /\ TallyTypes'
    BY <1>4, Frames DEF TypeInv, TypeOK, MarkTrade, streamVars, clientVars, closerVars, storeVars, tallyVars
  <2>2. ClientTypes'
    BY <1>4 DEF TypeInv, TypeOK, ClientTypes, MarkTrade, clientVars
  <2>3. SharedTypes'
    BY <1>4, AggregatorTypes DEF TypeInv, TypeOK, SharedTypes, ClientTypes, Issued, MarkTrade
  <2>4. Issued'
    BY <1>4 DEF TypeInv, TypeOK, Issued, MarkTrade, streamVars, clientVars
  <2>5. Copied'
    BY <1>4 DEF TypeInv, TypeOK, Copied, MarkSeen, ClientTypes, SharedTypes, AggregatorState, MarkTrade, closerVars
  <2>6. troubles' \in Nat
    BY <1>4 DEF TypeInv, TypeOK, MarkTrade
  <2> QED
    BY <2>1, <2>2, <2>3, <2>4, <2>5, <2>6 DEF TypeInv, TypeOK
<1>5. CASE DetectGap
  <2>1. StreamTypes' /\ SharedTypes' /\ CloserTypes' /\ StoreTypes' /\ TallyTypes' /\ Copied'
    BY <1>5, Frames DEF TypeInv, TypeOK, DetectGap, streamVars, clientVars, closerVars, storeVars, tallyVars
  <2>2. ClientTypes'
    BY <1>5, AggregatorTypes DEF TypeInv, TypeOK, ClientTypes, SharedTypes, Issued, DetectGap, clientVars
  <2>3. Issued'
    BY <1>5 DEF TypeInv, TypeOK, Issued, DetectGap, streamVars, clientVars
  <2>4. troubles' \in Nat
    BY <1>5 DEF TypeInv, TypeOK, DetectGap
  <2> QED
    BY <2>1, <2>2, <2>3, <2>4 DEF TypeInv, TypeOK
<1>6. CASE MoveLast
  <2>1. StreamTypes' /\ CloserTypes' /\ StoreTypes' /\ TallyTypes'
    BY <1>6, Frames DEF TypeInv, TypeOK, MoveLast, streamVars, clientVars, closerVars, storeVars, tallyVars
  <2>2. ClientTypes'
    BY <1>6 DEF TypeInv, TypeOK, ClientTypes, MoveLast, clientVars
  <2>3. SharedTypes'
    BY <1>6, AggregatorTypes DEF TypeInv, TypeOK, SharedTypes, ClientTypes, Issued, MoveLast
  <2>4. Issued'
    BY <1>6 DEF TypeInv, TypeOK, Issued, MoveLast, streamVars, clientVars
  <2>5. Copied'
    BY <1>6 DEF TypeInv, TypeOK, Copied, AdvanceLast, ClientTypes, SharedTypes, AggregatorState, MoveLast, closerVars
  <2>6. troubles' \in Nat
    BY <1>6 DEF TypeInv, TypeOK, MoveLast
  <2> QED
    BY <2>1, <2>2, <2>3, <2>4, <2>5, <2>6 DEF TypeInv, TypeOK
<1>7. CASE AddTrade
  <2>1. StreamTypes' /\ CloserTypes' /\ StoreTypes'
    BY <1>7, Frames DEF TypeInv, TypeOK, AddTrade, streamVars, clientVars, closerVars, storeVars, tallyVars
  <2>2. ClientTypes'
    BY <1>7 DEF TypeInv, TypeOK, ClientTypes, Continue, AddTrade, clientVars
  <2>3. SharedTypes'
    BY <1>7, AggregatorTypes DEF TypeInv, TypeOK, SharedTypes, ClientTypes, Issued, AddTrade
  <2>4. TallyTypes'
    <3>1. pos \in Timeframes /\ cur \in TradeIds /\ TallyTypes
      BY <1>7 DEF TypeInv, TypeOK, ClientTypes, Issued, AddTrade
    <3>2. added' = [added EXCEPT ![pos][cur] = @ + 1] /\ stored' = stored /\ lost' = lost
      BY <1>7 DEF AddTrade
    <3> QED
      BY <3>1, <3>2 DEF TallyTypes, Volume
  <2>5. Issued'
    BY <1>7 DEF TypeInv, TypeOK, Issued, Continue, ClientTypes, AddTrade, streamVars, clientVars
  <2>6. Copied'
    <3>1. /\ agg' = [agg EXCEPT ![pos] = Accumulate(@, cur)] /\ UNCHANGED <<cpc, batch>>
          /\ cur \in TradeIds /\ pos \in Timeframes
      BY <1>7 DEF AddTrade, closerVars, TypeInv, TypeOK, ClientTypes, Issued
    <3> SUFFICES ASSUME NEW tf \in Timeframes, cpc'[tf] = "cells", NEW i \in TradeIds
                 PROVE  batch'[tf][i] <= agg'[tf].cells[i]
      BY DEF Copied
    <3>2. agg[tf] \in AggregatorState /\ agg[tf].cells \in Volume /\ batch[tf][i] \in Nat
      BY DEF TypeInv, TypeOK, SharedTypes, CloserTypes, AggregatorState, Volume
    <3>3. batch'[tf][i] = batch[tf][i] /\ batch[tf][i] <= agg[tf].cells[i]
      BY <3>1 DEF TypeInv, Copied
    <3>4. agg'[tf].cells \in {agg[tf].cells, [agg[tf].cells EXCEPT ![cur] = @ + 1]}
      BY <3>1, <3>2 DEF Accumulate, TypeInv, TypeOK, SharedTypes, AggregatorState
    <3>5. agg[tf].cells[i] \in Nat /\ agg'[tf].cells[i] \in {agg[tf].cells[i], agg[tf].cells[i] + 1}
      <4> DEFINE v == agg[tf].cells
      <4>1. v \in Volume /\ agg'[tf].cells \in {v, [v EXCEPT ![cur] = @ + 1]}
        BY <3>2, <3>4
      <4> HIDE DEF v
      <4>2. v[i] \in Nat /\ [v EXCEPT ![cur] = @ + 1][i] \in {v[i], v[i] + 1}
        BY <4>1 DEF Volume
      <4>3. agg'[tf].cells[i] \in {v[i], v[i] + 1}
        BY <4>1, <4>2
      <4> QED
        BY <4>2, <4>3 DEF v
    <3> QED
      BY <3>2, <3>3, <3>5
  <2>7. troubles' \in Nat
    BY <1>7 DEF TypeInv, TypeOK, AddTrade
  <2> QED
    BY <2>1, <2>2, <2>3, <2>4, <2>5, <2>6, <2>7 DEF TypeInv, TypeOK
<1>8. CASE FillGap
  <2>1. StreamTypes' /\ SharedTypes' /\ CloserTypes' /\ StoreTypes' /\ TallyTypes' /\ Copied'
    BY <1>8, Frames DEF TypeInv, TypeOK, FillGap, streamVars, clientVars, closerVars, storeVars, tallyVars
  <2>2. ClientTypes'
    BY <1>8 DEF TypeInv, TypeOK, ClientTypes, Continue, FillGap, clientVars
  <2>3. Issued'
    BY <1>8 DEF TypeInv, TypeOK, Issued, Continue, ClientTypes, FillGap, streamVars, clientVars
  <2>4. troubles' \in Nat
    BY <1>8 DEF TypeInv, TypeOK, FillGap, Trouble
  <2> QED
    BY <2>1, <2>2, <2>3, <2>4 DEF TypeInv, TypeOK
<1>9. CASE ReadCell
  <2>1. StreamTypes' /\ SharedTypes' /\ CloserTypes' /\ StoreTypes' /\ TallyTypes' /\ Copied'
    BY <1>9, Frames DEF TypeInv, TypeOK, ReadCell, streamVars, clientVars, closerVars, storeVars, tallyVars
  <2>2. ClientTypes'
    <3>1. base' \in Volume
      <4>1. trade \in 1..Len(tradeTime) /\ tradeTime \in Seq(Times) /\ pos \in Timeframes
        BY <1>9 DEF TypeInv, TypeOK, StreamTypes, ClientTypes, Issued, ReadCell
      <4>2. CandleTime(tradeTime[trade], pos) \in Times
        BY <1>9, <4>1, CandleTimeBound
      <4>3. live[pos][CandleTime(tradeTime[trade], pos)] \in Volume
        BY <1>9, <4>1, <4>2 DEF TypeInv, TypeOK, SharedTypes
      <4> QED
        BY <1>9, <4>3, VolumeTypes DEF ReadCell
    <3> QED
      BY <1>9, <3>1 DEF TypeInv, TypeOK, ClientTypes, ReadCell
  <2>3. Issued'
    BY <1>9 DEF TypeInv, TypeOK, Issued, ReadCell, streamVars, clientVars
  <2>4. troubles' \in Nat
    BY <1>9 DEF TypeInv, TypeOK, ReadCell, Trouble
  <2> QED
    BY <2>1, <2>2, <2>3, <2>4 DEF TypeInv, TypeOK
<1>10. CASE WriteCell
  <2>1. StreamTypes' /\ CloserTypes' /\ StoreTypes' /\ TallyTypes' /\ Copied'
    BY <1>10, Frames DEF TypeInv, TypeOK, WriteCell, streamVars, clientVars, closerVars, storeVars, tallyVars
  <2>2. ClientTypes'
    BY <1>10, VolumeTypes DEF TypeInv, TypeOK, ClientTypes, Timeframes, WriteCell, clientVars
  <2>3. SharedTypes'
    <3> DEFINE t == CandleTime(tradeTime[trade], pos)
               v == [base EXCEPT ![trade] = @ + 1]
    <3>1. v \in Volume /\ pos \in Timeframes
      BY <1>10, VolumeTypes DEF TypeInv, TypeOK, ClientTypes, Issued, WriteCell
    <3>2. live \in [Timeframes -> [Times -> Volume]]
      BY <1>10 DEF TypeInv, TypeOK, SharedTypes
    <3>3. [live[pos] EXCEPT ![t] = v] \in [Times -> Volume]
      BY <1>10, <3>1, <3>2
    <3>4. live' = [live EXCEPT ![pos] = [live[pos] EXCEPT ![t] = v]] \/ live' = live
      BY <1>10 DEF WriteCell
    <3>5. live' \in [Timeframes -> [Times -> Volume]]
      BY <1>10, <3>1, <3>2, <3>3, <3>4
    <3> QED
      BY <1>10, <3>5 DEF TypeInv, TypeOK, SharedTypes, WriteCell
  <2>4. Issued'
    BY <1>10 DEF TypeInv, TypeOK, Issued, WriteCell, streamVars, clientVars
  <2>5. troubles' \in Nat
    BY <1>10 DEF TypeInv, TypeOK, WriteCell, Trouble
  <2> QED
    BY <2>1, <2>2, <2>3, <2>4, <2>5 DEF TypeInv, TypeOK
<1> QED
  BY <1>1, <1>2, <1>3, <1>4, <1>5, <1>6, <1>7, <1>8, <1>9, <1>10
  DEF Client, ProcessTrade, IncrCell

\* The closer of a timeframe keeps the types: Flush, BatchInsert, SetLastCandle and DelAggKey.
LEMMA TypeCloser ==
    ASSUME NEW tf \in Timeframes, TypeInv, Closer(tf)
    PROVE  TypeInv'
<1>1. CASE Arm(tf)
  <2>1. StreamTypes' /\ ClientTypes' /\ SharedTypes' /\ StoreTypes' /\ TallyTypes' /\ Issued'
    BY <1>1, Frames DEF TypeInv, TypeOK, Arm, streamVars, clientVars, closerVars, storeVars, tallyVars
  <2>2. CloserTypes'
    BY <1>1, NextCloseTimeIsLater DEF TypeInv, TypeOK, CloserTypes, StreamTypes, Arm, closerVars
  <2>3. Copied'
    BY <1>1 DEF TypeInv, TypeOK, Copied, CloserTypes, Arm, closerVars
  <2>4. troubles' \in Nat
    BY <1>1 DEF TypeInv, TypeOK, Arm
  <2> QED
    BY <2>1, <2>2, <2>3, <2>4 DEF TypeInv, TypeOK
<1>2. CASE FlushCopy(tf)
  <2>1. StreamTypes' /\ ClientTypes' /\ SharedTypes' /\ StoreTypes' /\ TallyTypes' /\ Issued'
    BY <1>2, Frames DEF TypeInv, TypeOK, FlushCopy, streamVars, clientVars, closerVars, storeVars, tallyVars
  <2>2. CloserTypes'
    BY <1>2 DEF TypeInv, TypeOK, CloserTypes, SharedTypes, AggregatorState, FlushCopy, closerVars
  <2>3. Copied'
    BY <1>2 DEF TypeInv, TypeOK, Copied, CloserTypes, SharedTypes, AggregatorState, Volume, FlushCopy, closerVars
  <2>4. troubles' \in Nat
    BY <1>2 DEF TypeInv, TypeOK, FlushCopy
  <2> QED
    BY <2>1, <2>2, <2>3, <2>4 DEF TypeInv, TypeOK
<1>3. CASE FlushCells(tf)
  <2>1. StreamTypes' /\ ClientTypes' /\ StoreTypes' /\ Issued'
    BY <1>3, Frames DEF TypeInv, TypeOK, FlushCells, streamVars, clientVars, closerVars, storeVars, tallyVars
  <2>2. SharedTypes'
    BY <1>3, FlushTypes DEF TypeInv, TypeOK, SharedTypes, FlushCells
  <2>3. CloserTypes'
    BY <1>3 DEF TypeInv, TypeOK, CloserTypes, FlushCells, closerVars
  <2>4. TallyTypes'
    BY <1>3, VolumeTypes DEF TypeInv, TypeOK, TallyTypes, SharedTypes, CloserTypes, AggregatorState, Copied, FlushCells, tallyVars
  <2>5. Copied'
    BY <1>3 DEF TypeInv, TypeOK, Copied, CloserTypes, SharedTypes, FlushCells, closerVars
  <2>6. troubles' \in Nat
    BY <1>3 DEF TypeInv, TypeOK, FlushCells
  <2> QED
    BY <2>1, <2>2, <2>3, <2>4, <2>5, <2>6 DEF TypeInv, TypeOK
<1>4. CASE FlushSeen(tf)
  <2>1. StreamTypes' /\ ClientTypes' /\ StoreTypes' /\ TallyTypes' /\ Issued'
    BY <1>4, Frames DEF TypeInv, TypeOK, FlushSeen, streamVars, clientVars, closerVars, storeVars, tallyVars
  <2>2. SharedTypes'
    BY <1>4, FlushTypes DEF TypeInv, TypeOK, SharedTypes, FlushSeen
  <2>3. CloserTypes'
    BY <1>4 DEF TypeInv, TypeOK, CloserTypes, FlushSeen, closerVars
  <2>4. Copied'
    BY <1>4 DEF TypeInv, TypeOK, Copied, CloserTypes, SharedTypes, FlushSeen, closerVars
  <2>5. troubles' \in Nat
    BY <1>4 DEF TypeInv, TypeOK, FlushSeen
  <2> QED
    BY <2>1, <2>2, <2>3, <2>4, <2>5 DEF TypeInv, TypeOK
<1>5. CASE FlushLast(tf)
  <2>1. StreamTypes' /\ ClientTypes' /\ StoreTypes' /\ TallyTypes' /\ Issued'
    BY <1>5, Frames DEF TypeInv, TypeOK, FlushLast, streamVars, clientVars, closerVars, storeVars, tallyVars
  <2>2. SharedTypes'
    BY <1>5, FlushTypes DEF TypeInv, TypeOK, SharedTypes, FlushLast
  <2>3. CloserTypes'
    BY <1>5 DEF TypeInv, TypeOK, CloserTypes, FlushLast, closerVars
  <2>4. Copied'
    BY <1>5 DEF TypeInv, TypeOK, Copied, CloserTypes, SharedTypes, FlushLast, closerVars
  <2>5. troubles' \in Nat
    BY <1>5 DEF TypeInv, TypeOK, FlushLast
  <2> QED
    BY <2>1, <2>2, <2>3, <2>4, <2>5 DEF TypeInv, TypeOK
<1>6. CASE Insert(tf)
  <2>1. StreamTypes' /\ ClientTypes' /\ SharedTypes' /\ Issued'
    BY <1>6, Frames DEF TypeInv, TypeOK, Insert, streamVars, clientVars, closerVars, storeVars, tallyVars
  <2>2. CloserTypes'
    BY <1>6 DEF TypeInv, TypeOK, CloserTypes, Insert, closerVars
  <2>3. StoreTypes'
    <3>1. Closed(tf) \in Candle
      BY <1>6 DEF TypeInv, TypeOK, CloserTypes, Closed, Candle
    <3>2. rows' \in [Timeframes -> Seq(Candle)]
      <4>1. rows' = [rows EXCEPT ![tf] = Append(@, Closed(tf))]
        BY <1>6 DEF Insert, InsertRows
      <4>2. Append(rows[tf], Closed(tf)) \in Seq(Candle)
        BY <1>6, <3>1 DEF TypeInv, TypeOK, StoreTypes
      <4> QED
        BY <1>6, <4>1, <4>2 DEF TypeInv, TypeOK, StoreTypes
    <3> QED
      BY <1>6, <3>2 DEF TypeInv, TypeOK, StoreTypes, Insert
  <2>4. TallyTypes'
    BY <1>6, VolumeTypes DEF TypeInv, TypeOK, TallyTypes, InsertRows, CloserTypes, Insert, tallyVars
  <2>5. Copied'
    BY <1>6 DEF TypeInv, TypeOK, Copied, CloserTypes, Insert, closerVars
  <2>6. troubles' \in Nat
    BY <1>6 DEF TypeInv, TypeOK, Insert
  <2> QED
    BY <2>1, <2>2, <2>3, <2>4, <2>5, <2>6 DEF TypeInv, TypeOK
<1>7. CASE InsertError(tf)
  <2>1. StreamTypes' /\ ClientTypes' /\ SharedTypes' /\ Issued'
    BY <1>7, Frames DEF TypeInv, TypeOK, InsertError, streamVars, clientVars, closerVars, storeVars, tallyVars
  <2>2. CloserTypes'
    BY <1>7, VolumeTypes DEF TypeInv, TypeOK, CloserTypes, InsertError, closerVars
  <2>3. StoreTypes'
    <3>1. Closed(tf) \in Candle
      BY <1>7 DEF TypeInv, TypeOK, CloserTypes, Closed, Candle
    <3>2. rows' \in [Timeframes -> Seq(Candle)]
      <4>1. rows' = [rows EXCEPT ![tf] = Append(@, Closed(tf))] \/ rows' = rows
        BY <1>7 DEF InsertError, InsertRows
      <4>2. Append(rows[tf], Closed(tf)) \in Seq(Candle)
        BY <1>7, <3>1 DEF TypeInv, TypeOK, StoreTypes
      <4> QED
        BY <1>7, <4>1, <4>2 DEF TypeInv, TypeOK, StoreTypes
    <3> QED
      BY <1>7, <3>2 DEF TypeInv, TypeOK, StoreTypes, InsertError
  <2>4. TallyTypes'
    <3>1. Plus(lost[tf], batch[tf]) \in Volume /\ Plus(stored[tf], batch[tf]) \in Volume
      BY <1>7, VolumeTypes DEF TypeInv, TypeOK, TallyTypes, CloserTypes
    <3>2. /\ added' = added
          /\ stored' = stored \/ stored' = [stored EXCEPT ![tf] = Plus(stored[tf], batch[tf])]
          /\ lost' = lost \/ lost' = [lost EXCEPT ![tf] = Plus(lost[tf], batch[tf])]
      BY <1>7 DEF InsertError, InsertRows
    <3>3. TallyTypes
      BY DEF TypeInv, TypeOK
    <3> QED
      BY <3>1, <3>2, <3>3 DEF TallyTypes
  <2>5. Copied'
    BY <1>7 DEF TypeInv, TypeOK, Copied, CloserTypes, InsertError, closerVars
  <2>6. troubles' \in Nat
    BY <1>7 DEF TypeInv, TypeOK, InsertError, Trouble
  <2> QED
    BY <2>1, <2>2, <2>3, <2>4, <2>5, <2>6 DEF TypeInv, TypeOK
<1>8. CASE SetLastCandle(tf)
  <2>1. StreamTypes' /\ ClientTypes' /\ SharedTypes' /\ TallyTypes' /\ Issued'
    BY <1>8, Frames DEF TypeInv, TypeOK, SetLastCandle, streamVars, clientVars, closerVars, storeVars, tallyVars
  <2>2. CloserTypes'
    BY <1>8 DEF TypeInv, TypeOK, CloserTypes, SetLastCandle, closerVars
  <2>3. StoreTypes'
    <3>1. Closed(tf) \in Candle
      BY <1>8 DEF TypeInv, TypeOK, CloserTypes, Closed, Candle
    <3>2. Newest(cache[tf] \cup {Closed(tf)}) \subseteq Candle
      BY <1>8, <3>1 DEF TypeInv, TypeOK, StoreTypes, Newest
    <3>3. /\ cache'[tf] \subseteq Candle
          /\ cache' = [cache EXCEPT ![tf] = cache'[tf]]
      BY <1>8, <3>1, <3>2 DEF TypeInv, TypeOK, StoreTypes, SetLastCandle
    <3>4. UNCHANGED <<rows, announced>>
      BY <1>8 DEF SetLastCandle
    <3> QED
      BY <3>3, <3>4 DEF TypeInv, TypeOK, StoreTypes
  <2>4. Copied'
    BY <1>8 DEF TypeInv, TypeOK, Copied, CloserTypes, SetLastCandle, closerVars
  <2>5. troubles' \in Nat
    BY <1>8 DEF TypeInv, TypeOK, SetLastCandle, Trouble
  <2> QED
    BY <2>1, <2>2, <2>3, <2>4, <2>5 DEF TypeInv, TypeOK
<1>9. CASE DelLiveAndNotify(tf)
  <2>1. StreamTypes' /\ ClientTypes' /\ TallyTypes' /\ Issued'
    BY <1>9, Frames DEF TypeInv, TypeOK, DelLiveAndNotify, streamVars, clientVars, closerVars, storeVars, tallyVars
  <2>2. SharedTypes'
    <3>1. NoVolume \in Volume
      BY <1>9 DEF NoVolume, Volume
    <3>2. live \in [Timeframes -> [Times -> Volume]]
      BY <1>9 DEF TypeInv, TypeOK, SharedTypes
    <3>3. [live[tf] EXCEPT ![next[tf]] = NoVolume] \in [Times -> Volume]
      BY <1>9, <3>1, <3>2
    <3>4. live' = [live EXCEPT ![tf] = [live[tf] EXCEPT ![next[tf]] = NoVolume]] \/ live' = live
      BY <1>9 DEF DelLiveAndNotify
    <3>5. live' \in [Timeframes -> [Times -> Volume]]
      BY <1>9, <3>1, <3>2, <3>3, <3>4
    <3> QED
      BY <1>9, <3>5 DEF TypeInv, TypeOK, SharedTypes, DelLiveAndNotify
  <2>3. CloserTypes'
    BY <1>9, VolumeTypes DEF TypeInv, TypeOK, CloserTypes, DelLiveAndNotify, closerVars
  <2>4. StoreTypes'
    <3>1. Closed(tf) \in Candle
      BY <1>9 DEF TypeInv, TypeOK, CloserTypes, Closed, Candle
    <3>2. announced[tf] \cup {Closed(tf)} \subseteq Candle
      BY <1>9, <3>1 DEF TypeInv, TypeOK, StoreTypes
    <3> QED
      BY <1>9, <3>2 DEF TypeInv, TypeOK, StoreTypes, DelLiveAndNotify
  <2>5. Copied'
    BY <1>9 DEF TypeInv, TypeOK, Copied, CloserTypes, DelLiveAndNotify, closerVars
  <2>6. troubles' \in Nat
    BY <1>9 DEF TypeInv, TypeOK, DelLiveAndNotify, Trouble
  <2> QED
    BY <2>1, <2>2, <2>3, <2>4, <2>5, <2>6 DEF TypeInv, TypeOK
<1> QED
  BY <1>1, <1>2, <1>3, <1>4, <1>5, <1>6, <1>7, <1>8, <1>9
  DEF Closer, Flush

\* A restart keeps the types.
LEMMA TypeCrash == ASSUME TypeInv, Crash PROVE TypeInv'
<1>1. StoreTypes'
  BY Frames DEF TypeInv, TypeOK, Crash, streamVars, clientVars, closerVars, storeVars, tallyVars
<1>2. StreamTypes'
  BY DEF TypeInv, TypeOK, StreamTypes, Crash, streamVars
<1>3. ClientTypes'
  <2>1. NoVolume \in Volume /\ 1 \in Timeframes
    BY DEF NoVolume, Volume, Timeframes
  <2>2. /\ wpc' = "read" /\ trade' = 0 /\ cur' = 0 /\ pos' = 1
        /\ gap' = {} /\ fill' = {} /\ base' = NoVolume
    BY DEF Crash
  <2> QED
    BY <2>1, <2>2 DEF ClientTypes
<1>4. SharedTypes'
  <2>1. NewAggregator \in AggregatorState
    BY DEF NewAggregator, AggregatorState, NoVolume, Volume
  <2> QED
    BY <2>1 DEF TypeInv, TypeOK, SharedTypes, Crash
<1>5. CloserTypes'
  BY VolumeTypes DEF TypeInv, TypeOK, CloserTypes, Crash, closerVars
<1>6. TallyTypes'
  BY VolumeTypes DEF TypeInv, TypeOK, TallyTypes, InMemory, SharedTypes, CloserTypes, AggregatorState, Crash, tallyVars
<1>7. Issued'
  BY DEF TypeInv, TypeOK, Issued, Crash, streamVars, clientVars
<1>8. Copied'
  BY DEF TypeInv, TypeOK, Copied, Crash, closerVars
<1>9. troubles' \in Nat
  BY DEF TypeInv, TypeOK, Crash, Trouble
<1> QED
  BY <1>1, <1>2, <1>3, <1>4, <1>5, <1>6, <1>7, <1>8, <1>9 DEF TypeInv, TypeOK

-------------------------------------------------------------------------------
(* Type correctness.                                                       *)

\* The types and the two facts that support them are inductive.
LEMMA TypeInvStep == TypeInv /\ [Next]_vars => TypeInv'
<1> SUFFICES ASSUME TypeInv, [Next]_vars PROVE TypeInv'
  OBVIOUS
<1>1. CASE Client
  BY <1>1, TypeClient
<1>2. ASSUME NEW tf \in Timeframes, Closer(tf) PROVE TypeInv'
  BY <1>2, TypeCloser
<1>3. CASE Tick \/ Issue \/ LoseConnection \/ Crash
  BY <1>3, TypeStream, TypeCrash
<1>4. CASE UNCHANGED vars
  BY <1>4, Frames DEF TypeInv, TypeOK, vars, streamVars, clientVars, closerVars, storeVars, tallyVars
<1> QED
  BY <1>1, <1>2, <1>3, <1>4 DEF Next

\* Every reachable state satisfies TypeInv.
LEMMA TypeInvHolds == Spec => []TypeInv
  BY TypeInvInit, TypeInvStep, PTL DEF Spec

\* Every reachable state has the types TypeOK states: what the goroutines hand each
\* other (trades, batches, boundaries) is of the kind the next one expects.
THEOREM TypeCorrect == Spec => []TypeOK
<1>1. TypeInv => TypeOK
  BY DEF TypeInv
<1> QED
  BY <1>1, TypeInvHolds, PTL

-------------------------------------------------------------------------------
(* Closed candles.                                                         *)

\* What the closers share with the rest changes in few actions.
LEMMA Quiet ==
    ASSUME Issue \/ LoseConnection \/ Connect \/ ReadTrade \/ SkipSeen \/ MarkTrade
           \/ DetectGap \/ MoveLast \/ AddTrade \/ FillGap \/ ReadCell \/ WriteCell \/ UNCHANGED vars
    PROVE  UNCHANGED <<clock, closerVars, storeVars>>
  BY DEF Issue, LoseConnection, Connect, ReadTrade, SkipSeen, MarkTrade, DetectGap, MoveLast,
         AddTrade, FillGap, ReadCell, WriteCell, vars, streamVars, clientVars, closerVars, storeVars, tallyVars

\* The inserts of a timeframe are a sequence of dated candles.
LEMMA RowTypes ==
    ASSUME TypeInv, NEW tf \in Timeframes
    PROVE  Len(rows[tf]) \in Nat /\ \A i \in 1..Len(rows[tf]) : rows[tf][i].time \in Nat
<1>1. rows[tf] \in Seq(Candle)
  BY DEF TypeInv, TypeOK, StoreTypes
<1>2. \A c \in Candle : c.time \in Nat
  BY DEF Candle
<1> QED
  BY <1>1, <1>2

\* What BatchInsert leaves: the earlier inserts, and the new one behind them.
LEMMA Appended ==
    ASSUME NEW tf \in Timeframes, TypeInv, InsertRows(tf)
    PROVE  /\ Len(rows'[tf]) = Len(rows[tf]) + 1
           /\ Len(rows[tf]) \in Nat
           /\ \A i \in 1..Len(rows[tf]) : rows'[tf][i] = rows[tf][i]
           /\ rows'[tf][Len(rows[tf]) + 1] = Closed(tf)
           /\ \A u \in Timeframes : u # tf => rows'[u] = rows[u]
<1>1. Closed(tf) \in Candle /\ rows[tf] \in Seq(Candle)
  BY DEF TypeInv, TypeOK, StoreTypes, CloserTypes, Closed, Candle
<1>2. rows'[tf] = Append(rows[tf], Closed(tf)) /\ \A u \in Timeframes : u # tf => rows'[u] = rows[u]
  BY DEF InsertRows, TypeInv, TypeOK, StoreTypes
<1> QED
  BY <1>1, <1>2

\* A candle that is inserted is dated after every row, and no row is dated in the future:
\* from Arm to the insert the closer's boundary is ahead of the rows, and the clock
\* has reached it before Flush begins.
BoundaryOrder ==
    \A tf \in Timeframes :
        /\ \A i \in 1..Len(rows[tf]) : rows[tf][i].time <= clock
        /\ cpc[tf] \in {"cells", "seen", "last", "insert", "cache", "del"} => next[tf] <= clock
        /\ cpc[tf] \in {"sleep", "cells", "seen", "last", "insert"} =>
              \A i \in 1..Len(rows[tf]) : rows[tf][i].time < next[tf]

RowsInv == OneInsertPerCandle /\ BoundaryOrder

\* There are no inserts at the start.
LEMMA RowsInvInit == Init => RowsInv
  BY DEF Init, RowsInv, OneInsertPerCandle, BoundaryOrder

\* BatchInsert dates its rows later than all earlier ones.
LEMMA RowsInvInsert ==
    ASSUME NEW tf \in Timeframes, TypeInv, RowsInv, cpc[tf] = "insert", InsertRows(tf),
           cpc' \in {[cpc EXCEPT ![tf] = "cache"], [cpc EXCEPT ![tf] = "arm"]},
           UNCHANGED <<clock, next>>
    PROVE  RowsInv'
<1>1. /\ Closed(tf).time = next[tf] /\ next[tf] <= clock
      /\ \A i \in 1..Len(rows[tf]) : rows[tf][i].time < next[tf]
  BY DEF RowsInv, BoundaryOrder, Closed
<1>2. cpc'[tf] \in {"cache", "arm"} /\ \A u \in Timeframes : u # tf => cpc'[u] = cpc[u]
  BY DEF TypeInv, TypeOK, CloserTypes
<1>3. \A i \in 1..Len(rows'[tf]) :
         \/ i \in 1..Len(rows[tf]) /\ rows'[tf][i] = rows[tf][i]
         \/ i = Len(rows[tf]) + 1 /\ rows'[tf][i] = Closed(tf)
  BY Appended
<1>4. OneInsertPerCandle'
  <2> SUFFICES ASSUME NEW u \in Timeframes, NEW i \in 1..Len(rows'[u]), NEW j \in 1..Len(rows'[u]), i < j
               PROVE  rows'[u][i].time < rows'[u][j].time
    BY DEF OneInsertPerCandle
  <2>1. CASE u # tf
    BY <2>1, Appended DEF RowsInv, OneInsertPerCandle
  <2>2. CASE u = tf
    <3>1. i \in 1..Len(rows[tf]) /\ rows'[tf][i] = rows[tf][i]
      BY <2>2, <1>3, Appended
    <3>2. CASE j \in 1..Len(rows[tf])
      BY <2>2, <3>1, <3>2, Appended DEF RowsInv, OneInsertPerCandle
    <3>3. CASE j = Len(rows[tf]) + 1
      BY <2>2, <3>1, <3>3, <1>1, Appended
    <3> QED
      BY <2>2, <3>2, <3>3, <1>3
  <2> QED
    BY <2>1, <2>2
<1>5. BoundaryOrder'
  <2> SUFFICES ASSUME NEW u \in Timeframes PROVE BoundaryOrder!(u)'
    BY DEF BoundaryOrder
  <2>1. CASE u # tf
    BY <2>1, <1>2, Appended DEF RowsInv, BoundaryOrder
  <2>2. CASE u = tf
    BY <2>2, <1>1, <1>2, <1>3, Appended DEF RowsInv, BoundaryOrder
  <2> QED
    BY <2>1, <2>2
<1> QED
  BY <1>4, <1>5 DEF RowsInv

\* No step puts an insert out of order or lets a closer wait for an old boundary.
LEMMA RowsInvStep == TypeInv /\ RowsInv /\ [Next]_vars => RowsInv'
<1> SUFFICES ASSUME TypeInv, RowsInv, [Next]_vars PROVE RowsInv'
  OBVIOUS
<1> USE DEF RowsInv, OneInsertPerCandle, BoundaryOrder
<1>1. CASE Issue \/ LoseConnection \/ Client \/ UNCHANGED vars
  <2>1. UNCHANGED <<clock, closerVars, storeVars>>
    BY <1>1, Quiet DEF Client, ProcessTrade, IncrCell
  <2> QED
    BY <2>1 DEF closerVars, storeVars
<1>2. CASE Tick
  <2>1. clock <= clock' /\ clock \in Nat /\ clock' \in Nat /\ UNCHANGED <<cpc, next, rows>>
    BY <1>2 DEF Tick, closerVars, storeVars, TypeInv, TypeOK, StreamTypes, Times
  <2>2. \A tf \in Timeframes : next[tf] \in Nat /\ \A i \in 1..Len(rows[tf]) : rows[tf][i].time \in Nat
    BY RowTypes DEF TypeInv, TypeOK, CloserTypes
  <2> QED
    BY <2>1, <2>2
<1>3. CASE Crash
  <2>1. UNCHANGED <<clock, rows>> /\ \A tf \in Timeframes : cpc'[tf] = "arm"
    BY <1>3 DEF Crash, storeVars
  <2> QED
    BY <2>1
<1>4. ASSUME NEW tf \in Timeframes, Arm(tf) PROVE RowsInv'
  <2>1. /\ next' = [next EXCEPT ![tf] = NextCloseTime(clock, tf)] /\ cpc' = [cpc EXCEPT ![tf] = "sleep"]
        /\ UNCHANGED <<clock, rows>>
    BY <1>4 DEF Arm, streamVars, storeVars
  <2>2. NextCloseTime(clock, tf) \in Nat /\ NextCloseTime(clock, tf) > clock /\ clock \in Nat
    BY NextCloseTimeIsLater DEF TypeInv, TypeOK, StreamTypes, Times
  <2>3. \A u \in Timeframes : \A i \in 1..Len(rows[u]) : rows[u][i].time \in Nat
    BY RowTypes
  <2>4. /\ next'[tf] = NextCloseTime(clock, tf) /\ cpc'[tf] = "sleep"
        /\ \A u \in Timeframes : u # tf => next'[u] = next[u] /\ cpc'[u] = cpc[u]
    BY <2>1 DEF TypeInv, TypeOK, CloserTypes
  <2>5. \A u \in Timeframes : BoundaryOrder!(u)'
    <3> TAKE u \in Timeframes
    <3>1. CASE u # tf
      BY <3>1, <2>1, <2>4
    <3>2. CASE u = tf
      BY <3>2, <2>1, <2>2, <2>3, <2>4
    <3> QED
      BY <3>1, <3>2
  <2> QED
    BY <2>1, <2>5
<1>5. ASSUME NEW tf \in Timeframes, Flush(tf) PROVE RowsInv'
  <2>1. UNCHANGED <<clock, next, rows>>
    BY <1>5 DEF Flush, FlushCopy, FlushCells, FlushSeen, FlushLast, streamVars, storeVars
  <2>2. \A u \in Timeframes : u # tf => cpc'[u] = cpc[u]
    BY <1>5 DEF Flush, FlushCopy, FlushCells, FlushSeen, FlushLast, TypeInv, TypeOK, CloserTypes
  <2>3. \/ cpc[tf] = "sleep" /\ next[tf] <= clock /\ cpc'[tf] = "cells"
        \/ cpc[tf] \in {"cells", "seen", "last"} /\ cpc'[tf] \in {"seen", "last", "insert", "arm"}
    <3>1. clock \in Nat /\ next[tf] \in Nat
      BY DEF TypeInv, TypeOK, StreamTypes, CloserTypes, Times
    <3> QED
      BY <3>1, <1>5 DEF Flush, FlushCopy, FlushCells, FlushSeen, FlushLast, TypeInv, TypeOK, CloserTypes
  <2> QED
    BY <2>1, <2>2, <2>3
<1>6. ASSUME NEW tf \in Timeframes, Insert(tf) PROVE RowsInv'
  <2>1. /\ cpc[tf] = "insert" /\ InsertRows(tf) /\ cpc' = [cpc EXCEPT ![tf] = "cache"]
        /\ UNCHANGED <<clock, next>>
    BY <1>6 DEF Insert, streamVars
  <2> QED
    BY <2>1, RowsInvInsert
<1>7. ASSUME NEW tf \in Timeframes, InsertError(tf) PROVE RowsInv'
  <2>1. /\ cpc[tf] = "insert" /\ cpc' = [cpc EXCEPT ![tf] = "arm"]
        /\ UNCHANGED <<clock, next>> /\ (InsertRows(tf) \/ UNCHANGED rows)
    BY <1>7 DEF InsertError, streamVars
  <2>2. CASE InsertRows(tf)
    BY <2>1, <2>2, RowsInvInsert
  <2>3. CASE UNCHANGED rows
    BY <2>1, <2>3 DEF TypeInv, TypeOK, CloserTypes
  <2> QED
    BY <2>1, <2>2, <2>3
<1>8. ASSUME NEW tf \in Timeframes, SetLastCandle(tf) \/ DelLiveAndNotify(tf) PROVE RowsInv'
  <2>1. /\ UNCHANGED <<clock, next, rows>>
        /\ cpc[tf] \in {"cache", "del"} /\ cpc'[tf] \in {"del", "arm"}
        /\ \A u \in Timeframes : u # tf => cpc'[u] = cpc[u]
    BY <1>8 DEF SetLastCandle, DelLiveAndNotify, streamVars, TypeInv, TypeOK, CloserTypes
  <2> QED
    BY <2>1
<1> QED
  BY <1>1, <1>2, <1>3, <1>4, <1>5, <1>6, <1>7, <1>8 DEF Next, Closer

\* The closer of a timeframe never dates two inserts alike and never goes back, however
\* late its timer runs, whatever fails and however often the process restarts.
THEOREM OneInsertPerCandleHolds == Spec => []OneInsertPerCandle
<1>1. RowsInv => OneInsertPerCandle
  BY DEF RowsInv
<1> QED
  BY <1>1, RowsInvInit, RowsInvStep, TypeInvHolds, PTL DEF Spec

-------------------------------------------------------------------------------
(* Published candles.                                                      *)

Holds(s, c) == \E i \in 1..Len(s) : s[i] = c

\* Between the insert and the end of the loop body the candle being closed is in
\* ClickHouse.
PublishedInv ==
    \A tf \in Timeframes :
        /\ \A c \in cache[tf] \cup announced[tf] : Holds(rows[tf], c)
        /\ cpc[tf] \in {"cache", "del"} => Holds(rows[tf], Closed(tf))

\* Nothing is published at the start.
LEMMA PublishedInvInit == Init => PublishedInv
  BY DEF Init, PublishedInv

\* BatchInsert keeps what ClickHouse has and adds the candle being closed.
LEMMA HoldsMore ==
    ASSUME NEW tf \in Timeframes, TypeInv, InsertRows(tf)
    PROVE  /\ Holds(rows'[tf], Closed(tf))
           /\ \A u \in Timeframes : \A c : Holds(rows[u], c) => Holds(rows'[u], c)
<1>1. Holds(rows'[tf], Closed(tf))
  BY Appended DEF Holds
<1>2. ASSUME NEW u \in Timeframes, NEW c, Holds(rows[u], c) PROVE Holds(rows'[u], c)
  <2>1. PICK i \in 1..Len(rows[u]) : rows[u][i] = c
    BY <1>2 DEF Holds
  <2>2. CASE u = tf
    <3>1. i \in 1..Len(rows'[tf]) /\ rows'[tf][i] = c
      BY <2>1, <2>2, Appended
    <3> QED
      BY <2>2, <3>1 DEF Holds
  <2>3. CASE u # tf
    BY <1>2, <2>3, Appended
  <2> QED
    BY <2>2, <2>3
<1> QED
  BY <1>1, <1>2

\* After BatchInsert, ClickHouse has the candle the closer goes on to publish.
LEMMA PublishedInvInsert ==
    ASSUME NEW tf \in Timeframes, TypeInv, PublishedInv, InsertRows(tf),
           cpc'[tf] \in {"cache", "arm"}, cpc'[tf] = "cache" => UNCHANGED batch,
           \A u \in Timeframes : u # tf => cpc'[u] = cpc[u] /\ batch'[u] = batch[u],
           UNCHANGED <<next, cache, announced>>
    PROVE  PublishedInv'
<1> SUFFICES ASSUME NEW u \in Timeframes PROVE PublishedInv!(u)'
  BY DEF PublishedInv
<1>1. CASE u # tf
  <2>1. Closed(u)' = Closed(u)
    BY <1>1 DEF Closed
  <2> QED
    BY <1>1, <2>1, HoldsMore DEF PublishedInv
<1>2. CASE u = tf
  <2>1. cpc'[tf] = "cache" => Closed(tf)' = Closed(tf)
    BY DEF Closed
  <2> QED
    BY <1>2, <2>1, HoldsMore DEF PublishedInv
<1> QED
  BY <1>1, <1>2

\* A closer that has not just inserted leaves the rows alone, and publishes at most the
\* candle it is closing.
LEMMA PublishedInvFrame ==
    ASSUME PublishedInv, UNCHANGED rows,
           \A u \in Timeframes :
              /\ \A c \in (cache'[u] \cup announced'[u]) \ (cache[u] \cup announced[u]) :
                    cpc[u] \in {"cache", "del"} /\ c = Closed(u)
              /\ cpc'[u] \in {"cache", "del"} =>
                    cpc[u] \in {"cache", "del"} /\ next'[u] = next[u] /\ batch'[u] = batch[u]
    PROVE  PublishedInv'
<1> SUFFICES ASSUME NEW u \in Timeframes PROVE PublishedInv!(u)'
  BY DEF PublishedInv
<1>1. \A c \in cache'[u] \cup announced'[u] : Holds(rows'[u], c)
  BY DEF PublishedInv
<1>2. ASSUME cpc'[u] \in {"cache", "del"} PROVE Holds(rows'[u], Closed(u)')
  <2>1. Closed(u)' = Closed(u)
    BY <1>2 DEF Closed
  <2> QED
    BY <1>2, <2>1 DEF PublishedInv
<1> QED
  BY <1>1, <1>2

\* No step publishes a candle that ClickHouse does not have.
LEMMA PublishedInvStep == TypeInv /\ PublishedInv /\ [Next]_vars => PublishedInv'
<1> SUFFICES ASSUME TypeInv, PublishedInv, [Next]_vars PROVE PublishedInv'
  OBVIOUS
<1>1. CASE Tick \/ Issue \/ LoseConnection \/ Client \/ UNCHANGED vars
  <2>1. UNCHANGED <<closerVars, storeVars>>
    BY <1>1, Quiet DEF Client, ProcessTrade, IncrCell, Tick
  <2> QED
    BY <2>1, PublishedInvFrame DEF closerVars, storeVars
<1>2. CASE Crash
  <2>1. UNCHANGED storeVars /\ \A tf \in Timeframes : cpc'[tf] = "arm"
    BY <1>2 DEF Crash
  <2> QED
    BY <2>1, PublishedInvFrame DEF storeVars
<1>3. ASSUME NEW tf \in Timeframes, Arm(tf) \/ Flush(tf) PROVE PublishedInv'
  <2>1. UNCHANGED storeVars /\ cpc'[tf] \notin {"cache", "del"}
    BY <1>3 DEF Arm, Flush, FlushCopy, FlushCells, FlushSeen, FlushLast, TypeInv, TypeOK, CloserTypes
  <2>2. \A u \in Timeframes : u # tf => cpc'[u] = cpc[u] /\ next'[u] = next[u] /\ batch'[u] = batch[u]
    BY <1>3 DEF Arm, Flush, FlushCopy, FlushCells, FlushSeen, FlushLast, TypeInv, TypeOK, CloserTypes
  <2> QED
    BY <2>1, <2>2, PublishedInvFrame DEF storeVars
<1>4. ASSUME NEW tf \in Timeframes, Insert(tf) PROVE PublishedInv'
  <2>1. /\ InsertRows(tf) /\ cpc' = [cpc EXCEPT ![tf] = "cache"]
        /\ UNCHANGED <<next, batch, cache, announced>>
    BY <1>4 DEF Insert
  <2>2. cpc'[tf] = "cache" /\ \A u \in Timeframes : u # tf => cpc'[u] = cpc[u]
    BY <2>1 DEF TypeInv, TypeOK, CloserTypes
  <2> QED
    BY <2>1, <2>2, PublishedInvInsert
<1>5. ASSUME NEW tf \in Timeframes, InsertError(tf) PROVE PublishedInv'
  <2>1. /\ cpc' = [cpc EXCEPT ![tf] = "arm"] /\ batch' = [batch EXCEPT ![tf] = NoVolume]
        /\ UNCHANGED <<next, cache, announced>> /\ (InsertRows(tf) \/ UNCHANGED rows)
    BY <1>5 DEF InsertError
  <2>2. /\ cpc'[tf] = "arm"
        /\ \A u \in Timeframes : u # tf => cpc'[u] = cpc[u] /\ batch'[u] = batch[u]
    BY <2>1 DEF TypeInv, TypeOK, CloserTypes
  <2>3. CASE InsertRows(tf)
    BY <2>1, <2>2, <2>3, PublishedInvInsert
  <2>4. CASE UNCHANGED rows
    BY <2>1, <2>2, <2>4, PublishedInvFrame
  <2> QED
    BY <2>1, <2>3, <2>4
<1>6. ASSUME NEW tf \in Timeframes, SetLastCandle(tf) PROVE PublishedInv'
  <2>1. /\ UNCHANGED <<next, batch, rows, announced>>
        /\ cpc[tf] = "cache" /\ \A u \in Timeframes : u # tf => cpc'[u] = cpc[u]
    BY <1>6 DEF SetLastCandle, TypeInv, TypeOK, CloserTypes
  <2>2. /\ cache'[tf] \subseteq cache[tf] \cup {Closed(tf)}
        /\ \A u \in Timeframes : u # tf => cache'[u] = cache[u]
    BY <1>6 DEF SetLastCandle, Newest, TypeInv, TypeOK, StoreTypes
  <2> QED
    BY <2>1, <2>2, PublishedInvFrame
<1>7. ASSUME NEW tf \in Timeframes, DelLiveAndNotify(tf) PROVE PublishedInv'
  <2>1. /\ UNCHANGED <<next, rows, cache>> /\ cpc[tf] = "del" /\ cpc'[tf] = "arm"
        /\ \A u \in Timeframes : u # tf => cpc'[u] = cpc[u] /\ batch'[u] = batch[u]
    BY <1>7 DEF DelLiveAndNotify, TypeInv, TypeOK, CloserTypes
  <2>2. /\ announced'[tf] = announced[tf] \cup {Closed(tf)}
        /\ \A u \in Timeframes : u # tf => announced'[u] = announced[u]
    BY <1>7 DEF DelLiveAndNotify, TypeInv, TypeOK, StoreTypes
  <2> QED
    BY <2>1, <2>2, PublishedInvFrame
<1> QED
  BY <1>1, <1>2, <1>3, <1>4, <1>5, <1>6, <1>7 DEF Next, Closer

\* What the cache serves and what browsers are told of is in ClickHouse, whichever of
\* the closer's calls failed and wherever the process was killed.
THEOREM PublishedIsStoredHolds == Spec => []PublishedIsStored
<1>1. PublishedInv => PublishedIsStored
  BY DEF PublishedInv, PublishedIsStored, Holds
<1> QED
  BY <1>1, PublishedInvInit, PublishedInvStep, TypeInvHolds, PTL DEF Spec

-------------------------------------------------------------------------------
(* Volume.                                                                 *)

\* VolumeAccounted for one timeframe and one trade.  It is inductive by itself, given
\* the types: a closer that is not between the reset and the insert holds no volume
\* that the aggregator does not hold as well.
Balance(tf, id) == added[tf][id] = InMemory(tf)[id] + stored[tf][id] + lost[tf][id]

\* InMemory of one trade, as a number.
LEMMA InMemoryAt ==
    ASSUME NEW tf \in Timeframes, NEW id \in TradeIds
    PROVE  InMemory(tf)[id] =
             IF cpc[tf] \in {"seen", "last", "insert"}
             THEN agg[tf].cells[id] + batch[tf][id] ELSE agg[tf].cells[id]
  BY DEF InMemory, Plus

\* All the amounts that the balance adds up are natural numbers.
LEMMA Amounts ==
    ASSUME TypeInv, NEW tf \in Timeframes, NEW id \in TradeIds
    PROVE  /\ agg[tf].cells[id] \in Nat /\ batch[tf][id] \in Nat
           /\ added[tf][id] \in Nat /\ stored[tf][id] \in Nat /\ lost[tf][id] \in Nat
           /\ InMemory(tf)[id] \in Nat
<1>1. /\ agg[tf].cells[id] \in Nat /\ batch[tf][id] \in Nat
      /\ added[tf][id] \in Nat /\ stored[tf][id] \in Nat /\ lost[tf][id] \in Nat
  BY DEF TypeInv, TypeOK, SharedTypes, CloserTypes, TallyTypes, AggregatorState, Volume
<1>2. InMemory(tf)[id] \in {agg[tf].cells[id] + batch[tf][id], agg[tf].cells[id]}
  BY DEF InMemory, Plus
<1> QED
  BY <1>1, <1>2

\* The balance holds when nothing has been added.
LEMMA VolumeInit == Init => VolumeAccounted
<1> SUFFICES ASSUME Init, NEW tf \in Timeframes, NEW id \in TradeIds PROVE Balance(tf, id)
  BY DEF VolumeAccounted, Balance
<1>1. InMemory(tf)[id] = 0
  BY DEF InMemory, Init, NewAggregator, NoVolume
<1> QED
  BY <1>1 DEF Init, Balance, NoVolume

\* The sum keeps its value while the fields it reads stay as they are.
LEMMA BalanceFrame ==
    ASSUME TypeInv, VolumeAccounted, NEW tf \in Timeframes, NEW id \in TradeIds,
           agg'[tf].cells = agg[tf].cells,
           \/ cpc'[tf] = cpc[tf] /\ batch'[tf] = batch[tf]
           \/ cpc[tf] \notin {"seen", "last", "insert"} /\ cpc'[tf] \notin {"seen", "last", "insert"}
           \/ cpc[tf] \in {"seen", "last", "insert"} /\ cpc'[tf] \in {"seen", "last", "insert"}
                /\ batch'[tf] = batch[tf],
           added'[tf] = added[tf], stored'[tf] = stored[tf], lost'[tf] = lost[tf]
    PROVE  Balance(tf, id)'
<1>1. Balance(tf, id)
  BY DEF VolumeAccounted, Balance
<1>2. InMemory(tf)'[id] = InMemory(tf)[id]
  BY DEF InMemory, Plus
<1> QED
  BY <1>1, <1>2 DEF Balance

\* The trade loop adds to the aggregator and to `added` alike.
LEMMA VolumeClient ==
    ASSUME TypeInv, VolumeAccounted, Client \/ Tick \/ Issue \/ LoseConnection \/ UNCHANGED vars
    PROVE  VolumeAccounted'
<1> SUFFICES ASSUME NEW tf \in Timeframes, NEW id \in TradeIds PROVE Balance(tf, id)'
  BY DEF VolumeAccounted, Balance
<1>1. CASE AddTrade
  <2>1. /\ agg' = [agg EXCEPT ![pos] = Accumulate(@, cur)] /\ added' = [added EXCEPT ![pos][cur] = @ + 1]
        /\ UNCHANGED <<cpc, batch, stored, lost>> /\ cur \in TradeIds /\ pos \in Timeframes
    BY <1>1 DEF AddTrade, closerVars, TypeInv, TypeOK, ClientTypes, Issued
  <2>2. CASE tf # pos
    <3>1. agg'[tf] = agg[tf] /\ added'[tf] = added[tf]
      BY <2>1, <2>2 DEF TypeInv, TypeOK, SharedTypes, TallyTypes
    <3> QED
      BY <2>1, <3>1, BalanceFrame
  <2>3. CASE tf = pos
    <3>1. agg'[tf] = Accumulate(agg[tf], cur) /\ added'[tf] = [added[tf] EXCEPT ![cur] = @ + 1]
      BY <2>1, <2>3 DEF TypeInv, TypeOK, SharedTypes, TallyTypes
    <3>2. /\ agg[tf] \in AggregatorState /\ agg[tf].cells \in Volume /\ added[tf] \in Volume
      BY DEF TypeInv, TypeOK, SharedTypes, TallyTypes, AggregatorState
    <3>3. agg'[tf].cells = [agg[tf].cells EXCEPT ![cur] = @ + 1]
      BY <3>1, <3>2 DEF Accumulate, AggregatorState
    <3> DEFINE one == IF id = cur THEN 1 ELSE 0
    <3>4. agg'[tf].cells[id] = agg[tf].cells[id] + one
      BY <2>1, <3>2, <3>3, Increment
    <3>5. added'[tf][id] = added[tf][id] + one
      BY <2>1, <3>1, <3>2, Increment
    <3>6. InMemory(tf)'[id] = InMemory(tf)[id] + one
      <4>1. InMemory(tf)'[id] = IF cpc'[tf] \in {"seen", "last", "insert"}
                THEN agg'[tf].cells[id] + batch'[tf][id] ELSE agg'[tf].cells[id]
        BY DEF InMemory, Plus
      <4>2. InMemory(tf)[id] = IF cpc[tf] \in {"seen", "last", "insert"}
                THEN agg[tf].cells[id] + batch[tf][id] ELSE agg[tf].cells[id]
        BY InMemoryAt
      <4>3. agg[tf].cells[id] \in Nat /\ batch[tf][id] \in Nat
        BY Amounts
      <4> QED
        BY <2>1, <3>4, <4>1, <4>2, <4>3
    <3>7. InMemory(tf)[id] \in Nat
      BY Amounts
    <3>8. added[tf][id] = InMemory(tf)[id] + stored[tf][id] + lost[tf][id]
      BY DEF VolumeAccounted
    <3>9. stored'[tf][id] = stored[tf][id] /\ lost'[tf][id] = lost[tf][id]
      BY <2>1
    <3> HIDE DEF one
    <3>10. one \in Nat
      BY DEF one
    <3>11. stored[tf][id] \in Nat /\ lost[tf][id] \in Nat
      BY Amounts
    <3>12. added'[tf][id] = InMemory(tf)'[id] + stored'[tf][id] + lost'[tf][id]
      BY <3>5, <3>6, <3>7, <3>8, <3>9, <3>10, <3>11
    <3> QED
      BY <3>12 DEF Balance
  <2> QED
    BY <2>2, <2>3
<1>2. CASE MarkTrade \/ DetectGap \/ MoveLast
  <2>1. UNCHANGED <<cpc, batch, added, stored, lost>>
    BY <1>2 DEF MarkTrade, DetectGap, MoveLast, closerVars, tallyVars
  <2>2. agg'[tf] \in {agg[tf], MarkSeen(agg[tf], cur), AdvanceLast(agg[tf], cur)}
    BY <1>2 DEF MarkTrade, DetectGap, MoveLast, TypeInv, TypeOK, SharedTypes
  <2>3. agg[tf] \in AggregatorState
    BY DEF TypeInv, TypeOK, SharedTypes
  <2>4. agg'[tf].cells = agg[tf].cells
    BY <2>2, <2>3 DEF MarkSeen, AdvanceLast, AggregatorState
  <2> QED
    BY <2>1, <2>4, BalanceFrame
<1>3. CASE Tick \/ Issue \/ LoseConnection \/ Connect \/ ReadTrade \/ SkipSeen \/ FillGap
           \/ ReadCell \/ WriteCell \/ UNCHANGED vars
  <2>1. UNCHANGED <<agg, cpc, batch, added, stored, lost>>
    BY <1>3 DEF Tick, Issue, LoseConnection, Connect, ReadTrade, SkipSeen, FillGap, ReadCell,
                WriteCell, vars, closerVars, tallyVars
  <2> QED
    BY <2>1, BalanceFrame
<1> QED
  BY <1>1, <1>2, <1>3 DEF Client, ProcessTrade, IncrCell

\* Closing a candle moves volume from memory to ClickHouse or to `lost`.
LEMMA VolumeCloser ==
    ASSUME TypeInv, VolumeAccounted, NEW u \in Timeframes, Closer(u)
    PROVE  VolumeAccounted'
<1> SUFFICES ASSUME NEW tf \in Timeframes, NEW id \in TradeIds PROVE Balance(tf, id)'
  BY DEF VolumeAccounted, Balance
<1> DEFINE a == agg[tf].cells[id]
           b == batch[tf][id]
<1>1. a \in Nat /\ b \in Nat /\ stored[tf][id] \in Nat /\ lost[tf][id] \in Nat
  BY Amounts
<1>2. added[tf][id] = InMemory(tf)[id] + stored[tf][id] + lost[tf][id]
  BY DEF VolumeAccounted
<1>3. InMemory(tf)[id] = IF cpc[tf] \in {"seen", "last", "insert"} THEN a + b ELSE a
  BY InMemoryAt
<1>4. InMemory(tf)'[id] = IF cpc'[tf] \in {"seen", "last", "insert"}
        THEN agg'[tf].cells[id] + batch'[tf][id] ELSE agg'[tf].cells[id]
  BY DEF InMemory, Plus
<1>5. CASE tf # u
  <2>1. /\ agg'[tf] = agg[tf] /\ cpc'[tf] = cpc[tf] /\ batch'[tf] = batch[tf]
    BY <1>5 DEF Closer, Flush, Arm, FlushCopy, FlushCells, FlushSeen, FlushLast, Insert, InsertError,
       SetLastCandle, DelLiveAndNotify, TypeInv, TypeOK, SharedTypes, CloserTypes
  <2>2. added'[tf] = added[tf] /\ stored'[tf] = stored[tf] /\ lost'[tf] = lost[tf]
    BY <1>5 DEF Closer, Flush, Arm, FlushCopy, FlushCells, FlushSeen, FlushLast, Insert, InsertError,
       InsertRows, SetLastCandle, DelLiveAndNotify, TypeInv, TypeOK, TallyTypes, tallyVars
  <2> QED
    BY <2>1, <2>2, BalanceFrame
<1>6. CASE tf = u /\ (Arm(u) \/ FlushCopy(u) \/ SetLastCandle(u) \/ DelLiveAndNotify(u))
  <2>1. /\ cpc[tf] \in {"arm", "sleep", "cache", "del"} /\ cpc'[tf] \in {"sleep", "cells", "del", "arm"}
        /\ UNCHANGED <<agg, added, stored, lost>>
    BY <1>6 DEF Arm, FlushCopy, SetLastCandle, DelLiveAndNotify, TypeInv, TypeOK, CloserTypes, tallyVars
  <2> QED
    BY <2>1, BalanceFrame
<1>7. CASE tf = u /\ FlushCells(u)
  <2>1. /\ agg'[tf].cells = NoVolume /\ batch' = batch /\ cpc[tf] = "cells" /\ cpc'[tf] = "seen"
        /\ UNCHANGED <<added, stored>> /\ lost'[tf] = Plus(lost[tf], Minus(agg[tf].cells, batch[tf]))
    BY <1>7 DEF FlushCells, ResetCells, TypeInv, TypeOK, SharedTypes, CloserTypes, TallyTypes, AggregatorState
  <2>2. lost'[tf][id] = lost[tf][id] + (a - b) /\ agg'[tf].cells[id] = 0
    BY <2>1 DEF Plus, Minus, NoVolume
  <2>3. InMemory(tf)[id] = a /\ InMemory(tf)'[id] = b
    BY <1>1, <1>3, <1>4, <2>1, <2>2
  <2>4. added'[tf][id] = added[tf][id] /\ stored'[tf][id] = stored[tf][id]
    BY <2>1
  <2> HIDE DEF a, b
  <2>5. added'[tf][id] = InMemory(tf)'[id] + stored'[tf][id] + lost'[tf][id]
    BY <1>1, <1>2, <2>2, <2>3, <2>4
  <2> QED
    BY <2>5 DEF Balance
<1>8. CASE tf = u /\ (FlushSeen(u) \/ FlushLast(u))
  <2>1. /\ agg'[tf].cells = agg[tf].cells /\ batch' = batch /\ UNCHANGED <<added, stored, lost>>
        /\ cpc[tf] \in {"seen", "last"}
        /\ cpc'[tf] \in {"last", "insert"} \/ (cpc'[tf] = "arm" /\ batch[tf] = NoVolume)
    BY <1>8 DEF FlushSeen, FlushLast, ResetSeen, ResetLast, TypeInv, TypeOK, SharedTypes, CloserTypes,
                AggregatorState, tallyVars
  <2>2. batch[tf] = NoVolume => b = 0
    BY DEF NoVolume
  <2>3. InMemory(tf)'[id] = InMemory(tf)[id]
    BY <1>1, <1>3, <1>4, <2>1, <2>2
  <2> QED
    BY <1>2, <2>1, <2>3 DEF Balance
<1>9. CASE tf = u /\ (Insert(u) \/ InsertError(u))
  <2>1. /\ UNCHANGED <<agg, added>> /\ cpc[tf] = "insert" /\ cpc'[tf] \in {"cache", "arm"}
        /\ \/ stored'[tf] = Plus(stored[tf], batch[tf]) /\ lost' = lost
           \/ lost'[tf] = Plus(lost[tf], batch[tf]) /\ stored' = stored
    BY <1>9 DEF Insert, InsertError, InsertRows, TypeInv, TypeOK, CloserTypes, TallyTypes
  <2>2. \/ stored'[tf][id] = stored[tf][id] + b /\ lost'[tf][id] = lost[tf][id]
        \/ lost'[tf][id] = lost[tf][id] + b /\ stored'[tf][id] = stored[tf][id]
    BY <2>1 DEF Plus
  <2>3. InMemory(tf)[id] = a + b /\ InMemory(tf)'[id] = a
    BY <1>1, <1>3, <1>4, <2>1
  <2>4. added'[tf][id] = added[tf][id]
    BY <2>1
  <2> HIDE DEF a, b
  <2>5. added'[tf][id] = InMemory(tf)'[id] + stored'[tf][id] + lost'[tf][id]
    BY <1>1, <1>2, <2>2, <2>3, <2>4
  <2> QED
    BY <2>5 DEF Balance
<1> QED
  BY <1>5, <1>6, <1>7, <1>8, <1>9 DEF Closer, Flush

\* A restart moves all that is in memory to `lost`.
LEMMA VolumeCrash == ASSUME TypeInv, VolumeAccounted, Crash PROVE VolumeAccounted'
<1> SUFFICES ASSUME NEW tf \in Timeframes, NEW id \in TradeIds PROVE Balance(tf, id)'
  BY DEF VolumeAccounted, Balance
<1>1. lost'[tf][id] = lost[tf][id] + InMemory(tf)[id] /\ UNCHANGED <<added, stored>>
  BY DEF Crash, Plus
<1>2. InMemory(tf)'[id] = 0
  BY DEF Crash, InMemory, NewAggregator, NoVolume
<1>3. /\ InMemory(tf)[id] \in Nat /\ added[tf][id] \in Nat /\ stored[tf][id] \in Nat
      /\ lost[tf][id] \in Nat
  BY Amounts
<1>4. added[tf][id] = InMemory(tf)[id] + stored[tf][id] + lost[tf][id]
  BY DEF VolumeAccounted
<1>5. added'[tf][id] = added[tf][id] /\ stored'[tf][id] = stored[tf][id]
  BY <1>1
<1>6. added'[tf][id] = InMemory(tf)'[id] + stored'[tf][id] + lost'[tf][id]
  BY <1>1, <1>2, <1>3, <1>4, <1>5
<1> QED
  BY <1>6 DEF Balance

\* No interleaving of the trade loop with Flush, no failed call and no restart makes
\* volume appear twice or disappear in any way but the three that `lost` counts.
THEOREM VolumeAccountedHolds == Spec => []VolumeAccounted
<1>1. TypeInv /\ VolumeAccounted /\ [Next]_vars => VolumeAccounted'
  BY VolumeClient, VolumeCloser, VolumeCrash DEF Next
<1> QED
  BY <1>1, VolumeInit, TypeInvHolds, PTL DEF Spec
===============================================================================
