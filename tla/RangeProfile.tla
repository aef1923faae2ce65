------------------------------ MODULE RangeProfile ------------------------------
(***************************************************************************)
(* The volume profile of a box drawn over the chart, with its point of     *)
(* control and its 70% value area, as the render effect computes it        *)
(* (frontend-chart/src/components/ClusterChart.tsx, drawings of type       *)
(* "volume").                                                              *)
(*                                                                         *)
(* Prices are in half price steps: cells lie on whole steps, the edges of  *)
(* the box, which follow the mouse, anywhere.  A candle without cells      *)
(* counts as one cell at its mean price.                                   *)
(***************************************************************************)
EXTENDS Integers, FiniteSetsExt, Functions

CONSTANTS
    Columns,  \* bound: candles in the list, numbered 0 .. Columns - 1
    Steps,    \* bound: prices of cells, in whole steps 0 .. Steps - 1
    Volumes   \* bound: volumes of a cell

ASSUME RangeProfileAssumption ==
    Columns \in Nat \ {0} /\ Steps \in Nat \ {0} /\ Volumes \subseteq Nat

Candles == 0 .. Columns - 1
CellPrices == {2 * p : p \in 0 .. Steps - 1}
Edges == 0 .. 2 * Steps - 1

(* The box with its corners sorted; it may begin before the first candle and end behind the last. *)
Boxes == {b \in [left : -1 .. Columns, right : -1 .. Columns, lo : Edges, hi : Edges] :
            b.left <= b.right /\ b.lo <= b.hi}

VARIABLES
    cells,      \* volume of each candle at each price
    stage,      \* "idle": no box; "extend": in the loop; "done": drawn
    box,
    bins,       \* profileBins
    poc,        \* pocIdx
    low, high,  \* lowIdx and highIdx
    area        \* vaVolume

profileVars == <<cells, stage, box, bins, poc, low, high, area>>

Max2(a, b) == IF a >= b THEN a ELSE b
Min2(a, b) == IF a <= b THEN a ELSE b
Total(f) == SumFunction(f)
Empty == [b \in {0} |-> 0]

ProfileTypeOK ==
    /\ cells \in [Candles -> [CellPrices -> Volumes]]
    /\ stage \in {"idle", "extend", "done"} /\ box \in Boxes
    /\ DOMAIN bins = 0 .. Max(DOMAIN bins) /\ \A b \in DOMAIN bins : bins[b] \in Nat
    /\ poc \in DOMAIN bins /\ low \in DOMAIN bins /\ high \in DOMAIN bins /\ area \in Nat

NoBox == [left |-> 0, right |-> 0, lo |-> 0, hi |-> 0]

ProfileInit ==
    /\ cells \in [Candles -> [CellPrices -> Volumes]]
    /\ stage = "idle" /\ box = NoBox
    /\ bins = Empty /\ poc = 0 /\ low = 0 /\ high = 0 /\ area = 0
--------------------------------------------------------------------------------
(* startIndex .. endIndex *)
Covered(b) == Max2(0, b.left) .. Min2(Columns - 1, b.right)

(* bucketCount: the height in steps, rounded half up, and at least one. *)
bucketCount(b) == Max2(1, (b.hi - b.lo + 1) \div 2)

(* The bucket of a price, from the top; what the rounding cut off goes into the last. *)
binIdx(b, p) == Min2(bucketCount(b) - 1, Max2(0, (b.hi - p) \div 2))

Inside(b) == {cp \in Covered(b) \X CellPrices : b.lo <= cp[2] /\ cp[2] <= b.hi}

Cell == [cp \in Candles \X CellPrices |-> cells[cp[1]][cp[2]]]

profileBins(b) ==
    [i \in 0 .. bucketCount(b) - 1 |->
        SumFunctionOnSet(Cell, {cp \in Inside(b) : binIdx(b, cp[2]) = i})]

(* The first of the largest buckets. *)
pocIdx(f) == Min({i \in DOMAIN f : \A j \in DOMAIN f : f[j] <= f[i]})

(* A box over no candle is drawn without a profile. *)
Profile(b) ==
    /\ stage = "idle" /\ Covered(b) # {}
    /\ stage' = "extend" /\ box' = b
    /\ bins' = profileBins(b)
    /\ poc' = pocIdx(bins') /\ low' = poc' /\ high' = poc' /\ area' = bins'[poc']
    /\ UNCHANGED cells

Growing == Total(bins) > 0 /\ 10 * area < 7 * Total(bins) /\ (low > 0 \/ high < Max(DOMAIN bins))

(* One round of the loop: the larger of the two neighbours joins, the upper one if equal. *)
ExtendSwapped ==
    LET below == high < Max(DOMAIN bins)
        addLow == IF low > 0 THEN bins[low - 1] ELSE 0
        addHigh == IF below THEN bins[high + 1] ELSE 0
    IN /\ stage = "extend" /\ Growing
       /\ \/ /\ low > 0 /\ addLow >= addHigh
             /\ area' = area + addHigh /\ low' = low - 1 /\ UNCHANGED high
          \/ /\ below /\ ~(low > 0 /\ addLow >= addHigh)
             /\ area' = area + addHigh /\ high' = high + 1 /\ UNCHANGED low
       /\ UNCHANGED <<cells, stage, box, bins, poc>>

Extend ==
    LET below == high < Max(DOMAIN bins)
        addLow == IF low > 0 THEN bins[low - 1] ELSE 0
        addHigh == IF below THEN bins[high + 1] ELSE 0
    IN /\ stage = "extend" /\ Growing
       /\ \/ /\ low > 0 /\ addLow >= addHigh
             /\ area' = area + addLow /\ low' = low - 1 /\ UNCHANGED high
          \/ /\ below /\ ~(low > 0 /\ addLow >= addHigh)
             /\ area' = area + addHigh /\ high' = high + 1 /\ UNCHANGED low
       /\ UNCHANGED <<cells, stage, box, bins, poc>>

Drawn ==
    /\ stage = "extend" /\ ~Growing
    /\ stage' = "done"
    /\ UNCHANGED <<cells, box, bins, poc, low, high, area>>

(* The box is removed; rendering it again without a change computes the same. *)
Removed ==
    /\ stage = "done"
    /\ stage' = "idle" /\ box' = NoBox
    /\ bins' = Empty /\ poc' = 0 /\ low' = 0 /\ high' = 0 /\ area' = 0
    /\ UNCHANGED cells

ProfileNext ==
    \/ \E b \in Boxes : Profile(b)
    \/ Extend \/ Drawn \/ Removed
--------------------------------------------------------------------------------
(* What is drawn is right: the buckets hold the volume of every cell in    *)
(* the box once, wherever its edges cut a step; the value area is a run of *)
(* buckets around the largest with at least 70% of that volume, its volume *)
(* is the one the loop counted, and the bucket that joined last was needed *)
(* (ClusterChart.tsx:2743-2813).                                           *)
ValueAreaRight ==
    stage = "done" =>
        LET total == SumFunctionOnSet(Cell, Inside(box))
        IN /\ Total(bins) = total
           /\ low <= poc /\ poc <= high /\ \A i \in DOMAIN bins : bins[i] <= bins[poc]
           /\ area = Total([i \in low .. high |-> bins[i]])
           /\ 10 * area >= 7 * total
           /\ low = high \/ \E i \in {low, high} \ {poc} : 10 * (area - bins[i]) < 7 * total
================================================================================
