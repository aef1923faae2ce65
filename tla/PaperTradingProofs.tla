-------------------------- MODULE PaperTradingProofs ---------------------------
(***************************************************************************)
(* What is proved about the trading simulator (PaperTrading): its types    *)
(* and the four invariants of the run.                                     *)
(***************************************************************************)
EXTENDS PaperTrading, Induction, TLAPS

--------------------------------------------------------------------------------
(* Arithmetic of a fill.                                                        *)

Account == [balance : Int, position : Int, entry : Nat]

\* Rounding keeps a quotient between two whole numbers that it lies between.
LEMMA RoundBetween ==
    ASSUME NEW w \in Nat, NEW d \in Nat \ {0}, NEW lo \in Nat, NEW hi \in Nat,
           lo * d <= w, w <= hi * d
    PROVE  Round(w, d) \in Nat /\ lo <= Round(w, d) /\ Round(w, d) <= hi
<1> DEFINE q == (2 * w + d) \div (2 * d)
           D == 2 * d
           N == 2 * w + d
<1>1. D \in Nat \ {0} /\ N \in Nat
  OBVIOUS
<1>2. q \in Int /\ D * q <= N /\ N < D * q + D
  <2> HIDE DEF D, N
  <2>1. N \div D \in Int /\ D * (N \div D) <= N /\ N < D * (N \div D) + D
    BY <1>1
  <2> QED
    BY <2>1 DEF D, N
<1>3. D * lo <= N /\ N < D * hi + D
  <2>1. D * lo = 2 * (lo * d) /\ D * hi = 2 * (hi * d)
    OBVIOUS
  <2>2. lo * d \in Nat /\ hi * d \in Nat
    OBVIOUS
  <2> HIDE DEF D
  <2> QED
    BY <2>1, <2>2 DEF D
<1> HIDE DEF q, D, N
<1>4. lo <= q
  <2> SUFFICES ASSUME q + 1 <= lo PROVE FALSE
    BY <1>2
  <2>1. D * (q + 1) <= D * lo
    BY <1>1, <1>2
  <2> QED
    BY <1>1, <1>2, <1>3, <2>1
<1>5. q <= hi
  <2> SUFFICES ASSUME hi + 1 <= q PROVE FALSE
    BY <1>2
  <2>1. D * (hi + 1) <= D * q
    BY <1>1, <1>2
  <2> QED
    BY <1>1, <1>2, <1>3, <2>1
<1>6. Round(w, d) = q
  BY DEF Round, q
<1> QED
  BY <1>2, <1>4, <1>5, <1>6

\* An amount of money is a number.
LEMMA ToCentsType == ASSUME NEW x \in Int PROVE ToCents(x) \in Int
BY DEF ToCents, Round

\* The entry price lies between the lowest and the highest fill that it averages.
Between(a, lo, hi) ==
    /\ lo <= a.entry /\ a.entry <= hi
    /\ a.position = 0 => a.entry = 0 /\ lo = 0 /\ hi = 0

\* Adding to a position in its direction moves the entry price no further than the fill.
LEMMA AveragedBetween ==
    ASSUME NEW a \in Account, NEW p \in Nat, NEW n \in Nat \ {0}, NEW lo \in Nat, NEW hi \in Nat,
           lo <= p, p <= hi, a.position # 0 => lo <= a.entry /\ a.entry <= hi
    PROVE  /\ Averaged(a, p, n) \in Nat
           /\ lo <= Averaged(a, p, n) /\ Averaged(a, p, n) <= hi
<1> DEFINE x == Abs(a.position)
           e == a.entry
<1>1. x \in Nat /\ e \in Nat /\ (x # 0 => lo <= e /\ e <= hi)
  BY DEF Account, Abs
<1> HIDE DEF x, e
<1>2. x * lo <= x * e /\ x * e <= x * hi
  <2>1. CASE x = 0
    BY <1>1, <2>1
  <2>2. CASE x # 0
    BY <1>1, <2>2
  <2> QED
    BY <2>1, <2>2
<1>3. lo * n <= p * n /\ p * n <= hi * n
  OBVIOUS
<1>4. lo * (x + n) <= x * e + p * n /\ x * e + p * n <= hi * (x + n)
  <2>1. lo * (x + n) = x * lo + lo * n /\ hi * (x + n) = x * hi + hi * n
    BY <1>1
  <2>2. /\ x * lo \in Nat /\ x * e \in Nat /\ x * hi \in Nat
        /\ lo * n \in Nat /\ p * n \in Nat /\ hi * n \in Nat
    BY <1>1
  <2> QED
    BY <1>2, <1>3, <2>1, <2>2
<1>5. x * e + p * n \in Nat /\ x + n \in Nat \ {0}
  BY <1>1
<1>6. /\ Round(x * e + p * n, x + n) \in Nat
      /\ lo <= Round(x * e + p * n, x + n) /\ Round(x * e + p * n, x + n) <= hi
  BY <1>4, <1>5, RoundBetween
<1> QED
  BY <1>6 DEF Averaged, x, e

\* How the range of fills goes on, by the position before and after a fill at p.
LEMMA RangeOfFills ==
    ASSUME NEW x \in Int, NEW y \in Int, NEW p \in Nat, NEW lo \in Nat, NEW hi \in Nat
    PROVE  /\ Lowest(lo, x, y, p) \in Nat /\ Highest(hi, x, y, p) \in Nat
           /\ y = 0 => Lowest(lo, x, y, p) = 0 /\ Highest(hi, x, y, p) = 0
           /\ y # 0 /\ (x = 0 \/ (x < 0 /\ y > 0) \/ (x > 0 /\ y < 0)) =>
                Lowest(lo, x, y, p) = p /\ Highest(hi, x, y, p) = p
           /\ ((0 < y /\ y < x) \/ (x < y /\ y < 0)) =>
                Lowest(lo, x, y, p) = lo /\ Highest(hi, x, y, p) = hi
           /\ ((0 < x /\ x < y) \/ (y < x /\ x < 0)) =>
                /\ Lowest(lo, x, y, p) <= lo /\ Lowest(lo, x, y, p) <= p
                /\ hi <= Highest(hi, x, y, p) /\ p <= Highest(hi, x, y, p)
<1>1. x * y \in Int /\ (x = 0 => x * y = 0) /\ (x < 0 /\ y > 0 => x * y < 0)
      /\ (x > 0 /\ y < 0 => x * y < 0) /\ (x > 0 /\ y > 0 => x * y > 0)
      /\ (x < 0 /\ y < 0 => x * y > 0)
  OBVIOUS
<1> DEFINE xy == x * y
<1>2. /\ Lowest(lo, x, y, p) = IF y = 0 THEN 0 ELSE IF xy <= 0 THEN p
                               ELSE IF Abs(y) < Abs(x) THEN lo ELSE Smaller(lo, p)
      /\ Highest(hi, x, y, p) = IF y = 0 THEN 0 ELSE IF xy <= 0 THEN p
                                ELSE IF Abs(y) < Abs(x) THEN hi ELSE -Smaller(-hi, -p)
  BY DEF Lowest, Highest
<1> HIDE DEF xy
<1>3. xy \in Int /\ (x = 0 => xy = 0) /\ (x < 0 /\ y > 0 => xy < 0)
      /\ (x > 0 /\ y < 0 => xy < 0) /\ (x > 0 /\ y > 0 => xy > 0)
      /\ (x < 0 /\ y < 0 => xy > 0)
  BY <1>1 DEF xy
<1> QED
  BY <1>2, <1>3 DEF Abs, Smaller

\* A buy adds its size to the position and leaves the entry price within the fills.
LEMMA BoughtRight ==
    ASSUME NEW a \in Account, NEW p \in Nat, NEW n \in Nat \ {0}, NEW lo \in Nat, NEW hi \in Nat,
           Between(a, lo, hi),
           NEW b, b = Bought(a, p, n),
           NEW l, l = Lowest(lo, a.position, b.position, p),
           NEW h, h = Highest(hi, a.position, b.position, p)
    PROVE  /\ b.position = a.position + n /\ b.entry \in Nat
           /\ l \in Nat /\ h \in Nat /\ Between(b, l, h)
<1>1. a.position \in Int /\ a.entry \in Nat
  BY DEF Account
<1>2. b.position = a.position + n
  BY <1>1 DEF Bought, Smaller
<1>3. b.position \in Int
  BY <1>1, <1>2
<1> DEFINE x == a.position
           y == b.position
<1>4. /\ l \in Nat /\ h \in Nat
      /\ y = 0 => l = 0 /\ h = 0
      /\ y # 0 /\ (x = 0 \/ (x < 0 /\ y > 0) \/ (x > 0 /\ y < 0)) => l = p /\ h = p
      /\ ((0 < y /\ y < x) \/ (x < y /\ y < 0)) => l = lo /\ h = hi
      /\ ((0 < x /\ x < y) \/ (y < x /\ x < 0)) => l <= lo /\ l <= p /\ hi <= h /\ p <= h
  <2>1. x \in Int /\ y \in Int
    BY <1>1, <1>3
  <2>2. l = Lowest(lo, x, y, p) /\ h = Highest(hi, x, y, p)
    OBVIOUS
  <2> HIDE DEF x, y
  <2>3. /\ Lowest(lo, x, y, p) \in Nat /\ Highest(hi, x, y, p) \in Nat
        /\ y = 0 => Lowest(lo, x, y, p) = 0 /\ Highest(hi, x, y, p) = 0
        /\ y # 0 /\ (x = 0 \/ (x < 0 /\ y > 0) \/ (x > 0 /\ y < 0)) =>
             Lowest(lo, x, y, p) = p /\ Highest(hi, x, y, p) = p
        /\ ((0 < y /\ y < x) \/ (x < y /\ y < 0)) =>
             Lowest(lo, x, y, p) = lo /\ Highest(hi, x, y, p) = hi
        /\ ((0 < x /\ x < y) \/ (y < x /\ x < 0)) =>
             /\ Lowest(lo, x, y, p) <= lo /\ Lowest(lo, x, y, p) <= p
             /\ hi <= Highest(hi, x, y, p) /\ p <= Highest(hi, x, y, p)
    BY <2>1, RangeOfFills, Zenon
  <2> QED
    BY <2>2, <2>3
<1>x. x \in Int /\ y \in Int /\ y = x + n
  BY <1>1, <1>2, <1>3
<1>y. a.position = x /\ b.position = y
  OBVIOUS
<1> HIDE DEF x, y
<1>5. CASE x >= 0
  <2>1. b.entry = Averaged(a, p, n)
    BY <1>5, <1>y DEF Bought
  <2>2. y # 0 /\ (x = 0 \/ (0 < x /\ x < y))
    BY <1>1, <1>x, <1>y, <1>2, <1>5
  <2>3. l <= p /\ p <= h /\ (x # 0 => l <= lo /\ hi <= h)
    <3>1. CASE x = 0
      <4>1. l = p /\ h = p
        BY <1>x, <2>2, <3>1, <1>4
      <4> QED
        BY <3>1, <4>1
    <3>2. CASE 0 < x /\ x < y
      BY <1>x, <3>2, <1>4
    <3> QED
      BY <2>2, <3>1, <3>2
  <2>4. x # 0 => l <= a.entry /\ a.entry <= h
    BY <1>x, <1>y, <1>1, <1>4, <2>3 DEF Between
  <2>5. b.entry \in Nat /\ l <= b.entry /\ b.entry <= h
    BY <1>4, <1>y, <2>1, <2>3, <2>4, AveragedBetween
  <2> QED
    BY <1>x, <1>y, <1>2, <1>4, <2>2, <2>5 DEF Between
<1>6. CASE x < 0
  <2>1. CASE y > 0
    <3>1. b.entry = p
      BY <1>1, <1>x, <1>y, <1>2, <1>6, <2>1 DEF Bought, Smaller
    <3>2. l = p /\ h = p
      BY <1>x, <1>6, <2>1, <1>4
    <3> QED
      BY <1>x, <1>y, <1>2, <1>4, <2>1, <3>1, <3>2 DEF Between
  <2>2. CASE y = 0
    <3>1. b.entry = 0
      BY <1>1, <1>x, <1>y, <1>2, <1>6, <2>2 DEF Bought, Smaller
    <3>2. l = 0 /\ h = 0
      BY <1>x, <2>2, <1>4
    <3> QED
      BY <1>x, <1>y, <1>2, <1>4, <3>1, <3>2 DEF Between
  <2>3. CASE y < 0
    <3>1. b.entry = a.entry /\ x < y
      BY <1>1, <1>x, <1>y, <1>2, <1>6, <2>3 DEF Bought, Smaller
    <3>2. l = lo /\ h = hi
      BY <1>x, <2>3, <3>1, <1>4
    <3> QED
      BY <1>1, <1>x, <1>y, <1>2, <1>4, <2>3, <3>1, <3>2 DEF Between
  <2> QED
    BY <1>x, <2>1, <2>2, <2>3
<1> QED
  BY <1>x, <1>5, <1>6

\* A sell takes its size off the position and leaves the entry price within the fills.
LEMMA SoldRight ==
    ASSUME NEW a \in Account, NEW p \in Nat, NEW n \in Nat \ {0}, NEW lo \in Nat, NEW hi \in Nat,
           Between(a, lo, hi),
           NEW b, b = Sold(a, p, n),
           NEW l, l = Lowest(lo, a.position, b.position, p),
           NEW h, h = Highest(hi, a.position, b.position, p)
    PROVE  /\ b.position = a.position - n /\ b.entry \in Nat
           /\ l \in Nat /\ h \in Nat /\ Between(b, l, h)
<1>1. a.position \in Int /\ a.entry \in Nat
  BY DEF Account
<1>2. b.position = a.position - n
  BY <1>1 DEF Sold, Smaller
<1>3. b.position \in Int
  BY <1>1, <1>2
<1> DEFINE x == a.position
           y == b.position
<1>4. /\ l \in Nat /\ h \in Nat
      /\ y = 0 => l = 0 /\ h = 0
      /\ y # 0 /\ (x = 0 \/ (x < 0 /\ y > 0) \/ (x > 0 /\ y < 0)) => l = p /\ h = p
      /\ ((0 < y /\ y < x) \/ (x < y /\ y < 0)) => l = lo /\ h = hi
      /\ ((0 < x /\ x < y) \/ (y < x /\ x < 0)) => l <= lo /\ l <= p /\ hi <= h /\ p <= h
  <2>1. x \in Int /\ y \in Int
    BY <1>1, <1>3
  <2>2. l = Lowest(lo, x, y, p) /\ h = Highest(hi, x, y, p)
    OBVIOUS
  <2> HIDE DEF x, y
  <2>3. /\ Lowest(lo, x, y, p) \in Nat /\ Highest(hi, x, y, p) \in Nat
        /\ y = 0 => Lowest(lo, x, y, p) = 0 /\ Highest(hi, x, y, p) = 0
        /\ y # 0 /\ (x = 0 \/ (x < 0 /\ y > 0) \/ (x > 0 /\ y < 0)) =>
             Lowest(lo, x, y, p) = p /\ Highest(hi, x, y, p) = p
        /\ ((0 < y /\ y < x) \/ (x < y /\ y < 0)) =>
             Lowest(lo, x, y, p) = lo /\ Highest(hi, x, y, p) = hi
        /\ ((0 < x /\ x < y) \/ (y < x /\ x < 0)) =>
             /\ Lowest(lo, x, y, p) <= lo /\ Lowest(lo, x, y, p) <= p
             /\ hi <= Highest(hi, x, y, p) /\ p <= Highest(hi, x, y, p)
    BY <2>1, RangeOfFills, Zenon
  <2> QED
    BY <2>2, <2>3
<1>x. x \in Int /\ y \in Int /\ y = x - n
  BY <1>1, <1>2, <1>3
<1>y. a.position = x /\ b.position = y
  OBVIOUS
<1> HIDE DEF x, y
<1>5. CASE x <= 0
  <2>1. b.entry = Averaged(a, p, n)
    BY <1>5, <1>y DEF Sold
  <2>2. y # 0 /\ (x = 0 \/ (y < x /\ x < 0))
    BY <1>1, <1>x, <1>y, <1>2, <1>5
  <2>3. l <= p /\ p <= h /\ (x # 0 => l <= lo /\ hi <= h)
    <3>1. CASE x = 0
      <4>1. l = p /\ h = p
        BY <1>x, <2>2, <3>1, <1>4
      <4> QED
        BY <3>1, <4>1
    <3>2. CASE y < x /\ x < 0
      BY <1>x, <3>2, <1>4
    <3> QED
      BY <2>2, <3>1, <3>2
  <2>4. x # 0 => l <= a.entry /\ a.entry <= h
    BY <1>x, <1>y, <1>1, <1>4, <2>3 DEF Between
  <2>5. b.entry \in Nat /\ l <= b.entry /\ b.entry <= h
    BY <1>4, <1>y, <2>1, <2>3, <2>4, AveragedBetween
  <2> QED
    BY <1>x, <1>y, <1>2, <1>4, <2>2, <2>5 DEF Between
<1>6. CASE x > 0
  <2>1. CASE y < 0
    <3>1. b.entry = p
      BY <1>1, <1>x, <1>y, <1>2, <1>6, <2>1 DEF Sold, Smaller
    <3>2. l = p /\ h = p
      BY <1>x, <1>6, <2>1, <1>4
    <3> QED
      BY <1>x, <1>y, <1>2, <1>4, <2>1, <3>1, <3>2 DEF Between
  <2>2. CASE y = 0
    <3>1. b.entry = 0
      BY <1>1, <1>x, <1>y, <1>2, <1>6, <2>2 DEF Sold, Smaller
    <3>2. l = 0 /\ h = 0
      BY <1>x, <2>2, <1>4
    <3> QED
      BY <1>x, <1>y, <1>2, <1>4, <3>1, <3>2 DEF Between
  <2>3. CASE y > 0
    <3>1. b.entry = a.entry /\ y < x
      BY <1>1, <1>x, <1>y, <1>2, <1>6, <2>3 DEF Sold, Smaller
    <3>2. l = lo /\ h = hi
      BY <1>x, <2>3, <3>1, <1>4
    <3> QED
      BY <1>1, <1>x, <1>y, <1>2, <1>4, <2>3, <3>1, <3>2 DEF Between
  <2> QED
    BY <1>x, <2>1, <2>2, <2>3
<1> QED
  BY <1>x, <1>5, <1>6

\* The orders that are given change the balance by whole numbers.
LEMMA BalanceType ==
    ASSUME NEW a \in Account, NEW p \in Nat, NEW n \in Nat
    PROVE  /\ BuyLimit(a, p, n).balance \in Int /\ BuyMarket(a, p, n).balance \in Int
           /\ Sell(a, p, n).balance \in Int
<1>1. a.balance \in Int /\ a.position \in Int /\ a.entry \in Nat
  BY DEF Account
<1>2. Smaller(-a.position, n) \in Int /\ Smaller(a.position, n) \in Int
  BY <1>1 DEF Smaller
<1>3. CoverProfit(a, p, n) \in Int /\ SaleCredit(a, p, n) \in Int
  BY <1>1, <1>2 DEF CoverProfit, SaleCredit
<1>4. p * n \in Int
  OBVIOUS
<1>5. /\ a.balance - p * n + CoverProfit(a, p, n) \in Int /\ a.balance - p * n \in Int
      /\ a.balance + SaleCredit(a, p, n) \in Int
  BY <1>1, <1>3, <1>4
<1> QED
  BY <1>5, ToCentsType DEF BuyLimit, BuyMarket, Sell, With

--------------------------------------------------------------------------------
(* The loop of a matching pass.                                                 *)

Result == [remaining : Seq(Orders), account : Account, net : Int, low : Nat, high : Nat]

\* The account follows from the fills.
Follows(a, n, lo, hi) == a.position = n /\ Between(a, lo, hi)

Results == {s \in Result : Follows(s.account, s.net, s.low, s.high)}

\* The fields of an order.
LEMMA OrderFields ==
    ASSUME NEW o \in Orders
    PROVE  /\ o.id \in 1 .. MaxOrders /\ o.price \in Prices /\ o.size \in Sizes
           /\ o.side \in {"buy", "sell"} /\ o.symbol \in Symbols /\ o.crossed \in BOOLEAN
           /\ o.price \in Nat \ {0} /\ o.size \in Nat \ {0}
BY PaperTradingAssumption DEF Orders

\* One round of the loop: only an order that is not triggered remains, and the account still
\* follows from the fills.
LEMMA ExecuteRight ==
    ASSUME NEW s \in Results, NEW o \in Orders, NEW sym, NEW prev, NEW p,
           NEW r, r = Execute(s, o, sym, prev, p)
    PROVE  /\ r \in Results
           /\ r.remaining = IF Hit(o, sym, prev, p) THEN s.remaining ELSE Append(s.remaining, o)
<1> DEFINE a == s.account
           n == o.size
           q == o.price
<1>1. /\ s \in Result /\ a \in Account /\ s.net \in Int /\ s.low \in Nat /\ s.high \in Nat
      /\ s.remaining \in Seq(Orders)
      /\ a.position = s.net /\ Between(a, s.low, s.high)
  BY DEF Results, Result, Follows
<1>2. q \in Nat \ {0} /\ n \in Nat \ {0} /\ o.side \in {"buy", "sell"}
  BY OrderFields
<1>3. CASE ~Hit(o, sym, prev, p)
  <2>1. r = [s EXCEPT !.remaining = Append(s.remaining, o)]
    BY <1>3 DEF Execute
  <2>2. Append(s.remaining, o) \in Seq(Orders)
    BY <1>1
  <2>3. r \in Result /\ r.remaining = Append(s.remaining, o) /\ r.account = a /\ r.net = s.net
        /\ r.low = s.low /\ r.high = s.high
    BY <1>1, <2>1, <2>2 DEF Result
  <2> QED
    BY <1>1, <1>3, <2>3 DEF Results, Follows
<1>4. CASE Hit(o, sym, prev, p) /\ o.side = "buy" /\ a.balance < q * n
  BY <1>4 DEF Execute
<1>5. CASE Hit(o, sym, prev, p) /\ o.side = "buy" /\ ~(a.balance < q * n)
  <2> DEFINE b == Bought(a, q, n)
             c == BuyLimit(a, q, n)
             l == Lowest(s.low, a.position, b.position, q)
             h == Highest(s.high, a.position, b.position, q)
  <2>1. c.balance \in Int /\ c.position = b.position /\ c.entry = b.entry
        /\ c = [balance |-> c.balance, position |-> b.position, entry |-> b.entry]
    BY <1>1, <1>2, BalanceType DEF BuyLimit, With
  <2>2. r = [remaining |-> s.remaining, account |-> c, net |-> s.net + n,
             low |-> Lowest(s.low, a.position, c.position, q),
             high |-> Highest(s.high, a.position, c.position, q)]
    BY <1>5 DEF Execute
  <2>3. b.position = a.position + n /\ b.entry \in Nat /\ l \in Nat /\ h \in Nat
        /\ Between(b, l, h)
    <3>1. /\ b = Bought(a, q, n) /\ l = Lowest(s.low, a.position, b.position, q)
          /\ h = Highest(s.high, a.position, b.position, q)
      OBVIOUS
    <3>2. a \in Account /\ q \in Nat /\ n \in Nat \ {0} /\ s.low \in Nat /\ s.high \in Nat
          /\ Between(a, s.low, s.high)
      BY <1>1, <1>2
    <3> HIDE DEF a, q, n, b, l, h
    <3> QED
      BY <3>1, <3>2, BoughtRight
  <2>4. r = [remaining |-> s.remaining, account |-> c, net |-> s.net + n, low |-> l, high |-> h]
    BY <2>1, <2>2
  <2> HIDE DEF b, c, l, h
  <2>5. Between(c, l, h) /\ c.position = s.net + n
    BY <1>1, <2>1, <2>3 DEF Between
  <2>6. a.position \in Int
    BY <1>1 DEF Account
  <2> HIDE DEF a, n, q
  <2>7. c \in Account
    BY <1>2, <2>1, <2>3, <2>6 DEF Account
  <2>8. s.net + n \in Int
    BY <1>1, <1>2
  <2> QED
    BY <1>1, <1>5, <2>3, <2>4, <2>5, <2>7, <2>8 DEF Results, Result, Follows
<1>6. CASE Hit(o, sym, prev, p) /\ o.side = "sell"
  <2> DEFINE b == Sold(a, q, n)
             c == Sell(a, q, n)
             l == Lowest(s.low, a.position, b.position, q)
             h == Highest(s.high, a.position, b.position, q)
  <2>1. c.balance \in Int /\ c.position = b.position /\ c.entry = b.entry
        /\ c = [balance |-> c.balance, position |-> b.position, entry |-> b.entry]
    BY <1>1, <1>2, BalanceType DEF Sell, With
  <2>2. r = [remaining |-> s.remaining, account |-> c, net |-> s.net + (-n),
             low |-> Lowest(s.low, a.position, c.position, q),
             high |-> Highest(s.high, a.position, c.position, q)]
    BY <1>6 DEF Execute
  <2>3. b.position = a.position - n /\ b.entry \in Nat /\ l \in Nat /\ h \in Nat
        /\ Between(b, l, h)
    <3>1. /\ b = Sold(a, q, n) /\ l = Lowest(s.low, a.position, b.position, q)
          /\ h = Highest(s.high, a.position, b.position, q)
      OBVIOUS
    <3>2. a \in Account /\ q \in Nat /\ n \in Nat \ {0} /\ s.low \in Nat /\ s.high \in Nat
          /\ Between(a, s.low, s.high)
      BY <1>1, <1>2
    <3> HIDE DEF a, q, n, b, l, h
    <3> QED
      BY <3>1, <3>2, SoldRight
  <2>4. r = [remaining |-> s.remaining, account |-> c, net |-> s.net + (-n),
             low |-> l, high |-> h]
    BY <2>1, <2>2
  <2> HIDE DEF b, c, l, h
  <2>5. Between(c, l, h) /\ c.position = s.net - n
    BY <1>1, <2>1, <2>3 DEF Between
  <2>6. a.position \in Int
    BY <1>1 DEF Account
  <2> HIDE DEF a, n, q
  <2>7. c \in Account
    BY <1>2, <2>1, <2>3, <2>6 DEF Account
  <2>8. s.net + (-n) \in Int /\ s.net + (-n) = s.net - n
    BY <1>1, <1>2
  <2> QED
    BY <1>1, <1>6, <2>3, <2>4, <2>5, <2>7, <2>8 DEF Results, Result, Follows
<1> QED
  BY <1>2, <1>3, <1>4, <1>5, <1>6

\* The recursion of the loop over ords.
IsPass(it, ords, base, sym, prev, p) ==
    it = [s \in SUBSET DOMAIN ords |->
            IF s = {} THEN base
            ELSE Execute(it[s \ {Max(s)}], ords[Max(s)], sym, prev, p)]

\* The loop is defined.
LEMMA PassExists ==
    ASSUME NEW ords \in Seq(Orders), NEW base \in Results, NEW sym, NEW prev, NEW p
    PROVE  \E it : IsPass(it, ords, base, sym, prev, p)
<1> DEFINE n == Len(ords)
           f == [z \in Results \X (1 .. n) |-> Execute(z[1], ords[z[2]], sym, prev, p)]
<1>1. n \in Nat /\ DOMAIN ords = 1 .. n /\ \A i \in 1 .. n : ords[i] \in Orders
  OBVIOUS
<1>2. ASSUME NEW z \in Results \X (1 .. n)
      PROVE  Execute(z[1], ords[z[2]], sym, prev, p) \in Results
  <2>1. z[1] \in Results /\ ords[z[2]] \in Orders
    BY <1>1
  <2> QED
    BY <2>1, ExecuteRight
<1>3. f \in [Results \X (1 .. n) -> Results]
  BY <1>2
<1>4. \A s \in Results, i \in 1 .. n : f[<<s, i>>] = Execute(s, ords[i], sym, prev, p)
  OBVIOUS
<1> HIDE DEF f, n
<1>5. PICK g \in [SUBSET (1 .. n) -> Results] : IsFold(g, n, base, f)
  BY <1>1, <1>3, FoldExists
<1>6. ASSUME NEW s \in SUBSET (1 .. n)
      PROVE  g[s] = IF s = {} THEN base
                    ELSE Execute(g[s \ {Max(s)}], ords[Max(s)], sym, prev, p)
  <2>1. CASE s = {}
    BY <1>5, <2>1 DEF IsFold
  <2>2. CASE s # {}
    <3>1. s \in SUBSET Nat /\ IsFiniteSet(s)
      <4>1. IsFiniteSet(1 .. n)
        BY <1>1, FS_Interval
      <4>2. IsFiniteSet(s)
        BY <4>1, FS_Subset
      <4>3. 1 .. n \subseteq Nat
        BY <1>1
      <4> QED
        BY <4>2, <4>3
    <3>2. Max(s) \in 1 .. n
      BY <2>2, <3>1, MaxIn
    <3>3. g[s \ {Max(s)}] \in Results
      BY <1>5
    <3>4. g[s] = f[<<g[s \ {Max(s)}], Max(s)>>]
      BY <1>5, <2>2 DEF IsFold
    <3> QED
      BY <1>4, <2>2, <3>2, <3>3, <3>4
  <2> QED
    BY <2>1, <2>2
<1>7. g = [s \in SUBSET (1 .. n) |-> g[s]]
  BY <1>5
<1>8. g = [s \in SUBSET (1 .. n) |->
             IF s = {} THEN base ELSE Execute(g[s \ {Max(s)}], ords[Max(s)], sym, prev, p)]
  BY <1>6, <1>7
<1> QED
  BY <1>1, <1>8 DEF IsPass

\* Highest price first.
Sorted(s) == \A i, j \in 1 .. Len(s) : i < j => s[i].price >= s[j].price

\* Every order of rem is one of the first i of ords that was not triggered.
KeptOf(rem, ords, i, sym, prev, p) ==
    \A k \in 1 .. Len(rem) : \E j \in 1 .. i : rem[k] = ords[j] /\ ~Hit(ords[j], sym, prev, p)

\* A matching pass: the account follows from the fills, the orders that remain are among
\* those that were not triggered, still with the highest price first.
LEMMA PassRight ==
    ASSUME orders \in Seq(Orders), Sorted(orders),
           account \in Account, net \in Int, low \in Nat, high \in Nat,
           Follows(account, net, low, high),
           NEW sym, NEW prev, NEW p,
           NEW e, e = Pass(sym, prev, p)
    PROVE  /\ e \in Results
           /\ KeptOf(e.remaining, orders, Len(orders), sym, prev, p)
           /\ Sorted(e.remaining)
<1> DEFINE n == Len(orders)
           base == [remaining |-> <<>>, account |-> account, net |-> net,
                    low |-> low, high |-> high]
           it == CHOOSE g : IsPass(g, orders, base, sym, prev, p)
           at(i) == it[1 .. i]
<1>1. base \in Results /\ base.remaining = <<>>
  BY DEF Results, Result
<1>2. e = it[DOMAIN orders]
  BY DEF Pass, FoldLeft, MapThenFoldSet, IsPass
<1>3. n \in Nat /\ DOMAIN orders = 1 .. n /\ \A i \in 1 .. n : orders[i] \in Orders
  OBVIOUS
<1> HIDE DEF base
<1>4. IsPass(it, orders, base, sym, prev, p)
  BY <1>1, PassExists
<1> HIDE DEF it
<1>5. at(0) = base
  <2>1. 1 .. 0 = {} /\ {} \in SUBSET DOMAIN orders
    OBVIOUS
  <2> QED
    BY <1>4, <2>1 DEF IsPass
<1>6. ASSUME NEW i \in 1 .. n PROVE at(i) = Execute(at(i - 1), orders[i], sym, prev, p)
  <2> DEFINE s == 1 .. i
  <2>1. s \in SUBSET DOMAIN orders /\ s # {} /\ s \in SUBSET Nat /\ i \in s
    <3>1. i \in Nat /\ i >= 1 /\ i <= n
      BY <1>3
    <3>2. \A k \in 1 .. i : k \in 1 .. n /\ k \in Nat
      BY <1>3, <3>1
    <3>3. i \in s
      BY <3>1
    <3> QED
      BY <1>3, <3>2, <3>3
  <2>2. IsFiniteSet(s)
    BY <1>3, FS_Interval
  <2>3. s \ {i} = 1 .. i - 1
    BY <1>3
  <2>4. Max(s) = i
    <3>1. Max(s) \in s /\ Max(s) >= i
      <4> HIDE DEF s
      <4> QED
        BY <2>1, <2>2, MaxIn
    <3> QED
      BY <3>1
  <2>5. it[s] = Execute(it[s \ {Max(s)}], orders[Max(s)], sym, prev, p)
    <3> HIDE DEF s
    <3> QED
      BY <1>4, <2>1 DEF IsPass
  <2> QED
    BY <2>3, <2>4, <2>5
<1> HIDE DEF n, at
<1> DEFINE Ok(i) == /\ at(i) \in Results
                    /\ KeptOf(at(i).remaining, orders, i, sym, prev, p)
                    /\ Sorted(at(i).remaining)
           T == {i \in Nat : i <= n => Ok(i)}
<1>7. Ok(0)
  BY <1>1, <1>5 DEF KeptOf, Sorted
<1>8. ASSUME NEW i \in Nat, i + 1 <= n, Ok(i) PROVE Ok(i + 1)
  <2> DEFINE o == orders[i + 1]
             r == at(i).remaining
  <2>1. i + 1 \in 1 .. n /\ o \in Orders /\ (i + 1) - 1 = i
    BY <1>3, <1>8
  <2>2. at(i + 1) = Execute(at(i), o, sym, prev, p)
    BY <1>6, <2>1
  <2>3. at(i) \in Results /\ r \in Seq(Orders)
    BY <1>8 DEF Results, Result
  <2>4. /\ at(i + 1) \in Results
        /\ at(i + 1).remaining = IF Hit(o, sym, prev, p) THEN r ELSE Append(r, o)
    <3> HIDE DEF o
    <3> QED
      BY <2>1, <2>2, <2>3, ExecuteRight
  <2>5. KeptOf(r, orders, i, sym, prev, p) /\ Sorted(r)
    BY <1>8
  <2>6. CASE Hit(o, sym, prev, p)
    <3>1. KeptOf(r, orders, i + 1, sym, prev, p)
      <4>1. \A j \in 1 .. i : j \in 1 .. i + 1
        OBVIOUS
      <4> HIDE DEF r, o
      <4> QED
        BY <2>5, <4>1 DEF KeptOf
    <3> QED
      BY <2>4, <2>5, <2>6, <3>1
  <2>7. CASE ~Hit(o, sym, prev, p)
    <3> DEFINE w == Append(r, o)
    <3>1. /\ Len(r) \in Nat /\ Len(w) = Len(r) + 1 /\ w[Len(r) + 1] = o
          /\ \A k \in 1 .. Len(r) : w[k] = r[k]
      <4> HIDE DEF r, o
      <4> QED
        BY <2>1, <2>3
    <3> HIDE DEF w, r
    <3>2. ASSUME NEW k \in 1 .. Len(w)
          PROVE  \E j \in 1 .. i + 1 : w[k] = orders[j] /\ ~Hit(orders[j], sym, prev, p)
      <4>1. CASE k = Len(r) + 1
        <5>1. i + 1 \in 1 .. i + 1
          OBVIOUS
        <5> QED
          BY <2>7, <3>1, <4>1, <5>1
      <4>2. CASE k # Len(r) + 1
        <5>1. k \in 1 .. Len(r)
          BY <3>1, <4>2
        <5>2. PICK j \in 1 .. i : r[k] = orders[j] /\ ~Hit(orders[j], sym, prev, p)
          BY <2>5, <5>1 DEF KeptOf
        <5> QED
          BY <3>1, <5>1, <5>2
      <4> QED
        BY <4>1, <4>2
    <3>3. ASSUME NEW k \in 1 .. Len(r) PROVE r[k].price >= o.price
      <4>1. PICK j \in 1 .. i : r[k] = orders[j]
        BY <2>5 DEF KeptOf
      <4>2. j \in 1 .. n /\ j < i + 1
        BY <1>3, <2>1
      <4> QED
        BY <2>1, <4>1, <4>2 DEF Sorted, n
    <3>4. ASSUME NEW k \in 1 .. Len(w), NEW m \in 1 .. Len(w), k < m
          PROVE  w[k].price >= w[m].price
      <4>1. k \in 1 .. Len(r)
        BY <3>1, <3>4
      <4>2. CASE m = Len(r) + 1
        BY <3>1, <3>3, <4>1, <4>2
      <4>3. CASE m # Len(r) + 1
        <5>1. m \in 1 .. Len(r)
          BY <3>1, <4>3
        <5>2. r[k].price >= r[m].price
          BY <2>5, <3>4, <4>1, <5>1 DEF Sorted
        <5> QED
          BY <3>1, <4>1, <5>1, <5>2
      <4> QED
        BY <4>2, <4>3
    <3>5. KeptOf(w, orders, i + 1, sym, prev, p) /\ Sorted(w)
      BY <3>2, <3>4 DEF KeptOf, Sorted
    <3> QED
      BY <2>4, <2>7, <3>5 DEF w, r
  <2> QED
    BY <2>6, <2>7
<1>9. Nat \subseteq T
  <2> HIDE DEF Ok
  <2>1. 0 \in T
    BY <1>7
  <2>2. ASSUME NEW i \in Nat, i \in T PROVE i + 1 \in T
    <3> SUFFICES ASSUME i + 1 <= n PROVE Ok(i + 1)
      OBVIOUS
    <3>1. Ok(i)
      BY <1>3, <2>2
    <3> QED
      BY <1>8, <3>1
  <2> HIDE DEF T
  <2> QED
    BY <2>1, <2>2, NaturalsIn
<1>10. Ok(n)
  <2> HIDE DEF Ok
  <2> QED
    BY <1>3, <1>9
<1> QED
  BY <1>2, <1>3, <1>10 DEF at, n

--------------------------------------------------------------------------------
(* The list of orders.                                                          *)

\* One list behind another.
LEMMA Joined ==
    ASSUME NEW S, NEW u \in Seq(S), NEW v \in Seq(S)
    PROVE  /\ u \o v \in Seq(S) /\ Len(u \o v) = Len(u) + Len(v)
           /\ \A k \in 1 .. Len(u) : (u \o v)[k] = u[k]
           /\ \A k \in Len(u) + 1 .. Len(u) + Len(v) : (u \o v)[k] = v[k - Len(u)]
<1>1. u \o v \in Seq(S) /\ Len(u \o v) = Len(u) + Len(v)
  OBVIOUS
<1>2. \A k \in 1 .. Len(u) : (u \o v)[k] = u[k]
  OBVIOUS
<1>3. \A k \in Len(u) + 1 .. Len(u) + Len(v) : (u \o v)[k] = v[k - Len(u)]
  OBVIOUS
<1> QED
  BY <1>1, <1>2, <1>3

\* The end of a list, and its beginning.
LEMMA Parts ==
    ASSUME NEW S, NEW s \in Seq(S), NEW m \in 0 .. Len(s)
    PROVE  /\ SubSeq(s, 1, m) \in Seq(S) /\ Len(SubSeq(s, 1, m)) = m
           /\ \A k \in 1 .. m : SubSeq(s, 1, m)[k] = s[k]
           /\ SubSeq(s, m + 1, Len(s)) \in Seq(S) /\ Len(SubSeq(s, m + 1, Len(s))) = Len(s) - m
           /\ \A k \in 1 .. Len(s) - m : SubSeq(s, m + 1, Len(s))[k] = s[k + m]
<1>1. SubSeq(s, 1, m) \in Seq(S) /\ Len(SubSeq(s, 1, m)) = m
  OBVIOUS
<1>2. \A k \in 1 .. m : SubSeq(s, 1, m)[k] = s[k]
  OBVIOUS
<1>3. SubSeq(s, m + 1, Len(s)) \in Seq(S)
  OBVIOUS
<1>4. Len(SubSeq(s, m + 1, Len(s))) = Len(s) - m
  OBVIOUS
<1>5. ASSUME NEW k \in 1 .. Len(s) - m PROVE SubSeq(s, m + 1, Len(s))[k] = s[k + m]
  BY <1>4
<1> QED
  BY <1>1, <1>2, <1>3, <1>4, <1>5

\* One element is put at place j.
LEMMA InsertAtRight ==
    ASSUME NEW S, NEW s \in Seq(S), NEW j \in 1 .. Len(s) + 1, NEW o \in S
    PROVE  /\ InsertAt(s, j, o) \in Seq(S) /\ Len(InsertAt(s, j, o)) = Len(s) + 1
           /\ InsertAt(s, j, o)[j] = o
           /\ \A k \in 1 .. j - 1 : InsertAt(s, j, o)[k] = s[k]
           /\ \A k \in j + 1 .. Len(s) + 1 : InsertAt(s, j, o)[k] = s[k - 1]
<1> DEFINE n == Len(s)
           m == j - 1
           w == InsertAt(s, j, o)
           u == SubSeq(s, 1, m)
           v == SubSeq(s, m + 1, n)
           x == u \o <<o>>
<1>1. n \in Nat /\ m \in Nat /\ m <= n /\ m \in 0 .. n /\ j = m + 1
  OBVIOUS
<1>2. u \in Seq(S) /\ Len(u) = m /\ \A k \in 1 .. m : u[k] = s[k]
  BY <1>1, Parts
<1>3. v \in Seq(S) /\ Len(v) = n - m /\ \A k \in 1 .. n - m : v[k] = s[k + m]
  BY <1>1, Parts
<1>4. w = x \o v
  <2>1. SubSeq(s, j, n) = v
    BY <1>1
  <2> QED
    BY <2>1 DEF InsertAt
<1>5. <<o>> \in Seq(S) /\ Len(<<o>>) = 1 /\ <<o>>[1] = o
  OBVIOUS
<1>6. x = u \o <<o>>
  OBVIOUS
<1> HIDE DEF m, n, u, v, x, w
<1>7. x \in Seq(S) /\ Len(x) = m + 1 /\ x[m + 1] = o /\ \A k \in 1 .. m : x[k] = s[k]
  <2>1. /\ x \in Seq(S) /\ Len(x) = Len(u) + Len(<<o>>)
        /\ \A k \in 1 .. Len(u) : x[k] = u[k]
        /\ \A k \in Len(u) + 1 .. Len(u) + Len(<<o>>) : x[k] = <<o>>[k - Len(u)]
    BY <1>2, <1>5, <1>6, Joined
  <2>2. x[m + 1] = <<o>>[1]
    <3>1. m + 1 \in Len(u) + 1 .. Len(u) + Len(<<o>>) /\ (m + 1) - Len(u) = 1
      BY <1>1, <1>2, <1>5
    <3>2. x[m + 1] = <<o>>[(m + 1) - Len(u)]
      BY <2>1, <3>1
    <3> QED
      BY <3>1, <3>2
  <2> QED
    BY <1>1, <1>2, <1>5, <2>1, <2>2
<1>8. /\ w \in Seq(S) /\ Len(w) = Len(x) + Len(v)
      /\ \A k \in 1 .. Len(x) : w[k] = x[k]
      /\ \A k \in Len(x) + 1 .. Len(x) + Len(v) : w[k] = v[k - Len(x)]
  BY <1>3, <1>4, <1>7, Joined
<1>9. Len(w) = n + 1 /\ w[m + 1] = o /\ \A k \in 1 .. m : w[k] = s[k]
  BY <1>1, <1>3, <1>7, <1>8
<1>10. ASSUME NEW k \in m + 2 .. n + 1 PROVE w[k] = s[k - 1]
  <2>1. k \in Len(x) + 1 .. Len(x) + Len(v) /\ k - Len(x) = k - (m + 1)
    BY <1>1, <1>3, <1>7
  <2>2. w[k] = v[k - (m + 1)]
    BY <1>8, <2>1
  <2>3. k - (m + 1) \in 1 .. n - m /\ (k - (m + 1)) + m = k - 1
    BY <1>1
  <2>4. v[k - (m + 1)] = s[(k - (m + 1)) + m]
    BY <1>3, <2>3
  <2> QED
    BY <2>2, <2>3, <2>4
<1> QED
  <2>1. j + 1 = m + 2 /\ j - 1 = m
    BY <1>1
  <2> QED
    BY <1>1, <1>8, <1>9, <1>10, <2>1 DEF n, w

\* The element at place i is taken out.
LEMMA RemoveAtRight ==
    ASSUME NEW S, NEW s \in Seq(S), NEW i \in 1 .. Len(s)
    PROVE  /\ RemoveAt(s, i) \in Seq(S) /\ Len(RemoveAt(s, i)) = Len(s) - 1
           /\ \A k \in 1 .. i - 1 : RemoveAt(s, i)[k] = s[k]
           /\ \A k \in i .. Len(s) - 1 : RemoveAt(s, i)[k] = s[k + 1]
<1> DEFINE n == Len(s)
           w == RemoveAt(s, i)
           u == SubSeq(s, 1, i - 1)
           v == SubSeq(s, i + 1, n)
<1>1. n \in Nat /\ i \in Nat /\ 1 <= i /\ i <= n /\ i - 1 \in 0 .. n /\ i \in 0 .. n
  OBVIOUS
<1>2. u \in Seq(S) /\ Len(u) = i - 1 /\ \A k \in 1 .. i - 1 : u[k] = s[k]
  BY <1>1, Parts
<1>3. v \in Seq(S) /\ Len(v) = n - i /\ \A k \in 1 .. n - i : v[k] = s[k + i]
  BY <1>1, Parts
<1>4. w = u \o v
  BY DEF RemoveAt
<1> HIDE DEF n, u, v, w
<1>5. /\ w \in Seq(S) /\ Len(w) = Len(u) + Len(v)
      /\ \A k \in 1 .. Len(u) : w[k] = u[k]
      /\ \A k \in Len(u) + 1 .. Len(u) + Len(v) : w[k] = v[k - Len(u)]
  BY <1>2, <1>3, <1>4, Joined
<1>6. Len(w) = n - 1 /\ \A k \in 1 .. i - 1 : w[k] = s[k]
  BY <1>1, <1>2, <1>3, <1>5
<1>7. ASSUME NEW k \in i .. n - 1 PROVE w[k] = s[k + 1]
  <2>1. k \in Len(u) + 1 .. Len(u) + Len(v) /\ k - Len(u) = k - (i - 1)
    BY <1>1, <1>2, <1>3
  <2>2. w[k] = v[k - (i - 1)]
    BY <1>5, <2>1
  <2>3. k - (i - 1) \in 1 .. n - i /\ (k - (i - 1)) + i = k + 1
    BY <1>1
  <2>4. v[k - (i - 1)] = s[(k - (i - 1)) + i]
    BY <1>3, <2>3
  <2> QED
    BY <2>2, <2>3, <2>4
<1> QED
  BY <1>5, <1>6, <1>7 DEF n, w

\* The orders of w are orders of the list s, in a list sorted as s is.
Within(w, s) ==
    /\ w \in Seq(Orders) /\ Sorted(w)
    /\ \A k \in 1 .. Len(w) : \E j \in 1 .. Len(s) : w[k] = s[j]

\* A new order goes to its place.
LEMMA InsertedRight ==
    ASSUME orders \in Seq(Orders), Sorted(orders), NEW o \in Orders
    PROVE  /\ Inserted(o) \in Seq(Orders) /\ Sorted(Inserted(o))
           /\ \A q \in ToSet(Inserted(o)) : q = o \/ q \in ToSet(orders)
<1> DEFINE n == Len(orders)
           w == Inserted(o)
           B == {0} \union {i \in DOMAIN orders : orders[i].price >= o.price}
           m == Max(B)
<1>1. n \in Nat /\ DOMAIN orders = 1 .. n
  OBVIOUS
<1>2. m \in B /\ \A i \in B : m >= i
  <2>1. B \in SUBSET (0 .. n) /\ B # {}
    BY <1>1
  <2>2. IsFiniteSet(0 .. n)
    BY <1>1, FS_Interval
  <2>3. IsFiniteSet(B)
    BY <2>1, <2>2, FS_Subset
  <2>4. B \in SUBSET Nat
    BY <1>1, <2>1
  <2> HIDE DEF B
  <2> QED
    BY <2>1, <2>3, <2>4, MaxIn
<1>3. w = InsertAt(orders, m + 1, o)
  <2>1. 1 + m = m + 1
    BY <1>1, <1>2
  <2> QED
    BY <2>1 DEF Inserted
<1> HIDE DEF m
<1>4. m \in 0 .. n /\ (m # 0 => orders[m].price >= o.price)
  BY <1>1, <1>2
<1>5. \A i \in 1 .. n : m < i => ~(orders[i].price >= o.price)
  BY <1>1, <1>2, <1>4
<1>6. /\ w \in Seq(Orders) /\ Len(w) = n + 1 /\ w[m + 1] = o
      /\ \A k \in 1 .. m : w[k] = orders[k]
      /\ \A k \in m + 2 .. n + 1 : w[k] = orders[k - 1]
  <2> HIDE DEF B
  <2> DEFINE j == m + 1
  <2>1. j \in 1 .. Len(orders) + 1 /\ j - 1 = m /\ j + 1 = m + 2
    BY <1>4
  <2>2. w = InsertAt(orders, j, o)
    BY <1>3
  <2> HIDE DEF j
  <2>3. /\ InsertAt(orders, j, o) \in Seq(Orders)
        /\ Len(InsertAt(orders, j, o)) = Len(orders) + 1
        /\ InsertAt(orders, j, o)[j] = o
        /\ \A k \in 1 .. j - 1 : InsertAt(orders, j, o)[k] = orders[k]
        /\ \A k \in j + 1 .. Len(orders) + 1 : InsertAt(orders, j, o)[k] = orders[k - 1]
    BY <2>1, InsertAtRight
  <2>4. /\ w \in Seq(Orders) /\ Len(w) = Len(orders) + 1 /\ w[j] = o
        /\ \A k \in 1 .. j - 1 : w[k] = orders[k]
        /\ \A k \in j + 1 .. Len(orders) + 1 : w[k] = orders[k - 1]
    BY <2>2, <2>3
  <2> QED
    BY <2>1, <2>4 DEF j
<1> HIDE DEF n, B, w
<1>7. \A i \in 1 .. n : orders[i].price \in Nat
  BY <1>1, OrderFields
<1>8. o.price \in Nat
  BY OrderFields
<1>9. \A i, j \in 1 .. n : i < j => orders[i].price >= orders[j].price
  BY DEF Sorted, n
<1>10. \A i \in 1 .. m : orders[i].price >= o.price
  <2> SUFFICES ASSUME NEW i \in 1 .. m PROVE orders[i].price >= o.price
    OBVIOUS
  <2>1. m # 0 /\ m \in 1 .. n /\ i \in 1 .. n /\ (i = m \/ i < m)
    BY <1>1, <1>4
  <2>2. orders[i].price >= orders[m].price
    BY <1>7, <1>9, <2>1
  <2> QED
    BY <1>4, <1>7, <1>8, <2>1, <2>2
<1>11. ASSUME NEW k \in 1 .. n + 1, NEW l \in 1 .. n + 1, k < l
       PROVE  w[k].price >= w[l].price
  <2>1. CASE k <= m /\ l <= m
    <3>1. k \in 1 .. m /\ l \in 1 .. m /\ k \in 1 .. n /\ l \in 1 .. n
      BY <1>1, <1>4, <2>1
    <3> QED
      BY <1>6, <1>9, <1>11, <3>1
  <2>2. CASE k <= m /\ l = m + 1
    <3>1. k \in 1 .. m
      BY <1>1, <1>4, <2>2
    <3> QED
      BY <1>6, <1>10, <2>2, <3>1
  <2>3. CASE k <= m /\ l > m + 1
    <3>1. k \in 1 .. m /\ l \in m + 2 .. n + 1 /\ k \in 1 .. n /\ l - 1 \in 1 .. n /\ k < l - 1
      BY <1>1, <1>4, <2>3
    <3> QED
      BY <1>6, <1>9, <3>1
  <2>4. CASE k = m + 1 /\ l > m + 1
    <3>1. l \in m + 2 .. n + 1 /\ l - 1 \in 1 .. n /\ m < l - 1
      BY <1>1, <1>4, <2>4
    <3>2. ~(orders[l - 1].price >= o.price)
      BY <1>5, <3>1
    <3>3. o.price >= orders[l - 1].price
      BY <1>7, <1>8, <3>1, <3>2
    <3> QED
      BY <1>6, <2>4, <3>1, <3>3
  <2>5. CASE k > m + 1
    <3>1. /\ k \in m + 2 .. n + 1 /\ l \in m + 2 .. n + 1
          /\ k - 1 \in 1 .. n /\ l - 1 \in 1 .. n /\ k - 1 < l - 1
      BY <1>1, <1>4, <1>11, <2>5
    <3> QED
      BY <1>6, <1>9, <3>1
  <2> QED
    BY <1>1, <1>4, <1>11, <2>1, <2>2, <2>3, <2>4, <2>5
<1>12. ASSUME NEW k \in 1 .. n + 1 PROVE w[k] = o \/ \E j \in 1 .. n : w[k] = orders[j]
  <2>1. CASE k <= m
    <3>1. k \in 1 .. m /\ k \in 1 .. n
      BY <1>1, <1>4, <2>1
    <3> QED
      BY <1>6, <3>1
  <2>2. CASE k = m + 1
    BY <1>6, <2>2
  <2>3. CASE k > m + 1
    <3>1. k \in m + 2 .. n + 1 /\ k - 1 \in 1 .. n
      BY <1>1, <1>4, <2>3
    <3> QED
      BY <1>6, <3>1
  <2> QED
    BY <1>1, <1>4, <2>1, <2>2, <2>3
<1>13. \A q \in ToSet(w) : q = o \/ q \in ToSet(orders)
  BY <1>6, <1>12 DEF ToSet, n
<1>14. Sorted(w)
  BY <1>6, <1>11 DEF Sorted
<1> QED
  BY <1>6, <1>13, <1>14 DEF w

\* A cancelled order leaves the others as they were.
LEMMA CancelledRight ==
    ASSUME orders \in Seq(Orders), Sorted(orders), NEW i \in 1 .. Len(orders)
    PROVE  Within(RemoveAt(orders, i), orders)
<1> DEFINE n == Len(orders)
           w == RemoveAt(orders, i)
           from(k) == IF k < i THEN k ELSE k + 1
<1>1. n \in Nat /\ i \in 1 .. n
  OBVIOUS
<1>2. /\ w \in Seq(Orders) /\ Len(w) = n - 1
      /\ \A k \in 1 .. i - 1 : w[k] = orders[k]
      /\ \A k \in i .. n - 1 : w[k] = orders[k + 1]
  BY RemoveAtRight
<1> HIDE DEF w, n
<1>3. \A k \in 1 .. n - 1 : from(k) \in 1 .. n /\ w[k] = orders[from(k)]
  BY <1>1, <1>2
<1>4. \A k, l \in 1 .. n - 1 : k < l => from(k) < from(l)
  BY <1>1
<1>5. Sorted(w)
  <2> HIDE DEF from
  <2> QED
    BY <1>2, <1>3, <1>4 DEF Sorted, n
<1>6. \A k \in 1 .. Len(w) : \E j \in 1 .. n : w[k] = orders[j]
  <2> HIDE DEF from
  <2> QED
    BY <1>2, <1>3
<1> QED
  BY <1>2, <1>5, <1>6 DEF Within, w, n

--------------------------------------------------------------------------------
(* Types, and the account.                                                      *)

MoneyInv == Follows(account, net, low, high)

\* What is known of the variables, part by part.
LEMMA TypeParts ==
    ASSUME TypeOK
    PROVE  /\ symbol \in Symbols /\ price \in Nat /\ prevPrice \in Nat /\ account \in Account
           /\ orders \in Seq(Orders) /\ Sorted(orders) /\ given \in Nat /\ given <= MaxOrders
           /\ net \in Int /\ low \in Nat /\ high \in Nat
           /\ matched \subseteq 1 .. MaxOrders /\ foreign \in BOOLEAN /\ early \in BOOLEAN
           /\ MaxOrders \in Nat
BY PaperTradingAssumption DEF TypeOK, Account, Sorted

\* A matching pass at a new price.
LEMMA MatchRight ==
    ASSUME TypeOK, MoneyInv, NEW sym, NEW p, NEW strange, p # prevPrice,
           Match(sym, prevPrice, p, strange)
    PROVE  /\ account' \in Account /\ net' \in Int /\ low' \in Nat /\ high' \in Nat /\ MoneyInv'
           /\ orders' \in Seq(Orders) /\ Sorted(orders)'
           /\ KeptOf(orders', orders, Len(orders), sym, prevPrice, p)
           /\ matched' = {o.id : o \in {q \in ToSet(orders') : q.symbol = sym}}
           /\ early' = \/ early
                       \/ ~strange /\ \E o \in ToSet(orders) :
                                         Hit(o, sym, prevPrice, p) /\ Unreached(o, p)
<1> DEFINE e == Pass(sym, prevPrice, p)
<1>1. /\ account' = e.account /\ net' = e.net /\ low' = e.low /\ high' = e.high
      /\ orders' = e.remaining
      /\ matched' = {o.id : o \in {q \in ToSet(e.remaining) : q.symbol = sym}}
  BY DEF Match
<1>2. early' = \/ early
               \/ ~strange /\ \E o \in ToSet(orders) :
                                 Hit(o, sym, prevPrice, p) /\ Unreached(o, p)
  BY DEF Match
<1>3. /\ e \in Results /\ KeptOf(e.remaining, orders, Len(orders), sym, prevPrice, p)
      /\ Sorted(e.remaining)
  BY TypeParts, PassRight DEF MoneyInv
<1> HIDE DEF e
<1>4. e.account \in Account /\ e.net \in Int /\ e.low \in Nat /\ e.high \in Nat
      /\ e.remaining \in Seq(Orders) /\ Follows(e.account, e.net, e.low, e.high)
  BY <1>3 DEF Results, Result
<1> QED
  BY <1>1, <1>2, <1>3, <1>4 DEF MoneyInv, Sorted

\* The orders of a list that holds no others than ords.
LEMMA SameOrders ==
    ASSUME NEW ords \in Seq(Orders), NEW w \in Seq(Orders),
           \A k \in 1 .. Len(w) : \E j \in 1 .. Len(ords) : w[k] = ords[j]
    PROVE  \A o \in ToSet(w) : o \in ToSet(ords)
BY DEF ToSet

\* An element of a list of orders is an order.
LEMMA OrdersOfList == ASSUME NEW ords \in Seq(Orders) PROVE \A o \in ToSet(ords) : o \in Orders
BY DEF ToSet

\* The orders that a matching pass leaves.
LEMMA LeftByMatch ==
    ASSUME NEW ords \in Seq(Orders), NEW w \in Seq(Orders), NEW sym, NEW prev, NEW p,
           KeptOf(w, ords, Len(ords), sym, prev, p)
    PROVE  \A o \in ToSet(w) : o \in ToSet(ords) /\ ~Hit(o, sym, prev, p)
<1> SUFFICES ASSUME NEW o \in ToSet(w) PROVE o \in ToSet(ords) /\ ~Hit(o, sym, prev, p)
  OBVIOUS
<1>1. PICK k \in 1 .. Len(w) : o = w[k]
  BY DEF ToSet
<1>2. PICK j \in 1 .. Len(ords) : w[k] = ords[j] /\ ~Hit(ords[j], sym, prev, p)
  BY DEF KeptOf
<1>3. ords[j] \in ToSet(ords)
  BY DEF ToSet
<1> QED
  BY <1>1, <1>2, <1>3

\* The ids of the orders of a list.
LEMMA IdsOfList ==
    ASSUME NEW ords \in Seq(Orders), NEW sym
    PROVE  {o.id : o \in {q \in ToSet(ords) : q.symbol = sym}} \subseteq 1 .. MaxOrders
BY OrdersOfList, OrderFields

\* A fill at the market price.
LEMMA FilledRight ==
    ASSUME TypeOK, MoneyInv, given < MaxOrders, NEW n \in Sizes,
           \/ Filled(BuyMarket(account, price, n), price, n)
           \/ Filled(Sell(account, price, n), price, -n)
    PROVE  TypeOK' /\ MoneyInv'
<1>1. /\ price \in Nat /\ n \in Nat \ {0} /\ account \in Account /\ low \in Nat /\ high \in Nat
      /\ net \in Int /\ account.position = net /\ Between(account, low, high)
  BY TypeParts, PaperTradingAssumption DEF MoneyInv, Follows
<1>2. account.position \in Int
  BY <1>1 DEF Account
<1>3. ASSUME Filled(BuyMarket(account, price, n), price, n)
      PROVE  /\ account' \in Account /\ account'.position = net' /\ net' \in Int
             /\ low' \in Nat /\ high' \in Nat /\ Between(account', low', high')
  <2> DEFINE b == Bought(account, price, n)
             c == BuyMarket(account, price, n)
  <2>1. c.balance \in Int /\ c.position = b.position /\ c.entry = b.entry
        /\ c = [balance |-> c.balance, position |-> b.position, entry |-> b.entry]
    BY <1>1, BalanceType DEF BuyMarket, With
  <2>2. /\ account' = c /\ net' = net + n
        /\ low' = Lowest(low, account.position, b.position, price)
        /\ high' = Highest(high, account.position, b.position, price)
    BY <1>3, <2>1 DEF Filled
  <2>3. /\ b.position = account.position + n /\ b.entry \in Nat
        /\ low' \in Nat /\ high' \in Nat /\ Between(b, low', high')
    <3> DEFINE l == Lowest(low, account.position, b.position, price)
               h == Highest(high, account.position, b.position, price)
    <3>1. /\ b.position = account.position + n /\ b.entry \in Nat
          /\ l \in Nat /\ h \in Nat /\ Between(b, l, h)
      BY <1>1, BoughtRight
    <3> HIDE DEF b, c
    <3> QED
      BY <2>2, <3>1
  <2> HIDE DEF b, c
  <2>4. Between(account', low', high')
    BY <2>1, <2>2, <2>3 DEF Between
  <2>5. c \in Account
    BY <1>1, <1>2, <2>1, <2>3 DEF Account
  <2> QED
    BY <1>1, <1>2, <2>1, <2>2, <2>3, <2>4, <2>5
<1>4. ASSUME Filled(Sell(account, price, n), price, -n)
      PROVE  /\ account' \in Account /\ account'.position = net' /\ net' \in Int
             /\ low' \in Nat /\ high' \in Nat /\ Between(account', low', high')
  <2> DEFINE b == Sold(account, price, n)
             c == Sell(account, price, n)
  <2>1. c.balance \in Int /\ c.position = b.position /\ c.entry = b.entry
        /\ c = [balance |-> c.balance, position |-> b.position, entry |-> b.entry]
    BY <1>1, BalanceType DEF Sell, With
  <2>2. /\ account' = c /\ net' = net + (-n)
        /\ low' = Lowest(low, account.position, b.position, price)
        /\ high' = Highest(high, account.position, b.position, price)
    BY <1>4, <2>1 DEF Filled
  <2>3. /\ b.position = account.position - n /\ b.entry \in Nat
        /\ low' \in Nat /\ high' \in Nat /\ Between(b, low', high')
    <3> DEFINE l == Lowest(low, account.position, b.position, price)
               h == Highest(high, account.position, b.position, price)
    <3>1. /\ b.position = account.position - n /\ b.entry \in Nat
          /\ l \in Nat /\ h \in Nat /\ Between(b, l, h)
      BY <1>1, SoldRight
    <3> HIDE DEF b, c
    <3> QED
      BY <2>2, <3>1
  <2> HIDE DEF b, c
  <2>4. Between(account', low', high')
    BY <2>1, <2>2, <2>3 DEF Between
  <2>5. c \in Account
    BY <1>1, <1>2, <2>1, <2>3 DEF Account
  <2> QED
    BY <1>1, <1>2, <2>1, <2>2, <2>3, <2>4, <2>5
<1>5. /\ account' \in Account /\ account'.position = net' /\ net' \in Int
      /\ low' \in Nat /\ high' \in Nat /\ Between(account', low', high')
  BY <1>3, <1>4
<1>6. given' \in 0 .. MaxOrders
      /\ UNCHANGED <<symbol, price, prevPrice, orders, matched, foreign, early>>
  BY TypeParts DEF Filled
<1> QED
  BY <1>5, <1>6 DEF TypeOK, Account, MoneyInv, Follows

\* The initial state.
LEMMA TypesInit == Init => TypeOK /\ MoneyInv
<1> SUFFICES ASSUME Init PROVE TypeOK /\ MoneyInv
  OBVIOUS
<1>1. <<>> \in Seq(Orders) /\ Len(<<>>) = 0
  OBVIOUS
<1>2. account \in Account /\ account.position = 0 /\ account.entry = 0
  BY PaperTradingAssumption DEF Init, Account
<1>3. MoneyInv
  BY <1>2 DEF Init, MoneyInv, Follows, Between
<1>4. \A i, j \in 1 .. Len(orders) : i < j => orders[i].price >= orders[j].price
  BY <1>1 DEF Init
<1>5. orders \in Seq(Orders) /\ given \in 0 .. MaxOrders
  BY <1>1, PaperTradingAssumption DEF Init
<1> QED
  BY <1>2, <1>3, <1>4, <1>5 DEF Init, TypeOK, Account

\* Every step keeps the types, and the account that follows from the fills.
LEMMA TypesStep == TypeOK /\ MoneyInv /\ [Next]_vars => TypeOK' /\ MoneyInv'
<1> SUFFICES ASSUME TypeOK, MoneyInv, [Next]_vars PROVE TypeOK' /\ MoneyInv'
  OBVIOUS
<1>0. /\ symbol \in Symbols /\ price \in Nat /\ prevPrice \in Nat /\ account \in Account
      /\ orders \in Seq(Orders) /\ Sorted(orders) /\ given \in Nat /\ given <= MaxOrders
      /\ net \in Int /\ low \in Nat /\ high \in Nat
      /\ matched \subseteq 1 .. MaxOrders /\ foreign \in BOOLEAN /\ early \in BOOLEAN
      /\ MaxOrders \in Nat /\ price \in Prices \union {0} /\ prevPrice \in Prices \union {0}
  BY TypeParts DEF TypeOK
\* The two actions with a matching pass.
<1>1. ASSUME NEW sym \in Symbols, NEW p \in Prices \union {0}, NEW strange \in BOOLEAN,
             Match(sym, prevPrice, p, strange),
             symbol' = sym, price' = p, prevPrice' = p, foreign' \in BOOLEAN, given' = given
      PROVE  TypeOK' /\ MoneyInv'
  <2>1. CASE p = prevPrice
    <3>1. UNCHANGED <<account, orders, net, low, high, early>>
          /\ matched' \in {matched, {}}
      BY <1>1, <2>1 DEF Match
    <3> QED
      BY <1>0, <1>1, <3>1 DEF TypeOK, MoneyInv, Account, Sorted
  <2>2. CASE p # prevPrice
    <3>1. /\ account' \in Account /\ net' \in Int /\ low' \in Nat /\ high' \in Nat /\ MoneyInv'
          /\ orders' \in Seq(Orders) /\ Sorted(orders)'
          /\ matched' = {o.id : o \in {q \in ToSet(orders') : q.symbol = sym}}
      BY <1>1, <2>2, MatchRight
    <3>2. early' \in BOOLEAN
      <4> DEFINE E == ~strange /\ \E o \in ToSet(orders) :
                                     Hit(o, sym, prevPrice, p) /\ Unreached(o, p)
      <4>1. early' = (early \/ E)
        BY <1>1, <2>2, MatchRight
      <4> HIDE DEF E
      <4> QED
        BY <4>1
    <3>3. matched' \subseteq 1 .. MaxOrders
      BY <3>1, IdsOfList
    <3> QED
      BY <1>0, <1>1, <3>1, <3>2, <3>3 DEF TypeOK, Account, Sorted
  <2> QED
    BY <2>1, <2>2
<1>2. ASSUME NEW p \in Prices, PriceChange(p) PROVE TypeOK' /\ MoneyInv'
  <2>1. /\ Match(symbol, prevPrice, p, foreign) /\ symbol' = symbol /\ price' = p
        /\ prevPrice' = p /\ foreign' = FALSE /\ given' = given
    BY <1>2 DEF PriceChange
  <2> QED
    BY <1>0, <1>1, <2>1
<1>3. ASSUME NEW sym \in Symbols, NEW p \in Prices \union {0}, ChangePair(sym, p)
      PROVE  TypeOK' /\ MoneyInv'
  <2>1. /\ Match(sym, prevPrice, p, TRUE) /\ symbol' = sym /\ price' = p
        /\ prevPrice' = p /\ foreign' \in BOOLEAN /\ given' = given
    BY <1>3 DEF ChangePair
  <2> QED
    BY <1>1, <2>1
<1>4. ASSUME NEW p \in Prices, Remount(p) PROVE TypeOK' /\ MoneyInv'
  <2> DEFINE seen(o) == [o EXCEPT !.crossed = @ \/ Beyond(o.side, o.price, p)]
  <2>1. /\ orders' = [i \in DOMAIN orders |-> seen(orders[i])]
        /\ price' = p /\ prevPrice' = p /\ matched' = {} /\ foreign' = FALSE
        /\ UNCHANGED <<symbol, account, given, net, low, high, early>>
    BY <1>4 DEF Remount
  <2>2. ASSUME NEW o \in Orders PROVE seen(o) \in Orders /\ seen(o).price = o.price
    <3> DEFINE c == o.crossed \/ Beyond(o.side, o.price, p)
    <3>1. seen(o) = [o EXCEPT !.crossed = c]
      OBVIOUS
    <3>2. c \in BOOLEAN
      OBVIOUS
    <3> HIDE DEF c
    <3> QED
      BY <3>1, <3>2 DEF Orders
  <2> HIDE DEF seen
  <2>3. /\ DOMAIN orders = 1 .. Len(orders) /\ Len(orders) \in Nat
        /\ \A i \in 1 .. Len(orders) : orders[i] \in Orders
    BY <1>0
  <2>4. orders' \in Seq(Orders) /\ Len(orders') = Len(orders)
    BY <2>1, <2>2, <2>3
  <2>5. \A i \in 1 .. Len(orders) : orders'[i].price = orders[i].price
    BY <2>1, <2>2, <2>3
  <2>6. Sorted(orders')
    BY <1>0, <2>4, <2>5 DEF Sorted
  <2> QED
    BY <1>0, <2>1, <2>4, <2>6 DEF TypeOK, MoneyInv, Account, Sorted
<1>5. ASSUME Reload PROVE TypeOK' /\ MoneyInv'
  BY <1>0, <1>5 DEF Reload, TypeOK, MoneyInv, Account, Sorted
<1>6. ASSUME NEW n \in Sizes, MarketBuy(n) PROVE TypeOK' /\ MoneyInv'
  BY <1>6, FilledRight DEF MarketBuy
<1>7. ASSUME NEW n \in Sizes, MarketSell(n) PROVE TypeOK' /\ MoneyInv'
  BY <1>7, FilledRight DEF MarketSell
<1>8. ASSUME NEW side \in {"buy", "sell"}, NEW p \in Prices, NEW n \in Sizes,
             PlaceLimit(side, p, n)
      PROVE  TypeOK' /\ MoneyInv'
  <2> DEFINE c == price = 0 \/ Beyond(side, p, price)
             o == [id |-> given + 1, price |-> p, size |-> n, side |-> side, symbol |-> symbol,
                   crossed |-> c]
  <2>1. /\ given < MaxOrders /\ given' = given + 1 /\ orders' = Inserted(o)
        /\ UNCHANGED <<symbol, price, prevPrice, account, net, low, high, matched, foreign,
                       early>>
    BY <1>8 DEF PlaceLimit
  <2>2. o \in Orders
    <3>1. c \in BOOLEAN
      OBVIOUS
    <3> HIDE DEF c
    <3> QED
      BY <1>0, <2>1, <3>1 DEF Orders
  <2> HIDE DEF o
  <2>3. orders' \in Seq(Orders) /\ Sorted(orders')
    BY <1>0, <2>1, <2>2, InsertedRight
  <2> QED
    BY <1>0, <2>1, <2>3 DEF TypeOK, MoneyInv, Account, Sorted
<1>9. ASSUME NEW i \in DOMAIN orders, CancelLimitOrder(i) PROVE TypeOK' /\ MoneyInv'
  <2>1. orders' \in Seq(Orders) /\ Sorted(orders')
    BY <1>0, <1>9, CancelledRight DEF CancelLimitOrder, Within
  <2> QED
    BY <1>0, <1>9, <2>1 DEF CancelLimitOrder, TypeOK, MoneyInv, Account, Sorted
<1>10. ASSUME CancelAll PROVE TypeOK' /\ MoneyInv'
  <2>1. orders' \in Seq(Orders) /\ Sorted(orders')
    BY <1>10 DEF CancelAll, Sorted
  <2> QED
    BY <1>0, <1>10, <2>1 DEF CancelAll, TypeOK, MoneyInv, Account, Sorted
<1>11. ASSUME ClosePosition PROVE TypeOK' /\ MoneyInv'
  <2>1. account.balance \in Int /\ account.position \in Int /\ account.entry \in Nat
    BY <1>0 DEF Account
  <2> DEFINE x == IF account.position > 0
                    THEN account.position * ((price - account.entry) + price)
                    ELSE (-account.position) * (account.entry - price)
  <2>2. account.balance + x \in Int
    <3>1. \A a, b \in Int : a * b \in Int
      OBVIOUS
    <3>2. /\ (price - account.entry) + price \in Int /\ account.entry - price \in Int
          /\ -account.position \in Int
      BY <1>0, <2>1
    <3>3. /\ account.position * ((price - account.entry) + price) \in Int
          /\ (-account.position) * (account.entry - price) \in Int
      BY <2>1, <3>1, <3>2
    <3>4. x \in Int
      BY <3>3
    <3> HIDE DEF x
    <3> QED
      BY <2>1, <3>4
  <2>3. /\ account' = [balance |-> ToCents(account.balance + x), position |-> 0, entry |-> 0]
        /\ net' = 0 /\ low' = 0 /\ high' = 0
        /\ UNCHANGED <<symbol, price, prevPrice, orders, given, matched, foreign, early>>
    BY <1>11 DEF ClosePosition
  <2> HIDE DEF x
  <2>4. ToCents(account.balance + x) \in Int
    BY <2>2, ToCentsType
  <2>5. account' \in Account /\ account'.position = 0 /\ account'.entry = 0
    BY <2>3, <2>4 DEF Account
  <2> QED
    BY <1>0, <2>3, <2>5 DEF TypeOK, MoneyInv, Follows, Between, Account, Sorted
<1>12. ASSUME UNCHANGED vars PROVE TypeOK' /\ MoneyInv'
  BY <1>12 DEF vars, TypeOK, MoneyInv
<1> QED
  BY <1>2, <1>3, <1>4, <1>5, <1>6, <1>7, <1>8, <1>9, <1>10, <1>11, <1>12 DEF Next

\* The page keeps a number of cash, a position, and a list of orders with the highest price
\* first, whatever is traded.
THEOREM TypeOKHolds == Spec => []TypeOK
<1>1. TypeOK /\ MoneyInv /\ [Next]_vars => TypeOK' /\ MoneyInv'
  BY TypesStep
<1> QED
  BY TypesInit, <1>1, PTL DEF Spec

\* The position is the sum of the signed sizes that were filled since it was last closed, by
\* market orders and by the orders that any number of matching passes filled.
THEOREM PositionIsNetOfFillsHolds == Spec => []PositionIsNetOfFills
<1>1. MoneyInv => PositionIsNetOfFills
  BY DEF MoneyInv, Follows, PositionIsNetOfFills
<1> QED
  BY TypesInit, TypesStep, <1>1, PTL DEF Spec

\* The entry price lies between the lowest and the highest fill of the position's side.
THEOREM EntryIsAverageOfFillsHolds == Spec => []EntryIsAverageOfFills
<1>1. MoneyInv => EntryIsAverageOfFills
  BY DEF MoneyInv, Follows, Between, EntryIsAverageOfFills
<1> QED
  BY TypesInit, TypesStep, <1>1, PTL DEF Spec

--------------------------------------------------------------------------------
(* The limit orders.                                                            *)

\* Ids are given in turn.
IdsInv == (\A o \in ToSet(orders) : o.id <= given) /\ (\A i \in matched : i <= given)

\* prevPrice follows the price in the commit that changes it.
PriceInv == price = prevPrice

\* Where prevPrice is a price of this market, the market has not come to an order of the pair,
\* unless it was there when the order was placed or while nothing was matched.
AwaitedInv == ~foreign => \A o \in ToSet(orders) :
    o.symbol = symbol => o.crossed \/ ~Beyond(o.side, o.price, price)

OrdersInv ==
    TypeOK /\ MoneyInv /\ IdsInv /\ PriceInv /\ ReachedOrderLeaves /\ AwaitedInv
    /\ FilledOnlyWhenReached

\* An order the market comes to lies between the two prices, and is passed.
LEMMA ReachedBetween ==
    ASSUME NEW o \in Orders, NEW prev \in Nat, NEW p \in Nat,
           ~Beyond(o.side, o.price, prev), Triggered(o, prev, p)
    PROVE  Beyond(o.side, o.price, p)
<1>1. o.price \in Nat /\ o.side \in {"buy", "sell"}
  BY OrderFields
<1> QED
  BY <1>1 DEF Beyond, Triggered, Smaller

\* What a matching pass at a new price leaves, and that it fills no order too early.
LEMMA MatchLeaves ==
    ASSUME OrdersInv, NEW sym, NEW p \in Nat, NEW strange \in BOOLEAN, p # prevPrice,
           Match(sym, prevPrice, p, strange), ~strange => ~foreign /\ sym = symbol
    PROVE  /\ \A o \in ToSet(orders') :
                 /\ o \in ToSet(orders)
                 /\ o.symbol = sym => ~Beyond(o.side, o.price, p)
           /\ \A i \in matched' : \E o \in ToSet(orders) : o.id = i
           /\ ~early'
<1>1. /\ orders' \in Seq(Orders) /\ KeptOf(orders', orders, Len(orders), sym, prevPrice, p)
      /\ matched' = {o.id : o \in {q \in ToSet(orders') : q.symbol = sym}}
      /\ early' = \/ early
                  \/ ~strange /\ \E o \in ToSet(orders) :
                                    Hit(o, sym, prevPrice, p) /\ Unreached(o, p)
  BY MatchRight DEF OrdersInv
<1>2. orders \in Seq(Orders) /\ prevPrice \in Nat
  BY TypeParts DEF OrdersInv
<1>3. \A o \in ToSet(orders') : o \in ToSet(orders) /\ ~Hit(o, sym, prevPrice, p)
  BY <1>1, <1>2, LeftByMatch
<1>4. \A o \in ToSet(orders') : o.symbol = sym => ~Beyond(o.side, o.price, p)
  BY <1>3 DEF Hit, Triggered
<1>5. \A i \in matched' : \E o \in ToSet(orders) : o.id = i
  BY <1>1, <1>3
<1>6. ASSUME ~strange, NEW o \in ToSet(orders), Hit(o, sym, prevPrice, p), Unreached(o, p)
      PROVE  FALSE
  <2>1. o \in Orders
    BY <1>2, OrdersOfList
  <2>2. ~foreign /\ o.symbol = symbol /\ Triggered(o, prevPrice, p)
    BY <1>6 DEF Hit
  <2>3. ~o.crossed /\ ~Beyond(o.side, o.price, p)
    BY <1>6 DEF Unreached
  <2>4. ~Beyond(o.side, o.price, prevPrice)
    BY <2>2, <2>3 DEF OrdersInv, AwaitedInv, PriceInv
  <2> QED
    BY <1>2, <2>1, <2>2, <2>3, <2>4, ReachedBetween
<1>7. ~early'
  <2>1. ~early
    BY DEF OrdersInv, FilledOnlyWhenReached
  <2> QED
    BY <1>1, <1>6, <2>1
<1> QED
  BY <1>3, <1>4, <1>5, <1>7

\* The initial state.
LEMMA OrdersInit == Init => OrdersInv
<1> SUFFICES ASSUME Init PROVE OrdersInv
  OBVIOUS
<1>1. ToSet(orders) = {}
  BY DEF Init, ToSet
<1> QED
  BY <1>1, TypesInit
  DEF Init, OrdersInv, IdsInv, PriceInv, ReachedOrderLeaves, AwaitedInv, FilledOnlyWhenReached

\* Every step keeps what is known of the orders.
LEMMA OrdersStep == OrdersInv /\ [Next]_vars => OrdersInv'
<1> SUFFICES ASSUME OrdersInv, [Next]_vars PROVE OrdersInv'
  OBVIOUS
<1>0. /\ price \in Nat /\ prevPrice \in Nat /\ orders \in Seq(Orders) /\ Sorted(orders)
      /\ given \in Nat /\ matched \subseteq Nat /\ price = prevPrice
      /\ foreign \in BOOLEAN /\ \A o \in ToSet(orders) : o \in Orders
  BY TypeParts, OrdersOfList DEF OrdersInv, PriceInv
<1>t. TypeOK' /\ MoneyInv'
  BY TypesStep DEF OrdersInv
<1> DEFINE Rest == IdsInv /\ PriceInv /\ ReachedOrderLeaves /\ AwaitedInv /\ FilledOnlyWhenReached
<1>r. Rest
  BY DEF OrdersInv
<1> SUFFICES Rest'
  BY <1>t DEF OrdersInv
\* No list changes, but orders may have gone, and the price stays.
<1>u. ASSUME \A o \in ToSet(orders') : o \in ToSet(orders),
             UNCHANGED <<symbol, price, prevPrice, matched, foreign, early>>,
             given' \in Nat, given' >= given
      PROVE  Rest'
  <2>1. IdsInv'
    <3>1. \A o \in ToSet(orders) : o.id \in Nat
      BY <1>0, OrderFields
    <3> QED
      BY <1>0, <1>r, <1>u, <3>1 DEF IdsInv
  <2>2. PriceInv' /\ FilledOnlyWhenReached'
    BY <1>r, <1>u DEF PriceInv, FilledOnlyWhenReached
  <2>3. ReachedOrderLeaves'
    BY <1>r, <1>u DEF ReachedOrderLeaves
  <2>4. AwaitedInv'
    BY <1>r, <1>u DEF AwaitedInv
  <2> QED
    BY <2>1, <2>2, <2>3, <2>4
\* The two actions with a matching pass, at a new price.
<1>m. ASSUME NEW sym, NEW p \in Nat, NEW strange \in BOOLEAN, p # prevPrice,
             Match(sym, prevPrice, p, strange), ~strange => ~foreign /\ sym = symbol,
             symbol' = sym, price' = p, prevPrice' = p, given' = given
      PROVE  Rest'
  <2>1. /\ \A o \in ToSet(orders') :
             /\ o \in ToSet(orders)
             /\ o.symbol = sym => ~Beyond(o.side, o.price, p)
        /\ \A i \in matched' : \E o \in ToSet(orders) : o.id = i
        /\ ~early'
    BY <1>m, MatchLeaves
  <2>2. IdsInv'
    BY <1>r, <1>m, <2>1 DEF IdsInv
  <2>3. PriceInv' /\ FilledOnlyWhenReached'
    BY <1>m, <2>1 DEF PriceInv, FilledOnlyWhenReached
  <2>4. ReachedOrderLeaves'
    BY <1>m, <2>1 DEF ReachedOrderLeaves
  <2>5. AwaitedInv'
    BY <1>m, <2>1 DEF AwaitedInv
  <2> QED
    BY <2>2, <2>3, <2>4, <2>5
<1>1. ASSUME NEW p \in Prices, PriceChange(p) PROVE Rest'
  <2>1. /\ p # price /\ Match(symbol, prevPrice, p, foreign) /\ symbol' = symbol /\ price' = p
        /\ prevPrice' = p /\ given' = given
    BY <1>1 DEF PriceChange
  <2>2. p \in Nat /\ p # prevPrice
    BY <1>0, <2>1, PaperTradingAssumption
  <2> HIDE DEF Rest
  <2> QED
    BY <1>0, <1>m, <2>1, <2>2
<1>2. ASSUME NEW sym \in Symbols, NEW p \in Prices \union {0}, ChangePair(sym, p) PROVE Rest'
  <2>1. /\ Match(sym, prevPrice, p, TRUE) /\ symbol' = sym /\ price' = p /\ prevPrice' = p
        /\ foreign' = (p = 0 \/ p = prevPrice) /\ given' = given
    BY <1>2 DEF ChangePair
  <2>2. p \in Nat
    BY PaperTradingAssumption
  <2>3. CASE p # prevPrice
    <3> HIDE DEF Rest
    <3> QED
      BY <1>m, <2>1, <2>2, <2>3
  <2>4. CASE p = prevPrice
    <3>1. UNCHANGED <<orders, early>> /\ matched' = IF sym = symbol THEN matched ELSE {}
      BY <2>1, <2>4 DEF Match
    <3>2. foreign'
      BY <2>1, <2>4
    <3>3. IdsInv'
      BY <1>r, <2>1, <3>1 DEF IdsInv
    <3>4. PriceInv' /\ FilledOnlyWhenReached'
      BY <1>r, <2>1, <3>1 DEF PriceInv, FilledOnlyWhenReached
    <3>5. ReachedOrderLeaves'
      BY <1>0, <1>r, <2>1, <2>4, <3>1 DEF ReachedOrderLeaves
    <3>6. AwaitedInv'
      BY <3>2 DEF AwaitedInv
    <3> QED
      BY <3>3, <3>4, <3>5, <3>6
  <2> QED
    BY <2>3, <2>4
<1>3. ASSUME NEW p \in Prices, Remount(p) PROVE Rest'
  <2>1. /\ orders' = [i \in DOMAIN orders |->
                        [orders[i] EXCEPT !.crossed =
                           @ \/ Beyond(orders[i].side, orders[i].price, p)]]
        /\ price' = p /\ prevPrice' = p /\ matched' = {}
        /\ UNCHANGED <<symbol, given, early>>
    BY <1>3 DEF Remount
  <2>2. ASSUME NEW o \in ToSet(orders')
        PROVE  /\ o.id <= given
               /\ o.crossed \/ ~Beyond(o.side, o.price, p)
    <3>1. PICK i \in DOMAIN orders : o = orders'[i]
      BY <2>1 DEF ToSet
    <3> DEFINE q == orders[i]
               c == q.crossed \/ Beyond(q.side, q.price, p)
    <3>2. o = [q EXCEPT !.crossed = c]
      BY <2>1, <3>1
    <3>3. q \in Orders /\ q \in ToSet(orders) /\ q.id <= given
      BY <1>0, <1>r DEF ToSet, IdsInv
    <3>4. c = (q.crossed \/ Beyond(q.side, q.price, p)) /\ c \in BOOLEAN
      OBVIOUS
    <3> HIDE DEF q, c
    <3>5. o.id = q.id /\ o.side = q.side /\ o.price = q.price /\ o.crossed = c
      BY <3>2, <3>3, <3>4 DEF Orders
    <3> QED
      BY <3>3, <3>4, <3>5
  <2>3. IdsInv'
    BY <2>1, <2>2 DEF IdsInv
  <2>4. PriceInv' /\ FilledOnlyWhenReached'
    BY <1>r, <2>1 DEF PriceInv, FilledOnlyWhenReached
  <2>5. ReachedOrderLeaves'
    BY <2>1 DEF ReachedOrderLeaves
  <2>6. AwaitedInv'
    BY <2>1, <2>2 DEF AwaitedInv
  <2> QED
    BY <2>3, <2>4, <2>5, <2>6
<1>4. ASSUME Reload PROVE Rest'
  <2>1. /\ price' = 0 /\ prevPrice' = 0 /\ foreign' = TRUE /\ matched' = {}
        /\ UNCHANGED <<orders, given, early>>
    BY <1>4 DEF Reload
  <2> QED
    BY <1>r, <2>1
    DEF IdsInv, PriceInv, ReachedOrderLeaves, AwaitedInv, FilledOnlyWhenReached
<1>5. ASSUME NEW after, NEW n, Filled(after, price, n) PROVE Rest'
  BY <1>0, <1>u, <1>5 DEF Filled
<1>6. ASSUME NEW n \in Sizes, MarketBuy(n) PROVE Rest'
  <2> HIDE DEF Rest
  <2> QED
    BY <1>5, <1>6 DEF MarketBuy
<1>7. ASSUME NEW n \in Sizes, MarketSell(n) PROVE Rest'
  <2> HIDE DEF Rest
  <2> QED
    BY <1>5, <1>7 DEF MarketSell
<1>8. ASSUME NEW side \in {"buy", "sell"}, NEW p \in Prices, NEW n \in Sizes,
             PlaceLimit(side, p, n)
      PROVE  Rest'
  <2> DEFINE c == price = 0 \/ Beyond(side, p, price)
             o == [id |-> given + 1, price |-> p, size |-> n, side |-> side, symbol |-> symbol,
                   crossed |-> c]
  <2>1. /\ given < MaxOrders /\ given' = given + 1 /\ orders' = Inserted(o)
        /\ UNCHANGED <<symbol, price, prevPrice, matched, foreign, early>>
    BY <1>8 DEF PlaceLimit
  <2>2. symbol \in Symbols /\ MaxOrders \in Nat
    BY TypeParts DEF OrdersInv
  <2>3. c = (price = 0 \/ Beyond(side, p, price)) /\ c \in BOOLEAN
    OBVIOUS
  <2>4. /\ o \in Orders /\ o.id = given + 1
        /\ o.crossed \/ ~Beyond(o.side, o.price, price)
    <3> HIDE DEF c
    <3>1. o.id = given + 1 /\ o.side = side /\ o.price = p /\ o.crossed = c
      OBVIOUS
    <3>2. o \in Orders
      BY <1>0, <2>1, <2>2, <2>3 DEF Orders
    <3> HIDE DEF o
    <3> QED
      BY <2>3, <3>1, <3>2
  <2> HIDE DEF o, c
  <2>5. \A q \in ToSet(orders') : q = o \/ q \in ToSet(orders)
    <3>1. \A q \in ToSet(Inserted(o)) : q = o \/ q \in ToSet(orders)
      BY <1>0, <2>4, InsertedRight
    <3> QED
      BY <2>1, <3>1
  <2>6. IdsInv'
    <3>1. \A q \in ToSet(orders) : q.id \in Nat /\ q.id <= given
      BY <1>0, <1>r, OrderFields DEF IdsInv
    <3>2. \A q \in ToSet(orders') : q.id <= given + 1
      BY <1>0, <2>4, <2>5, <3>1
    <3>3. \A i \in matched : i <= given + 1
      BY <1>0, <1>r DEF IdsInv
    <3> QED
      BY <2>1, <3>2, <3>3 DEF IdsInv
  <2>7. PriceInv' /\ FilledOnlyWhenReached'
    BY <1>r, <2>1 DEF PriceInv, FilledOnlyWhenReached
  <2>8. ReachedOrderLeaves'
    <3>1. o.id \notin matched
      <4>1. ~(given + 1 <= given)
        BY <1>0
      <4>2. \A i \in matched : i <= given
        BY <1>r DEF IdsInv
      <4> QED
        BY <2>4, <4>1, <4>2
    <3> QED
      BY <1>r, <2>1, <2>5, <3>1 DEF ReachedOrderLeaves
  <2>9. AwaitedInv'
    BY <1>r, <2>1, <2>4, <2>5 DEF AwaitedInv
  <2> QED
    BY <2>6, <2>7, <2>8, <2>9
<1>9. ASSUME NEW i \in DOMAIN orders, CancelLimitOrder(i) PROVE Rest'
  <2>1. Within(orders', orders)
    BY <1>0, <1>9, CancelledRight DEF CancelLimitOrder
  <2>2. \A o \in ToSet(orders') : o \in ToSet(orders)
    BY <1>0, <2>1, SameOrders DEF Within
  <2> HIDE DEF Rest
  <2> QED
    BY <1>0, <1>u, <1>9, <2>2 DEF CancelLimitOrder
<1>10. ASSUME CancelAll PROVE Rest'
  <2>1. ToSet(orders') = {}
    BY <1>10 DEF CancelAll, ToSet
  <2> HIDE DEF Rest
  <2> QED
    BY <1>0, <1>u, <1>10, <2>1 DEF CancelAll
<1>11. ASSUME ClosePosition PROVE Rest'
  <2> HIDE DEF Rest
  <2> QED
    BY <1>0, <1>u, <1>11 DEF ClosePosition
<1>12. ASSUME UNCHANGED vars PROVE Rest'
  <2> HIDE DEF Rest
  <2> QED
    BY <1>0, <1>u, <1>12 DEF vars
<1> HIDE DEF Rest
<1> QED
  BY <1>1, <1>2, <1>3, <1>4, <1>6, <1>7, <1>8, <1>9, <1>10, <1>11, <1>12 DEF Next

\* A matching pass skips no order of the pair that the market has come to.
THEOREM ReachedOrderLeavesHolds == Spec => []ReachedOrderLeaves
<1>1. OrdersInv => ReachedOrderLeaves
  BY DEF OrdersInv
<1> QED
  BY OrdersInit, OrdersStep, <1>1, PTL DEF Spec

\* No order is filled that the market has not reached, where prevPrice is of that market.
THEOREM FilledOnlyWhenReachedHolds == Spec => []FilledOnlyWhenReached
<1>1. OrdersInv => FilledOnlyWhenReached
  BY DEF OrdersInv
<1> QED
  BY OrdersInit, OrdersStep, <1>1, PTL DEF Spec
================================================================================
