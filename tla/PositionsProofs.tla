-------------------------- MODULE PositionsProofs --------------------------
(***************************************************************************)
(* Proofs about Positions, for every set of clients, every capacity of the *)
(* event channel and any number of trades: the types, that shares are      *)
(* neither made nor lost, that the profit shown is the profit made, and    *)
(* that what is saved catches up with the positions.                       *)
(***************************************************************************)
EXTENDS Positions, DataLemmas

Position == [qty : Int, buyQty : Nat, sellQty : Nat, buyAvg : Nat,
             sellAvg : Nat, realized : Int, unrealized : Int, last : Nat]
PositionEvent == [key : Keys, qty : Int, trigger : {"trade", "price_tick"}]
Trade == [buyer : Keys, seller : Keys, qty : Quantities, price : Prices]

-----------------------------------------------------------------------------
(* The arithmetic of one position *)

LEMMA RoundIsNat ==
    ASSUME NEW a \in Nat, NEW b \in Nat, b > 0
    PROVE  RoundDiv(a, b) \in Nat
  <1>1. \A x, y \in Nat : y > 0 => x \div y \in Nat
    OBVIOUS
  <1>2. 2 * a + b \in Nat /\ 2 * b \in Nat /\ 2 * b > 0
    OBVIOUS
  <1>3. QED BY <1>1, <1>2 DEF RoundDiv

\* A buy adds its quantity to the position, whatever part of it covers a short.
LEMMA BuyMoves ==
    ASSUME NEW p \in Position, NEW qty \in Quantities, NEW price \in Prices
    PROVE  ApplyBuy(p, qty, price) \in Position /\ ApplyBuy(p, qty, price).qty = p.qty + qty
  <1>1. qty \in Nat /\ qty > 0 /\ price \in Nat
    BY PositionsAssumption
  <1>2. /\ p.qty \in Int /\ p.buyQty \in Nat /\ p.sellQty \in Nat /\ p.buyAvg \in Nat
        /\ p.sellAvg \in Nat /\ p.realized \in Int
    BY DEF Position
  <1> DEFINE cover == IF p.qty < 0 THEN Smaller(qty, -p.qty) ELSE 0
             rest == qty - cover
             real == p.realized + (p.sellAvg - price) * cover
             avg == IF rest = 0 THEN p.buyAvg
                    ELSE RoundDiv(p.buyAvg * p.buyQty + price * rest, p.buyQty + rest)
  <1>3. cover \in Nat /\ rest \in Nat
    BY <1>1, <1>2 DEF Smaller
  <1> HIDE DEF cover
  <1>4. real \in Int
    BY <1>1, <1>2, <1>3
  <1>5. avg \in Nat
    <2>1. CASE rest = 0
      BY <1>2, <2>1
    <2>2. CASE rest # 0
      <3>0. \A x, y \in Nat : x * y \in Nat
        OBVIOUS
      <3>1. p.buyAvg * p.buyQty + price * rest \in Nat
        BY <1>1, <1>2, <1>3, <3>0
      <3>2. p.buyQty + rest \in Nat /\ p.buyQty + rest > 0
        BY <1>2, <1>3, <2>2
      <3> HIDE DEF rest
      <3>3. QED BY <2>2, <3>1, <3>2, RoundIsNat
    <2>3. QED BY <2>1, <2>2
  <1>6. ApplyBuy(p, qty, price) = [p EXCEPT !.realized = real, !.qty = p.qty + qty,
                                   !.buyQty = p.buyQty + rest, !.buyAvg = avg]
    BY DEF ApplyBuy, cover
  <1> HIDE DEF rest, real, avg
  <1>7. p.qty + qty \in Int /\ p.buyQty + rest \in Nat
    BY <1>1, <1>2, <1>3
  <1>8. QED BY <1>4, <1>5, <1>6, <1>7 DEF Position

\* A sell takes its quantity from the position, whatever part of it closes a long one.
LEMMA SellMoves ==
    ASSUME NEW p \in Position, NEW qty \in Quantities, NEW price \in Prices
    PROVE  /\ ApplyShortSell(p, qty, price) \in Position
           /\ ApplyShortSell(p, qty, price).qty = p.qty - qty
  <1>1. qty \in Nat /\ qty > 0 /\ price \in Nat
    BY PositionsAssumption
  <1>2. /\ p.qty \in Int /\ p.buyQty \in Nat /\ p.sellQty \in Nat /\ p.buyAvg \in Nat
        /\ p.sellAvg \in Nat /\ p.realized \in Int
    BY DEF Position
  <1> DEFINE long == IF p.qty > 0 THEN Smaller(qty, p.qty) ELSE 0
             rest == qty - long
             real == p.realized + (price - p.buyAvg) * long
             avg == IF rest = 0 THEN p.sellAvg
                    ELSE RoundDiv(p.sellAvg * (p.sellQty + long) + price * rest,
                                  p.sellQty + qty)
  <1>3. long \in Nat /\ rest \in Nat
    BY <1>1, <1>2 DEF Smaller
  <1> HIDE DEF long
  <1>4. real \in Int
    BY <1>1, <1>2, <1>3
  <1>5. avg \in Nat
    <2>1. CASE rest = 0
      BY <1>2, <2>1
    <2>2. CASE rest # 0
      <3>0. \A x, y \in Nat : x * y \in Nat
        OBVIOUS
      <3>1. p.sellQty + long \in Nat
        BY <1>2, <1>3
      <3>2. p.sellAvg * (p.sellQty + long) + price * rest \in Nat
        BY <1>1, <1>2, <1>3, <3>0, <3>1
      <3>3. p.sellQty + qty \in Nat /\ p.sellQty + qty > 0
        BY <1>1, <1>2
      <3> HIDE DEF rest
      <3>4. QED BY <2>2, <3>2, <3>3, RoundIsNat
    <2>3. QED BY <2>1, <2>2
  <1>6. ApplyShortSell(p, qty, price) =
          [p EXCEPT !.realized = real, !.qty = p.qty - qty,
                    !.sellQty = p.sellQty + qty, !.sellAvg = avg]
    BY DEF ApplyShortSell, long
  <1> HIDE DEF rest, real, avg
  <1>7. p.qty - qty \in Int /\ p.sellQty + qty \in Nat
    BY <1>1, <1>2
  <1>8. QED BY <1>4, <1>5, <1>6, <1>7 DEF Position

\* A tick values a position and leaves its quantity alone.
LEMMA MarkKeeps ==
    ASSUME NEW p \in Position, NEW ltp \in Prices
    PROVE  Mark(p, ltp) \in Position /\ Mark(p, ltp).qty = p.qty
  <1>1. ltp \in Nat /\ p.qty \in Int /\ p.buyAvg \in Nat /\ p.sellAvg \in Nat
    BY PositionsAssumption DEF Position
  <1> DEFINE value == IF p.qty > 0 THEN (ltp - p.buyAvg) * p.qty
                      ELSE (p.sellAvg - ltp) * (-p.qty)
  <1>2. value \in Int
    BY <1>1
  <1>3. Mark(p, ltp) = IF p.qty = 0 THEN p
                       ELSE [p EXCEPT !.last = ltp, !.unrealized = value]
    BY DEF Mark
  <1> HIDE DEF value
  <1>4. QED BY <1>1, <1>2, <1>3 DEF Position

LEMMA Times ==
    \A x, y, z \in Int : /\ x * y \in Int /\ x * y = y * x
                         /\ x * (y + z) = x * y + x * z
                         /\ x * (y - z) = x * y - x * z
  OBVIOUS

LEMMA TimesDifferences ==
    \A x, y, u, v \in Int : (x - y) * (u - v) = x * u - x * v - y * u + y * v
  OBVIOUS

LEMMA ProductsGrow ==
    ASSUME NEW m \in Nat, NEW n \in Nat, NEW x \in Nat, NEW y \in Nat, m <= n, x <= y
    PROVE  m * x \in Nat /\ n * y \in Nat /\ m * x <= n * y
  OBVIOUS

\* Rounding a quotient is off by at most half.
LEMMA RoundError ==
    ASSUME NEW a \in Nat, NEW b \in Nat, b > 0
    PROVE  LET e == 2 * (RoundDiv(a, b) * b) - 2 * a IN e <= b /\ -e <= b
  <1> DEFINE x == 2 * a + b
             y == 2 * b
             r == x \div y
             m == x % y
             z == r * b
  <1>1. x \in Int /\ y \in Int /\ y > 0
    OBVIOUS
  <1>2. r \in Int /\ m \in Int /\ x = y * r + m /\ 0 <= m /\ m < y
    <2> HIDE DEF x, y
    <2>1. QED BY <1>1
  <1>3. RoundDiv(a, b) = r
    BY DEF RoundDiv
  <1> HIDE DEF r, m
  <1>4. y * r = 2 * z /\ z \in Int
    BY <1>2
  <1> HIDE DEF z
  <1>5. 2 * a + b = 2 * z + m /\ 0 <= m /\ m < 2 * b
    BY <1>2, <1>4
  <1>6. QED BY <1>2, <1>3, <1>4, <1>5 DEF z

\* An average of qty shares that cost cost, after n roundings: the cost it stands for
\* is off by at most half a paisa for each share and rounding.
Close(avg, qty, cost, n) ==
    LET e == 2 * (avg * qty) - 2 * cost IN e <= n * qty /\ -e <= n * qty

\* Averaging in one more trade rounds once more.
LEMMA AverageStaysClose ==
    ASSUME NEW avg \in Nat, NEW x \in Nat, NEW cost \in Int, NEW n \in Nat,
           NEW q \in Nat, q > 0, NEW price \in Nat, Close(avg, x, cost, n)
    PROVE  Close(RoundDiv(avg * x + price * q, x + q), x + q, cost + q * price, n + 1)
  <1> DEFINE a == avg * x
             v == price * q
             r == RoundDiv(a + v, x + q)
             c == r * (x + q)
             m == n * x
             b == n * (x + q)
             d == (n + 1) * (x + q)
  <1>1. a \in Nat /\ v \in Nat /\ a + v \in Nat /\ q * price = v
    <2>1. \A y, z \in Nat : y * z \in Nat /\ y * z = z * y
      OBVIOUS
    <2>2. a \in Nat /\ v \in Nat /\ q * price = v
      BY <2>1
    <2> HIDE DEF a, v
    <2>3. QED BY <2>2
  <1>2. x + q \in Nat /\ x + q > 0 /\ x <= x + q
    OBVIOUS
  <1>3. m \in Nat /\ b \in Nat /\ m <= b
    BY <1>2, ProductsGrow
  <1>4. d = b + (x + q)
    <2>1. \A y \in Nat : (n + 1) * y = n * y + y
      OBVIOUS
    <2>2. QED BY <1>2, <2>1
  <1>5. 2 * a - 2 * cost <= m /\ -(2 * a - 2 * cost) <= m
    BY DEF Close
  <1> HIDE DEF a, v
  <1>6. r \in Nat
    BY <1>1, <1>2, RoundIsNat
  <1>7. 2 * c - 2 * (a + v) <= x + q /\ -(2 * c - 2 * (a + v)) <= x + q
    BY <1>1, <1>2, RoundError
  <1> HIDE DEF r
  <1>8. c \in Int
    BY <1>2, <1>6
  <1> HIDE DEF c, m, b, d
  <1>9. LET e == 2 * c - 2 * (cost + v) IN e <= d /\ -e <= d
    BY <1>1, <1>2, <1>3, <1>4, <1>5, <1>7, <1>8
  <1>10. cost + q * price = cost + v
    BY <1>1
  <1>11. Close(r, x + q, cost + v, n + 1)
    BY <1>9 DEF Close, c, d
  <1>12. QED BY <1>10, <1>11 DEF r, a, v

\* The four things a trade can do to one side of a position

LEMMA BuyToOpen ==
    ASSUME NEW p \in Position, NEW qty \in Quantities, NEW price \in Prices, p.qty >= 0
    PROVE  LET r == ApplyBuy(p, qty, price)
           IN /\ r.realized = p.realized /\ r.buyQty = p.buyQty + qty
              /\ r.buyAvg = RoundDiv(p.buyAvg * p.buyQty + price * qty, p.buyQty + qty)
  <1>1. qty \in Nat /\ qty > 0 /\ price \in Nat
    BY PositionsAssumption
  <1>2. p.qty \in Int /\ p.realized \in Int /\ p.sellAvg \in Nat /\ ~(p.qty < 0)
    BY DEF Position
  <1>3. (p.sellAvg - price) * 0 = 0 /\ qty - 0 = qty /\ qty # 0
    BY <1>1, <1>2
  <1>4. p.realized + (p.sellAvg - price) * 0 = p.realized
    BY <1>2, <1>3
  <1>5. QED BY <1>2, <1>3, <1>4 DEF ApplyBuy, Position

LEMMA BuyToCover ==
    ASSUME NEW p \in Position, NEW qty \in Quantities, NEW price \in Prices, p.qty + qty <= 0
    PROVE  LET r == ApplyBuy(p, qty, price)
           IN /\ r.realized = p.realized + (p.sellAvg - price) * qty
              /\ r.sellQty = p.sellQty /\ r.sellAvg = p.sellAvg
  <1>1. qty \in Nat /\ qty > 0
    BY PositionsAssumption
  <1>2. p.qty \in Int
    BY DEF Position
  <1>3. p.qty < 0 /\ Smaller(qty, -p.qty) = qty
    BY <1>1, <1>2 DEF Smaller
  <1>4. QED BY <1>3 DEF ApplyBuy, Position

LEMMA SellToOpen ==
    ASSUME NEW p \in Position, NEW qty \in Quantities, NEW price \in Prices, p.qty <= 0
    PROVE  LET r == ApplyShortSell(p, qty, price)
           IN /\ r.realized = p.realized /\ r.sellQty = p.sellQty + qty
              /\ r.sellAvg = RoundDiv(p.sellAvg * p.sellQty + price * qty, p.sellQty + qty)
  <1>1. qty \in Nat /\ qty > 0 /\ price \in Nat
    BY PositionsAssumption
  <1>2. /\ p.qty \in Int /\ p.realized \in Int /\ p.buyAvg \in Nat /\ ~(p.qty > 0)
        /\ p.sellQty \in Nat
    BY DEF Position
  <1>3. (price - p.buyAvg) * 0 = 0 /\ qty - 0 = qty /\ qty # 0 /\ p.sellQty + 0 = p.sellQty
    BY <1>1, <1>2
  <1>4. p.realized + (price - p.buyAvg) * 0 = p.realized
    BY <1>2, <1>3
  <1>5. QED BY <1>2, <1>3, <1>4 DEF ApplyShortSell, Position

LEMMA SellToReduce ==
    ASSUME NEW p \in Position, NEW qty \in Quantities, NEW price \in Prices, p.qty - qty >= 0
    PROVE  LET r == ApplyShortSell(p, qty, price)
           IN /\ r.realized = p.realized + (price - p.buyAvg) * qty
              /\ r.buyQty = p.buyQty /\ r.buyAvg = p.buyAvg
  <1>1. qty \in Nat /\ qty > 0
    BY PositionsAssumption
  <1>2. p.qty \in Int
    BY DEF Position
  <1>3. p.qty > 0 /\ Smaller(qty, p.qty) = qty
    BY <1>1, <1>2 DEF Smaller
  <1>4. QED BY <1>3 DEF ApplyShortSell, Position

-----------------------------------------------------------------------------
(* The channel: what a sequence of events says of a key's quantity *)

IsTrade(e, k) == e.trigger = "trade" /\ e.key = k
Quiet(ch, k) == \A n \in DOMAIN ch : ~IsTrade(ch[n], k)

\* The last event about a trade of k carries quantity q.
LastSays(ch, k, q) ==
    \E n \in DOMAIN ch :
        /\ IsTrade(ch[n], k) /\ ch[n].qty = q
        /\ \A m \in DOMAIN ch : m > n => ~IsTrade(ch[m], k)

\* Once ch is consumed, what is saved for k, which is s now, will be q.
WillSave(ch, k, s, q) == LastSays(ch, k, q) \/ (Quiet(ch, k) /\ s = q)

LEMMA EmitAll ==
    ASSUME TypeOK, NEW es \in Seq(PositionEvent), Emit(es)
    PROVE  /\ eventCh' \in Seq(PositionEvent) /\ Len(eventCh') <= EventCap
           /\ dropped' \in BOOLEAN
           /\ ~dropped' => ~dropped /\ eventCh' = eventCh \o es
  <1>1. /\ eventCh \in Seq(PositionEvent) /\ Len(eventCh) \in Nat /\ Len(es) \in Nat
        /\ Len(eventCh) <= EventCap /\ EventCap \in Nat /\ dropped \in BOOLEAN
    BY PositionsAssumption DEF TypeOK, PositionEvent
  <1> DEFINE room == Smaller(Len(es), EventCap - Len(eventCh))
  <1>2. /\ room \in Nat /\ room <= Len(es) /\ Len(eventCh) + room <= EventCap
    BY <1>1 DEF Smaller
  <1>3. /\ eventCh' = eventCh \o SubSeq(es, 1, room)
        /\ dropped' = (dropped \/ room < Len(es))
    BY DEF Emit
  <1> HIDE DEF room
  <1>4. SubSeq(es, 1, room) \in Seq(PositionEvent) /\ Len(SubSeq(es, 1, room)) = room
    BY <1>2, Beginning
  <1> DEFINE sent == SubSeq(es, 1, room)
  <1> HIDE DEF sent
  <1>5. sent \in Seq(PositionEvent) /\ Len(sent) = room /\ eventCh' = eventCh \o sent
    BY <1>3, <1>4 DEF sent
  <1>6. eventCh' \in Seq(PositionEvent) /\ Len(eventCh') = Len(eventCh) + room
    BY <1>1, <1>5, ConcatProperties
  <1>7. ASSUME ~dropped' PROVE ~dropped /\ eventCh' = eventCh \o es
    <2>0. ~dropped /\ ~(room < Len(es))
      BY <1>3, <1>7
    <2>1. ~dropped /\ room = Len(es)
      BY <1>1, <1>2, <2>0
    <2>2. SubSeq(es, 1, Len(es)) = es
      BY SubSeqFull
    <2>3. QED BY <1>3, <2>1, <2>2
  <1>8. QED BY <1>1, <1>2, <1>3, <1>6, <1>7

\* Sending events changes what will be saved to what the events say, if they say
\* anything of k.
LEMMA SendSaves ==
    ASSUME NEW ch \in Seq(PositionEvent), NEW es \in Seq(PositionEvent), NEW k, NEW s, NEW q,
           LastSays(es, k, q) \/ (Quiet(es, k) /\ WillSave(ch, k, s, q))
    PROVE  WillSave(ch \o es, k, s, q)
  <1> DEFINE all == ch \o es
             m == Len(ch)
             l == Len(es)
  <1>1. /\ m \in Nat /\ l \in Nat /\ DOMAIN ch = 1 .. m /\ DOMAIN es = 1 .. l
        /\ DOMAIN all = 1 .. m + l
        /\ \A i \in 1 .. m + l : all[i] = IF i <= m THEN ch[i] ELSE es[i - m]
    BY ConcatProperties, LenProperties
  <1> HIDE DEF all, m, l
  <1>2. \A i \in 1 .. m : i \in DOMAIN all /\ all[i] = ch[i]
    BY <1>1
  <1>3. \A i \in 1 .. l : i + m \in DOMAIN all /\ all[i + m] = es[i]
    <2>1. \A i \in 1 .. l : i + m \in 1 .. m + l /\ ~(i + m <= m) /\ i + m - m = i
      BY <1>1
    <2>2. QED BY <1>1, <2>1
  <1>4. \A j \in DOMAIN all : j \in 1 .. m \/ (j - m \in 1 .. l /\ all[j] = es[j - m])
    BY <1>1
  <1>5. CASE LastSays(es, k, q)
    <2>1. PICK n \in 1 .. l : /\ IsTrade(es[n], k) /\ es[n].qty = q
                              /\ \A i \in 1 .. l : i > n => ~IsTrade(es[i], k)
      BY <1>1, <1>5 DEF LastSays
    <2>2. IsTrade(all[n + m], k) /\ all[n + m].qty = q /\ n + m \in DOMAIN all
      BY <1>3, <2>1
    <2>3. ASSUME NEW j \in DOMAIN all, j > n + m PROVE ~IsTrade(all[j], k)
      <3>1. j \in Int /\ n \in Nat /\ n > 0
        BY <1>1
      <3>2. j - m \in 1 .. l /\ all[j] = es[j - m] /\ j - m > n
        BY <1>1, <1>4, <2>3, <3>1
      <3>3. QED BY <2>1, <3>2
    <2>4. QED BY <2>2, <2>3 DEF WillSave, LastSays, all
  <1>6. CASE Quiet(es, k) /\ Quiet(ch, k) /\ s = q
    <2>1. Quiet(all, k)
      BY <1>1, <1>2, <1>4, <1>6 DEF Quiet
    <2>2. QED BY <1>6, <2>1 DEF WillSave, all
  <1>7. CASE Quiet(es, k) /\ LastSays(ch, k, q)
    <2>1. PICK n \in 1 .. m : /\ IsTrade(ch[n], k) /\ ch[n].qty = q
                              /\ \A i \in 1 .. m : i > n => ~IsTrade(ch[i], k)
      BY <1>1, <1>7 DEF LastSays
    <2>2. ASSUME NEW j \in DOMAIN all, j > n PROVE ~IsTrade(all[j], k)
      BY <1>1, <1>2, <1>4, <1>7, <2>1, <2>2 DEF Quiet
    <2>3. QED BY <1>2, <2>1, <2>2 DEF WillSave, LastSays, all
  <1>8. QED BY <1>5, <1>6, <1>7 DEF WillSave

\* Consuming an event saves what it says, if it is about a trade of k.
LEMMA TakeSaves ==
    ASSUME NEW ch \in Seq(PositionEvent), ch # <<>>, NEW k, NEW s, NEW q,
           WillSave(ch, k, s, q)
    PROVE  WillSave(Tail(ch), k, IF IsTrade(Head(ch), k) THEN Head(ch).qty ELSE s, q)
  <1> DEFINE r == Tail(ch)
             l == Len(ch)
  <1>1. /\ l \in Nat /\ l > 0 /\ DOMAIN ch = 1 .. l /\ Head(ch) = ch[1]
        /\ DOMAIN r = 1 .. l - 1 /\ \A i \in 1 .. l - 1 : r[i] = ch[i + 1]
    <2>1. Len(ch) \in Nat /\ Len(ch) > 0 /\ DOMAIN ch = 1 .. Len(ch) /\ Head(ch) = ch[1]
      BY EmptySeq, LenProperties
    <2>2. r \in Seq(PositionEvent) /\ Len(r) = l - 1 /\ \A i \in 1 .. Len(r) : r[i] = ch[i + 1]
      BY HeadTailProperties
    <2> HIDE DEF r
    <2>3. QED BY <2>1, <2>2
  <1> HIDE DEF r, l
  <1>2. \A j \in 2 .. l : j - 1 \in DOMAIN r /\ r[j - 1] = ch[j]
    <2>1. \A j \in 2 .. l : j - 1 \in 1 .. l - 1 /\ j - 1 + 1 = j
      BY <1>1
    <2>2. QED BY <1>1, <2>1
  <1>3. CASE Quiet(ch, k) /\ s = q
    <2>1. Quiet(r, k) /\ ~IsTrade(Head(ch), k)
      BY <1>1, <1>3 DEF Quiet
    <2>2. QED BY <1>3, <2>1 DEF WillSave, r
  <1>4. CASE LastSays(ch, k, q)
    <2>1. PICK n \in 1 .. l : /\ IsTrade(ch[n], k) /\ ch[n].qty = q
                              /\ \A i \in 1 .. l : i > n => ~IsTrade(ch[i], k)
      BY <1>1, <1>4 DEF LastSays
    <2>2. CASE n = 1
      <3>1. Quiet(r, k)
        BY <1>1, <2>1, <2>2 DEF Quiet
      <3>2. QED BY <1>1, <2>1, <2>2, <3>1 DEF WillSave, r
    <2>3. CASE n # 1
      <3>1. n \in 2 .. l /\ n - 1 \in DOMAIN r /\ r[n - 1] = ch[n]
        BY <1>1, <1>2, <2>3
      <3>2. ASSUME NEW j \in DOMAIN r, j > n - 1 PROVE ~IsTrade(r[j], k)
        BY <1>1, <2>1, <3>2
      <3>3. LastSays(r, k, q)
        BY <2>1, <3>1, <3>2 DEF LastSays
      <3>4. QED BY <3>3 DEF WillSave, r
    <2>4. QED BY <2>2, <2>3
  <1>5. QED BY <1>3, <1>4 DEF WillSave

-----------------------------------------------------------------------------
(* The invariant *)

\* What will be saved of every position is what it is now.
CatchUp == ~dropped => \A k \in Keys : WillSave(eventCh, k, saved[k], pos[k].qty)


\* What a trade does to every position, and the two events it sends
LEMMA TradeMoves ==
    ASSUME TypeOK, NEW b \in Keys, NEW s \in Keys, NEW q \in Quantities, NEW p \in Prices,
           ApplyTrade(b, s, q, p)
    PROVE  /\ pos' \in [Keys -> Position]
           /\ \A k \in Keys : pos'[k].qty = pos[k].qty + (IF k = b THEN q ELSE 0)
                                                       - (IF k = s THEN q ELSE 0)
           /\ \E e \in PositionEvent, d \in PositionEvent :
                /\ Emit(<<e, d>>)
                /\ IsTrade(e, b) /\ (b # s => e.qty = pos'[b].qty)
                /\ IsTrade(d, s) /\ d.qty = pos'[s].qty
  <1>1. pos \in [Keys -> Position] /\ q \in Nat
    BY PositionsAssumption DEF TypeOK, Position
  <1> DEFINE nb == ApplyBuy(pos[b], q, p)
             bought == [pos EXCEPT ![b] = nb]
             ns == ApplyShortSell(bought[s], q, p)
             sold == [bought EXCEPT ![s] = ns]
  <1>2. pos' = sold
    BY DEF ApplyTrade
  <1>3. Emit(<<Copy(b, bought[b], "trade"), Copy(s, sold[s], "trade")>>)
    BY DEF ApplyTrade
  <1>4. nb \in Position /\ nb.qty = pos[b].qty + q
    BY <1>1, BuyMoves
  <1> HIDE DEF nb
  <1>5. bought \in [Keys -> Position] /\ bought[b] = nb /\ \A k \in Keys : k # b => bought[k] = pos[k]
    BY <1>1, <1>4
  <1> HIDE DEF bought
  <1>6. ns \in Position /\ ns.qty = bought[s].qty - q
    BY <1>5, SellMoves
  <1> HIDE DEF ns
  <1>7. sold \in [Keys -> Position] /\ sold[s] = ns /\ \A k \in Keys : k # s => sold[k] = bought[k]
    BY <1>5, <1>6
  <1> HIDE DEF sold
  <1>8. \A k \in Keys : pos[k].qty \in Int /\ bought[k].qty \in Int /\ sold[k].qty \in Int
    BY <1>1, <1>5, <1>7 DEF Position
  <1>9. ASSUME NEW k \in Keys
        PROVE  sold[k].qty = pos[k].qty + (IF k = b THEN q ELSE 0) - (IF k = s THEN q ELSE 0)
    <2>1. bought[k].qty = pos[k].qty + (IF k = b THEN q ELSE 0)
      BY <1>1, <1>4, <1>5, <1>8
    <2>2. sold[k].qty = bought[k].qty - (IF k = s THEN q ELSE 0)
      BY <1>1, <1>6, <1>7, <1>8
    <2>3. QED BY <1>1, <1>8, <2>1, <2>2
  <1> DEFINE e == Copy(b, bought[b], "trade")
             d == Copy(s, sold[s], "trade")
  <1>10. e \in PositionEvent /\ d \in PositionEvent
    BY <1>8 DEF Copy, PositionEvent
  <1>11. IsTrade(e, b) /\ e.qty = bought[b].qty /\ IsTrade(d, s) /\ d.qty = sold[s].qty
    BY DEF Copy, IsTrade
  <1>12. Emit(<<e, d>>)
    BY <1>3
  <1> HIDE DEF e, d
  <1>13. b # s => e.qty = pos'[b].qty
    BY <1>2, <1>7, <1>11
  <1>14. QED BY <1>2, <1>7, <1>9, <1>10, <1>11, <1>12, <1>13

\* What a tick does: it sends events, none of them about a trade.
LEMMA TickMoves ==
    ASSUME TypeOK, NEW ltp \in Prices, UpdateLTP(ltp)
    PROVE  /\ pos' \in [Keys -> Position]
           /\ \A k \in Keys : pos'[k].qty = pos[k].qty
           /\ \E es \in Seq(PositionEvent) : Emit(es) /\ \A k : Quiet(es, k)
  <1>1. pos \in [Keys -> Position]
    BY DEF TypeOK, Position
  <1>2. pos' = [k \in Keys |-> Mark(pos[k], ltp)]
    BY DEF UpdateLTP
  <1>3. \A k \in Keys : Mark(pos[k], ltp) \in Position /\ Mark(pos[k], ltp).qty = pos[k].qty
    BY <1>1, MarkKeeps
  <1> DEFINE open == {k \in Keys : pos[k].qty # 0}
  <1>4. Cardinality(open) \in Nat
    BY PositionsAssumption, FS_Subset, FS_CardinalityType
  <1>5. PICK ks \in [1 .. Cardinality(open) -> open] :
               Emit([n \in DOMAIN ks |-> Copy(ks[n], pos[ks[n]], "price_tick")])
    BY DEF UpdateLTP
  <1> DEFINE es == [n \in DOMAIN ks |-> Copy(ks[n], pos[ks[n]], "price_tick")]
  <1>6. \A n \in DOMAIN ks : es[n] \in PositionEvent /\ es[n].trigger = "price_tick"
    <2>1. \A n \in DOMAIN ks : ks[n] \in Keys /\ pos[ks[n]].qty \in Int
      BY <1>1 DEF Position
    <2>2. QED BY <2>1 DEF Copy, PositionEvent
  <1>7. DOMAIN es = 1 .. Cardinality(open)
    OBVIOUS
  <1>8. Emit(es)
    BY <1>5
  <1> HIDE DEF es, open
  <1>9. es \in Seq(PositionEvent)
    <2>1. es = [n \in 1 .. Cardinality(open) |-> es[n]]
      BY <1>7 DEF es
    <2>2. \A n \in 1 .. Cardinality(open) : es[n] \in PositionEvent
      BY <1>6, <1>7 DEF es
    <2>3. es \in [1 .. Cardinality(open) -> PositionEvent]
      BY <2>1, <2>2
    <2>4. QED BY <1>4, <2>3
  <1>10. \A k : Quiet(es, k)
    BY <1>6, <1>7 DEF Quiet, IsTrade, es
  <1>11. QED BY <1>2, <1>3, <1>8, <1>9, <1>10

-----------------------------------------------------------------------------
(* One step *)

LEMMA TypesStep ==
    ASSUME TypeOK, [Next]_vars
    PROVE  TypeOK'
  <1> USE DEF Position, PositionEvent, Trade
  <1>1. ASSUME NEW b \in Keys, NEW s \in Keys, NEW q \in Quantities, NEW p \in Prices,
               ApplyTrade(b, s, q, p)
        PROVE  TypeOK'
    <2>1. pos' \in [Keys -> Position]
      BY <1>1, TradeMoves
    <2>2. eventCh' \in Seq(PositionEvent) /\ Len(eventCh') <= EventCap /\ dropped' \in BOOLEAN
      <3>1. PICK e \in PositionEvent, d \in PositionEvent : Emit(<<e, d>>)
        BY <1>1, TradeMoves
      <3>2. <<e, d>> \in Seq(PositionEvent)
        OBVIOUS
      <3>3. QED BY <3>1, <3>2, EmitAll
    <2>3. trades' \in Seq(Trade) /\ marked' \in BOOLEAN /\ saved' = saved
      <3>1. [buyer |-> b, seller |-> s, qty |-> q, price |-> p] \in Trade
        OBVIOUS
      <3>2. QED BY <1>1, <3>1, AppendProperties DEF ApplyTrade, TypeOK
    <2>4. QED BY <2>1, <2>2, <2>3 DEF TypeOK
  <1>2. ASSUME NEW ltp \in Prices, UpdateLTP(ltp) PROVE TypeOK'
    <2>1. pos' \in [Keys -> Position] /\ \E es \in Seq(PositionEvent) : Emit(es)
      BY <1>2, TickMoves
    <2>2. eventCh' \in Seq(PositionEvent) /\ Len(eventCh') <= EventCap /\ dropped' \in BOOLEAN
      BY <2>1, EmitAll
    <2>3. UNCHANGED <<saved, trades>> /\ marked' \in BOOLEAN
      BY <1>2 DEF UpdateLTP
    <2>4. QED BY <2>1, <2>2, <2>3 DEF TypeOK
  <1>3. ASSUME Consume PROVE TypeOK'
    <2>1. /\ eventCh \in Seq(PositionEvent) /\ eventCh # <<>> /\ eventCh' = Tail(eventCh)
          /\ UNCHANGED <<pos, trades, marked>>
      BY <1>3 DEF Consume, TypeOK
    <2>2. /\ Head(eventCh) \in PositionEvent /\ eventCh' \in Seq(PositionEvent)
          /\ Len(eventCh') = Len(eventCh) - 1 /\ Len(eventCh) \in Nat
      <3> HIDE DEF PositionEvent
      <3>1. QED BY <2>1, Received, LenProperties
    <2>3. Len(eventCh') <= EventCap
      BY <2>2, PositionsAssumption DEF TypeOK
    <2>4. saved' \in [Keys -> Int] /\ dropped' \in BOOLEAN
      <3>1. saved \in [Keys -> Int] /\ dropped \in BOOLEAN
        BY DEF TypeOK
      <3>2. Head(eventCh).key \in Keys /\ Head(eventCh).qty \in Int
        BY <2>2
      <3>3. dropped' = dropped \/ dropped' = TRUE
        BY <1>3 DEF Consume
      <3>4. saved' = saved \/ saved' = [saved EXCEPT ![Head(eventCh).key] = Head(eventCh).qty]
        BY <1>3 DEF Consume
      <3>5. saved' \in [Keys -> Int]
        BY <3>1, <3>2, <3>4
      <3>6. QED BY <3>1, <3>3, <3>5
    <2>5. QED BY <2>1, <2>2, <2>3, <2>4 DEF TypeOK
  <1>4. CASE UNCHANGED vars
    BY <1>4 DEF TypeOK, vars
  <1>5. QED BY <1>1, <1>2, <1>3, <1>4 DEF Next, TradeWithoutOrder

LEMMA CatchUpStep ==
    ASSUME TypeOK, CatchUp, [Next]_vars
    PROVE  CatchUp'
  <1>0. eventCh \in Seq(PositionEvent) /\ saved \in [Keys -> Int]
    BY DEF TypeOK, PositionEvent
  <1>1. ASSUME NEW b \in Keys, NEW s \in Keys, NEW q \in Quantities, NEW p \in Prices,
               ApplyTrade(b, s, q, p), ~dropped', NEW k \in Keys
        PROVE  WillSave(eventCh', k, saved'[k], pos'[k].qty)
    <2>1. PICK e \in PositionEvent, d \in PositionEvent :
             /\ Emit(<<e, d>>)
             /\ IsTrade(e, b) /\ (b # s => e.qty = pos'[b].qty)
             /\ IsTrade(d, s) /\ d.qty = pos'[s].qty
      BY <1>1, TradeMoves
    <2> DEFINE es == <<e, d>>
    <2>2. es \in Seq(PositionEvent) /\ DOMAIN es = {1, 2} /\ es[1] = e /\ es[2] = d
      OBVIOUS
    <2> HIDE DEF es
    <2>3. ~dropped /\ eventCh' = eventCh \o es /\ saved' = saved
      BY <1>1, <2>1, <2>2, EmitAll DEF es, ApplyTrade
    <2>4. WillSave(eventCh, k, saved[k], pos[k].qty)
      BY <2>3 DEF CatchUp
    <2>5. CASE k = s
      <3>1. LastSays(es, k, pos'[k].qty)
        BY <2>1, <2>2, <2>5 DEF LastSays
      <3>2. QED BY <1>0, <2>2, <2>3, <3>1, SendSaves
    <2>6. CASE k = b /\ k # s
      <3>1. ~IsTrade(d, k)
        BY <2>1, <2>6 DEF IsTrade
      <3>2. LastSays(es, k, pos'[k].qty)
        BY <2>1, <2>2, <2>6, <3>1 DEF LastSays
      <3>3. QED BY <1>0, <2>2, <2>3, <3>2, SendSaves
    <2>7. CASE k # b /\ k # s
      <3>1. Quiet(es, k)
        BY <2>1, <2>2, <2>7 DEF Quiet, IsTrade
      <3>2. pos[k].qty \in Int
        BY DEF TypeOK
      <3>3. pos'[k].qty = pos[k].qty + 0 - 0
        BY <1>1, <2>7, TradeMoves
      <3>4. pos'[k].qty = pos[k].qty
        BY <3>2, <3>3
      <3>5. QED BY <1>0, <2>2, <2>3, <2>4, <3>1, <3>4, SendSaves
    <2>8. QED BY <2>5, <2>6, <2>7
  <1>2. ASSUME NEW ltp \in Prices, UpdateLTP(ltp), ~dropped', NEW k \in Keys
        PROVE  WillSave(eventCh', k, saved'[k], pos'[k].qty)
    <2>1. PICK es \in Seq(PositionEvent) : Emit(es) /\ Quiet(es, k)
      BY <1>2, TickMoves
    <2>2. ~dropped /\ eventCh' = eventCh \o es /\ saved' = saved
      BY <1>2, <2>1, EmitAll DEF UpdateLTP
    <2>3. pos'[k].qty = pos[k].qty /\ WillSave(eventCh, k, saved[k], pos[k].qty)
      BY <1>2, <2>2, TickMoves DEF CatchUp
    <2>4. QED BY <1>0, <2>1, <2>2, <2>3, SendSaves
  <1>3. ASSUME Consume, ~dropped', NEW k \in Keys
        PROVE  WillSave(eventCh', k, saved'[k], pos'[k].qty)
    <2> DEFINE e == Head(eventCh)
    <2>1. /\ eventCh # <<>> /\ eventCh' = Tail(eventCh) /\ pos' = pos /\ ~dropped
          /\ saved' = IF e.trigger = "trade" THEN [saved EXCEPT ![e.key] = e.qty] ELSE saved
      BY <1>3 DEF Consume
    <2>2. WillSave(eventCh, k, saved[k], pos[k].qty) /\ e \in PositionEvent
      BY <1>0, <2>1, Received DEF CatchUp
    <2>3. saved'[k] = IF IsTrade(e, k) THEN e.qty ELSE saved[k]
      <3> HIDE DEF e
      <3>1. e.key \in Keys
        BY <2>2 DEF PositionEvent
      <3>2. QED BY <1>0, <2>1, <3>1 DEF IsTrade
    <2>4. WillSave(Tail(eventCh), k, IF IsTrade(e, k) THEN e.qty ELSE saved[k], pos[k].qty)
      BY <1>0, <2>1, <2>2, TakeSaves
    <2>5. QED BY <2>1, <2>3, <2>4
  <1>4. CASE UNCHANGED vars
    BY <1>4 DEF CatchUp, WillSave, LastSays, Quiet, vars
  <1>5. QED BY <1>1, <1>2, <1>3, <1>4 DEF CatchUp, Next, TradeWithoutOrder

\* What one more trade does to the histories
LEMMA TradeAppends ==
    ASSUME TypeOK, NEW b \in Keys, NEW s \in Keys, NEW q \in Quantities, NEW p \in Prices,
           ApplyTrade(b, s, q, p)
    PROVE  LET n == Len(trades) + 1
           IN /\ Len(trades) \in Nat /\ DOMAIN trades = 1 .. Len(trades) /\ Len(trades') = n
              /\ Quantity'[n] = q /\ Value'[n] = q * p
              /\ \A i \in DOMAIN trades : /\ Quantity'[i] = Quantity[i] /\ Value'[i] = Value[i]
                                         /\ Quantity[i] \in Nat /\ Value[i] \in Int
              /\ \A k \in Keys :
                   /\ Bought(k)' = IF k = b THEN Bought(k) \union {n} ELSE Bought(k)
                   /\ Sold(k)' = IF k = s THEN Sold(k) \union {n} ELSE Sold(k)
  <1> DEFINE t == [buyer |-> b, seller |-> s, qty |-> q, price |-> p]
             n == Len(trades) + 1
  <1>1. trades \in Seq(Trade) /\ t \in Trade /\ trades' = Append(trades, t)
    BY DEF TypeOK, Trade, ApplyTrade
  <1>2. t.buyer = b /\ t.seller = s /\ t.qty = q /\ t.price = p
    OBVIOUS
  <1> HIDE DEF t
  <1>3. /\ Len(trades) \in Nat /\ DOMAIN trades = 1 .. Len(trades)
        /\ \A i \in 1 .. Len(trades) : trades[i] \in Trade
    BY <1>1, LenProperties, ElementOfSeq
  <1>4. /\ DOMAIN trades' = 1 .. n /\ Len(trades') = n /\ trades'[n] = t
        /\ \A i \in 1 .. Len(trades) : trades'[i] = trades[i]
    BY <1>1, <1>3, AppendProperties
  <1>5. n \notin DOMAIN trades /\ DOMAIN trades' = DOMAIN trades \union {n}
    BY <1>3, <1>4
  <1>6. \A i \in DOMAIN trades : /\ trades[i].qty \in Nat /\ trades[i].price \in Nat
                                 /\ trades[i].qty * trades[i].price \in Int
    <2>1. \A x \in Trade : x.qty \in Quantities /\ x.price \in Prices
      BY DEF Trade
    <2>2. (\A x \in Quantities : x \in Nat) /\ (\A x \in Prices : x \in Nat)
      BY PositionsAssumption
    <2>3. \A x, y \in Nat : x * y \in Int
      OBVIOUS
    <2>4. QED BY <1>3, <2>1, <2>2, <2>3
  <1>7. \A i \in DOMAIN trades : trades'[i] = trades[i]
    BY <1>3, <1>4
  <1> HIDE DEF n
  <1>8. \A k \in Keys : /\ Bought(k)' = IF k = b THEN Bought(k) \union {n} ELSE Bought(k)
                        /\ Sold(k)' = IF k = s THEN Sold(k) \union {n} ELSE Sold(k)
    BY <1>2, <1>4, <1>5, <1>7 DEF Bought, Sold
  <1>9. /\ Quantity'[n] = q /\ Value'[n] = q * p
        /\ \A i \in DOMAIN trades : /\ Quantity'[i] = Quantity[i] /\ Value'[i] = Value[i]
                                   /\ Quantity[i] \in Nat /\ Value[i] \in Int
    BY <1>2, <1>4, <1>5, <1>6, <1>7 DEF Quantity, Value
  <1>10. QED BY <1>3, <1>4, <1>8, <1>9 DEF n

\* A sum over part of a history, before and after one more entry that may belong to it
LEMMA HistorySum ==
    ASSUME NEW D, IsFiniteSet(D), NEW n, n \notin D, NEW f, NEW g, g[n] \in Int,
           \A i \in D : g[i] = f[i] /\ f[i] \in Int,
           NEW S \in SUBSET D, NEW T, T = S \/ T = S \union {n}
    PROVE  /\ SumFunctionOnSet(f, S) \in Int
           /\ SumFunctionOnSet(g, T)
                = SumFunctionOnSet(f, S) + (IF T = S THEN 0 ELSE g[n])
  <1>1. IsFiniteSet(S)
    BY FS_Subset
  <1>2. SumFunctionOnSet(f, S) \in Int
    BY <1>1, SumIsInt DEF IsIntOn
  <1>3. SumFunctionOnSet(g, S) = SumFunctionOnSet(f, S)
    BY <1>1, SumAgree
  <1>4. SumFunctionOnSet(g, S \union {n}) = g[n] + SumFunctionOnSet(g, S)
    <2>1. n \notin S /\ IsIntOn(g, S \union {n})
      BY DEF IsIntOn
    <2>2. QED BY <1>1, <2>1, SumAdd
  <1>5. CASE T = S
    BY <1>2, <1>3, <1>5
  <1>6. CASE T # S
    <2>1. SumFunctionOnSet(g, T) = g[n] + SumFunctionOnSet(f, S)
      BY <1>3, <1>4, <1>6
    <2>2. QED BY <1>2, <1>6, <2>1
  <1>7. QED BY <1>5, <1>6

\* The shares and the money of a client's trades
BoughtQty(k) == SumFunctionOnSet(Quantity, Bought(k))
SoldQty(k) == SumFunctionOnSet(Quantity, Sold(k))
BoughtFor(k) == SumFunctionOnSet(Value, Bought(k))
SoldFor(k) == SumFunctionOnSet(Value, Sold(k))

\* What one more trade adds to them
LEMMA TradeAdds ==
    ASSUME TypeOK, NEW b \in Keys, NEW s \in Keys, NEW q \in Quantities, NEW p \in Prices,
           ApplyTrade(b, s, q, p), NEW k \in Keys
    PROVE  /\ BoughtQty(k) \in Nat /\ SoldQty(k) \in Nat
           /\ BoughtFor(k) \in Int /\ SoldFor(k) \in Int
           /\ BoughtQty(k)' = BoughtQty(k) + (IF k = b THEN q ELSE 0)
           /\ SoldQty(k)' = SoldQty(k) + (IF k = s THEN q ELSE 0)
           /\ BoughtFor(k)' = BoughtFor(k) + (IF k = b THEN q * p ELSE 0)
           /\ SoldFor(k)' = SoldFor(k) + (IF k = s THEN q * p ELSE 0)
  <1> DEFINE n == Len(trades) + 1
             D == DOMAIN trades
             B == Bought(k)
             C == Sold(k)
             f == Quantity
             g == Quantity'
             v == Value
             w == Value'
  <1>1. q \in Nat /\ q * p \in Int
    <2>1. q \in Nat /\ p \in Nat
      BY PositionsAssumption
    <2>2. QED BY <2>1
  <1>2. IsFiniteSet(D) /\ n \notin D /\ B \in SUBSET D /\ C \in SUBSET D
    <2>1. Len(trades) \in Nat /\ D = 1 .. Len(trades)
      BY TradeAppends
    <2>2. n \notin D
      BY <2>1
    <2>3. IsFiniteSet(D)
      BY <2>1, FS_Interval
    <2>4. QED BY <2>2, <2>3 DEF Bought, Sold
  <1>3. /\ g[n] = q /\ w[n] = q * p
        /\ \A i \in D : g[i] = f[i] /\ w[i] = v[i] /\ f[i] \in Nat /\ v[i] \in Int
        /\ Bought(k)' = IF k = b THEN B \union {n} ELSE B
        /\ Sold(k)' = IF k = s THEN C \union {n} ELSE C
    BY TradeAppends
  <1>4. /\ SumFunctionOnSet(f, B) \in Nat /\ SumFunctionOnSet(f, C) \in Nat
    <2>1. IsFiniteSet(B) /\ IsFiniteSet(C)
      BY <1>2, FS_Subset
    <2>2. (\A i \in B : f[i] \in Nat) /\ (\A i \in C : f[i] \in Nat)
      BY <1>2, <1>3
    <2> HIDE DEF f, B, C
    <2>3. QED BY <2>1, <2>2, SumIsNat
  <1> DEFINE DB == Bought(k)'
             DC == Sold(k)'
  <1>5. /\ DB = IF k = b THEN B \union {n} ELSE B
        /\ DC = IF k = s THEN C \union {n} ELSE C
    BY <1>3
  <1> HIDE DEF n, D, B, C, f, g, v, w, DB, DC
  <1>6. /\ g[n] \in Int /\ w[n] \in Int
        /\ \A i \in D : g[i] = f[i] /\ f[i] \in Int
        /\ \A i \in D : w[i] = v[i] /\ v[i] \in Int
        /\ DB = B \/ DB = B \union {n}
        /\ DC = C \/ DC = C \union {n}
    BY <1>1, <1>3, <1>5
  <1>7. (DB = B <=> k # b) /\ (DC = C <=> k # s)
    BY <1>2, <1>5
  <1>8. /\ SumFunctionOnSet(g, DB) = SumFunctionOnSet(f, B) + (IF DB = B THEN 0 ELSE g[n])
        /\ SumFunctionOnSet(g, DC) = SumFunctionOnSet(f, C) + (IF DC = C THEN 0 ELSE g[n])
    BY <1>2, <1>6, HistorySum
  <1>9. /\ SumFunctionOnSet(v, B) \in Int /\ SumFunctionOnSet(v, C) \in Int
        /\ SumFunctionOnSet(w, DB) = SumFunctionOnSet(v, B) + (IF DB = B THEN 0 ELSE w[n])
        /\ SumFunctionOnSet(w, DC) = SumFunctionOnSet(v, C) + (IF DC = C THEN 0 ELSE w[n])
    BY <1>2, <1>6, HistorySum
  <1>10. /\ SumFunctionOnSet(g, DB) = SumFunctionOnSet(f, B) + (IF k = b THEN q ELSE 0)
         /\ SumFunctionOnSet(g, DC) = SumFunctionOnSet(f, C) + (IF k = s THEN q ELSE 0)
         /\ SumFunctionOnSet(w, DB) = SumFunctionOnSet(v, B) + (IF k = b THEN q * p ELSE 0)
         /\ SumFunctionOnSet(w, DC) = SumFunctionOnSet(v, C) + (IF k = s THEN q * p ELSE 0)
    BY <1>3, <1>7, <1>8, <1>9
  <1>11. QED
    BY <1>4, <1>9, <1>10
       DEF BoughtQty, SoldQty, BoughtFor, SoldFor, f, g, v, w, B, C, DB, DC

LEMMA SharesStep ==
    ASSUME TypeOK, SharesConserved, [Next]_vars
    PROVE  SharesConserved'
  <1>1. ASSUME NEW b \in Keys, NEW s \in Keys, NEW q \in Quantities, NEW p \in Prices,
               ApplyTrade(b, s, q, p)
        PROVE  SharesConserved'
    <2>0. q \in Nat /\ \A k \in Keys : pos[k].qty \in Int
      BY PositionsAssumption DEF TypeOK
    <2>1. \A k \in Keys : pos'[k].qty = pos[k].qty + (IF k = b THEN q ELSE 0)
                                                   - (IF k = s THEN q ELSE 0)
      BY <1>1, TradeMoves
    <2>2. ASSUME NEW k \in Keys
          PROVE  pos'[k].qty = SumFunctionOnSet(Quantity, Bought(k))'
                               - SumFunctionOnSet(Quantity, Sold(k))'
      <3> DEFINE bought == SumFunctionOnSet(Quantity, Bought(k))
                 sold == SumFunctionOnSet(Quantity, Sold(k))
                 nb == SumFunctionOnSet(Quantity, Bought(k))'
                 ns == SumFunctionOnSet(Quantity, Sold(k))'
                 x == IF k = b THEN q ELSE 0
                 y == IF k = s THEN q ELSE 0
      <3>1. /\ bought \in Int /\ sold \in Int /\ nb = bought + x /\ ns = sold + y
        BY <1>1, TradeAdds DEF BoughtQty, SoldQty
      <3>2. pos[k].qty = bought - sold /\ pos'[k].qty = pos[k].qty + x - y
        BY <2>1 DEF SharesConserved
      <3>3. x \in Int /\ y \in Int
        BY <2>0
      <3> HIDE DEF bought, sold, nb, ns, x, y
      <3>4. pos'[k].qty = nb - ns
        BY <3>1, <3>2, <3>3
      <3>5. QED BY <3>4 DEF nb, ns
    <2> DEFINE f == Net
               mid == [k \in Keys |-> pos[k].qty + (IF k = b THEN q ELSE 0)]
               g == Net'
    <2>3. /\ \A k \in Keys : f[k] \in Int /\ mid[k] \in Int /\ g[k] \in Int
          /\ mid[b] - f[b] = q /\ \A k \in Keys : k # b => mid[k] = f[k]
          /\ g[s] - mid[s] = -q /\ \A k \in Keys : k # s => g[k] = mid[k]
      BY <2>0, <2>1 DEF Net
    <2> HIDE DEF f, g, mid
    <2>4. /\ IsIntOn(f, Keys) /\ IsIntOn(mid, Keys) /\ g[s] \in Int /\ mid[b] \in Int
          /\ \A y \in Keys : y # b => mid[y] = f[y]
          /\ \A y \in Keys : y # s => g[y] = mid[y]
      BY <2>3 DEF IsIntOn
    <2>5. SumFunctionOnSet(mid, Keys) = SumFunctionOnSet(f, Keys) + (mid[b] - f[b])
      BY <2>4, PositionsAssumption, SumChange
    <2>6. SumFunctionOnSet(g, Keys) = SumFunctionOnSet(mid, Keys) + (g[s] - mid[s])
      BY <2>4, PositionsAssumption, SumChange
    <2>7. SumFunctionOnSet(f, Keys) = 0
      BY DEF SharesConserved, f
    <2>8. SumFunctionOnSet(g, Keys) = 0
      BY <2>0, <2>3, <2>5, <2>6, <2>7
    <2>9. QED BY <2>2, <2>8 DEF SharesConserved, g
  <1>2. ASSUME NEW ltp \in Prices, UpdateLTP(ltp) PROVE SharesConserved'
    <2>1. trades' = trades /\ \A k \in Keys : pos'[k].qty = pos[k].qty
      BY <1>2, TickMoves DEF UpdateLTP
    <2>2. Net' = Net
      BY <2>1 DEF Net
    <2>3. QED BY <2>1, <2>2 DEF SharesConserved, Quantity, Bought, Sold
  <1>3. CASE UNCHANGED <<pos, trades>>
    BY <1>3 DEF SharesConserved, Quantity, Bought, Sold, Net
  <1>4. QED BY <1>1, <1>2, <1>3 DEF Next, Consume, TradeWithoutOrder, vars

-----------------------------------------------------------------------------
(* Profit: what the books say of a position that was built up and then only reduced *)

\* The client of k bought, then at most sold what it had; or the other way round.
BuiltLong(k) ==
    /\ Bought(k) \intersect Sold(k) = {} /\ pos[k].qty >= 0
    /\ \A m \in Sold(k) : \A n \in Bought(k) : n < m
BuiltShort(k) ==
    /\ Bought(k) \intersect Sold(k) = {} /\ pos[k].qty <= 0
    /\ \A m \in Bought(k) : \A n \in Sold(k) : n < m

\* The average stands for what was paid, and the profit is what the sells made over it.
LongBooks(k) ==
    /\ pos[k].buyQty = BoughtQty(k)
    /\ Close(pos[k].buyAvg, BoughtQty(k), BoughtFor(k), Len(trades))
    /\ pos[k].realized = SoldFor(k) - pos[k].buyAvg * SoldQty(k)
ShortBooks(k) ==
    /\ pos[k].sellQty = SoldQty(k)
    /\ Close(pos[k].sellAvg, SoldQty(k), SoldFor(k), Len(trades))
    /\ pos[k].realized = pos[k].sellAvg * BoughtQty(k) - BoughtFor(k)

\* After a tick every open position is valued at the last price.
Valued(k) ==
    /\ pos[k].qty > 0 => pos[k].unrealized = (pos[k].last - pos[k].buyAvg) * pos[k].qty
    /\ pos[k].qty < 0 => pos[k].unrealized = (pos[k].sellAvg - pos[k].last) * (-pos[k].qty)

ProfitInv ==
    /\ \A k \in Keys : (BuiltLong(k) => LongBooks(k)) /\ (BuiltShort(k) => ShortBooks(k))
    /\ marked => \A k \in Keys : Valued(k)

\* Which half of a trade changes a position
LEMMA TradeSides ==
    ASSUME TypeOK, NEW b \in Keys, NEW s \in Keys, NEW q \in Quantities, NEW p \in Prices,
           ApplyTrade(b, s, q, p), NEW k \in Keys
    PROVE  /\ k = b /\ k # s => pos'[k] = ApplyBuy(pos[k], q, p)
           /\ k # b /\ k = s => pos'[k] = ApplyShortSell(pos[k], q, p)
           /\ k # b /\ k # s => pos'[k] = pos[k]
  <1> DEFINE bought == [pos EXCEPT ![b] = ApplyBuy(@, q, p)]
             sold == [bought EXCEPT ![s] = ApplyShortSell(@, q, p)]
  <1>1. pos' = sold /\ pos \in [Keys -> Position]
    BY DEF ApplyTrade, TypeOK, Position
  <1>2. DOMAIN bought = Keys /\ DOMAIN pos = Keys
    BY <1>1
  <1>3. bought[k] = IF k = b THEN ApplyBuy(pos[k], q, p) ELSE pos[k]
    BY <1>2
  <1> HIDE DEF bought
  <1>4. sold[k] = IF k = s THEN ApplyShortSell(bought[k], q, p) ELSE bought[k]
    BY <1>2
  <1>5. QED BY <1>1, <1>3, <1>4

\* No trades, no money.
LEMMA NothingTraded ==
    ASSUME NEW k
    PROVE  /\ Bought(k) = {} => BoughtQty(k) = 0 /\ BoughtFor(k) = 0
           /\ Sold(k) = {} => SoldQty(k) = 0 /\ SoldFor(k) = 0
  BY SumEmpty DEF BoughtQty, SoldQty, BoughtFor, SoldFor

\* One more trade keeps the average of a side that it does not touch close.
LEMMA StaysClose ==
    ASSUME NEW avg \in Nat, NEW x \in Nat, NEW cost \in Int, NEW n \in Nat,
           Close(avg, x, cost, n)
    PROVE  Close(avg, x, cost, n + 1)
  <1>1. n * x <= (n + 1) * x /\ n * x \in Nat /\ (n + 1) * x \in Nat
    BY ProductsGrow
  <1>2. avg * x \in Int
    OBVIOUS
  <1>3. QED BY <1>1, <1>2 DEF Close

LEMMA LongTrade ==
    ASSUME TypeOK, SharesConserved, NEW b \in Keys, NEW s \in Keys, NEW q \in Quantities,
           NEW p \in Prices, ApplyTrade(b, s, q, p), NEW k \in Keys,
           BuiltLong(k) => LongBooks(k), BuiltLong(k)'
    PROVE  LongBooks(k)'
  <1> DEFINE n == Len(trades)
             P == pos[k]
             B == BoughtQty(k)
             S == SoldQty(k)
             V == BoughtFor(k)
             W == SoldFor(k)
  <1>1. q \in Nat /\ q > 0 /\ p \in Nat /\ q * p \in Int /\ q * p = p * q
    <2>1. q \in Nat /\ q > 0 /\ p \in Nat
      BY PositionsAssumption
    <2>2. QED BY <2>1, Times
  <1>2. /\ P \in Position /\ P.qty \in Int /\ P.buyAvg \in Nat /\ P.buyQty \in Nat
        /\ P.realized \in Int
    BY DEF TypeOK, Position
  <1>3. n \in Nat /\ DOMAIN trades = 1 .. n /\ Len(trades') = n + 1
    BY TradeAppends
  <1>4. /\ Bought(k)' = IF k = b THEN Bought(k) \union {n + 1} ELSE Bought(k)
        /\ Sold(k)' = IF k = s THEN Sold(k) \union {n + 1} ELSE Sold(k)
    BY TradeAppends
  <1>5. /\ B \in Nat /\ S \in Nat /\ V \in Int /\ W \in Int
        /\ BoughtQty(k)' = B + (IF k = b THEN q ELSE 0)
        /\ SoldQty(k)' = S + (IF k = s THEN q ELSE 0)
        /\ BoughtFor(k)' = V + (IF k = b THEN q * p ELSE 0)
        /\ SoldFor(k)' = W + (IF k = s THEN q * p ELSE 0)
    BY TradeAdds
  <1>6. P.qty = B - S
    BY DEF SharesConserved, BoughtQty, SoldQty
  <1>7. pos'[k].qty = P.qty + (IF k = b THEN q ELSE 0) - (IF k = s THEN q ELSE 0)
    BY TradeMoves
  <1>8. /\ \A m \in Bought(k)' : m \notin Sold(k)'
        /\ \A m \in Sold(k)' : \A i \in Bought(k)' : i < m
        /\ pos'[k].qty >= 0
    BY DEF BuiltLong
  <1>9. /\ \A m \in Bought(k) : m \in DOMAIN trades
        /\ \A m \in Sold(k) : m \in DOMAIN trades
    BY DEF Bought, Sold
  <1>10. (\A m \in Bought(k) : m \notin Sold(k)) /\ \A m \in Sold(k) : \A i \in Bought(k) : i < m
    BY <1>4, <1>8
  <1> HIDE DEF n, P, B, S, V, W
  <1>11. CASE k = b /\ k = s
    BY <1>4, <1>8, <1>11
  <1>12. CASE k = b /\ k # s
    <2>1. Sold(k) = {}
      <3>1. \A m \in Sold(k) : n + 1 < m /\ m \in 1 .. n
        BY <1>3, <1>4, <1>8, <1>9, <1>12
      <3>2. QED BY <1>3, <3>1
    <2>2. S = 0 /\ W = 0
      BY <2>1, NothingTraded DEF S, W
    <2>3. P.qty >= 0
      BY <1>5, <1>6, <2>2
    <2>4. BuiltLong(k)
      BY <1>10, <2>3 DEF BuiltLong, P
    <2>5. P.buyQty = B /\ Close(P.buyAvg, B, V, n) /\ P.realized = W - P.buyAvg * S
      BY <2>4 DEF LongBooks, P, B, S, V, W, n
    <2> DEFINE R == ApplyBuy(P, q, p)
    <2>6. /\ pos'[k] = R
          /\ R.realized = P.realized /\ R.buyQty = P.buyQty + q
          /\ R.buyAvg = RoundDiv(P.buyAvg * P.buyQty + p * q, P.buyQty + q)
      BY <1>2, <1>12, <2>3, TradeSides, BuyToOpen DEF P
    <2>7. R.buyAvg \in Nat
      BY <1>2, BuyMoves DEF Position
    <2> HIDE DEF R
    <2>8. Close(RoundDiv(P.buyAvg * B + p * q, B + q), B + q, V + q * p, n + 1)
      BY <1>1, <1>2, <1>3, <1>5, <2>5, AverageStaysClose
    <2>9. R.buyQty = B + q /\ Close(R.buyAvg, B + q, V + q * p, n + 1)
      BY <2>5, <2>6, <2>8
    <2>10. R.realized = W - R.buyAvg * S
      BY <1>2, <2>2, <2>5, <2>6, <2>7
    <2>11. /\ BoughtQty(k)' = B + q /\ BoughtFor(k)' = V + q * p
           /\ SoldQty(k)' = S /\ SoldFor(k)' = W
      BY <1>5, <1>12, <2>2
    <2>12. QED BY <1>3, <2>6, <2>9, <2>10, <2>11 DEF LongBooks
  <1>13. CASE k # b /\ k = s
    <2>1. P.qty - q >= 0
      BY <1>2, <1>1, <1>7, <1>8, <1>13
    <2>2. BuiltLong(k)
      BY <1>1, <1>2, <1>10, <2>1 DEF BuiltLong, P
    <2>3. P.buyQty = B /\ Close(P.buyAvg, B, V, n) /\ P.realized = W - P.buyAvg * S
      BY <2>2 DEF LongBooks, P, B, S, V, W, n
    <2> DEFINE R == ApplyShortSell(P, q, p)
    <2>4. /\ pos'[k] = R
          /\ R.realized = P.realized + (p - P.buyAvg) * q
          /\ R.buyQty = P.buyQty /\ R.buyAvg = P.buyAvg
      BY <1>2, <1>13, <2>1, TradeSides, SellToReduce DEF P
    <2> HIDE DEF R
    <2>5. Close(R.buyAvg, B, V, n + 1)
      BY <1>2, <1>3, <1>5, <2>3, <2>4, StaysClose
    <2>6. R.realized = (W + q * p) - R.buyAvg * (S + q)
      <3>1. /\ (p - P.buyAvg) * q = q * p - P.buyAvg * q
            /\ P.buyAvg * (S + q) = P.buyAvg * S + P.buyAvg * q
            /\ P.buyAvg * q \in Int /\ P.buyAvg * S \in Int
        BY <1>1, <1>2, <1>5, Times
      <3>2. QED BY <1>1, <1>2, <1>5, <2>3, <2>4, <3>1
    <2>7. /\ BoughtQty(k)' = B /\ BoughtFor(k)' = V
          /\ SoldQty(k)' = S + q /\ SoldFor(k)' = W + q * p
      BY <1>5, <1>13
    <2>8. QED BY <1>3, <2>3, <2>4, <2>5, <2>6, <2>7 DEF LongBooks
  <1>14. CASE k # b /\ k # s
    <2>1. pos'[k] = P
      BY <1>14, TradeSides DEF P
    <2>2. BuiltLong(k)
      BY <1>8, <1>10, <2>1 DEF BuiltLong, P
    <2>3. P.buyQty = B /\ Close(P.buyAvg, B, V, n) /\ P.realized = W - P.buyAvg * S
      BY <2>2 DEF LongBooks, P, B, S, V, W, n
    <2>4. Close(P.buyAvg, B, V, n + 1)
      BY <1>2, <1>3, <1>5, <2>3, StaysClose
    <2>5. /\ BoughtQty(k)' = B /\ BoughtFor(k)' = V /\ SoldQty(k)' = S /\ SoldFor(k)' = W
      BY <1>5, <1>14
    <2>6. QED BY <1>3, <2>1, <2>3, <2>4, <2>5 DEF LongBooks
  <1>15. QED BY <1>11, <1>12, <1>13, <1>14

LEMMA ShortTrade ==
    ASSUME TypeOK, SharesConserved, NEW b \in Keys, NEW s \in Keys, NEW q \in Quantities,
           NEW p \in Prices, ApplyTrade(b, s, q, p), NEW k \in Keys,
           BuiltShort(k) => ShortBooks(k), BuiltShort(k)'
    PROVE  ShortBooks(k)'
  <1> DEFINE n == Len(trades)
             P == pos[k]
             B == BoughtQty(k)
             S == SoldQty(k)
             V == BoughtFor(k)
             W == SoldFor(k)
  <1>1. q \in Nat /\ q > 0 /\ p \in Nat /\ q * p \in Int /\ q * p = p * q
    <2>1. q \in Nat /\ q > 0 /\ p \in Nat
      BY PositionsAssumption
    <2>2. QED BY <2>1, Times
  <1>2. /\ P \in Position /\ P.qty \in Int /\ P.sellAvg \in Nat /\ P.sellQty \in Nat
        /\ P.realized \in Int
    BY DEF TypeOK, Position
  <1>3. n \in Nat /\ DOMAIN trades = 1 .. n /\ Len(trades') = n + 1
    BY TradeAppends
  <1>4. /\ Bought(k)' = IF k = b THEN Bought(k) \union {n + 1} ELSE Bought(k)
        /\ Sold(k)' = IF k = s THEN Sold(k) \union {n + 1} ELSE Sold(k)
    BY TradeAppends
  <1>5. /\ B \in Nat /\ S \in Nat /\ V \in Int /\ W \in Int
        /\ BoughtQty(k)' = B + (IF k = b THEN q ELSE 0)
        /\ SoldQty(k)' = S + (IF k = s THEN q ELSE 0)
        /\ BoughtFor(k)' = V + (IF k = b THEN q * p ELSE 0)
        /\ SoldFor(k)' = W + (IF k = s THEN q * p ELSE 0)
    BY TradeAdds
  <1>6. P.qty = B - S
    BY DEF SharesConserved, BoughtQty, SoldQty
  <1>7. pos'[k].qty = P.qty + (IF k = b THEN q ELSE 0) - (IF k = s THEN q ELSE 0)
    BY TradeMoves
  <1>8. /\ \A m \in Bought(k)' : m \notin Sold(k)'
        /\ \A m \in Bought(k)' : \A i \in Sold(k)' : i < m
        /\ pos'[k].qty <= 0
    BY DEF BuiltShort
  <1>9. /\ \A m \in Bought(k) : m \in DOMAIN trades
        /\ \A m \in Sold(k) : m \in DOMAIN trades
    BY DEF Bought, Sold
  <1>10. (\A m \in Bought(k) : m \notin Sold(k)) /\ \A m \in Bought(k) : \A i \in Sold(k) : i < m
    BY <1>4, <1>8
  <1> HIDE DEF n, P, B, S, V, W
  <1>11. CASE k = b /\ k = s
    BY <1>4, <1>8, <1>11
  <1>12. CASE k # b /\ k = s
    <2>1. Bought(k) = {}
      <3>1. \A m \in Bought(k) : n + 1 < m /\ m \in 1 .. n
        BY <1>3, <1>4, <1>8, <1>9, <1>12
      <3>2. QED BY <1>3, <3>1
    <2>2. B = 0 /\ V = 0
      BY <2>1, NothingTraded DEF B, V
    <2>3. P.qty <= 0
      BY <1>5, <1>6, <2>2
    <2>4. BuiltShort(k)
      BY <1>10, <2>3 DEF BuiltShort, P
    <2>5. P.sellQty = S /\ Close(P.sellAvg, S, W, n) /\ P.realized = P.sellAvg * B - V
      BY <2>4 DEF ShortBooks, P, B, S, V, W, n
    <2> DEFINE R == ApplyShortSell(P, q, p)
    <2>6. /\ pos'[k] = R
          /\ R.realized = P.realized /\ R.sellQty = P.sellQty + q
          /\ R.sellAvg = RoundDiv(P.sellAvg * P.sellQty + p * q, P.sellQty + q)
      BY <1>2, <1>12, <2>3, TradeSides, SellToOpen DEF P
    <2>7. R.sellAvg \in Nat
      BY <1>2, SellMoves DEF Position
    <2> HIDE DEF R
    <2>8. Close(RoundDiv(P.sellAvg * S + p * q, S + q), S + q, W + q * p, n + 1)
      BY <1>1, <1>2, <1>3, <1>5, <2>5, AverageStaysClose
    <2>9. R.sellQty = S + q /\ Close(R.sellAvg, S + q, W + q * p, n + 1)
      BY <2>5, <2>6, <2>8
    <2>10. R.realized = R.sellAvg * B - V
      BY <1>2, <2>2, <2>5, <2>6, <2>7
    <2>11. /\ BoughtQty(k)' = B /\ BoughtFor(k)' = V
           /\ SoldQty(k)' = S + q /\ SoldFor(k)' = W + q * p
      BY <1>5, <1>12, <2>2
    <2>12. QED BY <1>3, <2>6, <2>9, <2>10, <2>11 DEF ShortBooks
  <1>13. CASE k = b /\ k # s
    <2>1. P.qty + q <= 0
      BY <1>2, <1>1, <1>7, <1>8, <1>13
    <2>2. BuiltShort(k)
      BY <1>1, <1>2, <1>10, <2>1 DEF BuiltShort, P
    <2>3. P.sellQty = S /\ Close(P.sellAvg, S, W, n) /\ P.realized = P.sellAvg * B - V
      BY <2>2 DEF ShortBooks, P, B, S, V, W, n
    <2> DEFINE R == ApplyBuy(P, q, p)
    <2>4. /\ pos'[k] = R
          /\ R.realized = P.realized + (P.sellAvg - p) * q
          /\ R.sellQty = P.sellQty /\ R.sellAvg = P.sellAvg
      BY <1>2, <1>13, <2>1, TradeSides, BuyToCover DEF P
    <2> HIDE DEF R
    <2>5. Close(R.sellAvg, S, W, n + 1)
      BY <1>2, <1>3, <1>5, <2>3, <2>4, StaysClose
    <2>6. R.realized = R.sellAvg * (B + q) - (V + q * p)
      <3>1. /\ (P.sellAvg - p) * q = P.sellAvg * q - q * p
            /\ P.sellAvg * (B + q) = P.sellAvg * B + P.sellAvg * q
            /\ P.sellAvg * q \in Int /\ P.sellAvg * B \in Int
        BY <1>1, <1>2, <1>5, Times
      <3>2. QED BY <1>1, <1>2, <1>5, <2>3, <2>4, <3>1
    <2>7. /\ BoughtQty(k)' = B + q /\ BoughtFor(k)' = V + q * p
          /\ SoldQty(k)' = S /\ SoldFor(k)' = W
      BY <1>5, <1>13
    <2>8. QED BY <1>3, <2>3, <2>4, <2>5, <2>6, <2>7 DEF ShortBooks
  <1>14. CASE k # b /\ k # s
    <2>1. pos'[k] = P
      BY <1>14, TradeSides DEF P
    <2>2. BuiltShort(k)
      BY <1>8, <1>10, <2>1 DEF BuiltShort, P
    <2>3. P.sellQty = S /\ Close(P.sellAvg, S, W, n) /\ P.realized = P.sellAvg * B - V
      BY <2>2 DEF ShortBooks, P, B, S, V, W, n
    <2>4. Close(P.sellAvg, S, W, n + 1)
      BY <1>2, <1>3, <1>5, <2>3, StaysClose
    <2>5. /\ BoughtQty(k)' = B /\ BoughtFor(k)' = V /\ SoldQty(k)' = S /\ SoldFor(k)' = W
      BY <1>5, <1>14
    <2>6. QED BY <1>3, <2>1, <2>3, <2>4, <2>5 DEF ShortBooks
  <1>15. QED BY <1>11, <1>12, <1>13, <1>14

\* Sums of quantities only grow with the set.
LEMMA SumPart ==
    ASSUME NEW f, NEW U, IsFiniteSet(U), \A i \in U : f[i] \in Nat, NEW A \in SUBSET U
    PROVE  /\ SumFunctionOnSet(f, A) \in Nat /\ SumFunctionOnSet(f, U) \in Nat
           /\ SumFunctionOnSet(f, A) <= SumFunctionOnSet(f, U)
  <1> DEFINE g == [i \in U |-> IF i \in A THEN f[i] ELSE 0]
  <1>1. IsFiniteSet(A)
    BY FS_Subset
  <1>2. SumFunctionOnSet(f, A) \in Nat /\ SumFunctionOnSet(f, U) \in Nat
    BY <1>1, SumIsNat
  <1>3. /\ IsIntOn(g, U) /\ IsIntOn(f, U) /\ \A i \in U : g[i] <= f[i]
        /\ \A i \in U \ A : g[i] = 0
        /\ \A i \in A : g[i] = f[i]
    BY DEF IsIntOn
  <1> HIDE DEF g
  <1>4. SumFunctionOnSet(g, U) = SumFunctionOnSet(g, A)
    BY <1>3, SumOver
  <1>5. SumFunctionOnSet(g, A) = SumFunctionOnSet(f, A)
    BY <1>1, <1>3, SumAgree
  <1>6. SumFunctionOnSet(g, U) <= SumFunctionOnSet(f, U)
    BY <1>3, SumLeq
  <1>7. QED BY <1>2, <1>4, <1>5, <1>6

LEMMA ProfitStep ==
    ASSUME TypeOK, SharesConserved, ProfitInv, [Next]_vars
    PROVE  ProfitInv'
  <1>1. ASSUME NEW b \in Keys, NEW s \in Keys, NEW q \in Quantities, NEW p \in Prices,
               ApplyTrade(b, s, q, p)
        PROVE  ProfitInv'
    <2>1. \A k \in Keys : /\ BuiltLong(k)' => LongBooks(k)'
                          /\ BuiltShort(k)' => ShortBooks(k)'
      BY <1>1, LongTrade, ShortTrade DEF ProfitInv
    <2>2. ~marked'
      BY <1>1 DEF ApplyTrade
    <2>3. QED BY <2>1, <2>2 DEF ProfitInv
  <1>2. ASSUME NEW ltp \in Prices, UpdateLTP(ltp) PROVE ProfitInv'
    <2>1. trades' = trades /\ pos' = [k \in Keys |-> Mark(pos[k], ltp)]
      BY <1>2 DEF UpdateLTP
    <2>2. ASSUME NEW k \in Keys
          PROVE  /\ pos'[k].qty = pos[k].qty /\ pos'[k].realized = pos[k].realized
                 /\ pos'[k].buyQty = pos[k].buyQty /\ pos'[k].sellQty = pos[k].sellQty
                 /\ pos'[k].buyAvg = pos[k].buyAvg /\ pos'[k].sellAvg = pos[k].sellAvg
                 /\ Valued(k)'
      <3>1. pos[k] \in Position /\ pos[k].qty \in Int /\ pos'[k] = Mark(pos[k], ltp)
        BY <2>1 DEF TypeOK, Position
      <3>2. CASE pos[k].qty = 0
        BY <3>1, <3>2 DEF Mark, Valued
      <3>3. CASE pos[k].qty > 0
        BY <3>1, <3>3 DEF Mark, Valued, Position
      <3>4. CASE pos[k].qty < 0
        BY <3>1, <3>4 DEF Mark, Valued, Position
      <3>5. QED BY <3>1, <3>2, <3>3, <3>4
    <2>3. \A k \in Keys : /\ Bought(k)' = Bought(k) /\ Sold(k)' = Sold(k)
                          /\ BoughtQty(k)' = BoughtQty(k) /\ SoldQty(k)' = SoldQty(k)
                          /\ BoughtFor(k)' = BoughtFor(k) /\ SoldFor(k)' = SoldFor(k)
      BY <2>1 DEF Bought, Sold, BoughtQty, SoldQty, BoughtFor, SoldFor, Quantity, Value
    <2>4. ASSUME NEW k \in Keys
          PROVE  (BuiltLong(k)' => LongBooks(k)') /\ (BuiltShort(k)' => ShortBooks(k)')
      <3>1. (BuiltLong(k)' => BuiltLong(k)) /\ (BuiltShort(k)' => BuiltShort(k))
        BY <2>2, <2>3 DEF BuiltLong, BuiltShort
      <3>2. (LongBooks(k) => LongBooks(k)') /\ (ShortBooks(k) => ShortBooks(k)')
        BY <2>1, <2>2, <2>3 DEF LongBooks, ShortBooks
      <3>3. QED BY <3>1, <3>2 DEF ProfitInv
    <2>5. QED BY <2>2, <2>4 DEF ProfitInv
  <1>3. CASE UNCHANGED <<pos, trades, marked>>
    BY <1>3 DEF ProfitInv, BuiltLong, BuiltShort, LongBooks, ShortBooks, Valued, BoughtQty,
                SoldQty, BoughtFor, SoldFor, Quantity, Value, Bought, Sold
  <1>4. QED BY <1>1, <1>2, <1>3 DEF Next, Consume, TradeWithoutOrder, vars

LEMMA ProfitInit ==
    ASSUME Init
    PROVE  ProfitInv
  <1>1. SUFFICES ASSUME NEW k \in Keys PROVE LongBooks(k) /\ ShortBooks(k)
    BY DEF Init, ProfitInv
  <1>2. pos[k] = NewPosition /\ Bought(k) = {} /\ Sold(k) = {} /\ Len(trades) = 0
    BY DEF Init, Bought, Sold
  <1>3. BoughtQty(k) = 0 /\ BoughtFor(k) = 0 /\ SoldQty(k) = 0 /\ SoldFor(k) = 0
    BY <1>2, NothingTraded
  <1>4. QED BY <1>2, <1>3 DEF LongBooks, ShortBooks, NewPosition, Close

\* The shown profit differs from the real one by the error of the average alone.
LEMMA ProfitIsExact ==
    ASSUME TypeOK, SharesConserved, ProfitInv, marked, NEW k \in Keys, OneWay(k)
    PROVE  Exact(k)
  <1> DEFINE n == Len(trades)
             P == pos[k]
             B == BoughtQty(k)
             S == SoldQty(k)
             V == BoughtFor(k)
             W == SoldFor(k)
             U == Bought(k) \union Sold(k)
             T == SumFunctionOnSet(Quantity, U)
             Error == P.realized + P.unrealized - (W - V + P.qty * P.last)
  <1>1. /\ P.qty \in Int /\ P.buyAvg \in Nat /\ P.sellAvg \in Nat /\ P.last \in Nat
        /\ P.realized \in Int /\ P.unrealized \in Int
    BY DEF TypeOK
  <1>2. n \in Nat /\ DOMAIN trades = 1 .. n /\ \A i \in 1 .. n : trades[i] \in Trade
    <2>1. trades \in Seq(Trade)
      BY DEF TypeOK, Trade
    <2>2. QED BY <2>1, LenProperties, ElementOfSeq
  <1>3. \A i \in DOMAIN trades : Quantity[i] \in Nat /\ Value[i] \in Int
    <2>1. \A x \in Trade : x.qty \in Nat /\ x.price \in Nat
      <3>1. \A x \in Trade : x.qty \in Quantities /\ x.price \in Prices
        BY DEF Trade
      <3>2. QED BY <3>1, PositionsAssumption
    <2>2. \A x \in Trade : x.qty * x.price \in Int
      BY <2>1, Times
    <2>3. QED BY <1>2, <2>1, <2>2 DEF Quantity, Value
  <1>4. /\ IsFiniteSet(U) /\ \A i \in U : Quantity[i] \in Nat
        /\ Bought(k) \in SUBSET U /\ Sold(k) \in SUBSET U
    <2>1. IsFiniteSet(DOMAIN trades)
      BY <1>2, FS_Interval
    <2>2. U \subseteq DOMAIN trades
      BY DEF Bought, Sold
    <2>3. QED BY <1>3, <2>1, <2>2, FS_Subset
  <1>5. /\ B \in Nat /\ S \in Nat /\ T \in Nat /\ B <= T /\ S <= T
    <2> HIDE DEF U
    <2>1. QED BY <1>4, SumPart DEF BoughtQty, SoldQty
  <1>6. V \in Int /\ W \in Int
    <2>1. IsFiniteSet(Bought(k)) /\ IsFiniteSet(Sold(k))
      BY <1>4, FS_Subset
    <2>2. IsIntOn(Value, Bought(k)) /\ IsIntOn(Value, Sold(k))
      BY <1>3 DEF IsIntOn, Bought, Sold
    <2>3. QED BY <2>1, <2>2, SumIsInt DEF BoughtFor, SoldFor
  <1>7. P.qty = B - S
    BY DEF SharesConserved, BoughtQty, SoldQty
  <1>8. n * B <= n * T /\ n * S <= n * T /\ n * B \in Nat /\ n * S \in Nat /\ n * T \in Nat
    BY <1>2, <1>5, ProductsGrow
  <1>9. Exact(k) <=> (2 * Error <= n * T /\ -2 * Error <= n * T)
    BY DEF Exact, Tolerance, Cash, BoughtFor, SoldFor
  <1> DEFINE lB == P.last * B
             lS == P.last * S
             bB == P.buyAvg * B
             bS == P.buyAvg * S
             sB == P.sellAvg * B
             sS == P.sellAvg * S
  <1>10. /\ lB \in Int /\ lS \in Int /\ bB \in Int /\ bS \in Int /\ sB \in Int /\ sS \in Int
         /\ P.qty * P.last = lB - lS
    <2>1. (B - S) * P.last = P.last * (B - S)
      BY <1>1, <1>5, Times
    <2>2. QED BY <1>1, <1>5, <1>7, <2>1, Times
  <1>11. CASE P.qty > 0
    <2>1. BuiltLong(k)
      BY <1>1, <1>11 DEF OneWay, BuiltLong
    <2>2. Close(P.buyAvg, B, V, n) /\ P.realized = W - bS
      BY <2>1 DEF ProfitInv, LongBooks
    <2>3. P.unrealized = (P.last - P.buyAvg) * (B - S)
      BY <1>7, <1>11 DEF ProfitInv, Valued
    <2>4. P.unrealized = lB - lS - bB + bS
      BY <1>1, <1>5, <2>3, TimesDifferences
    <2>5. 2 * bB - 2 * V <= n * B /\ -(2 * bB - 2 * V) <= n * B
      BY <2>2 DEF Close
    <2> HIDE DEF lB, lS, bB, bS, B, S, V, W, P, T, n
    <2>6. Error = V - bB
      BY <1>6, <1>10, <2>2, <2>4
    <2> DEFINE x == n * B
               y == n * T
    <2>7. x \in Nat /\ y \in Nat /\ x <= y /\ 2 * bB - 2 * V <= x /\ -(2 * bB - 2 * V) <= x
      BY <1>8, <2>5
    <2> HIDE DEF Error, x, y
    <2>8. 2 * Error <= y /\ -2 * Error <= y
      BY <1>6, <1>10, <2>6, <2>7
    <2>9. QED BY <1>9, <2>8 DEF y
  <1>12. CASE P.qty < 0
    <2>1. BuiltShort(k)
      BY <1>1, <1>12 DEF OneWay, BuiltShort
    <2>2. Close(P.sellAvg, S, W, n) /\ P.realized = sB - V
      BY <2>1 DEF ProfitInv, ShortBooks
    <2>3. P.unrealized = (P.sellAvg - P.last) * (S - B)
      <3>1. -P.qty = S - B
        BY <1>5, <1>7
      <3>2. QED BY <1>12, <3>1 DEF ProfitInv, Valued
    <2>4. P.unrealized = sS - sB - lS + lB
      BY <1>1, <1>5, <2>3, TimesDifferences
    <2>5. 2 * sS - 2 * W <= n * S /\ -(2 * sS - 2 * W) <= n * S
      BY <2>2 DEF Close
    <2> HIDE DEF lB, lS, sB, sS, B, S, V, W, P, T, n
    <2>6. Error = sS - W
      BY <1>6, <1>10, <2>2, <2>4
    <2> DEFINE x == n * S
               y == n * T
    <2>7. x \in Nat /\ y \in Nat /\ x <= y /\ 2 * sS - 2 * W <= x /\ -(2 * sS - 2 * W) <= x
      BY <1>8, <2>5
    <2> HIDE DEF Error, x, y
    <2>8. 2 * Error <= y /\ -2 * Error <= y
      BY <1>6, <1>10, <2>6, <2>7
    <2>9. QED BY <1>9, <2>8 DEF y
  <1>13. P.qty # 0
    BY <1>1 DEF OneWay
  <1>14. QED BY <1>1, <1>11, <1>12, <1>13

-----------------------------------------------------------------------------
(* The invariant and the theorems *)

PositionsInv == TypeOK /\ CatchUp /\ SharesConserved /\ ProfitInv

LEMMA PositionsInit == Init => PositionsInv
  <1> SUFFICES ASSUME Init PROVE PositionsInv
    OBVIOUS
  <1>1. TypeOK
    <2>1. pos \in [Keys -> Position]
      <3>1. NewPosition \in Position
        BY DEF NewPosition, Position
      <3>2. QED BY <3>1 DEF Init
    <2>2. Len(eventCh) <= EventCap /\ saved \in [Keys -> Int]
      BY PositionsAssumption DEF Init
    <2>3. \A S : eventCh \in Seq(S) /\ trades \in Seq(S)
      BY DEF Init
    <2>4. dropped \in BOOLEAN /\ marked \in BOOLEAN
      BY DEF Init
    <2>5. QED BY <2>1, <2>2, <2>3, <2>4 DEF TypeOK, Position
  <1>2. CatchUp
    BY DEF Init, NewPosition, CatchUp, WillSave, Quiet
  <1>3. SharesConserved
    <2>1. \A k \in Keys : Bought(k) = {} /\ Sold(k) = {} /\ pos[k].qty = 0
      BY DEF Init, NewPosition, Bought, Sold
    <2>2. \A k \in Keys : pos[k].qty = SumFunctionOnSet(Quantity, Bought(k))
                                       - SumFunctionOnSet(Quantity, Sold(k))
      BY <2>1, SumEmpty
    <2>3. SumFunctionOnSet(Net, Keys) = 0
      <3>1. \A k \in Keys : Net[k] = 0
        BY <2>1 DEF Net
      <3>2. QED BY <3>1, PositionsAssumption, SumZero
    <2>4. QED BY <2>2, <2>3 DEF SharesConserved
  <1>4. ProfitInv
    BY ProfitInit
  <1>5. QED BY <1>1, <1>2, <1>3, <1>4 DEF PositionsInv

LEMMA PositionsStep ==
    ASSUME PositionsInv, [Next]_vars
    PROVE  PositionsInv'
  BY TypesStep, CatchUpStep, SharesStep, ProfitStep DEF PositionsInv

\* Every variable keeps its type, the averages stay natural numbers and the channel
\* keeps its capacity (ApplyTrade, UpdateLTP, emit).
THEOREM PositionTypes == Spec => []TypeOK
  <1>1. PositionsInv => TypeOK
    BY DEF PositionsInv
  <1>2. QED BY <1>1, PositionsInit, PositionsStep, PTL DEF Spec

\* A position is what its trades add up to, and all positions together are zero, for
\* any number of clients and trades (applyBuy, applyShortSell).
THEOREM NoShareMadeOrLost == Spec => []SharesConserved
  <1>1. PositionsInv => SharesConserved
    BY DEF PositionsInv
  <1>2. QED BY <1>1, PositionsInit, PositionsStep, PTL DEF Spec

\* After a tick, an open position that was built up and then only reduced shows the
\* profit its client really has, for any prices, quantities and number of trades: the
\* error is at most half a paisa for each share and trade (applyBuy, applyShortSell,
\* UpdateLTP).
THEOREM ProfitShownIsReal == Spec => []OneWayProfitExact
  <1>1. PositionsInv => OneWayProfitExact
    BY ProfitIsExact DEF PositionsInv, OneWayProfitExact
  <1>2. QED BY <1>1, PositionsInit, PositionsStep, PTL DEF Spec

\* When the consumer has caught up and nothing was dropped, what was handed to the
\* writer is every position's quantity (emit, consumePositionEvents).
THEOREM WriterCatchesUp == Spec => []SavedCatchesUp
  <1>1. PositionsInv => SavedCatchesUp
    <2>1. SUFFICES ASSUME PositionsInv, eventCh = <<>>, ~dropped, NEW k \in Keys
                   PROVE  saved[k] = pos[k].qty
      BY DEF SavedCatchesUp
    <2>2. WillSave(<<>>, k, saved[k], pos[k].qty)
      BY <2>1 DEF PositionsInv, CatchUp
    <2>3. QED BY <2>2 DEF WillSave, LastSays
  <1>2. QED BY <1>1, PositionsInit, PositionsStep, PTL DEF Spec
=============================================================================
