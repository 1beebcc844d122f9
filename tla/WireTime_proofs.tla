--------------------------- MODULE WireTime_proofs ---------------------------
(***************************************************************************)
(* The conversions of a time field for every instant until 2038 and any    *)
(* number of hops.                                                         *)
(***************************************************************************)
EXTENDS WireTime, TLAPS

LEMMA BinadeBounds ==
    \A p \in Binade : p \in Nat /\ p > 0 /\ (p = 1073741824 \/ p <= 536870912)
BY SMT DEF Binade

LEMMA Parts ==
    ASSUME NEW x \in Instant
    PROVE  /\ x.sign \in {-1, 1}
           /\ x.sec \in Nat /\ x.sec <= LastSecond
           /\ x.ms \in 0 .. 999 /\ x.us \in 0 .. 999
           /\ LastSecond \in Nat
<1>1. LastSecond \in Nat
  BY SMT DEF LastSecond
<1>2. x.sec \in 0 .. LastSecond
  BY DEF Instant
<1>3. x.sign \in {-1, 1} /\ x.ms \in 0 .. 999 /\ x.us \in 0 .. 999
  BY SMT DEF Instant
<1> QED BY SMT, <1>1, <1>2, <1>3

Milli == 0 .. 999

(* timestamp() * 1000 is never rounded below an integer of milliseconds    *)
(* from 1.024 * 2^30 seconds on: the product is so large that its spacing  *)
(* is more than twice the error it inherits.                               *)
LEMMA EraIsLossless ==
    ASSUME NEW x \in Instant, InEra(x)
    PROVE  ~Lossy(x)
<1>1. x.sec \in Nat /\ x.sec >= EraBegins /\ x.ms \in 0 .. 999
  BY Parts DEF InEra
<1>2. ASSUME NEW p \in Binade, x.sec - p < p
      PROVE  ~BelowDoubling(x.sec, x.ms, p)
  <2>1. p = 1073741824
    BY SMT, <1>1, <1>2, BinadeBounds DEF EraBegins
  <2>2. 3 * (p \div 125) + (3 * (p % 125)) \div 125 = 25769803
    <3>1. 1073741824 \div 125 = 8589934
      BY SMT
    <3>2. 1073741824 % 125 = 74
      BY SMT
    <3>3. (3 * 74) \div 125 = 1
      BY SMT
    <3> QED BY SMT, <2>1, <3>1, <3>2, <3>3
  <2>3. x.sec - p > 25769803
    BY SMT, <1>1, <2>1 DEF EraBegins
  <2> QED BY SMT, <2>2, <2>3, <1>1, <2>1 DEF BelowDoubling
<1> QED BY SMT, <1>2 DEF Lossy

-----------------------------------------------------------------------------
(* Where doubles lose a millisecond.  What timestamp() drops grows by one  *)
(* stride, round a circle of 1000, from a millisecond to the next, and no  *)
(* stride, either way round, is short enough to stay within the lossy arc  *)
(* for six in a row.                                                       *)

Stride(p) == (304 * ((1073741824 \div p) % 1000)) % 1000

LEMMA NextResidue ==
    \A a, k \in Nat :
        /\ a % 1000 \in 0 .. 999
        /\ (a + k) % 1000 \in {(a % 1000) + (k % 1000), (a % 1000) + (k % 1000) - 1000}
BY SMT

LEMMA DroppedIsRound ==
    ASSUME NEW p \in Binade, NEW m \in Nat
    PROVE  /\ Dropped(m, p) \in 0 .. 999
           /\ Dropped(0, p) = 0
           /\ Dropped(m + 1, p) \in {Dropped(m, p) + Stride(p),
                                     Dropped(m, p) + Stride(p) - 1000}
<1>1. PICK r \in Nat : r = (1073741824 \div p) % 1000
  BY SMT, BinadeBounds
<1>2. PICK a \in Nat, k \in Nat : a = m * 304 * r /\ k = 304 * r
  <2>1. m * 304 * r \in Nat /\ 304 * r \in Nat
    BY SMT
  <2> QED BY <2>1
<1>3. (m + 1) * 304 * r = a + k
  BY SMT, <1>2
<1>4. 0 * 304 * r = 0
  BY SMT
<1>5. /\ Dropped(m, p) = a % 1000 /\ Dropped(0, p) = 0 % 1000
      /\ Dropped(m + 1, p) = (a + k) % 1000 /\ Stride(p) = k % 1000
  BY <1>1, <1>2, <1>3, <1>4 DEF Dropped, Stride
<1>6. 0 % 1000 = 0
  BY SMT
<1> QED BY <1>5, <1>6, NextResidue

StrideRange == 49 .. 951
LossyArc == 257 .. 500

LEMMA Strides == \A p \in Binade : Stride(p) \in StrideRange
BY SMT DEF Binade, Stride, StrideRange

Follows(s, x, y) == y = x + s \/ y = x + s - 1000

(* Within the arc a short stride always leads up, a long one always down.  *)
Apart(s, x, y) == IF s <= 500 THEN y >= x + 49 ELSE x >= y + 49

LEMMA StepOnTheArc ==
    ASSUME NEW s \in StrideRange, NEW x \in LossyArc, NEW y \in LossyArc,
           Follows(s, x, y)
    PROVE  Apart(s, x, y)
BY SMT DEF Follows, Apart, StrideRange, LossyArc

LEMMA ArcIsShort ==
    ASSUME NEW s \in StrideRange,
           NEW a \in LossyArc, NEW b \in LossyArc, NEW c \in LossyArc,
           NEW d \in LossyArc, NEW e \in LossyArc, NEW f \in LossyArc,
           Follows(s, a, b), Follows(s, b, c), Follows(s, c, d), Follows(s, d, e),
           Follows(s, e, f)
    PROVE  FALSE
<1>1. /\ Apart(s, a, b) /\ Apart(s, b, c) /\ Apart(s, c, d) /\ Apart(s, d, e)
      /\ Apart(s, e, f)
  BY StepOnTheArc
<1>2. CASE s <= 500
  BY SMT, <1>1, <1>2 DEF Apart, LossyArc
<1>3. CASE s > 500
  BY SMT, <1>1, <1>3 DEF Apart, LossyArc
<1> QED BY SMT, <1>2, <1>3 DEF StrideRange

LEMMA NoSixInARow ==
    ASSUME NEW p \in Binade, NEW n \in Nat,
           \A m \in n .. n + 5 : Dropped(m, p) \in LossyArc
    PROVE  FALSE
<1>1. /\ n \in n .. n + 5 /\ n + 1 \in n .. n + 5 /\ n + 2 \in n .. n + 5
      /\ n + 3 \in n .. n + 5 /\ n + 4 \in n .. n + 5 /\ n + 5 \in n .. n + 5
  BY SMT
<1>2. /\ (n + 1) + 1 = n + 2 /\ (n + 2) + 1 = n + 3
      /\ (n + 3) + 1 = n + 4 /\ (n + 4) + 1 = n + 5
      /\ n + 1 \in Nat /\ n + 2 \in Nat /\ n + 3 \in Nat /\ n + 4 \in Nat
  BY SMT
<1>3. \A m \in Nat : Follows(Stride(p), Dropped(m, p), Dropped(m + 1, p))
  BY DroppedIsRound DEF Follows
<1>4. /\ Follows(Stride(p), Dropped(n, p), Dropped(n + 1, p))
      /\ Follows(Stride(p), Dropped(n + 1, p), Dropped(n + 2, p))
      /\ Follows(Stride(p), Dropped(n + 2, p), Dropped(n + 3, p))
      /\ Follows(Stride(p), Dropped(n + 3, p), Dropped(n + 4, p))
      /\ Follows(Stride(p), Dropped(n + 4, p), Dropped(n + 5, p))
  BY <1>2, <1>3
<1>5. /\ Dropped(n, p) \in LossyArc /\ Dropped(n + 1, p) \in LossyArc
      /\ Dropped(n + 2, p) \in LossyArc /\ Dropped(n + 3, p) \in LossyArc
      /\ Dropped(n + 4, p) \in LossyArc /\ Dropped(n + 5, p) \in LossyArc
  BY <1>1
<1>6. Stride(p) \in StrideRange
  BY Strides
<1> QED BY <1>4, <1>5, <1>6, ArcIsShort, Zenon

(* The spacing of doubles is the same throughout a second.                 *)
LEMMA OneBinade ==
    ASSUME NEW p \in Binade, NEW q \in Binade, NEW n \in Nat,
           p <= n /\ n - p < p, q <= n /\ n - q < q
    PROVE  p = q
<1>1. \A a, b \in Binade : a < b => 2 * a <= b
  BY SMT DEF Binade
<1> QED BY SMT, <1>1, BinadeBounds

LEMMA LossyLooksAt ==
    ASSUME NEW x, NEW y, x.sec = y.sec, x.ms = y.ms, x.us = y.us
    PROVE  Lossy(x) => Lossy(y)
BY DEF Lossy, OnTheMillisecond

(* No six milliseconds of a second in a row are lossy.                     *)
LEMMA RunsAreShort ==
    ASSUME NEW g \in Instant, NEW k \in Nat, k + 5 \in Milli,
           \A x \in Instant :
              x.sec = g.sec /\ x.us = 0 /\ x.ms \in k .. k + 5 => Lossy(x)
    PROVE  FALSE
<1> DEFINE Halves(m, p) == p <= g.sec /\ g.sec - p < p /\ Dropped(m, p) \in LossyArc
<1>1. ASSUME NEW m \in k .. k + 5 PROVE \E p \in Binade : Halves(m, p)
  <2>1. m \in 0 .. 999 /\ 0 \in 0 .. 999
    BY SMT DEF Milli
  <2>2. PICK x \in Instant : x.sec = g.sec /\ x.us = 0 /\ x.ms = m
    <3> DEFINE y == [sign |-> g.sign, sec |-> g.sec, ms |-> m, us |-> 0]
    <3>1. y \in Instant
      BY <2>1 DEF Instant
    <3>2. y.sec = g.sec /\ y.us = 0 /\ y.ms = m
      OBVIOUS
    <3> HIDE DEF y
    <3> QED BY <3>1, <3>2
  <2>3. Lossy(x)
    BY <2>2
  <2> QED BY <2>2, <2>3 DEF Lossy, LossyArc
<1>2. k \in k .. k + 5 /\ g.sec \in Nat
  BY SMT, Parts
<1>3. PICK p \in Binade : Halves(k, p)
  BY <1>1, <1>2
<1>4. ASSUME NEW m \in k .. k + 5 PROVE Dropped(m, p) \in LossyArc
  <2>1. PICK q \in Binade : Halves(m, q)
    BY <1>1
  <2>2. p = q
    BY <1>2, <1>3, <2>1, OneBinade
  <2> QED BY <2>1, <2>2
<1> QED BY <1>4, NoSixInARow

LEMMA LossyIsOdd ==
    ASSUME NEW x \in Instant, Lossy(x)
    PROVE  x.ms \in 1 .. 999 /\ x.us = 0
<1>1. PICK p \in Binade : Dropped(x.ms, p) \in 257 .. 500
  BY DEF Lossy
<1>2. Dropped(0, p) = 0
  BY DroppedIsRound
<1>3. x.ms \in 0 .. 999 /\ x.us = 0
  BY Parts DEF Lossy, OnTheMillisecond
<1>4. x.ms # 0
  <2>1. 0 \notin 257 .. 500
    BY SMT
  <2> QED BY <1>1, <1>2, <2>1
<1> QED BY SMT, <1>3, <1>4

LEMMA DumpedIsInstant ==
    ASSUME NEW x \in Instant
    PROVE  datetime_to_ms(x) \in Instant /\ OnTheMillisecond(datetime_to_ms(x))
<1>1. CASE Lossy(x)
  <2>1. x.ms - 1 \in 0 .. 999 /\ x.us = 0
    BY SMT, <1>1, LossyIsOdd
  <2> QED BY <1>1, <2>1 DEF datetime_to_ms, Less, OnTheMillisecond, Instant
<1>2. CASE ~Lossy(x)
  BY SMT, <1>2 DEF datetime_to_ms, OnTheMillisecond, Instant
<1> QED BY <1>1, <1>2

-----------------------------------------------------------------------------
(* The inductive invariant: a field read back n times is the value given   *)
(* less one millisecond per lossy one on the way, and is at rest unless    *)
(* every hop but the first, which cuts off the microseconds, lost one.     *)

Carried(g, x, n) ==
    IF n = 0 THEN x = g
    ELSE /\ x.sign = g.sign /\ x.sec = g.sec
         /\ x.us = 0 /\ x.ms <= g.ms
         /\ \A y \in Instant :
               y.sec = x.sec /\ y.us = 0 /\ x.ms < y.ms /\ y.ms <= g.ms => Lossy(y)
         /\ Lossy(x) => g.ms - x.ms >= n - 1

WireInv ==
    /\ WireTypeOK
    /\ stamp # None => given.at \in Instant /\ Carried(given.at, stamp, hops)
    /\ stamp = None => hops = 0
    /\ wire # None => hops < MaxHops /\ wire = datetime_to_ms(stamp)

LEMMA MsIsSmall ==
    ASSUME NEW x \in Instant
    PROVE  \E a \in Milli : a = x.ms
BY Parts DEF Milli

LEMMA DumpCarries ==
    ASSUME NEW g \in Instant, NEW x \in Instant, NEW n \in Nat, Carried(g, x, n)
    PROVE  Carried(g, datetime_to_ms(x), n + 1)
<1> DEFINE d == datetime_to_ms(x)
<1>g. PICK b \in Milli : b = g.ms
  BY MsIsSmall
<1>x. PICK a \in Milli : a = x.ms
  BY MsIsSmall
<1>1. n + 1 \in Nat /\ n + 1 # 0 /\ (n + 1) - 1 = n
  BY SMT
<1>2. /\ x.sign = g.sign /\ x.sec = g.sec /\ a <= b
      /\ n # 0 => x.us = 0
      /\ \A y \in Instant :
            y.sec = x.sec /\ y.us = 0 /\ a < y.ms /\ y.ms <= b => Lossy(y)
  <2>1. CASE n = 0
    <3>1. x = g /\ a = b
      BY <1>g, <1>x, <2>1 DEF Carried
    <3>2. ASSUME NEW y \in Instant, a < y.ms, y.ms <= b PROVE FALSE
      <4>1. PICK c \in Milli : c = y.ms
        BY MsIsSmall
      <4>2. a < c /\ c <= b
        BY <3>2, <4>1, Zenon
      <4> QED BY SMT, <3>1, <4>2 DEF Milli
    <3>3. a <= b
      BY SMT, <3>1 DEF Milli
    <3> QED BY <2>1, <3>1, <3>2, <3>3
  <2>2. CASE n # 0
    BY <1>g, <1>x, <2>2 DEF Carried
  <2> QED BY <2>1, <2>2
<1>3. CASE Lossy(x)
  <2>1. d.sign = x.sign /\ d.sec = x.sec /\ d.us = 0 /\ d.ms = a - 1
    BY <1>3, <1>x, LossyIsOdd DEF datetime_to_ms, Less, Instant
  <2>2. a - 1 <= b /\ b - (a - 1) >= n
    <3>1. n # 0 => b - a >= n - 1
      BY <1>3, <1>g, <1>x DEF Carried
    <3> QED BY SMT, <1>2, <3>1 DEF Milli
  <2>3. ASSUME NEW y \in Instant, y.sec = x.sec, y.us = 0, a - 1 < y.ms, y.ms <= b
        PROVE  Lossy(y)
    <3>1. y.ms = a \/ a < y.ms
      <4>1. PICK c \in Milli : c = y.ms
        BY MsIsSmall
      <4>2. a - 1 < c
        BY <2>3, <4>1, Zenon
      <4>3. c = a \/ a < c
        BY SMT, <4>2 DEF Milli
      <4> QED BY <4>1, <4>3
    <3>2. CASE y.ms = a
      BY <1>3, <1>x, <2>3, <3>2, LossyIsOdd, LossyLooksAt
    <3> QED BY <1>2, <2>3, <3>1, <3>2
  <2> HIDE DEF d
  <2>4. Carried(g, d, n + 1)
    BY <1>1, <1>2, <1>g, <2>1, <2>2, <2>3 DEF Carried
  <2> QED BY <2>4 DEF d
<1>4. CASE ~Lossy(x)
  <2>1. d.sign = x.sign /\ d.sec = x.sec /\ d.us = 0 /\ d.ms = a
    BY <1>4, <1>x DEF datetime_to_ms, Instant
  <2>2. Lossy(d) => b - a >= n
    <3>1. CASE n = 0
      BY SMT, <1>2, <3>1 DEF Milli
    <3>2. CASE n # 0
      BY <1>2, <1>4, <1>x, <2>1, <3>2, LossyLooksAt
    <3> QED BY <3>1, <3>2
  <2> HIDE DEF d
  <2>3. Carried(g, d, n + 1)
    BY <1>1, <1>2, <1>g, <2>1, <2>2 DEF Carried
  <2> QED BY <2>3 DEF d
<1> QED BY <1>3, <1>4

LEMMA CarriedNotFar ==
    ASSUME NEW g \in Instant, NEW x \in Instant, NEW n \in Nat, Carried(g, x, n)
    PROVE  /\ x.sign = g.sign /\ x.sec = g.sec
           /\ g.ms - x.ms \in 0 .. 5
           /\ n >= 6 => x.us = 0 /\ ~Lossy(x)
<1>g. PICK b \in Milli : b = g.ms
  BY MsIsSmall
<1>x. PICK a \in Milli : a = x.ms
  BY MsIsSmall
<1>1. CASE n = 0
  <2>1. x = g /\ a = b
    BY <1>1, <1>g, <1>x DEF Carried
  <2>2. b - a \in 0 .. 5 /\ ~(n >= 6)
    BY SMT, <1>1, <2>1 DEF Milli
  <2> QED BY <1>1, <1>g, <1>x, <2>1, <2>2
<1>2. CASE n # 0
  <2>1. /\ x.sign = g.sign /\ x.sec = g.sec /\ x.us = 0 /\ a <= b
        /\ \A y \in Instant :
              y.sec = x.sec /\ y.us = 0 /\ a < y.ms /\ y.ms <= b => Lossy(y)
        /\ Lossy(x) => b - a >= n - 1
    BY <1>2, <1>g, <1>x DEF Carried
  <2>2. ASSUME b - a >= 6 PROVE FALSE
    <3>1. a + 1 \in Nat /\ (a + 1) + 5 \in Milli
      BY SMT, <2>2 DEF Milli
    <3>2. ASSUME NEW y \in Instant, y.ms \in a + 1 .. (a + 1) + 5
          PROVE  a < y.ms /\ y.ms <= b
      <4>1. PICK c \in Milli : c = y.ms
        BY MsIsSmall
      <4>2. c \in a + 1 .. (a + 1) + 5
        BY <3>2, <4>1, Zenon
      <4>3. a < c /\ c <= b
        BY SMT, <2>2, <4>2 DEF Milli
      <4> QED BY <4>1, <4>3
    <3>3. \A y \in Instant :
             y.sec = x.sec /\ y.us = 0 /\ y.ms \in a + 1 .. (a + 1) + 5 => Lossy(y)
      BY <2>1, <3>2
    <3> QED BY <3>1, <3>3, RunsAreShort
  <2>3. ASSUME n >= 6, Lossy(x) PROVE FALSE
    <3>1. b - a >= n - 1
      BY <2>1, <2>3
    <3>2. a \in Nat /\ a + 5 \in Milli
      BY SMT, <2>3, <3>1 DEF Milli
    <3>3. ASSUME NEW y \in Instant, y.ms \in a .. a + 5
          PROVE  y.ms = a \/ (a < y.ms /\ y.ms <= b)
      <4>1. PICK c \in Milli : c = y.ms
        BY MsIsSmall
      <4>2. c \in a .. a + 5
        BY <3>3, <4>1, Zenon
      <4>3. c = a \/ (a < c /\ c <= b)
        BY SMT, <2>3, <3>1, <4>2 DEF Milli
      <4> QED BY <4>1, <4>3
    <3>4. \A y \in Instant :
             y.sec = x.sec /\ y.us = 0 /\ y.ms \in a .. a + 5 => Lossy(y)
      BY <1>x, <2>1, <2>3, <3>3, LossyLooksAt
    <3> QED BY <3>2, <3>4, RunsAreShort
  <2>4. b - a \in 0 .. 5
    BY SMT, <2>1, <2>2 DEF Milli
  <2> QED BY <1>g, <1>x, <2>1, <2>3, <2>4
<1> QED BY <1>1, <1>2

LEMMA EraIsCarried ==
    ASSUME NEW g \in Instant, NEW x \in Instant, NEW n, Carried(g, x, n), n # 0, InEra(g)
    PROVE  x = [g EXCEPT !.us = 0]
<1>1. /\ x.sign = g.sign /\ x.sec = g.sec /\ x.us = 0 /\ x.ms <= g.ms
      /\ \A y \in Instant :
            y.sec = x.sec /\ y.us = 0 /\ x.ms < y.ms /\ y.ms <= g.ms => Lossy(y)
  BY DEF Carried
<1>g. PICK b \in Milli : b = g.ms
  BY MsIsSmall
<1>x. PICK a \in Milli : a = x.ms
  BY MsIsSmall
<1> DEFINE y == [g EXCEPT !.us = 0]
<1>3. /\ y \in Instant /\ y.sign = g.sign
      /\ y.sec = g.sec /\ y.ms = g.ms /\ y.us = 0
  <2>1. 0 \in 0 .. 999
    BY SMT
  <2> QED BY <2>1 DEF Instant
<1> HIDE DEF y
<1>4. ~Lossy(y)
  BY <1>3, EraIsLossless DEF InEra
<1>5. ~(a < b)
  <2>1. b <= b
    BY SMT DEF Milli
  <2> QED BY <1>1, <1>3, <1>4, <1>g, <1>x, <2>1
<1>6. a <= b
  BY <1>1, <1>g, <1>x
<1>7. a = b
  BY SMT, <1>5, <1>6 DEF Milli
<1>8. x = y
  BY <1>1, <1>3, <1>7, <1>g, <1>x DEF Instant
<1> QED BY <1>8 DEF y

LEMMA WireInitInv == WireInit => WireInv
BY WireAssumption
   DEF WireInit, WireInv, WireTypeOK

LEMMA ValidateInv ==
    ASSUME WireInv, validate
    PROVE  WireInv'
<1> USE DEF validate
<1>1. UNCHANGED <<given, field, wire, hops>> /\ wire = None /\ hops = 0
  BY DEF WireInv, WireTypeOK
<1>2. CASE stamp' = given.at /\ supported(given) /\ given.at # Beyond /\ UNCHANGED error
  <2>1. given.at \in Instant
    BY <1>2 DEF WireInv, WireTypeOK, AnyValue
  <2>2. WireTypeOK'
    BY <1>1, <1>2, <2>1 DEF WireInv, WireTypeOK
  <2>3. Carried(given.at, stamp, hops)'
    BY <1>1, <1>2 DEF Carried
  <2> QED BY <1>1, <1>2, <2>1, <2>2, <2>3 DEF WireInv
<1>3. CASE UNCHANGED stamp /\ error' \in {"ValueError", "OverflowError", "OSError"}
  BY <1>1, <1>3 DEF WireInv, WireTypeOK
<1> QED BY <1>2, <1>3

LEMMA DumpInv ==
    ASSUME WireInv, dump
    PROVE  WireInv'
<1>1. /\ stamp # None /\ wire' = datetime_to_ms(stamp) /\ hops < MaxHops
      /\ UNCHANGED <<given, field, stamp, hops, error>>
  BY DEF dump
<1>2. stamp \in Instant
  BY <1>1 DEF WireInv, WireTypeOK
<1>3. WireTypeOK'
  BY <1>1, <1>2, DumpedIsInstant DEF WireInv, WireTypeOK
<1>4. Carried(given.at, stamp, hops)'
  BY <1>1 DEF WireInv, Carried
<1> QED BY <1>1, <1>3, <1>4 DEF WireInv

LEMMA ReadInv ==
    ASSUME WireInv, read
    PROVE  WireInv'
<1>1. /\ wire # None /\ stamp' = wire /\ wire' = None /\ hops' = hops + 1
      /\ UNCHANGED <<given, field, error>>
  BY DEF read
<1>2. stamp # None /\ stamp \in Instant /\ wire \in Instant /\ given.at \in Instant
  BY <1>1 DEF WireInv, WireTypeOK
<1>3. MaxHops \in Nat /\ hops \in Nat /\ hops < MaxHops
  BY <1>1, WireAssumption DEF WireInv, WireTypeOK
<1>4. WireTypeOK'
  BY <1>1, <1>2, <1>3 DEF WireInv, WireTypeOK
<1>5. Carried(given.at, wire, hops + 1)
  BY <1>1, <1>2, <1>3, DumpCarries DEF WireInv
<1>6. Carried(given.at, stamp, hops)'
  BY <1>1, <1>5 DEF Carried
<1> QED BY <1>1, <1>2, <1>3, <1>4, <1>6 DEF WireInv

LEMMA WireStepInv == WireInv /\ [WireNext]_wire_vars => WireInv'
<1>1. ASSUME WireInv, UNCHANGED wire_vars PROVE WireInv'
  BY <1>1 DEF WireInv, WireTypeOK, Carried, wire_vars
<1> QED BY <1>1, ValidateInv, DumpInv, ReadInv DEF WireNext

-----------------------------------------------------------------------------
(* What follows of the invariant.                                          *)

(* The field, its number on the wire and the refusals keep their types.    *)
THEOREM WireTypes == WireSpec => []WireTypeOK
<1>1. WireInv => WireTypeOK
  BY DEF WireInv
<1> QED BY <1>1, WireInitInv, WireStepInv, PTL DEF WireSpec

(* For every instant from November 2004 to 2038 and any number of hops the *)
(* double arithmetic of _datetime_to_ms loses nothing but what is below    *)
(* the millisecond.                                                        *)
THEOREM EraIsExact == WireSpec => []ExactInEra
<1>1. ASSUME WireInv, stamp # None, InEra(given.at), hops # 0
      PROVE  stamp = [given.at EXCEPT !.us = 0]
  BY <1>1, EraIsCarried DEF WireInv, WireTypeOK
<1>2. WireInv => ExactInEra
  BY <1>1 DEF WireInv, Carried, ExactInEra
<1> QED BY <1>2, WireInitInv, WireStepInv, PTL DEF WireSpec

(* For every other instant until 2038, of either sign, and any number of   *)
(* hops, a stamp is never off by more than five milliseconds and never on  *)
(* the far side of the value given.                                        *)
THEOREM DriftIsSmall == WireSpec => []DriftIsBounded
<1>1. WireInv => DriftIsBounded
  <2> SUFFICES ASSUME WireInv, stamp # None PROVE DriftIsBounded
    BY DEF DriftIsBounded
  <2>1. /\ stamp \in Instant /\ given.at \in Instant /\ hops \in Nat
        /\ Carried(given.at, stamp, hops)
    BY DEF WireInv, WireTypeOK
  <2> QED BY <2>1, CarriedNotFar DEF DriftIsBounded
<1> QED BY <1>1, WireInitInv, WireStepInv, PTL DEF WireSpec

(* However long a message is passed on, its time is the one it had after   *)
(* six hops.                                                               *)
THEOREM DriftEnds == WireSpec => DriftSettles
<1>1. ASSUME WireInv, [WireNext]_wire_vars, hops >= 6 PROVE UNCHANGED stamp
  <2>1. CASE read
    <3>1. stamp' = wire /\ wire # None
      BY <2>1 DEF read
    <3>2. /\ stamp \in Instant /\ given.at \in Instant /\ hops \in Nat
          /\ Carried(given.at, stamp, hops) /\ wire = datetime_to_ms(stamp)
      BY <1>1, <3>1 DEF WireInv, WireTypeOK
    <3>3. stamp.us = 0 /\ ~Lossy(stamp)
      BY <1>1, <3>2, CarriedNotFar
    <3>4. wire = stamp
      BY <3>2, <3>3 DEF datetime_to_ms, Instant
    <3> QED BY <3>1, <3>4
  <2>2. CASE validate
    <3>1. hops = 0
      BY <1>1, <2>2 DEF WireInv, validate
    <3> QED BY <1>1, <3>1
  <2>3. CASE dump \/ (Settled /\ UNCHANGED wire_vars) \/ UNCHANGED wire_vars
    BY <2>3 DEF dump, wire_vars
  <2> QED BY <1>1, <2>1, <2>2, <2>3 DEF WireNext
<1>2. WireInv /\ [WireNext]_wire_vars => [hops >= 6 => UNCHANGED stamp]_wire_vars
  BY <1>1
<1> QED BY <1>2, WireInitInv, WireStepInv, PTL DEF WireSpec, DriftSettles
=============================================================================
