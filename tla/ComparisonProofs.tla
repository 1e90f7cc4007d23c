------------------------------ MODULE ComparisonProofs ------------------------------
(***************************************************************************)
(* What the comparison harness promises: that the frames, the ducking and  *)
(* the chapters of any accepted plan are those of its ranges (FrameState,  *)
(* Rational), and that mastering publishes what it says (Mastering).       *)
(*                                                                         *)
(* Times are quotients of any size, so that the arithmetic is proved over  *)
(* numerators: Val(x, n, d) says that x is n / d, and every lemma on an    *)
(* operation of Rational says what it does to the numerators over one      *)
(* denominator.  What rests on induction (gcd, the common denominator of a *)
(* finite set, the ranks of filtered) takes a least counterexample.        *)
(***************************************************************************)
EXTENDS FrameState, Mastering, FiniteSetTheorems, WellFoundedInduction, TLAPS

Below == {p \in Nat \X Nat : p[1] < p[2]}

\* A set of numbers that is not empty has a least one: what induction rests on.
LEMMA Least ==
  ASSUME NEW T, T \subseteq Nat, T # {}
  PROVE  \E n \in T : \A m \in T : n <= m
<1>1. IsWellFoundedOn(Below, Nat)
  BY NatLessThanWellFounded DEF OpToRel, Below
<1>2. PICK n \in T : \A m \in T : ~ (<<m, n>> \in Below)
  BY <1>1, WFMin
<1>3. \A m \in T : ~ (m < n)
  BY <1>2 DEF Below
<1>4. QED
  BY <1>3

(***************************************************************************)
(* gcd.                                                                    *)
(***************************************************************************)
Divides(d, n) == \E q \in Nat : n = d * q
Common(a, b) == {d \in Nat : Divides(d, a) /\ Divides(d, b)}

Euclid(g) == g = [p \in Nat \X Nat |-> IF p[2] = 0 THEN p[1] ELSE g[<<p[2], p[1] % p[2]>>]]

\* What div and mod are, for numbers that are not negative.
LEMMA Remainder ==
  ASSUME NEW a \in Nat, NEW b \in Nat, b > 0
  PROVE  /\ a % b \in Nat /\ a % b < b /\ (a \div b) \in Nat
         /\ a = (b * (a \div b)) + (a % b)
  OBVIOUS

\* A divisor of both divides the sum ...
LEMMA DividesSum ==
  ASSUME NEW d \in Nat, NEW b \in Nat, NEW q \in Nat, NEW r \in Nat,
         Divides(d, b), Divides(d, r)
  PROVE  Divides(d, (b * q) + r)
<1>1. PICK k \in Nat : b = d * k
  BY DEF Divides
<1>2. PICK l \in Nat : r = d * l
  BY DEF Divides
<1>3. (b * q) + r = d * ((k * q) + l)
  BY <1>1, <1>2
<1>4. (k * q) + l \in Nat
  OBVIOUS
<1>5. QED
  BY <1>3, <1>4 DEF Divides

\* ... and the remainder.
LEMMA DividesRest ==
  ASSUME NEW d \in Nat, NEW b \in Nat, NEW q \in Nat, NEW r \in Nat,
         Divides(d, b), Divides(d, (b * q) + r)
  PROVE  Divides(d, r)
<1>1. PICK k \in Nat : b = d * k
  BY DEF Divides
<1>2. PICK l \in Nat : (b * q) + r = d * l
  BY DEF Divides
<1>3. r = d * (l - (k * q))
  <2>1. r = (d * l) - ((d * k) * q)
    BY <1>1, <1>2
  <2>2. (d * k) * q = d * (k * q)
    OBVIOUS
  <2>3. QED
    BY <2>1, <2>2
<1>4. CASE d = 0
  BY <1>3, <1>4 DEF Divides
<1>5. CASE d > 0
  <2>1. l - (k * q) \in Int
    OBVIOUS
  <2>2. l - (k * q) >= 0
    <3> DEFINE z == l - (k * q)
    <3>1. z \in Int /\ r = d * z /\ r >= 0
      BY <1>3, <2>1
    <3> HIDE DEF z
    <3>2. z < 0 => d * z < 0
      BY <1>5, <3>1
    <3>3. z >= 0
      BY <3>1, <3>2
    <3>4. QED
      BY <3>3 DEF z
  <2>3. l - (k * q) \in Nat
    BY <2>1, <2>2
  <2>4. QED
    BY <1>3, <2>3 DEF Divides
<1>6. QED
  BY <1>4, <1>5

\* There is a function that satisfies the equation, so that gcd does: the
\* greatest common divisor of any two numbers.
LEMMA GcdEquation ==
  ASSUME NEW a \in Nat, NEW b \in Nat
  PROVE  gcd[<<a, b>>] = IF b = 0 THEN a ELSE gcd[<<b, a % b>>]
<1> DEFINE Greatest(S) == CHOOSE d \in S : \A e \in S : e <= d
           g == [p \in Nat \X Nat |-> IF p[1] = 0 /\ p[2] = 0 THEN 0
                                      ELSE Greatest(Common(p[1], p[2]))]
<1>1. ASSUME NEW p \in Nat \X Nat
      PROVE  g[p] = IF p[2] = 0 THEN p[1] ELSE g[<<p[2], p[1] % p[2]>>]
  <2> DEFINE x == p[1]
             y == p[2]
  <2>1. x \in Nat /\ y \in Nat
    OBVIOUS
  <2>2. g[p] = IF x = 0 /\ y = 0 THEN 0 ELSE Greatest(Common(x, y))
    OBVIOUS
  <2>3. CASE y = 0 /\ x = 0
    BY <2>2, <2>3
  <2>4. CASE y = 0 /\ x # 0
    <3>1. x \in Common(x, 0)
      <4>1. x = x * 1 /\ 0 = x * 0
        BY <2>1
      <4>2. QED
        BY <2>1, <4>1 DEF Common, Divides
    <3>2. \A e \in Common(x, 0) : e <= x /\ e \in Nat
      <4> TAKE e \in Common(x, 0)
      <4>1. PICK q \in Nat : x = e * q
        BY DEF Common, Divides
      <4>2. e \in Nat
        BY DEF Common
      <4>3. q >= 1
        BY <2>1, <2>4, <4>1, <4>2
      <4>4. e * q >= e * 1
        BY <4>2, <4>3
      <4>5. QED
        BY <4>1, <4>2, <4>4
    <3>3. \A d \in Common(x, 0) : (\A e \in Common(x, 0) : e <= d) => d = x
      <4> SUFFICES ASSUME NEW d \in Common(x, 0), \A e \in Common(x, 0) : e <= d
                   PROVE  d = x
        OBVIOUS
      <4>1. x <= d /\ d <= x /\ d \in Nat
        BY <3>1, <3>2
      <4>2. QED
        BY <2>1, <4>1
    <3> HIDE DEF x
    <3>4. Greatest(Common(x, 0)) = x
      BY <3>1, <3>2, <3>3
    <3>5. QED
      BY <2>2, <2>4, <3>4 DEF x
  <2>5. CASE y # 0
    <3>1. y > 0 /\ x % y \in Nat
      BY <2>1, <2>5
    <3>2. Common(x, y) = Common(y, x % y)
      <4> DEFINE q == x \div y
                 r == x % y
      <4>1. x = (y * q) + r /\ q \in Nat /\ r \in Nat
        BY <2>1, <3>1, Remainder
      <4> HIDE DEF q, r, x, y
      <4>2. \A d \in Nat : Divides(d, x) /\ Divides(d, y) => Divides(d, r)
        BY <2>1, <4>1, DividesRest
      <4>3. \A d \in Nat : Divides(d, y) /\ Divides(d, r) => Divides(d, x)
        BY <2>1, <4>1, DividesSum
      <4>4. Common(x, y) = Common(y, r)
        BY <4>2, <4>3 DEF Common
      <4>5. QED
        BY <4>4 DEF r
    <3>3. <<y, x % y>> \in Nat \X Nat
      BY <2>1, <3>1
    <3> HIDE DEF x, y
    <3>4. g[<<y, x % y>>] = Greatest(Common(y, x % y))
      BY <2>5, <3>3
    <3>5. QED
      BY <2>2, <2>5, <3>2, <3>4 DEF x, y
  <2>6. QED
    BY <2>3, <2>4, <2>5
<1>2. Euclid(g)
  <2>1. g = [p \in Nat \X Nat |-> g[p]]
    OBVIOUS
  <2> HIDE DEF g
  <2>2. QED
    BY <1>1, <2>1 DEF Euclid
<1> HIDE DEF g
<1>3. gcd = CHOOSE f : Euclid(f)
  BY Zenon DEF gcd, Euclid
<1>4. Euclid(gcd)
  BY <1>2, <1>3
<1> DEFINE p == <<a, b>>
<1>5. p \in Nat \X Nat /\ p[1] = a /\ p[2] = b
  OBVIOUS
<1> HIDE DEF p
<1>6. gcd[p] = IF p[2] = 0 THEN p[1] ELSE gcd[<<p[2], p[1] % p[2]>>]
  BY <1>4, <1>5 DEF Euclid
<1>7. gcd[p] = IF b = 0 THEN a ELSE gcd[<<b, a % b>>]
  BY <1>5, <1>6
<1>8. QED
  BY <1>7 DEF p

\* It divides both numbers, by induction on the second.
LEMMA GcdDivides ==
  ASSUME NEW a \in Nat, NEW b \in Nat, a + b > 0
  PROVE  /\ gcd[<<a, b>>] \in Nat /\ gcd[<<a, b>>] > 0
         /\ Divides(gcd[<<a, b>>], a) /\ Divides(gcd[<<a, b>>], b)
<1> DEFINE Right(x, y) == /\ gcd[<<x, y>>] \in Nat /\ gcd[<<x, y>>] > 0
                          /\ Divides(gcd[<<x, y>>], x) /\ Divides(gcd[<<x, y>>], y)
           Wrong == {y \in Nat : \E x \in Nat : x + y > 0 /\ ~ Right(x, y)}
<1> HIDE DEF Right
<1>1. ASSUME Wrong # {} PROVE FALSE
  <2>1. PICK y \in Wrong : \A m \in Wrong : y <= m
    BY <1>1, Least
  <2>2. PICK x \in Nat : x + y > 0 /\ ~ Right(x, y)
    BY <2>1
  <2>3. y \in Nat
    BY <2>1
  <2>4. CASE y = 0
    <3>1. gcd[<<x, y>>] = x
      BY <2>3, <2>4, GcdEquation
    <3>2. x = x * 1 /\ y = x * 0
      BY <2>4
    <3>3. Divides(x, x) /\ Divides(x, y)
      BY <3>2 DEF Divides
    <3>4. QED
      BY <2>2, <2>4, <3>1, <3>3 DEF Right
  <2>5. CASE y > 0
    <3> DEFINE q == x \div y
               r == x % y
    <3>1. x = (y * q) + r /\ q \in Nat /\ r \in Nat /\ r < y
      BY <2>3, <2>5, Remainder
    <3>2. gcd[<<x, y>>] = gcd[<<y, r>>]
      BY <2>3, <2>5, GcdEquation
    <3> HIDE DEF q, r, Wrong
    <3>3. r \notin Wrong
      <4>1. r \in Wrong => y <= r
        BY <2>1
      <4>2. QED
        BY <2>3, <3>1, <4>1
    <3>4. y + r > 0
      BY <2>3, <2>5, <3>1
    <3>5. Right(y, r)
      BY <2>3, <3>1, <3>3, <3>4 DEF Wrong
    <3>6. Divides(gcd[<<y, r>>], x)
      BY <2>3, <3>1, <3>5, DividesSum DEF Right
    <3>7. QED
      BY <2>2, <3>2, <3>5, <3>6 DEF Right
  <2>6. QED
    BY <2>3, <2>4, <2>5
<1>2. b \notin Wrong
  BY <1>1
<1>3. Right(a, b)
  BY <1>2
<1>4. QED
  BY <1>3 DEF Right

(***************************************************************************)
(* Quotients.                                                              *)
(***************************************************************************)
LEMMA Cancel ==
  ASSUME NEW a \in Int, NEW b \in Int, NEW k \in Int, k # 0, a * k = b * k
  PROVE  a = b
<1>1. (a - b) * k = 0
  OBVIOUS
<1>2. a - b # 0 => (a - b) * k # 0
  OBVIOUS
<1>3. QED
  BY <1>1, <1>2

\* A multiple divides exactly.
LEMMA ExactQuotient ==
  ASSUME NEW g \in Nat, g > 0, NEW q \in Int
  PROVE  (g * q) \div g = q
<1> DEFINE z == (g * q) \div g
           r == (g * q) % g
<1>1. z \in Int /\ r \in 0 .. (g - 1) /\ g * q = (g * z) + r
  OBVIOUS
<1> HIDE DEF z, r
<1>2. g * (q - z) = r
  BY <1>1
<1>3. q - z >= 1 => g * (q - z) >= g
  BY <1>1
<1>4. q - z <= -1 => g * (q - z) <= -g
  BY <1>1
<1>5. q - z = 0
  BY <1>1, <1>2, <1>3, <1>4
<1>6. z = q
  BY <1>1, <1>5
<1>7. QED
  BY <1>6 DEF z

\* reduced keeps the quotient and makes the timescale positive.
LEMMA ReducedValue ==
  ASSUME NEW t \in Int, NEW s \in Int, s # 0
  PROVE  /\ reduced(t, s) \in Time
         /\ reduced(t, s).ticks * s = t * reduced(t, s).timescale
<1> DEFINE sign == IF s < 0 THEN -1 ELSE 1
           common == gcd[<<Magnitude(t), Magnitude(s)>>]
           r == reduced(t, s)
<1>1. /\ Magnitude(t) \in Nat /\ Magnitude(s) \in Nat /\ Magnitude(s) > 0
      /\ Magnitude(t) + Magnitude(s) > 0
      /\ s * sign = Magnitude(s) /\ sign \in {-1, 1}
      /\ (Magnitude(t) = t \/ Magnitude(t) = -t)
  BY DEF Magnitude
<1>2. /\ common \in Nat /\ common > 0
      /\ Divides(common, Magnitude(t)) /\ Divides(common, Magnitude(s))
  BY <1>1, GcdDivides
<1>3. r = [ticks |-> (t * sign) \div common, timescale |-> (s * sign) \div common]
  BY <1>2 DEF reduced
<1> HIDE DEF sign, common, r
<1>4. PICK k \in Nat : Magnitude(s) = common * k
  BY <1>2 DEF Divides
<1>5. PICK l \in Nat : Magnitude(t) = common * l
  BY <1>2 DEF Divides
<1>6. PICK m \in Int : t * sign = common * m
  <2>1. t * sign = common * l \/ t * sign = common * (-l)
    BY <1>1, <1>2, <1>5
  <2>2. QED
    BY <2>1
<1>7. r.ticks = m /\ r.timescale = k
  BY <1>1, <1>2, <1>3, <1>4, <1>6, ExactQuotient
<1>8. k > 0
  BY <1>1, <1>2, <1>4
<1>9. m * s = t * k
  <2>1. s = sign * (common * k) /\ t = sign * (common * m)
    <3>1. sign * (s * sign) = s /\ sign * (t * sign) = t
      BY <1>1
    <3>2. QED
      BY <1>1, <1>4, <1>6, <3>1
  <2>2. m * (sign * (common * k)) = (sign * (common * m)) * k
    BY <1>1, <1>2
  <2>3. QED
    BY <2>1, <2>2
<1>10. r \in Time
  BY <1>3, <1>7, <1>8 DEF Time, Positive
<1>11. QED
  BY <1>7, <1>9, <1>10 DEF r

(***************************************************************************)
(* Quotients over a common denominator: Val(x, n, d) says that x is n / d. *)
(***************************************************************************)
Val(x, n, d) == x.ticks * d = n * x.timescale

\* The numbers a time is made of.
LEMMA TimeParts ==
  ASSUME NEW x \in Time
  PROVE  x.ticks \in Int /\ x.timescale \in Nat /\ x.timescale > 0
  BY DEF Time, Positive

\* A time is its ticks over its timescale.
LEMMA OwnVal ==
  ASSUME NEW x \in Time
  PROVE  Val(x, x.ticks, x.timescale)
  BY TimeParts DEF Val

\* reduced is the quotient of its arguments.
LEMMA ReducedVal ==
  ASSUME NEW t \in Int, NEW s \in Positive
  PROVE  reduced(t, s) \in Time /\ Val(reduced(t, s), t, s)
<1>1. s \in Int /\ s # 0
  BY DEF Positive
<1>2. QED
  BY <1>1, ReducedValue DEF Val

\* A quotient over a multiple of its denominator.
LEMMA Scaled ==
  ASSUME NEW x \in Time, NEW n \in Int, NEW d \in Positive, NEW k \in Positive, Val(x, n, d)
  PROVE  d * k \in Positive /\ n * k \in Int /\ Val(x, n * k, d * k)
<1>1. x.ticks \in Int /\ x.timescale \in Int /\ d \in Nat /\ k \in Nat /\ d > 0 /\ k > 0
  BY TimeParts DEF Positive
<1>2. d * k \in Nat /\ d * k > 0
  BY <1>1
<1>3. x.ticks * (d * k) = (x.ticks * d) * k /\ (n * k) * x.timescale = (n * x.timescale) * k
  BY <1>1
<1>4. QED
  BY <1>1, <1>2, <1>3 DEF Val, Positive

\* A quotient that is known over a multiple of the denominator.
LEMMA Unscaled ==
  ASSUME NEW x \in Time, NEW n \in Int, NEW d \in Positive, NEW k \in Positive,
         Val(x, n * k, d * k)
  PROVE  Val(x, n, d)
<1>1. x.ticks \in Int /\ x.timescale \in Int /\ d \in Nat /\ k \in Nat /\ d > 0 /\ k > 0
  BY TimeParts DEF Positive
<1>2. (x.ticks * d) * k = (n * x.timescale) * k
  <2>1. (x.ticks * d) * k = x.ticks * (d * k) /\ (n * x.timescale) * k = (n * k) * x.timescale
    BY <1>1
  <2>2. QED
    BY <2>1 DEF Val
<1>3. x.ticks * d \in Int /\ n * x.timescale \in Int /\ k \in Int /\ k # 0
  BY <1>1
<1>4. x.ticks * d = n * x.timescale
  BY <1>2, <1>3, Cancel
<1>5. QED
  BY <1>4 DEF Val

\* A positive factor keeps the sign.
LEMMA SameSign ==
  ASSUME NEW a \in Int, NEW b \in Int, NEW k \in Positive, NEW l \in Positive, a * k = b * l
  PROVE  (a < 0 <=> b < 0) /\ (a = 0 <=> b = 0)
<1>1. k \in Nat /\ k > 0 /\ l \in Nat /\ l > 0
  BY DEF Positive
<1>2. (a < 0 => a * k < 0) /\ (a = 0 => a * k = 0) /\ (a > 0 => a * k > 0)
  BY <1>1
<1>3. (b < 0 => b * l < 0) /\ (b = 0 => b * l = 0) /\ (b > 0 => b * l > 0)
  BY <1>1
<1>4. a * k \in Int /\ b * l \in Int
  BY <1>1
<1>5. QED
  BY <1>2, <1>3, <1>4

\* compare orders times as their numerators over one denominator.
LEMMA CompareVal ==
  ASSUME NEW x \in Time, NEW y \in Time, NEW n \in Int, NEW m \in Int, NEW d \in Positive,
         Val(x, n, d), Val(y, m, d)
  PROVE  /\ compare(x, y) \in Int
         /\ compare(x, y) < 0 <=> n < m
         /\ compare(x, y) = 0 <=> n = m
<1> DEFINE c == compare(x, y)
<1>1. /\ x.ticks \in Int /\ x.timescale \in Int /\ y.ticks \in Int /\ y.timescale \in Int
      /\ d \in Int /\ x.timescale * y.timescale \in Positive
  <2>1. /\ x.timescale \in Nat /\ x.timescale > 0 /\ y.timescale \in Nat /\ y.timescale > 0
        /\ x.ticks \in Int /\ y.ticks \in Int
    BY TimeParts
  <2>2. x.timescale * y.timescale \in Nat /\ x.timescale * y.timescale > 0
    BY <2>1
  <2>3. QED
    BY <2>1, <2>2 DEF Positive
<1>2. c \in Int /\ c = (x.ticks * y.timescale) - (y.ticks * x.timescale)
  BY <1>1 DEF compare
<1>3. c * d = (n - m) * (x.timescale * y.timescale)
  <2>1. c * d = ((x.ticks * d) * y.timescale) - ((y.ticks * d) * x.timescale)
    BY <1>1, <1>2
  <2>2. c * d = ((n * x.timescale) * y.timescale) - ((m * y.timescale) * x.timescale)
    BY <2>1 DEF Val
  <2>3. ((n * x.timescale) * y.timescale) - ((m * y.timescale) * x.timescale)
           = (n - m) * (x.timescale * y.timescale)
    BY <1>1
  <2>4. QED
    BY <2>2, <2>3
<1> HIDE DEF c
<1>4. PICK b, k : b = n - m /\ k = x.timescale * y.timescale
  OBVIOUS
<1>5. b \in Int /\ k \in Positive /\ c * d = b * k
  BY <1>1, <1>3, <1>4
<1>6. (c < 0 <=> b < 0) /\ (c = 0 <=> b = 0)
  BY <1>2, <1>5, SameSign
<1>7. (b < 0 <=> n < m) /\ (b = 0 <=> n = m)
  BY <1>4
<1>8. QED
  BY <1>2, <1>6, <1>7 DEF c

\* The quotient of two numbers, over any denominator they share.
LEMMA QuotientVal ==
  ASSUME NEW t \in Int, NEW k \in Positive, NEW l \in Int, NEW d \in Positive, t * d = l * k
  PROVE  reduced(t, k) \in Time /\ Val(reduced(t, k), l, d)
<1>1. PICK r : r = reduced(t, k)
  OBVIOUS
<1>2. k \in Int /\ k # 0 /\ d \in Int
  BY DEF Positive
<1>3. r \in Time /\ r.ticks \in Int /\ r.timescale \in Int /\ r.ticks * k = t * r.timescale
  BY <1>1, <1>2, ReducedValue, TimeParts
<1>4. (r.ticks * d) * k = (l * r.timescale) * k
  <2>1. (r.ticks * d) * k = (r.ticks * k) * d
    BY <1>2, <1>3
  <2>2. (t * r.timescale) * d = (t * d) * r.timescale
    BY <1>2, <1>3
  <2>3. (l * k) * r.timescale = (l * r.timescale) * k
    BY <1>2, <1>3
  <2>4. QED
    BY <1>3, <2>1, <2>2, <2>3
<1>5. r.ticks * d \in Int /\ l * r.timescale \in Int
  BY <1>2, <1>3
<1>6. r.ticks * d = l * r.timescale
  BY <1>2, <1>4, <1>5, Cancel
<1>7. QED
  BY <1>1, <1>3, <1>6 DEF Val

\* Products of positive numbers.
LEMMA Products ==
  ASSUME NEW k \in Positive, NEW l \in Positive
  PROVE  k * l \in Positive /\ k \in Int /\ l \in Int /\ k # 0 /\ l # 0 /\ k > 0 /\ l > 0
<1>1. k \in Nat /\ k > 0 /\ l \in Nat /\ l > 0
  BY DEF Positive
<1>2. k * l \in Nat /\ k * l > 0
  BY <1>1
<1>3. QED
  BY <1>1, <1>2 DEF Positive

\* add and subtract, over a common denominator.
LEMMA SumVal ==
  ASSUME NEW x \in Time, NEW y \in Time, NEW n \in Int, NEW m \in Int, NEW d \in Positive,
         Val(x, n, d), Val(y, m, d)
  PROVE  /\ add(x, y) \in Time /\ Val(add(x, y), n + m, d)
         /\ subtract(x, y) \in Time /\ Val(subtract(x, y), n - m, d)
<1>1. /\ x.ticks \in Int /\ x.timescale \in Int /\ y.ticks \in Int /\ y.timescale \in Int
      /\ d \in Int /\ x.timescale \in Positive /\ y.timescale \in Positive
  BY DEF Time, Positive
<1>2. PICK k : k = x.timescale * y.timescale
  OBVIOUS
<1>3. k \in Positive /\ k \in Int
  BY <1>1, <1>2, Products
<1>4. ((x.ticks * y.timescale) * d) = (n * k) /\ ((y.ticks * x.timescale) * d) = (m * k)
  <2>1. (x.ticks * y.timescale) * d = (x.ticks * d) * y.timescale
        /\ (y.ticks * x.timescale) * d = (y.ticks * d) * x.timescale
    BY <1>1
  <2>2. (n * x.timescale) * y.timescale = n * k /\ (m * y.timescale) * x.timescale = m * k
    BY <1>1, <1>2
  <2>3. QED
    BY <2>1, <2>2 DEF Val
<1>5. PICK u, v : u = x.ticks * y.timescale /\ v = y.ticks * x.timescale
  OBVIOUS
<1>6. u \in Int /\ v \in Int /\ u * d = n * k /\ v * d = m * k
  BY <1>1, <1>4, <1>5
<1>7. (u + v) * d = (n + m) * k /\ (u - v) * d = (n - m) * k
  BY <1>1, <1>3, <1>6
<1>8. add(x, y) = reduced(u + v, k) /\ subtract(x, y) = reduced(u - v, k)
  BY <1>2, <1>5 DEF add, subtract
<1>9. u + v \in Int /\ u - v \in Int /\ n + m \in Int /\ n - m \in Int
  BY <1>6
<1>10. QED
  BY <1>3, <1>7, <1>8, <1>9, QuotientVal

\* multiply, over a common denominator.
LEMMA ProductVal ==
  ASSUME NEW x \in Time, NEW n \in Int, NEW d \in Positive, Val(x, n, d),
         NEW f \in Rate
  PROVE  multiply(x, f) \in Time /\ Val(multiply(x, f), n * f.num, d * f.den)
<1>1. PICK a, b : a = f.num /\ b = f.den
  OBVIOUS
<1>2. a \in Positive /\ b \in Positive /\ a \in Int /\ b \in Int /\ b # 0
  BY <1>1 DEF Positive, Rate
<1>3. PICK q : q = reduced(a, b)
  OBVIOUS
<1>4. q \in Time /\ q.ticks \in Int /\ q.timescale \in Positive /\ q.timescale \in Int
      /\ q.ticks * b = a * q.timescale
  BY <1>2, <1>3, ReducedValue DEF Time, Positive
<1>5. x.ticks \in Int /\ x.timescale \in Positive /\ x.timescale \in Int /\ d \in Int
      /\ x.ticks * d = n * x.timescale
  BY DEF Time, Positive, Val
<1>6. PICK t, k : t = x.ticks * q.ticks /\ k = x.timescale * q.timescale
  OBVIOUS
<1>7. t \in Int /\ k \in Positive /\ d * b \in Positive /\ n * a \in Int
  <2>1. k \in Positive /\ d * b \in Positive
    BY <1>2, <1>4, <1>5, <1>6, Products
  <2>2. t \in Int /\ n * a \in Int
    BY <1>2, <1>4, <1>5, <1>6
  <2>3. QED
    BY <2>1, <2>2
<1>8. t * (d * b) = (n * a) * k
  <2>1. t * (d * b) = (x.ticks * d) * (q.ticks * b)
    BY <1>2, <1>4, <1>5, <1>6
  <2>2. (n * x.timescale) * (a * q.timescale) = (n * a) * k
    BY <1>2, <1>4, <1>5, <1>6
  <2>3. QED
    BY <1>4, <1>5, <2>1, <2>2
<1>9. multiply(x, f) = reduced(t, k)
  BY <1>1, <1>3, <1>6 DEF multiply, asRate
<1>10. QED
  BY <1>1, <1>7, <1>8, <1>9, QuotientVal

\* ratioNumber, over the common denominator that cancels.
LEMMA RatioVal ==
  ASSUME NEW x \in Time, NEW y \in Time, NEW n \in Int, NEW m \in Positive, NEW d \in Positive,
         Val(x, n, d), Val(y, m, d)
  PROVE  ratioNumber(x, y) \in Time /\ Val(ratioNumber(x, y), n, m)
<1>1. /\ x.ticks \in Int /\ x.timescale \in Int /\ y.ticks \in Int /\ y.timescale \in Int
      /\ d \in Int /\ x.timescale \in Positive /\ y.timescale \in Positive /\ m \in Int
      /\ d # 0 /\ m > 0 /\ d > 0 /\ y.timescale > 0
  BY DEF Time, Positive
<1>2. y.ticks * d = m * y.timescale /\ x.ticks * d = n * x.timescale
  BY DEF Val
<1>3. y.ticks \in Positive
  <2>1. m * y.timescale \in Positive
    BY <1>1, Products
  <2>2. y.ticks * d > 0
    BY <1>2, <2>1 DEF Positive
  <2>3. y.ticks <= 0 => y.ticks * d <= 0
    BY <1>1
  <2>4. y.ticks > 0
    BY <1>1, <2>2, <2>3
  <2>5. QED
    BY <1>1, <2>4 DEF Positive
<1>4. PICK t, k : t = x.ticks * y.timescale /\ k = x.timescale * y.ticks
  OBVIOUS
<1>5. t \in Int /\ k \in Positive /\ k \in Int
  <2>1. k \in Positive
    BY <1>1, <1>3, <1>4, Products
  <2>2. t \in Int
    BY <1>1, <1>4
  <2>3. QED
    BY <2>1, <2>2 DEF Positive
<1>6. t * m = n * k
  <2>1. (t * m) * d = (n * k) * d
    <3>1. (t * m) * d = (x.ticks * d) * (m * y.timescale)
      BY <1>1, <1>4
    <3>2. (n * k) * d = (n * x.timescale) * (y.ticks * d)
      BY <1>1, <1>4
    <3>3. QED
      BY <1>2, <3>1, <3>2
  <2>2. t * m \in Int /\ n * k \in Int
    BY <1>1, <1>5
  <2>3. QED
    BY <1>1, <2>1, <2>2, Cancel
<1>7. ratioNumber(x, y) = reduced(t, k)
  BY <1>4 DEF ratioNumber
<1>8. QED
  BY <1>5, <1>6, <1>7, QuotientVal

\* minRational and maxRational, over a common denominator.
LEMMA MinMaxVal ==
  ASSUME NEW x \in Time, NEW y \in Time, NEW n \in Int, NEW m \in Int, NEW d \in Positive,
         Val(x, n, d), Val(y, m, d)
  PROVE  /\ minRational(x, y) \in Time
         /\ Val(minRational(x, y), IF n <= m THEN n ELSE m, d)
         /\ maxRational(x, y) \in Time
         /\ Val(maxRational(x, y), IF n >= m THEN n ELSE m, d)
<1>1. /\ compare(x, y) \in Int
      /\ compare(x, y) < 0 <=> n < m
      /\ compare(x, y) = 0 <=> n = m
  BY CompareVal
<1>2. (compare(x, y) <= 0 <=> n <= m) /\ (compare(x, y) >= 0 <=> n >= m)
  BY <1>1
<1>3. QED
  BY <1>2 DEF minRational, maxRational

\* Any finite set of times has a common denominator, by induction on its size.
LEMMA CommonDenominator ==
  ASSUME NEW S, IsFiniteSet(S), S \subseteq Time
  PROVE  \E d \in Positive : \A x \in S : \E n \in Int : Val(x, n, d)
<1> DEFINE Over(U) == \E d \in Positive : \A x \in U : \E n \in Int : Val(x, n, d)
           Wrong == {k \in Nat : \E U \in SUBSET Time :
                        IsFiniteSet(U) /\ Cardinality(U) = k /\ ~ Over(U)}
<1> HIDE DEF Over
<1>1. ASSUME Wrong # {} PROVE FALSE
  <2>1. PICK k \in Wrong : \A m \in Wrong : k <= m
    BY <1>1, Least
  <2>2. PICK U \in SUBSET Time : IsFiniteSet(U) /\ Cardinality(U) = k /\ ~ Over(U)
    BY <2>1
  <2>3. U # {}
    <3>1. 1 \in Positive
      BY DEF Positive
    <3>2. Over({})
      BY <3>1 DEF Over
    <3>3. QED
      BY <2>2, <3>2
  <2>4. PICK y \in U : TRUE
    BY <2>3
  <2>5. IsFiniteSet(U \ {y}) /\ Cardinality(U \ {y}) = k - 1 /\ k \in Nat /\ k > 0
    <3>1. IsFiniteSet(U \ {y}) /\ Cardinality(U \ {y}) = Cardinality(U) - 1
      BY <2>2, <2>4, FS_RemoveElement
    <3>2. Cardinality(U \ {y}) \in Nat /\ Cardinality(U) \in Nat
      BY <2>2, <3>1, FS_CardinalityType
    <3>3. QED
      BY <2>2, <3>1, <3>2
  <2>6. k - 1 \notin Wrong
    <3>1. k - 1 \in Wrong => k <= k - 1
      BY <2>1
    <3>2. QED
      BY <2>5, <3>1
  <2>7. Over(U \ {y})
    <3>1. k - 1 \in Nat /\ U \ {y} \in SUBSET Time
      BY <2>5
    <3>2. QED
      BY <2>5, <2>6, <3>1
  <2>8. PICK d \in Positive : \A x \in U \ {y} : \E n \in Int : Val(x, n, d)
    BY <2>7 DEF Over
  <2>9. PICK e : e = y.timescale
    OBVIOUS
  <2>10. y \in Time /\ e \in Positive /\ y.ticks \in Int /\ Val(y, y.ticks, e) /\ d \in Int /\ e \in Int
    BY <2>4, <2>9, OwnVal DEF Time, Positive
  <2>11. d * e \in Positive
    BY <2>10, Products
  <2>12. \A x \in U : \E n \in Int : Val(x, n, d * e)
    <3> TAKE x \in U
    <3>1. CASE x = y
      <4>1. Val(y, y.ticks * d, e * d) /\ y.ticks * d \in Int
        BY <2>10, Scaled
      <4>2. e * d = d * e
        BY <2>10
      <4>3. QED
        BY <3>1, <4>1, <4>2
    <3>2. CASE x # y
      <4>1. PICK n \in Int : Val(x, n, d)
        BY <2>8, <3>2
      <4>2. x \in Time
        OBVIOUS
      <4>3. Val(x, n * e, d * e) /\ n * e \in Int
        BY <2>10, <4>1, <4>2, Scaled
      <4>4. QED
        BY <4>3
    <3>3. QED
      BY <3>1, <3>2
  <2>13. QED
    BY <2>2, <2>11, <2>12 DEF Over
<1>2. Cardinality(S) \in Nat
  BY FS_CardinalityType
<1>3. Cardinality(S) \notin Wrong
  BY <1>1
<1>4. Over(S)
  BY <1>2, <1>3
<1>5. QED
  BY <1>4 DEF Over

Six(a, b, c, e, f, g, na, nb, nc, ne, nf, ng, d) ==
    /\ Val(a, na, d) /\ Val(b, nb, d) /\ Val(c, nc, d)
    /\ Val(e, ne, d) /\ Val(f, nf, d) /\ Val(g, ng, d)

\* Six times at once over one denominator.
LEMMA SixTimes ==
  ASSUME NEW a \in Time, NEW b \in Time, NEW c \in Time,
         NEW e \in Time, NEW f \in Time, NEW g \in Time
  PROVE  \E d \in Positive : \E na, nb, nc, ne, nf, ng \in Int :
            Six(a, b, c, e, f, g, na, nb, nc, ne, nf, ng, d)
<1> DEFINE S == {a, b, c, e, f, g}
<1>1. IsFiniteSet(S)
  <2>1. IsFiniteSet({a})
    BY FS_Singleton
  <2>2. IsFiniteSet({a} \cup {b})
    BY <2>1, FS_AddElement
  <2>3. IsFiniteSet(({a} \cup {b}) \cup {c})
    BY <2>2, FS_AddElement
  <2>4. IsFiniteSet((({a} \cup {b}) \cup {c}) \cup {e})
    BY <2>3, FS_AddElement
  <2>5. IsFiniteSet(((({a} \cup {b}) \cup {c}) \cup {e}) \cup {f})
    BY <2>4, FS_AddElement
  <2>6. IsFiniteSet((((({a} \cup {b}) \cup {c}) \cup {e}) \cup {f}) \cup {g})
    BY <2>5, FS_AddElement
  <2>7. S = (((({a} \cup {b}) \cup {c}) \cup {e}) \cup {f}) \cup {g}
    OBVIOUS
  <2>8. QED
    BY <2>6, <2>7
<1>2. S \subseteq Time
  OBVIOUS
<1>3. PICK d \in Positive : \A x \in S : \E n \in Int : Val(x, n, d)
  BY <1>1, <1>2, CommonDenominator
<1>4. a \in S /\ b \in S /\ c \in S /\ e \in S /\ f \in S /\ g \in S
  OBVIOUS
<1> HIDE DEF S
<1>5. QED
  BY <1>3, <1>4 DEF Six

\* The operations on times give times.
LEMMA TimesClosed ==
  ASSUME NEW x \in Time, NEW y \in Time
  PROVE  /\ add(x, y) \in Time /\ subtract(x, y) \in Time
         /\ minRational(x, y) \in Time /\ maxRational(x, y) \in Time
         /\ compare(x, y) \in Int
         /\ \A f \in Rate : multiply(x, f) \in Time
<1>1. PICK d \in Positive : \E na, nb, nc, ne, nf, ng \in Int :
            Six(x, y, y, y, y, y, na, nb, nc, ne, nf, ng, d)
  BY SixTimes
<1>2. PICK n \in Int, m \in Int : Val(x, n, d) /\ Val(y, m, d)
  BY <1>1 DEF Six
<1>3. QED
  BY <1>2, SumVal, MinMaxVal, CompareVal, ProductVal

\* The parts of a range are times.
LEMMA RangeEnds ==
  ASSUME NEW r \in TimeRange
  PROVE  r.start \in Time /\ r.duration \in Time /\ rangeEnd(r) \in Time
<1>1. r.start \in Time /\ r.duration \in Time
  BY DEF TimeRange
<1>2. QED
  BY <1>1, TimesClosed DEF rangeEnd

\* The sign of a time is that of its numerator.
LEMMA TicksSign ==
  ASSUME NEW x \in Time, NEW n \in Int, NEW d \in Positive, Val(x, n, d)
  PROVE  (x.ticks < 0 <=> n < 0) /\ (x.ticks = 0 <=> n = 0)
<1>1. x.ticks \in Int /\ x.timescale \in Positive /\ x.ticks * d = n * x.timescale
  BY DEF Time, Val
<1>2. QED
  BY <1>1, SameSign

(***************************************************************************)
(* Frames.                                                                 *)
(***************************************************************************)
LEMMA FrameTime ==
  ASSUME NEW f \in Int, NEW rate \in Rate
  PROVE  /\ rate.num \in Positive /\ rate.den \in Positive
         /\ outputTime(f, rate) \in Time
         /\ Val(outputTime(f, rate), f * rate.den, rate.num)
<1>1. rate.num \in Positive /\ rate.den \in Positive /\ f * rate.den \in Int
  BY DEF Rate, Positive
<1>2. QED
  BY <1>1, ReducedVal DEF outputTime

\* Later frames have later times.
LEMMA FramesInOrder ==
  ASSUME NEW f \in Int, NEW g \in Int, NEW rate \in Rate
  PROVE  /\ compare(outputTime(f, rate), outputTime(g, rate)) < 0 <=> f < g
         /\ compare(outputTime(f, rate), outputTime(g, rate)) = 0 <=> f = g
<1>1. PICK n \in Positive, d \in Positive : n = rate.num /\ d = rate.den
  BY FrameTime
<1>2. n \in Int /\ d \in Int /\ d > 0
  BY DEF Positive
<1>3. f * d \in Int /\ g * d \in Int /\ (f * d < g * d <=> f < g) /\ (f * d = g * d <=> f = g)
  <2>1. (f - g) * d = (f * d) - (g * d)
    BY <1>2
  <2>2. (f - g < 0 => (f - g) * d < 0) /\ (f - g > 0 => (f - g) * d > 0)
        /\ (f - g = 0 => (f - g) * d = 0)
    BY <1>2
  <2>3. f * d \in Int /\ g * d \in Int
    BY <1>2
  <2>4. PICK u \in Int, v \in Int : u = f * d /\ v = g * d
    BY <2>3
  <2>5. (f - g) * d = u - v
    BY <2>1, <2>4
  <2>6. (u < v <=> f < g) /\ (u = v <=> f = g)
    BY <2>2, <2>5
  <2>7. QED
    BY <2>3, <2>4, <2>6
<1>4. QED
  BY <1>1, <1>3, FrameTime, CompareVal

\* Frame g is at or after a time that is not negative from ceilFrame on.
LEMMA CeilFrame ==
  ASSUME NEW x \in Time, x.ticks >= 0, NEW rate \in Rate
  PROVE  /\ ceilFrame(x, rate) \in Nat
         /\ \A g \in Nat : compare(outputTime(g, rate), x) >= 0 <=> g >= ceilFrame(x, rate)
<1>1. PICK rn \in Positive, rd \in Positive : rn = rate.num /\ rd = rate.den
  BY FrameTime
<1>2. PICK n \in Nat, k \in Positive : n = x.ticks * rn /\ k = x.timescale * rd
  <2>1. x.ticks \in Nat /\ x.timescale \in Positive /\ rn \in Nat
    BY DEF Time, Positive
  <2>2. x.ticks * rn \in Nat
    BY <2>1
  <2>3. x.timescale * rd \in Positive
    BY <2>1, Products
  <2>4. QED
    BY <2>2, <2>3
<1>3. PICK c : c = (n + k - 1) \div k
  OBVIOUS
<1>4. c \in Nat /\ (c * k) >= n /\ (c * k) - k < n
  <2>1. k \in Nat /\ k > 0 /\ n + k - 1 \in Nat
    BY DEF Positive
  <2>2. PICK r, m : m = n + k - 1 /\ r = m % k
    OBVIOUS
  <2>3. r \in Nat /\ r < k /\ c \in Nat /\ m = (k * c) + r
    BY <1>3, <2>1, <2>2, Remainder
  <2>4. QED
    BY <2>1, <2>2, <2>3
<1>5. ceilFrame(x, rate) = c
  BY <1>1, <1>2, <1>3 DEF ceilFrame
<1>6. ASSUME NEW g \in Nat PROVE compare(outputTime(g, rate), x) >= 0 <=> g >= c
  <2>1. PICK t : t = outputTime(g, rate)
    OBVIOUS
  <2>2. t \in Time /\ Val(t, g * rd, rn) /\ g * rd \in Int
    <3>1. t \in Time /\ Val(t, g * rd, rn)
      BY <1>1, <2>1, FrameTime
    <3>2. QED
      BY <3>1 DEF Positive
  <2>3. x.timescale \in Positive /\ x.ticks \in Int /\ rn \in Positive
        /\ x.timescale \in Int /\ rd \in Int /\ rn \in Int /\ Val(x, x.ticks, x.timescale)
    BY OwnVal DEF Time, Positive
  <2>4. Val(t, g * k, rn * x.timescale) /\ rn * x.timescale \in Positive /\ g * k \in Int
    <3>1. Val(t, (g * rd) * x.timescale, rn * x.timescale) /\ rn * x.timescale \in Positive
          /\ (g * rd) * x.timescale \in Int
      BY <2>2, <2>3, Scaled
    <3>2. (g * rd) * x.timescale = g * k
      BY <1>2, <2>3
    <3>3. QED
      BY <3>1, <3>2
  <2>5. Val(x, n, rn * x.timescale)
    <3>1. Val(x, x.ticks * rn, x.timescale * rn)
      BY <2>3, Scaled
    <3>2. x.timescale * rn = rn * x.timescale
      BY <2>3
    <3>3. QED
      BY <1>2, <3>1, <3>2
  <2>6. compare(t, x) >= 0 <=> g * k >= n
    <3>1. compare(t, x) \in Int /\ (compare(t, x) < 0 <=> g * k < n)
      BY <2>2, <2>4, <2>5, CompareVal
    <3>2. QED
      BY <2>4, <3>1
  <2>7. g * k >= n <=> g >= c
    <3>1. k \in Nat /\ k > 0
      BY DEF Positive
    <3>2. g >= c => g * k >= c * k
      BY <1>4, <3>1
    <3>3. g <= c - 1 => g * k <= (c * k) - k
      <4>1. (c - 1) * k = (c * k) - k
        BY <1>4, <3>1
      <4>2. g <= c - 1 => g * k <= (c - 1) * k
        BY <1>4, <3>1
      <4>3. QED
        BY <4>1, <4>2
    <3>4. g * k \in Nat /\ c * k \in Nat
      BY <1>4, <3>1
    <3>5. PICK u \in Nat, v \in Nat : u = g * k /\ v = c * k
      BY <3>4
    <3>6. (g >= c => u >= v) /\ (g <= c - 1 => u <= v - k) /\ v >= n /\ v - k < n
      BY <1>4, <3>2, <3>3, <3>5
    <3>7. u >= n <=> g >= c
      BY <1>4, <3>1, <3>6
    <3>8. QED
      BY <3>5, <3>7
  <2>8. QED
    BY <2>1, <2>6, <2>7
<1>7. QED
  BY <1>4, <1>5, <1>6

(***************************************************************************)
(* What an occurrence plays.                                               *)
(***************************************************************************)
Clip(o) == /\ o.sourceRange \in TimeRange /\ o.outputRange \in TimeRange
           /\ o.retimeFactor \in Rate

\* The time of its source an occurrence that does not stand still plays at t.
At(o, t) == add(o.sourceRange.start,
                multiply(subtract(t, o.outputRange.start), o.retimeFactor))

InStep(o) == compare(multiply(o.outputRange.duration, o.retimeFactor),
                     o.sourceRange.duration) = 0

\* All of it over common denominators: the numbers of an occurrence o whose output
\* and source ranges are a, l and s, k, of a time n of the film and m of the source.
Numbers(o, t, x, d, p, q, a, l, s, k, n, m) ==
            /\ Val(o.outputRange.start, a, d) /\ Val(t, n, d)
            /\ Val(rangeEnd(o.outputRange), a + l, d)
            /\ Val(o.sourceRange.duration, k, d)
            /\ At(o, t) \in Time /\ Val(At(o, t), (s * q) + ((n - a) * p), d * q)
            /\ Val(x, m * q, d * q) /\ Val(o.sourceRange.start, s * q, d * q)
            /\ Val(rangeEnd(o.sourceRange), (s + k) * q, d * q)
            /\ filmTime(o, x) \in Time
            /\ Val(filmTime(o, x), (a * p) + ((m - s) * q), d * p) /\ Val(t, n * p, d * p)
            /\ InStep(o) <=> l * p = k * q
            /\ d * p \in Positive /\ d * q \in Positive

\* There are such numbers for every occurrence and every time.
LEMMA ClipNumbers ==
  ASSUME NEW o, Clip(o), NEW t \in Time, NEW x \in Time
  PROVE  \E d, p, q \in Positive : \E a, l, s, k, n, m \in Int :
            Numbers(o, t, x, d, p, q, a, l, s, k, n, m)
<1> DEFINE out == o.outputRange
           src == o.sourceRange
<1>1. /\ out.start \in Time /\ out.duration \in Time /\ src.start \in Time
      /\ src.duration \in Time /\ o.retimeFactor \in Rate
  BY DEF Clip, TimeRange
<1>2. PICK p, q : p = o.retimeFactor.num /\ q = o.retimeFactor.den
  OBVIOUS
<1>3. p \in Positive /\ q \in Positive /\ p \in Int /\ q \in Int
  BY <1>1, <1>2 DEF Rate, Positive
<1> HIDE DEF out, src
<1>4. PICK d \in Positive : \E na, nb, nc, ne, nf, ng \in Int :
            Six(out.start, out.duration, src.start, src.duration, t, x,
                na, nb, nc, ne, nf, ng, d)
  BY <1>1, SixTimes
<1>5. PICK a \in Int, l \in Int, s \in Int, k \in Int, n \in Int, m \in Int :
            /\ Val(out.start, a, d) /\ Val(out.duration, l, d) /\ Val(src.start, s, d)
            /\ Val(src.duration, k, d) /\ Val(t, n, d) /\ Val(x, m, d)
  BY <1>4 DEF Six
<1>6. Val(rangeEnd(out), a + l, d) /\ rangeEnd(out) \in Time
  BY <1>1, <1>5, SumVal DEF rangeEnd
<1>7. d * p \in Positive /\ d * q \in Positive
  BY <1>3, Products
<1>8. /\ Val(x, m * q, d * q) /\ Val(src.start, s * q, d * q)
      /\ Val(src.duration, k * q, d * q) /\ Val(t, n * p, d * p) /\ Val(out.start, a * p, d * p)
      /\ m * q \in Int /\ s * q \in Int /\ k * q \in Int /\ n * p \in Int /\ a * p \in Int
  BY <1>1, <1>3, <1>5, Scaled
<1>9. Val(rangeEnd(src), (s + k) * q, d * q)
  <2>1. Val(rangeEnd(src), (s * q) + (k * q), d * q)
    BY <1>1, <1>7, <1>8, SumVal DEF rangeEnd
  <2>2. (s * q) + (k * q) = (s + k) * q
    BY <1>3
  <2>3. QED
    BY <2>1, <2>2
<1>10. At(o, t) \in Time /\ Val(At(o, t), (s * q) + ((n - a) * p), d * q)
  <2>1. PICK e : e = subtract(t, out.start)
    OBVIOUS
  <2>2. e \in Time /\ Val(e, n - a, d) /\ n - a \in Int
    BY <1>1, <1>5, <2>1, SumVal
  <2>3. PICK y : y = multiply(e, o.retimeFactor)
    OBVIOUS
  <2>4. y \in Time /\ Val(y, (n - a) * p, d * q) /\ (n - a) * p \in Int
    BY <1>1, <1>2, <1>3, <2>2, <2>3, ProductVal
  <2>5. At(o, t) = add(src.start, y)
    BY <2>1, <2>3 DEF At, src, out
  <2>6. QED
    BY <1>1, <1>7, <1>8, <2>4, <2>5, SumVal
<1>11. filmTime(o, x) \in Time /\ Val(filmTime(o, x), (a * p) + ((m - s) * q), d * p)
  <2>1. PICK e : e = subtract(x, src.start)
    OBVIOUS
  <2>2. e \in Time /\ Val(e, m - s, d) /\ m - s \in Int
    BY <1>1, <1>5, <2>1, SumVal
  <2>3. PICK y, g : g = [num |-> q, den |-> p] /\ y = multiply(e, g)
    OBVIOUS
  <2>4. g \in Rate
    BY <1>3, <2>3 DEF Rate
  <2>5. y \in Time /\ Val(y, (m - s) * q, d * p) /\ (m - s) * q \in Int
    BY <1>3, <2>2, <2>3, <2>4, ProductVal
  <2>6. filmTime(o, x) = add(out.start, y)
    BY <1>2, <2>1, <2>3 DEF filmTime, src, out
  <2>7. QED
    BY <1>1, <1>7, <1>8, <2>5, <2>6, SumVal
<1>12. InStep(o) <=> l * p = k * q
  <2>1. PICK y : y = multiply(out.duration, o.retimeFactor)
    OBVIOUS
  <2>2. y \in Time /\ Val(y, l * p, d * q) /\ l * p \in Int
    BY <1>1, <1>2, <1>3, <1>5, <2>1, ProductVal
  <2>3. compare(y, src.duration) = 0 <=> l * p = k * q
    BY <1>1, <1>7, <1>8, <2>2, CompareVal
  <2>4. QED
    BY <2>1, <2>3 DEF InStep, src, out
<1>13. QED
  BY <1>3, <1>5, <1>6, <1>7, <1>8, <1>9, <1>10, <1>11, <1>12 DEF src, out, Numbers

\* filmTime is the inverse of what an occurrence plays.
LEMMA FilmTimeInverse ==
  ASSUME NEW o, Clip(o), NEW t \in Time, NEW x \in Time
  PROVE  /\ compare(t, filmTime(o, x)) >= 0 <=> compare(At(o, t), x) >= 0
         /\ compare(t, filmTime(o, x)) < 0 <=> compare(At(o, t), x) < 0
         /\ At(o, t) \in Time /\ filmTime(o, x) \in Time
<1>1. PICK d \in Positive, p \in Positive, q \in Positive :
         \E a, l, s, k, n, m \in Int : Numbers(o, t, x, d, p, q, a, l, s, k, n, m)
  BY ClipNumbers
<1>2. PICK a \in Int, l \in Int, s \in Int, k \in Int, n \in Int, m \in Int :
         Numbers(o, t, x, d, p, q, a, l, s, k, n, m)
  BY <1>1
<1> USE <1>2 DEF Numbers
<1>3. p \in Int /\ q \in Int
  BY DEF Positive
<1>4. PICK u \in Int, v \in Int, w \in Int, y \in Int :
         u = (s * q) + ((n - a) * p) /\ v = m * q /\ w = (a * p) + ((m - s) * q) /\ y = n * p
  BY <1>3
<1>5. y - w = u - v
  BY <1>3, <1>4
<1>6. compare(t, filmTime(o, x)) \in Int /\ (compare(t, filmTime(o, x)) < 0 <=> y < w)
  BY <1>2, <1>4, CompareVal
<1>7. compare(At(o, t), x) \in Int /\ (compare(At(o, t), x) < 0 <=> u < v)
  BY <1>2, <1>4, CompareVal
<1>8. QED
  BY <1>2, <1>5, <1>6, <1>7

\* An occurrence is active while it plays its source range, and no longer.
LEMMA ActiveWhilePlaying ==
  ASSUME NEW o, Clip(o), NEW t \in Time, InStep(o)
  PROVE  /\ active(t, o.outputRange) <=>
                /\ compare(At(o, t), o.sourceRange.start) >= 0
                /\ compare(At(o, t), rangeEnd(o.sourceRange)) < 0
<1>0. t \in Time /\ o.outputRange.start \in Time /\ rangeEnd(o.outputRange) \in Time
      /\ o.sourceRange.start \in Time /\ rangeEnd(o.sourceRange) \in Time
  BY RangeEnds DEF Clip
<1>1. PICK d \in Positive, p \in Positive, q \in Positive :
         \E a, l, s, k, n, m \in Int : Numbers(o, t, t, d, p, q, a, l, s, k, n, m)
  BY ClipNumbers
<1>2. PICK a \in Int, l \in Int, s \in Int, k \in Int, n \in Int, m \in Int :
         Numbers(o, t, t, d, p, q, a, l, s, k, n, m)
  BY <1>1
<1> USE <1>2 DEF Numbers
<1>3. p \in Int /\ q \in Int /\ p > 0
  BY DEF Positive
<1>4. PICK u \in Int, v \in Int, w \in Int :
         u = (s * q) + ((n - a) * p) /\ v = s * q /\ w = (s + k) * q
  BY <1>3
<1>5. u - v = (n - a) * p /\ u - w = ((n - a) - l) * p
  <2>1. u - v = (n - a) * p
    BY <1>3, <1>4
  <2>2. u - w = ((n - a) * p) - (k * q)
    BY <1>3, <1>4
  <2>3. ((n - a) * p) - (l * p) = ((n - a) - l) * p
    BY <1>3
  <2>4. QED
    BY <1>2, <2>1, <2>2, <2>3
<1>6. (u >= v <=> n >= a) /\ (u < w <=> n < a + l)
  <2>1. PICK z \in Int, y \in Int : z = n - a /\ y = (n - a) - l
    OBVIOUS
  <2>2. u - v = z * p /\ u - w = y * p
    BY <1>5, <2>1
  <2>3. (z >= 0 => z * p >= 0) /\ (z < 0 => z * p < 0) /\ (y >= 0 => y * p >= 0) /\ (y < 0 => y * p < 0)
    BY <1>3
  <2>4. (z * p) \in Int /\ (y * p) \in Int
    BY <1>3
  <2>5. (u - v >= 0 <=> z >= 0) /\ (u - w < 0 <=> y < 0)
    BY <2>2, <2>3, <2>4
  <2>6. QED
    BY <2>1, <2>5
<1>7. compare(t, o.outputRange.start) \in Int /\ (compare(t, o.outputRange.start) < 0 <=> n < a)
  BY <1>0, <1>2, CompareVal
<1>8. compare(t, rangeEnd(o.outputRange)) < 0 <=> n < a + l
  BY <1>0, <1>2, CompareVal
<1>9. /\ compare(At(o, t), o.sourceRange.start) \in Int
      /\ compare(At(o, t), o.sourceRange.start) < 0 <=> u < v
  BY <1>0, <1>2, <1>4, CompareVal
<1>10. compare(At(o, t), rangeEnd(o.sourceRange)) < 0 <=> u < w
  BY <1>0, <1>2, <1>4, CompareVal
<1>11. QED
  BY <1>6, <1>7, <1>8, <1>9, <1>10 DEF active

(***************************************************************************)
(* Sequences.                                                              *)
(***************************************************************************)
LEMMA LeastMember ==
  ASSUME NEW S \in SUBSET Nat, S # {}
  PROVE  Min(S) \in S /\ \A y \in S : Min(S) <= y
<1>1. \E x \in S : \A y \in S : x <= y
  BY Least
<1>2. QED
  BY <1>1 DEF Min

\* The members of K have the ranks 1 to its cardinality, each one its own.
LEMMA Ranks ==
  ASSUME NEW N \in Nat, NEW K \in SUBSET (1 .. N)
  PROVE  /\ Cardinality(K) \in Nat
         /\ \A n \in K : Cardinality(K \cap 1 .. n) \in 1 .. Cardinality(K)
         /\ \A m, n \in K :
              m < n => Cardinality(K \cap 1 .. m) < Cardinality(K \cap 1 .. n)
         /\ \A m, n \in K :
              Cardinality(K \cap 1 .. m) = Cardinality(K \cap 1 .. n) => m = n
         /\ \A k \in 1 .. Cardinality(K) :
              \E n \in K : Cardinality(K \cap 1 .. n) = k
<1> DEFINE rank == [n \in K |-> Cardinality(K \cap 1 .. n)]
<1>1. IsFiniteSet(K) /\ Cardinality(K) \in Nat
  <2>1. 1 \in Int /\ N \in Int
    OBVIOUS
  <2>2. IsFiniteSet(1 .. N)
    BY <2>1, FS_Interval
  <2>3. IsFiniteSet(K)
    BY <2>2, FS_Subset
  <2>4. QED
    BY <2>3, FS_CardinalityType
<1>2. \A T \in SUBSET K : IsFiniteSet(T) /\ Cardinality(T) \in Nat
                          /\ Cardinality(T) <= Cardinality(K)
  BY <1>1, FS_Subset, FS_CardinalityType
<1>3. \A n \in K : Cardinality(K \cap 1 .. n) \in 1 .. Cardinality(K)
  <2> SUFFICES ASSUME NEW n \in K
               PROVE  Cardinality(K \cap 1 .. n) \in 1 .. Cardinality(K)
    OBVIOUS
  <2>1. n \in K \cap 1 .. n
    OBVIOUS
  <2>2. Cardinality(K \cap 1 .. n) # 0
    BY <2>1, <1>2, FS_EmptySet
  <2>3. QED
    BY <2>2, <1>1, <1>2
<1>4. \A m, n \in K : m < n => Cardinality(K \cap 1 .. m) < Cardinality(K \cap 1 .. n)
  <2> SUFFICES ASSUME NEW m \in K, NEW n \in K, m < n
               PROVE  Cardinality(K \cap 1 .. m) < Cardinality(K \cap 1 .. n)
    OBVIOUS
  <2>1. K \cap 1 .. m \in SUBSET (K \cap 1 .. n)
    OBVIOUS
  <2>2. K \cap 1 .. m # K \cap 1 .. n
    OBVIOUS
  <2>3. IsFiniteSet(K \cap 1 .. n)
    BY <1>2
  <2>4. Cardinality(K \cap 1 .. m) <= Cardinality(K \cap 1 .. n)
        /\ Cardinality(K \cap 1 .. m) # Cardinality(K \cap 1 .. n)
    BY <2>1, <2>2, <2>3, FS_Subset
  <2>5. QED
    BY <2>4, <1>2
<1>5. \A m, n \in K :
         Cardinality(K \cap 1 .. m) = Cardinality(K \cap 1 .. n) => m = n
  <2> SUFFICES ASSUME NEW m \in K, NEW n \in K, m # n
               PROVE  Cardinality(K \cap 1 .. m) # Cardinality(K \cap 1 .. n)
    OBVIOUS
  <2>1. m < n \/ n < m
    OBVIOUS
  <2>2. Cardinality(K \cap 1 .. m) \in Nat /\ Cardinality(K \cap 1 .. n) \in Nat
    BY <1>2
  <2>3. QED
    BY <2>1, <2>2, <1>4
<1>6. rank \in Injection(K, 1 .. Cardinality(K))
  BY <1>3, <1>5 DEF Injection, IsInjective
<1>7. rank \in Surjection(K, 1 .. Cardinality(K))
  <2>1. Cardinality(1 .. Cardinality(K)) = Cardinality(K) /\ IsFiniteSet(1 .. Cardinality(K))
    BY <1>1, FS_Interval
  <2>2. QED
    BY <2>1, <1>6, FS_Injection
<1>8. QED
  BY <1>1, <1>3, <1>4, <1>5, <1>7 DEF Surjection

\* filtered(s, P) holds the members at the places P, each once, in their order.
Holds(t, s, P) ==
    /\ IsSequence(t) /\ Len(t) = Cardinality(P) /\ Cardinality(P) \in Nat
    /\ DOMAIN t = 1 .. Cardinality(P)
    /\ \A k \in 1 .. Cardinality(P) :
           t[k] = s[nth(P, k)] /\ nth(P, k) \in P /\ Cardinality(P \cap 1 .. nth(P, k)) = k
    /\ \A i \in P : /\ Cardinality(P \cap 1 .. i) \in 1 .. Cardinality(P)
                    /\ nth(P, Cardinality(P \cap 1 .. i)) = i

\* filtered keeps exactly the elements asked for, in order.
LEMMA Filtered ==
  ASSUME NEW s, IsSequence(s), NEW P \in SUBSET DOMAIN s
  PROVE  Holds(filtered(s, P), s, P)
<1>1. Len(s) \in Nat /\ P \in SUBSET (1 .. Len(s))
  BY DEF IsSequence
<1>2. /\ Cardinality(P) \in Nat
      /\ \A n \in P : Cardinality(P \cap 1 .. n) \in 1 .. Cardinality(P)
      /\ \A m, n \in P : Cardinality(P \cap 1 .. m) = Cardinality(P \cap 1 .. n) => m = n
      /\ \A k \in 1 .. Cardinality(P) : \E n \in P : Cardinality(P \cap 1 .. n) = k
  BY <1>1, Ranks
<1>3. filtered(s, P) = [k \in 1 .. Cardinality(P) |-> s[nth(P, k)]]
  BY DEF filtered
<1>4. \A k \in 1 .. Cardinality(P) : nth(P, k) \in P /\ Cardinality(P \cap 1 .. nth(P, k)) = k
  BY <1>2 DEF nth
<1>5. \A i \in P : nth(P, Cardinality(P \cap 1 .. i)) = i
  BY <1>2, <1>4
<1>6. DOMAIN filtered(s, P) = 1 .. Cardinality(P) /\ Len(filtered(s, P)) = Cardinality(P)
  BY <1>2, <1>3
<1>7. \A k \in 1 .. Cardinality(P) : filtered(s, P)[k] = s[nth(P, k)]
  BY <1>3
<1>8. IsSequence(filtered(s, P))
  BY <1>2, <1>6 DEF IsSequence
<1>9. QED
  BY <1>2, <1>4, <1>5, <1>6, <1>7, <1>8 DEF Holds

\* Where the elements of two sequences are in their concatenation.
LEMMA Joined ==
  ASSUME NEW s, NEW t, IsSequence(s), IsSequence(t)
  PROVE  /\ IsSequence(s \o t) /\ Len(s \o t) = Len(s) + Len(t)
         /\ \A i \in DOMAIN s : i \in DOMAIN (s \o t) /\ (s \o t)[i] = s[i]
         /\ \A i \in DOMAIN t : Len(s) + i \in DOMAIN (s \o t) /\ (s \o t)[Len(s) + i] = t[i]
         /\ ToSet(s \o t) = ToSet(s) \cup ToSet(t)
<1>1. /\ DOMAIN s = 1 .. Len(s) /\ DOMAIN t = 1 .. Len(t) /\ Len(s) \in Nat /\ Len(t) \in Nat
      /\ DOMAIN (s \o t) = 1 .. (Len(s) + Len(t)) /\ Len(s \o t) = Len(s) + Len(t)
  BY DEF IsSequence
<1>2. IsSequence(s \o t)
  BY <1>1 DEF IsSequence
<1>3. \A i \in DOMAIN s : i \in DOMAIN (s \o t) /\ (s \o t)[i] = s[i]
  BY <1>1
<1>4. \A i \in DOMAIN t : Len(s) + i \in DOMAIN (s \o t) /\ (s \o t)[Len(s) + i] = t[i]
  BY <1>1
<1>5. \A j \in DOMAIN (s \o t) : j \in DOMAIN s \/ \E i \in DOMAIN t : j = Len(s) + i
  <2> TAKE j \in DOMAIN (s \o t)
  <2>1. CASE j <= Len(s)
    BY <1>1, <2>1
  <2>2. CASE j > Len(s)
    <3>1. j - Len(s) \in DOMAIN t /\ j = Len(s) + (j - Len(s))
      BY <1>1, <2>2
    <3>2. QED
      BY <3>1
  <2>3. QED
    BY <1>1, <2>1, <2>2
<1>6. ToSet(s \o t) = ToSet(s) \cup ToSet(t)
  <2>1. ASSUME NEW x \in ToSet(s \o t) PROVE x \in ToSet(s) \cup ToSet(t)
    BY <1>3, <1>4, <1>5 DEF ToSet
  <2>2. ASSUME NEW x \in ToSet(s) \cup ToSet(t) PROVE x \in ToSet(s \o t)
    BY <1>3, <1>4 DEF ToSet
  <2>3. QED
    BY <2>1, <2>2
<1>7. QED
  BY <1>1, <1>2, <1>3, <1>4, <1>6

(***************************************************************************)
(* One frame.                                                              *)
(***************************************************************************)
LEMMA PlanFacts ==
  ASSUME NEW p \in Plans
  PROVE  /\ p.fixture \in {"M", "T", "L"} /\ p.rate \in Rate
         /\ p.frameCount \in Nat /\ p.outputDuration \in Time
         /\ \A id \in DOMAIN p.sources : p.sources[id] \in Time \cup {Null}
         /\ IsSequence(p.occurrences) /\ IsSequence(p.boundaries)
         /\ \A i \in DOMAIN p.boundaries : p.boundaries[i].outputTime \in Time
         /\ DOMAIN p.occurrences \in SUBSET Nat /\ DOMAIN p.boundaries \in SUBSET Nat
         /\ \A i \in DOMAIN p.occurrences : Clip(p.occurrences[i])
         /\ \A f \in Int : outputTime(f, p.rate) \in Time
<1>1. p.rate \in Rate
  BY PlansAssumption
<1>2. \A f \in Int : outputTime(f, p.rate) \in Time
  BY <1>1, FrameTime
<1>3. IsSequence(p.occurrences) /\ IsSequence(p.boundaries)
  BY PlansAssumption
<1>4. DOMAIN p.occurrences \in SUBSET Nat /\ DOMAIN p.boundaries \in SUBSET Nat
  BY <1>3 DEF IsSequence
<1>5. \A i \in DOMAIN p.occurrences : Clip(p.occurrences[i])
  BY PlansAssumption DEF Clip
<1>6. QED
  BY <1>1, <1>2, <1>3, <1>4, <1>5, PlansAssumption

\* The layers of a role are those of the occurrences of that role in their order.
LEMMA LayersOfRole ==
  ASSUME NEW p \in Plans, NEW role, NEW f, NEW time
  PROVE  /\ IsSequence(Layers(p, role, f, time))
         /\ ToSet(Layers(p, role, f, time)) =
                { layerFor(p, p.occurrences[i], f, time) : i \in Live(p, role, time) }
<1> DEFINE live == Live(p, role, time)
           some == filtered(p.occurrences, live)
<1>1. IsSequence(p.occurrences) /\ live \in SUBSET DOMAIN p.occurrences
  BY PlanFacts DEF Live, InTime
<1> HIDE DEF live
<1>2. /\ IsSequence(some)
      /\ \A k \in DOMAIN some : \E i \in live : some[k] = p.occurrences[i]
      /\ \A i \in live : \E k \in DOMAIN some : some[k] = p.occurrences[i]
  <2>1. Holds(some, p.occurrences, live)
    BY <1>1, Filtered
  <2> HIDE DEF some
  <2>2. QED
    BY <2>1 DEF Holds
<1>3. Layers(p, role, f, time) = [k \in DOMAIN some |-> layerFor(p, some[k], f, time)]
  BY DEF Layers, live
<1> HIDE DEF some
<1>4. IsSequence(Layers(p, role, f, time))
  BY <1>2, <1>3 DEF IsSequence
<1>5. ToSet(Layers(p, role, f, time)) = { layerFor(p, some[k], f, time) : k \in DOMAIN some }
  BY <1>3 DEF ToSet
<1>6. { layerFor(p, some[k], f, time) : k \in DOMAIN some }
         = { layerFor(p, p.occurrences[i], f, time) : i \in live }
  BY <1>2
<1>7. QED
  BY <1>4, <1>5, <1>6 DEF live

Fading(p, f) == p.fixture = "L" /\ Transitions(p, outputTime(f, p.rate)) # {}

\* The chapter of a frame of a film that is not in a transition.
ChapterPlace(p, f) == Min({ i \in InTime(p, outputTime(f, p.rate)) : p.occurrences[i].chapter })

\* The picture layers of a frame: those of the transition, or the pictures in time.
LEMMA PicturesOfFrame ==
  ASSUME NEW p \in Plans, NEW f \in Nat
  PROVE  LET time == outputTime(f, p.rate)
             pictures == frameState(p, f).pictureLayers
         IN  /\ IsSequence(pictures)
             /\ Fading(p, f) => pictures = lTransition(p, f, time)
             /\ ~Fading(p, f) => ToSet(pictures) =
                  { layerFor(p, p.occurrences[i], f, time) : i \in Live(p, "picture", time) }
<1> DEFINE time == outputTime(f, p.rate)
           pictures == frameState(p, f).pictureLayers
<1>1. pictures = IF Fading(p, f) THEN lTransition(p, f, time) ELSE Layers(p, "picture", f, time)
  BY DEF frameState, Fading
<1>2. IsSequence(lTransition(p, f, time))
  BY DEF lTransition, IsSequence
<1> HIDE DEF time, pictures
<1>3. /\ IsSequence(Layers(p, "picture", f, time))
      /\ ToSet(Layers(p, "picture", f, time)) =
             { layerFor(p, p.occurrences[i], f, time) : i \in Live(p, "picture", time) }
  BY LayersOfRole
<1>4. QED
  BY <1>1, <1>2, <1>3 DEF time, pictures

\* The music of a frame: its layers at the level of the time.
Levelled(p, f) ==
    LET time  == outputTime(f, p.rate)
        music == Layers(p, "music", f, time)
    IN  [i \in DOMAIN music |->
            [music[i] EXCEPT !.gain = musicGain(projectSpeechRanges(p), time).gain]]

\* The roles of a frame, fixture by fixture.
LEMMA RolesOfFrame ==
  ASSUME NEW p \in Plans, NEW f \in Nat
  PROVE  LET time == outputTime(f, p.rate)
             roles == frameState(p, f).roles
         IN  /\ p.fixture = "M" => roles = <<>>
             /\ p.fixture = "T" =>
                   roles = Layers(p, "dialogue", f, time) \o Levelled(p, f)
                             \o Layers(p, "sfx", f, time)
             /\ Fading(p, f) => roles = lTransition(p, f, time)
             /\ p.fixture = "L" /\ ~Fading(p, f) /\ ~frameThrows(p, f) =>
                   /\ ChapterPlace(p, f) \in InTime(p, time)
                   /\ p.occurrences[ChapterPlace(p, f)].chapter
                   /\ roles = <<[layerFor(p, p.occurrences[ChapterPlace(p, f)], f, time)
                                     EXCEPT !.gain = One]>>
<1> DEFINE time == outputTime(f, p.rate)
           roles == frameState(p, f).roles
           places == { i \in InTime(p, time) : p.occurrences[i].chapter }
           chapter == found(p.occurrences, places)
<1>0. p.fixture \in {"M", "T", "L"}
  BY PlanFacts
<1>1. roles = CASE p.fixture = "T" ->
                          Layers(p, "dialogue", f, time) \o Levelled(p, f)
                              \o Layers(p, "sfx", f, time)
                [] p.fixture = "L" ->
                     IF Fading(p, f) THEN lTransition(p, f, time)
                     ELSE <<[layerFor(p, chapter, f, time) EXCEPT !.gain = One]>>
                [] p.fixture = "M" -> <<>>
  BY DEF frameState, Fading, Levelled
<1>2. ASSUME p.fixture = "L", ~Fading(p, f), ~frameThrows(p, f)
      PROVE  /\ ChapterPlace(p, f) \in InTime(p, time)
             /\ p.occurrences[ChapterPlace(p, f)].chapter
             /\ chapter = p.occurrences[ChapterPlace(p, f)]
  <2>1. places # {}
    BY <1>2 DEF frameThrows, Fading
  <2>2. places \in SUBSET Nat
    BY PlanFacts DEF InTime
  <2>3. ChapterPlace(p, f) = Min(places)
    BY DEF ChapterPlace
  <2>4. Min(places) \in places
    <3> HIDE DEF places
    <3> QED
      BY <2>1, <2>2, LeastMember
  <2>5. chapter = p.occurrences[Min(places)]
    BY <2>1 DEF found
  <2>6. QED
    BY <2>3, <2>4, <2>5
<1> HIDE DEF time, roles, chapter, places
<1>3. Fading(p, f) => p.fixture = "L"
  BY DEF Fading
<1>4. QED
  BY <1>0, <1>1, <1>2, <1>3 DEF time, roles

(***************************************************************************)
(* What acceptance says.                                                   *)
(***************************************************************************)
Sound(p, o) ==
    /\ Clip(o) /\ o.sourceId \in DOMAIN p.sources
    /\ o.sourceRange.start.ticks >= 0 /\ o.outputRange.start.ticks >= 0
    /\ p.sources[o.sourceId] # Null =>
           /\ p.sources[o.sourceId] \in Time
           /\ compare(rangeEnd(o.sourceRange), p.sources[o.sourceId]) <= 0
    /\ ~Still(o) => InStep(o)

\* What validateOccurrences lets through is sound, and its ids are distinct.
LEMMA AcceptedOccurrences ==
  ASSUME NEW p \in Plans, freezeSnapshot(p)
  PROVE  /\ \A i \in DOMAIN p.occurrences : Sound(p, p.occurrences[i])
         /\ \A i, j \in DOMAIN p.occurrences :
                p.occurrences[i].id = p.occurrences[j].id => i = j
<1>1. validateOccurrences(p)
  BY DEF freezeSnapshot, validateManifestMeaning
<1>2. ASSUME NEW i \in DOMAIN p.occurrences PROVE Sound(p, p.occurrences[i])
  <2>1. PICK o : o = p.occurrences[i]
    OBVIOUS
  <2>2. Clip(o)
    BY <2>1, PlanFacts
  <2>3. ValidRange(p, o) /\ o.sourceId \in DOMAIN p.sources
    BY <1>1, <2>1 DEF validateOccurrences
  <2>4. o.sourceRange.duration.ticks \in Int
    BY <2>2 DEF Clip, TimeRange, Time
  <2>5. ~Still(o) => InStep(o)
    BY <2>3, <2>4 DEF ValidRange, Still, InStep
  <2>6. p.sources[o.sourceId] \in Time \cup {Null}
    BY <2>3, PlanFacts
  <2>7. QED
    BY <2>1, <2>2, <2>3, <2>5, <2>6 DEF Sound, ValidRange
<1>3. QED
  BY <1>1, <1>2 DEF validateOccurrences

\* Behind an accepted transition there is a chapter, with handles that suffice.
LEMMA AcceptedTransitions ==
  ASSUME NEW p \in Plans, freezeSnapshot(p), p.fixture = "L",
         NEW i \in DOMAIN p.occurrences, p.occurrences[i].role = "transition"
  PROVE  /\ i \in Nat /\ i < Len(p.occurrences) /\ i + 1 \in DOMAIN p.occurrences
         /\ p.occurrences[i + 1].chapter /\ BoundedHandles(p, i)
<1>1. validateLongTransitions(p)
  BY DEF freezeSnapshot
<1>2. i < Len(p.occurrences) /\ p.occurrences[i + 1].chapter /\ BoundedHandles(p, i)
  BY <1>1 DEF validateLongTransitions
<1>3. DOMAIN p.occurrences = 1 .. Len(p.occurrences) /\ Len(p.occurrences) \in Nat
  BY PlanFacts DEF IsSequence
<1>4. QED
  BY <1>2, <1>3

(***************************************************************************)
(* No frame reads outside its source.                                      *)
(***************************************************************************)
LEMMA CompareOrder ==
  ASSUME NEW x \in Time, NEW y \in Time, NEW z \in Time
  PROVE  /\ compare(x, y) < 0 /\ compare(y, z) <= 0 => compare(x, z) < 0
         /\ compare(x, y) >= 0 /\ y.ticks >= 0 => x.ticks >= 0
         /\ compare(x, y) = 0 <=> compare(y, x) = 0
         /\ compare(x, y) < 0 <=> compare(y, x) > 0
<1>1. PICK d \in Positive : \E na, nb, nc, ne, nf, ng \in Int :
            Six(x, y, z, z, z, z, na, nb, nc, ne, nf, ng, d)
  BY SixTimes
<1>2. PICK n \in Int, m \in Int, k \in Int : Val(x, n, d) /\ Val(y, m, d) /\ Val(z, k, d)
  BY <1>1 DEF Six
<1>3. /\ compare(x, y) \in Int /\ (compare(x, y) < 0 <=> n < m) /\ (compare(x, y) = 0 <=> n = m)
      /\ compare(y, x) \in Int /\ (compare(y, x) < 0 <=> m < n) /\ (compare(y, x) = 0 <=> m = n)
      /\ compare(y, z) \in Int /\ (compare(y, z) < 0 <=> m < k) /\ (compare(y, z) = 0 <=> m = k)
      /\ compare(x, z) \in Int /\ (compare(x, z) < 0 <=> n < k)
  BY <1>2, CompareVal
<1>4. (x.ticks < 0 <=> n < 0) /\ (y.ticks < 0 <=> m < 0) /\ x.ticks \in Int /\ y.ticks \in Int
  BY <1>2, TicksSign, TimeParts
<1>5. QED
  BY <1>3, <1>4

\* Times equal to a third are equal.
LEMMA SameTime ==
  ASSUME NEW x \in Time, NEW y \in Time, NEW z \in Time, compare(x, z) = 0, compare(y, z) = 0
  PROVE  compare(x, y) = 0
<1>1. PICK d \in Positive : \E na, nb, nc, ne, nf, ng \in Int :
            Six(x, y, z, z, z, z, na, nb, nc, ne, nf, ng, d)
  BY SixTimes
<1>2. PICK n \in Int, m \in Int, k \in Int : Val(x, n, d) /\ Val(y, m, d) /\ Val(z, k, d)
  BY <1>1 DEF Six
<1>3. /\ compare(x, y) = 0 <=> n = m
      /\ compare(x, z) = 0 <=> n = k
      /\ compare(y, z) = 0 <=> m = k
  BY <1>2, CompareVal
<1>4. QED
  BY <1>3

\* Within reads a time of a source of that length, or of one without a length.
Within(length, time) ==
    time.ticks >= 0 /\ (length # Null => compare(time, length) < 0)

\* The layer of a sound occurrence reads inside its source.
LEMMA ClipWithin ==
  ASSUME NEW p, NEW o, Sound(p, o), NEW t \in Time, active(t, o.outputRange),
         Still(o) => p.sources[o.sourceId] = Null, NEW f
  PROVE  Within(p.sources[o.sourceId], layerFor(p, o, f, t).sourceTime)
<1> DEFINE length == p.sources[o.sourceId]
<1>1. Clip(o) /\ o.sourceRange.start \in Time /\ rangeEnd(o.sourceRange) \in Time
  BY RangeEnds DEF Sound, Clip
<1>2. CASE Still(o)
  <2>1. layerFor(p, o, f, t).sourceTime = asRational(o.sourceRange.start)
    BY <1>2 DEF layerFor, Still
  <2>2. asRational(o.sourceRange.start).ticks >= 0
    <3>1. PICK x \in Time : x = o.sourceRange.start
      BY <1>1
    <3>2. x.ticks \in Int /\ x.timescale \in Positive /\ x.ticks >= 0
      BY <3>1 DEF Time, Sound
    <3>3. asRational(x) \in Time /\ Val(asRational(x), x.ticks, x.timescale)
      BY <3>2, ReducedVal DEF asRational
    <3>4. asRational(x).ticks < 0 <=> x.ticks < 0
      BY <3>2, <3>3, TicksSign
    <3>5. asRational(x).ticks \in Int
      BY <3>3, TimeParts
    <3>6. QED
      BY <3>1, <3>2, <3>4, <3>5
  <2>3. QED
    BY <1>2, <2>1, <2>2 DEF Within
<1>3. CASE ~Still(o)
  <2>1. layerFor(p, o, f, t).sourceTime = At(o, t)
    BY <1>3 DEF layerFor, Still, At
  <2>2. /\ At(o, t) \in Time
        /\ compare(At(o, t), o.sourceRange.start) >= 0
        /\ compare(At(o, t), rangeEnd(o.sourceRange)) < 0
    BY <1>1, <1>3, ActiveWhilePlaying, FilmTimeInverse DEF Sound
  <2>3. At(o, t).ticks >= 0
    BY <1>1, <2>2, CompareOrder DEF Sound
  <2>4. length # Null => compare(At(o, t), length) < 0
    BY <1>1, <2>2, CompareOrder DEF Sound
  <2>5. QED
    BY <2>1, <2>3, <2>4 DEF Within
<1>4. QED
  BY <1>2, <1>3

\* The ratio of lTransition is a rate.
LEMMA HalfRate == Half \in Rate
BY DEF Half, Rate, Positive

\* A faded-in chapter is within its handle for as long as the transition is active.
LEMMA HandleWithin ==
  ASSUME NEW c, Clip(c), NEW tr, Clip(tr), NEW t \in Time, active(t, tr.outputRange),
         incomingHandle(c, tr).start.ticks >= 0,
         NEW length \in Time, compare(rangeEnd(incomingHandle(c, tr)), length) <= 0
  PROVE  Within(length, add(incomingHandle(c, tr).start, subtract(t, tr.outputRange.start)))
<1>1. tr.outputRange.start \in Time /\ tr.outputRange.duration \in Time
      /\ c.sourceRange.start \in Time
  BY DEF Clip, TimeRange
<1>2. PICK h : h = incomingHandle(c, tr).start
  OBVIOUS
<1>3. h \in Time
  <2>1. multiply(tr.outputRange.duration, Half) \in Time
    BY <1>1, HalfRate, TimesClosed
  <2>2. QED
    BY <1>1, <1>2, <2>1, TimesClosed DEF incomingHandle
<1>4. PICK d \in Positive : \E na, nb, nc, ne, nf, ng \in Int :
            Six(h, tr.outputRange.start, tr.outputRange.duration, t, length, t,
                na, nb, nc, ne, nf, ng, d)
  BY <1>1, <1>3, SixTimes
<1>5. PICK m \in Int, a \in Int, l \in Int, n \in Int, k \in Int :
         /\ Val(h, m, d) /\ Val(tr.outputRange.start, a, d)
         /\ Val(tr.outputRange.duration, l, d) /\ Val(t, n, d) /\ Val(length, k, d)
  BY <1>4 DEF Six
<1>6. rangeEnd(incomingHandle(c, tr)) \in Time /\ Val(rangeEnd(incomingHandle(c, tr)), m + l, d)
  <2>1. rangeEnd(incomingHandle(c, tr)) = add(h, tr.outputRange.duration)
    BY <1>2 DEF rangeEnd, incomingHandle
  <2>2. QED
    BY <1>1, <1>3, <1>5, <2>1, SumVal
<1>7. rangeEnd(tr.outputRange) \in Time /\ Val(rangeEnd(tr.outputRange), a + l, d)
  BY <1>1, <1>5, SumVal DEF rangeEnd
<1>8. PICK e : e = subtract(t, tr.outputRange.start)
  OBVIOUS
<1>9. e \in Time /\ Val(e, n - a, d) /\ n - a \in Int
  BY <1>1, <1>5, <1>8, SumVal
<1>10. add(h, e) \in Time /\ Val(add(h, e), m + (n - a), d)
  BY <1>3, <1>5, <1>9, SumVal
<1>11. n >= a /\ n < a + l
  <2>1. /\ compare(t, tr.outputRange.start) \in Int
        /\ compare(t, tr.outputRange.start) < 0 <=> n < a
    <3>1. PICK b : b = tr.outputRange.start
      OBVIOUS
    <3>2. b \in Time /\ Val(b, a, d) /\ Val(t, n, d)
      BY <1>1, <1>5, <3>1
    <3>3. QED
      BY <3>1, <3>2, CompareVal
  <2>2. compare(t, rangeEnd(tr.outputRange)) < 0 <=> n < a + l
    BY <1>5, <1>7, CompareVal
  <2>3. QED
    BY <2>1, <2>2 DEF active
<1>12. m >= 0 /\ m + l <= k
  <2>1. h.ticks < 0 <=> m < 0
    BY <1>3, <1>5, TicksSign
  <2>2. h.ticks \in Int /\ h.ticks >= 0
    BY <1>2, <1>3, TimeParts
  <2>3. PICK y : y = compare(rangeEnd(incomingHandle(c, tr)), length)
    OBVIOUS
  <2>4. y \in Int /\ (y < 0 <=> m + l < k) /\ (y = 0 <=> m + l = k) /\ y <= 0
    BY <1>5, <1>6, <2>3, CompareVal
  <2>5. QED
    BY <2>1, <2>2, <2>4
<1>13. add(h, e).ticks >= 0
  <2>1. add(h, e).ticks \in Int /\ (add(h, e).ticks < 0 <=> m + (n - a) < 0)
    BY <1>10, TicksSign, TimeParts
  <2>2. QED
    BY <1>11, <1>12, <2>1
<1>14. compare(add(h, e), length) < 0
  <2>1. compare(add(h, e), length) < 0 <=> m + (n - a) < k
    BY <1>5, <1>10, CompareVal
  <2>2. QED
    BY <1>11, <1>12, <2>1
<1>15. QED
  BY <1>2, <1>8, <1>13, <1>14 DEF Within

\* A layer of a frame shows an occurrence that is active, or fades a chapter in.
Shows(layer, p, i, f) ==
    /\ i \in InTime(p, outputTime(f, p.rate))
    /\ layer.occurrenceId = p.occurrences[i].id /\ layer.sourceId = p.occurrences[i].sourceId
    /\ layer.sourceTime = layerFor(p, p.occurrences[i], f, outputTime(f, p.rate)).sourceTime

FadesIn(layer, p, f) ==
    Fading(p, f) /\ layer = lTransition(p, f, outputTime(f, p.rate))[2]

\* A layer of layerFor shows its occurrence, whatever its role and its gain are set to.
LEMMA LayerShows ==
  ASSUME NEW p, NEW f, NEW i \in InTime(p, outputTime(f, p.rate)), NEW layer,
         \/ layer = layerFor(p, p.occurrences[i], f, outputTime(f, p.rate))
         \/ \E g : layer = [layerFor(p, p.occurrences[i], f, outputTime(f, p.rate)) EXCEPT !.gain = g]
         \/ \E r, g : layer = [layerFor(p, p.occurrences[i], f, outputTime(f, p.rate))
                                  EXCEPT !.role = r, !.gain = g]
  PROVE  Shows(layer, p, i, f)
<1>1. PICK own : own = layerFor(p, p.occurrences[i], f, outputTime(f, p.rate))
  OBVIOUS
<1>2. own.occurrenceId = p.occurrences[i].id /\ own.sourceId = p.occurrences[i].sourceId
  BY <1>1 DEF layerFor
<1>3. /\ layer.occurrenceId = own.occurrenceId /\ layer.sourceId = own.sourceId
      /\ layer.sourceTime = own.sourceTime
  BY <1>1 DEF layerFor
<1>4. QED
  BY <1>1, <1>2, <1>3 DEF Shows

\* The transition that is found is one of the plan, active and of that role.
LEMMA TransitionPlace ==
  ASSUME NEW p \in Plans, NEW f, Fading(p, f)
  PROVE  LET time == outputTime(f, p.rate)
         IN  /\ TransitionIndex(p, time) \in InTime(p, time)
             /\ TransitionIndex(p, time) \in DOMAIN p.occurrences
             /\ active(time, p.occurrences[TransitionIndex(p, time)].outputRange)
             /\ p.occurrences[TransitionIndex(p, time)].role = "transition"
<1> DEFINE time == outputTime(f, p.rate)
           S == Transitions(p, time)
<1>1. S \in SUBSET Nat /\ S # {}
  BY PlanFacts DEF Fading, Transitions, Live, InTime
<1>2. TransitionIndex(p, time) = Min(S)
  BY DEF TransitionIndex
<1>3. Min(S) \in S
  <2> HIDE DEF S
  <2> QED
    BY <1>1, LeastMember
<1>4. QED
  BY <1>2, <1>3 DEF Transitions, Live, InTime

\* The two layers of a transition: the outgoing one is its own, the other fades in.
LEMMA FadeLayers ==
  ASSUME NEW p \in Plans, NEW f, Fading(p, f),
         NEW layer \in ToSet(lTransition(p, f, outputTime(f, p.rate)))
  PROVE  \/ FadesIn(layer, p, f)
         \/ /\ Shows(layer, p, TransitionIndex(p, outputTime(f, p.rate)), f)
            /\ layer.role = "transition-outgoing"
<1> DEFINE time == outputTime(f, p.rate)
           fade == lTransition(p, f, time)
           own  == layerFor(p, p.occurrences[TransitionIndex(p, time)], f, time)
<1>1. PICK k \in {1, 2} : layer = fade[k]
  <2>1. PICK outgoing, incoming : fade = <<outgoing, incoming>>
    BY DEF lTransition
  <2> HIDE DEF fade
  <2>2. ToSet(fade) = {fade[1], fade[2]}
    BY <2>1 DEF ToSet
  <2>3. QED
    BY <2>2 DEF fade, time
<1>2. CASE k = 2
  BY <1>1, <1>2 DEF FadesIn
<1>3. CASE k = 1
  <2>1. PICK g : fade[1] = [own EXCEPT !.role = "transition-outgoing", !.gain = g]
    BY DEF lTransition
  <2>2. TransitionIndex(p, time) \in InTime(p, time)
    BY TransitionPlace
  <2>3. layer = [own EXCEPT !.role = "transition-outgoing", !.gain = g]
    BY <1>1, <1>3, <2>1
  <2> HIDE DEF fade
  <2>4. Shows(layer, p, TransitionIndex(p, time), f)
    BY <2>2, <2>3, LayerShows
  <2>5. layer.role = "transition-outgoing"
    BY <2>3 DEF layerFor
  <2>6. QED
    BY <2>4, <2>5
<1>4. QED
  BY <1>1, <1>2, <1>3

\* The layers of a role show occurrences in time.
LEMMA LayersShow ==
  ASSUME NEW p \in Plans, NEW role, NEW f,
         NEW layer \in ToSet(Layers(p, role, f, outputTime(f, p.rate)))
  PROVE  \E i \in Live(p, role, outputTime(f, p.rate)) :
            /\ layer = layerFor(p, p.occurrences[i], f, outputTime(f, p.rate))
            /\ Shows(layer, p, i, f)
<1>1. PICK i \in Live(p, role, outputTime(f, p.rate)) :
         layer = layerFor(p, p.occurrences[i], f, outputTime(f, p.rate))
  BY LayersOfRole
<1>2. i \in InTime(p, outputTime(f, p.rate))
  BY DEF Live
<1>3. QED
  BY <1>1, <1>2, LayerShows

\* Whatever a frame shows or plays fades in or is an occurrence in time.
LEMMA ShownLayers ==
  ASSUME NEW p \in Plans, NEW f \in Nat, ~frameThrows(p, f),
         NEW layer \in ToSet(frameState(p, f).pictureLayers) \cup ToSet(frameState(p, f).roles)
  PROVE  FadesIn(layer, p, f) \/ \E i \in InTime(p, outputTime(f, p.rate)) : Shows(layer, p, i, f)
<1> DEFINE time == outputTime(f, p.rate)
           pictures == frameState(p, f).pictureLayers
           roles == frameState(p, f).roles
<1> HIDE DEF pictures, roles
<1>1. CASE Fading(p, f)
  <2>1. pictures = lTransition(p, f, time) /\ roles = lTransition(p, f, time)
    BY <1>1, PicturesOfFrame, RolesOfFrame DEF pictures, roles
  <2>2. layer \in ToSet(lTransition(p, f, time))
    BY <2>1 DEF pictures, roles
  <2>3. TransitionIndex(p, time) \in InTime(p, time)
    BY <1>1, TransitionPlace
  <2>4. QED
    BY <1>1, <2>2, <2>3, FadeLayers
<1>2. CASE ~Fading(p, f)
  <2>1. CASE layer \in ToSet(pictures)
    <3>1. ToSet(pictures) = { layerFor(p, p.occurrences[i], f, time) : i \in Live(p, "picture", time) }
      BY <1>2, PicturesOfFrame DEF pictures
    <3>2. layer \in ToSet(Layers(p, "picture", f, time))
      BY <2>1, <3>1, LayersOfRole
    <3>3. \A i \in Live(p, "picture", time) : i \in InTime(p, time)
      BY DEF Live
    <3>4. QED
      BY <3>2, <3>3, LayersShow
  <2>2. CASE layer \in ToSet(roles) /\ p.fixture = "M"
    <3>1. roles = <<>>
      BY <2>2, RolesOfFrame DEF roles
    <3>2. ToSet(<<>>) = {}
      BY DEF ToSet
    <3>3. QED
      BY <2>2, <3>1, <3>2
  <2>3. CASE layer \in ToSet(roles) /\ p.fixture = "T"
    <3>1. roles = Layers(p, "dialogue", f, time) \o Levelled(p, f) \o Layers(p, "sfx", f, time)
      BY <2>3, RolesOfFrame DEF roles
    <3>2. IsSequence(Levelled(p, f))
      <4>1. IsSequence(Layers(p, "music", f, time))
        BY LayersOfRole
      <4>2. QED
        BY <4>1 DEF Levelled, IsSequence
    <3>3. IsSequence(Layers(p, "dialogue", f, time)) /\ IsSequence(Layers(p, "sfx", f, time))
      BY LayersOfRole
    <3>4. ToSet(roles) = (ToSet(Layers(p, "dialogue", f, time)) \cup ToSet(Levelled(p, f)))
                             \cup ToSet(Layers(p, "sfx", f, time))
      BY <3>1, <3>2, <3>3, Joined
    <3>5. \A role : \A i \in Live(p, role, time) : i \in InTime(p, time)
      BY DEF Live
    <3>6. CASE layer \in ToSet(Layers(p, "dialogue", f, time))
      BY <3>5, <3>6, LayersShow
    <3>7. CASE layer \in ToSet(Layers(p, "sfx", f, time))
      BY <3>5, <3>7, LayersShow
    <3>8. CASE layer \in ToSet(Levelled(p, f))
      <4>1. PICK k \in DOMAIN Layers(p, "music", f, time) : \E g :
               layer = [Layers(p, "music", f, time)[k] EXCEPT !.gain = g]
        BY <3>8 DEF ToSet, Levelled
      <4>2. Layers(p, "music", f, time)[k] \in ToSet(Layers(p, "music", f, time))
        BY DEF ToSet
      <4>3. PICK i \in Live(p, "music", time) :
               Layers(p, "music", f, time)[k] = layerFor(p, p.occurrences[i], f, time)
        BY <4>2, LayersOfRole
      <4>4. \E g : layer = [layerFor(p, p.occurrences[i], f, time) EXCEPT !.gain = g]
        BY <4>1, <4>3
      <4>5. i \in InTime(p, time)
        BY DEF Live
      <4>6. Shows(layer, p, i, f)
        BY <4>4, <4>5, LayerShows
      <4>7. QED
        BY <4>5, <4>6
    <3>9. QED
      BY <2>3, <3>4, <3>6, <3>7, <3>8
  <2>4. CASE layer \in ToSet(roles) /\ p.fixture = "L"
    <3>1. /\ ChapterPlace(p, f) \in InTime(p, time)
          /\ roles = <<[layerFor(p, p.occurrences[ChapterPlace(p, f)], f, time)
                                     EXCEPT !.gain = One]>>
      BY <1>2, <2>4, RolesOfFrame DEF roles
    <3>2. layer = [layerFor(p, p.occurrences[ChapterPlace(p, f)], f, time) EXCEPT !.gain = One]
      BY <2>4, <3>1 DEF ToSet
    <3>3. Shows(layer, p, ChapterPlace(p, f), f)
      BY <3>1, <3>2, LayerShows
    <3>4. QED
      BY <3>1, <3>3
  <2>5. p.fixture \in {"M", "T", "L"}
    BY PlanFacts
  <2>6. QED
    BY <2>1, <2>2, <2>3, <2>4, <2>5 DEF pictures, roles
<1>3. QED
  BY <1>1, <1>2

\* So it reads inside its source.
LEMMA ShownWithin ==
  ASSUME NEW p \in Plans, freezeSnapshot(p), NEW f \in Nat, ~frameThrows(p, f),
         NEW layer \in ToSet(frameState(p, f).pictureLayers) \cup ToSet(frameState(p, f).roles),
         \A o \in ToSet(p.occurrences) :
            o.id = layer.occurrenceId /\ Still(o) => p.sources[o.sourceId] = Null
  PROVE  Within(p.sources[layer.sourceId], layer.sourceTime)
<1> DEFINE time == outputTime(f, p.rate)
<1>1. time \in Time
  BY PlanFacts
<1>2. ASSUME NEW i \in InTime(p, time), Shows(layer, p, i, f)
      PROVE  Within(p.sources[layer.sourceId], layer.sourceTime)
  <2>1. i \in DOMAIN p.occurrences /\ active(time, p.occurrences[i].outputRange)
    BY DEF InTime
  <2>2. Sound(p, p.occurrences[i]) /\ p.occurrences[i] \in ToSet(p.occurrences)
    BY <2>1, AcceptedOccurrences DEF ToSet
  <2>3. Still(p.occurrences[i]) => p.sources[p.occurrences[i].sourceId] = Null
    BY <1>2, <2>2 DEF Shows
  <2>4. Within(p.sources[p.occurrences[i].sourceId], layerFor(p, p.occurrences[i], f, time).sourceTime)
    BY <1>1, <2>1, <2>2, <2>3, ClipWithin
  <2>5. QED
    BY <1>2, <2>4 DEF Shows
<1>3. ASSUME FadesIn(layer, p, f)
      PROVE  Within(p.sources[layer.sourceId], layer.sourceTime)
  <2> DEFINE i  == TransitionIndex(p, time)
             tr == p.occurrences[i]
             c  == p.occurrences[i + 1]
  <2>1. p.fixture = "L" /\ Fading(p, f)
    BY <1>3 DEF FadesIn, Fading
  <2>2. i \in DOMAIN p.occurrences /\ active(time, tr.outputRange) /\ tr.role = "transition"
    BY <2>1, TransitionPlace
  <2>3. i + 1 \in DOMAIN p.occurrences /\ BoundedHandles(p, i)
    BY <2>1, <2>2, AcceptedTransitions
  <2>4. /\ layer.sourceId = c.sourceId
        /\ layer.sourceTime = add(incomingHandle(c, tr).start, subtract(time, tr.outputRange.start))
    BY <1>3 DEF FadesIn, lTransition
  <2> HIDE DEF i
  <2>5. Clip(c) /\ Clip(tr)
    BY <2>2, <2>3, PlanFacts
  <2>6. /\ incomingHandle(c, tr).start.ticks >= 0
        /\ p.sources[c.sourceId] # Null
        /\ compare(rangeEnd(incomingHandle(c, tr)), p.sources[c.sourceId]) <= 0
    BY <2>3 DEF BoundedHandles
  <2>7. p.sources[c.sourceId] \in Time
    <3>1. Sound(p, c)
      BY <2>3, AcceptedOccurrences
    <3>2. QED
      BY <2>6, <3>1 DEF Sound
  <2> HIDE DEF tr, c
  <2>8. QED
    BY <1>1, <2>2, <2>4, <2>5, <2>6, <2>7, HandleWithin
<1>4. QED
  BY <1>2, <1>3, ShownLayers

(***************************************************************************)
(* Every frame renders.                                                    *)
(***************************************************************************)
LEMMA ThrowsOnlyWhen ==
  ASSUME NEW p \in Plans, freezeSnapshot(p), NEW f \in 0 .. p.frameCount - 1, frameThrows(p, f)
  PROVE  \/ \E g \in 0 .. p.frameCount - 1 : ~Covered(p, g)
         \/ \E i, j \in DOMAIN p.boundaries :
               i # j /\ compare(p.boundaries[i].outputTime, p.boundaries[j].outputTime) = 0
<1> DEFINE time == outputTime(f, p.rate)
<1>1. p.fixture = "L"
  BY DEF frameThrows
<1>2. CASE Transitions(p, time) = {}
  <2>1. ~Covered(p, f)
    BY <1>2 DEF frameThrows, Covered
  <2>2. QED
    BY <2>1
<1>3. CASE Transitions(p, time) # {}
  <2> DEFINE i == TransitionIndex(p, time)
             cut == boundaryTime(p.occurrences[i])
             named == { b \in DOMAIN p.boundaries : compare(p.boundaries[b].outputTime, cut) = 0 }
  <2>1. Fading(p, f)
    BY <1>1, <1>3 DEF Fading
  <2>2. i \in DOMAIN p.occurrences /\ p.occurrences[i].role = "transition"
    BY <2>1, TransitionPlace
  <2>3. /\ i \in Nat /\ i < Len(p.occurrences) /\ p.occurrences[i + 1].chapter
        /\ BoundedHandles(p, i)
    BY <1>1, <2>2, AcceptedTransitions
  <2>4. named = {} \/ p.boundaries[Min(named)].clean
    <3>1. TransitionThrows(p, time)
      BY <1>3 DEF frameThrows
    <3>2. QED
      BY <2>3, <3>1 DEF TransitionThrows
  <2>5. PICK b \in DOMAIN p.boundaries : compare(p.boundaries[b].outputTime, cut) = 0 /\ ~p.boundaries[b].clean
    BY <2>3 DEF BoundedHandles, ToSet
  <2>6. Min(named) \in named
    <3>1. named \in SUBSET Nat /\ named # {}
      BY <2>5, PlanFacts
    <3> HIDE DEF named
    <3>2. QED
      BY <3>1, LeastMember
  <2>7. PICK m \in named : m = Min(named) /\ m # b /\ m \in DOMAIN p.boundaries
    BY <2>4, <2>5, <2>6
  <2>8. compare(p.boundaries[b].outputTime, p.boundaries[m].outputTime) = 0
    <3>1. cut \in Time
      <4>1. PICK tr : tr = p.occurrences[i]
        OBVIOUS
      <4>2. tr.outputRange.start \in Time /\ tr.outputRange.duration \in Time
        BY <2>2, <4>1, PlanFacts DEF Clip, TimeRange
      <4>3. multiply(tr.outputRange.duration, Half) \in Time
        BY <4>2, HalfRate, TimesClosed
      <4>4. QED
        BY <4>1, <4>2, <4>3, TimesClosed DEF boundaryTime
    <3>2. PICK x \in Time, y \in Time, z \in Time :
             x = p.boundaries[b].outputTime /\ y = p.boundaries[m].outputTime /\ z = cut
      BY <2>5, <2>7, <3>1, PlanFacts
    <3>3. compare(x, z) = 0 /\ compare(y, z) = 0
      BY <2>5, <2>7, <3>2
    <3>4. compare(x, y) = 0
      BY <3>3, SameTime
    <3>5. QED
      BY <3>2, <3>4
  <2>9. QED
    BY <2>7, <2>8
<1>4. QED
  BY <1>2, <1>3

(***************************************************************************)
(* Panels enter when they are first seen.                                  *)
(***************************************************************************)
ShownIn(p, f) == ToSet(frameState(p, f).pictureLayers) \cup ToSet(frameState(p, f).roles)

\* What a frame of a montage shows.
LEMMA MontageLayers ==
  ASSUME NEW p \in Plans, p.fixture = "M", NEW f \in Nat
  PROVE  ShownIn(p, f) = { layerFor(p, p.occurrences[i], f, outputTime(f, p.rate)) :
                              i \in Live(p, "picture", outputTime(f, p.rate)) }
<1>1. ~Fading(p, f)
  BY DEF Fading
<1>2. frameState(p, f).roles = <<>>
  BY RolesOfFrame
<1>3. ToSet(<<>>) = {}
  BY DEF ToSet
<1>4. QED
  BY <1>1, <1>2, <1>3, PicturesOfFrame DEF ShownIn

\* The local frame of a panel is the number of frames before that showed it.
LEMMA PanelsEnter ==
  ASSUME NEW p \in Plans, freezeSnapshot(p), p.fixture = "M", NEW f \in Nat,
         NEW layer \in ShownIn(p, f)
  PROVE  layer.localFrame = Cardinality({ g \in 0 .. f - 1 :
             \E before \in ShownIn(p, g) : before.occurrenceId = layer.occurrenceId })
<1> DEFINE time(g) == outputTime(g, p.rate)
<1>1. PICK i \in Live(p, "picture", time(f)) : layer = layerFor(p, p.occurrences[i], f, time(f))
  BY MontageLayers
<1> DEFINE o == p.occurrences[i]
           c == ceilFrame(o.outputRange.start, p.rate)
           seen == { g \in 0 .. f - 1 :
                       \E before \in ShownIn(p, g) : before.occurrenceId = layer.occurrenceId }
<1>2. i \in DOMAIN p.occurrences /\ active(time(f), o.outputRange) /\ o.role = "picture"
  BY DEF Live, InTime
<1>3. layer.occurrenceId = o.id /\ layer.localFrame = f - c
  BY <1>1 DEF layerFor
<1>4. Clip(o) /\ o.outputRange.start.ticks >= 0
  BY <1>2, AcceptedOccurrences DEF Sound
<1>5. o.outputRange.start \in Time /\ rangeEnd(o.outputRange) \in Time
  BY <1>4, RangeEnds DEF Clip
<1>6. p.rate \in Rate /\ \A g \in Nat : time(g) \in Time
  BY PlanFacts
<1> HIDE DEF o
<1>7. /\ c \in Nat
      /\ \A g \in Nat : compare(time(g), o.outputRange.start) >= 0 <=> g >= c
  BY <1>4, <1>5, <1>6, CeilFrame
<1> HIDE DEF c
<1>8. \A g \in Nat : g < f => compare(time(g), rangeEnd(o.outputRange)) < 0
  <2> SUFFICES ASSUME NEW g \in Nat, g < f PROVE compare(time(g), rangeEnd(o.outputRange)) < 0
    OBVIOUS
  <2>1. compare(time(g), time(f)) < 0
    BY <1>6, FramesInOrder
  <2>2. compare(time(f), rangeEnd(o.outputRange)) < 0
    BY <1>2 DEF active
  <2>3. compare(time(f), rangeEnd(o.outputRange)) \in Int
    BY <1>5, <1>6, TimesClosed
  <2> HIDE DEF time
  <2>4. QED
    BY <1>5, <1>6, <2>1, <2>2, <2>3, CompareOrder
<1>9. \A g \in Nat : g < f => (active(time(g), o.outputRange) <=> g >= c)
  BY <1>7, <1>8 DEF active
<1>10. c <= f
  <2>1. compare(time(f), o.outputRange.start) >= 0
    BY <1>2 DEF active
  <2>2. QED
    BY <1>7, <2>1
<1>11. \A g \in Nat : (\E before \in ShownIn(p, g) : before.occurrenceId = o.id)
                         <=> active(time(g), o.outputRange)
  <2> TAKE g \in Nat
  <2>1. ASSUME active(time(g), o.outputRange)
        PROVE  \E before \in ShownIn(p, g) : before.occurrenceId = o.id
    <3>1. i \in Live(p, "picture", time(g))
      BY <1>2, <2>1 DEF Live, InTime, o
    <3>2. layerFor(p, o, g, time(g)) \in ShownIn(p, g)
      BY <3>1, MontageLayers DEF o
    <3>3. layerFor(p, o, g, time(g)).occurrenceId = o.id
      BY DEF layerFor
    <3>4. QED
      BY <3>2, <3>3
  <2>2. ASSUME NEW before \in ShownIn(p, g), before.occurrenceId = o.id
        PROVE  active(time(g), o.outputRange)
    <3>1. PICK j \in Live(p, "picture", time(g)) :
             before = layerFor(p, p.occurrences[j], g, time(g))
      BY MontageLayers
    <3>2. j \in DOMAIN p.occurrences /\ active(time(g), p.occurrences[j].outputRange)
      BY DEF Live, InTime
    <3>3. p.occurrences[j].id = o.id
      BY <2>2, <3>1 DEF layerFor
    <3>4. j = i
      BY <1>2, <3>2, <3>3, AcceptedOccurrences DEF o
    <3>5. QED
      BY <3>2, <3>4 DEF o
  <2>3. QED
    BY <2>1, <2>2
<1>12. seen = c .. (f - 1)
  <2>1. \A g \in 0 .. (f - 1) : g \in seen <=> g >= c
    BY <1>3, <1>9, <1>11
  <2>2. \A g \in seen : g \in 0 .. (f - 1)
    OBVIOUS
  <2>3. \A g \in c .. (f - 1) : g \in 0 .. (f - 1) /\ g >= c
    BY <1>7
  <2>4. \A g \in 0 .. (f - 1) : g >= c => g \in c .. (f - 1)
    BY <1>7
  <2> HIDE DEF seen
  <2>5. \A g : g \in seen <=> g \in c .. (f - 1)
    BY <2>1, <2>2, <2>3, <2>4
  <2>6. QED
    BY <2>5
<1>13. Cardinality(c .. (f - 1)) = f - c
  <2>1. c \in Int /\ f - 1 \in Int
    BY <1>7
  <2>2. Cardinality(c .. (f - 1)) = IF c > f - 1 THEN 0 ELSE (f - 1) - c + 1
    BY <2>1, FS_Interval
  <2>3. QED
    BY <1>7, <1>10, <2>2
<1>14. QED
  BY <1>3, <1>12, <1>13

(***************************************************************************)
(* The scan.                                                               *)
(***************************************************************************)
LEMMA RolesInSequence ==
  ASSUME NEW p \in Plans, NEW f \in Nat, ~frameThrows(p, f)
  PROVE  IsSequence(frameState(p, f).roles)
<1> DEFINE time == outputTime(f, p.rate)
           roles == frameState(p, f).roles
<1>1. p.fixture \in {"M", "T", "L"}
  BY PlanFacts
<1>2. CASE p.fixture = "M"
  <2>1. roles = <<>>
    BY <1>2, RolesOfFrame
  <2>2. IsSequence(<<>>)
    BY DEF IsSequence
  <2>3. QED
    BY <2>1, <2>2
<1>3. CASE p.fixture = "T"
  <2>1. roles = Layers(p, "dialogue", f, time) \o Levelled(p, f) \o Layers(p, "sfx", f, time)
    BY <1>3, RolesOfFrame
  <2>2. /\ IsSequence(Layers(p, "dialogue", f, time)) /\ IsSequence(Layers(p, "music", f, time))
        /\ IsSequence(Layers(p, "sfx", f, time))
    BY LayersOfRole
  <2>3. IsSequence(Levelled(p, f))
    BY <2>2 DEF Levelled, IsSequence
  <2>4. QED
    BY <2>1, <2>2, <2>3, Joined
<1>4. CASE Fading(p, f)
  <2>1. roles = lTransition(p, f, time)
    BY <1>4, RolesOfFrame
  <2>2. IsSequence(lTransition(p, f, time))
    BY DEF lTransition, IsSequence
  <2>3. QED
    BY <2>1, <2>2
<1>5. CASE p.fixture = "L" /\ ~Fading(p, f)
  <2>1. roles = <<[layerFor(p, p.occurrences[ChapterPlace(p, f)], f, time) EXCEPT !.gain = One]>>
    BY <1>5, RolesOfFrame
  <2> HIDE DEF roles
  <2>2. \A x : IsSequence(<<x>>)
    BY DEF IsSequence
  <2>3. IsSequence(roles)
    BY <2>1, <2>2
  <2>4. QED
    BY <2>3 DEF roles
<1>6. QED
  BY <1>1, <1>2, <1>3, <1>4, <1>5

Run(key, first, endFrame, frames) ==
    [key |-> key, first |-> first, endFrame |-> endFrame, frames |-> frames]

RunShape(r) == r = Run(r.key, r.first, r.endFrame, r.frames)

\* A frame is recorded in runs that went on to it or start in it.
LEMMA RecordedRuns ==
  ASSUME NEW rs, IsSequence(rs), \A i \in DOMAIN rs : RunShape(rs[i]),
         NEW f \in Nat, NEW roles, IsSequence(roles)
  PROVE  LET recorded == recordAudioFrame(rs, f, roles)
         IN  /\ IsSequence(recorded)
             /\ \A i \in DOMAIN recorded :
                   /\ RunShape(recorded[i])
                   /\ recorded[i].endFrame = f + 1 \/
                      \E j \in DOMAIN rs : recorded[i].endFrame = rs[j].endFrame
<1> DEFINE goesOn(i) == { k \in DOMAIN roles :
                            i \in prior(rs, f, roles[k]) /\ i = Max(prior(rs, f, roles[k])) }
           new      == { k \in DOMAIN roles : prior(rs, f, roles[k]) = {} }
           starting == filtered(roles, new)
           old      == [i \in DOMAIN rs |->
                          IF goesOn(i) = {} THEN rs[i]
                          ELSE [rs[i] EXCEPT !.endFrame = f + 1,
                                  !.frames = Append(@, Sample(f, roles[Min(goesOn(i))]))]]
           fresh    == [k \in DOMAIN starting |->
                          [key |-> audioKey(starting[k]), first |-> starting[k],
                           endFrame |-> f + 1, frames |-> <<Sample(f, starting[k])>>]]
<1>1. recordAudioFrame(rs, f, roles) = old \o fresh
  BY DEF recordAudioFrame
<1>2. IsSequence(starting)
  <2>1. new \in SUBSET DOMAIN roles
    OBVIOUS
  <2> HIDE DEF new
  <2>2. Holds(starting, roles, new)
    BY <2>1, Filtered
  <2>3. QED
    BY <2>2 DEF Holds
<1> HIDE DEF starting
<1>3. IsSequence(fresh) /\ DOMAIN fresh = DOMAIN starting
  BY <1>2 DEF IsSequence
<1>4. \A k \in DOMAIN fresh : RunShape(fresh[k]) /\ fresh[k].endFrame = f + 1
  BY DEF RunShape, Run
<1>5. ASSUME NEW i \in DOMAIN rs
      PROVE  RunShape(old[i]) /\ (old[i].endFrame = f + 1 \/ old[i].endFrame = rs[i].endFrame)
  <2> HIDE DEF goesOn
  <2>1. CASE goesOn(i) = {}
    BY <2>1
  <2>2. CASE goesOn(i) # {}
    <3>1. PICK r, s : /\ r = rs[i]
                      /\ s = Append(r.frames, Sample(f, roles[Min(goesOn(i))]))
      OBVIOUS
    <3>2. r = Run(r.key, r.first, r.endFrame, r.frames)
      BY <3>1 DEF RunShape
    <3>3. old[i] = [r EXCEPT !.endFrame = f + 1, !.frames = s]
      BY <2>2, <3>1
    <3>4. old[i] = Run(r.key, r.first, f + 1, s)
      BY <3>2, <3>3 DEF Run
    <3>5. QED
      BY <3>4 DEF RunShape, Run
  <2>3. QED
    BY <2>1, <2>2
<1>6. IsSequence(old) /\ DOMAIN old = DOMAIN rs
  BY DEF IsSequence
<1> HIDE DEF old, fresh
<1>7. /\ IsSequence(old \o fresh)
      /\ \A i \in DOMAIN (old \o fresh) :
            \/ i \in DOMAIN old /\ (old \o fresh)[i] = old[i]
            \/ \E k \in DOMAIN fresh : (old \o fresh)[i] = fresh[k]
  BY <1>3, <1>6, Joined
<1>8. \A i \in DOMAIN (old \o fresh) :
         /\ RunShape((old \o fresh)[i])
         /\ (old \o fresh)[i].endFrame = f + 1 \/
            \E j \in DOMAIN rs : (old \o fresh)[i].endFrame = rs[j].endFrame
  BY <1>4, <1>5, <1>6, <1>7
<1>9. QED
  BY <1>1, <1>7, <1>8

\* What the scan rests on: it runs over accepted plans only, and stops where a frame
\* throws.
ScanInv ==
    /\ plan \in Plans
    /\ TypeOK
    /\ IsSequence(runs) /\ \A i \in DOMAIN runs : RunShape(runs[i])
    /\ stage # "reported" => tracks = <<>>
    /\ stage \in {"scanning", "reported", "failed"} => freezeSnapshot(plan)
    /\ stage = "failed" => frame < plan.frameCount /\ frameThrows(plan, frame)

\* A plan that is offered has nothing recorded.
LEMMA ScanInit == Init => ScanInv
<1> SUFFICES ASSUME Init PROVE ScanInv
  OBVIOUS
<1>1. plan \in Plans /\ stage = "offered" /\ frame = 0 /\ runs = <<>> /\ tracks = <<>>
  BY DEF Init
<1>2. plan.frameCount \in Nat
  BY <1>1, PlanFacts
<1>3. IsSequence(<<>>) /\ DOMAIN <<>> = {} /\ Len(<<>>) = 0
  BY DEF IsSequence
<1>4. QED
  BY <1>1, <1>2, <1>3 DEF ScanInv, TypeOK

\* Recording one frame keeps the invariant.
LEMMA RecordStep ==
  ASSUME ScanInv, stage = "scanning", frame < plan.frameCount, ~frameThrows(plan, frame),
         runs' = recordAudioFrame(runs, frame, frameState(plan, frame).roles),
         frame' = frame + 1, UNCHANGED <<plan, stage, tracks>>
  PROVE  ScanInv'
<1>1. /\ plan \in Plans /\ plan.frameCount \in Nat /\ frame \in Nat /\ tracks = <<>>
      /\ freezeSnapshot(plan)
  BY PlanFacts DEF ScanInv, TypeOK
<1>2. IsSequence(frameState(plan, frame).roles)
  BY <1>1, RolesInSequence
<1>3. /\ IsSequence(runs')
      /\ \A i \in DOMAIN runs' :
            /\ RunShape(runs'[i])
            /\ runs'[i].endFrame = frame + 1 \/
               \E j \in DOMAIN runs : runs'[i].endFrame = runs[j].endFrame
  BY <1>1, <1>2, RecordedRuns DEF ScanInv
<1>4. \A i \in DOMAIN runs' : runs'[i].endFrame \in 1 .. frame'
  BY <1>1, <1>3 DEF ScanInv, TypeOK
<1>5. Len(<<>>) = 0
  OBVIOUS
<1>6. TypeOK'
  BY <1>1, <1>4, <1>5 DEF ScanInv, TypeOK
<1>7. QED
  BY <1>1, <1>3, <1>6 DEF ScanInv

\* Every step keeps the invariant.
LEMMA ScanStep == ScanInv /\ [Next]_vars => ScanInv'
<1> SUFFICES ASSUME ScanInv, [Next]_vars PROVE ScanInv'
  OBVIOUS
<1>1. plan \in Plans /\ plan.frameCount \in Nat /\ frame \in 0 .. plan.frameCount
  BY PlanFacts DEF ScanInv, TypeOK
<1>2. CASE Freeze
  BY <1>1, <1>2 DEF Freeze, ScanInv, TypeOK
<1>3. CASE ScanTalk
  <2>1. ~frameThrows(plan, frame)
    BY <1>3 DEF ScanTalk, frameThrows
  <2>2. /\ runs' = recordAudioFrame(runs, frame, frameState(plan, frame).roles)
        /\ stage = "scanning" /\ frame < plan.frameCount /\ frame' = frame + 1
        /\ UNCHANGED <<plan, stage, tracks>>
    BY <1>3 DEF ScanTalk
  <2>3. QED
    BY <2>1, <2>2, RecordStep
<1>4. CASE ScanFilm
  <2>1. /\ runs' = recordAudioFrame(runs, frame, frameState(plan, frame).roles)
        /\ stage = "scanning" /\ frame < plan.frameCount /\ frame' = frame + 1
        /\ ~frameThrows(plan, frame)
        /\ UNCHANGED <<plan, stage, tracks>>
    BY <1>4 DEF ScanFilm
  <2>2. QED
    BY <2>1, RecordStep
<1>5. CASE ScanThrows
  BY <1>1, <1>5 DEF ScanThrows, ScanInv, TypeOK
<1>6. CASE Report
  <2>1. DOMAIN runs = 1 .. Len(runs) /\ Len(runs) \in Nat
    BY DEF ScanInv, IsSequence
  <2>2. Len([i \in DOMAIN runs |-> producerTrack(runs[i], plan.rate)]) = Len(runs)
    BY <2>1
  <2>3. stage' = "reported" /\ UNCHANGED <<plan, frame, runs>> /\ stage = "scanning"
        /\ tracks' = [i \in DOMAIN runs |-> producerTrack(runs[i], plan.rate)]
    BY <1>6 DEF Report
  <2>4. QED
    BY <1>1, <2>2, <2>3 DEF ScanInv, TypeOK
<1>7. CASE UNCHANGED vars
  BY <1>7 DEF vars, ScanInv, TypeOK
<1>8. QED
  BY <1>2, <1>3, <1>4, <1>5, <1>6, <1>7 DEF Next

\* The scan of any plan keeps its types: runs end within the frames that were scanned,
\* a report has a track for every run, and a scan that failed stands at a frame that
\* throws (talkingHeadSupport, longFilmSupport).
THEOREM ScanInvariant == Spec => []ScanInv
<1>1. Init => ScanInv
  BY ScanInit
<1>2. ScanInv /\ [Next]_vars => ScanInv'
  BY ScanStep
<1>3. QED
  BY <1>1, <1>2, PTL DEF Spec

\* What the invariant says of the next frame.
LEMMA AcceptedRender == ScanInv => AcceptedPlansRender
<1> SUFFICES ASSUME ScanInv PROVE AcceptedPlansRender
  OBVIOUS
<1>1. plan \in Plans /\ plan.frameCount \in Nat /\ frame \in Nat
  BY PlanFacts DEF ScanInv, TypeOK
<1>2. Shown(frame) = ToSet(frameState(plan, frame).pictureLayers) \cup ToSet(frameState(plan, frame).roles)
      /\ \A g : Shown(g) = ShownIn(plan, g)
  BY DEF Shown, ShownIn
<1>3. HandlesSuffice
  <2> SUFFICES ASSUME Scanned, NEW layer \in Shown(frame),
                      \A o \in ToSet(plan.occurrences) :
                         o.id = layer.occurrenceId /\ Still(o) => plan.sources[o.sourceId] = Null
               PROVE  Within(plan.sources[layer.sourceId], layer.sourceTime)
    BY DEF HandlesSuffice, Within
  <2>1. freezeSnapshot(plan) /\ ~frameThrows(plan, frame)
    BY DEF Scanned, ScanInv
  <2>2. QED
    BY <1>1, <1>2, <2>1, ShownWithin
<1>4. EveryFrameRenders
  <2> SUFFICES ASSUME stage = "failed"
               PROVE  \/ \E g \in 0 .. plan.frameCount - 1 : ~Covered(plan, g)
                      \/ \E i, j \in DOMAIN plan.boundaries :
                            /\ i # j
                            /\ compare(plan.boundaries[i].outputTime, plan.boundaries[j].outputTime) = 0
    BY DEF EveryFrameRenders
  <2>1. freezeSnapshot(plan) /\ frame \in 0 .. plan.frameCount - 1 /\ frameThrows(plan, frame)
    BY <1>1 DEF ScanInv
  <2>2. QED
    BY <1>1, <2>1, ThrowsOnlyWhen
<1>5. PanelsEnterOnTheirFirstFrame
  <2> SUFFICES ASSUME Scanned, plan.fixture = "M", NEW layer \in ShownIn(plan, frame)
               PROVE  layer.localFrame = Cardinality({ g \in 0 .. frame - 1 :
                          \E before \in ShownIn(plan, g) : before.occurrenceId = layer.occurrenceId })
    BY <1>2 DEF PanelsEnterOnTheirFirstFrame
  <2>1. freezeSnapshot(plan)
    BY DEF Scanned, ScanInv
  <2>2. QED
    BY <1>1, <2>1, PanelsEnter
<1>6. QED
  BY <1>3, <1>4, <1>5 DEF AcceptedPlansRender, ScanInv

\* Whatever the plan, what the acceptance checks let through can be shown: every layer
\* has its source at the time it reads, the scan throws only for an uncovered frame or
\* two boundaries at one time, and panels enter on the first frame that shows them.
THEOREM AcceptedPlansAreRendered == Spec => []AcceptedPlansRender
BY ScanInvariant, AcceptedRender, PTL

(***************************************************************************)
(* Speech.                                                                 *)
(***************************************************************************)
LEMMA ExtremesCompare ==
  ASSUME NEW t \in Time, NEW x \in Time, NEW y \in Time
  PROVE  /\ compare(t, maxRational(x, y)) >= 0 <=> compare(t, x) >= 0 /\ compare(t, y) >= 0
         /\ compare(t, minRational(x, y)) < 0 <=> compare(t, x) < 0 /\ compare(t, y) < 0
         /\ compare(t, add(x, subtract(y, x))) < 0 <=> compare(t, y) < 0
         /\ compare(t, x) >= 0 /\ compare(t, y) < 0 => compare(y, x) > 0 /\ compare(x, y) < 0
<1>1. PICK d \in Positive : \E na, nb, nc, ne, nf, ng \in Int :
            Six(t, x, y, y, y, y, na, nb, nc, ne, nf, ng, d)
  BY SixTimes
<1>2. PICK n \in Int, m \in Int, k \in Int : Val(t, n, d) /\ Val(x, m, d) /\ Val(y, k, d)
  BY <1>1 DEF Six
<1>3. /\ minRational(x, y) \in Time /\ Val(minRational(x, y), IF m <= k THEN m ELSE k, d)
      /\ maxRational(x, y) \in Time /\ Val(maxRational(x, y), IF m >= k THEN m ELSE k, d)
  BY <1>2, MinMaxVal
<1>4. PICK lo \in Int, hi \in Int : /\ lo = (IF m <= k THEN m ELSE k)
                                    /\ hi = (IF m >= k THEN m ELSE k)
  OBVIOUS
<1>5. Val(minRational(x, y), lo, d) /\ Val(maxRational(x, y), hi, d)
  BY <1>3, <1>4
<1>6. add(x, subtract(y, x)) \in Time /\ Val(add(x, subtract(y, x)), k, d)
  <2>1. subtract(y, x) \in Time /\ Val(subtract(y, x), k - m, d) /\ k - m \in Int
    BY <1>2, SumVal
  <2>2. add(x, subtract(y, x)) \in Time /\ Val(add(x, subtract(y, x)), m + (k - m), d)
    BY <1>2, <2>1, SumVal
  <2>3. m + (k - m) = k
    OBVIOUS
  <2>4. QED
    BY <2>2, <2>3
<1>7. /\ compare(t, x) \in Int /\ (compare(t, x) < 0 <=> n < m)
      /\ compare(t, y) \in Int /\ (compare(t, y) < 0 <=> n < k)
      /\ compare(x, y) \in Int /\ (compare(x, y) < 0 <=> m < k)
      /\ compare(y, x) \in Int /\ (compare(y, x) < 0 <=> k < m) /\ (compare(y, x) = 0 <=> k = m)
  BY <1>2, CompareVal
<1>8. /\ compare(t, maxRational(x, y)) \in Int /\ (compare(t, maxRational(x, y)) < 0 <=> n < hi)
      /\ compare(t, minRational(x, y)) < 0 <=> n < lo
      /\ compare(t, add(x, subtract(y, x))) < 0 <=> n < k
  BY <1>2, <1>3, <1>5, <1>6, CompareVal
<1>9. QED
  BY <1>4, <1>7, <1>8

Word(w) == w.start \in Time /\ w.end \in Time

InWord(time, w) == compare(time, w.start) >= 0 /\ compare(time, w.end) < 0

\* A word is heard at the times at which the occurrence plays a time in it.
LEMMA ProjectedActive ==
  ASSUME NEW o, Clip(o), InStep(o), NEW t \in Time, NEW w, Word(w)
  PROVE  /\ active(t, projected(o, w)) <=> active(t, o.outputRange) /\ InWord(At(o, t), w)
         /\ active(t, o.outputRange) /\ InWord(At(o, t), w) => Heard(o, w)
<1>1. PICK s, e : s = o.sourceRange.start /\ e = rangeEnd(o.sourceRange)
  OBVIOUS
<1>2. s \in Time /\ e \in Time /\ w.start \in Time /\ w.end \in Time
  BY <1>1, RangeEnds DEF Clip, Word
<1>3. PICK lo, hi : lo = maxRational(w.start, s) /\ hi = minRational(w.end, e)
  OBVIOUS
<1>4. lo \in Time /\ hi \in Time
  BY <1>2, <1>3, TimesClosed
<1>5. /\ filmTime(o, lo) \in Time /\ filmTime(o, hi) \in Time /\ At(o, t) \in Time
      /\ compare(t, filmTime(o, lo)) >= 0 <=> compare(At(o, t), lo) >= 0
      /\ compare(t, filmTime(o, hi)) < 0 <=> compare(At(o, t), hi) < 0
  BY <1>4, FilmTimeInverse
<1>6. projected(o, w) = [start |-> filmTime(o, lo),
                         duration |-> subtract(filmTime(o, hi), filmTime(o, lo))]
  BY <1>1, <1>3 DEF projected
<1>7. active(t, projected(o, w)) <=>
         /\ compare(t, filmTime(o, lo)) >= 0
         /\ compare(t, add(filmTime(o, lo), subtract(filmTime(o, hi), filmTime(o, lo)))) < 0
  BY <1>6 DEF active, rangeEnd
<1>8. active(t, projected(o, w)) <=> compare(At(o, t), lo) >= 0 /\ compare(At(o, t), hi) < 0
  BY <1>5, <1>7, ExtremesCompare
<1>9. active(t, projected(o, w)) <=>
         /\ compare(At(o, t), w.start) >= 0 /\ compare(At(o, t), s) >= 0
         /\ compare(At(o, t), w.end) < 0 /\ compare(At(o, t), e) < 0
  <2>1. compare(At(o, t), lo) >= 0 <=> compare(At(o, t), w.start) >= 0 /\ compare(At(o, t), s) >= 0
    BY <1>2, <1>3, <1>5, ExtremesCompare
  <2>2. compare(At(o, t), hi) < 0 <=> compare(At(o, t), w.end) < 0 /\ compare(At(o, t), e) < 0
    BY <1>2, <1>3, <1>5, ExtremesCompare
  <2>3. QED
    BY <1>8, <2>1, <2>2
<1>10. active(t, o.outputRange) <=> compare(At(o, t), s) >= 0 /\ compare(At(o, t), e) < 0
  BY <1>1, ActiveWhilePlaying
<1>11. ASSUME active(t, o.outputRange), InWord(At(o, t), w)
       PROVE  Heard(o, w)
  <2>1. compare(w.end, s) > 0
    BY <1>2, <1>5, <1>10, <1>11, ExtremesCompare DEF InWord
  <2>2. compare(w.start, e) < 0
    BY <1>2, <1>5, <1>10, <1>11, ExtremesCompare DEF InWord
  <2>3. QED
    BY <1>1, <2>1, <2>2 DEF Heard
<1>12. QED
  BY <1>9, <1>10, <1>11 DEF InWord

\* The words of an accepted dialogue have times.
LEMMA DialogueWords ==
  ASSUME NEW p \in Plans, freezeSnapshot(p), p.fixture = "T", NEW o \in OfRole(p, "dialogue")
  PROVE  \A w \in ToSet(p.words[o.sourceId]) : Word(w)
<1>1. o.sourceId \in DOMAIN p.words
  BY DEF freezeSnapshot, validWords
<1>2. QED
  BY <1>1, PlansAssumption DEF ToSet, Word

\* The dialogue layers of a frame are its roles of that name.
LEMMA DialogueRoles ==
  ASSUME NEW p \in Plans, p.fixture = "T", NEW f \in Nat
  PROVE  { role \in ToSet(frameState(p, f).roles) : role.role = "dialogue" } =
         { layerFor(p, p.occurrences[i], f, outputTime(f, p.rate)) :
              i \in Live(p, "dialogue", outputTime(f, p.rate)) }
<1> DEFINE time == outputTime(f, p.rate)
           roles == frameState(p, f).roles
           layers(role) == Layers(p, role, f, time)
<1>1. roles = layers("dialogue") \o Levelled(p, f) \o layers("sfx")
  BY RolesOfFrame
<1>2. IsSequence(layers("dialogue")) /\ IsSequence(layers("music")) /\ IsSequence(layers("sfx"))
  BY LayersOfRole
<1>3. IsSequence(Levelled(p, f))
  BY <1>2 DEF Levelled, IsSequence
<1> HIDE DEF roles
<1>4. ToSet(roles) = (ToSet(layers("dialogue")) \cup ToSet(Levelled(p, f))) \cup ToSet(layers("sfx"))
  BY <1>1, <1>2, <1>3, Joined
<1>5. \A role : ToSet(layers(role)) = { layerFor(p, p.occurrences[i], f, time) : i \in Live(p, role, time) }
  BY LayersOfRole
<1>6. ASSUME NEW role, NEW layer \in ToSet(layers(role)) PROVE layer.role = role
  <2>1. PICK i \in Live(p, role, time) : layer = layerFor(p, p.occurrences[i], f, time)
    BY <1>5, <1>6
  <2>2. p.occurrences[i].role = role
    BY DEF Live
  <2>3. QED
    BY <2>1, <2>2 DEF layerFor
<1>7. ASSUME NEW layer \in ToSet(Levelled(p, f)) PROVE layer.role = "music"
  <2>1. PICK k \in DOMAIN layers("music") : \E g : layer = [layers("music")[k] EXCEPT !.gain = g]
    BY DEF ToSet, Levelled
  <2>2. PICK own : own = layers("music")[k] /\ own \in ToSet(layers("music"))
    BY DEF ToSet
  <2>3. PICK i \in Live(p, "music", time) : own = layerFor(p, p.occurrences[i], f, time)
    BY <1>5, <2>2
  <2>4. p.occurrences[i].role = "music"
    BY DEF Live
  <2>5. QED
    BY <2>1, <2>2, <2>3, <2>4 DEF layerFor
<1> HIDE DEF layers
<1>8. { role \in ToSet(roles) : role.role = "dialogue" } = ToSet(layers("dialogue"))
  <2>1. \A layer \in ToSet(layers("dialogue")) : layer.role = "dialogue"
    BY <1>6
  <2>2. \A layer \in ToSet(layers("sfx")) : layer.role = "sfx"
    BY <1>6
  <2>3. \A layer \in ToSet(Levelled(p, f)) : layer.role = "music"
    BY <1>7
  <2>4. "sfx" # "dialogue" /\ "music" # "dialogue"
    OBVIOUS
  <2>5. QED
    BY <1>4, <2>1, <2>2, <2>3, <2>4
<1>9. QED
  BY <1>5, <1>8 DEF roles

\* A projected range is active when a dialogue plays a part of a word, and only then.
LEMMA SpeechHeard ==
  ASSUME NEW p \in Plans, freezeSnapshot(p), p.fixture = "T", NEW f \in Nat,
         \A o \in OfRole(p, "dialogue") : ~Still(o)
  PROVE  (\E r \in projectSpeechRanges(p) : active(outputTime(f, p.rate), r)) <=>
         \E role \in ToSet(frameState(p, f).roles) :
            /\ role.role = "dialogue"
            /\ \E w \in ToSet(p.words[role.sourceId]) : InWord(role.sourceTime, w)
<1> DEFINE t == outputTime(f, p.rate)
<1>1. t \in Time
  BY PlanFacts
<1>2. ASSUME NEW o \in OfRole(p, "dialogue")
      PROVE  Clip(o) /\ InStep(o) /\ ~Still(o)
             /\ \A w \in ToSet(p.words[o.sourceId]) : Word(w)
  <2>1. PICK i \in DOMAIN p.occurrences : o = p.occurrences[i]
    BY DEF OfRole, ToSet
  <2>2. Sound(p, o)
    BY <2>1, AcceptedOccurrences
  <2>3. QED
    BY <2>2, DialogueWords DEF Sound
<1>3. ASSUME NEW o \in OfRole(p, "dialogue")
      PROVE  layerFor(p, o, f, t).sourceTime = At(o, t) /\ layerFor(p, o, f, t).sourceId = o.sourceId
  BY <1>2 DEF layerFor, Still, At
<1>4. ASSUME NEW i \in Live(p, "dialogue", t)
      PROVE  p.occurrences[i] \in OfRole(p, "dialogue") /\ active(t, p.occurrences[i].outputRange)
  BY DEF Live, InTime, OfRole, ToSet
<1>5. ASSUME NEW r \in projectSpeechRanges(p), active(t, r)
      PROVE  \E role \in ToSet(frameState(p, f).roles) :
                /\ role.role = "dialogue"
                /\ \E w \in ToSet(p.words[role.sourceId]) : InWord(role.sourceTime, w)
  <2>1. PICK o \in OfRole(p, "dialogue") : \E w \in ToSet(p.words[o.sourceId]) :
                                              Heard(o, w) /\ r = projected(o, w)
    BY DEF projectSpeechRanges
  <2>2. PICK w \in ToSet(p.words[o.sourceId]) : r = projected(o, w)
    BY <2>1
  <2>3. active(t, o.outputRange) /\ InWord(At(o, t), w)
    BY <1>1, <1>2, <1>5, <2>2, ProjectedActive
  <2>4. PICK i \in DOMAIN p.occurrences : o = p.occurrences[i]
    BY DEF OfRole, ToSet
  <2>5. i \in Live(p, "dialogue", t)
    BY <2>3, <2>4 DEF Live, InTime, OfRole
  <2>6. layerFor(p, o, f, t) \in { role \in ToSet(frameState(p, f).roles) : role.role = "dialogue" }
    BY <2>4, <2>5, DialogueRoles
  <2>7. QED
    BY <1>3, <2>3, <2>6
<1>6. ASSUME NEW role \in ToSet(frameState(p, f).roles), role.role = "dialogue",
             NEW w \in ToSet(p.words[role.sourceId]), InWord(role.sourceTime, w)
      PROVE  \E r \in projectSpeechRanges(p) : active(t, r)
  <2>1. PICK i \in Live(p, "dialogue", t) : role = layerFor(p, p.occurrences[i], f, t)
    BY <1>6, DialogueRoles
  <2>2. PICK o \in OfRole(p, "dialogue") : o = p.occurrences[i] /\ active(t, o.outputRange)
    BY <1>4
  <2>3. w \in ToSet(p.words[o.sourceId]) /\ InWord(At(o, t), w)
    BY <1>3, <1>6, <2>1, <2>2
  <2>4. Heard(o, w) /\ active(t, projected(o, w))
    BY <1>1, <1>2, <2>2, <2>3, ProjectedActive
  <2>5. projected(o, w) \in projectSpeechRanges(p)
    BY <2>3, <2>4 DEF projectSpeechRanges
  <2>6. QED
    BY <2>4, <2>5
<1>7. QED
  BY <1>5, <1>6

\* The same, as musicGain sees it.
LEMMA DuckedInv == ScanInv => DuckedWhileHeard
<1> SUFFICES ASSUME ScanInv, Scanned, plan.fixture = "T",
                    \A o \in OfRole(plan, "dialogue") : ~Still(o)
             PROVE  musicGain(projectSpeechRanges(plan), outputTime(frame, plan.rate)).speech <=>
                    \E role \in ToSet(frameState(plan, frame).roles) :
                       /\ role.role = "dialogue"
                       /\ \E w \in ToSet(plan.words[role.sourceId]) : InWord(role.sourceTime, w)
  BY DEF DuckedWhileHeard, InWord
<1>1. plan \in Plans /\ freezeSnapshot(plan) /\ frame \in Nat
  BY PlanFacts DEF ScanInv, TypeOK, Scanned
<1>2. \A ranges, t : musicGain(ranges, t).speech <=> \E r \in ranges : active(t, r)
  BY DEF musicGain
<1>3. QED
  BY <1>1, <1>2, SpeechHeard

\* Whatever the cuts and the retimes, the music is at its level for speech in exactly
\* the frames in which a dialogue that does not stand still plays a measured word.
THEOREM MusicIsDucked == Spec => []DuckedWhileHeard
BY ScanInvariant, DuckedInv, PTL

(***************************************************************************)
(* A chapter goes on where it faded in.                                    *)
(***************************************************************************)
LEMMA HalfVal ==
  ASSUME NEW x \in Time, NEW n \in Int, NEW d \in Positive, Val(x, n, d)
  PROVE  /\ multiply(x, Half) \in Time /\ Val(multiply(x, Half), n, d * 2)
         /\ d * 2 \in Positive /\ n * 2 \in Int /\ Val(x, n * 2, d * 2)
<1>1. 2 \in Positive /\ Half.num = 1 /\ Half.den = 2
  BY DEF Positive, Half
<1>2. multiply(x, Half) \in Time /\ Val(multiply(x, Half), n * 1, d * 2)
  BY <1>1, HalfRate, ProductVal
<1>3. n * 1 = n
  OBVIOUS
<1>4. QED
  BY <1>1, <1>2, <1>3, Scaled

\* An occurrence that is not retimed plays its source as time goes by.
LEMMA PlainVal ==
  ASSUME NEW o, Clip(o), o.retimeFactor.num = o.retimeFactor.den, NEW t \in Time,
         NEW s \in Int, NEW a \in Int, NEW n \in Int, NEW d \in Positive,
         Val(o.sourceRange.start, s, d), Val(o.outputRange.start, a, d), Val(t, n, d)
  PROVE  At(o, t) \in Time /\ Val(At(o, t), s + (n - a), d)
<1>1. o.sourceRange.start \in Time /\ o.outputRange.start \in Time /\ o.retimeFactor \in Rate
  BY DEF Clip, TimeRange
<1>2. PICK e : e = subtract(t, o.outputRange.start)
  OBVIOUS
<1>3. e \in Time /\ Val(e, n - a, d) /\ n - a \in Int
  BY <1>1, <1>2, SumVal
<1>4. PICK k \in Positive : k = o.retimeFactor.num /\ k = o.retimeFactor.den
  BY <1>1 DEF Rate
<1>5. PICK y : y = multiply(e, o.retimeFactor)
  OBVIOUS
<1>6. y \in Time /\ Val(y, (n - a) * k, d * k)
  BY <1>1, <1>3, <1>4, <1>5, ProductVal
<1>7. Val(y, n - a, d)
  BY <1>3, <1>6, Unscaled
<1>8. At(o, t) = add(o.sourceRange.start, y)
  BY <1>2, <1>5 DEF At
<1>9. QED
  BY <1>1, <1>3, <1>6, <1>7, <1>8, SumVal

\* The handle of a chapter that starts at the boundary meets the chapter.
LEMMA HandleMeets ==
  ASSUME NEW c, Clip(c), c.retimeFactor.num = c.retimeFactor.den, NEW tr, Clip(tr),
         compare(c.outputRange.start, boundaryTime(tr)) = 0,
         NEW t \in Time, NEW before \in Time
  PROVE  LET faded == add(incomingHandle(c, tr).start, subtract(before, tr.outputRange.start))
         IN  /\ subtract(At(c, t), faded) \in Time
             /\ compare(subtract(At(c, t), faded), subtract(t, before)) = 0
<1> DEFINE faded == add(incomingHandle(c, tr).start, subtract(before, tr.outputRange.start))
<1>1. PICK cs, co, ts, td : /\ cs = c.sourceRange.start /\ co = c.outputRange.start
                            /\ ts = tr.outputRange.start /\ td = tr.outputRange.duration
  OBVIOUS
<1>2. cs \in Time /\ co \in Time /\ ts \in Time /\ td \in Time
  BY <1>1 DEF Clip, TimeRange
<1>3. PICK d \in Positive : \E na, nb, nc, ne, nf, ng \in Int :
            Six(cs, co, ts, td, t, before, na, nb, nc, ne, nf, ng, d)
  BY <1>2, SixTimes
<1>4. PICK s \in Int, a \in Int, b \in Int, l \in Int, n \in Int, m \in Int :
         /\ Val(cs, s, d) /\ Val(co, a, d) /\ Val(ts, b, d) /\ Val(td, l, d)
         /\ Val(t, n, d) /\ Val(before, m, d)
  BY <1>3 DEF Six
<1>5. PICK e \in Positive : e = d * 2
  BY <1>2, <1>4, HalfVal
<1>6. PICK half : half = multiply(td, Half)
  OBVIOUS
<1>7. half \in Time /\ Val(half, l, e)
  BY <1>2, <1>4, <1>5, <1>6, HalfVal
<1>8. /\ Val(cs, s * 2, e) /\ Val(co, a * 2, e) /\ Val(ts, b * 2, e)
      /\ Val(t, n * 2, e) /\ Val(before, m * 2, e)
      /\ s * 2 \in Int /\ a * 2 \in Int /\ b * 2 \in Int /\ n * 2 \in Int /\ m * 2 \in Int
  BY <1>2, <1>4, <1>5, HalfVal
<1>9. a * 2 = (b * 2) + l
  <2>1. boundaryTime(tr) = add(ts, half)
    BY <1>1, <1>6 DEF boundaryTime
  <2>2. add(ts, half) \in Time /\ Val(add(ts, half), (b * 2) + l, e)
    BY <1>2, <1>7, <1>8, SumVal
  <2>3. compare(co, add(ts, half)) = 0 <=> a * 2 = (b * 2) + l
    BY <1>2, <1>8, <2>2, CompareVal
  <2>4. QED
    BY <1>1, <2>1, <2>3
<1>10. PICK h : h = subtract(cs, half)
  OBVIOUS
<1>11. h \in Time /\ Val(h, (s * 2) - l, e) /\ incomingHandle(c, tr).start = h
  <2>1. h \in Time /\ Val(h, (s * 2) - l, e)
    BY <1>2, <1>7, <1>8, <1>10, SumVal
  <2>2. incomingHandle(c, tr).start = h
    BY <1>1, <1>6, <1>10 DEF incomingHandle
  <2>3. QED
    BY <2>1, <2>2
<1>12. PICK y : y = subtract(before, ts)
  OBVIOUS
<1>13. y \in Time /\ Val(y, (m * 2) - (b * 2), e)
  BY <1>2, <1>8, <1>12, SumVal
<1>14. faded \in Time /\ Val(faded, ((s * 2) - l) + ((m * 2) - (b * 2)), e)
  <2>1. faded = add(h, y)
    BY <1>1, <1>11, <1>12
  <2> HIDE DEF faded
  <2>2. QED
    BY <1>11, <1>13, <2>1, SumVal
<1>15. At(c, t) \in Time /\ Val(At(c, t), (s * 2) + ((n * 2) - (a * 2)), e)
  BY <1>1, <1>8, PlainVal
<1> HIDE DEF faded
<1>16. PICK u, v, w :
          /\ u = (s * 2) + ((n * 2) - (a * 2)) /\ v = ((s * 2) - l) + ((m * 2) - (b * 2))
          /\ w = (n * 2) - (m * 2)
  OBVIOUS
<1>17. u - v = w /\ u \in Int /\ v \in Int /\ w \in Int
  BY <1>9, <1>16
<1>18. subtract(At(c, t), faded) \in Time /\ Val(subtract(At(c, t), faded), w, e)
  <2>1. Val(At(c, t), u, e) /\ Val(faded, v, e)
    BY <1>14, <1>15, <1>16
  <2>2. /\ subtract(At(c, t), faded) \in Time
        /\ Val(subtract(At(c, t), faded), u - v, e)
    BY <1>14, <1>15, <1>17, <2>1, SumVal
  <2>3. QED
    BY <1>17, <2>2
<1>19. subtract(t, before) \in Time /\ Val(subtract(t, before), w, e)
  BY <1>8, <1>16, SumVal
<1>20. compare(subtract(At(c, t), faded), subtract(t, before)) = 0
  BY <1>17, <1>18, <1>19, CompareVal
<1>21. QED
  BY <1>18, <1>20 DEF faded

\* Two successive frames are one frame apart.
LEMMA FrameApart ==
  ASSUME NEW f \in Nat, NEW rate \in Rate
  PROVE  LET apart == subtract(outputTime(f, rate), outputTime(f - 1, rate))
         IN  apart \in Time /\ compare(outputTime(1, rate), apart) = 0
<1> DEFINE apart == subtract(outputTime(f, rate), outputTime(f - 1, rate))
<1>1. PICK n \in Positive, d \in Positive : n = rate.num /\ d = rate.den
  BY FrameTime
<1>2. d \in Int /\ f * d \in Int /\ (f - 1) * d \in Int /\ 1 * d = d
  BY DEF Positive
<1>3. /\ outputTime(f, rate) \in Time /\ Val(outputTime(f, rate), f * d, n)
      /\ outputTime(f - 1, rate) \in Time /\ Val(outputTime(f - 1, rate), (f - 1) * d, n)
      /\ outputTime(1, rate) \in Time /\ Val(outputTime(1, rate), 1 * d, n)
  BY <1>1, FrameTime
<1>4. apart \in Time /\ Val(apart, (f * d) - ((f - 1) * d), n)
  BY <1>2, <1>3, SumVal
<1>5. (f * d) - ((f - 1) * d) = d
  BY <1>2
<1> HIDE DEF apart
<1>6. Val(apart, d, n) /\ Val(outputTime(1, rate), d, n)
  BY <1>2, <1>3, <1>4, <1>5
<1>7. QED
  BY <1>2, <1>3, <1>4, <1>6, CompareVal DEF apart

\* Where a layer of a given role comes from.
LEMMA PictureKinds ==
  ASSUME NEW p \in Plans, NEW f \in Nat, NEW layer \in ToSet(frameState(p, f).pictureLayers)
  PROVE  LET time == outputTime(f, p.rate)
         IN  /\ layer.role = "transition-incoming" => FadesIn(layer, p, f)
             /\ layer.role = "picture" => \E i \in Live(p, "picture", time) :
                    layer = layerFor(p, p.occurrences[i], f, time)
<1> DEFINE time == outputTime(f, p.rate)
<1>1. CASE Fading(p, f)
  <2>1. layer \in ToSet(lTransition(p, f, time))
    BY <1>1, PicturesOfFrame
  <2>2. FadesIn(layer, p, f) \/ layer.role = "transition-outgoing"
    BY <1>1, <2>1, FadeLayers
  <2>3. FadesIn(layer, p, f) => layer.role = "transition-incoming"
    BY DEF FadesIn, lTransition
  <2>4. QED
    BY <2>2, <2>3
<1>2. CASE ~Fading(p, f)
  <2>1. PICK i \in Live(p, "picture", time) : layer = layerFor(p, p.occurrences[i], f, time)
    BY <1>2, PicturesOfFrame
  <2>2. layer.role = "picture"
    BY <2>1 DEF Live, layerFor
  <2>3. QED
    BY <2>1, <2>2
<1>3. QED
  BY <1>1, <1>2

\* A chapter that was faded in goes on one frame later in its source.
LEMMA ChapterGoesOn ==
  ASSUME NEW p \in Plans, freezeSnapshot(p), p.fixture = "L", NEW f \in Nat, f > 0,
         NEW faded \in ToSet(frameState(p, f - 1).pictureLayers),
         NEW layer \in ToSet(frameState(p, f).pictureLayers),
         NEW i \in DOMAIN p.occurrences,
         faded.role = "transition-incoming", layer.role = "picture",
         faded.occurrenceId = layer.occurrenceId,
         p.occurrences[i].role = "transition",
         p.occurrences[i + 1].id = layer.occurrenceId,
         layer.retime.num = layer.retime.den, ~Still(p.occurrences[i + 1]),
         compare(p.occurrences[i + 1].outputRange.start, boundaryTime(p.occurrences[i])) = 0
  PROVE  compare(subtract(layer.sourceTime, faded.sourceTime), outputTime(1, p.rate)) = 0
<1> DEFINE time   == outputTime(f, p.rate)
           before == outputTime(f - 1, p.rate)
           j      == TransitionIndex(p, before)
<1>1. f - 1 \in Nat /\ time \in Time /\ before \in Time /\ p.rate \in Rate
  BY PlanFacts
<1>2. FadesIn(faded, p, f - 1)
  BY <1>1, PictureKinds
<1>3. PICK k \in Live(p, "picture", time) : layer = layerFor(p, p.occurrences[k], f, time)
  BY PictureKinds
<1>4. k \in DOMAIN p.occurrences /\ layer.occurrenceId = p.occurrences[k].id
      /\ layer.retime = p.occurrences[k].retimeFactor
  BY <1>3 DEF Live, InTime, layerFor
<1>5. j \in DOMAIN p.occurrences /\ p.occurrences[j].role = "transition"
  BY <1>1, <1>2, TransitionPlace DEF FadesIn
<1>6. /\ i \in Nat /\ i + 1 \in DOMAIN p.occurrences
      /\ j \in Nat /\ j + 1 \in DOMAIN p.occurrences
  BY <1>5, AcceptedTransitions
<1>7. /\ faded.occurrenceId = p.occurrences[j + 1].id
      /\ faded.sourceTime = add(incomingHandle(p.occurrences[j + 1], p.occurrences[j]).start,
                                subtract(before, p.occurrences[j].outputRange.start))
  BY <1>2 DEF FadesIn, lTransition
<1> HIDE DEF j
<1>8. i + 1 = k /\ j + 1 = k
  BY <1>4, <1>6, <1>7, AcceptedOccurrences
<1>9. j = i
  BY <1>6, <1>8
<1>10. PICK c, tr : c = p.occurrences[i + 1] /\ tr = p.occurrences[i]
  OBVIOUS
<1>11. Clip(c) /\ Clip(tr) /\ c.retimeFactor.num = c.retimeFactor.den
  BY <1>4, <1>6, <1>8, <1>10, PlanFacts
<1>12. layer.sourceTime = At(c, time)
  BY <1>3, <1>8, <1>10 DEF layerFor, At, Still
<1>13. faded.sourceTime = add(incomingHandle(c, tr).start, subtract(before, tr.outputRange.start))
  BY <1>7, <1>9, <1>10
<1> HIDE DEF time, before
<1>14. /\ subtract(layer.sourceTime, faded.sourceTime) \in Time
       /\ compare(subtract(layer.sourceTime, faded.sourceTime), subtract(time, before)) = 0
  <2>1. compare(c.outputRange.start, boundaryTime(tr)) = 0
    BY <1>10
  <2>2. PICK x : x = add(incomingHandle(c, tr).start, subtract(before, tr.outputRange.start))
    OBVIOUS
  <2>3. /\ subtract(At(c, time), x) \in Time
        /\ compare(subtract(At(c, time), x), subtract(time, before)) = 0
    BY <1>1, <1>11, <2>1, <2>2, HandleMeets
  <2>4. QED
    BY <1>12, <1>13, <2>2, <2>3
<1>15. subtract(time, before) \in Time /\ compare(outputTime(1, p.rate), subtract(time, before)) = 0
  BY <1>1, FrameApart DEF time, before
<1>16. outputTime(1, p.rate) \in Time
  BY PlanFacts
<1>17. QED
  BY <1>14, <1>15, <1>16, SameTime

\* The same, for the frame that is scanned next.
LEMMA ChaptersInv == ScanInv => ChaptersGoOnWhereTheyFadedIn
<1> SUFFICES ASSUME ScanInv, Scanned, plan.fixture = "L", frame > 0,
                    NEW faded \in ToSet(frameState(plan, frame - 1).pictureLayers),
                    NEW layer \in ToSet(frameState(plan, frame).pictureLayers),
                    NEW i \in DOMAIN plan.occurrences,
                    faded.role = "transition-incoming", layer.role = "picture",
                    faded.occurrenceId = layer.occurrenceId,
                    plan.occurrences[i].role = "transition",
                    plan.occurrences[i + 1].id = layer.occurrenceId,
                    layer.retime.num = layer.retime.den, ~Still(plan.occurrences[i + 1]),
                    compare(plan.occurrences[i + 1].outputRange.start,
                            boundaryTime(plan.occurrences[i])) = 0
             PROVE  compare(subtract(layer.sourceTime, faded.sourceTime),
                            outputTime(1, plan.rate)) = 0
  BY DEF ChaptersGoOnWhereTheyFadedIn
<1>1. plan \in Plans /\ freezeSnapshot(plan) /\ frame \in Nat
  BY PlanFacts DEF ScanInv, TypeOK, Scanned
<1>2. QED
  BY <1>1, ChapterGoesOn

\* Whatever the plan, a chapter that starts at its boundary and is not retimed goes on,
\* when its transition is over, where its last faded frame left it.
THEOREM ChaptersGoOn == Spec => []ChaptersGoOnWhereTheyFadedIn
BY ScanInvariant, ChaptersInv, PTL

\* The level of the music at a time, as one range of speech alone would have it.
RampUp(time, start) == clamp(ratioNumber(subtract(time, subtract(start, Attack)), Attack))
RampDown(time, end) == subtract(One, clamp(ratioNumber(subtract(time, end), Release)))

Level(r, time) == IF compare(r.start, time) > 0 THEN RampUp(time, r.start)
                  ELSE IF compare(rangeEnd(r), time) <= 0 THEN RampDown(time, rangeEnd(r))
                  ELSE One

Positively(n) == IF n >= 0 THEN n ELSE 0

\* clamp, over any denominator.
LEMMA ClampVal ==
  ASSUME NEW x \in Time, NEW n \in Int, NEW m \in Positive, Val(x, n, m)
  PROVE  clamp(x) \in Time /\ \E k \in Int :
            /\ Val(clamp(x), k, m)
            /\ k = IF n < 0 THEN 0 ELSE IF n > m THEN m ELSE n
<1>1. m \in Int /\ m > 0 /\ 0 \in Int
  BY DEF Positive
<1>2. /\ Zero \in Time /\ One \in Time /\ Val(Zero, 0, m) /\ Val(One, m, m)
  BY <1>1 DEF Zero, One, Time, Positive, Val
<1>3. PICK y : y = maxRational(Zero, x)
  OBVIOUS
<1>4. PICK k \in Int : k = IF 0 >= n THEN 0 ELSE n
  OBVIOUS
<1>5. y \in Time /\ Val(y, k, m)
  BY <1>1, <1>2, <1>3, <1>4, MinMaxVal
<1>6. PICK l \in Int : l = IF m <= k THEN m ELSE k
  BY <1>1
<1>7. minRational(One, y) \in Time /\ Val(minRational(One, y), l, m)
  BY <1>1, <1>2, <1>5, <1>6, MinMaxVal
<1>8. clamp(x) = minRational(One, y)
  BY <1>3 DEF clamp
<1>9. l = IF n < 0 THEN 0 ELSE IF n > m THEN m ELSE n
  BY <1>1, <1>4, <1>6
<1>10. QED
  BY <1>7, <1>8, <1>9

\* The ramp before speech that starts at a, at a time n.
LEMMA RampUpVal ==
  ASSUME NEW t \in Time, NEW s \in Time, NEW n \in Int, NEW a \in Int,
         NEW A \in Positive, NEW d \in Positive,
         Val(t, n, d), Val(s, a, d), Val(Attack, A, d)
  PROVE  RampUp(t, s) \in Time /\ \E k \in Int :
            /\ Val(RampUp(t, s), k, A)
            /\ k = IF n - (a - A) < 0 THEN 0 ELSE IF n - (a - A) > A THEN A ELSE n - (a - A)
<1>1. A \in Int /\ Attack \in Time
  BY EnvelopeAssumption DEF Positive
<1>2. PICK u : u = subtract(s, Attack)
  OBVIOUS
<1>3. u \in Time /\ Val(u, a - A, d) /\ a - A \in Int
  BY <1>1, <1>2, SumVal
<1>4. PICK v : v = subtract(t, u)
  OBVIOUS
<1>5. PICK b \in Int : b = n - (a - A)
  BY <1>1
<1>6. v \in Time /\ Val(v, b, d)
  BY <1>3, <1>4, <1>5, SumVal
<1>7. ratioNumber(v, Attack) \in Time /\ Val(ratioNumber(v, Attack), b, A)
  BY <1>1, <1>6, RatioVal
<1>8. RampUp(t, s) = clamp(ratioNumber(v, Attack))
  BY <1>2, <1>4 DEF RampUp
<1>9. QED
  BY <1>5, <1>7, <1>8, ClampVal

\* The ramp after speech that ends at e.
LEMMA RampDownVal ==
  ASSUME NEW t \in Time, NEW s \in Time, NEW n \in Int, NEW e \in Int,
         NEW R \in Positive, NEW d \in Positive,
         Val(t, n, d), Val(s, e, d), Val(Release, R, d)
  PROVE  RampDown(t, s) \in Time /\ \E k \in Int :
            /\ Val(RampDown(t, s), k, R)
            /\ k = IF n - e < 0 THEN R ELSE IF n - e > R THEN 0 ELSE R - (n - e)
<1>1. R \in Int /\ R > 0 /\ Release \in Time
  BY EnvelopeAssumption DEF Positive
<1>2. PICK v : v = subtract(t, s)
  OBVIOUS
<1>3. PICK b \in Int : b = n - e
  OBVIOUS
<1>4. v \in Time /\ Val(v, b, d)
  BY <1>2, <1>3, SumVal
<1>5. PICK x : x = ratioNumber(v, Release)
  OBVIOUS
<1>6. x \in Time /\ Val(x, b, R)
  BY <1>1, <1>4, <1>5, RatioVal
<1>7. PICK k \in Int : /\ Val(clamp(x), k, R)
                       /\ k = IF b < 0 THEN 0 ELSE IF b > R THEN R ELSE b
  BY <1>6, ClampVal
<1>8. clamp(x) \in Time
  BY <1>6, ClampVal
<1>9. One \in Time /\ Val(One, R, R)
  BY <1>1 DEF One, Time, Positive, Val
<1>10. RampDown(t, s) = subtract(One, clamp(x))
  BY <1>2, <1>5 DEF RampDown
<1>11. RampDown(t, s) \in Time /\ Val(RampDown(t, s), R - k, R) /\ R - k \in Int
  BY <1>1, <1>7, <1>8, <1>9, <1>10, SumVal
<1>12. R - k = IF b < 0 THEN R ELSE IF b > R THEN 0 ELSE R - b
  BY <1>1, <1>7
<1>13. QED
  BY <1>3, <1>11, <1>12

\* The height of a level over the product of the two ramps, for a range from a to e.
Height(h, a, e, n, A, R) ==
    h = Positively(((A * R) - (Positively(a - n) * R)) - (Positively(n - e) * A))

\* A part of a positive product.
LEMMA Part ==
  ASSUME NEW m \in Positive, NEW z \in Positive, NEW b \in Int, b >= 0, NEW k \in Int,
         k = Positively(m - b)
  PROVE  k * z = Positively((m * z) - (b * z))
<1>1. m \in Int /\ z \in Int /\ z > 0
  BY DEF Positive
<1>2. PICK c \in Int : c = m - b
  BY <1>1
<1>3. PICK y \in Int : y = (m * z) - (b * z) /\ c * z = y
  BY <1>1, <1>2
<1>4. c >= 0 => c * z >= 0
  BY <1>1
<1>5. c < 0 => c * z < 0
  BY <1>1
<1>6. 0 * z = 0
  BY <1>1
<1>7. CASE c >= 0
  <2>1. k = c
    BY <1>2, <1>7 DEF Positively
  <2>2. y >= 0 /\ k * z = y
    BY <1>3, <1>4, <1>7, <2>1
  <2>3. QED
    BY <1>3, <2>2 DEF Positively
<1>8. CASE c < 0
  <2>1. k = 0
    BY <1>2, <1>8 DEF Positively
  <2>2. y < 0 /\ k * z = 0
    BY <1>3, <1>5, <1>6, <1>8, <2>1
  <2>3. QED
    BY <1>3, <2>2 DEF Positively
<1>9. QED
  BY <1>7, <1>8

\* The level that one range asks for, over the product of its two ramps, is what lies
\* below both of them.
LEMMA LevelVal ==
  ASSUME NEW r, r.start \in Time, rangeEnd(r) \in Time, NEW t \in Time,
         NEW a \in Int, NEW e \in Int, NEW n \in Int, a <= e,
         NEW A \in Positive, NEW R \in Positive, NEW d \in Positive,
         Val(r.start, a, d), Val(rangeEnd(r), e, d), Val(t, n, d),
         Val(Attack, A, d), Val(Release, R, d)
  PROVE  Level(r, t) \in Time /\ \E h \in Int : Val(Level(r, t), h, A * R) /\ Height(h, a, e, n, A, R)
<1>1. /\ A \in Int /\ R \in Int /\ A > 0 /\ R > 0 /\ A * R \in Positive /\ A * R = R * A
      /\ A * R \in Int /\ A * R > 0
  BY Products DEF Positive
<1>2. /\ compare(r.start, t) \in Int /\ (compare(r.start, t) > 0 <=> a > n)
      /\ compare(rangeEnd(r), t) \in Int /\ (compare(rangeEnd(r), t) <= 0 <=> e <= n)
  BY CompareVal
<1>3. CASE a > n
  <2>1. PICK b \in Int : b = a - n /\ b > 0
    BY <1>3
  <2>2. Level(r, t) = RampUp(t, r.start)
    BY <1>2, <1>3 DEF Level
  <2>3. Level(r, t) \in Time
    BY <2>2, RampUpVal
  <2>4. PICK k \in Int : Val(Level(r, t), k, A)
                /\ k = IF n - (a - A) < 0 THEN 0 ELSE IF n - (a - A) > A THEN A ELSE n - (a - A)
    BY <2>2, RampUpVal
  <2>5. k = Positively(A - b)
    BY <1>1, <2>1, <2>4 DEF Positively
  <2>6. k * R = Positively((A * R) - (b * R))
    BY <2>1, <2>5, Part
  <2>7. k * R \in Int /\ Val(Level(r, t), k * R, A * R)
    BY <2>3, <2>4, Scaled
  <2>8. Positively(a - n) = b /\ Positively(n - e) = 0
    BY <1>3, <2>1 DEF Positively
  <2>9. 0 * A = 0 /\ b * R \in Int
    BY <1>1
  <2>10. ((A * R) - (b * R)) - 0 = (A * R) - (b * R)
    BY <1>1, <2>9
  <2>11. Height(k * R, a, e, n, A, R)
    BY <2>6, <2>8, <2>9, <2>10 DEF Height
  <2>12. QED
    BY <2>3, <2>7, <2>11
<1>4. CASE a <= n /\ e <= n
  <2>1. PICK c \in Int : c = n - e /\ c >= 0
    BY <1>4
  <2>2. Level(r, t) = RampDown(t, rangeEnd(r))
    BY <1>2, <1>4 DEF Level
  <2>3. Level(r, t) \in Time
    BY <2>2, RampDownVal
  <2>4. PICK k \in Int : Val(Level(r, t), k, R)
                /\ k = IF n - e < 0 THEN R ELSE IF n - e > R THEN 0 ELSE R - (n - e)
    BY <2>2, RampDownVal
  <2>5. k = Positively(R - c)
    BY <1>1, <2>1, <2>4 DEF Positively
  <2>6. k * A = Positively((R * A) - (c * A))
    BY <2>1, <2>5, Part
  <2>7. k * A \in Int /\ Val(Level(r, t), k * A, A * R)
    BY <1>1, <2>3, <2>4, Scaled
  <2>8. Positively(a - n) = 0 /\ Positively(n - e) = c
    BY <1>4, <2>1 DEF Positively
  <2>9. 0 * R = 0 /\ c * A \in Int
    BY <1>1
  <2>10. ((A * R) - 0) - (c * A) = (R * A) - (c * A)
    BY <1>1, <2>9
  <2>11. Height(k * A, a, e, n, A, R)
    BY <2>6, <2>8, <2>9, <2>10 DEF Height
  <2>12. QED
    BY <2>3, <2>7, <2>11
<1>5. CASE a <= n /\ n < e
  <2>1. Level(r, t) = One
    BY <1>2, <1>5 DEF Level
  <2>2. One \in Time /\ Val(One, A * R, A * R)
    BY <1>1 DEF One, Time, Positive, Val
  <2>3. Positively(a - n) = 0 /\ Positively(n - e) = 0
    BY <1>5 DEF Positively
  <2>4. 0 * R = 0 /\ 0 * A = 0
    BY <1>1
  <2>5. Positively(((A * R) - 0) - 0) = A * R
    BY <1>1 DEF Positively
  <2>6. Height(A * R, a, e, n, A, R)
    BY <2>3, <2>4, <2>5 DEF Height
  <2>7. QED
    BY <1>1, <2>1, <2>2, <2>6
<1>6. QED
  BY <1>3, <1>4, <1>5

\* One range moves the music no faster than the steeper ramp.
LEMMA HeightMoves ==
  ASSUME NEW A \in Positive, NEW R \in Positive, NEW K \in Int, K >= A, K >= R,
         NEW a \in Int, NEW e \in Int, NEW n \in Int, NEW m \in Int, n <= m,
         NEW g \in Int, NEW h \in Int, Height(g, a, e, n, A, R), Height(h, a, e, m, A, R)
  PROVE  h - g <= (m - n) * K /\ g - h <= (m - n) * K
<1>1. A \in Int /\ R \in Int /\ A > 0 /\ R > 0
  BY DEF Positive
<1>2. \A i \in Int : Positively(i) \in Int
  BY DEF Positively
<1>3. PICK b \in Int, c \in Int : b = Positively(a - m) /\ c = Positively(n - e)
  BY <1>2
<1>4. PICK x \in Int, y \in Int, z \in Int :
          x = Positively(a - n) - b /\ y = Positively(m - e) - c /\ z = m - n
  BY <1>2
<1>5. /\ b = Positively(a - m) /\ c = Positively(n - e)
      /\ x = Positively(a - n) - b /\ y = Positively(m - e) - c /\ z = m - n
  BY <1>3, <1>4
<1>6. 0 <= x /\ x <= z /\ 0 <= y /\ y <= z
  BY <1>5 DEF Positively
<1>7. Positively(a - n) = b + x /\ Positively(m - e) = c + y
  BY <1>5 DEF Positively
<1>8. 0 <= x * R /\ x * R <= z * K
  <2>1. 0 <= x * R /\ x * R <= z * R
    BY <1>1, <1>6
  <2>2. z * R <= z * K
    BY <1>1, <1>6
  <2>3. QED
    BY <1>1, <2>1, <2>2
<1>9. 0 <= y * A /\ y * A <= z * K
  <2>1. 0 <= y * A /\ y * A <= z * A
    BY <1>1, <1>6
  <2>2. z * A <= z * K
    BY <1>1, <1>6
  <2>3. QED
    BY <1>1, <2>1, <2>2
<1>10. PICK p \in Int, u \in Int, v \in Int, bR \in Int, cA \in Int, zK \in Int :
         p = A * R /\ u = x * R /\ v = y * A /\ bR = b * R /\ cA = c * A /\ zK = z * K
  BY <1>1
<1>11. (b + x) * R = bR + u /\ (c + y) * A = cA + v
  BY <1>1, <1>10
<1>12. g = Positively((p - (bR + u)) - cA)
  BY <1>5, <1>7, <1>10, <1>11 DEF Height
<1>13. h = Positively((p - bR) - (cA + v))
  BY <1>5, <1>7, <1>10, <1>11 DEF Height
<1>14. 0 <= u /\ u <= zK /\ 0 <= v /\ v <= zK
  BY <1>8, <1>9, <1>10
<1>15. h - g <= zK /\ g - h <= zK
  BY <1>12, <1>13, <1>14 DEF Positively
<1>16. QED
  BY <1>5, <1>10, <1>15

\* A range that does not end before it starts.
Proper(r) == r.start \in Time /\ rangeEnd(r) \in Time /\ compare(r.start, rangeEnd(r)) <= 0

\* What a level is at a time: over 1, its height.
LEMMA LevelBounds ==
  ASSUME NEW r, Proper(r), NEW t \in Time
  PROVE  Level(r, t) \in Time /\ compare(Zero, Level(r, t)) <= 0 /\ compare(Level(r, t), One) <= 0
<1>1. Attack \in Time /\ Release \in Time /\ Attack.ticks > 0 /\ Release.ticks > 0
  BY EnvelopeAssumption
<1>2. PICK s, u : s = r.start /\ u = rangeEnd(r)
  OBVIOUS
<1>3. s \in Time /\ u \in Time
  BY <1>2 DEF Proper
<1>4. PICK d \in Positive : \E na, nb, nc, ne, nf, ng \in Int :
            Six(s, u, t, Attack, Release, t, na, nb, nc, ne, nf, ng, d)
  BY <1>1, <1>3, SixTimes
<1>5. PICK a \in Int, e \in Int, n \in Int, A \in Int, R \in Int :
         Val(s, a, d) /\ Val(u, e, d) /\ Val(t, n, d) /\ Val(Attack, A, d) /\ Val(Release, R, d)
  BY <1>4 DEF Six
<1>6. A \in Positive /\ R \in Positive
  <2>1. A > 0 /\ R > 0
    BY <1>1, <1>5, TicksSign, TimeParts
  <2>2. QED
    BY <2>1 DEF Positive
<1>7. a <= e
  BY <1>2, <1>3, <1>5, CompareVal DEF Proper
<1>8. Level(r, t) \in Time /\ \E h \in Int : Val(Level(r, t), h, A * R) /\ Height(h, a, e, n, A, R)
  BY <1>2, <1>3, <1>5, <1>6, <1>7, LevelVal
<1>9. PICK h \in Int : Val(Level(r, t), h, A * R) /\ Height(h, a, e, n, A, R)
  BY <1>8
<1>10. A * R \in Positive /\ A * R \in Int /\ A * R > 0 /\ A > 0 /\ R > 0
  BY <1>6, Products DEF Positive
<1>11. 0 <= h /\ h <= A * R
  <2>1. PICK b \in Int, c \in Int : b = Positively(a - n) /\ c = Positively(n - e) /\ b >= 0 /\ c >= 0
    <3>1. \A i \in Int : Positively(i) \in Int /\ Positively(i) >= 0
      BY DEF Positively
    <3>2. QED
      BY <3>1
  <2>2. b * R >= 0 /\ c * A >= 0 /\ b * R \in Int /\ c * A \in Int
    BY <1>10, <2>1
  <2>3. h = Positively(((A * R) - (b * R)) - (c * A))
    BY <1>9, <2>1 DEF Height
  <2>4. PICK x \in Int, y \in Int, z \in Int : x = A * R /\ y = b * R /\ z = c * A
    BY <1>10, <2>2
  <2>5. h = Positively((x - y) - z) /\ x > 0 /\ y >= 0 /\ z >= 0
    BY <1>10, <2>2, <2>3, <2>4
  <2>6. 0 <= h /\ h <= x
    BY <2>5 DEF Positively
  <2>7. QED
    BY <2>4, <2>6
<1>12. Zero \in Time /\ One \in Time /\ Val(Zero, 0, A * R) /\ Val(One, A * R, A * R)
  BY <1>10 DEF Zero, One, Time, Positive, Val
<1>13. /\ compare(Zero, Level(r, t)) \in Int
       /\ compare(Zero, Level(r, t)) < 0 <=> 0 < h
       /\ compare(Zero, Level(r, t)) = 0 <=> 0 = h
  BY <1>8, <1>9, <1>10, <1>12, CompareVal
<1>14. /\ compare(Level(r, t), One) \in Int
       /\ compare(Level(r, t), One) < 0 <=> h < A * R
       /\ compare(Level(r, t), One) = 0 <=> h = A * R
  BY <1>8, <1>9, <1>10, <1>12, CompareVal
<1>15. QED
  BY <1>8, <1>10, <1>11, <1>13, <1>14

\* How far the steeper of the two ramps moves in a frame.
Steeper(rate) == ratioNumber(outputTime(1, rate), minRational(Attack, Release))

\* From one frame to the next one range moves the music no further than the steeper ramp.
LEMMA LevelMoves ==
  ASSUME NEW r, Proper(r), NEW rate \in Rate, NEW f \in Nat
  PROVE  LET now    == Level(r, outputTime(f, rate))
             before == Level(r, outputTime(f - 1, rate))
         IN  /\ Steeper(rate) \in Time /\ compare(Zero, Steeper(rate)) <= 0
             /\ compare(subtract(now, before), Steeper(rate)) <= 0
             /\ compare(subtract(before, now), Steeper(rate)) <= 0
<1>1. Attack \in Time /\ Release \in Time /\ Attack.ticks > 0 /\ Release.ticks > 0
  BY EnvelopeAssumption
<1>2. PICK s, u, t, w, v : /\ s = r.start /\ u = rangeEnd(r)
                        /\ t = outputTime(f, rate) /\ w = outputTime(f - 1, rate)
                        /\ v = outputTime(1, rate)
  OBVIOUS
<1>3. s \in Time /\ u \in Time /\ t \in Time /\ w \in Time /\ v \in Time
  BY <1>2, FrameTime DEF Proper
<1>4. subtract(t, w) \in Time /\ compare(v, subtract(t, w)) = 0
  BY <1>2, FrameApart
<1>5. PICK d \in Positive : \E na, nb, nc, ne, nf, ng \in Int :
            Six(s, u, t, w, Attack, Release, na, nb, nc, ne, nf, ng, d)
  BY <1>1, <1>3, SixTimes
<1>6. PICK a \in Int, e \in Int, n \in Int, m \in Int, A \in Int, R \in Int :
         /\ Val(s, a, d) /\ Val(u, e, d) /\ Val(t, n, d) /\ Val(w, m, d)
         /\ Val(Attack, A, d) /\ Val(Release, R, d)
  BY <1>5 DEF Six
<1>7. A \in Positive /\ R \in Positive
  <2>1. A > 0 /\ R > 0
    BY <1>1, <1>6, TicksSign, TimeParts
  <2>2. QED
    BY <2>1 DEF Positive
<1>8. a <= e
  BY <1>2, <1>3, <1>6, CompareVal DEF Proper
<1>9. PICK z \in Int : z = n - m /\ Val(subtract(t, w), z, d)
  BY <1>3, <1>6, SumVal
<1>10. Val(v, z, d)
  <2>1. PICK i \in Int, j \in Int, l \in Int, o \in Positive : i = v.ticks /\ j = v.timescale
           /\ l = subtract(t, w).ticks /\ o = subtract(t, w).timescale
    BY <1>3, <1>4 DEF Time, Positive
  <2>2. i \in Int /\ j \in Int /\ l \in Int /\ o \in Int /\ o # 0 /\ d \in Int
    BY <1>3, <1>4, <2>1 DEF Time, Positive
  <2>3. (i * o) - (l * j) = 0 /\ l * d = z * o
    BY <1>4, <1>9, <2>1 DEF compare, Val
  <2>4. (i * d) * o = (z * j) * o
    <3>1. i * o = l * j
      BY <2>2, <2>3
    <3>2. (i * d) * o = (i * o) * d /\ (z * j) * o = (z * o) * j /\ (l * j) * d = (l * d) * j
      BY <2>2
    <3>3. QED
      BY <2>3, <3>1, <3>2
  <2>5. i * d = z * j
    BY <2>2, <2>4, Cancel
  <2>6. QED
    BY <2>1, <2>5 DEF Val
<1>11. z > 0
  <2>1. v.ticks > 0
    <3>1. Val(v, 1 * rate.den, rate.num) /\ rate.num \in Positive /\ 1 * rate.den > 0 /\ 1 * rate.den \in Int
      BY <1>2, FrameTime DEF Positive
    <3>2. QED
      BY <1>3, <3>1, TicksSign, TimeParts
  <2>2. QED
    BY <1>3, <1>10, <2>1, TicksSign, TimeParts
<1>12. PICK low \in Positive, K \in Int : /\ low = (IF A <= R THEN A ELSE R)
                                         /\ K = (IF A <= R THEN R ELSE A)
  BY <1>7 DEF Positive
<1>13. K \in Positive /\ K >= A /\ K >= R /\ A \in Int /\ R \in Int
  BY <1>7, <1>12 DEF Positive
<1>14. minRational(Attack, Release) \in Time /\ Val(minRational(Attack, Release), low, d)
  BY <1>1, <1>6, <1>12, MinMaxVal
<1>15. Steeper(rate) \in Time /\ Val(Steeper(rate), z, low)
  BY <1>2, <1>3, <1>10, <1>14, RatioVal DEF Steeper
<1>16. low * K = A * R
  BY <1>12, <1>13
<1>17. z * K \in Int /\ Val(Steeper(rate), z * K, A * R)
  BY <1>13, <1>15, <1>16, Scaled
<1>18. Level(r, t) \in Time /\ \E h \in Int : Val(Level(r, t), h, A * R) /\ Height(h, a, e, n, A, R)
  BY <1>2, <1>3, <1>6, <1>7, <1>8, LevelVal
<1>19. Level(r, w) \in Time /\ \E h \in Int : Val(Level(r, w), h, A * R) /\ Height(h, a, e, m, A, R)
  BY <1>2, <1>3, <1>6, <1>7, <1>8, LevelVal
<1>20. PICK h \in Int : Val(Level(r, t), h, A * R) /\ Height(h, a, e, n, A, R)
  BY <1>18
<1>21. PICK g \in Int : Val(Level(r, w), g, A * R) /\ Height(g, a, e, m, A, R)
  BY <1>19
<1>22. h - g <= z * K /\ g - h <= z * K
  <2>1. m <= n
    BY <1>9, <1>11
  <2>2. QED
    BY <1>7, <1>9, <1>13, <1>20, <1>21, <2>1, HeightMoves
<1>23. A * R \in Positive
  BY <1>7, Products
<1>24. /\ subtract(Level(r, t), Level(r, w)) \in Time
       /\ Val(subtract(Level(r, t), Level(r, w)), h - g, A * R)
       /\ subtract(Level(r, w), Level(r, t)) \in Time
       /\ Val(subtract(Level(r, w), Level(r, t)), g - h, A * R)
  BY <1>18, <1>19, <1>20, <1>21, <1>23, SumVal
<1>25. Zero \in Time /\ Val(Zero, 0, low) /\ 0 < z
  BY <1>11, <1>12 DEF Zero, Time, Positive, Val
<1>26. compare(Zero, Steeper(rate)) <= 0
  BY <1>15, <1>25, CompareVal
<1>27. /\ compare(subtract(Level(r, t), Level(r, w)), Steeper(rate)) <= 0
       /\ compare(subtract(Level(r, w), Level(r, t)), Steeper(rate)) <= 0
  BY <1>15, <1>17, <1>22, <1>23, <1>24, CompareVal
<1>28. QED
  BY <1>2, <1>15, <1>26, <1>27

\* Of two ranges that have ended the later one is louder, of two ahead the nearer.
LEMMA RampsInOrder ==
  ASSUME NEW t \in Time, NEW s \in Time, NEW u \in Time, compare(s, u) <= 0
  PROVE  /\ RampDown(t, s) \in Time /\ RampDown(t, u) \in Time
         /\ RampUp(t, s) \in Time /\ RampUp(t, u) \in Time
         /\ compare(RampDown(t, s), RampDown(t, u)) <= 0
         /\ compare(RampUp(t, u), RampUp(t, s)) <= 0
<1>1. Attack \in Time /\ Release \in Time /\ Attack.ticks > 0 /\ Release.ticks > 0
  BY EnvelopeAssumption
<1>2. PICK d \in Positive : \E na, nb, nc, ne, nf, ng \in Int :
            Six(s, u, t, Attack, Release, t, na, nb, nc, ne, nf, ng, d)
  BY <1>1, SixTimes
<1>3. PICK a \in Int, e \in Int, n \in Int, A \in Int, R \in Int :
         Val(s, a, d) /\ Val(u, e, d) /\ Val(t, n, d) /\ Val(Attack, A, d) /\ Val(Release, R, d)
  BY <1>2 DEF Six
<1>4. A \in Positive /\ R \in Positive
  <2>1. A > 0 /\ R > 0
    BY <1>1, <1>3, TicksSign, TimeParts
  <2>2. QED
    BY <2>1 DEF Positive
<1>5. a <= e
  BY <1>3, CompareVal
<1>6. PICK k \in Int : /\ Val(RampDown(t, s), k, R)
                       /\ k = IF n - a < 0 THEN R ELSE IF n - a > R THEN 0 ELSE R - (n - a)
  BY <1>3, <1>4, RampDownVal
<1>7. PICK l \in Int : /\ Val(RampDown(t, u), l, R)
                       /\ l = IF n - e < 0 THEN R ELSE IF n - e > R THEN 0 ELSE R - (n - e)
  BY <1>3, <1>4, RampDownVal
<1>8. PICK i \in Int : /\ Val(RampUp(t, s), i, A)
         /\ i = IF n - (a - A) < 0 THEN 0 ELSE IF n - (a - A) > A THEN A ELSE n - (a - A)
  BY <1>3, <1>4, RampUpVal
<1>9. PICK j \in Int : /\ Val(RampUp(t, u), j, A)
         /\ j = IF n - (e - A) < 0 THEN 0 ELSE IF n - (e - A) > A THEN A ELSE n - (e - A)
  BY <1>3, <1>4, RampUpVal
<1>10. k <= l /\ j <= i
  BY <1>4, <1>5, <1>6, <1>7, <1>8, <1>9 DEF Positive
<1>11. /\ RampDown(t, s) \in Time /\ RampDown(t, u) \in Time
       /\ RampUp(t, s) \in Time /\ RampUp(t, u) \in Time
  BY <1>3, <1>4, RampDownVal, RampUpVal
<1>12. QED
  BY <1>4, <1>6, <1>7, <1>8, <1>9, <1>10, <1>11, CompareVal

\* A finite set has a member below no other, in whatever order.
LEMMA Maximal ==
  ASSUME NEW S, IsFiniteSet(S), S # {}, NEW L,
         \A x \in S : <<x, x>> \notin L,
         \A x, y, z \in S : <<x, y>> \in L /\ <<y, z>> \in L => <<x, z>> \in L
  PROVE  \E x \in S : \A y \in S : <<x, y>> \notin L
<1> DEFINE Above(x) == { y \in S : <<x, y>> \in L }
           Sizes == { k \in Nat : \E x \in S : k = Cardinality(Above(x)) }
<1>1. \A x \in S : IsFiniteSet(Above(x)) /\ Cardinality(Above(x)) \in Nat
  BY FS_Subset, FS_CardinalityType
<1>2. Sizes \subseteq Nat /\ Sizes # {}
  <2>1. PICK x \in S : TRUE
    OBVIOUS
  <2>2. Cardinality(Above(x)) \in Sizes
    BY <1>1
  <2>3. QED
    BY <2>2
<1>3. PICK k \in Sizes : \A l \in Sizes : k <= l
  BY <1>2, Least
<1>4. PICK x \in S : k = Cardinality(Above(x))
  OBVIOUS
<1>5. ASSUME NEW y \in S, <<x, y>> \in L PROVE FALSE
  <2>1. Above(y) \in SUBSET Above(x) /\ y \in Above(x) /\ y \notin Above(y)
    BY <1>5
  <2>2. /\ Cardinality(Above(y)) <= Cardinality(Above(x))
        /\ Cardinality(Above(y)) # Cardinality(Above(x))
    BY <1>1, <2>1, FS_Subset
  <2>3. Cardinality(Above(y)) \in Sizes /\ Cardinality(Above(y)) \in Nat /\ k \in Nat
    BY <1>1
  <2>4. k <= Cardinality(Above(y))
    BY <1>3, <2>3
  <2>5. QED
    BY <1>4, <2>2, <2>3, <2>4
<1>6. QED
  BY <1>5

\* Among finitely many ranges there are a first and a last start.
LEMMA FirstAndLast ==
  ASSUME NEW S, IsFiniteSet(S), S # {}, \A r \in S : r.start \in Time
  PROVE  /\ \E r \in S : \A o \in S : compare(o.start, r.start) <= 0
         /\ \E r \in S : \A o \in S : compare(r.start, o.start) <= 0
<1> DEFINE Before == { p \in S \X S : compare(p[1].start, p[2].start) < 0 }
           After  == { p \in S \X S : compare(p[2].start, p[1].start) < 0 }
<1>1. /\ \A x, y \in S : <<x, y>> \in Before <=> compare(x.start, y.start) < 0
      /\ \A x, y \in S : <<x, y>> \in After <=> compare(y.start, x.start) < 0
  OBVIOUS
<1> HIDE DEF Before, After
<1>2. \A x, y \in S : compare(x.start, y.start) \in Int
  BY TimesClosed
<1>3. \A x, y \in S : compare(x.start, y.start) < 0 <=> compare(y.start, x.start) > 0
  BY CompareOrder
<1>4. \A x \in S : ~ (compare(x.start, x.start) < 0)
  BY <1>2, <1>3
<1>5. \A x, y, z \in S : compare(x.start, y.start) < 0 /\ compare(y.start, z.start) < 0
                            => compare(x.start, z.start) < 0
  BY <1>2, CompareOrder
<1>6. \E r \in S : \A o \in S : <<r, o>> \notin Before
  <2>1. \A x \in S : <<x, x>> \notin Before
    BY <1>1, <1>4
  <2>2. \A x, y, z \in S : <<x, y>> \in Before /\ <<y, z>> \in Before => <<x, z>> \in Before
    BY <1>1, <1>5
  <2>3. QED
    BY <2>1, <2>2, Maximal
<1>7. \E r \in S : \A o \in S : <<r, o>> \notin After
  <2>1. \A x \in S : <<x, x>> \notin After
    BY <1>1, <1>4
  <2>2. \A x, y, z \in S : <<x, y>> \in After /\ <<y, z>> \in After => <<x, z>> \in After
    BY <1>1, <1>5
  <2>3. QED
    BY <2>1, <2>2, Maximal
<1>8. \A x, y \in S : ~ (compare(x.start, y.start) < 0) => compare(y.start, x.start) <= 0
  BY <1>2, <1>3
<1>9. QED
  BY <1>1, <1>6, <1>7, <1>8

\* Times are ordered: whatever is at most one that is at most a third.
LEMMA NoLater ==
  ASSUME NEW x \in Time, NEW y \in Time, NEW z \in Time
  PROVE  compare(x, y) <= 0 /\ compare(y, z) <= 0 => compare(x, z) <= 0
<1>1. PICK d \in Positive : \E na, nb, nc, ne, nf, ng \in Int :
            Six(x, y, z, z, z, z, na, nb, nc, ne, nf, ng, d)
  BY SixTimes
<1>2. PICK n \in Int, m \in Int, k \in Int : Val(x, n, d) /\ Val(y, m, d) /\ Val(z, k, d)
  BY <1>1 DEF Six
<1>3. /\ compare(x, y) \in Int /\ (compare(x, y) < 0 <=> n < m) /\ (compare(x, y) = 0 <=> n = m)
      /\ compare(y, z) \in Int /\ (compare(y, z) < 0 <=> m < k) /\ (compare(y, z) = 0 <=> m = k)
      /\ compare(x, z) \in Int /\ (compare(x, z) < 0 <=> n < k) /\ (compare(x, z) = 0 <=> n = k)
  BY <1>2, CompareVal
<1>4. QED
  BY <1>3

\* The music is as loud as the loudest of what single ranges have it be, or
\* at the level of a gap.
LEMMA GainIsALevel ==
  ASSUME NEW S, IsFiniteSet(S), \A r \in S : Proper(r), EndsInOrder(S), NEW t \in Time
  PROVE  LET gain == musicGain(S, t).gain
         IN  /\ gain \in Time
             /\ gain = Zero \/ \E r \in S : gain = Level(r, t)
             /\ compare(Zero, gain) <= 0
             /\ \A r \in S : compare(Level(r, t), gain) <= 0
<1> DEFINE gain  == musicGain(S, t).gain
           ended == { r \in S : compare(rangeEnd(r), t) <= 0 }
           ahead == { r \in S : compare(r.start, t) > 0 }
           last  == CHOOSE r \in ended : \A o \in ended : compare(o.start, r.start) <= 0
           next  == CHOOSE r \in ahead : \A o \in ahead : compare(r.start, o.start) <= 0
<1>1. \A r \in S : /\ r.start \in Time /\ rangeEnd(r) \in Time
                   /\ compare(r.start, t) \in Int /\ compare(t, r.start) \in Int
                   /\ compare(rangeEnd(r), t) \in Int /\ compare(t, rangeEnd(r)) \in Int
                   /\ compare(r.start, rangeEnd(r)) \in Int
                   /\ compare(r.start, t) > 0 <=> compare(t, r.start) < 0
                   /\ compare(rangeEnd(r), t) > 0 <=> compare(t, rangeEnd(r)) < 0
  BY TimesClosed, CompareOrder DEF Proper
<1>2. \A r \in ended : ~ (compare(r.start, t) > 0)
  <2>1. TAKE r \in ended
  <2>2. compare(t, r.start) < 0 /\ compare(r.start, rangeEnd(r)) <= 0 => compare(t, rangeEnd(r)) < 0
    BY <1>1, CompareOrder
  <2>3. QED
    BY <1>1, <2>2 DEF Proper
<1>3. /\ \A r \in ended : Level(r, t) = RampDown(t, rangeEnd(r))
      /\ \A r \in ahead : Level(r, t) = RampUp(t, r.start)
  BY <1>2 DEF Level
<1>4. IsFiniteSet(ended) /\ IsFiniteSet(ahead)
  BY FS_Subset
<1>5. ended # {} => last \in ended /\ \A o \in ended : compare(o.start, last.start) <= 0
  <2>1. ended # {} => \E r \in ended : \A o \in ended : compare(o.start, r.start) <= 0
    BY <1>1, <1>4, FirstAndLast
  <2>2. QED
    BY <2>1
<1>6. ahead # {} => next \in ahead /\ \A o \in ahead : compare(next.start, o.start) <= 0
  <2>1. ahead # {} => \E r \in ahead : \A o \in ahead : compare(r.start, o.start) <= 0
    BY <1>1, <1>4, FirstAndLast
  <2>2. QED
    BY <2>1
<1>7. \A r \in S : /\ Level(r, t) \in Time /\ compare(Zero, Level(r, t)) <= 0
                   /\ compare(Level(r, t), One) <= 0
  BY LevelBounds
<1>8. PICK down, up : down = releaseGain(S, t) /\ up = attackGain(S, t)
  OBVIOUS
<1>9. down = IF ended = {} THEN Zero ELSE RampDown(t, rangeEnd(last))
  BY <1>8 DEF releaseGain, RampDown
<1>10. up = IF ahead = {} THEN Zero ELSE RampUp(t, next.start)
  BY <1>8 DEF attackGain, RampUp
<1>11. Zero \in Time /\ One \in Time /\ compare(Zero, Zero) = 0 /\ compare(One, One) = 0
       /\ compare(Zero, One) < 0
  BY DEF Zero, One, Time, Positive, compare
<1>12. /\ down \in Time /\ compare(Zero, down) <= 0
       /\ down = Zero \/ \E r \in S : down = Level(r, t)
       /\ \A r \in ended : compare(Level(r, t), down) <= 0
  <2>1. CASE ended = {}
    BY <1>9, <1>11, <2>1
  <2>2. CASE ended # {}
    <3>1. last \in S /\ down = Level(last, t)
      BY <1>3, <1>5, <1>9, <2>2
    <3>2. ASSUME NEW r \in ended PROVE compare(Level(r, t), down) <= 0
      <4>1. compare(rangeEnd(r), rangeEnd(last)) <= 0
        BY <1>5, <3>1 DEF EndsInOrder
      <4>2. QED
        BY <1>1, <1>3, <1>9, <2>2, <3>1, <4>1, RampsInOrder
    <3>3. QED
      BY <1>7, <3>1, <3>2
  <2>3. QED
    BY <2>1, <2>2
<1>13. /\ up \in Time /\ compare(Zero, up) <= 0
       /\ up = Zero \/ \E r \in S : up = Level(r, t)
       /\ \A r \in ahead : compare(Level(r, t), up) <= 0
  <2>1. CASE ahead = {}
    BY <1>10, <1>11, <2>1
  <2>2. CASE ahead # {}
    <3>1. next \in S /\ up = Level(next, t)
      BY <1>3, <1>6, <1>10, <2>2
    <3>2. ASSUME NEW r \in ahead PROVE compare(Level(r, t), up) <= 0
      BY <1>1, <1>3, <1>6, <1>10, <2>2, <3>1, RampsInOrder
    <3>3. QED
      BY <1>7, <3>1, <3>2
  <2>3. QED
    BY <2>1, <2>2
<1> HIDE DEF ended, ahead, last, next
<1>14. CASE \E r \in S : active(t, r)
  <2>1. gain = One
    BY <1>14 DEF musicGain
  <2>2. PICK r \in S : active(t, r)
    BY <1>14
  <2>3. Level(r, t) = One
    BY <1>1, <2>2 DEF active, Level
  <2>4. QED
    BY <1>7, <1>11, <2>1, <2>3
<1>15. CASE ~ \E r \in S : active(t, r)
  <2>1. gain = maxRational(down, up)
    BY <1>8, <1>15 DEF musicGain
  <2>2. /\ gain \in Time /\ (gain = down \/ gain = up)
        /\ compare(down, gain) <= 0 /\ compare(up, gain) <= 0
    <3>1. compare(down, up) \in Int /\ compare(down, down) = 0 /\ compare(up, up) = 0
          /\ (compare(down, up) < 0 <=> compare(up, down) > 0) /\ compare(up, down) \in Int
          /\ (compare(down, up) = 0 <=> compare(up, down) = 0)
      <4>1. compare(down, down) = 0 /\ compare(up, up) = 0
        <5>1. ASSUME NEW x \in Time PROVE compare(x, x) = 0
          <6>1. x.ticks \in Int /\ x.timescale \in Int
            BY TimeParts
          <6>2. QED
            BY <6>1 DEF compare
        <5>2. QED
          BY <1>12, <1>13, <5>1
      <4>2. compare(down, up) \in Int /\ compare(up, down) \in Int
        BY <1>12, <1>13, TimesClosed
      <4>3. /\ compare(down, up) < 0 <=> compare(up, down) > 0
            /\ compare(down, up) = 0 <=> compare(up, down) = 0
        BY <1>12, <1>13, CompareOrder
      <4>4. QED
        BY <4>1, <4>2, <4>3
    <3>2. QED
      BY <1>12, <1>13, <2>1, <3>1 DEF maxRational
  <2>3. ASSUME NEW r \in S PROVE compare(Level(r, t), gain) <= 0
    <3>1. r \in ended \/ r \in ahead
      BY <1>1, <1>15 DEF active, ended, ahead
    <3>2. compare(Level(r, t), down) <= 0 \/ compare(Level(r, t), up) <= 0
      BY <1>12, <1>13, <3>1
    <3>3. QED
      BY <1>7, <1>12, <1>13, <2>2, <3>2, NoLater
  <2>4. QED
    BY <1>12, <1>13, <2>2, <2>3
<1>16. QED
  BY <1>14, <1>15

\* The ranges of an accepted plan are finitely many and do not end before they start.
LEMMA SpeechRanges ==
  ASSUME NEW p \in Plans, freezeSnapshot(p), p.fixture = "T"
  PROVE  IsFiniteSet(projectSpeechRanges(p)) /\ \A r \in projectSpeechRanges(p) : Proper(r)
<1>1. ASSUME NEW s, IsSequence(s) PROVE IsFiniteSet(ToSet(s))
  <2> DEFINE S == 1 .. Len(s)
             g == [i \in S |-> s[i]]
  <2>1. IsFiniteSet(S)
    BY <1>1, FS_Interval DEF IsSequence
  <2>2. g \in Surjection(S, ToSet(s))
    BY <1>1 DEF Surjection, ToSet, IsSequence
  <2>3. QED
    BY <2>1, <2>2, FS_Surjection
<1> DEFINE D == OfRole(p, "dialogue")
           W(o) == { w \in ToSet(p.words[o.sourceId]) : Heard(o, w) }
           P(o) == { projected(o, w) : w \in W(o) }
<1>2. IsFiniteSet(D)
  <2>1. IsFiniteSet(ToSet(p.occurrences))
    BY <1>1, PlanFacts
  <2>2. D \in SUBSET ToSet(p.occurrences)
    BY DEF OfRole
  <2>3. QED
    BY <2>1, <2>2, FS_Subset
<1>3. ASSUME NEW o \in D PROVE IsFiniteSet(P(o))
  <2>1. o.sourceId \in DOMAIN p.words
    BY DEF freezeSnapshot, validWords
  <2>2. IsSequence(p.words[o.sourceId])
    BY <2>1, PlansAssumption
  <2>3. IsFiniteSet(ToSet(p.words[o.sourceId]))
    BY <1>1, <2>2
  <2>4. IsFiniteSet(W(o))
    BY <2>3, FS_Subset
  <2> DEFINE g == [w \in W(o) |-> projected(o, w)]
  <2>5. g \in Surjection(W(o), P(o))
    BY DEF Surjection
  <2>6. QED
    BY <2>4, <2>5, FS_Surjection
<1>4. IsFiniteSet({ P(o) : o \in D })
  <2> DEFINE g == [o \in D |-> P(o)]
  <2>1. g \in Surjection(D, { P(o) : o \in D })
    BY DEF Surjection
  <2>2. QED
    BY <1>2, <2>1, FS_Surjection
<1>5. projectSpeechRanges(p) = UNION { P(o) : o \in D }
  BY DEF projectSpeechRanges
<1>6. IsFiniteSet(projectSpeechRanges(p))
  <2>1. \A T \in { P(o) : o \in D } : IsFiniteSet(T)
    BY <1>3
  <2> HIDE DEF P, D
  <2>2. QED
    BY <1>4, <1>5, <2>1, FS_UNION
<1>7. ASSUME NEW o \in D, NEW w \in W(o) PROVE Proper(projected(o, w))
  <2>1. PICK i \in DOMAIN p.occurrences : o = p.occurrences[i]
    BY DEF OfRole, ToSet
  <2>2. Clip(o) /\ o.sourceRange.duration.ticks >= 0
    <3>1. ValidRange(p, o)
      BY <2>1 DEF freezeSnapshot, validateManifestMeaning, validateOccurrences
    <3>2. QED
      BY <2>1, <3>1, PlanFacts DEF ValidRange
  <2>3. Word(w)
    BY DialogueWords
  <2>4. compare(w.start, w.end) <= 0
    <3>1. compare(w.end, w.start) > 0
      BY DEF freezeSnapshot, validWords, ToSet
    <3>2. compare(w.start, w.end) < 0
      BY <2>3, <3>1, CompareOrder DEF Word
    <3>3. QED
      BY <2>3, <3>2, TimesClosed DEF Word
  <2>5. PICK s, e : s = o.sourceRange.start /\ e = rangeEnd(o.sourceRange)
    OBVIOUS
  <2>6. s \in Time /\ e \in Time /\ w.start \in Time /\ w.end \in Time
    BY <2>2, <2>3, <2>5, RangeEnds DEF Clip, Word
  <2>7. compare(s, e) <= 0
    <3>1. PICK l : l = o.sourceRange.duration /\ l \in Time /\ l.ticks >= 0 /\ e = add(s, l)
      BY <2>2, <2>5 DEF Clip, TimeRange, rangeEnd
    <3>2. PICK d \in Positive : \E na, nb, nc, ne, nf, ng \in Int :
              Six(s, l, s, s, s, s, na, nb, nc, ne, nf, ng, d)
      BY <2>6, <3>1, SixTimes
    <3>3. PICK n \in Int, m \in Int : Val(s, n, d) /\ Val(l, m, d)
      BY <3>2 DEF Six
    <3>4. m >= 0
      BY <3>1, <3>3, TicksSign, TimeParts
    <3>5. Val(e, n + m, d) /\ n + m \in Int
      BY <2>6, <3>1, <3>3, SumVal
    <3>6. QED
      BY <2>6, <3>3, <3>4, <3>5, CompareVal
  <2>8. PICK lo, hi : lo = maxRational(w.start, s) /\ hi = minRational(w.end, e)
    OBVIOUS
  <2>9. lo \in Time /\ hi \in Time
    BY <2>6, <2>8, TimesClosed
  <2>10. compare(lo, hi) <= 0
    <3>1. compare(w.end, s) > 0 /\ compare(w.start, e) < 0
      BY <2>5 DEF Heard
    <3>2. compare(s, w.end) <= 0 /\ compare(w.start, e) <= 0
      <4>1. compare(s, w.end) < 0
        BY <2>6, <3>1, CompareOrder
      <4>2. compare(s, w.end) \in Int /\ compare(w.start, e) \in Int
        BY <2>6, TimesClosed
      <4>3. QED
        BY <3>1, <4>1, <4>2
    <3>3. (lo = w.start \/ lo = s) /\ (hi = w.end \/ hi = e)
      BY <2>8 DEF minRational, maxRational
    <3>4. QED
      BY <2>4, <2>7, <3>2, <3>3
  <2>11. PICK from, to : from = filmTime(o, lo) /\ to = filmTime(o, hi)
    OBVIOUS
  <2>12. from \in Time /\ to \in Time
    BY <2>2, <2>9, <2>11, FilmTimeInverse
  <2>13. compare(from, to) <= 0
    <3>1. compare(to, from) >= 0 <=> compare(At(o, to), lo) >= 0
      BY <2>2, <2>9, <2>11, <2>12, FilmTimeInverse
    <3>2. compare(to, to) >= 0 <=> compare(At(o, to), hi) >= 0
      BY <2>2, <2>9, <2>11, <2>12, FilmTimeInverse
    <3>3. At(o, to) \in Time
      BY <2>2, <2>9, <2>12, FilmTimeInverse
    <3>4. compare(to, to) \in Int /\ (compare(to, to) < 0 <=> compare(to, to) > 0)
      BY <2>12, TimesClosed, CompareOrder
    <3>5. compare(At(o, to), hi) >= 0
      BY <3>2, <3>4
    <3>6. compare(hi, At(o, to)) <= 0
      BY <2>9, <3>3, <3>5, TimesClosed, CompareOrder
    <3>7. compare(lo, At(o, to)) <= 0
      BY <2>9, <2>10, <3>3, <3>6, NoLater
    <3>8. compare(At(o, to), lo) >= 0
      BY <2>9, <3>3, <3>7, TimesClosed, CompareOrder
    <3>9. compare(to, from) >= 0
      BY <3>1, <3>8
    <3>10. QED
      BY <2>12, <3>9, TimesClosed, CompareOrder
  <2>14. /\ subtract(to, from) \in Time /\ add(from, subtract(to, from)) \in Time
         /\ compare(from, add(from, subtract(to, from))) <= 0
    <3>1. PICK d \in Positive : \E na, nb, nc, ne, nf, ng \in Int :
              Six(from, to, from, from, from, from, na, nb, nc, ne, nf, ng, d)
      BY <2>12, SixTimes
    <3>2. PICK n \in Int, m \in Int : Val(from, n, d) /\ Val(to, m, d)
      BY <3>1 DEF Six
    <3>3. n <= m
      BY <2>12, <2>13, <3>2, CompareVal
    <3>4. PICK k \in Int : k = m - n
      OBVIOUS
    <3>5. subtract(to, from) \in Time /\ Val(subtract(to, from), k, d)
      BY <2>12, <3>2, <3>4, SumVal
    <3>6. add(from, subtract(to, from)) \in Time /\ Val(add(from, subtract(to, from)), n + k, d)
      BY <2>12, <3>2, <3>5, SumVal
    <3>7. QED
      BY <2>12, <3>2, <3>3, <3>4, <3>5, <3>6, CompareVal
  <2>15. projected(o, w) = [start |-> from, duration |-> subtract(to, from)]
    BY <2>5, <2>8, <2>11 DEF projected
  <2>16. QED
    BY <2>12, <2>14, <2>15 DEF Proper, rangeEnd
<1>8. \A r \in projectSpeechRanges(p) : Proper(r)
  BY <1>5, <1>7
<1>9. QED
  BY <1>6, <1>8

\* A difference shrinks with what it is taken from, and when more is taken.
LEMMA Shrinks ==
  ASSUME NEW x \in Time, NEW y \in Time, NEW z \in Time, NEW s \in Time,
         compare(subtract(x, y), s) <= 0, compare(y, z) <= 0
  PROVE  compare(subtract(x, z), s) <= 0
<1>1. PICK d \in Positive : \E na, nb, nc, ne, nf, ng \in Int :
            Six(x, y, z, s, s, s, na, nb, nc, ne, nf, ng, d)
  BY SixTimes
<1>2. PICK n \in Int, m \in Int, k \in Int, l \in Int :
         Val(x, n, d) /\ Val(y, m, d) /\ Val(z, k, d) /\ Val(s, l, d)
  BY <1>1 DEF Six
<1>3. /\ subtract(x, y) \in Time /\ Val(subtract(x, y), n - m, d)
      /\ subtract(x, z) \in Time /\ Val(subtract(x, z), n - k, d)
  BY <1>2, SumVal
<1>4. m <= k
  BY <1>2, CompareVal
<1>5. n - m <= l
  BY <1>2, <1>3, CompareVal
<1>6. QED
  BY <1>2, <1>3, <1>4, <1>5, CompareVal

\* Between two frames the music moves no faster than the steeper ramp.
LEMMA GainMoves ==
  ASSUME NEW S, IsFiniteSet(S), \A r \in S : Proper(r), EndsInOrder(S),
         NEW rate \in Rate, NEW f \in Nat
  PROVE  LET now    == musicGain(S, outputTime(f, rate)).gain
             before == musicGain(S, outputTime(f - 1, rate)).gain
         IN  /\ compare(subtract(now, before), Steeper(rate)) <= 0
             /\ compare(subtract(before, now), Steeper(rate)) <= 0
<1> DEFINE t == outputTime(f, rate)
           u == outputTime(f - 1, rate)
           now == musicGain(S, t).gain
           before == musicGain(S, u).gain
<1>1. t \in Time /\ u \in Time
  BY FrameTime
<1> HIDE DEF t, u
<1>2. /\ now \in Time /\ compare(Zero, now) <= 0
      /\ now = Zero \/ \E r \in S : now = Level(r, t)
      /\ \A r \in S : compare(Level(r, t), now) <= 0
  BY <1>1, GainIsALevel
<1>3. /\ before \in Time /\ compare(Zero, before) <= 0
      /\ before = Zero \/ \E r \in S : before = Level(r, u)
      /\ \A r \in S : compare(Level(r, u), before) <= 0
  BY <1>1, GainIsALevel
<1> HIDE DEF now, before
<1>4. Steeper(rate) \in Time /\ compare(Zero, Steeper(rate)) <= 0
  \* Of this no range is needed: a range that is over at once will do.
  <2>1. PICK r : r = [start |-> Zero, duration |-> Zero]
    OBVIOUS
  <2>2. Zero \in Time
    BY DEF Zero, Time, Positive
  <2>3. rangeEnd(r) \in Time /\ compare(r.start, rangeEnd(r)) <= 0
    <3>1. 1 \in Positive /\ Val(Zero, 0, 1)
      BY DEF Zero, Positive, Val
    <3>2. add(Zero, Zero) \in Time /\ Val(add(Zero, Zero), 0, 1)
      BY <2>2, <3>1, SumVal
    <3>3. QED
      BY <2>1, <2>2, <3>1, <3>2, CompareVal DEF rangeEnd
  <2>4. Proper(r)
    BY <2>1, <2>2, <2>3 DEF Proper
  <2>5. QED
    BY <2>4, LevelMoves
<1>5. \A r \in S : /\ Level(r, t) \in Time /\ Level(r, u) \in Time
                   /\ compare(subtract(Level(r, t), Level(r, u)), Steeper(rate)) <= 0
                   /\ compare(subtract(Level(r, u), Level(r, t)), Steeper(rate)) <= 0
  BY <1>1, LevelBounds, LevelMoves DEF t, u
<1>6. Zero \in Time /\ compare(subtract(Zero, Zero), Steeper(rate)) <= 0
  <2>1. 1 \in Positive /\ Val(Zero, 0, 1) /\ Zero \in Time
    BY DEF Zero, Positive, Val, Time
  <2>2. subtract(Zero, Zero) \in Time /\ Val(subtract(Zero, Zero), 0, 1)
    BY <2>1, SumVal
  <2>3. compare(subtract(Zero, Zero), Zero) <= 0
    BY <2>1, <2>2, CompareVal
  <2>4. QED
    BY <1>4, <2>1, <2>2, <2>3, NoLater
<1>7. compare(subtract(now, before), Steeper(rate)) <= 0
  <2>1. CASE now = Zero
    BY <1>3, <1>4, <1>6, <2>1, Shrinks
  <2>2. ASSUME NEW r \in S, now = Level(r, t)
        PROVE  compare(subtract(now, before), Steeper(rate)) <= 0
    BY <1>3, <1>4, <1>5, <2>2, Shrinks
  <2>3. QED
    BY <1>2, <2>1, <2>2
<1>8. compare(subtract(before, now), Steeper(rate)) <= 0
  <2>1. CASE before = Zero
    BY <1>2, <1>4, <1>6, <2>1, Shrinks
  <2>2. ASSUME NEW r \in S, before = Level(r, u)
        PROVE  compare(subtract(before, now), Steeper(rate)) <= 0
    BY <1>2, <1>4, <1>5, <2>2, Shrinks
  <2>3. QED
    BY <1>3, <2>1, <2>2
<1>9. QED
  BY <1>7, <1>8 DEF now, before, t, u

\* The same, for the frame that is scanned next.
LEMMA GradualInv == ScanInv => MusicIsGradual
<1> SUFFICES ASSUME ScanInv, Scanned, plan.fixture = "T", frame > 0,
                    EndsInOrder(projectSpeechRanges(plan))
             PROVE  LET ranges == projectSpeechRanges(plan)
                        now    == musicGain(ranges, outputTime(frame, plan.rate)).gain
                        before == musicGain(ranges, outputTime(frame - 1, plan.rate)).gain
                    IN  /\ compare(subtract(now, before), Steeper(plan.rate)) <= 0
                        /\ compare(subtract(before, now), Steeper(plan.rate)) <= 0
  BY DEF MusicIsGradual, Steeper
<1>1. plan \in Plans /\ freezeSnapshot(plan) /\ frame \in Nat
  BY PlanFacts DEF ScanInv, Scanned, TypeOK
<1>2. plan.rate \in Rate
  BY <1>1, PlanFacts
<1>3. QED
  BY <1>1, <1>2, SpeechRanges, GainMoves

\* Whatever the words and the cuts, the music moves between two frames no further
\* than the steeper of its ramps, if speech that starts later does not end earlier.
THEOREM MusicMovesGradually == Spec => []MusicIsGradual
BY ScanInvariant, GradualInv, PTL

(***************************************************************************)
(* The roles of a frame: each with a key of its own, and each moving       *)
(* through its source at the rate of its occurrence.                       *)
(***************************************************************************)
Roles(p, f) == frameState(p, f).roles
Keyed(s)    == \A k, l \in DOMAIN s : audioKey(s[k]) = audioKey(s[l]) => k = l

\* Where the role of an occurrence at place i is in its source in frame f: a
\* chapter that is faded in counts from its handle, everything else from its start.
Sounds(p, f, i, role) ==
    /\ i \in DOMAIN p.occurrences /\ role.occurrenceId = p.occurrences[i].id
    /\ role.gain \in Time
    /\ role.role # "transition-incoming" =>
           /\ role.retime = p.occurrences[i].retimeFactor
           /\ role.sourceTime =
                layerFor(p, p.occurrences[i], f, outputTime(f, p.rate)).sourceTime
    /\ role.role = "transition-incoming" =>
           /\ role.retime = [num |-> 1, den |-> 1] /\ i - 1 \in DOMAIN p.occurrences
           /\ role.sourceTime =
                add(incomingHandle(p.occurrences[i], p.occurrences[i - 1]).start,
                    subtract(outputTime(f, p.rate), p.occurrences[i - 1].outputRange.start))

\* The level of the music is a time.
LEMMA GainTime ==
  ASSUME NEW S, IsFiniteSet(S), \A r \in S : Proper(r), NEW t \in Time
  PROVE  musicGain(S, t).gain \in Time
<1> DEFINE ended == { r \in S : compare(rangeEnd(r), t) <= 0 }
           ahead == { r \in S : compare(r.start, t) > 0 }
           last  == CHOOSE r \in ended : \A o \in ended : compare(o.start, r.start) <= 0
           next  == CHOOSE r \in ahead : \A o \in ahead : compare(r.start, o.start) <= 0
<1>1. \A r \in S : r.start \in Time /\ rangeEnd(r) \in Time
  BY DEF Proper
<1>2. IsFiniteSet(ended) /\ IsFiniteSet(ahead)
  BY FS_Subset
<1>3. ended # {} => last \in ended
  <2>1. ended # {} => \E r \in ended : \A o \in ended : compare(o.start, r.start) <= 0
    BY <1>1, <1>2, FirstAndLast
  <2>2. QED
    BY <2>1
<1>4. ahead # {} => next \in ahead
  <2>1. ahead # {} => \E r \in ahead : \A o \in ahead : compare(r.start, o.start) <= 0
    BY <1>1, <1>2, FirstAndLast
  <2>2. QED
    BY <2>1
<1>5. Zero \in Time /\ One \in Time
  BY DEF Zero, One, Time, Positive
<1>6. \A x \in Time : compare(x, x) = 0
  BY TimeParts DEF compare
<1>7. \A x \in Time : RampDown(t, x) \in Time /\ RampUp(t, x) \in Time
  BY <1>6, RampsInOrder
<1>8. releaseGain(S, t) \in Time
  <2>1. releaseGain(S, t) = IF ended = {} THEN Zero ELSE RampDown(t, rangeEnd(last))
    BY DEF releaseGain, RampDown
  <2> HIDE DEF last
  <2>2. QED
    BY <1>1, <1>3, <1>5, <1>7, <2>1
<1>9. attackGain(S, t) \in Time
  <2>1. attackGain(S, t) = IF ahead = {} THEN Zero ELSE RampUp(t, next.start)
    BY DEF attackGain, RampUp
  <2> HIDE DEF next
  <2>2. QED
    BY <1>1, <1>4, <1>5, <1>7, <2>1
<1>10. maxRational(releaseGain(S, t), attackGain(S, t)) \in Time
  BY <1>8, <1>9, TimesClosed
<1>11. QED
  BY <1>5, <1>10 DEF musicGain

\* Successive layers of one role are of occurrences of that role, each with one.
LEMMA LayersApart ==
  ASSUME NEW p \in Plans, freezeSnapshot(p), NEW role, NEW f, NEW time
  PROVE  LET layers == Layers(p, role, f, time)
         IN  /\ IsSequence(layers) /\ Keyed(layers)
             /\ \A k \in DOMAIN layers : \E i \in DOMAIN p.occurrences :
                   layers[k] = layerFor(p, p.occurrences[i], f, time) /\ layers[k].role = role
<1> DEFINE live == Live(p, role, time)
           some == filtered(p.occurrences, live)
           layers == Layers(p, role, f, time)
<1>1. IsSequence(p.occurrences) /\ live \in SUBSET DOMAIN p.occurrences
  BY PlanFacts DEF Live, InTime
<1>2. \A i \in live : p.occurrences[i].role = role
  BY DEF Live
<1>3. layers = [k \in DOMAIN some |-> layerFor(p, some[k], f, time)]
  BY DEF Layers
<1> HIDE DEF live
<1>4. Holds(some, p.occurrences, live)
  BY <1>1, Filtered
<1> HIDE DEF some
<1>5. \A k \in DOMAIN some : /\ some[k] = p.occurrences[nth(live, k)] /\ nth(live, k) \in live
                            /\ Cardinality(live \cap 1 .. nth(live, k)) = k
  BY <1>4 DEF Holds
<1>6. IsSequence(layers) /\ DOMAIN layers = DOMAIN some
  BY <1>3, <1>4 DEF Holds, IsSequence
<1>7. \A k \in DOMAIN layers : /\ layers[k] = layerFor(p, some[k], f, time)
                              /\ layers[k].occurrenceId = some[k].id /\ layers[k].role = some[k].role
  BY <1>3 DEF layerFor
<1> HIDE DEF layers
<1>8. ASSUME NEW k \in DOMAIN layers, NEW l \in DOMAIN layers,
             audioKey(layers[k]) = audioKey(layers[l])
      PROVE  k = l
  <2>1. layers[k].occurrenceId = layers[l].occurrenceId
    BY <1>8 DEF audioKey
  <2>2. PICK m \in live : some[k] = p.occurrences[m] /\ Cardinality(live \cap 1 .. m) = k
    BY <1>5, <1>6
  <2>3. PICK n \in live : some[l] = p.occurrences[n] /\ Cardinality(live \cap 1 .. n) = l
    BY <1>5, <1>6
  <2>4. p.occurrences[m].id = p.occurrences[n].id
    BY <1>7, <2>1, <2>2, <2>3
  <2>5. m = n
    BY <1>1, <2>4, AcceptedOccurrences
  <2>6. QED
    BY <2>2, <2>3, <2>5
<1>9. ASSUME NEW k \in DOMAIN layers
      PROVE  \E i \in DOMAIN p.occurrences :
                layers[k] = layerFor(p, p.occurrences[i], f, time) /\ layers[k].role = role
  BY <1>1, <1>2, <1>5, <1>6, <1>7
<1>10. QED
  BY <1>6, <1>8, <1>9 DEF layers, Keyed

\* Two lists without a key in common.
LEMMA JoinedKeyed ==
  ASSUME NEW s, NEW t, IsSequence(s), IsSequence(t), Keyed(s), Keyed(t),
         \A k \in DOMAIN s, l \in DOMAIN t : audioKey(s[k]) # audioKey(t[l])
  PROVE  /\ Keyed(s \o t)
         /\ \A k \in DOMAIN (s \o t) : \/ \E i \in DOMAIN s : (s \o t)[k] = s[i]
                                       \/ \E i \in DOMAIN t : (s \o t)[k] = t[i]
<1>1. \A k \in DOMAIN (s \o t) : \/ k \in DOMAIN s /\ (s \o t)[k] = s[k]
                                 \/ k - Len(s) \in DOMAIN t /\ (s \o t)[k] = t[k - Len(s)]
  BY DEF IsSequence
<1>2. DOMAIN (s \o t) \subseteq Nat /\ Len(s) \in Nat
  BY DEF IsSequence
<1>3. PICK st : st = s \o t
  OBVIOUS
<1>4. ASSUME NEW k \in DOMAIN st, NEW l \in DOMAIN st, audioKey(st[k]) = audioKey(st[l])
      PROVE  k = l
  <2>1. \/ k \in DOMAIN s /\ st[k] = s[k]
        \/ k - Len(s) \in DOMAIN t /\ st[k] = t[k - Len(s)]
    BY <1>1, <1>3
  <2>2. \/ l \in DOMAIN s /\ st[l] = s[l]
        \/ l - Len(s) \in DOMAIN t /\ st[l] = t[l - Len(s)]
    BY <1>1, <1>3
  <2>3. k \in Nat /\ l \in Nat
    BY <1>2, <1>3
  <2>4. k - Len(s) = l - Len(s) => k = l
    BY <1>2, <2>3
  <2>5. QED
    BY <1>4, <2>1, <2>2, <2>4 DEF Keyed
<1>5. QED
  BY <1>1, <1>3, <1>4 DEF Keyed

AtGain(layer, g) == [layer EXCEPT !.gain = g]

\* A layer at some gain of an occurrence of the role called name.
Own(p, f, name, layer) ==
    \E i \in DOMAIN p.occurrences : \E g \in Time :
        /\ layer = [layerFor(p, p.occurrences[i], f, outputTime(f, p.rate)) EXCEPT !.gain = g]
        /\ p.occurrences[i].role = name

\* Such a layer is a role of its occurrence.
LEMMA OwnSounds ==
  ASSUME NEW p \in Plans, NEW f \in Nat, NEW name, NEW layer, Own(p, f, name, layer)
  PROVE  layer.role = name /\ \E i \in DOMAIN p.occurrences : Sounds(p, f, i, layer)
<1>1. PICK i \in DOMAIN p.occurrences, g \in Time :
         /\ layer = [layerFor(p, p.occurrences[i], f, outputTime(f, p.rate)) EXCEPT !.gain = g]
         /\ p.occurrences[i].role = name
  BY DEF Own
<1>2. name # "transition-incoming"
  BY <1>1, PlansAssumption
<1>3. /\ layer.occurrenceId = p.occurrences[i].id /\ layer.gain = g
      /\ layer.role = p.occurrences[i].role /\ layer.retime = p.occurrences[i].retimeFactor
      /\ layer.sourceTime = layerFor(p, p.occurrences[i], f, outputTime(f, p.rate)).sourceTime
  BY <1>1 DEF layerFor
<1>4. Sounds(p, f, i, layer)
  BY <1>1, <1>2, <1>3 DEF Sounds
<1>5. QED
  BY <1>1, <1>3, <1>4

\* The gain does not change the key.
LEMMA KeyAtGain ==
  ASSUME NEW p, NEW f, NEW name, NEW layer, Own(p, f, name, layer), NEW gain
  PROVE  audioKey(AtGain(layer, gain)) = audioKey(layer)
BY DEF Own, AtGain, audioKey, layerFor

\* The layers of a role are such layers, at whatever gain.
LEMMA LayersOwn ==
  ASSUME NEW p \in Plans, freezeSnapshot(p), NEW name, NEW f, NEW layers,
         layers = Layers(p, name, f, outputTime(f, p.rate)), NEW gain \in Time
  PROVE  /\ IsSequence(layers) /\ Keyed(layers)
         /\ \A k \in DOMAIN layers :
               /\ Own(p, f, name, layers[k])
               /\ Own(p, f, name, AtGain(layers[k], gain))
<1>1. IsSequence(layers) /\ Keyed(layers)
  BY LayersApart
<1>2. Zero \in Time
  BY DEF Zero, Time, Positive
<1>3. ASSUME NEW k \in DOMAIN layers
      PROVE  /\ Own(p, f, name, layers[k])
             /\ Own(p, f, name, AtGain(layers[k], gain))
  <2>1. PICK i \in DOMAIN p.occurrences :
            layers[k] = layerFor(p, p.occurrences[i], f, outputTime(f, p.rate)) /\ layers[k].role = name
    BY LayersApart
  <2>2. p.occurrences[i].role = name
        /\ layers[k] = AtGain(layers[k], Zero)
    BY <2>1 DEF layerFor, AtGain
  <2>3. \A g \in Time : Own(p, f, name, AtGain(layers[k], g))
    BY <2>1, <2>2 DEF Own, AtGain
  <2>4. QED
    BY <1>2, <2>2, <2>3
<1>4. QED
  BY <1>1, <1>3

\* The roles of a frame of the talking head: dialogue, music and effects.
LEMMA TalkRoles ==
  ASSUME NEW p \in Plans, freezeSnapshot(p), NEW f \in Nat, p.fixture = "T"
  PROVE  /\ Keyed(Roles(p, f))
         /\ \A k \in DOMAIN Roles(p, f) : \E name : Own(p, f, name, Roles(p, f)[k])
<1>1. PICK time : time = outputTime(f, p.rate)
  OBVIOUS
<1>2. PICK dialogue, plain, music, sfx :
          /\ dialogue = Layers(p, "dialogue", f, time) /\ music = Levelled(p, f)
          /\ sfx = Layers(p, "sfx", f, time) /\ plain = Layers(p, "music", f, time)
  OBVIOUS
<1>3. Roles(p, f) = dialogue \o music \o sfx
  BY <1>1, <1>2, RolesOfFrame DEF Roles
<1>4. time \in Time
  BY <1>1, PlanFacts
<1>5. PICK gain \in Time : gain = musicGain(projectSpeechRanges(p), time).gain
  BY <1>4, SpeechRanges, GainTime
<1>6. /\ IsSequence(dialogue) /\ Keyed(dialogue)
      /\ \A k \in DOMAIN dialogue : Own(p, f, "dialogue", dialogue[k])
  BY <1>1, <1>2, <1>5, LayersOwn
<1>7. IsSequence(sfx) /\ Keyed(sfx) /\ \A k \in DOMAIN sfx : Own(p, f, "sfx", sfx[k])
  BY <1>1, <1>2, <1>5, LayersOwn
<1>8. /\ IsSequence(plain) /\ Keyed(plain)
      /\ \A k \in DOMAIN plain :
            Own(p, f, "music", plain[k]) /\ Own(p, f, "music", AtGain(plain[k], gain))
  BY <1>1, <1>2, <1>5, LayersOwn
<1>9. IsSequence(music) /\ Keyed(music) /\ \A k \in DOMAIN music : Own(p, f, "music", music[k])
  <2>1. music = [i \in DOMAIN plain |-> AtGain(plain[i], gain)]
    BY <1>1, <1>2, <1>5 DEF Levelled, AtGain
  <2>2. IsSequence(music) /\ DOMAIN music = DOMAIN plain
        /\ \A k \in DOMAIN plain : music[k] = AtGain(plain[k], gain)
    BY <1>8, <2>1 DEF IsSequence
  <2>3. ASSUME NEW k \in DOMAIN plain
        PROVE  audioKey(music[k]) = audioKey(plain[k]) /\ Own(p, f, "music", music[k])
    BY <1>8, <2>2, KeyAtGain
  <2>4. QED
    BY <1>8, <2>2, <2>3 DEF Keyed
<1>10. ASSUME NEW k, NEW l, NEW name, NEW other,
              Own(p, f, name, k), Own(p, f, other, l), name # other
       PROVE  audioKey(k) # audioKey(l)
  <2>1. k.role = name /\ l.role = other
    BY <1>10, OwnSounds
  <2>2. QED
    BY <1>10, <2>1 DEF audioKey
<1>11. PICK both : both = dialogue \o music
  OBVIOUS
<1>12. /\ IsSequence(both) /\ Keyed(both)
       /\ \A k \in DOMAIN both : Own(p, f, "dialogue", both[k]) \/ Own(p, f, "music", both[k])
  <2>1. \A k \in DOMAIN dialogue, l \in DOMAIN music : audioKey(dialogue[k]) # audioKey(music[l])
    BY <1>6, <1>9, <1>10
  <2>2. IsSequence(both)
    BY <1>6, <1>9, <1>11, Joined
  <2>3. QED
    BY <1>6, <1>9, <1>11, <2>1, <2>2, JoinedKeyed
<1>13. \A k \in DOMAIN both, l \in DOMAIN sfx : audioKey(both[k]) # audioKey(sfx[l])
  BY <1>7, <1>10, <1>12
<1>14. PICK all : all = both \o sfx
  OBVIOUS
<1>15. Keyed(all) /\ \A k \in DOMAIN all : \E name : Own(p, f, name, all[k])
  <2>1. Keyed(all)
    BY <1>7, <1>12, <1>13, <1>14, JoinedKeyed
  <2>2. ASSUME NEW k \in DOMAIN all PROVE \E name : Own(p, f, name, all[k])
    <3>1. \/ \E j \in DOMAIN both : all[k] = both[j]
          \/ \E j \in DOMAIN sfx : all[k] = sfx[j]
      BY <1>7, <1>12, <1>13, <1>14, JoinedKeyed
    <3>2. QED
      BY <1>7, <1>12, <3>1
  <2>3. QED
    BY <2>1, <2>2
<1>16. QED
  BY <1>3, <1>11, <1>14, <1>15

\* The two roles of a transition.
LEMMA FadeRoles ==
  ASSUME NEW p \in Plans, freezeSnapshot(p), NEW f \in Nat, Fading(p, f)
  PROVE  /\ Keyed(Roles(p, f))
         /\ \A role \in ToSet(Roles(p, f)) : \E i \in DOMAIN p.occurrences : Sounds(p, f, i, role)
<1>1. PICK time, i : time = outputTime(f, p.rate) /\ i = TransitionIndex(p, time)
  OBVIOUS
<1>2. /\ i \in Nat /\ i \in DOMAIN p.occurrences /\ i + 1 \in DOMAIN p.occurrences
      /\ p.fixture = "L"
  BY <1>1, TransitionPlace, AcceptedTransitions DEF Fading
<1>3. PICK tr, ch : tr = p.occurrences[i] /\ ch = p.occurrences[i + 1]
  OBVIOUS
<1>4. PICK progress : progress = clamp(ratioNumber(subtract(time, tr.outputRange.start),
                                                   tr.outputRange.duration))
  OBVIOUS
<1>5. progress \in Time
  <2>1. /\ time \in Time /\ tr.outputRange.start \in Time /\ tr.outputRange.duration \in Time
    BY <1>1, <1>2, <1>3, PlanFacts DEF Clip, TimeRange
  <2>2. tr.outputRange.duration.ticks \in Positive
    <3>1. ValidRange(p, tr)
      BY <1>2, <1>3 DEF freezeSnapshot, validateManifestMeaning, validateOccurrences
    <3>2. QED
      BY <2>1, <3>1, TimeParts DEF ValidRange, Positive
  <2>3. PICK d \in Positive : \E na, nb, nc, ne, nf, ng \in Int :
            Six(time, tr.outputRange.start, tr.outputRange.duration, time, time, time,
                na, nb, nc, ne, nf, ng, d)
    BY <2>1, SixTimes
  <2>4. PICK n \in Int, s \in Int, l \in Int :
            /\ Val(time, n, d) /\ Val(tr.outputRange.start, s, d)
            /\ Val(tr.outputRange.duration, l, d)
    BY <2>3 DEF Six
  <2>5. l \in Positive
    BY <2>1, <2>2, <2>4, TicksSign DEF Positive
  <2>6. PICK e : e = subtract(time, tr.outputRange.start)
    OBVIOUS
  <2>7. e \in Time /\ Val(e, n - s, d)
    BY <2>1, <2>4, <2>6, SumVal
  <2>8. /\ ratioNumber(e, tr.outputRange.duration) \in Time
        /\ Val(ratioNumber(e, tr.outputRange.duration), n - s, l)
    <3>1. PICK q, k : q = tr.outputRange.duration /\ k = n - s
      OBVIOUS
    <3>2. q \in Time /\ k \in Int /\ Val(q, l, d) /\ Val(e, k, d)
      BY <2>1, <2>4, <2>7, <3>1
    <3>3. ratioNumber(e, q) \in Time /\ Val(ratioNumber(e, q), k, l)
      BY <2>5, <2>7, <3>2, RatioVal
    <3>4. QED
      BY <3>1, <3>3
  <2>9. clamp(ratioNumber(e, tr.outputRange.duration)) \in Time
    BY <2>5, <2>8, ClampVal
  <2>10. QED
    BY <1>4, <2>6, <2>9
<1>6. PICK outgoing, incoming :
         /\ outgoing = [layerFor(p, tr, f, time) EXCEPT
                           !.role = "transition-outgoing", !.gain = subtract(One, progress)]
         /\ incoming = [occurrenceId |-> ch.id, sourceId |-> ch.sourceId,
               role |-> "transition-incoming", retime |-> [num |-> 1, den |-> 1],
               sourceTime |-> add(incomingHandle(ch, tr).start, subtract(time, tr.outputRange.start)),
               localFrame |-> 0, gain |-> progress]
  OBVIOUS
<1>7. Roles(p, f) = <<outgoing, incoming>>
  BY <1>1, <1>3, <1>4, <1>6, RolesOfFrame DEF Roles, lTransition
<1>8. One \in Time
  BY DEF One, Time, Positive
<1>9. subtract(One, progress) \in Time
  BY <1>5, <1>8, TimesClosed
<1>10. Sounds(p, f, i, outgoing) /\ outgoing.role = "transition-outgoing"
  <2>1. /\ outgoing.occurrenceId = tr.id /\ outgoing.gain = subtract(One, progress)
        /\ outgoing.role = "transition-outgoing" /\ outgoing.retime = tr.retimeFactor
        /\ outgoing.sourceTime = layerFor(p, tr, f, time).sourceTime
    BY <1>6 DEF layerFor
  <2>2. QED
    BY <1>1, <1>2, <1>3, <1>9, <2>1 DEF Sounds
<1>11. Sounds(p, f, i + 1, incoming) /\ incoming.role = "transition-incoming"
  <2>1. (i + 1) - 1 = i
    BY <1>2
  <2>2. /\ incoming.occurrenceId = ch.id /\ incoming.gain = progress
        /\ incoming.role = "transition-incoming" /\ incoming.retime = [num |-> 1, den |-> 1]
        /\ incoming.sourceTime = add(incomingHandle(ch, tr).start, subtract(time, tr.outputRange.start))
    BY <1>6
  <2>3. QED
    BY <1>1, <1>2, <1>3, <1>5, <2>1, <2>2 DEF Sounds
<1>12. audioKey(outgoing) # audioKey(incoming)
  BY <1>10, <1>11 DEF audioKey
<1>13. QED
  <2>1. PICK roles : roles = <<outgoing, incoming>>
    OBVIOUS
  <2>2. DOMAIN roles = {1, 2} /\ roles[1] = outgoing /\ roles[2] = incoming
    BY <2>1
  <2>3. Keyed(roles)
    BY <1>12, <2>2 DEF Keyed
  <2>4. \A role \in ToSet(roles) : \E j \in DOMAIN p.occurrences : Sounds(p, f, j, role)
    BY <1>2, <1>10, <1>11, <2>2 DEF ToSet
  <2>5. QED
    BY <1>7, <2>1, <2>3, <2>4

\* The roles of every frame of an accepted plan that does not throw.
LEMMA RolesSound ==
  ASSUME NEW p \in Plans, freezeSnapshot(p), NEW f \in Nat, ~frameThrows(p, f)
  PROVE  /\ IsSequence(Roles(p, f)) /\ Keyed(Roles(p, f))
         /\ \A role \in ToSet(Roles(p, f)) : \E i \in DOMAIN p.occurrences : Sounds(p, f, i, role)
<1>1. p.fixture \in {"M", "T", "L"} /\ IsSequence(Roles(p, f))
  BY PlanFacts, RolesInSequence DEF Roles
<1>2. CASE p.fixture = "M"
  <2>1. Roles(p, f) = <<>>
    BY <1>2, RolesOfFrame DEF Roles
  <2>2. DOMAIN Roles(p, f) = {}
    BY <2>1
  <2>3. QED
    BY <1>1, <2>2 DEF Keyed, ToSet
<1>3. CASE p.fixture = "T"
  BY <1>1, <1>3, TalkRoles, OwnSounds DEF ToSet
<1>4. CASE Fading(p, f)
  BY <1>1, <1>4, FadeRoles
<1>5. CASE p.fixture = "L" /\ ~Fading(p, f)
  <2>0. PICK i \in DOMAIN p.occurrences : i = ChapterPlace(p, f)
    BY <1>5, RolesOfFrame DEF InTime
  <2>1. PICK role :
            /\ role = [layerFor(p, p.occurrences[i], f, outputTime(f, p.rate)) EXCEPT !.gain = One]
            /\ Roles(p, f) = <<role>>
    BY <1>5, <2>0, RolesOfFrame DEF Roles
  <2>2. One \in Time
    BY DEF One, Time, Positive
  <2>3. Own(p, f, p.occurrences[i].role, role)
    BY <2>1, <2>2 DEF Own
  <2>4. ToSet(Roles(p, f)) = {role} /\ DOMAIN Roles(p, f) = {1}
    BY <2>1 DEF ToSet
  <2>5. QED
    BY <1>1, <2>3, <2>4, OwnSounds DEF Keyed
<1>6. QED
  BY <1>1, <1>2, <1>3, <1>4, <1>5

\* Equal times are the same quotient.
LEMMA EqualVal ==
  ASSUME NEW x \in Time, NEW y \in Time, compare(x, y) = 0,
         NEW n \in Int, NEW d \in Positive, Val(y, n, d)
  PROVE  Val(x, n, d)
<1>1. PICK i \in Int, j \in Int, l \in Int, o \in Positive :
         i = x.ticks /\ j = x.timescale /\ l = y.ticks /\ o = y.timescale
  BY DEF Time, Positive
<1>2. o # 0 /\ d \in Int /\ o \in Int
  BY DEF Positive
<1>3. (i * o) - (l * j) = 0 /\ l * d = n * o
  BY <1>1 DEF compare, Val
<1>4. (i * d) * o = (n * j) * o
  <2>1. i * o = l * j
    BY <1>2, <1>3
  <2>2. (i * d) * o = (i * o) * d /\ (n * j) * o = (n * o) * j /\ (l * j) * d = (l * d) * j
    BY <1>2
  <2>3. QED
    BY <1>3, <2>1, <2>2
<1>5. i * d \in Int /\ n * j \in Int
  BY <1>2
<1>6. i * d = n * j
  BY <1>2, <1>4, <1>5, Cancel
<1>7. QED
  BY <1>1, <1>6 DEF Val

\* What lies between a frame and the next is one frame, over any denominator.
LEMMA FrameStep ==
  ASSUME NEW f \in Nat, NEW rate \in Rate, NEW n \in Int, NEW m \in Int, NEW d \in Positive,
         Val(outputTime(f, rate), n, d), Val(outputTime(f + 1, rate), m, d)
  PROVE  /\ m - n \in Positive /\ outputTime(1, rate) \in Time
         /\ Val(outputTime(1, rate), m - n, d)
<1>1. /\ outputTime(f, rate) \in Time /\ outputTime(f + 1, rate) \in Time
      /\ outputTime(1, rate) \in Time
  BY FrameTime
<1>2. PICK apart : apart = subtract(outputTime(f + 1, rate), outputTime(f, rate))
  OBVIOUS
<1>3. apart \in Time /\ Val(apart, m - n, d)
  BY <1>1, <1>2, SumVal
<1>4. compare(outputTime(1, rate), apart) = 0
  <2>1. f + 1 \in Nat /\ (f + 1) - 1 = f
    OBVIOUS
  <2>2. QED
    BY <1>2, <2>1, FrameApart
<1>5. Val(outputTime(1, rate), m - n, d)
  BY <1>1, <1>3, <1>4, EqualVal
<1>6. n < m
  <2>1. compare(outputTime(f, rate), outputTime(f + 1, rate)) < 0
    BY FramesInOrder
  <2>2. QED
    BY <1>1, <2>1, CompareVal
<1>7. QED
  BY <1>1, <1>5, <1>6 DEF Positive

\* A distance of k frames' worth per l is the rate k over l.
LEMMA RateVal ==
  ASSUME NEW x \in Time, NEW y \in Time, NEW z \in Positive, NEW d \in Positive,
         NEW k \in Positive, NEW l \in Positive, Val(x, z * k, d * l), Val(y, z, d)
  PROVE  compare(ratioNumber(x, y), reduced(k, l)) = 0
<1>1. z \in Int /\ k \in Int /\ l \in Int /\ z * k \in Int /\ k * z = z * k /\ l * z = z * l
  BY DEF Positive
<1>2. Val(y, z * l, d * l) /\ d * l \in Positive /\ z * l \in Positive
  BY <1>1, Scaled, Products
<1>3. ratioNumber(x, y) \in Time /\ Val(ratioNumber(x, y), z * k, z * l)
  BY <1>1, <1>2, RatioVal
<1>4. reduced(k, l) \in Time /\ Val(reduced(k, l), k, l)
  BY <1>1, ReducedVal
<1>5. Val(reduced(k, l), k * z, l * z)
  BY <1>1, <1>4, Scaled
<1>6. QED
  BY <1>1, <1>2, <1>3, <1>4, <1>5, CompareVal

\* Between two frames a role moves through its source at its rate.
LEMMA RateOfRole ==
  ASSUME NEW p \in Plans, freezeSnapshot(p), NEW f \in Nat, NEW i, NEW j, NEW a, NEW b,
         Sounds(p, f, i, a), Sounds(p, f + 1, j, b), audioKey(a) = audioKey(b),
         \A o \in ToSet(p.occurrences) : o.id = a.occurrenceId => ~Still(o)
  PROVE  compare(ratioNumber(subtract(b.sourceTime, a.sourceTime), outputTime(1, p.rate)),
                 reduced(a.retime.num, a.retime.den)) = 0
<1>1. a.occurrenceId = b.occurrenceId /\ a.role = b.role
  BY DEF audioKey
<1>2. i = j /\ i \in DOMAIN p.occurrences
  BY <1>1, AcceptedOccurrences DEF Sounds
<1>3. PICK o : o = p.occurrences[i]
  OBVIOUS
<1>4. Clip(o) /\ ~Still(o)
  BY <1>2, <1>3, PlanFacts DEF Sounds, ToSet
<1>5. PICK t, u : t = outputTime(f, p.rate) /\ u = outputTime(f + 1, p.rate)
  OBVIOUS
<1>6. t \in Time /\ u \in Time /\ p.rate \in Rate
  BY <1>5, PlanFacts
<1>7. CASE a.role # "transition-incoming"
  <2>1. a.retime = o.retimeFactor /\ a.sourceTime = At(o, t) /\ b.sourceTime = At(o, u)
    <3>1. /\ a.retime = o.retimeFactor
          /\ a.sourceTime = layerFor(p, o, f, t).sourceTime
          /\ b.sourceTime = layerFor(p, o, f + 1, u).sourceTime
      BY <1>1, <1>2, <1>3, <1>5, <1>7 DEF Sounds
    <3>2. \A g, w : layerFor(p, o, g, w).sourceTime = At(o, w)
      BY <1>4 DEF layerFor, Still, At
    <3>3. QED
      BY <3>1, <3>2
  <2>2. PICK s, c, q : s = o.outputRange.start /\ c = o.sourceRange.start /\ q = o.retimeFactor
    OBVIOUS
  <2>3. s \in Time /\ c \in Time /\ q \in Rate
    BY <1>4, <2>2 DEF Clip, TimeRange
  <2>4. PICK k \in Positive, l \in Positive : k = q.num /\ l = q.den
    BY <2>3 DEF Rate
  <2>5. PICK d \in Positive : \E na, nb, nc, ne, nf, ng \in Int :
            Six(s, c, t, u, t, t, na, nb, nc, ne, nf, ng, d)
    BY <1>6, <2>3, SixTimes
  <2>6. PICK e \in Int, h \in Int, n \in Int, m \in Int :
            Val(s, e, d) /\ Val(c, h, d) /\ Val(t, n, d) /\ Val(u, m, d)
    BY <2>5 DEF Six
  <2>7. d * l \in Positive /\ k \in Int /\ l \in Int /\ h * l \in Int /\ Val(c, h * l, d * l)
    BY <2>3, <2>4, <2>6, Scaled, Products
  <2>8. ASSUME NEW w \in Time, NEW r \in Int, Val(w, r, d)
        PROVE  At(o, w) \in Time /\ Val(At(o, w), (h * l) + ((r - e) * k), d * l)
    <3>1. PICK v : v = subtract(w, s)
      OBVIOUS
    <3>2. v \in Time /\ Val(v, r - e, d) /\ r - e \in Int
      BY <2>3, <2>6, <2>8, <3>1, SumVal
    <3>3. PICK x : x = multiply(v, q)
      OBVIOUS
    <3>4. x \in Time /\ Val(x, (r - e) * k, d * l) /\ (r - e) * k \in Int
      BY <2>3, <2>4, <2>7, <3>2, <3>3, ProductVal
    <3>5. add(c, x) \in Time /\ Val(add(c, x), (h * l) + ((r - e) * k), d * l)
      BY <2>3, <2>7, <3>4, SumVal
    <3>6. At(o, w) = add(c, x)
      BY <2>2, <3>1, <3>3 DEF At
    <3>7. QED
      BY <3>5, <3>6
  <2>9. PICK z \in Positive : z = m - n /\ Val(outputTime(1, p.rate), z, d)
                             /\ outputTime(1, p.rate) \in Time
    BY <1>5, <1>6, <2>6, FrameStep
  <2>10. PICK x, y : x = At(o, t) /\ y = At(o, u)
    OBVIOUS
  <2>11. PICK v \in Int, w \in Int : v = (h * l) + ((n - e) * k) /\ w = (h * l) + ((m - e) * k)
    BY <2>7
  <2>12. x \in Time /\ y \in Time /\ Val(x, v, d * l) /\ Val(y, w, d * l)
    BY <1>6, <2>6, <2>8, <2>10, <2>11
  <2>13. w - v = z * k
    BY <2>7, <2>9, <2>11
  <2>14. subtract(y, x) \in Time /\ Val(subtract(y, x), z * k, d * l)
    <3>1. \A b1, b2 \in Int, dd \in Positive : Val(x, b1, dd) /\ Val(y, b2, dd) =>
             subtract(y, x) \in Time /\ Val(subtract(y, x), b2 - b1, dd)
      BY <2>12, SumVal
    <3>2. subtract(y, x) \in Time /\ Val(subtract(y, x), w - v, d * l)
      BY <2>7, <2>11, <2>12, <3>1
    <3>3. QED
      BY <2>13, <3>2
  <2>15. compare(ratioNumber(subtract(y, x), outputTime(1, p.rate)), reduced(k, l)) = 0
    <3>1. PICK g, one : g = subtract(y, x) /\ one = outputTime(1, p.rate)
      OBVIOUS
    <3>2. g \in Time /\ one \in Time /\ Val(g, z * k, d * l) /\ Val(one, z, d)
      BY <2>9, <2>14, <3>1
    <3>3. compare(ratioNumber(g, one), reduced(k, l)) = 0
      BY <3>2, RateVal
    <3>4. QED
      BY <3>1, <3>3
  <2>16. QED
    BY <2>1, <2>2, <2>4, <2>10, <2>15
<1>8. CASE a.role = "transition-incoming"
  <2>1. i - 1 \in DOMAIN p.occurrences
    BY <1>8 DEF Sounds
  <2>2. PICK tr : tr = p.occurrences[i - 1]
    OBVIOUS
  <2>3. PICK h, s : h = incomingHandle(o, tr).start /\ s = tr.outputRange.start
    OBVIOUS
  <2>4. /\ a.retime = [num |-> 1, den |-> 1]
        /\ a.sourceTime = add(h, subtract(t, s)) /\ b.sourceTime = add(h, subtract(u, s))
    BY <1>1, <1>2, <1>3, <1>5, <1>8, <2>2, <2>3 DEF Sounds
  <2>5. h \in Time /\ s \in Time
    <3>1. Clip(tr)
      BY <2>1, <2>2, PlanFacts
    <3>2. multiply(tr.outputRange.duration, Half) \in Time
      BY <3>1, HalfRate, TimesClosed DEF Clip, TimeRange
    <3>3. subtract(o.sourceRange.start, multiply(tr.outputRange.duration, Half)) \in Time
      BY <1>4, <3>2, TimesClosed DEF Clip, TimeRange
    <3>4. h = subtract(o.sourceRange.start, multiply(tr.outputRange.duration, Half))
      BY <2>3 DEF incomingHandle
    <3>5. QED
      BY <2>3, <3>1, <3>3, <3>4 DEF Clip, TimeRange
  <2>6. PICK d \in Positive : \E na, nb, nc, ne, nf, ng \in Int :
            Six(s, h, t, u, t, t, na, nb, nc, ne, nf, ng, d)
    BY <1>6, <2>5, SixTimes
  <2>7. PICK e \in Int, c \in Int, n \in Int, m \in Int :
            Val(s, e, d) /\ Val(h, c, d) /\ Val(t, n, d) /\ Val(u, m, d)
    BY <2>6 DEF Six
  <2>8. PICK z \in Positive : z = m - n /\ Val(outputTime(1, p.rate), z, d)
                             /\ outputTime(1, p.rate) \in Time
    BY <1>5, <1>6, <2>7, FrameStep
  <2>9. PICK x, y : x = subtract(t, s) /\ y = subtract(u, s)
    OBVIOUS
  <2>10. x \in Time /\ y \in Time /\ Val(x, n - e, d) /\ Val(y, m - e, d)
    BY <1>6, <2>5, <2>7, <2>9, SumVal
  <2>11. PICK v, w : v = add(h, x) /\ w = add(h, y)
    OBVIOUS
  <2>12. v \in Time /\ w \in Time /\ Val(v, c + (n - e), d) /\ Val(w, c + (m - e), d)
    BY <2>5, <2>7, <2>10, <2>11, SumVal
  <2>13. /\ subtract(w, v) \in Time
         /\ Val(subtract(w, v), (c + (m - e)) - (c + (n - e)), d)
    BY <2>7, <2>12, SumVal
  <2>14. (c + (m - e)) - (c + (n - e)) = z * 1 /\ d * 1 = d /\ 1 \in Positive
    BY <2>7, <2>8 DEF Positive
  <2>15. compare(ratioNumber(subtract(w, v), outputTime(1, p.rate)), reduced(1, 1)) = 0
    <3>1. PICK g, one : g = subtract(w, v) /\ one = outputTime(1, p.rate)
      OBVIOUS
    <3>2. g \in Time /\ one \in Time /\ Val(g, z * 1, d * 1) /\ Val(one, z, d)
      BY <2>8, <2>13, <2>14, <3>1
    <3>3. compare(ratioNumber(g, one), reduced(1, 1)) = 0
      BY <2>14, <3>2, RateVal
    <3>4. QED
      BY <3>1, <3>3
  <2>16. QED
    BY <2>4, <2>9, <2>11, <2>15
<1>9. QED
  BY <1>7, <1>8

(***************************************************************************)
(* The runs of the frames scanned so far.                                  *)
(***************************************************************************)
Start(r)    == r.frames[1].frame
Plays(r, f) == f \in Start(r) .. r.endFrame - 1

\* What a run records: the role of its key in each of its frames, which follow on
\* each other up to its end.
Records(p, r) ==
    /\ RunShape(r) /\ IsSequence(r.frames) /\ Len(r.frames) > 0 /\ Start(r) \in Nat
    /\ r.endFrame = Start(r) + Len(r.frames)
    /\ r.first \in ToSet(Roles(p, Start(r))) /\ audioKey(r.first) = r.key
    /\ \A k \in DOMAIN r.frames : \E role \in ToSet(Roles(p, Start(r) + k - 1)) :
           audioKey(role) = r.key /\ r.frames[k] = Sample(Start(r) + k - 1, role)

\* Every role of the frames before n is in a run of its key, and in one only.
RunsSoFar(p, rs, n) ==
    /\ IsSequence(rs)
    /\ \A i \in DOMAIN rs : Records(p, rs[i]) /\ rs[i].endFrame <= n
    /\ \A f \in 0 .. n - 1 : \A role \in ToSet(Roles(p, f)) :
           \E i \in DOMAIN rs : rs[i].key = audioKey(role) /\ Plays(rs[i], f)
    /\ \A i, j \in DOMAIN rs : \A f \in 0 .. n - 1 :
           rs[i].key = rs[j].key /\ Plays(rs[i], f) /\ Plays(rs[j], f) => i = j

\* What recordAudioFrame makes of a role: the run it starts, or the one it goes on with.
Fresh(f, role)       == Run(audioKey(role), role, f + 1, <<Sample(f, role)>>)
Extended(r, f, role) == Run(r.key, r.first, f + 1, Append(r.frames, Sample(f, role)))

\* Every run of rs goes on with its role or stays as it is, and every other role
\* starts one run of its own.
Recording(recorded, rs, f, roles) ==
    /\ IsSequence(recorded)
    /\ \A i \in DOMAIN rs : i \in DOMAIN recorded /\
          \/ recorded[i] = rs[i] /\ \A k \in DOMAIN roles : i \notin prior(rs, f, roles[k])
          \/ \E k \in DOMAIN roles :
                i \in prior(rs, f, roles[k]) /\ recorded[i] = Extended(rs[i], f, roles[k])
    /\ \A j \in DOMAIN recorded \ DOMAIN rs : \E k \in DOMAIN roles :
          prior(rs, f, roles[k]) = {} /\ recorded[j] = Fresh(f, roles[k])
    /\ \A k \in DOMAIN roles : prior(rs, f, roles[k]) = {} =>
          \E j \in DOMAIN recorded \ DOMAIN rs : recorded[j] = Fresh(f, roles[k])
    /\ \A j, l \in DOMAIN recorded \ DOMAIN rs :
          recorded[j].key = recorded[l].key => j = l

AtMostOne(S) == \A i, j \in S : i = j

\* What recordAudioFrame does if a role goes on with at most one run.
LEMMA Recorded ==
  ASSUME NEW rs, IsSequence(rs), \A i \in DOMAIN rs : RunShape(rs[i]), NEW f \in Nat,
         NEW roles, IsSequence(roles), Keyed(roles),
         \A k \in DOMAIN roles : AtMostOne(prior(rs, f, roles[k]))
  PROVE  Recording(recordAudioFrame(rs, f, roles), rs, f, roles)
<1>0. PICK recorded : recorded = recordAudioFrame(rs, f, roles)
  OBVIOUS
<1> DEFINE goesOn(i) == { k \in DOMAIN roles :
                            i \in prior(rs, f, roles[k]) /\ i = Max(prior(rs, f, roles[k])) }
           new      == { k \in DOMAIN roles : prior(rs, f, roles[k]) = {} }
           starting == filtered(roles, new)
           old      == [i \in DOMAIN rs |->
                          IF goesOn(i) = {} THEN rs[i]
                          ELSE [rs[i] EXCEPT !.endFrame = f + 1,
                                  !.frames = Append(@, Sample(f, roles[Min(goesOn(i))]))]]
           fresh    == [k \in DOMAIN starting |->
                          [key |-> audioKey(starting[k]), first |-> starting[k],
                           endFrame |-> f + 1, frames |-> <<Sample(f, starting[k])>>]]
<1>1. recorded = old \o fresh
  BY <1>0 DEF recordAudioFrame
<1>2. DOMAIN rs \in SUBSET Nat /\ DOMAIN roles \in SUBSET Nat
  BY DEF IsSequence
<1>3. \A k \in DOMAIN roles : prior(rs, f, roles[k]) \in SUBSET DOMAIN rs
  BY DEF prior
<1>4. ASSUME NEW k \in DOMAIN roles, NEW i \in prior(rs, f, roles[k])
      PROVE  i = Max(prior(rs, f, roles[k]))
  <2>1. i \in Nat /\ i >= i
    BY <1>2, <1>3
  <2>2. prior(rs, f, roles[k]) = {i}
    BY DEF AtMostOne
  <2>3. Max({i}) = i
    BY <2>1 DEF Max
  <2>4. QED
    BY <2>2, <2>3
<1>5. \A i \in DOMAIN rs : goesOn(i) = { k \in DOMAIN roles : i \in prior(rs, f, roles[k]) }
  BY <1>4
<1>6. ASSUME NEW i \in DOMAIN rs
      PROVE  \/ old[i] = rs[i] /\ \A k \in DOMAIN roles : i \notin prior(rs, f, roles[k])
             \/ \E k \in DOMAIN roles :
                   i \in prior(rs, f, roles[k]) /\ old[i] = Extended(rs[i], f, roles[k])
  <2>1. CASE goesOn(i) = {}
    BY <1>5, <2>1
  <2>2. CASE goesOn(i) # {}
    <3>1. goesOn(i) \in SUBSET Nat
      BY <1>2
    <3>2. PICK k : k = Min(goesOn(i))
      OBVIOUS
    <3>3. k \in goesOn(i)
      <4> HIDE DEF goesOn
      <4> QED
        BY <2>2, <3>1, <3>2, LeastMember
    <3>4. PICK r, s : r = rs[i] /\ s = Append(r.frames, Sample(f, roles[k]))
      OBVIOUS
    <3>5. r = Run(r.key, r.first, r.endFrame, r.frames)
      BY <3>4 DEF RunShape
    <3>6. old[i] = [r EXCEPT !.endFrame = f + 1, !.frames = s]
      <4> HIDE DEF goesOn
      <4> QED
        BY <2>2, <3>2, <3>4
    <3>7. old[i] = Extended(r, f, roles[k])
      BY <3>4, <3>5, <3>6 DEF Extended, Run
    <3>8. k \in DOMAIN roles /\ i \in prior(rs, f, roles[k])
      BY <3>3
    <3> HIDE DEF old
    <3>9. QED
      BY <3>4, <3>7, <3>8
  <2>3. QED
    BY <2>1, <2>2
<1>7. Holds(starting, roles, new)
  <2>1. new \in SUBSET DOMAIN roles
    OBVIOUS
  <2> HIDE DEF new
  <2>2. QED
    BY <2>1, Filtered
<1>8. \A k \in new : k \in DOMAIN roles /\ prior(rs, f, roles[k]) = {}
  OBVIOUS
<1>9. \A k \in DOMAIN roles : prior(rs, f, roles[k]) = {} => k \in new
  OBVIOUS
<1>10. IsSequence(old) /\ DOMAIN old = DOMAIN rs /\ Len(old) = Len(rs)
  BY DEF IsSequence
<1> HIDE DEF new, starting, old
<1>11. IsSequence(fresh) /\ DOMAIN fresh = DOMAIN starting
  BY <1>7 DEF Holds, IsSequence
<1>12. \A k \in DOMAIN starting : fresh[k] = Fresh(f, starting[k])
  BY DEF Fresh, Run
<1> HIDE DEF fresh
<1>13. ASSUME NEW m \in DOMAIN fresh
       PROVE  \E k \in new : /\ fresh[m] = Fresh(f, roles[k])
                             /\ Cardinality(new \cap 1 .. k) = m
  <2>1. starting[m] = roles[nth(new, m)] /\ nth(new, m) \in new
        /\ Cardinality(new \cap 1 .. nth(new, m)) = m
    BY <1>7, <1>11 DEF Holds
  <2>2. QED
    BY <1>11, <1>12, <2>1
<1>14. ASSUME NEW k \in new
       PROVE  \E m \in DOMAIN fresh : fresh[m] = Fresh(f, roles[k])
  <2>1. PICK m : m = Cardinality(new \cap 1 .. k)
    OBVIOUS
  <2>2. m \in DOMAIN starting /\ nth(new, m) = k
    BY <1>7, <2>1 DEF Holds
  <2>3. starting[m] = roles[k]
    BY <1>7, <2>2 DEF Holds
  <2>4. QED
    BY <1>11, <1>12, <2>2, <2>3
<1>15. /\ IsSequence(recorded)
       /\ \A i \in DOMAIN rs : i \in DOMAIN recorded /\ recorded[i] = old[i]
       /\ \A m \in DOMAIN fresh : Len(rs) + m \in DOMAIN recorded /\ recorded[Len(rs) + m] = fresh[m]
  BY <1>1, <1>10, <1>11, Joined
<1>16. \A j \in DOMAIN recorded \ DOMAIN rs : \E m \in DOMAIN fresh : j = Len(rs) + m
  <2>1. /\ DOMAIN recorded = 1 .. (Len(rs) + Len(fresh)) /\ DOMAIN rs = 1 .. Len(rs)
        /\ Len(rs) \in Nat /\ Len(fresh) \in Nat /\ DOMAIN fresh = 1 .. Len(fresh)
    <3>1. Len(old \o fresh) = Len(old) + Len(fresh)
      BY <1>10, <1>11, Joined
    <3>2. Len(recorded) = Len(old) + Len(fresh)
      BY <1>1, <3>1
    <3>3. QED
      BY <1>10, <1>11, <1>15, <3>2 DEF IsSequence
  <2>2. ASSUME NEW j \in DOMAIN recorded \ DOMAIN rs PROVE \E m \in DOMAIN fresh : j = Len(rs) + m
    <3>1. j - Len(rs) \in DOMAIN fresh /\ j = Len(rs) + (j - Len(rs))
      BY <2>1
    <3>2. QED
      BY <3>1
  <2>3. QED
    BY <2>2
<1>17. \A m \in DOMAIN fresh : Len(rs) + m \notin DOMAIN rs
  BY <1>11, <1>7 DEF IsSequence, Holds
<1>18. ASSUME NEW j \in DOMAIN recorded \ DOMAIN rs, NEW l \in DOMAIN recorded \ DOMAIN rs,
              recorded[j].key = recorded[l].key
       PROVE  j = l
  <2>1. PICK m \in DOMAIN fresh : j = Len(rs) + m
    BY <1>16
  <2>2. PICK o \in DOMAIN fresh : l = Len(rs) + o
    BY <1>16
  <2>3. PICK a \in new : fresh[m] = Fresh(f, roles[a]) /\ Cardinality(new \cap 1 .. a) = m
    BY <1>13
  <2>4. PICK b \in new : fresh[o] = Fresh(f, roles[b]) /\ Cardinality(new \cap 1 .. b) = o
    BY <1>13
  <2>5. recorded[j] = Fresh(f, roles[a]) /\ recorded[l] = Fresh(f, roles[b])
    BY <1>15, <2>1, <2>2, <2>3, <2>4
  <2>6. audioKey(roles[a]) = audioKey(roles[b])
    BY <1>18, <2>5 DEF Fresh, Run
  <2>7. a = b
    BY <1>8, <2>6 DEF Keyed
  <2>8. QED
    BY <2>1, <2>2, <2>3, <2>4, <2>7
<1>19. \A j \in DOMAIN recorded \ DOMAIN rs : \E k \in DOMAIN roles :
          prior(rs, f, roles[k]) = {} /\ recorded[j] = Fresh(f, roles[k])
  <2>1. \A m \in DOMAIN fresh : \E k \in DOMAIN roles :
           prior(rs, f, roles[k]) = {} /\ fresh[m] = Fresh(f, roles[k])
    BY <1>8, <1>13
  <2>2. QED
    BY <1>15, <1>16, <2>1
<1>20. \A k \in DOMAIN roles : prior(rs, f, roles[k]) = {} =>
          \E j \in DOMAIN recorded \ DOMAIN rs : recorded[j] = Fresh(f, roles[k])
  BY <1>9, <1>14, <1>15, <1>17
<1>21. \A i \in DOMAIN rs : i \in DOMAIN recorded /\
               \/ recorded[i] = rs[i] /\ \A k \in DOMAIN roles : i \notin prior(rs, f, roles[k])
               \/ \E k \in DOMAIN roles :
                     i \in prior(rs, f, roles[k]) /\ recorded[i] = Extended(rs[i], f, roles[k])
  BY <1>6, <1>15
<1>22. QED
  BY <1>0, <1>15, <1>18, <1>19, <1>20, <1>21 DEF Recording

\* A run that a role starts records its frame.
LEMMA FreshRecords ==
  ASSUME NEW p, NEW f \in Nat, NEW role \in ToSet(Roles(p, f)), NEW r, r = Fresh(f, role)
  PROVE  /\ Records(p, r) /\ r.key = audioKey(role) /\ r.endFrame = f + 1 /\ Start(r) = f
<1>1. PICK frames : frames = <<Sample(f, role)>>
  OBVIOUS
<1>2. IsSequence(frames) /\ Len(frames) = 1 /\ DOMAIN frames = {1} /\ frames[1] = Sample(f, role)
  BY <1>1 DEF IsSequence
<1>3. /\ r.key = audioKey(role) /\ r.first = role /\ r.endFrame = f + 1 /\ r.frames = frames
      /\ RunShape(r)
  BY <1>1 DEF Fresh, Run, RunShape
<1>4. Start(r) = f
  BY <1>2, <1>3 DEF Start, Sample
<1>5. \A k \in DOMAIN r.frames : \E x \in ToSet(Roles(p, Start(r) + k - 1)) :
          audioKey(x) = r.key /\ r.frames[k] = Sample(Start(r) + k - 1, x)
  <2>1. f + 1 - 1 = f
    OBVIOUS
  <2>2. QED
    BY <1>2, <1>3, <1>4, <2>1
<1>6. IsSequence(r.frames) /\ Len(r.frames) > 0 /\ r.endFrame = Start(r) + Len(r.frames)
  <2>1. IsSequence(r.frames) /\ Len(r.frames) = 1
    BY <1>2, <1>3
  <2>2. QED
    BY <1>3, <1>4, <2>1
<1>7. r.first \in ToSet(Roles(p, Start(r))) /\ audioKey(r.first) = r.key /\ Start(r) \in Nat
  BY <1>3, <1>4
<1>8. QED
  BY <1>3, <1>4, <1>5, <1>6, <1>7 DEF Records

\* A run goes on with the role of its key in the frame it ended before.
LEMMA ExtendedRecords ==
  ASSUME NEW p, NEW f \in Nat, NEW role \in ToSet(Roles(p, f)), NEW r, Records(p, r),
         r.endFrame = f, r.key = audioKey(role), NEW s, s = Extended(r, f, role)
  PROVE  /\ Records(p, s) /\ s.key = r.key /\ s.endFrame = f + 1 /\ Start(s) = Start(r)
<1>1. PICK frames, n : frames = Append(r.frames, Sample(f, role)) /\ n = Len(r.frames)
  OBVIOUS
<1>2. n \in Nat /\ n > 0 /\ DOMAIN r.frames = 1 .. n
  BY <1>1 DEF Records, IsSequence
<1>3. /\ IsSequence(frames) /\ Len(frames) = n + 1 /\ DOMAIN frames = 1 .. (n + 1)
      /\ frames[n + 1] = Sample(f, role) /\ \A k \in 1 .. n : frames[k] = r.frames[k]
  <2>1. DOMAIN frames = 1 .. (n + 1) /\ Len(frames) = n + 1
    BY <1>1, <1>2
  <2>2. frames[n + 1] = Sample(f, role) /\ \A k \in 1 .. n : frames[k] = r.frames[k]
    BY <1>1, <1>2
  <2>3. QED
    BY <1>2, <2>1, <2>2 DEF IsSequence
<1>4. /\ s.key = r.key /\ s.first = r.first /\ s.endFrame = f + 1 /\ s.frames = frames
      /\ RunShape(s)
  BY <1>1 DEF Extended, Run, RunShape
<1>5. Start(s) = Start(r)
  BY <1>2, <1>3, <1>4 DEF Start
<1>6. Start(r) \in Nat /\ f = Start(r) + n
  BY <1>1 DEF Records
<1>7. ASSUME NEW k \in DOMAIN frames
      PROVE  \E x \in ToSet(Roles(p, Start(r) + k - 1)) :
                 audioKey(x) = r.key /\ frames[k] = Sample(Start(r) + k - 1, x)
  <2>1. CASE k \in 1 .. n
    BY <1>2, <1>3, <2>1 DEF Records
  <2>2. CASE k = n + 1
    <3>1. Start(r) + k - 1 = f
      BY <1>2, <1>6, <2>2
    <3>2. QED
      BY <1>3, <2>2, <3>1
  <2>3. QED
    BY <1>2, <1>3, <2>1, <2>2
<1>8. s.endFrame = Start(s) + Len(s.frames)
  BY <1>2, <1>3, <1>4, <1>5, <1>6
<1>9. Len(s.frames) > 0 /\ IsSequence(s.frames)
  BY <1>2, <1>3, <1>4
<1>10. QED
  BY <1>4, <1>5, <1>6, <1>7, <1>8, <1>9 DEF Records

\* A role goes on with at most one run.
LEMMA OnePrior ==
  ASSUME NEW p, NEW rs, NEW n \in Nat, RunsSoFar(p, rs, n), NEW role
  PROVE  AtMostOne(prior(rs, n, role))
<1> SUFFICES ASSUME NEW i \in prior(rs, n, role), NEW j \in prior(rs, n, role) PROVE i = j
  BY DEF AtMostOne
<1>1. /\ i \in DOMAIN rs /\ j \in DOMAIN rs /\ rs[i].key = rs[j].key
      /\ rs[i].endFrame = n /\ rs[j].endFrame = n
  BY DEF prior
<1>2. \A k \in DOMAIN rs : rs[k].endFrame = n => n - 1 \in 0 .. n - 1 /\ Plays(rs[k], n - 1)
  <2> SUFFICES ASSUME NEW k \in DOMAIN rs, rs[k].endFrame = n
               PROVE  n - 1 \in 0 .. n - 1 /\ Plays(rs[k], n - 1)
    OBVIOUS
  <2>1. /\ Start(rs[k]) \in Nat /\ n = Start(rs[k]) + Len(rs[k].frames)
        /\ Len(rs[k].frames) \in Nat /\ Len(rs[k].frames) > 0
    BY DEF RunsSoFar, Records, IsSequence
  <2>2. QED
    BY <2>1 DEF Plays
<1>3. QED
  BY <1>1, <1>2 DEF RunsSoFar

\* Recording a frame records its roles, and keeps what was recorded.
LEMMA RunsStep ==
  ASSUME NEW p, NEW n \in Nat, NEW rs, RunsSoFar(p, rs, n),
         IsSequence(Roles(p, n)), Keyed(Roles(p, n)),
         NEW recorded, recorded = recordAudioFrame(rs, n, Roles(p, n))
  PROVE  RunsSoFar(p, recorded, n + 1)
<1>1. PICK roles : roles = Roles(p, n)
  OBVIOUS
<1>2. \A i \in DOMAIN rs : /\ Records(p, rs[i]) /\ RunShape(rs[i]) /\ Start(rs[i]) \in Nat
                          /\ rs[i].endFrame \in Int /\ rs[i].endFrame <= n
  BY DEF RunsSoFar, Records, IsSequence
<1>3. \A k \in DOMAIN roles : AtMostOne(prior(rs, n, roles[k]))
  BY OnePrior
<1>4. IsSequence(rs) /\ IsSequence(roles) /\ Keyed(roles)
  BY <1>1 DEF RunsSoFar
<1>5. Recording(recorded, rs, n, roles)
  <2>1. recorded = recordAudioFrame(rs, n, roles)
    BY <1>1
  <2>2. \A i \in DOMAIN rs : RunShape(rs[i])
    BY <1>2
  <2>3. QED
    BY <1>3, <1>4, <2>1, <2>2, Recorded
<1>6. \A k \in DOMAIN roles : roles[k] \in ToSet(Roles(p, n))
  BY <1>1 DEF ToSet
<1>7. ASSUME NEW i \in DOMAIN rs, NEW k \in DOMAIN roles, i \in prior(rs, n, roles[k]),
             recorded[i] = Extended(rs[i], n, roles[k])
      PROVE  /\ rs[i].key = audioKey(roles[k]) /\ rs[i].endFrame = n /\ Records(p, recorded[i])
             /\ recorded[i].key = rs[i].key /\ recorded[i].endFrame = n + 1
             /\ Start(recorded[i]) = Start(rs[i])
  <2>1. rs[i].key = audioKey(roles[k]) /\ rs[i].endFrame = n
    BY <1>7 DEF prior
  <2>2. QED
    BY <1>2, <1>6, <1>7, <2>1, ExtendedRecords
<1>8. ASSUME NEW j, NEW k \in DOMAIN roles, recorded[j] = Fresh(n, roles[k])
      PROVE  /\ Records(p, recorded[j]) /\ recorded[j].key = audioKey(roles[k])
             /\ recorded[j].endFrame = n + 1 /\ Start(recorded[j]) = n
  BY <1>6, <1>8, FreshRecords
<1>9. ASSUME NEW i \in DOMAIN rs
      PROVE  /\ i \in DOMAIN recorded /\ recorded[i].key = rs[i].key
             /\ Start(recorded[i]) = Start(rs[i]) /\ Records(p, recorded[i])
             /\ \/ recorded[i].endFrame = rs[i].endFrame
                \/ rs[i].endFrame = n /\ recorded[i].endFrame = n + 1
  BY <1>2, <1>5, <1>7 DEF Recording
<1>10. ASSUME NEW j \in DOMAIN recorded
       PROVE  Records(p, recorded[j]) /\ recorded[j].endFrame <= n + 1
  <2>1. CASE j \in DOMAIN rs
    <3>1. rs[j].endFrame \in Int /\ rs[j].endFrame <= n
      BY <1>2, <2>1
    <3>2. QED
      BY <1>9, <2>1, <3>1
  <2>2. CASE j \notin DOMAIN rs
    BY <1>5, <1>8, <2>2 DEF Recording
  <2>3. QED
    BY <2>1, <2>2
<1>11. ASSUME NEW i \in DOMAIN rs, NEW f \in 0 .. n - 1
       PROVE  Plays(recorded[i], f) <=> Plays(rs[i], f)
  BY <1>2, <1>9 DEF Plays
<1>12. ASSUME NEW f \in 0 .. n, NEW role \in ToSet(Roles(p, f))
       PROVE  \E i \in DOMAIN recorded : recorded[i].key = audioKey(role) /\ Plays(recorded[i], f)
  <2>1. CASE f # n
    <3>1. f \in 0 .. n - 1
      BY <2>1
    <3>2. PICK i \in DOMAIN rs : rs[i].key = audioKey(role) /\ Plays(rs[i], f)
      BY <3>1 DEF RunsSoFar
    <3>3. QED
      BY <1>9, <1>11, <3>1, <3>2
  <2>2. CASE f = n
    <3>1. PICK k \in DOMAIN roles : role = roles[k]
      BY <1>1, <2>2 DEF ToSet
    <3>2. CASE prior(rs, n, roles[k]) = {}
      <4>1. PICK j \in DOMAIN recorded \ DOMAIN rs : recorded[j] = Fresh(n, roles[k])
        BY <1>5, <3>2 DEF Recording
      <4>2. recorded[j].key = audioKey(role) /\ Plays(recorded[j], f)
        BY <1>8, <2>2, <3>1, <4>1 DEF Plays
      <4>3. QED
        BY <4>1, <4>2
    <3>3. CASE prior(rs, n, roles[k]) # {}
      <4>1. PICK i \in prior(rs, n, roles[k]) : TRUE
        BY <3>3
      <4>2. i \in DOMAIN rs /\ rs[i].key = audioKey(role)
        BY <3>1, <4>1 DEF prior
      <4>3. PICK l \in DOMAIN roles :
               i \in prior(rs, n, roles[l]) /\ recorded[i] = Extended(rs[i], n, roles[l])
        BY <1>5, <4>1, <4>2 DEF Recording
      <4>4. /\ recorded[i].key = rs[i].key /\ recorded[i].endFrame = n + 1
            /\ Start(recorded[i]) = Start(rs[i]) /\ rs[i].endFrame = n
        BY <1>7, <4>2, <4>3
      <4>5. Start(rs[i]) <= n
        BY <1>2, <4>2, <4>4 DEF Records, IsSequence
      <4>6. Plays(recorded[i], f)
        BY <1>2, <2>2, <4>2, <4>4, <4>5 DEF Plays
      <4>7. QED
        BY <1>9, <4>2, <4>4, <4>6
    <3>4. QED
      BY <3>2, <3>3
  <2>3. QED
    BY <2>1, <2>2
<1>13. ASSUME NEW i \in DOMAIN recorded, Plays(recorded[i], n)
       PROVE  \E k \in DOMAIN roles :
                 /\ recorded[i].key = audioKey(roles[k])
                 /\ \/ i \in DOMAIN rs /\ i \in prior(rs, n, roles[k])
                    \/ i \notin DOMAIN rs /\ prior(rs, n, roles[k]) = {}
  <2>1. CASE i \notin DOMAIN rs
    BY <1>5, <1>8, <2>1 DEF Recording
  <2>2. CASE i \in DOMAIN rs
    <3>1. recorded[i] # rs[i]
      <4>1. rs[i].endFrame \in Int /\ rs[i].endFrame <= n /\ Start(rs[i]) \in Nat
        BY <1>2, <2>2
      <4>2. QED
        BY <1>13, <4>1 DEF Plays
    <3>2. PICK k \in DOMAIN roles :
             i \in prior(rs, n, roles[k]) /\ recorded[i] = Extended(rs[i], n, roles[k])
      BY <1>5, <2>2, <3>1 DEF Recording
    <3>3. QED
      BY <1>7, <2>2, <3>2
  <2>3. QED
    BY <2>1, <2>2
<1>14. ASSUME NEW i \in DOMAIN recorded, NEW j \in DOMAIN recorded, NEW f \in 0 .. n,
              recorded[i].key = recorded[j].key, Plays(recorded[i], f), Plays(recorded[j], f)
       PROVE  i = j
  <2>1. CASE f # n
    <3>1. f \in 0 .. n - 1
      BY <2>1
    <3>2. \A l \in DOMAIN recorded \ DOMAIN rs : ~Plays(recorded[l], f)
      <4> SUFFICES ASSUME NEW l \in DOMAIN recorded \ DOMAIN rs PROVE ~Plays(recorded[l], f)
        OBVIOUS
      <4>1. Start(recorded[l]) = n /\ recorded[l].endFrame = n + 1
        BY <1>5, <1>8 DEF Recording
      <4>2. QED
        BY <3>1, <4>1 DEF Plays
    <3>3. i \in DOMAIN rs /\ j \in DOMAIN rs
      BY <1>14, <3>2
    <3>4. rs[i].key = rs[j].key /\ Plays(rs[i], f) /\ Plays(rs[j], f)
      BY <1>9, <1>11, <1>14, <3>1, <3>3
    <3>5. QED
      BY <3>1, <3>3, <3>4 DEF RunsSoFar
  <2>2. CASE f = n
    <3>1. PICK k \in DOMAIN roles :
                 /\ recorded[i].key = audioKey(roles[k])
                 /\ \/ i \in DOMAIN rs /\ i \in prior(rs, n, roles[k])
                    \/ i \notin DOMAIN rs /\ prior(rs, n, roles[k]) = {}
      BY <1>13, <1>14, <2>2
    <3>2. PICK l \in DOMAIN roles :
                 /\ recorded[j].key = audioKey(roles[l])
                 /\ \/ j \in DOMAIN rs /\ j \in prior(rs, n, roles[l])
                    \/ j \notin DOMAIN rs /\ prior(rs, n, roles[l]) = {}
      BY <1>13, <1>14, <2>2
    <3>3. k = l
      BY <1>4, <1>14, <3>1, <3>2 DEF Keyed
    <3>4. CASE i \in prior(rs, n, roles[k])
      BY <1>3, <3>1, <3>2, <3>3, <3>4 DEF AtMostOne
    <3>5. CASE i \notin DOMAIN rs /\ prior(rs, n, roles[k]) = {}
      <4>1. j \notin DOMAIN rs
        BY <3>2, <3>3, <3>5
      <4>2. QED
        BY <1>5, <1>14, <3>5, <4>1 DEF Recording
    <3>6. QED
      BY <3>1, <3>4, <3>5
  <2>3. QED
    BY <2>1, <2>2
<1>15. (n + 1) - 1 = n
  OBVIOUS
<1>16. QED
  BY <1>5, <1>10, <1>12, <1>14, <1>15 DEF RunsSoFar, Recording

(***************************************************************************)
(* The automation of a track gives back the gain of every sample.          *)
(***************************************************************************)
LEMMA GreatestMember ==
  ASSUME NEW n \in Nat, NEW S \in SUBSET (1 .. n), S # {}
  PROVE  Max(S) \in S /\ \A y \in S : y <= Max(S)
<1> DEFINE T == { n - y : y \in S }
<1>1. T \subseteq Nat /\ T # {}
  <2>1. PICK x \in S : TRUE
    OBVIOUS
  <2>2. n - x \in T
    BY <2>1
  <2>3. \A y \in S : n - y \in Nat
    <3> SUFFICES ASSUME NEW y \in S PROVE n - y \in Nat
      OBVIOUS
    <3>1. y \in 1 .. n
      OBVIOUS
    <3>2. QED
      BY <3>1
  <2>4. QED
    BY <2>2, <2>3
<1>2. PICK t \in T : \A m \in T : t <= m
  BY <1>1, Least
<1>3. PICK x \in S : t = n - x
  BY <1>2
<1>4. \A y \in S : y <= x
  <2> SUFFICES ASSUME NEW y \in S PROVE y <= x
    OBVIOUS
  <2>1. n - x <= n - y
    BY <1>2, <1>3
  <2>2. x \in Int /\ y \in Int
    OBVIOUS
  <2>3. QED
    BY <2>1, <2>2
<1>5. \E z \in S : \A y \in S : z >= y
  <2>1. \A y \in S : x >= y
    BY <1>4
  <2>2. QED
    BY <2>1
<1>6. Max(S) \in S /\ \A y \in S : Max(S) >= y
  BY <1>5 DEF Max
<1>7. QED
  BY <1>6

\* A gain that does not change is held.
LEMMA GainHeld ==
  ASSUME NEW samples, IsSequence(samples), NEW a \in DOMAIN samples, NEW b \in DOMAIN samples,
         a <= b, \A i \in a + 1 .. b : i \notin changes(samples)
  PROVE  samples[b].gain = samples[a].gain
<1> DEFINE T == { i \in a .. b : samples[i].gain # samples[a].gain }
<1>1. DOMAIN samples = 1 .. Len(samples) /\ Len(samples) \in Nat
  BY DEF IsSequence
<1>2. T = {}
  <2> SUFFICES ASSUME T # {} PROVE FALSE
    OBVIOUS
  <2>1. T \subseteq Nat
    BY <1>1
  <2>2. PICK i \in T : \A m \in T : i <= m
    BY <2>1, Least
  <2>3. i \in a .. b /\ i # a
    BY <2>2
  <2>4. i - 1 \in a .. b /\ i - 1 < i
    BY <1>1, <2>3
  <2>5. samples[i - 1].gain = samples[a].gain
    BY <1>1, <2>2, <2>4
  <2>6. i \in 2 .. Len(samples)
    BY <1>1, <2>3
  <2>7. i \in changes(samples)
    BY <2>2, <2>5, <2>6 DEF changes
  <2>8. i \in a + 1 .. b
    BY <1>1, <2>3
  <2>9. QED
    BY <2>7, <2>8
<1>3. b \in a .. b
  BY <1>1
<1>4. QED
  BY <1>2, <1>3

\* The samples that are kept: both ends, and the neighbours of every change.
LEMMA KeptSamples ==
  ASSUME NEW samples, IsSequence(samples), Len(samples) > 0
  PROVE  LET N == Len(samples)
             K == kept(samples)
         IN  /\ N \in Nat /\ K \in SUBSET (1 .. N) /\ 1 \in K /\ N \in K
             /\ Cardinality(K) \in Nat /\ Cardinality(K) > 0
             /\ Cardinality(K \cap 1 .. 1) = 1 /\ Cardinality(K \cap 1 .. N) = Cardinality(K)
             /\ \A i \in changes(samples) : i \in 2 .. N /\ i \in K /\ i - 1 \in K
<1>1. PICK N, K : N = Len(samples) /\ K = kept(samples)
  OBVIOUS
<1>2. N \in Nat /\ N > 0 /\ \A i \in changes(samples) : i \in 2 .. N
  BY <1>1 DEF IsSequence, changes
<1>3. /\ 1 \in K /\ N \in K /\ \A i \in changes(samples) : i \in K /\ i - 1 \in K
      /\ \A x \in K : \/ x = 1 \/ x = N
                      \/ \E i \in changes(samples) : x = i \/ x = i - 1
  BY <1>1 DEF kept
<1>4. \A x \in K : x \in 1 .. N
  BY <1>2, <1>3
<1>5. Cardinality(K) \in Nat
      /\ \A n \in K : Cardinality(K \cap 1 .. n) \in 1 .. Cardinality(K)
  <2>1. K \in SUBSET (1 .. N)
    BY <1>4
  <2>2. QED
    BY <1>2, <2>1, Ranks
<1>6. K \cap 1 .. 1 = {1} /\ K \cap 1 .. N = K
  <2>1. \A x \in 1 .. 1 : x = 1
    OBVIOUS
  <2>2. 1 \in 1 .. 1
    OBVIOUS
  <2>3. QED
    BY <1>3, <1>4, <2>1, <2>2
<1>7. Cardinality({1}) = 1
  BY FS_Singleton
<1>8. Cardinality(K \cap 1 .. 1) = 1 /\ Cardinality(K \cap 1 .. N) = Cardinality(K)
  BY <1>6, <1>7
<1>9. Cardinality(K) > 0
  <2>1. 1 \in 1 .. Cardinality(K)
    BY <1>3, <1>5, <1>8
  <2>2. QED
    BY <1>5, <2>1
<1>10. QED
  BY <1>1, <1>2, <1>3, <1>4, <1>5, <1>8, <1>9

\* A time plus nothing.
LEMMA PlusNothing ==
  ASSUME NEW x \in Time, NEW w \in Positive, NEW z, z = reduced(0, w)
  PROVE  compare(x, add(x, z)) = 0
<1>1. z \in Time /\ Val(z, 0, w)
  BY ReducedVal
<1>2. z.ticks = 0
  BY <1>1, TimeParts DEF Val, Positive
<1>3. PICK d \in Positive : d = x.timescale
  BY DEF Time
<1>4. Val(x, x.ticks, d) /\ x.ticks \in Int
  BY <1>3, OwnVal, TimeParts
<1>5. Val(z, 0, d)
  BY <1>1, <1>2, TimeParts DEF Val, Positive
<1>6. add(x, z) \in Time /\ Val(add(x, z), x.ticks + 0, d)
  BY <1>1, <1>4, <1>5, SumVal
<1>7. Val(add(x, z), x.ticks, d)
  BY <1>4, <1>6
<1>8. QED
  BY <1>4, <1>6, <1>7, CompareVal

\* The points of a track: constant, or the samples that are kept.
Points(samples) ==
    LET points == compactGainSamples(samples)
    IN  IF Len(points) > 2 \/ points[1].gain # Last(points).gain THEN points ELSE <<points[1]>>

\* One sample per frame from start on.
Sampled(samples, start) ==
    /\ IsSequence(samples) /\ Len(samples) > 0 /\ start \in Nat
    /\ \A k \in DOMAIN samples : /\ samples[k].frame = start + k - 1
                                /\ samples[k].gain \in Time

\* If the samples are kept, a frame between two of them has the gain of both.
LEMMA KeptPlays ==
  ASSUME NEW samples, NEW start, Sampled(samples, start), NEW k \in DOMAIN samples,
         NEW track, track.points = compactGainSamples(samples)
  PROVE  compare(samples[k].gain, Played(track, start + k - 1)) = 0
<1> DEFINE N == Len(samples)
           K == kept(samples)
           f == start + k - 1
           points == track.points
           before == { m \in DOMAIN points : points[m].frame <= f }
<1>1. /\ IsSequence(samples) /\ N > 0 /\ start \in Nat
      /\ N \in Nat /\ DOMAIN samples = 1 .. N /\ k \in 1 .. N
      /\ \A i \in 1 .. N : samples[i].frame = start + i - 1 /\ samples[i].gain \in Time
  BY DEF Sampled, IsSequence
<1>2. /\ K \in SUBSET (1 .. N) /\ 1 \in K /\ N \in K
      /\ Cardinality(K) \in Nat /\ Cardinality(K) > 0
      /\ Cardinality(K \cap 1 .. 1) = 1 /\ Cardinality(K \cap 1 .. N) = Cardinality(K)
      /\ \A i \in changes(samples) : i \in 2 .. N /\ i \in K /\ i - 1 \in K
  BY <1>1, KeptSamples
<1>3. points = filtered(samples, K)
  BY DEF compactGainSamples
<1> HIDE DEF K
<1>4. Holds(points, samples, K)
  BY <1>1, <1>2, <1>3, Filtered
<1> HIDE DEF N, points
<1>5. PICK c \in Nat : c = Cardinality(K)
  BY <1>2
<1>6. c > 0 /\ DOMAIN points = 1 .. c /\ Len(points) = c
  BY <1>2, <1>4, <1>5 DEF Holds
<1>7. \A m \in 1 .. c : /\ nth(K, m) \in K /\ points[m] = samples[nth(K, m)]
                        /\ Cardinality(K \cap 1 .. nth(K, m)) = m
  BY <1>4, <1>5 DEF Holds
<1>8. nth(K, 1) = 1 /\ nth(K, c) = N
  BY <1>2, <1>4, <1>5 DEF Holds
<1>9. \A m, n \in K : m < n => Cardinality(K \cap 1 .. m) < Cardinality(K \cap 1 .. n)
  BY <1>1, <1>2, Ranks
<1>10. \A n \in K : Cardinality(K \cap 1 .. n) \in 1 .. c
  BY <1>4, <1>5 DEF Holds
<1>11. f \in Nat /\ \A m \in 1 .. c : points[m].frame = start + nth(K, m) - 1 /\ nth(K, m) \in 1 .. N
  <2>1. f \in Nat
    BY <1>1
  <2>2. \A m \in 1 .. c : nth(K, m) \in 1 .. N /\ points[m] = samples[nth(K, m)]
    BY <1>2, <1>7
  <2>3. QED
    BY <1>1, <2>1, <2>2
<1>12. \A m \in 1 .. c : m \in before <=> nth(K, m) <= k
  BY <1>1, <1>6, <1>11
<1>13. PICK m : m = Max(before)
  OBVIOUS
<1>14. m \in before /\ \A l \in before : l <= m
  <2>1. 1 \in before
    BY <1>1, <1>6, <1>8, <1>12
  <2>2. before \in SUBSET (1 .. c)
    BY <1>6
  <2> HIDE DEF before
  <2>3. QED
    BY <1>13, <2>1, <2>2, GreatestMember
<1>15. m \in 1 .. c
  BY <1>6, <1>14
<1>16. PICK x : x = nth(K, m)
  OBVIOUS
<1>17. /\ x \in K /\ x \in 1 .. N /\ x <= k /\ Cardinality(K \cap 1 .. x) = m
       /\ points[m] = samples[x]
  BY <1>7, <1>11, <1>12, <1>14, <1>15, <1>16
<1>18. CASE m = c
  <2>1. x = k
    BY <1>1, <1>8, <1>16, <1>17, <1>18
  <2>2. Played(track, f) = samples[k].gain
    BY <1>6, <1>13, <1>17, <1>18, <2>1 DEF Played, points
  <2>3. QED
    BY <1>1, <2>2, TimeParts DEF compare
<1>19. CASE m # c
  <2>1. m + 1 \in 1 .. c
    BY <1>15, <1>19
  <2>2. PICK y : y = nth(K, m + 1)
    OBVIOUS
  <2>3. /\ y \in K /\ y \in 1 .. N /\ Cardinality(K \cap 1 .. y) = m + 1
        /\ points[m + 1] = samples[y]
    BY <1>7, <1>11, <2>1, <2>2
  <2>4. m + 1 \notin before
    BY <1>14, <1>15
  <2>5. k < y
    BY <1>1, <1>12, <2>1, <2>2, <2>3, <2>4
  <2>6. ASSUME NEW z \in K, x < z, z < y PROVE FALSE
    <3>1. Cardinality(K \cap 1 .. z) \in Int
      BY <1>10
    <3>2. m < Cardinality(K \cap 1 .. z) /\ Cardinality(K \cap 1 .. z) < m + 1
      BY <1>9, <1>17, <2>3, <2>6
    <3>3. QED
      BY <1>15, <3>1, <3>2
  <2>7. PICK left, right, part :
           /\ left = samples[x] /\ right = samples[y]
           /\ part = reduced(f - left.frame, right.frame - left.frame)
    OBVIOUS
  <2>8. f - left.frame = k - x /\ right.frame - left.frame = y - x /\ y - x \in Positive
    BY <1>1, <1>17, <2>3, <2>5, <2>7 DEF Positive
  <2>9. k - x \in Int
    BY <1>1, <1>17
  <2>10. part \in Time /\ Val(part, k - x, y - x)
    BY <2>7, <2>8, <2>9, ReducedVal
  <2>11. PICK apart : apart = subtract(right.gain, left.gain)
    OBVIOUS
  <2>12. /\ left.gain \in Time /\ right.gain \in Time /\ apart \in Time
    BY <1>1, <1>17, <2>3, <2>7, <2>11, TimesClosed
  <2>13. Played(track, f) = add(left.gain, reduced(part.ticks * apart.ticks,
                                                   part.timescale * apart.timescale))
    BY <1>6, <1>13, <1>17, <1>19, <2>3, <2>7, <2>11 DEF Played, points
  <2>14. samples[k].gain = left.gain /\ part.ticks * apart.ticks = 0
    <3>1. CASE k = x
      <4>1. part.ticks = 0
        BY <1>17, <2>8, <2>9, <2>10, <3>1, TimeParts DEF Val, Positive
      <4>2. QED
        BY <2>7, <2>12, <3>1, <4>1, TimeParts
    <3>2. CASE k # x
      <4>1. x < k
        BY <1>1, <1>17, <3>2
      <4>2. \A i \in x + 1 .. y : i \notin changes(samples)
        <5> SUFFICES ASSUME NEW i \in x + 1 .. y, i \in changes(samples) PROVE FALSE
          OBVIOUS
        <5>1. i \in K /\ i - 1 \in K
          BY <1>2
        <5>2. CASE i < y
          <6>1. x < i
            BY <1>17
          <6>2. QED
            BY <2>6, <5>1, <5>2, <6>1
        <5>3. CASE i = y
          <6>1. x < i - 1 /\ i - 1 < y
            BY <1>1, <1>17, <2>3, <2>5, <4>1, <5>3
          <6>2. QED
            BY <2>6, <5>1, <6>1
        <5>4. QED
          BY <1>17, <2>3, <5>2, <5>3
      <4>3. \A i \in x + 1 .. k : i \notin changes(samples)
        BY <1>1, <1>17, <2>3, <2>5, <4>2
      <4>4. samples[y].gain = samples[x].gain /\ samples[k].gain = samples[x].gain
        <5>1. x \in DOMAIN samples /\ y \in DOMAIN samples /\ x <= y /\ x <= k
          BY <1>1, <1>17, <2>3, <2>5
        <5>2. samples[y].gain = samples[x].gain
          BY <1>1, <4>2, <5>1, GainHeld
        <5>3. samples[k].gain = samples[x].gain
          BY <1>1, <4>3, <5>1, GainHeld
        <5>4. QED
          BY <5>2, <5>3
      <4>5. apart.ticks = 0
        <5>1. PICK d \in Positive : d = left.gain.timescale
          BY <2>12 DEF Time
        <5>2. Val(left.gain, left.gain.ticks, d) /\ left.gain.ticks \in Int
          BY <2>12, <5>1, OwnVal, TimeParts
        <5>3. Val(apart, left.gain.ticks - left.gain.ticks, d)
          BY <2>7, <2>11, <2>12, <4>4, <5>2, SumVal
        <5>4. Val(apart, 0, d)
          BY <5>2, <5>3
        <5>5. QED
          BY <2>12, <5>4, TimeParts DEF Val, Positive
      <4>6. QED
        BY <2>7, <2>10, <4>4, <4>5, TimeParts
    <3>3. QED
      BY <3>1, <3>2
  <2>15. part.timescale * apart.timescale \in Positive
    <3>1. part.timescale \in Positive /\ apart.timescale \in Positive
      BY <2>10, <2>12 DEF Time
    <3>2. QED
      BY <3>1, Products
  <2>16. compare(left.gain, Played(track, f)) = 0
    BY <2>12, <2>13, <2>14, <2>15, PlusNothing
  <2>17. QED
    BY <2>14, <2>16
<1>20. QED
  BY <1>18, <1>19

\* Two points of the same gain: the gain never changes.
LEMMA ConstantGain ==
  ASSUME NEW samples, NEW start, Sampled(samples, start),
         NEW points, points = compactGainSamples(samples),
         ~(Len(points) > 2), points[1].gain = Last(points).gain
  PROVE  /\ points[1] = samples[1]
         /\ \A k \in DOMAIN samples : samples[k].gain = samples[1].gain
<1>1. PICK N, K, c : N = Len(samples) /\ K = kept(samples) /\ c = Cardinality(K)
  OBVIOUS
<1>2. IsSequence(samples) /\ N > 0 /\ N \in Nat /\ DOMAIN samples = 1 .. N
  BY <1>1 DEF Sampled, IsSequence
<1>3. /\ K \in SUBSET (1 .. N) /\ 1 \in K /\ N \in K /\ c \in Nat /\ c > 0
      /\ Cardinality(K \cap 1 .. 1) = 1 /\ Cardinality(K \cap 1 .. N) = c
      /\ \A i \in changes(samples) : i \in 2 .. N /\ i \in K /\ i - 1 \in K
  BY <1>1, <1>2, KeptSamples
<1>4. points = filtered(samples, K)
  BY <1>1 DEF compactGainSamples
<1>5. Holds(points, samples, K)
  BY <1>2, <1>3, <1>4, Filtered
<1>6. /\ Len(points) = c /\ \A m \in 1 .. c : points[m] = samples[nth(K, m)]
      /\ \A n \in K : Cardinality(K \cap 1 .. n) \in 1 .. c
                      /\ nth(K, Cardinality(K \cap 1 .. n)) = n
  BY <1>1, <1>5 DEF Holds
<1>7. nth(K, 1) = 1 /\ nth(K, c) = N
  BY <1>3, <1>6
<1>8. points[1] = samples[1] /\ Last(points) = samples[N]
  BY <1>3, <1>6, <1>7 DEF Last
<1>9. \A m, n \in K : m < n => Cardinality(K \cap 1 .. m) < Cardinality(K \cap 1 .. n)
  BY <1>2, <1>3, Ranks
<1>10. ASSUME NEW z \in K, 1 < z, z < N PROVE FALSE
  <2>1. Cardinality(K \cap 1 .. z) \in Int
    BY <1>6
  <2>2. 1 < Cardinality(K \cap 1 .. z) /\ Cardinality(K \cap 1 .. z) < c
    BY <1>3, <1>9, <1>10
  <2>3. QED
    BY <1>3, <1>6, <2>1, <2>2
<1>11. \A i \in 2 .. N : i \notin changes(samples)
  <2> SUFFICES ASSUME NEW i \in 2 .. N, i \in changes(samples) PROVE FALSE
    OBVIOUS
  <2>1. i \in K /\ i - 1 \in K
    BY <1>3
  <2>2. i = N
    BY <1>2, <1>10, <2>1
  <2>3. i - 1 = 1
    BY <1>2, <1>10, <2>1, <2>2
  <2>4. i = 2 /\ N = 2
    BY <2>2, <2>3
  <2>5. samples[2].gain # samples[1].gain
    BY <2>3, <2>4 DEF changes
  <2>6. QED
    BY <1>8, <2>4, <2>5
<1>12. ASSUME NEW k \in DOMAIN samples PROVE samples[k].gain = samples[1].gain
  <2>1. 1 \in DOMAIN samples /\ 1 <= k /\ \A i \in 1 + 1 .. k : i \notin changes(samples)
    BY <1>2, <1>11
  <2>2. QED
    BY <1>2, <2>1, GainHeld
<1>13. QED
  BY <1>8, <1>12

\* What the producer plays of a track in a frame is the gain sampled there.
LEMMA PointsPlay ==
  ASSUME NEW samples, NEW start, Sampled(samples, start), NEW k \in DOMAIN samples,
         NEW track, track.points = Points(samples)
  PROVE  compare(samples[k].gain, Played(track, start + k - 1)) = 0
<1>1. PICK points : points = compactGainSamples(samples)
  OBVIOUS
<1>2. CASE Len(points) > 2 \/ points[1].gain # Last(points).gain
  BY <1>1, <1>2, KeptPlays DEF Points
<1>3. CASE ~(Len(points) > 2 \/ points[1].gain # Last(points).gain)
  <2>1. track.points = <<points[1]>>
    BY <1>1, <1>3 DEF Points
  <2>2. points[1] = samples[1] /\ samples[k].gain = samples[1].gain
    BY <1>1, <1>3, ConstantGain
  <2>3. /\ k \in Nat /\ k > 0 /\ 1 \in DOMAIN samples /\ start \in Nat
        /\ samples[1].frame = start + 1 - 1 /\ samples[1].gain \in Time
    BY DEF Sampled, IsSequence
  <2>4. PICK before : before = { m \in DOMAIN track.points :
                                   track.points[m].frame <= start + k - 1 }
    OBVIOUS
  <2>5. before = {1}
    <3>1. DOMAIN track.points = {1} /\ track.points[1] = samples[1]
      BY <2>1, <2>2
    <3>2. samples[1].frame <= start + k - 1
      BY <2>3
    <3>3. QED
      BY <2>4, <3>1, <3>2
  <2>6. Max({1}) = 1
    BY DEF Max
  <2>7. Len(track.points) = 1 /\ track.points[1].gain = samples[k].gain
    BY <2>1, <2>2
  <2>8. Played(track, start + k - 1) = samples[k].gain
    BY <2>4, <2>5, <2>6, <2>7 DEF Played
  <2>9. QED
    BY <2>2, <2>3, <2>8, TimeParts DEF compare
<1>4. QED
  BY <1>2, <1>3

(***************************************************************************)
(* Tracks play the frames.                                                 *)
(***************************************************************************)
\* The frames before n got through.
Rendered(p, n) == \A f \in 0 .. n - 1 : ~frameThrows(p, f)

\* A run samples gains, frame after frame.
LEMMA RunSamples ==
  ASSUME NEW p \in Plans, freezeSnapshot(p), NEW n \in Nat, Rendered(p, n),
         NEW r, Records(p, r), r.endFrame <= n
  PROVE  /\ Sampled(r.frames, Start(r))
         /\ \A k \in DOMAIN r.frames : Start(r) + k - 1 \in 0 .. n - 1
<1>1. /\ IsSequence(r.frames) /\ Len(r.frames) > 0 /\ Start(r) \in Nat
      /\ r.endFrame = Start(r) + Len(r.frames) /\ Len(r.frames) \in Nat
      /\ DOMAIN r.frames = 1 .. Len(r.frames)
  BY DEF Records, IsSequence
<1>2. ASSUME NEW k \in DOMAIN r.frames
      PROVE  /\ Start(r) + k - 1 \in 0 .. n - 1
             /\ r.frames[k].frame = Start(r) + k - 1 /\ r.frames[k].gain \in Time
  <2>1. PICK f \in Nat : f = Start(r) + k - 1
    BY <1>1
  <2>2. f \in 0 .. n - 1
    BY <1>1, <2>1
  <2>3. PICK role \in ToSet(Roles(p, f)) : r.frames[k] = Sample(f, role)
    BY <2>1 DEF Records
  <2>4. ~frameThrows(p, f)
    BY <2>2 DEF Rendered
  <2>5. role.gain \in Time
    BY <2>4, RolesSound DEF Sounds
  <2>6. r.frames[k].frame = f /\ r.frames[k].gain = role.gain
    BY <2>3 DEF Sample
  <2>7. QED
    BY <2>1, <2>2, <2>5, <2>6
<1>3. QED
  BY <1>1, <1>2 DEF Sampled

\* The rate of a track is that of its occurrence.
LEMMA TrackRate ==
  ASSUME NEW p \in Plans, freezeSnapshot(p), NEW n \in Nat, Rendered(p, n),
         NEW r, Records(p, r), r.endFrame <= n, Len(r.frames) # 1,
         \A o \in ToSet(p.occurrences) : o.id = r.first.occurrenceId => ~Still(o)
  PROVE  compare(ratioNumber(subtract(r.frames[2].sourceTime, r.frames[1].sourceTime),
                             outputTime(1, p.rate)),
                 reduced(r.first.retime.num, r.first.retime.den)) = 0
<1>1. PICK f \in Nat : f = Start(r)
  BY DEF Records
<1>2. 1 \in DOMAIN r.frames /\ 2 \in DOMAIN r.frames
  <2>1. PICK m \in Nat : m = Len(r.frames)
    BY DEF Records, IsSequence
  <2>2. m > 0 /\ m # 1 /\ DOMAIN r.frames = 1 .. m
    BY <2>1 DEF Records, IsSequence
  <2>3. QED
    BY <2>2
<1>3. Start(r) + 1 - 1 = f /\ Start(r) + 2 - 1 = f + 1
  BY <1>1
<1>4. f \in 0 .. n - 1 /\ f + 1 \in 0 .. n - 1
  BY <1>2, <1>3, RunSamples
<1>5. ~frameThrows(p, f) /\ ~frameThrows(p, f + 1)
  BY <1>4 DEF Rendered
<1>6. PICK a \in ToSet(Roles(p, f)) : audioKey(a) = r.key /\ r.frames[1] = Sample(f, a)
  BY <1>2, <1>3 DEF Records
<1>7. PICK b \in ToSet(Roles(p, f + 1)) : audioKey(b) = r.key /\ r.frames[2] = Sample(f + 1, b)
  BY <1>2, <1>3 DEF Records
<1>8. r.first \in ToSet(Roles(p, f)) /\ audioKey(r.first) = r.key
  BY <1>1 DEF Records
<1>9. r.first = a
  <2>1. Keyed(Roles(p, f))
    BY <1>5, RolesSound
  <2>2. QED
    BY <1>6, <1>8, <2>1 DEF Keyed, ToSet
<1>10. \E i : Sounds(p, f, i, a)
  BY <1>5, RolesSound
<1>11. \E j : Sounds(p, f + 1, j, b)
  <2>1. f + 1 \in Nat
    BY <1>1
  <2>2. QED
    BY <1>5, <2>1, RolesSound
<1>12. compare(ratioNumber(subtract(b.sourceTime, a.sourceTime), outputTime(1, p.rate)),
               reduced(a.retime.num, a.retime.den)) = 0
  BY <1>6, <1>7, <1>9, <1>10, <1>11, RateOfRole
<1>13. r.frames[1].sourceTime = a.sourceTime /\ r.frames[2].sourceTime = b.sourceTime
  BY <1>6, <1>7 DEF Sample
<1>14. QED
  BY <1>9, <1>12, <1>13

\* Every role of every frame is in exactly one run.
LEMMA OneRun ==
  ASSUME NEW p, NEW rs, NEW n \in Nat, RunsSoFar(p, rs, n),
         NEW f \in 0 .. n - 1, NEW role \in ToSet(Roles(p, f))
  PROVE  Cardinality({ i \in DOMAIN rs : rs[i].key = audioKey(role)
                          /\ f \in rs[i].frames[1].frame .. rs[i].endFrame - 1 }) = 1
<1>1. PICK S : S = { i \in DOMAIN rs : rs[i].key = audioKey(role)
                          /\ f \in rs[i].frames[1].frame .. rs[i].endFrame - 1 }
  OBVIOUS
<1>2. S = { i \in DOMAIN rs : rs[i].key = audioKey(role) /\ Plays(rs[i], f) }
  BY <1>1 DEF Plays, Start
<1>3. PICK i \in DOMAIN rs : rs[i].key = audioKey(role) /\ Plays(rs[i], f)
  BY DEF RunsSoFar
<1>4. \A j \in DOMAIN rs : rs[j].key = audioKey(role) /\ Plays(rs[j], f) => j = i
  BY <1>3 DEF RunsSoFar
<1>5. S = {i}
  BY <1>2, <1>3, <1>4
<1>6. QED
  BY <1>1, <1>5, FS_Singleton

\* The runs of all frames make tracks that play them.
LEMMA TracksPlay ==
  ASSUME NEW p \in Plans, freezeSnapshot(p), NEW n \in Nat, Rendered(p, n),
         NEW r, Records(p, r), r.endFrame <= n, NEW track, track = producerTrack(r, p.rate)
  PROVE  /\ \A f \in r.frames[1].frame .. r.endFrame - 1 :
               \E role \in ToSet(Roles(p, f)) :
                  audioKey(role) = r.key /\ compare(role.gain, Played(track, f)) = 0
         /\ track.sourceRate # Null
            /\ (\A o \in ToSet(p.occurrences) : o.id = r.first.occurrenceId => ~Still(o)) =>
               compare(track.sourceRate, reduced(r.first.retime.num, r.first.retime.den)) = 0
<1>1. /\ track.points = Points(r.frames)
      /\ track.sourceRate =
            IF Len(r.frames) = 1 THEN Null
            ELSE ratioNumber(subtract(r.frames[2].sourceTime, r.frames[1].sourceTime),
                             outputTime(1, p.rate))
  BY DEF producerTrack, Points
<1>2. Sampled(r.frames, Start(r))
  BY RunSamples
<1>3. ASSUME NEW f \in r.frames[1].frame .. r.endFrame - 1
      PROVE  \E role \in ToSet(Roles(p, f)) :
                audioKey(role) = r.key /\ compare(role.gain, Played(track, f)) = 0
  <2>1. PICK k \in Int : k = f - Start(r) + 1
    BY DEF Records, Start
  <2>2. /\ Start(r) \in Nat /\ r.endFrame = Start(r) + Len(r.frames)
        /\ Len(r.frames) \in Nat /\ DOMAIN r.frames = 1 .. Len(r.frames)
    BY DEF Records, IsSequence
  <2>3. f \in Start(r) .. r.endFrame - 1
    BY DEF Start
  <2>4. k \in DOMAIN r.frames /\ Start(r) + k - 1 = f
    <3>1. PICK s \in Nat, m \in Nat : s = Start(r) /\ m = Len(r.frames)
      BY <2>2
    <3>2. f \in s .. (s + m) - 1 /\ k = f - s + 1
      BY <2>1, <2>2, <2>3, <3>1
    <3>3. k \in 1 .. m /\ s + k - 1 = f
      BY <3>2
    <3>4. QED
      BY <2>2, <3>1, <3>3
  <2>5. PICK role \in ToSet(Roles(p, f)) : audioKey(role) = r.key /\ r.frames[k] = Sample(f, role)
    BY <2>4 DEF Records
  <2>6. r.frames[k].gain = role.gain
    BY <2>5 DEF Sample
  <2>7. compare(r.frames[k].gain, Played(track, f)) = 0
    BY <1>1, <1>2, <2>4, PointsPlay
  <2>8. QED
    BY <2>5, <2>6, <2>7
<1>4. ASSUME track.sourceRate # Null,
             \A o \in ToSet(p.occurrences) : o.id = r.first.occurrenceId => ~Still(o)
      PROVE  compare(track.sourceRate, reduced(r.first.retime.num, r.first.retime.den)) = 0
  <2>1. Len(r.frames) # 1
    BY <1>1, <1>4
  <2>2. QED
    BY <1>1, <1>4, <2>1, TrackRate
<1>5. QED
  BY <1>3, <1>4

(***************************************************************************)
(* Captions and chapters: what is open, what is closed, and what they span.*)
(***************************************************************************)
\* The frames a member of a list spans; one that is open goes on to frame n.
EndOf(x, n) == IF x.endFrame = Null THEN n ELSE x.endFrame
Spans(x, n) == x.startFrame .. EndOf(x, n) - 1

Placed(list, n) ==
    /\ IsSequence(list)
    /\ \A k \in DOMAIN list :
           /\ list[k].startFrame \in 0 .. n /\ list[k].endFrame \in (0 .. n) \cup {Null}
           /\ list[k].endFrame = Null => k = Len(list)

Open(list) == list # <<>> /\ Last(list).endFrame = Null

\* What closed makes of a member.
ClosedAt(x, n) == IF x.endFrame = Null THEN [x EXCEPT !.endFrame = n] ELSE x

\* Null is not a frame.
LEMMA NullNoFrame == Null \notin Nat
BY NullAssumption

\* A sequence that is not empty has a last member.
LEMMA LastMember ==
  ASSUME NEW list, IsSequence(list)
  PROVE  /\ list # <<>> => Len(list) \in DOMAIN list
         /\ list = <<>> => DOMAIN list = {}
<1>1. DOMAIN list = 1 .. Len(list) /\ Len(list) \in Nat
  BY DEF IsSequence
<1>2. ASSUME list # <<>> PROVE Len(list) # 0
  BY <1>1, <1>2
<1>3. DOMAIN <<>> = {}
  OBVIOUS
<1>4. QED
  BY <1>1, <1>2, <1>3

\* Only the last member of a list can be open.
LEMMA OnlyLastOpen ==
  ASSUME NEW list, NEW n, Placed(list, n), NEW k \in DOMAIN list
  PROVE  list[k].endFrame = Null <=> (Open(list) /\ k = Len(list))
<1>1. list # <<>>
  BY LastMember DEF Placed
<1>2. QED
  BY <1>1 DEF Placed, Open, Last

\* closed closes the member that is open, and no member spans other frames.
LEMMA Closed ==
  ASSUME NEW list, NEW n \in Nat, Placed(list, n), NEW m, m = closed(list, n)
  PROVE  /\ IsSequence(m) /\ Len(m) = Len(list) /\ DOMAIN m = DOMAIN list
         /\ \A k \in DOMAIN list : m[k] = ClosedAt(list[k], n)
<1>1. IsSequence(list) /\ DOMAIN list = 1 .. Len(list) /\ Len(list) \in Nat
  BY DEF Placed, IsSequence
<1>2. CASE ~Open(list)
  <2>1. m = list
    BY <1>2 DEF closed, Open
  <2>2. \A k \in DOMAIN list : list[k].endFrame # Null
    BY <1>2, OnlyLastOpen
  <2>3. QED
    BY <1>1, <2>1, <2>2 DEF ClosedAt
<1>3. CASE Open(list)
  <2>1. Len(list) \in DOMAIN list
    BY <1>1, <1>3, LastMember DEF Open
  <2>2. m = [list EXCEPT ![Len(list)] = [Last(list) EXCEPT !.endFrame = n]]
    BY <1>3 DEF closed, Open, ReplaceAt
  <2>3. DOMAIN m = DOMAIN list /\ Len(m) = Len(list)
    BY <1>1, <2>2
  <2>4. \A k \in DOMAIN list : m[k] = ClosedAt(list[k], n)
    <3> SUFFICES ASSUME NEW k \in DOMAIN list PROVE m[k] = ClosedAt(list[k], n)
      OBVIOUS
    <3>1. CASE k = Len(list)
      <4>1. list[k].endFrame = Null /\ m[k] = [list[k] EXCEPT !.endFrame = n]
        BY <1>3, <2>1, <2>2, <3>1 DEF Open, Last
      <4>2. QED
        BY <4>1 DEF ClosedAt
    <3>2. CASE k # Len(list)
      <4>1. m[k] = list[k] /\ list[k].endFrame # Null
        BY <2>2, <3>2 DEF Placed
      <4>2. QED
        BY <4>1 DEF ClosedAt
    <3>3. QED
      BY <3>1, <3>2
  <2>5. QED
    BY <1>1, <2>3, <2>4 DEF IsSequence
<1>4. QED
  BY <1>2, <1>3

\* m is the list and then x.
EndsWith(m, list, x) ==
    /\ IsSequence(m) /\ Len(m) = Len(list) + 1 /\ Len(list) \in Nat
    /\ DOMAIN m = DOMAIN list \cup {Len(m)} /\ Len(m) \notin DOMAIN list
    /\ m[Len(m)] = x /\ \A k \in DOMAIN list : m[k] = list[k]

\* One more member at the end.
LEMMA Appended ==
  ASSUME NEW list, IsSequence(list), NEW x
  PROVE  EndsWith(Append(list, x), list, x) /\ EndsWith(list \o <<x>>, list, x)
<1>1. PICK n \in Nat : DOMAIN list = 1 .. n /\ Len(list) = n
  BY DEF IsSequence
<1>2. ASSUME NEW m, DOMAIN m = 1 .. (n + 1), Len(m) = n + 1, m[n + 1] = x,
             \A k \in DOMAIN list : m[k] = list[k]
      PROVE  EndsWith(m, list, x)
  <2>1. 1 .. (n + 1) = 1 .. n \cup {n + 1} /\ n + 1 \notin 1 .. n
    OBVIOUS
  <2>2. QED
    BY <1>1, <1>2, <2>1 DEF EndsWith, IsSequence
<1>3. PICK m : m = Append(list, x)
  OBVIOUS
<1>4. DOMAIN m = 1 .. (n + 1) /\ Len(m) = n + 1 /\ m[n + 1] = x
      /\ \A k \in DOMAIN list : m[k] = list[k]
  BY <1>1, <1>3
<1>5. PICK o, t : t = <<x>> /\ o = list \o t
  OBVIOUS
<1>6. Len(t) = 1 /\ t[1] = x
  BY <1>5
<1>7. DOMAIN o = 1 .. (n + 1) /\ Len(o) = n + 1 /\ o[n + 1] = x
      /\ \A k \in DOMAIN list : o[k] = list[k]
  BY <1>1, <1>5, <1>6
<1>8. QED
  BY <1>2, <1>3, <1>4, <1>5, <1>7

Captioned(caption, from, to) == [caption |-> caption, startFrame |-> from, endFrame |-> to]
CaptionOf(p, f) == frameState(p, f).caption

\* The captions before frame n, each where it was shown and one at a time.
CaptionsSoFar(p, list, n) ==
    /\ Placed(list, n)
    /\ \A k \in DOMAIN list :
           /\ list[k] = Captioned(list[k].caption, list[k].startFrame, list[k].endFrame)
           /\ list[k].caption # Null
           /\ \A f \in Spans(list[k], n) : CaptionOf(p, f) = list[k].caption
    /\ \A f \in 0 .. n - 1 : CaptionOf(p, f) # Null =>
           \E k \in DOMAIN list : f \in Spans(list[k], n)
    /\ \A k, l \in DOMAIN list : \A f \in 0 .. n - 1 :
           f \in Spans(list[k], n) /\ f \in Spans(list[l], n) => k = l

\* One more frame of what is open spans it; what is closed stays.
LEMMA SpansNext ==
  ASSUME NEW n \in Nat, NEW x, x.startFrame \in 0 .. n, x.endFrame \in (0 .. n) \cup {Null}
  PROVE  /\ x.endFrame = Null => Spans(x, n + 1) = Spans(x, n) \cup {n}
         /\ x.endFrame # Null => Spans(x, n + 1) = Spans(x, n)
         /\ Spans(x, n) \subseteq 0 .. n - 1
<1>1. Null \notin Nat
  BY NullNoFrame
<1>2. ASSUME x.endFrame = Null PROVE Spans(x, n + 1) = Spans(x, n) \cup {n}
  <2>1. Spans(x, n + 1) = x.startFrame .. (n + 1) - 1 /\ Spans(x, n) = x.startFrame .. n - 1
    BY <1>2 DEF Spans, EndOf
  <2>2. QED
    BY <2>1
<1>3. ASSUME x.endFrame # Null PROVE Spans(x, n + 1) = Spans(x, n)
  BY <1>3 DEF Spans, EndOf
<1>4. Spans(x, n) \subseteq 0 .. n - 1
  <2>1. EndOf(x, n) \in 0 .. n
    BY DEF EndOf
  <2>2. QED
    BY <2>1 DEF Spans
<1>5. QED
  BY <1>2, <1>3, <1>4

\* What is closed at n spans what it did.
LEMMA SpansClosed ==
  ASSUME NEW n \in Nat, NEW x, x.startFrame \in 0 .. n, x.endFrame \in (0 .. n) \cup {Null},
         NEW y, y.startFrame = x.startFrame, y.endFrame = EndOf(x, n)
  PROVE  /\ y.endFrame \in 0 .. n /\ y.endFrame # Null
         /\ \A o : Spans(y, o) = Spans(x, n)
         /\ y.startFrame .. y.endFrame - 1 = Spans(x, n)
<1>1. Null \notin Nat
  BY NullNoFrame
<1>2. EndOf(x, n) \in 0 .. n
  BY DEF EndOf
<1>3. y.endFrame # Null
  BY <1>1, <1>2
<1>4. \A o : EndOf(y, o) = EndOf(x, n)
  BY <1>3 DEF EndOf
<1>5. QED
  BY <1>2, <1>3, <1>4 DEF Spans

\* m holds the captions of the list, all closed at n.
ClosedCaptionsOf(m, list, n) ==
    /\ IsSequence(m) /\ DOMAIN m = DOMAIN list
    /\ \A k \in DOMAIN list :
          /\ m[k] = Captioned(list[k].caption, list[k].startFrame, m[k].endFrame)
          /\ m[k].startFrame \in 0 .. n /\ m[k].endFrame \in 0 .. n /\ m[k].endFrame # Null
          /\ m[k].caption = list[k].caption
          /\ \A o : Spans(m[k], o) = Spans(list[k], n)
          /\ m[k].startFrame .. m[k].endFrame - 1 = Spans(list[k], n)

\* What closed makes of the captions.
LEMMA ClosedCaptions ==
  ASSUME NEW p, NEW n \in Nat, NEW list, CaptionsSoFar(p, list, n)
  PROVE  ClosedCaptionsOf(closed(list, n), list, n)
<1>0. PICK m : m = closed(list, n)
  OBVIOUS
<1>1. IsSequence(m) /\ DOMAIN m = DOMAIN list /\ \A k \in DOMAIN list : m[k] = ClosedAt(list[k], n)
  BY <1>0, Closed DEF CaptionsSoFar
<1>2. ASSUME NEW k \in DOMAIN list
      PROVE  /\ m[k] = Captioned(list[k].caption, list[k].startFrame, m[k].endFrame)
             /\ m[k].startFrame \in 0 .. n /\ m[k].endFrame \in 0 .. n /\ m[k].endFrame # Null
             /\ m[k].caption = list[k].caption
             /\ \A o : Spans(m[k], o) = Spans(list[k], n)
             /\ m[k].startFrame .. m[k].endFrame - 1 = Spans(list[k], n)
  <2>1. PICK x, y : x = list[k] /\ y = m[k]
    OBVIOUS
  <2>2. /\ x = Captioned(x.caption, x.startFrame, x.endFrame) /\ x.startFrame \in 0 .. n
        /\ x.endFrame \in (0 .. n) \cup {Null} /\ y = ClosedAt(x, n)
    BY <1>1, <2>1 DEF CaptionsSoFar, Placed
  <2>3. /\ y.startFrame = x.startFrame /\ y.endFrame \in 0 .. n /\ y.endFrame # Null
        /\ \A o : Spans(y, o) = Spans(x, n)
        /\ y.startFrame .. y.endFrame - 1 = Spans(x, n)
    <3>1. y.startFrame = x.startFrame /\ y.endFrame = EndOf(x, n)
      BY <2>2 DEF ClosedAt, EndOf, Captioned
    <3>2. QED
      BY <2>2, <3>1, SpansClosed
  <2>4. y = Captioned(x.caption, x.startFrame, y.endFrame) /\ y.caption = x.caption
    BY <2>2 DEF ClosedAt, Captioned
  <2>5. QED
    BY <2>1, <2>2, <2>3, <2>4
<1>3. QED
  BY <1>0, <1>1, <1>2 DEF ClosedCaptionsOf

\* The next list of captions, given the caption of frame n.
NextCaptions(list, caption, n) ==
    LET same == IF list = <<>> \/ Last(list).endFrame # Null
                THEN caption = Null ELSE Last(list).caption = caption
    IN  IF same THEN list
        ELSE closed(list, n) \o
                 IF caption = Null THEN <<>>
                 ELSE <<[caption |-> caption, startFrame |-> n, endFrame |-> Null]>>

\* A frame that shows what is open, or nothing while nothing is open.
LEMMA CaptionGoesOn ==
  ASSUME NEW p, NEW n \in Nat, NEW list, CaptionsSoFar(p, list, n),
         IF Open(list) THEN Last(list).caption = CaptionOf(p, n) ELSE CaptionOf(p, n) = Null
  PROVE  CaptionsSoFar(p, list, n + 1)
<1>1. (n + 1) - 1 = n /\ Placed(list, n) /\ Placed(list, n + 1)
  BY DEF CaptionsSoFar, Placed
<1>2. ASSUME NEW k \in DOMAIN list
      PROVE  /\ list[k].endFrame = Null =>
                   Spans(list[k], n + 1) = Spans(list[k], n) \cup {n} /\ k = Len(list)
                   /\ list[k].caption = CaptionOf(p, n)
             /\ list[k].endFrame # Null => Spans(list[k], n + 1) = Spans(list[k], n)
             /\ Spans(list[k], n) \subseteq 0 .. n - 1
  <2>1. list[k].startFrame \in 0 .. n /\ list[k].endFrame \in (0 .. n) \cup {Null}
    BY <1>1 DEF Placed
  <2>2. list[k].endFrame = Null => Open(list) /\ k = Len(list)
    BY <1>1, OnlyLastOpen
  <2>3. QED
    BY <2>1, <2>2, SpansNext DEF Last
<1>3. ASSUME NEW k \in DOMAIN list, NEW f \in Spans(list[k], n + 1)
      PROVE  CaptionOf(p, f) = list[k].caption
  BY <1>2 DEF CaptionsSoFar
<1>4. ASSUME NEW f \in 0 .. n, CaptionOf(p, f) # Null
      PROVE  \E k \in DOMAIN list : f \in Spans(list[k], n + 1)
  <2>1. CASE f # n
    <3>1. f \in 0 .. n - 1
      BY <2>1
    <3>2. PICK k \in DOMAIN list : f \in Spans(list[k], n)
      BY <1>4, <3>1 DEF CaptionsSoFar
    <3>3. QED
      BY <1>2, <3>2
  <2>2. CASE f = n
    <3>1. Open(list)
      BY <1>4, <2>2
    <3>2. Len(list) \in DOMAIN list /\ list[Len(list)].endFrame = Null
      BY <1>1, <3>1, LastMember DEF Placed, Open, Last
    <3>3. QED
      BY <1>2, <2>2, <3>2
  <2>3. QED
    BY <2>1, <2>2
<1>5. ASSUME NEW k \in DOMAIN list, NEW l \in DOMAIN list, NEW f \in 0 .. n,
             f \in Spans(list[k], n + 1), f \in Spans(list[l], n + 1)
      PROVE  k = l
  <2>1. CASE f # n
    <3>1. f \in 0 .. n - 1
      BY <2>1
    <3>2. f \in Spans(list[k], n) /\ f \in Spans(list[l], n)
      BY <1>2, <1>5, <2>1
    <3>3. QED
      BY <3>1, <3>2 DEF CaptionsSoFar
  <2>2. CASE f = n
    <3>1. f \notin 0 .. n - 1
      BY <2>2
    <3>2. list[k].endFrame = Null /\ list[l].endFrame = Null
      BY <1>2, <1>5, <3>1
    <3>3. QED
      BY <1>2, <3>2
  <2>3. QED
    BY <2>1, <2>2
<1>6. \A k \in DOMAIN list :
         /\ list[k] = Captioned(list[k].caption, list[k].startFrame, list[k].endFrame)
         /\ list[k].caption # Null
  BY DEF CaptionsSoFar
<1>7. QED
  BY <1>1, <1>3, <1>4, <1>5, <1>6 DEF CaptionsSoFar

\* What is open is closed at a frame that shows nothing.
LEMMA CaptionEnds ==
  ASSUME NEW p, NEW n \in Nat, NEW list, CaptionsSoFar(p, list, n), CaptionOf(p, n) = Null,
         NEW m, m = closed(list, n) \o <<>>
  PROVE  CaptionsSoFar(p, m, n + 1)
<1>1. PICK c, t : c = closed(list, n) /\ t = <<>>
  OBVIOUS
<1>2. ClosedCaptionsOf(m, list, n)
  <2>1. ClosedCaptionsOf(c, list, n)
    BY <1>1, ClosedCaptions
  <2>2. DOMAIN m = DOMAIN c /\ Len(m) = Len(c) /\ \A k \in DOMAIN c : m[k] = c[k]
    <3>1. PICK l \in Nat : DOMAIN c = 1 .. l /\ Len(c) = l
      BY <2>1 DEF IsSequence, ClosedCaptionsOf
    <3>2. Len(t) = 0
      BY <1>1
    <3>3. m = c \o t
      BY <1>1
    <3>4. QED
      BY <3>1, <3>2, <3>3
  <2>3. QED
    BY <2>1, <2>2 DEF IsSequence, ClosedCaptionsOf
<1>3. (n + 1) - 1 = n /\ 0 .. n \subseteq 0 .. n + 1
  OBVIOUS
<1>4. Placed(m, n + 1)
  BY <1>2, <1>3 DEF Placed, ClosedCaptionsOf
<1>5. \A k \in DOMAIN list : Spans(list[k], n) \subseteq 0 .. n - 1
  BY SpansNext DEF CaptionsSoFar, Placed
<1>6. ASSUME NEW f \in 0 .. n, CaptionOf(p, f) # Null
      PROVE  \E k \in DOMAIN m : f \in Spans(m[k], n + 1)
  <2>1. f \in 0 .. n - 1
    BY <1>6
  <2>2. PICK k \in DOMAIN list : f \in Spans(list[k], n)
    BY <1>6, <2>1 DEF CaptionsSoFar
  <2>3. QED
    BY <1>2, <2>2 DEF ClosedCaptionsOf
<1>7. ASSUME NEW k \in DOMAIN m, NEW l \in DOMAIN m, NEW f \in 0 .. n,
             f \in Spans(m[k], n + 1), f \in Spans(m[l], n + 1)
      PROVE  k = l
  <2>1. f \in Spans(list[k], n) /\ f \in Spans(list[l], n)
    BY <1>2, <1>7 DEF ClosedCaptionsOf
  <2>2. f \in 0 .. n - 1
    BY <1>2, <1>5, <2>1 DEF ClosedCaptionsOf
  <2>3. QED
    BY <1>2, <2>1, <2>2 DEF CaptionsSoFar, ClosedCaptionsOf
<1>8. ASSUME NEW k \in DOMAIN m
      PROVE  /\ m[k] = Captioned(m[k].caption, m[k].startFrame, m[k].endFrame)
             /\ m[k].caption # Null
             /\ \A f \in Spans(m[k], n + 1) : CaptionOf(p, f) = m[k].caption
  <2>1. PICK a, s, e : a = list[k].caption /\ s = list[k].startFrame /\ e = m[k].endFrame
    OBVIOUS
  <2>2. m[k] = Captioned(a, s, e) /\ m[k].caption = a
    BY <1>2, <2>1 DEF ClosedCaptionsOf
  <2>3. m[k].startFrame = s
    BY <2>2 DEF Captioned
  <2>4. a # Null /\ \A f \in Spans(list[k], n) : CaptionOf(p, f) = a
    BY <1>2, <2>1 DEF CaptionsSoFar, ClosedCaptionsOf
  <2>5. Spans(m[k], n + 1) = Spans(list[k], n)
    BY <1>2 DEF ClosedCaptionsOf
  <2>6. QED
    BY <2>1, <2>2, <2>3, <2>4, <2>5
<1>9. CaptionsSoFar(p, m, n + 1)
  BY <1>3, <1>4, <1>6, <1>7, <1>8 DEF CaptionsSoFar
<1>10. QED
  BY <1>9

\* A caption opens after what was closed.
LEMMA CaptionStarts ==
  ASSUME NEW p, NEW n \in Nat, NEW list, CaptionsSoFar(p, list, n), CaptionOf(p, n) # Null,
         NEW m, m = closed(list, n) \o <<Captioned(CaptionOf(p, n), n, Null)>>
  PROVE  CaptionsSoFar(p, m, n + 1)
<1>1. PICK c, t, x : /\ c = closed(list, n) /\ t = Len(m)
                     /\ x = Captioned(CaptionOf(p, n), n, Null)
  OBVIOUS
<1>2. ClosedCaptionsOf(c, list, n)
  BY <1>1, ClosedCaptions
<1>3. /\ IsSequence(m) /\ DOMAIN m = DOMAIN list \cup {t} /\ t \notin DOMAIN list
      /\ m[t] = x /\ \A k \in DOMAIN list : m[k] = c[k]
  <2>1. IsSequence(c) /\ DOMAIN c = DOMAIN list
    BY <1>2 DEF ClosedCaptionsOf
  <2>2. EndsWith(m, c, x)
    BY <1>1, <2>1, Appended
  <2>3. QED
    BY <1>1, <2>1, <2>2 DEF EndsWith
<1>4. (n + 1) - 1 = n /\ 0 .. n \subseteq 0 .. n + 1 /\ n \in 0 .. n + 1
  OBVIOUS
<1>5. x.caption = CaptionOf(p, n) /\ x.startFrame = n /\ x.endFrame = Null
  BY <1>1 DEF Captioned
<1>6. Spans(x, n + 1) = {n}
  <2>1. Spans(x, n + 1) = n .. (n + 1) - 1
    BY <1>5 DEF Spans, EndOf
  <2>2. QED
    BY <2>1
<1>7. Placed(m, n + 1)
  BY <1>1, <1>2, <1>3, <1>4, <1>5 DEF Placed, ClosedCaptionsOf
<1>8. \A k \in DOMAIN list : Spans(list[k], n) \subseteq 0 .. n - 1
  BY SpansNext DEF CaptionsSoFar, Placed
<1>9. \A k \in DOMAIN list : Spans(m[k], n + 1) = Spans(list[k], n)
  BY <1>2, <1>3 DEF ClosedCaptionsOf
<1>10. ASSUME NEW f \in 0 .. n, CaptionOf(p, f) # Null
       PROVE  \E k \in DOMAIN m : f \in Spans(m[k], n + 1)
  <2>1. CASE f = n
    BY <1>3, <1>6, <2>1
  <2>2. CASE f # n
    <3>1. f \in 0 .. n - 1
      BY <2>2
    <3>2. PICK k \in DOMAIN list : f \in Spans(list[k], n)
      BY <1>10, <3>1 DEF CaptionsSoFar
    <3>3. QED
      BY <1>3, <1>9, <3>2
  <2>3. QED
    BY <2>1, <2>2
<1>11. ASSUME NEW k \in DOMAIN m, NEW l \in DOMAIN m, NEW f \in 0 .. n,
              f \in Spans(m[k], n + 1), f \in Spans(m[l], n + 1)
       PROVE  k = l
  <2>1. CASE f # n
    <3>1. k # t /\ l # t
      BY <1>3, <1>6, <1>11, <2>1
    <3>2. k \in DOMAIN list /\ l \in DOMAIN list /\ f \in 0 .. n - 1
      BY <1>3, <2>1, <3>1
    <3>3. f \in Spans(list[k], n) /\ f \in Spans(list[l], n)
      BY <1>9, <1>11, <3>2
    <3>4. QED
      BY <3>2, <3>3 DEF CaptionsSoFar
  <2>2. CASE f = n
    <3>1. f \notin 0 .. n - 1
      BY <2>2
    <3>2. k \notin DOMAIN list /\ l \notin DOMAIN list
      BY <1>8, <1>9, <1>11, <3>1
    <3>3. QED
      BY <1>3, <3>2
  <2>3. QED
    BY <2>1, <2>2
<1>12. ASSUME NEW k \in DOMAIN m
       PROVE  /\ m[k] = Captioned(m[k].caption, m[k].startFrame, m[k].endFrame)
              /\ m[k].caption # Null
              /\ \A f \in Spans(m[k], n + 1) : CaptionOf(p, f) = m[k].caption
  <2>1. CASE k = t
    BY <1>1, <1>3, <1>5, <1>6, <2>1
  <2>2. CASE k # t
    <3>1. k \in DOMAIN list /\ m[k] = c[k]
      BY <1>3, <2>2
    <3>2. PICK v, s, e : v = list[k].caption /\ s = list[k].startFrame /\ e = c[k].endFrame
      OBVIOUS
    <3>3. m[k] = Captioned(v, s, e) /\ m[k].caption = v /\ m[k].endFrame = e
      BY <1>2, <3>1, <3>2 DEF ClosedCaptionsOf
    <3>4. m[k].startFrame = s
      BY <3>3 DEF Captioned
    <3>5. v # Null /\ \A f \in Spans(list[k], n) : CaptionOf(p, f) = v
      BY <3>1, <3>2 DEF CaptionsSoFar
    <3>6. QED
      BY <1>9, <3>1, <3>3, <3>4, <3>5
  <2>3. QED
    BY <2>1, <2>2
<1>13. CaptionsSoFar(p, m, n + 1)
  <2>1. \A f \in 0 .. (n + 1) - 1 : CaptionOf(p, f) # Null =>
            \E k \in DOMAIN m : f \in Spans(m[k], n + 1)
    BY <1>4, <1>10
  <2>2. \A k, l \in DOMAIN m : \A f \in 0 .. (n + 1) - 1 :
            f \in Spans(m[k], n + 1) /\ f \in Spans(m[l], n + 1) => k = l
    BY <1>4, <1>11
  <2>3. QED
    BY <1>7, <1>12, <2>1, <2>2 DEF CaptionsSoFar
<1>14. QED
  BY <1>13

\* One more frame of captions.
LEMMA CaptionsStep ==
  ASSUME NEW p, NEW n \in Nat, NEW list, CaptionsSoFar(p, list, n)
  PROVE  CaptionsSoFar(p, NextCaptions(list, CaptionOf(p, n), n), n + 1)
<1>1. PICK caption : caption = CaptionOf(p, n)
  OBVIOUS
<1>2. CASE IF Open(list) THEN Last(list).caption = caption ELSE caption = Null
  <2>1. NextCaptions(list, caption, n) = list
    BY <1>2 DEF NextCaptions, Open
  <2>2. QED
    BY <1>1, <1>2, <2>1, CaptionGoesOn
<1>3. CASE ~IF Open(list) THEN Last(list).caption = caption ELSE caption = Null
  <2>1. NextCaptions(list, caption, n) =
           closed(list, n) \o IF caption = Null THEN <<>> ELSE <<Captioned(caption, n, Null)>>
    BY <1>3 DEF NextCaptions, Open, Captioned
  <2>2. CASE caption = Null
    BY <1>1, <2>1, <2>2, CaptionEnds
  <2>3. CASE caption # Null
    BY <1>1, <2>1, <2>3, CaptionStarts
  <2>4. QED
    BY <2>2, <2>3
<1>4. QED
  BY <1>2, <1>3

\* The captions a list has in a frame.
CaptionsAt(list, f) == { list[k].caption : k \in Covering(list, f) }

\* The caption of a frame, if it has one.
CaptionsOf(p, f) == {CaptionOf(p, f)} \ {Null}

\* The captions that are reported are those of the frames.
LEMMA CaptionsMatch ==
  ASSUME NEW p, NEW n \in Nat, NEW list, CaptionsSoFar(p, list, n), NEW f \in 0 .. n - 1,
         NEW m, m = closed(list, n)
  PROVE  /\ CaptionsAt(m, f) = CaptionsOf(p, f)
         /\ Cardinality(Covering(m, f)) <= 1
<1>1. PICK caption : caption = CaptionOf(p, f)
  OBVIOUS
<1>2. ClosedCaptionsOf(m, list, n)
  BY ClosedCaptions
<1>3. PICK S : S = Covering(m, f)
  OBVIOUS
<1>4. S = { k \in DOMAIN list : f \in Spans(list[k], n) }
  BY <1>2, <1>3 DEF Covering, ClosedCaptionsOf
<1>5. \A k \in S : m[k].caption = caption /\ caption # Null
  BY <1>1, <1>2, <1>4 DEF CaptionsSoFar, ClosedCaptionsOf
<1>6. caption # Null => S # {}
  BY <1>1, <1>4 DEF CaptionsSoFar
<1>7. { m[k].caption : k \in S } = {caption} \ {Null}
  BY <1>5, <1>6
<1>8. Cardinality(S) <= 1
  <2>1. \A k, l \in S : k = l
    BY <1>4 DEF CaptionsSoFar
  <2>2. CASE S = {}
    BY <2>2, FS_EmptySet
  <2>3. CASE S # {}
    <3>1. PICK k : S = {k}
      BY <2>1, <2>3
    <3>2. QED
      BY <3>1, FS_Singleton
  <2>4. QED
    BY <2>2, <2>3
<1>9. QED
  BY <1>1, <1>3, <1>7, <1>8 DEF CaptionsAt, CaptionsOf

Labelled(label, from, to) == [label |-> label, startFrame |-> from, endFrame |-> to]
LabelOf(p, f) == frameState(p, f).label

\* The chapters before frame n: each frame is in one of its label; the last is open.
ChaptersSoFar(p, list, n) ==
    /\ Placed(list, n)
    /\ list # <<>> => Open(list)
    /\ \A k \in DOMAIN list :
           /\ list[k] = Labelled(list[k].label, list[k].startFrame, list[k].endFrame)
           /\ \A f \in Spans(list[k], n) : LabelOf(p, f) = list[k].label
    /\ \A f \in 0 .. n - 1 : \E k \in DOMAIN list : f \in Spans(list[k], n)

\* m holds the chapters of the list, all closed at n.
ClosedChaptersOf(m, list, n) ==
    /\ IsSequence(m) /\ DOMAIN m = DOMAIN list
    /\ \A k \in DOMAIN list :
          /\ m[k] = Labelled(list[k].label, list[k].startFrame, m[k].endFrame)
          /\ m[k].startFrame \in 0 .. n /\ m[k].endFrame \in 0 .. n /\ m[k].endFrame # Null
          /\ m[k].label = list[k].label
          /\ \A o : Spans(m[k], o) = Spans(list[k], n)
          /\ m[k].startFrame .. m[k].endFrame - 1 = Spans(list[k], n)

\* What closed makes of the chapters.
LEMMA ClosedChapters ==
  ASSUME NEW p, NEW n \in Nat, NEW list, ChaptersSoFar(p, list, n)
  PROVE  ClosedChaptersOf(closed(list, n), list, n)
<1>0. PICK m : m = closed(list, n)
  OBVIOUS
<1>1. IsSequence(m) /\ DOMAIN m = DOMAIN list /\ \A k \in DOMAIN list : m[k] = ClosedAt(list[k], n)
  BY <1>0, Closed DEF ChaptersSoFar
<1>2. ASSUME NEW k \in DOMAIN list
      PROVE  /\ m[k] = Labelled(list[k].label, list[k].startFrame, m[k].endFrame)
             /\ m[k].startFrame \in 0 .. n /\ m[k].endFrame \in 0 .. n /\ m[k].endFrame # Null
             /\ m[k].label = list[k].label
             /\ \A o : Spans(m[k], o) = Spans(list[k], n)
             /\ m[k].startFrame .. m[k].endFrame - 1 = Spans(list[k], n)
  <2>1. PICK x, y : x = list[k] /\ y = m[k]
    OBVIOUS
  <2>2. /\ x = Labelled(x.label, x.startFrame, x.endFrame) /\ x.startFrame \in 0 .. n
        /\ x.endFrame \in (0 .. n) \cup {Null} /\ y = ClosedAt(x, n)
    BY <1>1, <2>1 DEF ChaptersSoFar, Placed
  <2>3. /\ y.startFrame = x.startFrame /\ y.endFrame \in 0 .. n /\ y.endFrame # Null
        /\ \A o : Spans(y, o) = Spans(x, n)
        /\ y.startFrame .. y.endFrame - 1 = Spans(x, n)
    <3>1. y.startFrame = x.startFrame /\ y.endFrame = EndOf(x, n)
      BY <2>2 DEF ClosedAt, EndOf, Labelled
    <3>2. QED
      BY <2>2, <3>1, SpansClosed
  <2>4. y = Labelled(x.label, x.startFrame, y.endFrame) /\ y.label = x.label
    BY <2>2 DEF ClosedAt, Labelled
  <2>5. QED
    BY <2>1, <2>2, <2>3, <2>4
<1>3. QED
  BY <1>0, <1>1, <1>2 DEF ClosedChaptersOf

\* The next list of chapters, given the label of frame n.
NextChapters(list, label, n) ==
    IF list # <<>> /\ Last(list).label = label THEN list
    ELSE Append(closed(list, n), [label |-> label, startFrame |-> n, endFrame |-> Null])

\* A frame of the chapter that is open.
LEMMA ChapterContinues ==
  ASSUME NEW p, NEW n \in Nat, NEW list, ChaptersSoFar(p, list, n), list # <<>>,
         Last(list).label = LabelOf(p, n)
  PROVE  ChaptersSoFar(p, list, n + 1)
<1>1. (n + 1) - 1 = n /\ Placed(list, n) /\ Placed(list, n + 1) /\ Open(list)
  BY DEF ChaptersSoFar, Placed
<1>2. ASSUME NEW k \in DOMAIN list
      PROVE  /\ list[k].endFrame = Null =>
                   Spans(list[k], n + 1) = Spans(list[k], n) \cup {n}
                   /\ list[k].label = LabelOf(p, n)
             /\ list[k].endFrame # Null => Spans(list[k], n + 1) = Spans(list[k], n)
  <2>1. list[k].startFrame \in 0 .. n /\ list[k].endFrame \in (0 .. n) \cup {Null}
    BY <1>1 DEF Placed
  <2>2. list[k].endFrame = Null => k = Len(list)
    BY <1>1, OnlyLastOpen
  <2>3. QED
    BY <2>1, <2>2, SpansNext DEF Last
<1>3. ASSUME NEW k \in DOMAIN list, NEW f \in Spans(list[k], n + 1)
      PROVE  LabelOf(p, f) = list[k].label
  BY <1>2 DEF ChaptersSoFar
<1>4. ASSUME NEW f \in 0 .. n
      PROVE  \E k \in DOMAIN list : f \in Spans(list[k], n + 1)
  <2>1. CASE f # n
    <3>1. f \in 0 .. n - 1
      BY <2>1
    <3>2. PICK k \in DOMAIN list : f \in Spans(list[k], n)
      BY <3>1 DEF ChaptersSoFar
    <3>3. QED
      BY <1>2, <3>2
  <2>2. CASE f = n
    <3>1. Len(list) \in DOMAIN list /\ list[Len(list)].endFrame = Null
      BY <1>1, LastMember DEF Placed, Open, Last
    <3>2. QED
      BY <1>2, <2>2, <3>1
  <2>3. QED
    BY <2>1, <2>2
<1>5. \A k \in DOMAIN list :
         list[k] = Labelled(list[k].label, list[k].startFrame, list[k].endFrame)
  BY DEF ChaptersSoFar
<1>6. QED
  BY <1>1, <1>3, <1>4, <1>5 DEF ChaptersSoFar

\* A chapter opens after what was closed.
LEMMA ChapterStarts ==
  ASSUME NEW p, NEW n \in Nat, NEW list, ChaptersSoFar(p, list, n),
         NEW m, m = Append(closed(list, n), Labelled(LabelOf(p, n), n, Null))
  PROVE  ChaptersSoFar(p, m, n + 1)
<1>1. PICK c, t, x : /\ c = closed(list, n) /\ t = Len(m)
                     /\ x = Labelled(LabelOf(p, n), n, Null)
  OBVIOUS
<1>2. ClosedChaptersOf(c, list, n)
  BY <1>1, ClosedChapters
<1>3. EndsWith(m, c, x) /\ DOMAIN c = DOMAIN list
  BY <1>1, <1>2, Appended DEF ClosedChaptersOf
<1>4. /\ IsSequence(m) /\ DOMAIN m = DOMAIN list \cup {t} /\ t \notin DOMAIN list
      /\ m[t] = x /\ \A k \in DOMAIN list : m[k] = c[k]
  BY <1>1, <1>3 DEF EndsWith
<1>5. (n + 1) - 1 = n /\ 0 .. n \subseteq 0 .. n + 1 /\ n \in 0 .. n + 1
  OBVIOUS
<1>6. x.label = LabelOf(p, n) /\ x.startFrame = n /\ x.endFrame = Null
  BY <1>1 DEF Labelled
<1>7. Spans(x, n + 1) = {n}
  <2>1. Spans(x, n + 1) = n .. (n + 1) - 1
    BY <1>6 DEF Spans, EndOf
  <2>2. QED
    BY <2>1
<1>8. Placed(m, n + 1)
  BY <1>1, <1>2, <1>4, <1>5, <1>6 DEF Placed, ClosedChaptersOf
<1>9. \A k \in DOMAIN list : Spans(m[k], n + 1) = Spans(list[k], n)
  BY <1>2, <1>4 DEF ClosedChaptersOf
<1>10. Open(m)
  <2>1. m # <<>>
    BY <1>4, LastMember
  <2>2. QED
    BY <1>1, <1>4, <1>6, <2>1 DEF Open, Last
<1>11. ASSUME NEW f \in 0 .. n
       PROVE  \E k \in DOMAIN m : f \in Spans(m[k], n + 1)
  <2>1. CASE f = n
    BY <1>4, <1>7, <2>1
  <2>2. CASE f # n
    <3>1. f \in 0 .. n - 1
      BY <2>2
    <3>2. PICK k \in DOMAIN list : f \in Spans(list[k], n)
      BY <3>1 DEF ChaptersSoFar
    <3>3. QED
      BY <1>4, <1>9, <3>2
  <2>3. QED
    BY <2>1, <2>2
<1>12. ASSUME NEW k \in DOMAIN m
       PROVE  /\ m[k] = Labelled(m[k].label, m[k].startFrame, m[k].endFrame)
              /\ \A f \in Spans(m[k], n + 1) : LabelOf(p, f) = m[k].label
  <2>1. CASE k = t
    BY <1>1, <1>4, <1>6, <1>7, <2>1
  <2>2. CASE k # t
    <3>1. k \in DOMAIN list /\ m[k] = c[k]
      BY <1>4, <2>2
    <3>2. PICK v, s, e : v = list[k].label /\ s = list[k].startFrame /\ e = c[k].endFrame
      OBVIOUS
    <3>3. m[k] = Labelled(v, s, e) /\ m[k].label = v /\ m[k].endFrame = e
      BY <1>2, <3>1, <3>2 DEF ClosedChaptersOf
    <3>4. m[k].startFrame = s
      BY <3>3 DEF Labelled
    <3>5. \A f \in Spans(list[k], n) : LabelOf(p, f) = v
      BY <3>1, <3>2 DEF ChaptersSoFar
    <3>6. QED
      BY <1>9, <3>1, <3>3, <3>4, <3>5
  <2>3. QED
    BY <2>1, <2>2
<1>13. QED
  BY <1>5, <1>8, <1>10, <1>11, <1>12 DEF ChaptersSoFar

\* One more frame of chapters.
LEMMA ChaptersStep ==
  ASSUME NEW p, NEW n \in Nat, NEW list, ChaptersSoFar(p, list, n)
  PROVE  ChaptersSoFar(p, NextChapters(list, LabelOf(p, n), n), n + 1)
<1>1. PICK label : label = LabelOf(p, n)
  OBVIOUS
<1>2. CASE list # <<>> /\ Last(list).label = label
  <2>1. NextChapters(list, label, n) = list
    BY <1>2 DEF NextChapters
  <2>2. QED
    BY <1>1, <1>2, <2>1, ChapterContinues
<1>3. CASE ~(list # <<>> /\ Last(list).label = label)
  <2>1. NextChapters(list, label, n) = Append(closed(list, n), Labelled(label, n, Null))
    BY <1>3 DEF NextChapters, Labelled
  <2>2. QED
    BY <1>1, <2>1, ChapterStarts
<1>4. QED
  BY <1>2, <1>3

\* The labels a list has in a frame.
LabelsAt(list, f) == { list[k].label : k \in Covering(list, f) }

\* The chapters that are reported are those of the frames.
LEMMA ChaptersMatch ==
  ASSUME NEW p, NEW n \in Nat, NEW list, ChaptersSoFar(p, list, n), NEW f \in 0 .. n - 1,
         NEW m, m = closed(list, n)
  PROVE  LabelsAt(m, f) = {LabelOf(p, f)}
<1>1. PICK label : label = LabelOf(p, f)
  OBVIOUS
<1>2. ClosedChaptersOf(m, list, n)
  BY ClosedChapters
<1>3. PICK S : S = Covering(m, f)
  OBVIOUS
<1>4. S = { k \in DOMAIN list : f \in Spans(list[k], n) }
  BY <1>2, <1>3 DEF Covering, ClosedChaptersOf
<1>5. \A k \in S : m[k].label = label
  BY <1>1, <1>2, <1>4 DEF ChaptersSoFar, ClosedChaptersOf
<1>6. S # {}
  BY <1>4 DEF ChaptersSoFar
<1>7. { m[k].label : k \in S } = {label}
  BY <1>5, <1>6
<1>8. QED
  BY <1>1, <1>3, <1>7 DEF LabelsAt

(***************************************************************************)
(* Crossfades.                                                             *)
(***************************************************************************)
\* A frame before a time comes before a frame that is not.
LEMMA FramesBetween ==
  ASSUME NEW f \in Int, NEW g \in Int, NEW rate \in Rate, NEW e \in Time,
         compare(outputTime(f, rate), e) < 0, compare(outputTime(g, rate), e) >= 0
  PROVE  f < g
<1>1. PICK t, u : t = outputTime(f, rate) /\ u = outputTime(g, rate)
  OBVIOUS
<1>2. t \in Time /\ u \in Time
  BY <1>1, FrameTime
<1>3. PICK d \in Positive : \E na, nb, nc, ne, nf, ng \in Int :
            Six(t, u, e, e, e, e, na, nb, nc, ne, nf, ng, d)
  BY <1>2, SixTimes
<1>4. PICK n \in Int, m \in Int, k \in Int : Val(t, n, d) /\ Val(u, m, d) /\ Val(e, k, d)
  BY <1>3 DEF Six
<1>5. /\ compare(t, e) < 0 <=> n < k
      /\ compare(u, e) < 0 <=> m < k
      /\ compare(t, u) < 0 <=> n < m
      /\ compare(u, e) \in Int
  BY <1>2, <1>4, CompareVal
<1>6. compare(t, u) < 0
  BY <1>1, <1>5
<1>7. QED
  BY <1>1, <1>6, FramesInOrder

\* Two successive frames of transitions that lie apart are in the same one.
LEMMA SameTransition ==
  ASSUME NEW p \in Plans, Apart(p), NEW f \in Nat, Fading(p, f), Fading(p, f + 1)
  PROVE  TransitionIndex(p, outputTime(f, p.rate)) = TransitionIndex(p, outputTime(f + 1, p.rate))
<1>1. PICK i, j : /\ i = TransitionIndex(p, outputTime(f, p.rate))
                  /\ j = TransitionIndex(p, outputTime(f + 1, p.rate))
  OBVIOUS
<1>2. /\ i \in DOMAIN p.occurrences /\ p.occurrences[i].role = "transition"
      /\ active(outputTime(f, p.rate), p.occurrences[i].outputRange)
  BY <1>1, TransitionPlace
<1>3. /\ j \in DOMAIN p.occurrences /\ p.occurrences[j].role = "transition"
      /\ active(outputTime(f + 1, p.rate), p.occurrences[j].outputRange)
  BY <1>1, TransitionPlace
<1>4. i \in Nat /\ j \in Nat /\ p.rate \in Rate /\ f \in Int /\ f + 1 \in Int
  BY <1>2, <1>3, PlanFacts
<1>5. \A k \in DOMAIN p.occurrences : /\ p.occurrences[k].outputRange.start \in Time
                                     /\ rangeEnd(p.occurrences[k].outputRange) \in Time
  BY PlanFacts, RangeEnds DEF Clip, TimeRange
<1>6. ASSUME i < j PROVE FALSE
  <2>1. PICK g \in 0 .. p.frameCount - 1 :
            /\ compare(outputTime(g, p.rate), rangeEnd(p.occurrences[i].outputRange)) >= 0
            /\ compare(outputTime(g, p.rate), p.occurrences[j].outputRange.start) < 0
    BY <1>2, <1>3, <1>6 DEF Apart
  <2>2. g \in Int
    OBVIOUS
  <2>3. f < g
    BY <1>2, <1>4, <1>5, <2>1, <2>2, FramesBetween DEF active
  <2>4. g < f + 1
    BY <1>3, <1>4, <1>5, <2>1, <2>2, FramesBetween DEF active
  <2>5. QED
    BY <2>2, <2>3, <2>4
<1>7. ASSUME j < i PROVE FALSE
  <2>1. PICK g \in 0 .. p.frameCount - 1 :
            /\ compare(outputTime(g, p.rate), rangeEnd(p.occurrences[j].outputRange)) >= 0
            /\ compare(outputTime(g, p.rate), p.occurrences[i].outputRange.start) < 0
    BY <1>2, <1>3, <1>7 DEF Apart
  <2>2. g \in Int
    OBVIOUS
  <2>3. f + 1 < g
    BY <1>3, <1>4, <1>5, <2>1, <2>2, FramesBetween DEF active
  <2>4. g < f
    BY <1>2, <1>4, <1>5, <2>1, <2>2, FramesBetween DEF active
  <2>5. QED
    BY <2>2, <2>3, <2>4
<1>8. QED
  BY <1>1, <1>4, <1>6, <1>7

SourcesOf(layers) == [i \in DOMAIN layers |-> layers[i].sourceId]
Pictures(p, f) == SourcesOf(frameState(p, f).pictureLayers)

\* The two pictures and the two sounds of a transition.
LEMMA FadeSources ==
  ASSUME NEW p \in Plans, freezeSnapshot(p), NEW f \in Nat, Fading(p, f), NEW i,
         i = TransitionIndex(p, outputTime(f, p.rate))
  PROVE  LET pair == <<p.occurrences[i].sourceId, p.occurrences[i + 1].sourceId>>
         IN  /\ Pictures(p, f) = pair /\ SourcesOf(Roles(p, f)) = pair
             /\ pair \in Seq(SourceIds) /\ Len(pair) = 2
<1>1. PICK time, tr, ch : /\ time = outputTime(f, p.rate)
                          /\ tr = p.occurrences[i] /\ ch = p.occurrences[i + 1]
  OBVIOUS
<1>2. i \in DOMAIN p.occurrences /\ p.occurrences[i].role = "transition" /\ p.fixture = "L"
  BY TransitionPlace DEF Fading
<1>3. i + 1 \in DOMAIN p.occurrences
  BY <1>2, AcceptedTransitions
<1>4. tr.sourceId \in SourceIds /\ ch.sourceId \in SourceIds
  BY <1>1, <1>2, <1>3, AcceptedOccurrences DEF Sound, SourceIds
<1>5. PICK layers : layers = lTransition(p, f, time)
  OBVIOUS
<1>6. PICK progress, a, b :
         /\ progress = clamp(ratioNumber(subtract(time, tr.outputRange.start),
                                         tr.outputRange.duration))
         /\ a = [layerFor(p, tr, f, time) EXCEPT
                    !.role = "transition-outgoing", !.gain = subtract(One, progress)]
         /\ b = [occurrenceId |-> ch.id, sourceId |-> ch.sourceId,
               role |-> "transition-incoming", retime |-> [num |-> 1, den |-> 1],
               sourceTime |-> add(incomingHandle(ch, tr).start, subtract(time, tr.outputRange.start)),
               localFrame |-> 0, gain |-> progress]
  OBVIOUS
<1>7. layers = <<a, b>> /\ a.sourceId = tr.sourceId /\ b.sourceId = ch.sourceId
  <2>1. a.sourceId = tr.sourceId /\ b.sourceId = ch.sourceId
    BY <1>6 DEF layerFor
  <2>2. layers = <<a, b>>
    BY <1>1, <1>5, <1>6 DEF lTransition
  <2>3. QED
    BY <2>1, <2>2
<1>8. SourcesOf(layers) = <<tr.sourceId, ch.sourceId>>
  BY <1>7 DEF SourcesOf
<1>9. frameState(p, f).pictureLayers = layers /\ Roles(p, f) = layers
  BY <1>1, <1>5, PicturesOfFrame, RolesOfFrame DEF Roles
<1>10. <<tr.sourceId, ch.sourceId>> \in Seq(SourceIds) /\ Len(<<tr.sourceId, ch.sourceId>>) = 2
  BY <1>4
<1>11. QED
  BY <1>1, <1>8, <1>9, <1>10 DEF Pictures

\* x spans frames of one transition.
Fade(p, x) ==
    \A f \in x.startFrame .. x.endFrame - 1 : Fading(p, f) /\ Pictures(p, f) = x.pair.pictures

InFade(x, f) == f \in x.startFrame .. x.endFrame - 1

FadeListed(p, list, open, f) ==
    Fading(p, f) => \/ \E k \in DOMAIN list : InFade(list[k], f)
                    \/ open # Null /\ InFade(open, f)

\* The transitions before frame n: those that are closed and the open one.
FadesSoFar(p, list, open, n) ==
    /\ IsSequence(list)
    /\ \A k \in DOMAIN list : Fade(p, list[k])
    /\ open # Null =>
           /\ open \in Crossfade /\ open.endFrame = n /\ open.startFrame < n
           /\ Fade(p, open)
    /\ \A f \in 0 .. n - 1 : FadeListed(p, list, open, f)

PairOf(p, f) == [pictures |-> Pictures(p, f), sounds |-> SourcesOf(Roles(p, f))]

\* A crossfade is two pictures and two sounds.
Double(pair) == Len(pair.pictures) = 2 /\ Len(pair.sounds) = 2

NextFade(p, open, pair, n) ==
    IF ~Double(pair) THEN Null
    ELSE IF open = Null THEN [pair |-> pair, startFrame |-> n, endFrame |-> n + 1]
    ELSE [open EXCEPT !.endFrame = n + 1]

NextFades(list, open, pair) == IF ~Double(pair) /\ open # Null THEN Append(list, open) ELSE list

\* Of a film, two sounds are those of a transition.
LEMMA DoubleFades ==
  ASSUME NEW p \in Plans, freezeSnapshot(p), NEW f \in Nat, p.fixture = "L", ~frameThrows(p, f)
  PROVE  /\ Double(PairOf(p, f)) <=> Fading(p, f)
         /\ Fading(p, f) => /\ PairOf(p, f) \in [pictures : Seq(SourceIds), sounds : Seq(SourceIds)]
                            /\ PairOf(p, f).pictures = Pictures(p, f)
<1>1. ASSUME Fading(p, f)
      PROVE  /\ Double(PairOf(p, f)) /\ PairOf(p, f).pictures = Pictures(p, f)
             /\ PairOf(p, f) \in [pictures : Seq(SourceIds), sounds : Seq(SourceIds)]
  <2>1. /\ Pictures(p, f) \in Seq(SourceIds) /\ SourcesOf(Roles(p, f)) \in Seq(SourceIds)
        /\ Len(Pictures(p, f)) = 2 /\ Len(SourcesOf(Roles(p, f))) = 2
    BY <1>1, FadeSources
  <2>2. QED
    BY <2>1 DEF PairOf, Double
<1>2. ASSUME ~Fading(p, f) PROVE ~Double(PairOf(p, f))
  <2>1. \E x : Roles(p, f) = <<x>>
    BY <1>2, RolesOfFrame DEF Roles
  <2>2. PICK x : Roles(p, f) = <<x>>
    BY <2>1
  <2>3. PICK y : y = x.sourceId
    OBVIOUS
  <2>4. SourcesOf(Roles(p, f)) = <<y>>
    BY <2>2, <2>3 DEF SourcesOf
  <2>5. Len(<<y>>) # 2
    OBVIOUS
  <2>6. QED
    BY <2>4, <2>5 DEF PairOf, Double
<1>3. QED
  BY <1>1, <1>2

\* A frame without a transition closes the fade that was open.
LEMMA FadeEnds ==
  ASSUME NEW p, NEW n \in Nat, NEW list, NEW open, FadesSoFar(p, list, open, n)
  PROVE  LET m == IF open = Null THEN list ELSE Append(list, open)
         IN  /\ IsSequence(m) /\ \A k \in DOMAIN m : Fade(p, m[k])
             /\ \A f \in 0 .. n - 1 : Fading(p, f) => \E k \in DOMAIN m : InFade(m[k], f)
<1>1. CASE open = Null
  BY <1>1 DEF FadesSoFar, FadeListed
<1>2. CASE open # Null
  <2>1. PICK m : m = Append(list, open)
    OBVIOUS
  <2>2. EndsWith(m, list, open)
    BY <2>1, Appended DEF FadesSoFar
  <2>3. /\ IsSequence(m) /\ DOMAIN m = DOMAIN list \cup {Len(m)} /\ m[Len(m)] = open
        /\ \A k \in DOMAIN list : m[k] = list[k]
    BY <2>2 DEF EndsWith
  <2>4. \A k \in DOMAIN m : Fade(p, m[k])
    BY <1>2, <2>3 DEF FadesSoFar
  <2>5. \A f \in 0 .. n - 1 : Fading(p, f) => \E k \in DOMAIN m : InFade(m[k], f)
    BY <1>2, <2>3 DEF FadesSoFar, FadeListed
  <2>6. QED
    BY <1>2, <2>1, <2>3, <2>4, <2>5
<1>3. QED
  BY <1>1, <1>2

\* One more frame of crossfades.
LEMMA FadesStep ==
  ASSUME NEW p \in Plans, freezeSnapshot(p), NEW n \in Nat, p.fixture = "L", ~frameThrows(p, n),
         Apart(p), NEW list, NEW open, FadesSoFar(p, list, open, n),
         NEW pair, pair = PairOf(p, n)
  PROVE  FadesSoFar(p, NextFades(list, open, pair), NextFade(p, open, pair, n), n + 1)
<1>1. 0 .. (n + 1) - 1 = 0 .. n
  OBVIOUS
<1>2. CASE ~Fading(p, n)
  <2>1. ~Double(pair)
    BY <1>2, DoubleFades
  <2>2. PICK m : m = IF open = Null THEN list ELSE Append(list, open)
    OBVIOUS
  <2>3. NextFades(list, open, pair) = m /\ NextFade(p, open, pair, n) = Null
    BY <2>1, <2>2 DEF NextFades, NextFade
  <2>4. /\ IsSequence(m) /\ \A k \in DOMAIN m : Fade(p, m[k])
        /\ \A f \in 0 .. n - 1 : Fading(p, f) => \E k \in DOMAIN m : InFade(m[k], f)
    BY <2>2, FadeEnds
  <2>5. \A f \in 0 .. n : Fading(p, f) => \E k \in DOMAIN m : InFade(m[k], f)
    <3> SUFFICES ASSUME NEW f \in 0 .. n, Fading(p, f) PROVE \E k \in DOMAIN m : InFade(m[k], f)
      OBVIOUS
    <3>1. f # n
      BY <1>2
    <3>2. f \in 0 .. n - 1
      BY <3>1
    <3>3. QED
      BY <2>4, <3>2
  <2>6. QED
    <3>1. \A f \in 0 .. (n + 1) - 1 : FadeListed(p, m, Null, f)
      <4>1. \A f \in 0 .. n : FadeListed(p, m, Null, f)
        BY <2>5 DEF FadeListed
      <4>2. QED
        BY <1>1, <4>1
    <3>2. FadesSoFar(p, m, Null, n + 1)
      BY <2>4, <3>1 DEF FadesSoFar
    <3>3. QED
      BY <2>3, <3>2
<1>3. CASE Fading(p, n)
  <2>1. /\ Double(pair) /\ pair \in [pictures : Seq(SourceIds), sounds : Seq(SourceIds)]
        /\ pair.pictures = Pictures(p, n)
    BY <1>3, DoubleFades
  <2>2. PICK x : x = NextFade(p, open, pair, n)
    OBVIOUS
  <2>3. NextFades(list, open, pair) = list
    BY <2>1 DEF NextFades
  <2>4. CASE open = Null
    <3>1. x = [pair |-> pair, startFrame |-> n, endFrame |-> n + 1]
      BY <2>1, <2>2, <2>4 DEF NextFade
    <3>2. x.pair = pair /\ x.startFrame = n /\ x.endFrame = n + 1 /\ x \in Crossfade
      BY <2>1, <3>1 DEF Crossfade
    <3>3. Fade(p, x)
      <4> SUFFICES ASSUME NEW f \in x.startFrame .. x.endFrame - 1
                   PROVE  Fading(p, f) /\ Pictures(p, f) = x.pair.pictures
        BY DEF Fade
      <4>1. f = n
        BY <3>2
      <4>2. QED
        BY <1>3, <2>1, <3>2, <4>1
    <3>4. x # Null
      BY <3>2, NullAssumption
    <3>5. \A f \in 0 .. n : Fading(p, f) =>
             (\E k \in DOMAIN list : InFade(list[k], f)) \/ InFade(x, f)
      <4> SUFFICES ASSUME NEW f \in 0 .. n, Fading(p, f)
                   PROVE  (\E k \in DOMAIN list : InFade(list[k], f)) \/ InFade(x, f)
        OBVIOUS
      <4>1. CASE f = n
        BY <3>2, <4>1 DEF InFade
      <4>2. CASE f # n
        <5>1. f \in 0 .. n - 1
          BY <4>2
        <5>2. QED
          BY <2>4, <5>1 DEF FadesSoFar, FadeListed
      <4>3. QED
        BY <4>1, <4>2
    <3>6. x.startFrame < n + 1
      BY <3>2
    <3>7. FadesSoFar(p, list, x, n + 1)
      <4>1. \A f \in 0 .. (n + 1) - 1 : FadeListed(p, list, x, f)
        <5>1. \A f \in 0 .. n : FadeListed(p, list, x, f)
          BY <3>4, <3>5 DEF FadeListed
        <5>2. QED
          BY <1>1, <5>1
      <4>2. QED
        BY <3>2, <3>3, <3>6, <4>1 DEF FadesSoFar
    <3>8. QED
      BY <2>2, <2>3, <3>7
  <2>5. CASE open # Null
    <3>1. /\ open \in Crossfade /\ open.endFrame = n /\ open.startFrame < n /\ Fade(p, open)
      BY <2>5 DEF FadesSoFar
    <3>2. x = [open EXCEPT !.endFrame = n + 1]
      BY <2>1, <2>2, <2>5 DEF NextFade
    <3>3. /\ x.pair = open.pair /\ x.startFrame = open.startFrame /\ x.endFrame = n + 1
          /\ x \in Crossfade
      BY <3>1, <3>2 DEF Crossfade
    <3>4. open.startFrame \in Nat
      BY <3>1 DEF Crossfade
    <3>5. Pictures(p, n) = open.pair.pictures
      <4>1. PICK f \in Nat : f = n - 1
        BY <3>1, <3>4
      <4>2. f \in open.startFrame .. open.endFrame - 1 /\ f + 1 = n
        BY <3>1, <3>4, <4>1
      <4>3. Fading(p, f) /\ Pictures(p, f) = open.pair.pictures
        BY <3>1, <4>2 DEF Fade
      <4>4. PICK i : i = TransitionIndex(p, outputTime(f, p.rate))
        OBVIOUS
      <4>5. i = TransitionIndex(p, outputTime(n, p.rate))
        BY <1>3, <4>2, <4>3, <4>4, SameTransition
      <4>6. Pictures(p, f) = <<p.occurrences[i].sourceId, p.occurrences[i + 1].sourceId>>
        BY <4>3, <4>4, FadeSources
      <4>7. Pictures(p, n) = <<p.occurrences[i].sourceId, p.occurrences[i + 1].sourceId>>
        BY <1>3, <4>5, FadeSources
      <4>8. QED
        BY <4>3, <4>6, <4>7
    <3>6. Fade(p, x)
      <4> SUFFICES ASSUME NEW f \in x.startFrame .. x.endFrame - 1
                   PROVE  Fading(p, f) /\ Pictures(p, f) = x.pair.pictures
        BY DEF Fade
      <4>1. CASE f = n
        BY <1>3, <3>3, <3>5, <4>1
      <4>2. CASE f # n
        <5>1. f \in open.startFrame .. open.endFrame - 1
          BY <3>1, <3>3, <3>4, <4>2
        <5>2. QED
          BY <3>1, <3>3, <5>1 DEF Fade
      <4>3. QED
        BY <4>1, <4>2
    <3>7. x # Null
      BY <3>3, NullAssumption
    <3>8. \A f \in 0 .. n : Fading(p, f) =>
             (\E k \in DOMAIN list : InFade(list[k], f)) \/ InFade(x, f)
      <4> SUFFICES ASSUME NEW f \in 0 .. n, Fading(p, f)
                   PROVE  (\E k \in DOMAIN list : InFade(list[k], f)) \/ InFade(x, f)
        OBVIOUS
      <4>1. CASE f = n
        BY <3>1, <3>3, <3>4, <4>1 DEF InFade
      <4>2. CASE f # n
        <5>1. f \in 0 .. n - 1
          BY <4>2
        <5>2. (\E k \in DOMAIN list : InFade(list[k], f)) \/ InFade(open, f)
          BY <5>1 DEF FadesSoFar, FadeListed
        <5>3. InFade(open, f) => InFade(x, f)
          BY <3>1, <3>3, <3>4 DEF InFade
        <5>4. QED
          BY <5>2, <5>3
      <4>3. QED
        BY <4>1, <4>2
    <3>9. x.startFrame < n + 1
      BY <3>1, <3>3, <3>4
    <3>10. FadesSoFar(p, list, x, n + 1)
      <4>1. \A f \in 0 .. (n + 1) - 1 : FadeListed(p, list, x, f)
        <5>1. \A f \in 0 .. n : FadeListed(p, list, x, f)
          BY <3>7, <3>8 DEF FadeListed
        <5>2. QED
          BY <1>1, <5>1
      <4>2. QED
        BY <3>3, <3>6, <3>9, <4>1 DEF FadesSoFar
    <3>11. QED
      BY <2>2, <2>3, <3>10
  <2>6. QED
    BY <2>4, <2>5
<1>4. QED
  BY <1>2, <1>3

\* The pairs of pictures a list fades in a frame.
PairsAt(list, f) == { list[k].pair.pictures : k \in Covering(list, f) }

\* The crossfades that are reported are those of the frames.
LEMMA FadesMatch ==
  ASSUME NEW p, NEW n \in Nat, NEW list, NEW open, FadesSoFar(p, list, open, n),
         NEW m, m = IF open = Null THEN list ELSE Append(list, open), NEW f \in 0 .. n - 1
  PROVE  PairsAt(m, f) = IF Fading(p, f) THEN {Pictures(p, f)} ELSE {}
<1>1. /\ \A k \in DOMAIN m : Fade(p, m[k])
      /\ Fading(p, f) => \E k \in DOMAIN m : InFade(m[k], f)
  BY FadeEnds
<1>2. PICK S : S = Covering(m, f)
  OBVIOUS
<1>3. S = { k \in DOMAIN m : InFade(m[k], f) }
  BY <1>2 DEF Covering, InFade
<1>4. \A k \in S : Fading(p, f) /\ m[k].pair.pictures = Pictures(p, f)
  BY <1>1, <1>3 DEF Fade, InFade
<1>5. Fading(p, f) => S # {}
  BY <1>1, <1>3
<1>6. CASE Fading(p, f)
  <2>1. { m[k].pair.pictures : k \in S } = {Pictures(p, f)}
    BY <1>4, <1>5, <1>6
  <2>2. QED
    BY <1>2, <1>6, <2>1 DEF PairsAt
<1>7. CASE ~Fading(p, f)
  <2>1. S = {}
    BY <1>4, <1>7
  <2>2. QED
    BY <1>2, <1>7, <2>1 DEF PairsAt
<1>8. QED
  BY <1>6, <1>7

(***************************************************************************)
(* The report.                                                             *)
(***************************************************************************)
\* What is left of the frames that were scanned.
RecordInv ==
    stage \in {"offered", "scanning"} =>
        /\ Rendered(plan, frame)
        /\ RunsSoFar(plan, runs, frame)
        /\ CaptionsSoFar(plan, captions, frame)
        /\ plan.fixture = "L" =>
               /\ captions = <<>>
               /\ ChaptersSoFar(plan, chapters, frame)
               /\ Apart(plan) => FadesSoFar(plan, crossfades, crossfade, frame)

ReportInv == ScanInv /\ RecordInv /\ (stage = "reported" => ReportFollowsFrames)

\* TracksPlayTheFrames and ListsMatchTheFrames of given runs and lists.
TracksFollow(p, rs, ts) ==
    /\ \A f \in 0 .. p.frameCount - 1 : \A role \in ToSet(frameState(p, f).roles) :
           Cardinality({ i \in DOMAIN rs : rs[i].key = audioKey(role)
                           /\ f \in rs[i].frames[1].frame .. rs[i].endFrame - 1 }) = 1
    /\ \A i \in DOMAIN rs :
           /\ \A f \in rs[i].frames[1].frame .. rs[i].endFrame - 1 :
                  \E role \in ToSet(frameState(p, f).roles) :
                      audioKey(role) = rs[i].key /\ compare(role.gain, Played(ts[i], f)) = 0
           /\ ts[i].sourceRate # Null
              /\ (\A o \in ToSet(p.occurrences) :
                      o.id = rs[i].first.occurrenceId => ~Still(o)) =>
                  compare(ts[i].sourceRate,
                          reduced(rs[i].first.retime.num, rs[i].first.retime.den)) = 0

ListsFollow(p, caps, chaps, fades) ==
    \A f \in 0 .. p.frameCount - 1 :
        /\ CaptionsAt(caps, f) = CaptionsOf(p, f)
        /\ Cardinality(Covering(caps, f)) <= 1
        /\ p.fixture = "L" =>
               /\ LabelsAt(chaps, f) = {LabelOf(p, f)}
               /\ Apart(p) =>
                      PairsAt(fades, f) = IF Fading(p, f) THEN {Pictures(p, f)} ELSE {}

\* ListsMatchTheFrames speaks of the lists of the report.
LEMMA ListsAsFollowed ==
    ListsMatchTheFrames <=>
        (stage = "reported" => ListsFollow(plan, captions, chapters, crossfades))
  BY DEF ListsMatchTheFrames, ListsFollow, CaptionsAt, LabelsAt, PairsAt, CaptionsOf, CaptionOf, LabelOf,
         Pictures, SourcesOf, Fading

\* What the report says of its tracks, once every frame is recorded.
LEMMA ReportedTracks ==
  ASSUME NEW p \in Plans, freezeSnapshot(p), NEW n \in Nat, n = p.frameCount, Rendered(p, n),
         NEW rs, RunsSoFar(p, rs, n), NEW ts, ts = [i \in DOMAIN rs |-> producerTrack(rs[i], p.rate)]
  PROVE  TracksFollow(p, rs, ts)
<1>1. \A f \in 0 .. n - 1 : \A role \in ToSet(Roles(p, f)) :
         Cardinality({ i \in DOMAIN rs : rs[i].key = audioKey(role)
                         /\ f \in rs[i].frames[1].frame .. rs[i].endFrame - 1 }) = 1
  BY OneRun
<1>2. ASSUME NEW i \in DOMAIN rs
      PROVE  /\ \A f \in rs[i].frames[1].frame .. rs[i].endFrame - 1 :
                   \E role \in ToSet(Roles(p, f)) :
                      audioKey(role) = rs[i].key /\ compare(role.gain, Played(ts[i], f)) = 0
             /\ ts[i].sourceRate # Null
                /\ (\A o \in ToSet(p.occurrences) :
                        o.id = rs[i].first.occurrenceId => ~Still(o)) =>
                   compare(ts[i].sourceRate,
                           reduced(rs[i].first.retime.num, rs[i].first.retime.den)) = 0
  <2>1. Records(p, rs[i]) /\ rs[i].endFrame <= n /\ ts[i] = producerTrack(rs[i], p.rate)
    BY DEF RunsSoFar
  <2>2. PICK r, t : r = rs[i] /\ t = ts[i]
    OBVIOUS
  <2>3. Records(p, r) /\ r.endFrame <= n /\ t = producerTrack(r, p.rate)
    BY <2>1, <2>2
  <2>4. /\ \A f \in r.frames[1].frame .. r.endFrame - 1 :
              \E role \in ToSet(Roles(p, f)) :
                 audioKey(role) = r.key /\ compare(role.gain, Played(t, f)) = 0
        /\ t.sourceRate # Null
           /\ (\A o \in ToSet(p.occurrences) : o.id = r.first.occurrenceId => ~Still(o)) =>
              compare(t.sourceRate, reduced(r.first.retime.num, r.first.retime.den)) = 0
    BY <2>3, TracksPlay
  <2>5. QED
    BY <2>2, <2>4
<1>3. QED
  BY <1>1, <1>2 DEF TracksFollow, Roles

\* What the report says of captions, chapters and crossfades.
LEMMA ReportedLists ==
  ASSUME NEW p, NEW n \in Nat, n = p.frameCount,
         NEW caps, CaptionsSoFar(p, caps, n), NEW chaps, NEW fades, NEW open,
         p.fixture = "L" => ChaptersSoFar(p, chaps, n),
         p.fixture = "L" /\ Apart(p) => FadesSoFar(p, fades, open, n)
  PROVE  ListsFollow(p, closed(caps, n), closed(chaps, n),
                     IF open = Null THEN fades ELSE Append(fades, open))
<1>1. PICK a, b, c : /\ a = closed(caps, n) /\ b = closed(chaps, n)
                     /\ c = IF open = Null THEN fades ELSE Append(fades, open)
  OBVIOUS
<1>2. ASSUME NEW f \in 0 .. n - 1
      PROVE  /\ CaptionsAt(a, f) = CaptionsOf(p, f)
             /\ Cardinality(Covering(a, f)) <= 1
  BY <1>1, CaptionsMatch
<1>3. ASSUME NEW f \in 0 .. n - 1, p.fixture = "L"
      PROVE  LabelsAt(b, f) = {LabelOf(p, f)}
  BY <1>1, <1>3, ChaptersMatch
<1>4. ASSUME NEW f \in 0 .. n - 1, p.fixture = "L", Apart(p)
      PROVE  PairsAt(c, f) = IF Fading(p, f) THEN {Pictures(p, f)} ELSE {}
  <2>1. FadesSoFar(p, fades, open, n)
    BY <1>4
  <2>2. QED
    BY <1>1, <2>1, FadesMatch
<1>5. ListsFollow(p, a, b, c)
  BY <1>2, <1>3, <1>4 DEF ListsFollow
<1>6. QED
  BY <1>1, <1>5

\* Nothing is recorded before the first frame.
LEMMA RecordInit == Init => ReportInv
<1> SUFFICES ASSUME Init PROVE ReportInv
  OBVIOUS
<1>1. /\ plan \in Plans /\ stage = "offered" /\ frame = 0 /\ runs = <<>> /\ captions = <<>>
      /\ chapters = <<>> /\ crossfades = <<>> /\ crossfade = Null
  BY DEF Init
<1>2. IsSequence(<<>>) /\ DOMAIN <<>> = {} /\ 0 .. 0 - 1 = {}
  BY DEF IsSequence
<1>3. Rendered(plan, 0) /\ RunsSoFar(plan, <<>>, 0)
  BY <1>2 DEF Rendered, RunsSoFar
<1>4. Placed(<<>>, 0)
  BY <1>2 DEF Placed
<1>5. CaptionsSoFar(plan, <<>>, 0) /\ ChaptersSoFar(plan, <<>>, 0)
  BY <1>2, <1>4 DEF CaptionsSoFar, ChaptersSoFar
<1>6. FadesSoFar(plan, <<>>, Null, 0)
  BY <1>2 DEF FadesSoFar
<1>7. RecordInv
  BY <1>1, <1>3, <1>5, <1>6 DEF RecordInv
<1>8. QED
  BY <1>1, <1>7, ScanInit DEF ReportInv

\* One more frame is recorded.
LEMMA RecordedFrame ==
  ASSUME NEW p \in Plans, freezeSnapshot(p), NEW n \in Nat, ~frameThrows(p, n), Rendered(p, n),
         NEW rs, RunsSoFar(p, rs, n)
  PROVE  /\ Rendered(p, n + 1)
         /\ RunsSoFar(p, recordAudioFrame(rs, n, frameState(p, n).roles), n + 1)
<1>1. IsSequence(Roles(p, n)) /\ Keyed(Roles(p, n))
  BY RolesSound
<1>2. RunsSoFar(p, recordAudioFrame(rs, n, Roles(p, n)), n + 1)
  BY <1>1, RunsStep
<1>3. \A f \in 0 .. (n + 1) - 1 : f = n \/ f \in 0 .. n - 1
  OBVIOUS
<1>4. QED
  BY <1>2, <1>3 DEF Rendered, Roles

\* Every step keeps the record, and a report follows from it.
LEMMA RecordNext == ReportInv /\ [Next]_vars => ReportInv'
<1> SUFFICES ASSUME ReportInv, [Next]_vars PROVE ReportInv'
  OBVIOUS
<1>1. ScanInv /\ RecordInv /\ (stage = "reported" => ReportFollowsFrames) /\ ScanInv'
  BY ScanStep DEF ReportInv
<1>2. plan \in Plans /\ plan.frameCount \in Nat /\ frame \in Nat /\ frame <= plan.frameCount
  BY <1>1, PlanFacts DEF ScanInv, TypeOK
<1>3. CASE Freeze
  <2>1. /\ stage = "offered" /\ stage' \in {"scanning", "rejected"}
        /\ UNCHANGED <<plan, frame, runs, captions, chapters, crossfades, crossfade>>
    BY <1>3 DEF Freeze
  <2>2. RecordInv'
    BY <1>1, <2>1 DEF RecordInv
  <2>3. QED
    BY <1>1, <2>1, <2>2 DEF ReportInv
<1>4. CASE ScanTalk
  <2>1. /\ stage = "scanning" /\ stage' = "scanning" /\ frame < plan.frameCount
        /\ plan.fixture \in {"M", "T"} /\ frame' = frame + 1 /\ plan' = plan
        /\ runs' = recordAudioFrame(runs, frame, frameState(plan, frame).roles)
    BY <1>4 DEF ScanTalk
  <2>2. captions' = NextCaptions(captions, CaptionOf(plan, frame), frame)
    BY <1>4 DEF ScanTalk, NextCaptions, CaptionOf
  <2>3. ~frameThrows(plan, frame) /\ freezeSnapshot(plan)
    BY <1>1, <2>1 DEF frameThrows, ScanInv
  <2>4. /\ Rendered(plan, frame) /\ RunsSoFar(plan, runs, frame)
        /\ CaptionsSoFar(plan, captions, frame)
    BY <1>1, <2>1 DEF RecordInv
  <2>5. Rendered(plan, frame + 1) /\ RunsSoFar(plan, runs', frame + 1)
    BY <1>2, <2>1, <2>3, <2>4, RecordedFrame
  <2>6. CaptionsSoFar(plan, captions', frame + 1)
    BY <1>2, <2>2, <2>4, CaptionsStep
  <2>7. RecordInv'
    BY <2>1, <2>5, <2>6 DEF RecordInv
  <2>8. QED
    BY <1>1, <2>1, <2>7 DEF ReportInv
<1>5. CASE ScanFilm
  <2>1. /\ stage = "scanning" /\ stage' = "scanning" /\ frame < plan.frameCount
        /\ plan.fixture = "L" /\ ~frameThrows(plan, frame) /\ frame' = frame + 1 /\ plan' = plan
        /\ captions' = captions
        /\ runs' = recordAudioFrame(runs, frame, frameState(plan, frame).roles)
    BY <1>5 DEF ScanFilm
  <2>2. PICK pair : pair = PairOf(plan, frame)
    OBVIOUS
  <2>3. /\ chapters' = NextChapters(chapters, LabelOf(plan, frame), frame)
        /\ crossfade' = NextFade(plan, crossfade, pair, frame)
        /\ crossfades' = NextFades(crossfades, crossfade, pair)
    BY <1>5, <2>2 DEF ScanFilm, NextChapters, LabelOf, NextFade, NextFades, Double, PairOf,
                      Pictures, Roles, SourcesOf
  <2>4. freezeSnapshot(plan)
    BY <1>1, <2>1 DEF ScanInv
  <2>5. /\ Rendered(plan, frame) /\ RunsSoFar(plan, runs, frame)
        /\ CaptionsSoFar(plan, captions, frame) /\ captions = <<>>
        /\ ChaptersSoFar(plan, chapters, frame)
        /\ Apart(plan) => FadesSoFar(plan, crossfades, crossfade, frame)
    BY <1>1, <2>1 DEF RecordInv
  <2>6. Rendered(plan, frame + 1) /\ RunsSoFar(plan, runs', frame + 1)
    BY <1>2, <2>1, <2>4, <2>5, RecordedFrame
  <2>7. CaptionsSoFar(plan, captions', frame + 1)
    <3>1. CaptionOf(plan, frame) = Null
      BY <2>1 DEF CaptionOf, frameState
    <3>2. ~Open(captions)
      BY <2>5 DEF Open
    <3>3. QED
      BY <1>2, <2>1, <2>5, <3>1, <3>2, CaptionGoesOn
  <2>8. ChaptersSoFar(plan, chapters', frame + 1)
    BY <1>2, <2>3, <2>5, ChaptersStep
  <2>9. Apart(plan) => FadesSoFar(plan, crossfades', crossfade', frame + 1)
    BY <1>2, <2>1, <2>2, <2>3, <2>4, <2>5, FadesStep
  <2>10. RecordInv'
    BY <2>1, <2>5, <2>6, <2>7, <2>8, <2>9 DEF RecordInv
  <2>11. QED
    BY <1>1, <2>1, <2>10 DEF ReportInv
<1>6. CASE ScanThrows
  <2>1. stage' = "failed"
    BY <1>6 DEF ScanThrows
  <2>2. QED
    BY <1>1, <2>1 DEF ReportInv, RecordInv
<1>7. CASE Report
  <2>1. /\ stage = "scanning" /\ frame = plan.frameCount /\ stage' = "reported" /\ plan' = plan
        /\ runs' = runs
        /\ captions' = closed(captions, frame) /\ chapters' = closed(chapters, frame)
        /\ crossfades' = IF crossfade = Null THEN crossfades ELSE Append(crossfades, crossfade)
        /\ tracks' = [i \in DOMAIN runs |-> producerTrack(runs[i], plan.rate)]
    BY <1>7 DEF Report
  <2>2. /\ Rendered(plan, frame) /\ RunsSoFar(plan, runs, frame) /\ freezeSnapshot(plan)
        /\ CaptionsSoFar(plan, captions, frame)
        /\ plan.fixture = "L" =>
               /\ ChaptersSoFar(plan, chapters, frame)
               /\ Apart(plan) => FadesSoFar(plan, crossfades, crossfade, frame)
    BY <1>1, <2>1 DEF RecordInv, ScanInv
  <2>3. TracksFollow(plan, runs, tracks')
    BY <1>2, <2>1, <2>2, ReportedTracks
  <2>4. ListsFollow(plan, captions', chapters', crossfades')
    BY <1>2, <2>1, <2>2, ReportedLists
  <2>5. TracksPlayTheFrames'
    BY <2>1, <2>3 DEF TracksPlayTheFrames, TracksFollow
  <2>6. ListsMatchTheFrames'
    <3>1. (stage = "reported" => ListsFollow(plan, captions, chapters, crossfades))'
      BY <2>1, <2>4
    <3>2. QED
      BY <3>1 DEF ListsMatchTheFrames, ListsFollow, CaptionsAt, LabelsAt, PairsAt, CaptionsOf,
                     CaptionOf, LabelOf, Pictures, SourcesOf, Fading
  <2>7. QED
    BY <1>1, <2>1, <2>5, <2>6 DEF ReportInv, RecordInv, ReportFollowsFrames
<1>8. CASE UNCHANGED vars
  <2>1. RecordInv'
    BY <1>1, <1>8 DEF vars, RecordInv
  <2>2. UNCHANGED <<stage, plan, runs, tracks, captions, chapters, crossfades>>
    BY <1>8 DEF vars
  <2>3. ASSUME TracksPlayTheFrames PROVE TracksPlayTheFrames'
    BY <2>2, <2>3 DEF TracksPlayTheFrames
  <2>4. ASSUME ListsMatchTheFrames PROVE ListsMatchTheFrames'
    <3>1. stage = "reported" => ListsFollow(plan, captions, chapters, crossfades)
      BY <2>4, ListsAsFollowed
    <3>2. (stage = "reported" => ListsFollow(plan, captions, chapters, crossfades))'
      BY <2>2, <3>1
    <3>3. QED
      BY <3>2 DEF ListsMatchTheFrames, ListsFollow, CaptionsAt, LabelsAt, PairsAt, CaptionsOf,
                     CaptionOf, LabelOf, Pictures, SourcesOf, Fading
  <2>5. QED
    BY <1>1, <2>1, <2>2, <2>3, <2>4 DEF ReportInv, ReportFollowsFrames
<1>9. QED
  BY <1>3, <1>4, <1>5, <1>6, <1>7, <1>8 DEF Next

\* What the adapter reports of an accepted plan is what its frames are: every role of
\* every frame in one track, which plays it at its gain, and every caption, chapter and
\* transition where the frames show it (talkingHeadSupport, longFilmSupport).
THEOREM ReportsFollowTheFrames == Spec => []ReportFollowsFrames
<1>1. Init => ReportInv
  BY RecordInit
<1>2. ReportInv /\ [Next]_vars => ReportInv'
  BY RecordNext
<1>3. ReportInv => ReportFollowsFrames
  BY DEF ReportInv, ReportFollowsFrames, TracksPlayTheFrames, ListsMatchTheFrames
<1>4. QED
  BY <1>1, <1>2, <1>3, PTL DEF Spec

(***************************************************************************)
(* Mastering.                                                              *)
(***************************************************************************)

\* Before the link a mastering has no verdict of success and no file of its own
\* at the output path.
Unpublished == Commands \cup {"begin", "hook", "link"}

\* Where a mastering stands, and what that says of its partial file, of the
\* output path and of its receipt.
Standing(a) ==
    /\ at[a] \in Unpublished => output # a /\ status[a] = "started"
    /\ at[a] \in {"hook", "link"} => partial[a] = "measured"
    /\ at[a] \in {"unlink", "hash"} => output = a /\ status[a] = "started"
    /\ at[a] = "hash" => partial[a] = "absent"
    /\ at[a] = "receipt" => partial[a] = "absent"
    /\ at[a] \in {"rm", "receipt"} => status[a] # "started"
    /\ status[a] = "succeeded" => output = a /\ partial[a] = "absent"
    /\ status[a] = "cancelled" => output # a
    /\ receipt[a] # None => at[a] = "done" /\ receipt[a] = status[a] /\ partial[a] = "absent"
    /\ settled[a] = "resolved" => receipt[a] = "succeeded"
    /\ at[a] # "done" => receipt[a] = None /\ settled[a] = "pending"
    /\ child[a] # "none" => at[a] \in Commands

MasteringInv == MasteringTypeOK /\ \A a \in Attempts : Standing(a)

LEMMA MasteringInitInv == MasteringInit => MasteringInv
BY NamesAssumption DEF MasteringInit, MasteringInv, MasteringTypeOK, Standing, Unpublished, Commands, Stages

\* What the following stage is, and that it is a stage.
LEMMA FollowingStage ==
    ASSUME NEW command \in Commands
    PROVE  /\ Following(command) \in Commands \cup {"hook"}
           /\ Following(command) = "hook" => command = "measure-mastered"
BY DEF Following, Commands

\* Every step of a mastering leaves the types as they are.
LEMMA MasteringTypeStep == MasteringInv /\ [MasteringNext]_masteringVars => MasteringTypeOK'
<1> SUFFICES ASSUME MasteringInv, [MasteringNext]_masteringVars PROVE MasteringTypeOK'
  OBVIOUS
<1> USE NamesAssumption DEF MasteringInv, MasteringTypeOK
<1>1. CASE OtherWrites
  BY <1>1 DEF OtherWrites
<1>2. ASSUME NEW a \in Attempts, Begin(a) PROVE MasteringTypeOK'
  BY <1>2 DEF Begin, Goto, Throw, Stages, Commands
<1>3. ASSUME NEW a \in Attempts, Spawn(a) PROVE MasteringTypeOK'
  BY <1>3 DEF Spawn, Heeds
<1>4. ASSUME NEW a \in Attempts, Abort(a) PROVE MasteringTypeOK'
  BY <1>4 DEF Abort
<1>5. ASSUME NEW a \in Attempts, Close(a) PROVE MasteringTypeOK'
  <2>1. at[a] \in Commands
    BY <1>5 DEF Close, Standing
  <2>2. at' \in [Attempts -> Stages]
    BY <1>5, <2>1, FollowingStage DEF Close, Goto, Throw, Stages
  <2>3. status' \in [Attempts -> {"started", "succeeded", "cancelled", "failed"}]
    BY <1>5 DEF Close, Goto, Throw
  <2> QED
    BY <1>5, <2>2, <2>3 DEF Close
<1>6. ASSUME NEW a \in Attempts, Hook(a) PROVE MasteringTypeOK'
  BY <1>6 DEF Hook, LastLook, Goto, Throw, Stages, Commands
<1>7. ASSUME NEW a \in Attempts, Link(a) PROVE MasteringTypeOK'
  BY <1>7 DEF Link, Goto, Throw, Stages, Commands
<1>8. ASSUME NEW a \in Attempts, Unlink(a) PROVE MasteringTypeOK'
  BY <1>8 DEF Unlink, Unlinked, Goto, Throw, Stages, Commands
<1>9. ASSUME NEW a \in Attempts, Hash(a) PROVE MasteringTypeOK'
  BY <1>9 DEF Hash, Throw, Stages, Commands
<1>10. ASSUME NEW a \in Attempts, RemovePartial(a) PROVE MasteringTypeOK'
  BY <1>10 DEF RemovePartial, Unlinked, Fails, Stages, Commands
<1>11. ASSUME NEW a \in Attempts, WriteReceipt(a) PROVE MasteringTypeOK'
  <2>1. status[a] \in {"succeeded", "cancelled", "failed"}
    BY <1>11 DEF WriteReceipt, Standing
  <2> QED
    BY <1>11, <2>1 DEF WriteReceipt, Fails, Stages
<1>12. CASE UNCHANGED masteringVars
  BY <1>12 DEF masteringVars
<1> QED
  BY <1>1, <1>2, <1>3, <1>4, <1>5, <1>6, <1>7, <1>8, <1>9, <1>10, <1>11, <1>12 DEF MasteringNext, Work

\* The step of one mastering, seen by itself and by another one.
LEMMA StandingStep ==
    ASSUME MasteringInv, [MasteringNext]_masteringVars, NEW b \in Attempts
    PROVE  Standing(b)'
<1> USE NamesAssumption DEF MasteringInv, MasteringTypeOK
<1>0. Standing(b) /\ \A a \in Attempts : Standing(a)
  OBVIOUS
<1>1. CASE OtherWrites
  BY <1>0, <1>1 DEF OtherWrites, Standing
<1>2. ASSUME NEW a \in Attempts, Begin(a) PROVE Standing(b)'
  <2>1. CASE a = b
    BY <1>0, <1>2, <2>1 DEF Begin, Goto, Throw, Standing, Unpublished, Commands
  <2>2. CASE a # b
    BY <1>0, <1>2, <2>2 DEF Begin, Goto, Throw, Standing, Unpublished, Commands
  <2> QED
    BY <2>1, <2>2
<1>3. ASSUME NEW a \in Attempts, Spawn(a) PROVE Standing(b)'
  <2>1. CASE a = b
    BY <1>0, <1>3, <2>1 DEF Spawn, Standing, Unpublished, Commands
  <2>2. CASE a # b
    BY <1>0, <1>3, <2>2 DEF Spawn, Standing, Unpublished, Commands
  <2> QED
    BY <2>1, <2>2
<1>4. ASSUME NEW a \in Attempts, Abort(a) PROVE Standing(b)'
  <2>1. CASE a = b
    BY <1>0, <1>4, <2>1 DEF Abort, Standing
  <2>2. CASE a # b
    BY <1>0, <1>4, <2>2 DEF Abort, Standing
  <2> QED
    BY <2>1, <2>2
<1>5. ASSUME NEW a \in Attempts, Close(a) PROVE Standing(b)'
  <2>1. at[a] \in Commands
    BY <1>5 DEF Close, Standing
  <2>2. CASE a = b
    BY <1>0, <1>5, <2>1, <2>2, FollowingStage DEF Close, Goto, Throw, Standing, Unpublished, Commands
  <2>3. CASE a # b
    BY <1>0, <1>5, <2>3 DEF Close, Goto, Throw, Standing
  <2> QED
    BY <2>2, <2>3
<1>6. ASSUME NEW a \in Attempts, Hook(a) PROVE Standing(b)'
  <2>1. CASE a = b
    BY <1>0, <1>6, <2>1 DEF Hook, LastLook, Goto, Throw, Standing, Unpublished, Commands
  <2>2. CASE a # b
    BY <1>0, <1>6, <2>2 DEF Hook, LastLook, Goto, Throw, Standing, Unpublished, Commands
  <2> QED
    BY <2>1, <2>2
<1>7. ASSUME NEW a \in Attempts, Link(a) PROVE Standing(b)'
  <2>1. CASE a = b
    BY <1>0, <1>7, <2>1 DEF Link, Linkable, Goto, Throw, Standing, Unpublished, Commands
  <2>2. CASE a # b
    BY <1>0, <1>7, <2>2 DEF Link, Linkable, Goto, Throw, Standing, Unpublished, Commands
  <2> QED
    BY <2>1, <2>2
<1>8. ASSUME NEW a \in Attempts, Unlink(a) PROVE Standing(b)'
  <2>1. CASE a = b
    BY <1>0, <1>8, <2>1 DEF Unlink, Unlinked, Goto, Throw, Standing, Unpublished, Commands
  <2>2. CASE a # b
    BY <1>0, <1>8, <2>2 DEF Unlink, Unlinked, Goto, Throw, Standing, Unpublished, Commands
  <2> QED
    BY <2>1, <2>2
<1>9. ASSUME NEW a \in Attempts, Hash(a) PROVE Standing(b)'
  <2>1. CASE a = b
    BY <1>0, <1>9, <2>1 DEF Hash, Throw, Standing, Unpublished, Commands
  <2>2. CASE a # b
    BY <1>0, <1>9, <2>2 DEF Hash, Throw, Standing, Unpublished, Commands
  <2> QED
    BY <2>1, <2>2
<1>10. ASSUME NEW a \in Attempts, RemovePartial(a) PROVE Standing(b)'
  <2>1. CASE a = b
    BY <1>0, <1>10, <2>1 DEF RemovePartial, Unlinked, Fails, Standing, Unpublished, Commands
  <2>2. CASE a # b
    BY <1>0, <1>10, <2>2 DEF RemovePartial, Unlinked, Fails, Standing, Unpublished, Commands
  <2> QED
    BY <2>1, <2>2
<1>11. ASSUME NEW a \in Attempts, WriteReceipt(a) PROVE Standing(b)'
  <2>1. CASE a = b
    BY <1>0, <1>11, <2>1 DEF WriteReceipt, Fails, Standing, Unpublished, Commands
  <2>2. CASE a # b
    BY <1>0, <1>11, <2>2 DEF WriteReceipt, Fails, Standing, Unpublished, Commands
  <2> QED
    BY <2>1, <2>2
<1>12. CASE UNCHANGED masteringVars
  BY <1>0, <1>12 DEF masteringVars, Standing
<1> QED
  BY <1>1, <1>2, <1>3, <1>4, <1>5, <1>6, <1>7, <1>8, <1>9, <1>10, <1>11, <1>12 DEF MasteringNext, Work

LEMMA MasteringInvariance == MasteringSpec => []MasteringInv
<1>1. MasteringInv /\ [MasteringNext]_masteringVars => MasteringInv'
  BY MasteringTypeStep, StandingStep DEF MasteringInv
<1> QED
  BY MasteringInitInv, <1>1, PTL DEF MasteringSpec

\* The variables of a mastering keep their types, the status of a receipt
\* included, which is never that of a mastering still under way.
THEOREM MasteringTypes == MasteringSpec => []MasteringTypeOK
<1>1. MasteringInv => MasteringTypeOK
  BY DEF MasteringInv
<1> QED
  BY MasteringInvariance, <1>1, PTL

\* For any number of masterings of one path, a result or a receipt that says
\* succeeded names its own file and one that says cancelled published nothing.
THEOREM VerdictSafety == MasteringSpec => []VerdictMatchesOutput
<1>1. MasteringInv => VerdictMatchesOutput
  BY NamesAssumption DEF MasteringInv, Standing, VerdictMatchesOutput
<1> QED
  BY MasteringInvariance, <1>1, PTL

\* Only a measured file is published, and only to a free path.
THEOREM PublishSafety == MasteringSpec => OnlyMeasuredIsPublished
<1> DEFINE Publishes(a) == output' = a /\ output # a
<1>1. MasteringInv /\ [MasteringNext]_masteringVars => [\A a \in Attempts : Publishes(a) => partial[a] = "measured" /\ output = None]_masteringVars
  <2> SUFFICES ASSUME MasteringInv, [MasteringNext]_masteringVars, NEW a \in Attempts, Publishes(a)
               PROVE  partial[a] = "measured" /\ output = None
    OBVIOUS
  <2> USE NamesAssumption DEF MasteringInv
  <2>1. PICK c \in Attempts : Link(c)
    BY DEF MasteringNext, Work, OtherWrites, Begin, Spawn, Abort, Close, Hook, Unlink, Hash,
           RemovePartial, WriteReceipt, masteringVars
  <2>2. c = a
    BY <2>1 DEF Link
  <2> QED
    BY <2>1, <2>2 DEF Link, Linkable, Standing
<1> QED
  BY MasteringInvariance, <1>1, PTL DEF OnlyMeasuredIsPublished, MasteringSpec

\* A mastering that was aborted before its last look, or has given up since.
Doomed(a) == aborted[a] /\ output # a /\ at[a] # "link"

\* The last look lets nothing pass that was aborted, and no way leads back to it.
LEMMA DoomedStep ==
    ASSUME MasteringInv, [MasteringNext]_masteringVars, NEW b \in Attempts, Doomed(b)
    PROVE  Doomed(b)'
<1> USE NamesAssumption DEF MasteringInv, MasteringTypeOK
<1>1. CASE OtherWrites
  BY <1>1 DEF OtherWrites, Doomed
<1>2. ASSUME NEW a \in Attempts, Begin(a) \/ Spawn(a) \/ Abort(a) PROVE Doomed(b)'
  BY <1>2 DEF Begin, Spawn, Abort, Goto, Throw, Doomed
<1>3. ASSUME NEW a \in Attempts, Close(a) PROVE Doomed(b)'
  <2>1. at[a] \in Commands
    BY <1>3 DEF Close, Standing
  <2>2. Following(at[a]) # "link"
    BY <2>1, FollowingStage DEF Commands
  <2> QED
    BY <1>3, <2>2 DEF Close, Goto, Throw, Doomed
<1>4. ASSUME NEW a \in Attempts, Hook(a) PROVE Doomed(b)'
  BY <1>4 DEF Hook, LastLook, Goto, Throw, Doomed
<1>5. ASSUME NEW a \in Attempts, Link(a) PROVE Doomed(b)'
  BY <1>5 DEF Link, Goto, Throw, Doomed
<1>6. ASSUME NEW a \in Attempts, Unlink(a) \/ Hash(a) PROVE Doomed(b)'
  BY <1>6 DEF Unlink, Hash, Goto, Throw, Doomed
<1>7. ASSUME NEW a \in Attempts, RemovePartial(a) \/ WriteReceipt(a) PROVE Doomed(b)'
  BY <1>7 DEF RemovePartial, WriteReceipt, Fails, Doomed
<1>8. CASE UNCHANGED masteringVars
  BY <1>8 DEF masteringVars, Doomed
<1> QED
  BY <1>1, <1>2, <1>3, <1>4, <1>5, <1>6, <1>7, <1>8 DEF MasteringNext, Work

\* For any number of masterings, one that is aborted while a child is at work or before
\* its last look never publishes anything.
THEOREM EarlyAbortSafety == MasteringSpec => EarlyAbortPublishesNothing
<1>1. ASSUME NEW a \in Attempts
      PROVE  MasteringSpec =>
                 [](aborted[a] /\ at[a] \in Commands \cup {"begin", "hook"} => [](output # a))
  <2>1. MasteringInv /\ aborted[a] /\ at[a] \in Commands \cup {"begin", "hook"} => Doomed(a)
    BY DEF MasteringInv, Standing, Unpublished, Commands, Doomed
  <2>2. MasteringInv /\ [MasteringNext]_masteringVars /\ Doomed(a) => Doomed(a)'
    BY DoomedStep
  <2>3. Doomed(a) => output # a
    BY DEF Doomed
  <2> QED
    BY <2>1, <2>2, <2>3, MasteringInvariance, PTL DEF MasteringSpec
<1> QED
  BY <1>1 DEF EarlyAbortPublishesNothing
===================================================================================
