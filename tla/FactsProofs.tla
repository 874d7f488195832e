---------------------------- MODULE FactsProofs ----------------------------
(***************************************************************************)
(* What the checker knows of integers is true of every run, and so is every *)
(* verdict it gives, for any program that has room for what it computes.    *)
(***************************************************************************)
EXTENDS Facts, FiniteSetTheorems, SequenceTheorems, WellFoundedInduction, TLAPS

-----------------------------------------------------------------------------
(* Ranges *)

LEMMA Width == MaxInt \in Nat /\ MaxInt >= 1 /\ MinInt \in Int /\ MinInt = -MaxInt - 1
               /\ MaxValue \in Nat /\ MaxValue <= MaxInt
BY WidthAssumption DEF MinInt

LEMMA RangeIs ==
    ASSUME NEW r \in Ranges
    PROVE  /\ r.low \in Int /\ r.high \in Int
           /\ MinInt <= r.low /\ r.low <= MaxInt /\ MinInt <= r.high /\ r.high <= MaxInt
           /\ r = [low |-> r.low, high |-> r.high]
           /\ r.low <= r.high \/ r = Empty
BY Width DEF Ranges, IsRange

LEMMA EmptyIs == Empty \in Ranges /\ (\A v \in Int : ~Within(v, Empty))
BY Width DEF Ranges, IsRange, Empty, Within

LEMMA BetweenIs ==
    ASSUME NEW low \in Int, NEW high \in Int, low >= MinInt, high <= MaxInt
    PROVE  /\ Between(low, high) \in Ranges
           /\ \A v \in Int : Within(v, Between(low, high)) <=> low <= v /\ v <= high
<1>1. CASE low > high
  <2>1. Between(low, high) = Empty
    BY <1>1 DEF Between
  <2> QED BY <1>1, <2>1, EmptyIs
<1>2. CASE ~(low > high)
  <2>1. Between(low, high) = [low |-> low, high |-> high]
    BY <1>2 DEF Between
  <2> QED BY <1>2, <2>1, Width DEF Ranges, IsRange, Within
<1> QED BY <1>1, <1>2

LEMMA AnyIs == Any \in Ranges /\ (\A v \in Int : Fits(v) => Within(v, Any))
BY BetweenIs, Width DEF Any, Fits

LEMMA ExactlyIs ==
    ASSUME NEW v \in Int, Fits(v)
    PROVE  Exactly(v) \in Ranges /\ (\A w \in Int : Within(w, Exactly(v)) <=> w = v)
BY BetweenIs, Width DEF Exactly, Fits

LEMMA ClampIs ==
    ASSUME NEW v \in Int
    PROVE  /\ Clamp(v) \in Int /\ MinInt <= Clamp(v) /\ Clamp(v) <= MaxInt
           /\ Fits(v) => Clamp(v) = v
           /\ \A w \in Int : Fits(w) => /\ v <= w => Clamp(v) <= w
                                        /\ w <= v => w <= Clamp(v)
BY Width DEF Clamp, Fits

LEMMA MeetIs ==
    ASSUME NEW r \in Ranges, NEW s \in Ranges
    PROVE  /\ Meet(r, s) \in Ranges
           /\ \A v \in Int : Within(v, Meet(r, s)) <=> Within(v, r) /\ Within(v, s)
<1>1. PICK low, high : low = Greater(r.low, s.low) /\ high = Lesser(r.high, s.high)
  OBVIOUS
<1>2. low \in Int /\ high \in Int /\ low >= MinInt /\ high <= MaxInt
  BY <1>1, RangeIs, Width DEF Greater, Lesser
<1>3. \A v \in Int : low <= v /\ v <= high <=> Within(v, r) /\ Within(v, s)
  BY <1>1, RangeIs, Width DEF Greater, Lesser, Within
<1> QED BY <1>1, <1>2, <1>3, BetweenIs DEF Meet

LEMMA JoinIs ==
    ASSUME NEW r \in Ranges, NEW s \in Ranges
    PROVE  /\ Join(r, s) \in Ranges
           /\ \A v \in Int : Within(v, r) \/ Within(v, s) => Within(v, Join(r, s))
           /\ r = Any => Join(r, s) = Any
<1>1. CASE r = Empty \/ s = Empty
  <2>1. Any # Empty
    BY Width DEF Any, Empty, Between
  <2> QED BY <1>1, <2>1, EmptyIs DEF Join
<1>2. CASE ~(r = Empty \/ s = Empty)
  <2>1. PICK low, high : low = Lesser(r.low, s.low) /\ high = Greater(r.high, s.high)
    OBVIOUS
  <2>2. low \in Int /\ high \in Int /\ low >= MinInt /\ high <= MaxInt
    BY <2>1, RangeIs, Width DEF Greater, Lesser
  <2>3. \A v \in Int : Within(v, r) \/ Within(v, s) => low <= v /\ v <= high
    BY <2>1, RangeIs, Width DEF Greater, Lesser, Within
  <2>4. Join(r, s) = Between(low, high)
    BY <1>2, <2>1 DEF Join
  <2>5. r = Any => low = MinInt /\ high = MaxInt
    <3>1. r = Any => r.low = MinInt /\ r.high = MaxInt
      BY Width DEF Any, Between
    <3> QED BY <2>1, <3>1, RangeIs, Width DEF Lesser, Greater
  <2> QED BY <2>2, <2>3, <2>4, <2>5, BetweenIs DEF Any
<1> QED BY <1>1, <1>2

LEMMA AddIs ==
    ASSUME NEW r \in Ranges, NEW s \in Ranges
    PROVE  /\ Add(r, s) \in Ranges
           /\ \A v, w \in Int : Within(v, r) /\ Within(w, s) /\ Fits(v + w) => Within(v + w, Add(r, s))
<1>1. CASE r = Empty \/ s = Empty
  BY <1>1, EmptyIs DEF Add
<1>2. CASE ~(r = Empty \/ s = Empty)
  <2>1. PICK low, high : low = r.low + s.low /\ high = r.high + s.high
    OBVIOUS
  <2>2. low \in Int /\ high \in Int
    BY <2>1, RangeIs
  <2>3. Add(r, s) = Between(Clamp(low), Clamp(high))
    BY <1>2, <2>1 DEF Add
  <2>4. \A v, w \in Int : Within(v, r) /\ Within(w, s) => low <= v + w /\ v + w <= high
    BY <2>1, RangeIs DEF Within
  <2>5. \A v, w \in Int : Within(v, r) /\ Within(w, s) /\ Fits(v + w)
            => Clamp(low) <= v + w /\ v + w <= Clamp(high)
    BY <2>2, <2>4, ClampIs
  <2> QED BY <2>2, <2>3, <2>5, ClampIs, BetweenIs, Width
<1> QED BY <1>1, <1>2

LEMMA SpreadIs ==
    ASSUME NEW r \in Ranges, NEW s \in Ranges
    PROVE  /\ Spread(r, s) \in Ranges
           /\ \A v, w \in Int : Within(v, r) /\ Within(w, s) /\ Fits(v - w) => Within(v - w, Spread(r, s))
<1>1. CASE r = Empty \/ s = Empty
  BY <1>1, EmptyIs DEF Spread
<1>2. CASE ~(r = Empty \/ s = Empty)
  <2>1. PICK low, high : low = r.low - s.high /\ high = r.high - s.low
    OBVIOUS
  <2>2. low \in Int /\ high \in Int
    BY <2>1, RangeIs
  <2>3. Spread(r, s) = Between(Clamp(low), Clamp(high))
    BY <1>2, <2>1 DEF Spread
  <2>4. \A v, w \in Int : Within(v, r) /\ Within(w, s) => low <= v - w /\ v - w <= high
    BY <2>1, RangeIs DEF Within
  <2>5. \A v, w \in Int : Within(v, r) /\ Within(w, s) /\ Fits(v - w)
            => Clamp(low) <= v - w /\ v - w <= Clamp(high)
    BY <2>2, <2>4, ClampIs
  <2> QED BY <2>2, <2>3, <2>5, ClampIs, BetweenIs, Width
<1> QED BY <1>1, <1>2

LEMMA NegateIs ==
    ASSUME NEW r \in Ranges
    PROVE  /\ Negate(r) \in Ranges
           /\ \A v \in Int : Within(v, r) /\ Fits(-v) => Within(-v, Negate(r))
<1>1. CASE r = Empty
  BY <1>1, EmptyIs DEF Negate
<1>2. CASE r # Empty
  <2>1. PICK low, high : low = -r.high /\ high = -r.low
    OBVIOUS
  <2>2. low \in Int /\ high \in Int
    BY <2>1, RangeIs
  <2>3. Negate(r) = Between(Clamp(low), Clamp(high))
    BY <1>2, <2>1 DEF Negate
  <2>4. \A v \in Int : Within(v, r) => low <= -v /\ -v <= high
    BY <2>1, RangeIs DEF Within
  <2>5. \A v \in Int : Within(v, r) /\ Fits(-v) => Clamp(low) <= -v /\ -v <= Clamp(high)
    BY <2>2, <2>4, ClampIs
  <2> QED BY <2>2, <2>3, <2>5, ClampIs, BetweenIs, Width
<1> QED BY <1>1, <1>2

\* Products keep the order, or turn it round.
LEMMA Multiplied ==
    ASSUME NEW a \in Int, NEW b \in Int, NEW k \in Int, a <= b
    PROVE  /\ a * k \in Int /\ b * k \in Int
           /\ k >= 0 => a * k <= b * k
           /\ k <= 0 => b * k <= a * k
<1>1. a * k \in Int /\ b * k \in Int
  OBVIOUS
<1>2. (b - a) * k = b * k - a * k
  OBVIOUS
<1>3. b - a >= 0
  OBVIOUS
<1>4. k >= 0 => (b - a) * k >= 0
  BY <1>3
<1>5. k <= 0 => (b - a) * k <= 0
  BY <1>3
<1> QED BY <1>1, <1>2, <1>4, <1>5

LEMMA TimesIs ==
    ASSUME NEW r \in Ranges, NEW k \in Int
    PROVE  /\ Times(r, k) \in Ranges
           /\ \A v \in Int : Within(v, r) /\ Fits(k * v) => Within(k * v, Times(r, k))
<1>1. CASE r = Empty
  BY <1>1, EmptyIs DEF Times
<1>2. CASE r # Empty
  <2>1. PICK one, other : one = r.low * k /\ other = r.high * k
    OBVIOUS
  <2>2. one \in Int /\ other \in Int
    BY <2>1, RangeIs
  <2>3. Times(r, k) = Between(Lesser(Clamp(one), Clamp(other)), Greater(Clamp(one), Clamp(other)))
    BY <1>2, <2>1 DEF Times
  <2>4. ASSUME NEW v \in Int, Within(v, r)
        PROVE  k * v \in Int /\ ((one <= k * v /\ k * v <= other) \/ (other <= k * v /\ k * v <= one))
    <3>1. r.low \in Int /\ r.high \in Int /\ r.low <= v /\ v <= r.high
      BY <2>4, RangeIs DEF Within
    <3>2. v * k \in Int /\ k * v = v * k
      OBVIOUS
    <3>3. /\ k >= 0 => one <= v * k
          /\ k <= 0 => v * k <= one
      BY <2>1, <3>1, Multiplied
    <3>4. /\ k >= 0 => v * k <= other
          /\ k <= 0 => other <= v * k
      BY <2>1, <3>1, Multiplied
    <3>5. k >= 0 \/ k <= 0
      OBVIOUS
    <3>6. PICK w \in Int : w = v * k /\ w = k * v
      BY <3>2
    <3>7. (one <= w /\ w <= other) \/ (other <= w /\ w <= one)
      BY <3>3, <3>4, <3>5, <3>6
    <3> QED BY <3>6, <3>7
  <2>5. PICK low, high : low = Lesser(Clamp(one), Clamp(other)) /\ high = Greater(Clamp(one), Clamp(other))
    OBVIOUS
  <2>6. low \in Int /\ high \in Int /\ low >= MinInt /\ high <= MaxInt
    BY <2>2, <2>5, ClampIs, Width DEF Lesser, Greater
  <2>7. /\ Clamp(one) \in Int /\ Clamp(other) \in Int
        /\ low <= Clamp(one) /\ low <= Clamp(other) /\ Clamp(one) <= high /\ Clamp(other) <= high
    BY <2>2, <2>5, ClampIs DEF Lesser, Greater
  <2>8. ASSUME NEW v \in Int, Within(v, r), Fits(k * v)
        PROVE  low <= k * v /\ k * v <= high
    <3>1. PICK w : w = k * v
      OBVIOUS
    <3>2. w \in Int /\ Fits(w) /\ ((one <= w /\ w <= other) \/ (other <= w /\ w <= one))
      BY <2>4, <2>8, <3>1
    <3>3. \/ Clamp(one) <= w /\ w <= Clamp(other)
          \/ Clamp(other) <= w /\ w <= Clamp(one)
      BY <2>2, <3>2, ClampIs
    <3> QED BY <2>6, <2>7, <3>1, <3>2, <3>3
  <2>9. \A v \in Int : k * v \in Int
    OBVIOUS
  <2> QED BY <2>3, <2>5, <2>6, <2>8, <2>9, BetweenIs
<1> QED BY <1>1, <1>2

LEMMA Quotient ==
    ASSUME NEW w \in Int, NEW m \in Int, m > 0
    PROVE  /\ w \div m \in Int
           /\ m * (w \div m) <= w /\ w < m * (w \div m) + m
OBVIOUS

\* What a quotient is the greatest of, and how far it can be from zero.
LEMMA QuotientIs ==
    ASSUME NEW w \in Int, NEW m \in Int, m > 0
    PROVE  /\ w \div m \in Int
           /\ \A d \in Int : m * d <= w => d <= w \div m
           /\ \A b \in Nat : w <= b => w \div m <= b
<1>1. PICK q : q = w \div m
  OBVIOUS
<1>2. q \in Int /\ m * q <= w /\ w < m * q + m
  BY <1>1, Quotient
<1>3. ASSUME NEW d \in Int, m * d <= w PROVE d <= q
  <2> SUFFICES ASSUME q + 1 <= d PROVE FALSE
    BY <1>2
  <2>1. (q + 1) * m <= d * m
    BY <1>2, Multiplied
  <2>2. (q + 1) * m = m * q + m /\ d * m = m * d
    BY <1>2
  <2>3. m * q \in Int /\ m * d \in Int
    BY <1>2
  <2> QED BY <1>2, <1>3, <2>1, <2>2, <2>3
<1>4. ASSUME NEW b \in Nat, w <= b PROVE q <= b
  <2>1. CASE q <= 0
    BY <1>2, <2>1
  <2>2. CASE q > 0
    <3>1. 1 * q <= m * q
      BY <1>2, <2>2, Multiplied
    <3>2. m * q \in Int /\ 1 * q = q
      BY <1>2
    <3> QED BY <1>2, <1>4, <3>1, <3>2
  <2> QED BY <1>2, <2>1, <2>2
<1> QED BY <1>1, <1>2, <1>3, <1>4

\* Rounding inwards loses no whole number.
LEMMA DividedIs ==
    ASSUME NEW r \in Ranges, NEW k \in Int, k # 0, r # Empty => Divisible(r, k)
    PROVE  /\ Divided(r, k) \in Ranges
           /\ \A d \in Int : Fits(d) /\ Within(k * d, r) => Within(d, Divided(r, k))
<1>1. CASE r = Empty
  BY <1>1, EmptyIs DEF Divided
<1>2. CASE r # Empty /\ k > 0
  <2>1. PICK low, high : low = r.low /\ high = r.high
    OBVIOUS
  <2>2. /\ low \in Int /\ high \in Int /\ -low \in Int /\ -low <= MaxInt + 1
        /\ MaxInt + 1 \in Nat
    BY <2>1, RangeIs, Width
  <2>3. PICK p, q : p = (-low) \div k /\ q = high \div k
    OBVIOUS
  <2>4. /\ p \in Int /\ q \in Int /\ p <= MaxInt + 1
        /\ \A d \in Int : k * d <= -low => d <= p
        /\ \A d \in Int : k * d <= high => d <= q
    BY <1>2, <2>2, <2>3, QuotientIs
  <2>5. Divided(r, k) = Between(-p, Clamp(q)) /\ -p <= MaxInt
    BY <1>2, <2>1, <2>3 DEF Divided, Divisible, RoundUp, RoundDown, Floor
  <2>6. ASSUME NEW d \in Int, Fits(d), Within(k * d, r)
        PROVE  -p <= d /\ d <= Clamp(q)
    <3>1. PICK w \in Int : w = k * d
      OBVIOUS
    <3>2. low <= w /\ w <= high
      BY <2>1, <2>6, <3>1 DEF Within
    <3>3. k * (-d) = -w
      BY <1>2, <3>1
    <3>4. -d <= p /\ d <= q
      BY <2>2, <2>4, <3>1, <3>2, <3>3
    <3> QED BY <2>4, <2>6, <3>4, ClampIs
  <2> QED BY <2>4, <2>5, <2>6, BetweenIs, ClampIs, Width
<1>3. CASE r # Empty /\ k < 0
  <2>1. PICK low, high, m : low = r.low /\ high = r.high /\ m = -k
    OBVIOUS
  <2>2. /\ low \in Int /\ high \in Int /\ -low \in Int /\ m \in Int /\ m > 0
        /\ high <= MaxInt + 1 /\ MaxInt + 1 \in Nat
    BY <1>3, <2>1, RangeIs, Width
  <2>3. PICK p, q : p = high \div m /\ q = (-low) \div m
    OBVIOUS
  <2>4. /\ p \in Int /\ q \in Int /\ p <= MaxInt + 1
        /\ \A d \in Int : m * d <= high => d <= p
        /\ \A d \in Int : m * d <= -low => d <= q
    BY <2>2, <2>3, QuotientIs
  <2>5. Floor(-high, k) = p /\ Floor(low, k) = q
    <3>1. ~(k > 0) /\ -(-high) = high
      BY <1>3, <2>2
    <3> QED BY <2>1, <2>3, <3>1 DEF Floor
  <2>6. Divided(r, k) = Between(-p, Clamp(q)) /\ -p <= MaxInt
    <3>1. ~(k > 0)
      BY <1>3
    <3> QED BY <1>3, <2>1, <2>5, <3>1 DEF Divided, Divisible, RoundUp, RoundDown
  <2>7. ASSUME NEW d \in Int, Fits(d), Within(k * d, r)
        PROVE  -p <= d /\ d <= Clamp(q)
    <3>1. PICK w \in Int : w = k * d
      OBVIOUS
    <3>2. low <= w /\ w <= high
      BY <2>1, <2>7, <3>1 DEF Within
    <3>3. w \in Int /\ (-k) * (-d) = k * d /\ (-k) * d = -(k * d)
      BY <3>1
    <3>4. m * (-d) = w /\ m * d = -w
      BY <2>1, <3>1, <3>3
    <3>5. m * (-d) <= high /\ m * d <= -low
      BY <2>2, <3>2, <3>3, <3>4
    <3>6. -d \in Int
      OBVIOUS
    <3>7. -d <= p /\ d <= q
      BY <2>4, <3>5, <3>6
    <3> QED BY <2>4, <2>7, <3>7, ClampIs
  <2> QED BY <2>4, <2>6, <2>7, BetweenIs, ClampIs, Width
<1> QED BY <1>1, <1>2, <1>3

-----------------------------------------------------------------------------
(* Linear forms.  What an expression is worth is the sum of at most four     *)
(* parts, a weight of a name or a fixed amount each.                         *)

\* The part of a weight of a name, and what it counts for each term.
Part(b, x, w) == IF x \in Terms THEN b * w[x] ELSE 0
Share(b, x, t) == IF x = t THEN b ELSE 0

Zeroed(w, t) == [w EXCEPT ![t] = 0]

\* Taking a term to be zero takes away what is counted of it, and no more.
LEMMA ZeroOne ==
    ASSUME NEW w \in [Terms -> Int], NEW t \in Terms, NEW b \in Int, NEW x,
           NEW u, u = [w EXCEPT ![t] = 0]
    PROVE  /\ u \in [Terms -> Int]
           /\ Part(b, x, u) \in Int /\ Part(b, x, w) \in Int
           /\ Part(b, x, u) = Part(b, x, w) - Share(b, x, t) * w[t]
<1>1. u \in [Terms -> Int] /\ u[t] = 0
  OBVIOUS
<1>2. CASE x = t
  <2>1. Part(b, x, w) = b * w[t] /\ Share(b, x, t) = b /\ Part(b, x, u) = b * 0
    BY <1>1, <1>2 DEF Part, Share
  <2>2. b * 0 = 0 /\ b * w[t] \in Int
    OBVIOUS
  <2> QED BY <1>1, <2>1, <2>2
<1>3. CASE x # t
  <2>1. Part(b, x, w) = Part(b, x, u) /\ Share(b, x, t) = 0 /\ Part(b, x, w) \in Int
    BY <1>1, <1>3 DEF Part, Share
  <2>2. 0 * w[t] = 0
    OBVIOUS
  <2> QED BY <1>1, <2>1, <2>2
<1> QED BY <1>2, <1>3

\* Four of them, and what they count of a term.
Worth(B, X, w) == Part(B[1], X[1], w) + Part(B[2], X[2], w) + Part(B[3], X[3], w) + Part(B[4], X[4], w)
Count(B, X, t) == Share(B[1], X[1], t) + Share(B[2], X[2], t) + Share(B[3], X[3], t) + Share(B[4], X[4], t)
Weights == [1 .. 4 -> Int]

LEMMA ZeroFour ==
    ASSUME NEW w \in [Terms -> Int], NEW t \in Terms, NEW u, u = Zeroed(w, t),
           NEW B \in Weights, NEW X
    PROVE  /\ u \in [Terms -> Int]
           /\ Worth(B, X, u) \in Int /\ Worth(B, X, w) \in Int /\ Count(B, X, t) \in Int
           /\ Worth(B, X, u) = Worth(B, X, w) - Count(B, X, t) * w[t]
<1>1. u \in [Terms -> Int] /\ B[1] \in Int /\ B[2] \in Int /\ B[3] \in Int /\ B[4] \in Int
  BY DEF Weights, Zeroed
<1>2. PICK s1 \in Int, s2 \in Int, s3 \in Int, s4 \in Int, v \in Int :
         /\ s1 = Share(B[1], X[1], t) /\ s2 = Share(B[2], X[2], t)
         /\ s3 = Share(B[3], X[3], t) /\ s4 = Share(B[4], X[4], t) /\ v = w[t]
  <2>1. \A b \in Int : \A x : Share(b, x, t) \in Int
    BY DEF Share
  <2>2. /\ Share(B[1], X[1], t) \in Int /\ Share(B[2], X[2], t) \in Int
        /\ Share(B[3], X[3], t) \in Int /\ Share(B[4], X[4], t) \in Int /\ w[t] \in Int
    BY <1>1, <2>1
  <2> QED BY <2>2, Zenon
<1>3. ASSUME NEW b \in Int, NEW x
      PROVE  /\ Part(b, x, w) \in Int /\ Part(b, x, u) \in Int
             /\ Part(b, x, u) = Part(b, x, w) - Share(b, x, t) * w[t]
  BY ZeroOne DEF Zeroed
<1>4. PICK p1 \in Int, p2 \in Int, p3 \in Int, p4 \in Int :
         /\ p1 = Part(B[1], X[1], w) /\ p2 = Part(B[2], X[2], w)
         /\ p3 = Part(B[3], X[3], w) /\ p4 = Part(B[4], X[4], w)
  BY <1>1, <1>3
<1>5. /\ Part(B[1], X[1], u) = Part(B[1], X[1], w) - Share(B[1], X[1], t) * w[t]
      /\ Part(B[2], X[2], u) = Part(B[2], X[2], w) - Share(B[2], X[2], t) * w[t]
      /\ Part(B[3], X[3], u) = Part(B[3], X[3], w) - Share(B[3], X[3], t) * w[t]
      /\ Part(B[4], X[4], u) = Part(B[4], X[4], w) - Share(B[4], X[4], t) * w[t]
  BY <1>1, <1>3, Zenon
<1>6. /\ Part(B[1], X[1], u) = p1 - s1 * v /\ Part(B[2], X[2], u) = p2 - s2 * v
      /\ Part(B[3], X[3], u) = p3 - s3 * v /\ Part(B[4], X[4], u) = p4 - s4 * v
  BY <1>2, <1>4, <1>5, Zenon
<1>7. (s1 + s2 + s3 + s4) * v = s1 * v + s2 * v + s3 * v + s4 * v
  OBVIOUS
<1>8. PICK q1 \in Int, q2 \in Int, q3 \in Int, q4 \in Int :
         q1 = s1 * v /\ q2 = s2 * v /\ q3 = s3 * v /\ q4 = s4 * v
  OBVIOUS
<1>9. Count(B, X, t) = s1 + s2 + s3 + s4
  BY <1>2 DEF Count
<1>10. Worth(B, X, w) = p1 + p2 + p3 + p4
  BY <1>4 DEF Worth
<1>11. Worth(B, X, u) = p1 + p2 + p3 + p4 - (q1 + q2 + q3 + q4)
  BY <1>6, <1>8 DEF Worth
<1>12. Count(B, X, t) * w[t] = q1 + q2 + q3 + q4
  BY <1>2, <1>7, <1>8, <1>9
<1> QED BY <1>1, <1>9, <1>10, <1>11, <1>12

\* What they are worth beside two terms, of which they may count.
Beside(B, X, a, z, ca, cz, w) == Worth(B, X, w) - ca * w[a] - cz * w[z]

Adds(B, X, a, z, ca, cz) ==
    /\ a = z => cz = 0
    /\ \A t \in Terms : Count(B, X, t) = (IF t = a THEN ca ELSE IF t = z THEN cz ELSE 0)

\* So four parts are worth what they count of those two terms.
LEMMA FourParts ==
    ASSUME NEW w \in [Terms -> Int], NEW B \in Weights, NEW X,
           NEW a \in Terms, NEW z \in Terms, NEW ca \in Int, NEW cz \in Int,
           Adds(B, X, a, z, ca, cz)
    PROVE  Worth(B, X, w) = ca * w[a] + cz * w[z]
<1> DEFINE Rest(u) == Beside(B, X, a, z, ca, cz, u)
           Zero(x, u) == IF x \in Terms THEN Zeroed(u, x) ELSE u
<1>0. ASSUME NEW u \in [Terms -> Int], NEW t \in Terms, NEW v, v = Zeroed(u, t)
      PROVE  Rest(v) = Rest(u)
  <2>0. (a = z => cz = 0) /\ Count(B, X, t) = (IF t = a THEN ca ELSE IF t = z THEN cz ELSE 0)
    BY DEF Adds
  <2>1. PICK p \in Int, n \in Int : p = Worth(B, X, u) /\ n = u[t]
    BY ZeroFour
  <2>2. /\ v \in [Terms -> Int]
        /\ Worth(B, X, v) = p - Count(B, X, t) * n
    <3>1. /\ v \in [Terms -> Int]
          /\ Worth(B, X, v) = Worth(B, X, u) - Count(B, X, t) * u[t]
      BY <1>0, ZeroFour
    <3> QED BY <2>1, <3>1
  <2>3. ca * u[a] \in Int /\ cz * u[z] \in Int /\ ca * n \in Int /\ cz * n \in Int /\ 0 * n = 0
        /\ ca * 0 = 0 /\ cz * 0 = 0 /\ (\A y \in Int : 0 * y = 0)
    OBVIOUS
  <2>4. CASE t = a
    <3>1. v[a] = 0 /\ u[a] = n /\ Count(B, X, t) = ca
      BY <1>0, <2>0, <2>1, <2>4 DEF Zeroed
    <3>2. cz * v[z] = cz * u[z]
      <4>1. CASE a = z
        BY <2>0, <2>2, <2>3, <4>1
      <4>2. CASE a # z
        <5>1. v[z] = u[z]
          BY <1>0, <2>4, <4>2 DEF Zeroed
        <5> QED BY <5>1
      <4> QED BY <4>1, <4>2
    <3>3. Worth(B, X, v) = p - ca * n /\ ca * v[a] = 0 /\ ca * u[a] = ca * n
      BY <2>2, <2>3, <3>1
    <3> QED BY <2>1, <2>3, <3>2, <3>3 DEF Beside
  <2>5. CASE t # a /\ t = z
    <3>1. v[z] = 0 /\ u[z] = n /\ v[a] = u[a] /\ Count(B, X, t) = cz
      BY <1>0, <2>0, <2>1, <2>5 DEF Zeroed
    <3>2. Worth(B, X, v) = p - cz * n /\ cz * v[z] = 0 /\ cz * u[z] = cz * n /\ ca * v[a] = ca * u[a]
      BY <2>2, <2>3, <3>1
    <3> QED BY <2>1, <2>3, <3>2 DEF Beside
  <2>6. CASE t # a /\ t # z
    <3>1. v[z] = u[z] /\ v[a] = u[a] /\ Count(B, X, t) = 0
      BY <1>0, <2>0, <2>6 DEF Zeroed
    <3>2. Worth(B, X, v) = p
      BY <2>2, <2>3, <3>1
    <3> QED BY <2>1, <3>1, <3>2 DEF Beside
  <2> QED BY <2>4, <2>5, <2>6
<1>1. ASSUME NEW u \in [Terms -> Int], NEW x
      PROVE  /\ Zero(x, u) \in [Terms -> Int]
             /\ Rest(Zero(x, u)) = Rest(u)
             /\ x \in Terms => Zero(x, u)[x] = 0
             /\ \A t \in Terms : u[t] = 0 => Zero(x, u)[t] = 0
  <2>1. CASE x \in Terms
    <3>1. PICK v : v = Zeroed(u, x)
      OBVIOUS
    <3>2. Zero(x, u) = v
      BY <2>1, <3>1
    <3>3. v \in [Terms -> Int] /\ v[x] = 0 /\ \A t \in Terms : u[t] = 0 => v[t] = 0
      BY <2>1, <3>1 DEF Zeroed
    <3>4. Rest(v) = Rest(u)
      BY <1>0, <2>1, <3>1
    <3> HIDE DEF Rest, Zero
    <3> QED BY <2>1, <3>2, <3>3, <3>4
  <2>2. CASE x \notin Terms
    BY <2>2
  <2> QED BY <2>1, <2>2
<1>2. PICK u1, u2, u3, u4, u5, u6 :
         /\ u1 = Zero(X[1], w) /\ u2 = Zero(X[2], u1) /\ u3 = Zero(X[3], u2) /\ u4 = Zero(X[4], u3)
         /\ u5 = Zero(a, u4) /\ u6 = Zero(z, u5)
  OBVIOUS
<1> HIDE DEF Zero
<1>3. /\ Rest(w) = Rest(u6)
      /\ u6 \in [Terms -> Int] /\ u6[a] = 0 /\ u6[z] = 0
      /\ \A k \in 1 .. 4 : X[k] \in Terms => u6[X[k]] = 0
  <2> HIDE DEF Rest
  <2>1. u1 \in [Terms -> Int] /\ Rest(u1) = Rest(w) /\ (X[1] \in Terms => u1[X[1]] = 0)
    BY <1>1, <1>2
  <2>2. /\ u2 \in [Terms -> Int] /\ Rest(u2) = Rest(u1) /\ (X[2] \in Terms => u2[X[2]] = 0)
        /\ \A t \in Terms : u1[t] = 0 => u2[t] = 0
    BY <1>1, <1>2, <2>1
  <2>3. /\ u3 \in [Terms -> Int] /\ Rest(u3) = Rest(u2) /\ (X[3] \in Terms => u3[X[3]] = 0)
        /\ \A t \in Terms : u2[t] = 0 => u3[t] = 0
    BY <1>1, <1>2, <2>2
  <2>4. /\ u4 \in [Terms -> Int] /\ Rest(u4) = Rest(u3) /\ (X[4] \in Terms => u4[X[4]] = 0)
        /\ \A t \in Terms : u3[t] = 0 => u4[t] = 0
    BY <1>1, <1>2, <2>3
  <2>5. /\ u5 \in [Terms -> Int] /\ Rest(u5) = Rest(u4) /\ u5[a] = 0
        /\ \A t \in Terms : u4[t] = 0 => u5[t] = 0
    BY <1>1, <1>2, <2>4
  <2>6. /\ u6 \in [Terms -> Int] /\ Rest(u6) = Rest(u5) /\ u6[z] = 0
        /\ \A t \in Terms : u5[t] = 0 => u6[t] = 0
    BY <1>1, <1>2, <2>5
  <2>7. \A k \in 1 .. 4 : k = 1 \/ k = 2 \/ k = 3 \/ k = 4
    OBVIOUS
  <2> QED BY <2>1, <2>2, <2>3, <2>4, <2>5, <2>6, <2>7
<1>4. Rest(u6) = 0
  <2>1. ASSUME NEW b \in Int, NEW x, x \in Terms => u6[x] = 0 PROVE Part(b, x, u6) = 0
    <3>1. b * 0 = 0
      OBVIOUS
    <3> QED BY <2>1, <3>1 DEF Part
  <2>2. /\ Part(B[1], X[1], u6) = 0 /\ Part(B[2], X[2], u6) = 0
        /\ Part(B[3], X[3], u6) = 0 /\ Part(B[4], X[4], u6) = 0
    BY <1>3, <2>1 DEF Weights
  <2>3. ca * u6[a] = 0 /\ cz * u6[z] = 0
    <3>1. ca * 0 = 0 /\ cz * 0 = 0
      OBVIOUS
    <3> QED BY <1>3, <3>1
  <2> QED BY <2>2, <2>3 DEF Beside, Worth
<1>5. PICK p \in Int, y1 \in Int, y2 \in Int :
         p = Worth(B, X, w) /\ y1 = ca * w[a] /\ y2 = cz * w[z]
  <2>1. Worth(B, X, w) \in Int
    BY ZeroFour
  <2>2. ca * w[a] \in Int /\ cz * w[z] \in Int
    OBVIOUS
  <2> QED BY <2>1, <2>2
<1>6. p - y1 - y2 = 0
  <2>1. Rest(w) = p - y1 - y2
    BY <1>5 DEF Beside
  <2> HIDE DEF Rest
  <2> QED BY <1>3, <1>4, <2>1
<1> QED BY <1>5, <1>6

-----------------------------------------------------------------------------
(* What a form says of a store *)

Integral(s) == \A t \in Terms : s[t] \in Int
CountsAs(form, B, X) ==
    /\ form.count \in [Terms -> Int]
    /\ \A t \in Terms : form.count[t] = Count(B, X, t)

\* Only the names that are read are counted.
LEMMA CountedAreRead ==
    ASSUME NEW form, NEW B \in Weights, NEW X, CountsAs(form, B, X), NEW t \in Counted(form)
    PROVE  t \in Terms /\ t \in {X[1], X[2], X[3], X[4]}
<1>1. Count(B, X, t) # 0 /\ t \in Terms
  BY DEF Counted, CountsAs
<1> QED BY <1>1 DEF Count, Share

Shows(form, a, z, ca, cz) ==
    /\ a = z => cz = 0
    /\ \A t \in Terms : form.count[t] = (IF t = a THEN ca ELSE IF t = z THEN cz ELSE 0)

\* A form with at most two terms is worth what it counts of them.
LEMMA TwoTerms ==
    ASSUME NEW form, NEW B \in Weights, NEW X, CountsAs(form, B, X),
           NEW s, Integral(s), NEW a \in Terms, NEW z \in Terms, NEW ca \in Int, NEW cz \in Int,
           Shows(form, a, z, ca, cz)
    PROVE  Worth(B, X, s) = ca * s[a] + cz * s[z]
<1>1. PICK w : w = [t \in Terms |-> s[t]]
  OBVIOUS
<1>2. w \in [Terms -> Int] /\ w[a] = s[a] /\ w[z] = s[z]
  BY <1>1 DEF Integral
<1>3. Worth(B, X, s) = Worth(B, X, w)
  BY <1>1 DEF Worth, Part
<1>4. Adds(B, X, a, z, ca, cz)
  BY DEF CountsAs, Adds, Shows
<1>5. Worth(B, X, w) = ca * w[a] + cz * w[z]
  BY <1>2, <1>4, FourParts
<1> QED BY <1>2, <1>3, <1>5

LEMMA ChosenIs == ASSUME NEW S, S # {} PROVE The(S) \in S
BY DEF The

LEMMA NameIs ==
    ASSUME NEW form, NEW B \in Weights, NEW X, CountsAs(form, B, X), NEW s, Integral(s),
           NameOf(form) # {}, NEW t, t = The(NameOf(form))
    PROVE  /\ t \in Terms /\ t \in {X[1], X[2], X[3], X[4]}
           /\ form.count[t] \in Int /\ form.count[t] # 0
           /\ Worth(B, X, s) = form.count[t] * s[t]
<1>1. t \in Counted(form) /\ Counted(form) = {t}
  BY ChosenIs DEF NameOf
<1>2. PICK ca : ca = form.count[t]
  OBVIOUS
<1>3. t \in Terms /\ ca \in Int /\ ca # 0
  BY <1>1, <1>2 DEF Counted, CountsAs
<1>4. Shows(form, t, t, ca, 0)
  BY <1>1, <1>2 DEF Counted, Shows
<1>5. Worth(B, X, s) = ca * s[t] + 0 * s[t]
  BY <1>3, <1>4, TwoTerms
<1>6. s[t] \in Int
  BY <1>3 DEF Integral
<1>7. ca * s[t] \in Int /\ 0 * s[t] = 0
  BY <1>3, <1>6
<1> QED BY <1>1, <1>2, <1>3, <1>5, <1>7, CountedAreRead

LEMMA PairIs ==
    ASSUME NEW form, NEW B \in Weights, NEW X, CountsAs(form, B, X), NEW s, Integral(s),
           PairOf(form) # {}, NEW p, p = The(PairOf(form))
    PROVE  /\ p \in Pairs /\ p[1] \in Terms /\ p[2] \in Terms /\ p[1] # p[2] /\ p = <<p[1], p[2]>>
           /\ p[1] \in {X[1], X[2], X[3], X[4]} /\ p[2] \in {X[1], X[2], X[3], X[4]}
           /\ Worth(B, X, s) = s[p[1]] - s[p[2]]
<1>1. /\ p \in Counted(form) \X Counted(form) /\ Counted(form) = {p[1], p[2]}
      /\ form.count[p[1]] = 1 /\ form.count[p[2]] = -1
  BY ChosenIs DEF PairOf
<1>2. PICK a, z : a = p[1] /\ z = p[2]
  OBVIOUS
<1>3. /\ a \in Counted(form) /\ z \in Counted(form) /\ a # z /\ a \in Terms /\ z \in Terms
      /\ p = <<a, z>>
  BY <1>1, <1>2 DEF Counted
<1>4. Shows(form, a, z, 1, -1)
  BY <1>1, <1>2, <1>3 DEF Counted, Shows
<1>5. Worth(B, X, s) = 1 * s[a] + (-1) * s[z]
  BY <1>3, <1>4, TwoTerms
<1>6. s[a] \in Int /\ s[z] \in Int
  BY <1>3 DEF Integral
<1>7. 1 * s[a] + (-1) * s[z] = s[a] - s[z]
  BY <1>6
<1>8. p \in Pairs
  BY <1>2, <1>3 DEF Pairs
<1>9. a \in {X[1], X[2], X[3], X[4]} /\ z \in {X[1], X[2], X[3], X[4]}
  BY <1>3, CountedAreRead
<1> QED BY <1>2, <1>3, <1>5, <1>7, <1>8, <1>9

LEMMA CoupleIs ==
    ASSUME NEW form, NEW B \in Weights, NEW X, CountsAs(form, B, X), NEW s, Integral(s),
           CoupleOf(form) # {}
    PROVE  \E p \in Pairs :
              /\ The(CoupleOf(form)) = {p[1], p[2]} /\ p[1] \in Terms /\ p[2] \in Terms
              /\ p[1] \in {X[1], X[2], X[3], X[4]} /\ p[2] \in {X[1], X[2], X[3], X[4]}
              /\ Worth(B, X, s) = s[p[1]] + s[p[2]]
<1>1. PICK c : c = The(CoupleOf(form))
  OBVIOUS
<1>2. c = Counted(form) /\ c \in Couples /\ \A t \in c : form.count[t] = 1
  BY <1>1, ChosenIs DEF CoupleOf
<1>3. PICK p \in Pairs : c = {p[1], p[2]}
  BY <1>2 DEF Couples
<1>4. PICK a, z : a = p[1] /\ z = p[2]
  OBVIOUS
<1>5. a \in Terms /\ z \in Terms /\ a # z /\ a \in Counted(form) /\ z \in Counted(form)
  BY <1>2, <1>3, <1>4 DEF Pairs
<1>6. Shows(form, a, z, 1, 1)
  BY <1>2, <1>3, <1>4, <1>5 DEF Counted, Shows
<1>7. Worth(B, X, s) = 1 * s[a] + 1 * s[z]
  BY <1>5, <1>6, TwoTerms
<1>8. s[a] \in Int /\ s[z] \in Int
  BY <1>5 DEF Integral
<1>9. 1 * s[a] + 1 * s[z] = s[a] + s[z]
  BY <1>8
<1>10. a \in {X[1], X[2], X[3], X[4]} /\ z \in {X[1], X[2], X[3], X[4]}
  BY <1>5, CountedAreRead
<1> QED BY <1>1, <1>3, <1>4, <1>5, <1>7, <1>9, <1>10

-----------------------------------------------------------------------------
(* What an expression is worth in a store, and its form *)

Names == Terms \union Fields \union {One}
Reader(x, s) == IF x = One THEN 1 ELSE s[x]

\* A store the run can have, with `free` names not bound yet.
Proper(s, free) ==
    /\ s \in Stores
    /\ \A t \in Fields : Within(s[t], Refined[t])
    /\ \A n \in free : s[n] = 0

\* The part of a weight that is no term's.
Fixed(b, x, s) == IF x \in Terms THEN 0 ELSE b * Reader(x, s)

LEMMA ScaleIs == Scale \in Nat /\ Scale >= 1 /\ MaxValue <= Scale
BY Width DEF Scale

LEMMA AbsoluteIs ==
    ASSUME NEW b \in Int
    PROVE  Absolute(b) \in Nat /\ -Absolute(b) <= b /\ b <= Absolute(b)
BY DEF Absolute

LEMMA OneIsNoName == One \notin Terms /\ One \notin Fields /\ Terms \intersect Fields = {}
<1>1. Kinds[1] = Params /\ Kinds[2] = Locals /\ Kinds[3] = State /\ Kinds[4] = Lengths
      /\ Kinds[5] = Fields /\ Kinds[6] = {One} /\ DOMAIN Kinds = 1 .. 6
  BY DEF Kinds
<1>2. \A i, j \in 1 .. 6 : i # j => Kinds[i] \intersect Kinds[j] = {}
  BY <1>1, NamesAssumption
<1>3. \A i \in 1 .. 5 : Kinds[i] \intersect Kinds[6] = {}
  BY <1>2
<1>4. \A i \in 1 .. 4 : Kinds[i] \intersect Kinds[5] = {}
  BY <1>2
<1>5. /\ Params \intersect {One} = {} /\ Locals \intersect {One} = {} /\ State \intersect {One} = {}
      /\ Lengths \intersect {One} = {} /\ Fields \intersect {One} = {}
  BY <1>1, <1>3
<1>6. /\ Params \intersect Fields = {} /\ Locals \intersect Fields = {} /\ State \intersect Fields = {}
      /\ Lengths \intersect Fields = {}
  BY <1>1, <1>4
<1> QED BY <1>5, <1>6 DEF Terms

LEMMA ReaderIs ==
    ASSUME NEW s \in Stores, NEW x \in Names
    PROVE  Reader(x, s) \in Int /\ -Scale <= Reader(x, s) /\ Reader(x, s) <= Scale
<1>1. CASE x = One
  BY <1>1, ScaleIs DEF Reader
<1>2. CASE x # One
  <2>1. s[x] \in -MaxValue .. MaxValue
    BY <1>2 DEF Names, Stores
  <2>2. PICK v : v = s[x]
    OBVIOUS
  <2>3. v \in Int /\ -MaxValue <= v /\ v <= MaxValue
    BY <2>1, <2>2, Width
  <2>4. Reader(x, s) = v
    BY <1>2, <2>2 DEF Reader
  <2> QED BY <2>3, <2>4, ScaleIs, Width
<1> QED BY <1>1, <1>2

LEMMA StoreIs ==
    ASSUME NEW s \in Stores
    PROVE  Integral(s) /\ \A t \in Terms : s[t] \in Int /\ -MaxValue <= s[t] /\ s[t] <= MaxValue
<1>1. ASSUME NEW t \in Terms PROVE s[t] \in Int /\ -MaxValue <= s[t] /\ s[t] <= MaxValue
  <2>1. s[t] \in -MaxValue .. MaxValue
    BY DEF Stores
  <2>2. PICK v : v = s[t]
    OBVIOUS
  <2> QED BY <2>1, <2>2, Width
<1> QED BY <1>1 DEF Integral

\* A product is no further from zero than the product of two distances.
LEMMA Bounded ==
    ASSUME NEW b \in Int, NEW v \in Int, NEW m \in Nat, NEW k \in Nat,
           -m <= b, b <= m, -k <= v, v <= k
    PROVE  b * v \in Int /\ -(m * k) <= b * v /\ b * v <= m * k
<1>1. b * v \in Int /\ m * v \in Int /\ (-m) * v \in Int /\ m * k \in Int /\ k * m \in Int /\ v * m \in Int
      /\ (-k) * m \in Int
  OBVIOUS
<1>2. v * m <= k * m /\ (-k) * m <= v * m
  BY Multiplied
<1>3. m * v = v * m /\ m * k = k * m /\ (-k) * m = -(k * m) /\ (-m) * v = -(v * m)
  OBVIOUS
<1>4. CASE v >= 0
  <2>1. (-m) * v <= b * v /\ b * v <= m * v
    BY <1>4, Multiplied
  <2> QED BY <1>1, <1>2, <1>3, <2>1
<1>5. CASE v <= 0
  <2>1. m * v <= b * v /\ b * v <= (-m) * v
    BY <1>5, Multiplied
  <2> QED BY <1>1, <1>2, <1>3, <2>1
<1> QED BY <1>4, <1>5

\* A weight of a name is its part and what is no term's, one of them zero, and
\* no further from zero than its room.
LEMMA PartsOfOne ==
    ASSUME NEW s \in Stores, NEW b \in Int, NEW x \in Names, NEW room, room = Absolute(b) * Scale
    PROVE  /\ room \in Nat
           /\ b * Reader(x, s) \in Int /\ Part(b, x, s) \in Int /\ Fixed(b, x, s) \in Int
           /\ b * Reader(x, s) = Part(b, x, s) + Fixed(b, x, s)
           /\ -room <= b * Reader(x, s) /\ b * Reader(x, s) <= room
           /\ -room <= Part(b, x, s) /\ Part(b, x, s) <= room
           /\ -room <= Fixed(b, x, s) /\ Fixed(b, x, s) <= room
<1>1. Absolute(b) \in Nat /\ -Absolute(b) <= b /\ b <= Absolute(b) /\ Scale \in Nat
  BY AbsoluteIs, ScaleIs
<1>2. PICK r : r = Reader(x, s)
  OBVIOUS
<1>3. r \in Int /\ -Scale <= r /\ r <= Scale
  BY <1>2, ReaderIs
<1>4. b * r \in Int /\ -room <= b * r /\ b * r <= room
  BY <1>1, <1>3, Bounded
<1>5. room \in Nat
  BY <1>1
<1>6. CASE x \in Terms
  <2>1. Part(b, x, s) = b * r /\ Fixed(b, x, s) = 0
    BY <1>2, <1>6, OneIsNoName DEF Part, Fixed, Reader
  <2> QED BY <1>2, <1>4, <1>5, <2>1
<1>7. CASE x \notin Terms
  <2>1. Part(b, x, s) = 0 /\ Fixed(b, x, s) = b * r
    BY <1>2, <1>7 DEF Part, Fixed
  <2> QED BY <1>2, <1>4, <1>5, <2>1
<1> QED BY <1>6, <1>7

\* The weight an expression gives its second operand.
Second(e) == CASE e.op = "only" -> 0 [] e.op = "+" -> e.r.by [] e.op = "-" -> -e.r.by

LEMMA ExpressionHas ==
    ASSUME NEW e \in Expressions
    PROVE  /\ e.op \in {"only", "+", "-"} /\ e.l \in Operands /\ e.r \in Operands
           /\ e.l.of \in Names /\ e.r.of \in Names
           /\ e.l.by \in Int /\ e.r.by \in Int /\ MinInt <= e.l.by /\ MinInt <= e.r.by
           /\ Second(e) \in Int
           /\ Absolute(Second(e)) = (IF e.op = "only" THEN 0 ELSE Absolute(e.r.by))
           /\ Weight(e) = Absolute(e.l.by) + Absolute(Second(e))
           /\ Weight(e) \in Nat
<1>1. e.op \in {"only", "+", "-"} /\ e.l \in Operands /\ e.r \in Operands
  BY DEF Expressions
<1>2. /\ e.l.of \in Names /\ e.r.of \in Names
      /\ e.l.by \in Int /\ e.r.by \in Int /\ MinInt <= e.l.by /\ MinInt <= e.r.by
  BY <1>1, Width DEF Operands, Names
<1>3. /\ Second(e) \in Int
      /\ Absolute(Second(e)) = (IF e.op = "only" THEN 0 ELSE Absolute(e.r.by))
  BY <1>1, <1>2 DEF Second, Absolute
<1>4. Weight(e) = Absolute(e.l.by) + Absolute(Second(e))
  BY <1>3 DEF Weight
<1> QED BY <1>1, <1>2, <1>3, <1>4, AbsoluteIs

LEMMA OperandFormIs ==
    ASSUME NEW o \in Operands, NEW s, NEW free, Proper(s, free), NEW z, z = Fixed(o.by, o.of, s), Fits(z)
    PROVE  /\ OperandForm(o).count \in [Terms -> Int]
           /\ \A t \in Terms : OperandForm(o).count[t] = Share(o.by, o.of, t)
           /\ OperandForm(o).offset \in Ranges
           /\ Within(z, OperandForm(o).offset)
<1>1. o.by \in Int /\ o.of \in Names /\ s \in Stores
  BY Width DEF Operands, Names, Proper
<1>2. CASE o.of \in Terms
  <2>1. OperandForm(o) = [count |-> [t \in Terms |-> IF t = o.of THEN o.by ELSE 0], offset |-> Exactly(0)]
    BY <1>2 DEF OperandForm
  <2>2. z = 0
    BY <1>2 DEF Fixed
  <2>3. Exactly(0) \in Ranges /\ Within(0, Exactly(0))
    BY <2>2, ExactlyIs
  <2> QED BY <1>1, <2>1, <2>2, <2>3 DEF Share
<1>3. CASE o.of \notin Terms
  <2>1. OperandForm(o) = [count |-> [t \in Terms |-> 0], offset |-> Times(Source(o), o.by)]
    BY <1>3 DEF OperandForm, Constant
  <2>2. PICK r : r = Reader(o.of, s)
    OBVIOUS
  <2>3. r \in Int /\ z = o.by * r
    BY <1>1, <1>3, <2>2, ReaderIs DEF Fixed
  <2>4. Source(o) \in Ranges /\ Within(r, Source(o))
    <3>1. CASE o.of = One
      <4>1. Exactly(1) \in Ranges /\ Within(1, Exactly(1))
        BY ExactlyIs, Width DEF Fits
      <4> QED BY <2>2, <3>1, <4>1 DEF Source, Reader
    <3>2. CASE o.of # One
      <4>1. o.of \in Fields
        BY <1>1, <1>3, <3>2 DEF Names
      <4>2. Refined[o.of] \in Ranges
        BY <4>1, RefinedAssumption
      <4> QED BY <2>2, <3>2, <4>1, <4>2 DEF Source, Reader, Proper
    <3> QED BY <3>1, <3>2
  <2>5. Times(Source(o), o.by) \in Ranges /\ Within(z, Times(Source(o), o.by))
    BY <1>1, <2>3, <2>4, TimesIs
  <2>6. \A t \in Terms : Share(o.by, o.of, t) = 0
    BY <1>3 DEF Share
  <2> QED BY <2>1, <2>5, <2>6
<1> QED BY <1>2, <1>3

\* Room(w): what weighs no more than w stays in the width.
Room(w) == w \in Nat /\ w * Scale <= MaxInt

LEMMA RoomIs ==
    ASSUME NEW w, Room(w)
    PROVE  /\ w <= MaxInt
           /\ \A v \in Nat : v <= w => Room(v)
<1>1. ASSUME NEW v \in Nat, v <= w PROVE v * Scale \in Nat /\ v * Scale <= w * Scale
  BY <1>1, ScaleIs, Multiplied DEF Room
<1>2. w \in Nat /\ 1 <= Scale /\ Scale \in Nat
  BY ScaleIs DEF Room
<1>3. 1 * w <= Scale * w
  BY <1>2, Multiplied
<1>4. 1 * w = w /\ Scale * w = w * Scale /\ w * Scale \in Int
  BY <1>2
<1> QED BY <1>1, <1>2, <1>3, <1>4, Width DEF Room

LEMMA ExpressionIs ==
    ASSUME NEW e \in Expressions, NEW s, NEW free, Proper(s, free), Room(Weight(e)),
           NEW b1, NEW b2, NEW x1, NEW x2,
           b1 = e.l.by, b2 = Second(e), x1 = e.l.of, x2 = e.r.of
    PROVE  /\ b1 \in Int /\ b2 \in Int
           /\ Part(b1, x1, s) \in Int /\ Part(b2, x2, s) \in Int
           /\ Fixed(b1, x1, s) \in Int /\ Fixed(b2, x2, s) \in Int
           /\ Value(e, s) = Part(b1, x1, s) + Part(b2, x2, s) + Fixed(b1, x1, s) + Fixed(b2, x2, s)
           /\ LET room == Absolute(b1) * Scale + Absolute(b2) * Scale IN
              /\ room \in Nat /\ room <= MaxInt /\ room = Weight(e) * Scale
              /\ -room <= Value(e, s) /\ Value(e, s) <= room
              /\ LET v == Part(b1, x1, s) + Part(b2, x2, s) IN -room <= v /\ v <= room
              /\ LET v == Fixed(b1, x1, s) + Fixed(b2, x2, s) IN -room <= v /\ v <= room
           /\ Fits(Operand(e.l, s)) /\ Operand(e.l, s) = b1 * Reader(x1, s)
           /\ e.op # "only" => Fits(Operand(e.r, s)) /\ Operand(e.r, s) = e.r.by * Reader(x2, s)
<1>1. /\ s \in Stores /\ x1 \in Names /\ x2 \in Names /\ b1 \in Int /\ b2 \in Int /\ e.r.by \in Int
      /\ e.op \in {"only", "+", "-"} /\ Scale \in Nat
      /\ Weight(e) = Absolute(b1) + Absolute(b2)
  BY ExpressionHas, ScaleIs DEF Proper
<1>2. PICK m1, m2 : m1 = Absolute(b1) * Scale /\ m2 = Absolute(b2) * Scale
  OBVIOUS
<1>3. PICK p1, p2, f1, f2 :
         p1 = Part(b1, x1, s) /\ p2 = Part(b2, x2, s) /\ f1 = Fixed(b1, x1, s) /\ f2 = Fixed(b2, x2, s)
  OBVIOUS
<1>4. PICK v1, v2 : v1 = b1 * Reader(x1, s) /\ v2 = b2 * Reader(x2, s)
  OBVIOUS
<1>5. /\ m1 \in Nat /\ p1 \in Int /\ f1 \in Int /\ v1 \in Int /\ v1 = p1 + f1
      /\ -m1 <= p1 /\ p1 <= m1 /\ -m1 <= f1 /\ f1 <= m1 /\ -m1 <= v1 /\ v1 <= m1
  BY <1>1, <1>2, <1>3, <1>4, PartsOfOne
<1>6. /\ m2 \in Nat /\ p2 \in Int /\ f2 \in Int /\ v2 \in Int /\ v2 = p2 + f2
      /\ -m2 <= p2 /\ p2 <= m2 /\ -m2 <= f2 /\ f2 <= m2 /\ -m2 <= v2 /\ v2 <= m2
  BY <1>1, <1>2, <1>3, <1>4, PartsOfOne
<1>7. m1 + m2 = Weight(e) * Scale /\ m1 + m2 <= MaxInt
  <2>1. Absolute(b1) \in Nat /\ Absolute(b2) \in Nat
    BY <1>1, AbsoluteIs
  <2>2. (Absolute(b1) + Absolute(b2)) * Scale = Absolute(b1) * Scale + Absolute(b2) * Scale
    BY <1>1, <2>1
  <2> QED BY <1>1, <1>2, <2>2 DEF Room
<1>8. Operand(e.l, s) = v1
  BY <1>4 DEF Operand, Reader
<1>9. Operand(e.r, s) = e.r.by * Reader(x2, s)
  BY DEF Operand, Reader
<1>10. Value(e, s) = v1 + v2
  <2>1. Reader(x2, s) \in Int
    BY <1>1, ReaderIs
  <2>2. CASE e.op = "only"
    <3>1. v2 = 0 * Reader(x2, s) /\ 0 * Reader(x2, s) = 0
      BY <1>4, <2>1, <2>2 DEF Second
    <3> QED BY <1>5, <1>8, <2>2, <3>1 DEF Value
  <2>3. CASE e.op = "+"
    <3>1. Operand(e.r, s) = v2
      BY <1>4, <1>9, <2>3 DEF Second
    <3> QED BY <1>8, <2>3, <3>1 DEF Value
  <2>4. CASE e.op = "-"
    <3>1. v2 = (-e.r.by) * Reader(x2, s)
      BY <1>4, <2>4 DEF Second
    <3>2. PICK r \in Int : r = Reader(x2, s)
      BY <2>1
    <3>3. (-e.r.by) * r = -(e.r.by * r) /\ e.r.by * r \in Int
      BY <1>1, <3>2
    <3>4. Operand(e.r, s) = -v2
      BY <1>9, <3>1, <3>2, <3>3
    <3> QED BY <1>5, <1>6, <1>8, <2>4, <3>4 DEF Value
  <2> QED BY <1>1, <2>2, <2>3, <2>4
<1>11. Fits(Operand(e.l, s))
  BY <1>5, <1>6, <1>7, <1>8, Width DEF Fits
<1>12. e.op # "only" => Fits(Operand(e.r, s))
  <2>1. Reader(x2, s) \in Int
    BY <1>1, ReaderIs
  <2>2. PICK r \in Int : r = Reader(x2, s)
    BY <2>1
  <2>3. (-e.r.by) * r = -(e.r.by * r) /\ e.r.by * r \in Int
    BY <1>1, <2>2
  <2>4. e.op # "only" => e.r.by * r = v2 \/ e.r.by * r = -v2
    BY <1>1, <1>4, <2>2, <2>3 DEF Second
  <2> QED BY <1>5, <1>6, <1>7, <1>9, <2>2, <2>3, <2>4, Width DEF Fits
<1> QED
  <2>1. Value(e, s) = p1 + p2 + f1 + f2
    BY <1>5, <1>6, <1>10
  <2>2. m1 + m2 \in Nat /\ -(m1 + m2) <= v1 + v2 /\ v1 + v2 <= m1 + m2
    BY <1>5, <1>6
  <2>3. -(m1 + m2) <= p1 + p2 /\ p1 + p2 <= m1 + m2 /\ -(m1 + m2) <= f1 + f2 /\ f1 + f2 <= m1 + m2
    BY <1>5, <1>6
  <2> QED BY <1>1, <1>2, <1>3, <1>4, <1>5, <1>6, <1>7, <1>8, <1>9, <1>10, <1>11, <1>12, <2>1, <2>2, <2>3

-----------------------------------------------------------------------------
(* Forms of expressions and of comparisons *)

IsForm(form) ==
    form.count \in [Terms -> Int] /\ form.offset \in Ranges

LEMMA PlusIs ==
    ASSUME NEW F, NEW G, IsForm(F), IsForm(G), NEW v \in Int, NEW w \in Int,
           Within(v, F.offset), Within(w, G.offset), Fits(v + w),
           \A t \in Terms : Fits(F.count[t] + G.count[t])
    PROVE  /\ IsForm(Plus(F, G))
           /\ \A t \in Terms : Plus(F, G).count[t] = F.count[t] + G.count[t]
           /\ Within(v + w, Plus(F, G).offset)
<1>1. \A t \in Terms : F.count[t] \in Int /\ G.count[t] \in Int
  BY DEF IsForm
<1>2. \A t \in Terms : Clamp(F.count[t] + G.count[t]) = F.count[t] + G.count[t]
  BY <1>1, ClampIs
<1>3. /\ Plus(F, G).count = [t \in Terms |-> Clamp(F.count[t] + G.count[t])]
      /\ Plus(F, G).offset = Add(F.offset, G.offset)
  BY DEF Plus
<1>4. /\ Plus(F, G).count \in [Terms -> Int]
      /\ \A t \in Terms : Plus(F, G).count[t] = F.count[t] + G.count[t]
  BY <1>1, <1>2, <1>3
<1>5. Add(F.offset, G.offset) \in Ranges /\ Within(v + w, Add(F.offset, G.offset))
  BY AddIs DEF IsForm
<1> QED BY <1>3, <1>4, <1>5 DEF IsForm

LEMMA NegatedIs ==
    ASSUME NEW F, IsForm(F), NEW v \in Int, Within(v, F.offset), Fits(-v),
           \A t \in Terms : F.count[t] # MinInt
    PROVE  /\ IsForm(Negated(F))
           /\ \A t \in Terms : Negated(F).count[t] = -F.count[t]
           /\ Within(-v, Negated(F).offset)
<1>1. /\ Negated(F).count = [t \in Terms |-> -F.count[t]]
      /\ Negated(F).offset = Times(F.offset, -1)
  BY DEF Negated
<1>2. \A t \in Terms : F.count[t] \in Int
  BY DEF IsForm
<1>3. (-1) * v = -v
  OBVIOUS
<1>4. Times(F.offset, -1) \in Ranges /\ Within(-v, Times(F.offset, -1))
  BY <1>3, TimesIs DEF IsForm
<1> QED BY <1>1, <1>2, <1>4 DEF IsForm

LEMMA ShareIs ==
    ASSUME NEW b \in Int, NEW x, NEW t
    PROVE  /\ Share(b, x, t) \in Int
           /\ -Absolute(b) <= Share(b, x, t) /\ Share(b, x, t) <= Absolute(b)
           /\ Share(-b, x, t) = -Share(b, x, t)
           /\ Share(0, x, t) = 0
BY AbsoluteIs DEF Share, Absolute

LEMMA LinearIs ==
    ASSUME NEW e \in Expressions, NEW s, NEW free, Proper(s, free), Room(Weight(e)),
           NEW z, z = Fixed(e.l.by, e.l.of, s) + Fixed(Second(e), e.r.of, s)
    PROVE  /\ IsForm(Linear(e))
           /\ \A t \in Terms : Linear(e).count[t] = Share(e.l.by, e.l.of, t) + Share(Second(e), e.r.of, t)
           /\ Within(z, Linear(e).offset)
<1> DEFINE L == OperandForm(e.l)  R == OperandForm(e.r)
<1>1. PICK b1, b2, x1, x2 : b1 = e.l.by /\ b2 = Second(e) /\ x1 = e.l.of /\ x2 = e.r.of
  OBVIOUS
<1>2. PICK z1, z2, y : z1 = Fixed(b1, x1, s) /\ z2 = Fixed(b2, x2, s) /\ y = Fixed(e.r.by, x2, s)
  OBVIOUS
<1>3. /\ b1 \in Int /\ b2 \in Int /\ z1 \in Int /\ z2 \in Int /\ z = z1 + z2
      /\ -MaxInt <= z1 + z2 /\ z1 + z2 <= MaxInt
  <2>1. \A room \in Nat : /\ room <= MaxInt
                          /\ -room <= Fixed(b1, x1, s) + Fixed(b2, x2, s)
                          /\ Fixed(b1, x1, s) + Fixed(b2, x2, s) <= room
                          => -MaxInt <= z1 + z2 /\ z1 + z2 <= MaxInt
    <3>1. z1 \in Int /\ z2 \in Int
      BY <1>1, <1>2, ExpressionIs
    <3> QED BY <1>2, <3>1, Width
  <2> QED BY <1>1, <1>2, <2>1, ExpressionIs
<1>4. /\ x1 \in Names /\ x2 \in Names /\ s \in Stores /\ e.l \in Operands /\ e.r \in Operands
      /\ e.op \in {"only", "+", "-"} /\ e.r.by \in Int
  BY <1>1, ExpressionHas DEF Proper
<1>5. Absolute(b1) \in Nat /\ Absolute(b2) \in Nat /\ Absolute(b1) + Absolute(b2) <= MaxInt
  <2>1. Weight(e) = Absolute(b1) + Absolute(b2) /\ Weight(e) <= MaxInt
    BY <1>1, ExpressionHas, RoomIs
  <2> QED BY <1>3, <2>1, AbsoluteIs
<1>6. Room(Absolute(b1)) /\ Room(Absolute(b2))
  <2>1. Weight(e) = Absolute(b1) + Absolute(b2)
    BY <1>1, ExpressionHas
  <2> QED BY <1>5, <2>1, RoomIs
<1>7. /\ IsForm(L) /\ (\A t \in Terms : L.count[t] = Share(b1, x1, t)) /\ Within(z1, L.offset)
  <2>1. Fits(z1)
    <3>1. -(Absolute(b1) * Scale) <= z1 /\ z1 <= Absolute(b1) * Scale
      BY <1>2, <1>3, <1>4, PartsOfOne
    <3>2. Absolute(b1) * Scale \in Nat /\ Absolute(b1) * Scale <= MaxInt
      BY <1>6, ScaleIs, <1>5 DEF Room
    <3> QED BY <1>3, <3>1, <3>2, Width DEF Fits
  <2> QED BY <1>1, <1>2, <1>4, <2>1, OperandFormIs DEF IsForm
<1>8. CASE e.op = "only"
  <2>1. Linear(e) = L /\ b2 = 0
    BY <1>1, <1>8 DEF Linear, Second
  <2>2. z2 = 0
    <3>1. PICK r \in Int : r = Reader(x2, s)
      BY <1>4, ReaderIs
    <3>2. 0 * r = 0
      OBVIOUS
    <3> QED BY <1>2, <2>1, <3>1, <3>2 DEF Fixed
  <2>3. \A t \in Terms : Share(b2, x2, t) = 0
    BY <2>1, ShareIs
  <2>4. \A t \in Terms : Share(b1, x1, t) \in Int
    BY <1>3, ShareIs
  <2> HIDE DEF L
  <2> QED BY <1>1, <1>3, <1>7, <2>1, <2>2, <2>3, <2>4
<1>9. CASE e.op # "only"
  <2>1. Absolute(b2) = Absolute(e.r.by) /\ Absolute(b2) \in Nat /\ (e.r.by = b2 \/ e.r.by = -b2)
    <3>1. Absolute(b2) = Absolute(e.r.by)
      BY <1>1, <1>9, ExpressionHas
    <3>2. e.r.by = b2 \/ e.r.by = -b2
      BY <1>1, <1>4, <1>9 DEF Second
    <3> QED BY <1>5, <3>1, <3>2
  <2>2. Fits(y) /\ y \in Int /\ Fits(-y)
    <3>1. y \in Int /\ -(Absolute(e.r.by) * Scale) <= y /\ y <= Absolute(e.r.by) * Scale
      BY <1>2, <1>4, PartsOfOne
    <3>2. Absolute(b2) * Scale \in Nat /\ Absolute(b2) * Scale <= MaxInt
      BY <1>6, ScaleIs, <1>5 DEF Room
    <3> QED BY <2>1, <3>1, <3>2, Width DEF Fits
  <2>3. /\ IsForm(R) /\ (\A t \in Terms : R.count[t] = Share(e.r.by, x2, t)) /\ Within(y, R.offset)
    BY <1>1, <1>2, <1>4, <2>2, OperandFormIs DEF IsForm
  <2>4. \A t \in Terms : /\ Share(b1, x1, t) \in Int /\ Share(b2, x2, t) \in Int /\ Share(e.r.by, x2, t) \in Int
                         /\ Fits(Share(b1, x1, t) + Share(b2, x2, t))
                         /\ Share(e.r.by, x2, t) # MinInt
    <3> SUFFICES ASSUME NEW t \in Terms
                 PROVE  /\ Share(b1, x1, t) \in Int /\ Share(b2, x2, t) \in Int /\ Share(e.r.by, x2, t) \in Int
                        /\ Fits(Share(b1, x1, t) + Share(b2, x2, t))
                        /\ Share(e.r.by, x2, t) # MinInt
      OBVIOUS
    <3>1. PICK h1, h2, h3 : h1 = Share(b1, x1, t) /\ h2 = Share(b2, x2, t) /\ h3 = Share(e.r.by, x2, t)
      OBVIOUS
    <3>2. h1 \in Int /\ -Absolute(b1) <= h1 /\ h1 <= Absolute(b1)
      BY <1>3, <3>1, ShareIs
    <3>3. h2 \in Int /\ -Absolute(b2) <= h2 /\ h2 <= Absolute(b2)
      BY <1>3, <3>1, ShareIs
    <3>4. h3 \in Int /\ -Absolute(e.r.by) <= h3 /\ h3 <= Absolute(e.r.by)
      BY <1>4, <3>1, ShareIs
    <3>5. h1 + h2 >= -MaxInt /\ h1 + h2 <= MaxInt /\ h3 > MinInt
      BY <1>5, <2>1, <3>2, <3>3, <3>4, Width
    <3>6. Fits(h1 + h2)
      BY <3>2, <3>3, <3>5, Width DEF Fits
    <3> QED BY <3>1, <3>2, <3>3, <3>4, <3>5, <3>6, Width
  <2>5. CASE e.op = "+"
    <3>1. Linear(e) = Plus(L, R) /\ b2 = e.r.by /\ z2 = y
      BY <1>1, <1>2, <2>5 DEF Linear, Second
    <3>2. \A t \in Terms : Fits(L.count[t] + R.count[t])
      BY <1>7, <2>3, <2>4, <3>1
    <3>3. Fits(z1 + y)
      BY <1>3, <3>1, Width DEF Fits
    <3>4. /\ IsForm(Plus(L, R)) /\ (\A t \in Terms : Plus(L, R).count[t] = L.count[t] + R.count[t])
          /\ Within(z1 + y, Plus(L, R).offset)
      <4> HIDE DEF L, R
      <4> QED BY <1>3, <1>7, <2>2, <2>3, <3>2, <3>3, PlusIs
    <3> HIDE DEF L, R
    <3> QED BY <1>1, <1>3, <1>7, <2>3, <3>1, <3>4
  <2>6. CASE e.op = "-"
    <3>1. Linear(e) = Plus(L, Negated(R)) /\ b2 = -e.r.by
      BY <1>1, <2>6 DEF Linear, Second
    <3>2. z2 = -y
      <4>1. PICK r \in Int : r = Reader(x2, s)
        BY <1>4, ReaderIs
      <4>2. (-e.r.by) * r = -(e.r.by * r)
        BY <1>4
      <4> QED BY <1>2, <3>1, <4>1, <4>2 DEF Fixed
    <3>3. \A t \in Terms : R.count[t] # MinInt
      BY <2>3, <2>4
    <3>4. /\ IsForm(Negated(R)) /\ (\A t \in Terms : Negated(R).count[t] = -R.count[t])
          /\ Within(-y, Negated(R).offset)
      <4> HIDE DEF R
      <4> QED BY <2>2, <2>3, <3>3, NegatedIs
    <3>5. \A t \in Terms : -Share(e.r.by, x2, t) = Share(b2, x2, t)
      BY <1>4, <3>1, ShareIs
    <3>6. \A t \in Terms : Fits(L.count[t] + Negated(R).count[t])
      BY <1>7, <2>3, <2>4, <3>4, <3>5
    <3>7. Fits(z1 + (-y)) /\ -y \in Int
      BY <1>3, <2>2, <3>2, Width DEF Fits
    <3>8. /\ IsForm(Plus(L, Negated(R)))
          /\ \A t \in Terms : Plus(L, Negated(R)).count[t] = L.count[t] + Negated(R).count[t]
          /\ Within(z1 + (-y), Plus(L, Negated(R)).offset)
      <4> HIDE DEF L, R
      <4> QED BY <1>3, <1>7, <3>4, <3>6, <3>7, PlusIs
    <3> HIDE DEF L, R
    <3> QED BY <1>1, <1>3, <1>7, <2>3, <3>1, <3>2, <3>4, <3>5, <3>8
  <2> QED BY <1>4, <1>9, <2>5, <2>6
<1> QED BY <1>8, <1>9

\* In store s the form stands for v: what it counts, and a rest in its range.
Means(form, s, v, free) ==
    /\ IsForm(form)
    /\ \E B \in Weights, X \in [1 .. 4 -> Names], z \in Int :
          /\ CountsAs(form, B, X)
          /\ \A k \in 1 .. 4 : X[k] \notin free
          /\ Within(z, form.offset) /\ Fits(z) /\ Fits(Worth(B, X, s))
          /\ v = Worth(B, X, s) + z

\* The names an expression reads are bound, and a comparison's.
Bound(e, free) == e.l.of \notin free /\ e.r.of \notin free
Readable(c, free) ==
    /\ c \in Comparisons /\ Bound(c.l, free) /\ Bound(c.r, free)
    /\ Room(Weight(c.l) + Weight(c.r))

Difference2(c, s) == Value(c.l, s) - Value(c.r, s)

LEMMA LinearMeans ==
    ASSUME NEW e \in Expressions, NEW s, NEW free, Proper(s, free), Room(Weight(e)), Bound(e, free)
    PROVE  Means(Linear(e), s, Value(e, s), free)
<1>1. PICK b1, b2, x1, x2 : b1 = e.l.by /\ b2 = Second(e) /\ x1 = e.l.of /\ x2 = e.r.of
  OBVIOUS
<1>2. PICK z : z = Fixed(b1, x1, s) + Fixed(b2, x2, s)
  OBVIOUS
<1>3. PICK v : v = Part(b1, x1, s) + Part(b2, x2, s)
  OBVIOUS
<1>4. /\ IsForm(Linear(e))
      /\ \A t \in Terms : Linear(e).count[t] = Share(b1, x1, t) + Share(b2, x2, t)
      /\ Within(z, Linear(e).offset)
  BY <1>1, <1>2, LinearIs
<1>5. /\ b1 \in Int /\ b2 \in Int /\ z \in Int /\ v \in Int /\ Value(e, s) = v + z
      /\ Fits(z) /\ Fits(v)
  <2>1. /\ b1 \in Int /\ b2 \in Int
        /\ Part(b1, x1, s) \in Int /\ Part(b2, x2, s) \in Int
        /\ Fixed(b1, x1, s) \in Int /\ Fixed(b2, x2, s) \in Int
        /\ Value(e, s) = Part(b1, x1, s) + Part(b2, x2, s) + Fixed(b1, x1, s) + Fixed(b2, x2, s)
    BY <1>1, ExpressionIs
  <2>2. PICK room : room = Absolute(b1) * Scale + Absolute(b2) * Scale
    OBVIOUS
  <2>3. room \in Nat /\ room <= MaxInt /\ -room <= v /\ v <= room /\ -room <= z /\ z <= room
    BY <1>1, <1>2, <1>3, <2>2, ExpressionIs
  <2> QED BY <1>2, <1>3, <2>1, <2>3, Width DEF Fits
<1>6. PICK B, X : B = <<b1, b2, 0, 0>> /\ X = <<x1, x2, x1, x1>>
  OBVIOUS
<1>7. /\ B \in Weights /\ X \in [1 .. 4 -> Names] /\ (\A k \in 1 .. 4 : X[k] \notin free)
      /\ B[1] = b1 /\ B[2] = b2 /\ B[3] = 0 /\ B[4] = 0 /\ X[1] = x1 /\ X[2] = x2 /\ X[3] = x1 /\ X[4] = x1
  <2>1. x1 \in Names /\ x2 \in Names /\ x1 \notin free /\ x2 \notin free
    BY <1>1, ExpressionHas DEF Bound
  <2> QED BY <1>5, <1>6, <2>1 DEF Weights
<1>8. CountsAs(Linear(e), B, X)
  <2>1. \A t \in Terms : Count(B, X, t) = Share(b1, x1, t) + Share(b2, x2, t)
    BY <1>5, <1>7, ShareIs DEF Count
  <2> QED BY <1>4, <2>1 DEF CountsAs, IsForm
<1>9. Worth(B, X, s) = v
  <2>1. Part(0, x1, s) = 0
    <3>1. \A i \in Int : 0 * i = 0
      OBVIOUS
    <3> QED BY <3>1, StoreIs DEF Part, Proper
  <2>2. Part(b1, x1, s) \in Int /\ Part(b2, x2, s) \in Int
    BY <1>1, ExpressionIs
  <2> QED BY <1>3, <1>7, <2>1, <2>2 DEF Worth
<1> QED BY <1>4, <1>5, <1>7, <1>8, <1>9 DEF Means

LEMMA FormMeans ==
    ASSUME NEW s, NEW free, Proper(s, free), NEW c, Readable(c, free)
    PROVE  /\ Means(Form(c), s, Difference2(c, s), free)
           /\ Room(Weight(c.l)) /\ Room(Weight(c.r)) /\ Fits(Difference2(c, s))
           /\ Value(c.l, s) \in Int /\ Value(c.r, s) \in Int /\ Fits(Value(c.l, s)) /\ Fits(Value(c.r, s))
           /\ Decides(c, s)
<1>1. /\ c.l \in Expressions /\ c.r \in Expressions /\ Bound(c.l, free) /\ Bound(c.r, free)
      /\ Room(Weight(c.l) + Weight(c.r))
  BY DEF Readable, Comparisons
<1>2. Weight(c.l) \in Nat /\ Weight(c.r) \in Nat
  BY <1>1, ExpressionHas
<1>3. Room(Weight(c.l)) /\ Room(Weight(c.r))
  BY <1>1, <1>2, RoomIs
<1>4. PICK b1, b2, b3, b4, x1, x2, x3, x4 :
         /\ b1 = c.l.l.by /\ b2 = Second(c.l) /\ x1 = c.l.l.of /\ x2 = c.l.r.of
         /\ b3 = c.r.l.by /\ b4 = Second(c.r) /\ x3 = c.r.l.of /\ x4 = c.r.r.of
  OBVIOUS
<1>5. PICK p1, p2, p3, p4, f1, f2, f3, f4 :
         /\ p1 = Part(b1, x1, s) /\ p2 = Part(b2, x2, s) /\ p3 = Part(b3, x3, s) /\ p4 = Part(b4, x4, s)
         /\ f1 = Fixed(b1, x1, s) /\ f2 = Fixed(b2, x2, s) /\ f3 = Fixed(b3, x3, s) /\ f4 = Fixed(b4, x4, s)
  OBVIOUS
<1>6. PICK left, right : left = Value(c.l, s) /\ right = Value(c.r, s)
  OBVIOUS
<1>7. PICK m, n : m = Absolute(b1) * Scale + Absolute(b2) * Scale /\ n = Absolute(b3) * Scale + Absolute(b4) * Scale
  OBVIOUS
<1>8. /\ b1 \in Int /\ b2 \in Int /\ p1 \in Int /\ p2 \in Int /\ f1 \in Int /\ f2 \in Int
      /\ left = p1 + p2 + f1 + f2 /\ m \in Nat /\ m <= MaxInt /\ m = Weight(c.l) * Scale
      /\ -m <= left /\ left <= m /\ -m <= p1 + p2 /\ p1 + p2 <= m /\ -m <= f1 + f2 /\ f1 + f2 <= m
      /\ Fits(Operand(c.l.l, s)) /\ (c.l.op # "only" => Fits(Operand(c.l.r, s)))
  BY <1>1, <1>3, <1>4, <1>5, <1>6, <1>7, ExpressionIs
<1>9. /\ b3 \in Int /\ b4 \in Int /\ p3 \in Int /\ p4 \in Int /\ f3 \in Int /\ f4 \in Int
      /\ right = p3 + p4 + f3 + f4 /\ n \in Nat /\ n <= MaxInt /\ n = Weight(c.r) * Scale
      /\ -n <= right /\ right <= n /\ -n <= p3 + p4 /\ p3 + p4 <= n /\ -n <= f3 + f4 /\ f3 + f4 <= n
      /\ Fits(Operand(c.r.l, s)) /\ (c.r.op # "only" => Fits(Operand(c.r.r, s)))
  BY <1>1, <1>3, <1>4, <1>5, <1>6, <1>7, ExpressionIs
<1>10. m + n <= MaxInt
  <2>1. (Weight(c.l) + Weight(c.r)) * Scale = Weight(c.l) * Scale + Weight(c.r) * Scale
    BY <1>2, ScaleIs
  <2> QED BY <1>1, <1>8, <1>9, <2>1 DEF Room
<1>11. PICK z, y, v : z = f1 + f2 /\ y = f3 + f4 /\ v = p1 + p2 - p3 - p4
  OBVIOUS
<1>12. /\ z \in Int /\ y \in Int /\ v \in Int /\ left - right = v + (z + (-y))
       /\ Fits(z) /\ Fits(-y) /\ Fits(z + (-y)) /\ Fits(v) /\ Fits(left) /\ Fits(right) /\ Fits(left - right)
       /\ left \in Int /\ right \in Int
  <2>1. z \in Int /\ y \in Int /\ v \in Int /\ left \in Int /\ right \in Int
    BY <1>8, <1>9, <1>11
  <2>2. left - right = v + (z + (-y))
    BY <1>8, <1>9, <1>11
  <2>3. /\ -(m + n) <= z + (-y) /\ z + (-y) <= m + n /\ -(m + n) <= v /\ v <= m + n
        /\ -(m + n) <= left - right /\ left - right <= m + n
    BY <1>8, <1>9, <1>11
  <2> QED BY <1>8, <1>9, <1>10, <1>11, <2>1, <2>2, <2>3, Width DEF Fits
<1>13. /\ IsForm(Linear(c.l)) /\ Within(z, Linear(c.l).offset)
       /\ \A t \in Terms : Linear(c.l).count[t] = Share(b1, x1, t) + Share(b2, x2, t)
  BY <1>1, <1>3, <1>4, <1>5, <1>11, LinearIs
<1>14. /\ IsForm(Linear(c.r)) /\ Within(y, Linear(c.r).offset)
       /\ \A t \in Terms : Linear(c.r).count[t] = Share(b3, x3, t) + Share(b4, x4, t)
  BY <1>1, <1>3, <1>4, <1>5, <1>11, LinearIs
<1>15. /\ Absolute(b1) \in Nat /\ Absolute(b2) \in Nat /\ Absolute(b3) \in Nat /\ Absolute(b4) \in Nat
       /\ Absolute(b1) + Absolute(b2) + Absolute(b3) + Absolute(b4) <= MaxInt
  <2>1. Weight(c.l) = Absolute(b1) + Absolute(b2) /\ Weight(c.r) = Absolute(b3) + Absolute(b4)
    BY <1>1, <1>4, ExpressionHas
  <2>2. Weight(c.l) + Weight(c.r) <= MaxInt
    BY <1>1, RoomIs
  <2> QED BY <1>8, <1>9, <2>1, <2>2, AbsoluteIs
<1>16. \A t \in Terms :
         /\ Share(b1, x1, t) \in Int /\ Share(b2, x2, t) \in Int /\ Share(b3, x3, t) \in Int /\ Share(b4, x4, t) \in Int
         /\ Share(b3, x3, t) + Share(b4, x4, t) # MinInt
         /\ Fits((Share(b1, x1, t) + Share(b2, x2, t)) + (-(Share(b3, x3, t) + Share(b4, x4, t))))
  <2> SUFFICES ASSUME NEW t \in Terms
               PROVE  /\ Share(b1, x1, t) \in Int /\ Share(b2, x2, t) \in Int
                      /\ Share(b3, x3, t) \in Int /\ Share(b4, x4, t) \in Int
                      /\ Share(b3, x3, t) + Share(b4, x4, t) # MinInt
                      /\ Fits((Share(b1, x1, t) + Share(b2, x2, t)) + (-(Share(b3, x3, t) + Share(b4, x4, t))))
    OBVIOUS
  <2>1. PICK h1, h2, h3, h4 :
          h1 = Share(b1, x1, t) /\ h2 = Share(b2, x2, t) /\ h3 = Share(b3, x3, t) /\ h4 = Share(b4, x4, t)
    OBVIOUS
  <2>2. h1 \in Int /\ -Absolute(b1) <= h1 /\ h1 <= Absolute(b1)
    BY <1>8, <2>1, ShareIs
  <2>3. h2 \in Int /\ -Absolute(b2) <= h2 /\ h2 <= Absolute(b2)
    BY <1>8, <2>1, ShareIs
  <2>4. h3 \in Int /\ -Absolute(b3) <= h3 /\ h3 <= Absolute(b3)
    BY <1>9, <2>1, ShareIs
  <2>5. h4 \in Int /\ -Absolute(b4) <= h4 /\ h4 <= Absolute(b4)
    BY <1>9, <2>1, ShareIs
  <2>6. /\ h3 + h4 >= -MaxInt /\ (h1 + h2) + (-(h3 + h4)) >= -MaxInt /\ (h1 + h2) + (-(h3 + h4)) <= MaxInt
    BY <1>15, <2>2, <2>3, <2>4, <2>5, Width
  <2>7. h3 + h4 # MinInt /\ Fits((h1 + h2) + (-(h3 + h4)))
    BY <2>2, <2>3, <2>4, <2>5, <2>6, Width DEF Fits
  <2> QED BY <2>1, <2>2, <2>3, <2>4, <2>5, <2>7
<1>17. PICK N : N = Negated(Linear(c.r))
  OBVIOUS
<1>18. /\ IsForm(N) /\ Within(-y, N.offset)
       /\ \A t \in Terms : N.count[t] = -(Share(b3, x3, t) + Share(b4, x4, t))
  <2>1. \A t \in Terms : Linear(c.r).count[t] # MinInt
    BY <1>14, <1>16
  <2>2. /\ IsForm(N) /\ Within(-y, N.offset)
        /\ \A t \in Terms : N.count[t] = -Linear(c.r).count[t]
    BY <1>12, <1>14, <1>17, <2>1, NegatedIs
  <2> QED BY <1>14, <2>2
<1>19. /\ IsForm(Form(c)) /\ Within(z + (-y), Form(c).offset)
       /\ \A t \in Terms : Form(c).count[t] = (Share(b1, x1, t) + Share(b2, x2, t)) + (-(Share(b3, x3, t) + Share(b4, x4, t)))
  <2>1. Form(c) = Plus(Linear(c.l), N)
    BY <1>17 DEF Form
  <2>2. \A t \in Terms : Fits(Linear(c.l).count[t] + N.count[t])
    BY <1>13, <1>16, <1>18
  <2>3. -y \in Int
    BY <1>12
  <2>4. /\ IsForm(Plus(Linear(c.l), N)) /\ Within(z + (-y), Plus(Linear(c.l), N).offset)
        /\ \A t \in Terms : Plus(Linear(c.l), N).count[t] = Linear(c.l).count[t] + N.count[t]
    BY <1>12, <1>13, <1>18, <2>2, <2>3, PlusIs
  <2> QED BY <1>13, <1>18, <2>1, <2>4
<1>20. PICK B, X : B = <<b1, b2, -b3, -b4>> /\ X = <<x1, x2, x3, x4>>
  OBVIOUS
<1>21. /\ B \in Weights /\ X \in [1 .. 4 -> Names] /\ (\A k \in 1 .. 4 : X[k] \notin free)
       /\ B[1] = b1 /\ B[2] = b2 /\ B[3] = -b3 /\ B[4] = -b4
       /\ X[1] = x1 /\ X[2] = x2 /\ X[3] = x3 /\ X[4] = x4
  <2>1. /\ x1 \in Names /\ x2 \in Names /\ x1 \notin free /\ x2 \notin free
        /\ x3 \in Names /\ x4 \in Names /\ x3 \notin free /\ x4 \notin free
    BY <1>1, <1>4, ExpressionHas DEF Bound
  <2> QED BY <1>8, <1>9, <1>20, <2>1 DEF Weights
<1>22. CountsAs(Form(c), B, X)
  <2>1. \A t \in Terms : Count(B, X, t) = Share(b1, x1, t) + Share(b2, x2, t) + (-Share(b3, x3, t)) + (-Share(b4, x4, t))
    BY <1>8, <1>9, <1>21, ShareIs DEF Count
  <2> QED BY <1>16, <1>19, <2>1 DEF CountsAs, IsForm
<1>23. Worth(B, X, s) = v
  <2>1. ASSUME NEW b \in Int, NEW x PROVE Part(-b, x, s) = -Part(b, x, s)
    <3>1. \A i \in Int : (-b) * i = -(b * i)
      OBVIOUS
    <3> QED BY <3>1, StoreIs DEF Part, Proper
  <2>2. Part(-b3, x3, s) = -p3 /\ Part(-b4, x4, s) = -p4
    BY <1>5, <1>9, <2>1
  <2> QED BY <1>5, <1>8, <1>9, <1>11, <1>21, <2>2 DEF Worth
<1>24. Difference2(c, s) = v + (z + (-y)) /\ z + (-y) \in Int
  BY <1>6, <1>12 DEF Difference2
<1>25. Decides(c, s)
  BY <1>6, <1>8, <1>9, <1>12 DEF Decides, Computes
<1>26. Means(Form(c), s, Difference2(c, s), free)
  BY <1>12, <1>19, <1>21, <1>22, <1>23, <1>24 DEF Means
<1> QED BY <1>3, <1>6, <1>12, <1>25, <1>26 DEF Difference2

-----------------------------------------------------------------------------
(* What the facts say of a store they admit *)

IsFacts(f) ==
    /\ DOMAIN f = {"known", "differences", "totals"}
    /\ f.known \in [Terms -> Ranges]
    /\ DOMAIN f.differences \subseteq Pairs
    /\ f.differences \in [DOMAIN f.differences -> Ranges]
    /\ f.totals \in [Couples -> Ranges]

LEMMA PairHas ==
    ASSUME NEW p \in Pairs
    PROVE  p[1] \in Terms /\ p[2] \in Terms /\ p[1] # p[2] /\ p = <<p[1], p[2]>>
BY DEF Pairs

\* Two values are near enough that their difference and their total fit.
LEMMA NearBy ==
    ASSUME Roomy, NEW s \in Stores, NEW a \in Terms, NEW b \in Terms
    PROVE  /\ s[a] \in Int /\ s[b] \in Int /\ Fits(s[a]) /\ Fits(s[a] - s[b]) /\ Fits(s[a] + s[b])
           /\ s[a] - s[b] \in Int /\ s[a] + s[b] \in Int /\ Fits(-(s[a] - s[b]))
BY StoreIs, Width DEF Roomy, Fits

LEMMA DifferenceIs ==
    ASSUME Roomy, NEW f, IsFacts(f), NEW a \in Terms, NEW b \in Terms
    PROVE  /\ Difference(f, a, b) \in Ranges
           /\ \A s \in Stores : Admits(f, s) => Within(s[a] - s[b], Difference(f, a, b))
<1>1. CASE a = b
  <2>1. Exactly(0) \in Ranges /\ Within(0, Exactly(0))
    BY ExactlyIs, Width DEF Fits
  <2>2. \A s \in Stores : s[a] - s[b] = 0
    BY <1>1, StoreIs
  <2> QED BY <1>1, <2>1, <2>2 DEF Difference
<1>2. CASE a # b /\ <<a, b>> \in DOMAIN f.differences
  <2>1. PICK p : p = <<a, b>>
    OBVIOUS
  <2>2. Difference(f, a, b) = f.differences[p] /\ f.differences[p] \in Ranges
    BY <1>2, <2>1 DEF Difference, IsFacts
  <2>3. \A s : Admits(f, s) => Within(s[p[1]] - s[p[2]], f.differences[p])
    BY <1>2, <2>1 DEF Admits
  <2> QED BY <2>1, <2>2, <2>3
<1>3. CASE a # b /\ <<a, b>> \notin DOMAIN f.differences
  <2>1. Difference(f, a, b) = Any
    BY <1>3 DEF Difference
  <2> QED BY <2>1, AnyIs, NearBy
<1> QED BY <1>1, <1>2, <1>3

LEMMA TotalIs ==
    ASSUME Roomy, NEW f, IsFacts(f), NEW p \in Pairs, NEW c, c = {p[1], p[2]}
    PROVE  /\ c \in Couples /\ f.totals[c] \in Ranges
           /\ \A s \in Stores : Admits(f, s) => Within(s[p[1]] + s[p[2]], f.totals[c])
BY DEF IsFacts, Admits, Couples

\* What a difference adds to a comparison, and a total to a sum.
LEMMA RelatedIs ==
    ASSUME Roomy, NEW f, IsFacts(f), NEW s, NEW free, Proper(s, free), Admits(f, s),
           NEW form, NEW v \in Int, Means(form, s, v, free), Fits(v)
    PROVE  /\ RelatedForm(form, f) \in Ranges /\ Within(v, RelatedForm(form, f))
           /\ PairDifference(form, f) \in Ranges /\ Within(v, PairDifference(form, f))
<1>1. s \in Stores /\ Integral(s)
  BY StoreIs DEF Proper
<1>2. PICK B \in Weights, X \in [1 .. 4 -> Names], z \in Int :
         CountsAs(form, B, X) /\ Within(z, form.offset) /\ v = Worth(B, X, s) + z
  BY DEF Means
<1>3. form.offset \in Ranges
  BY DEF Means, IsForm
<1>4. CASE PairOf(form) # {}
  <2>1. PICK p : p = The(PairOf(form))
    OBVIOUS
  <2>2. p[1] \in Terms /\ p[2] \in Terms /\ Worth(B, X, s) = s[p[1]] - s[p[2]]
    BY <1>1, <1>2, <1>4, <2>1, PairIs
  <2>3. PICK d : d = s[p[1]] - s[p[2]]
    OBVIOUS
  <2>4. d \in Int /\ v = d + z
    BY <1>1, <1>2, <2>2, <2>3, NearBy
  <2>5. Difference(f, p[1], p[2]) \in Ranges /\ Within(d, Difference(f, p[1], p[2]))
    BY <1>1, <2>2, <2>3, DifferenceIs
  <2>6. PICK r : r = Add(Difference(f, p[1], p[2]), form.offset)
    OBVIOUS
  <2>7. r \in Ranges /\ Within(v, r)
    BY <1>2, <1>3, <2>4, <2>5, <2>6, AddIs
  <2>8. RelatedForm(form, f) = r /\ PairDifference(form, f) = r
    BY <1>4, <2>1, <2>6 DEF RelatedForm, PairDifference
  <2> QED BY <2>7, <2>8
<1>5. CASE PairOf(form) = {} /\ CoupleOf(form) # {}
  <2>1. PICK c : c = The(CoupleOf(form))
    OBVIOUS
  <2>2. PICK p \in Pairs : c = {p[1], p[2]} /\ p[1] \in Terms /\ p[2] \in Terms
                           /\ Worth(B, X, s) = s[p[1]] + s[p[2]]
    BY <1>1, <1>2, <1>5, <2>1, CoupleIs
  <2>3. PICK d : d = s[p[1]] + s[p[2]]
    OBVIOUS
  <2>4. d \in Int /\ v = d + z
    BY <1>1, <1>2, <2>2, <2>3, NearBy
  <2>5. f.totals[c] \in Ranges /\ Within(d, f.totals[c])
    BY <1>1, <2>2, <2>3, TotalIs
  <2>6. Add(f.totals[c], form.offset) \in Ranges /\ Within(v, Add(f.totals[c], form.offset))
    BY <1>2, <1>3, <2>4, <2>5, AddIs
  <2>7. RelatedForm(form, f) = Add(f.totals[c], form.offset) /\ PairDifference(form, f) = Any
    BY <1>5, <2>1 DEF RelatedForm, PairDifference
  <2> QED BY <2>6, <2>7, AnyIs
<1>6. CASE PairOf(form) = {} /\ CoupleOf(form) = {}
  <2>1. RelatedForm(form, f) = Any /\ PairDifference(form, f) = Any
    BY <1>6 DEF RelatedForm, PairDifference
  <2> QED BY <2>1, AnyIs
<1> QED BY <1>4, <1>5, <1>6

LEMMA OperandRangeIs ==
    ASSUME NEW f, IsFacts(f), NEW s, NEW free, Proper(s, free), Admits(f, s),
           NEW o \in Operands, Fits(Operand(o, s))
    PROVE  /\ OperandRange(o, f) \in Ranges
           /\ Operand(o, s) \in Int /\ Within(Operand(o, s), OperandRange(o, f))
<1>1. o.by \in Int /\ o.of \in Names /\ s \in Stores
  BY Width DEF Operands, Names, Proper
<1>2. PICK r : r = Reader(o.of, s)
  OBVIOUS
<1>3. r \in Int /\ Operand(o, s) = o.by * r
  BY <1>1, <1>2, ReaderIs DEF Operand, Reader
<1>4. PICK range : range = (IF o.of \in Terms THEN f.known[o.of] ELSE Source(o))
  OBVIOUS
<1>5. range \in Ranges /\ Within(r, range)
  <2>1. CASE o.of \in Terms
    BY <1>2, <1>4, <2>1, OneIsNoName DEF Reader, Admits, IsFacts
  <2>2. CASE o.of = One
    <3>1. Exactly(1) \in Ranges /\ Within(1, Exactly(1))
      BY ExactlyIs, Width DEF Fits
    <3> QED BY <1>2, <1>4, <2>2, <3>1, OneIsNoName DEF Source, Reader
  <2>3. CASE o.of \notin Terms /\ o.of # One
    <3>1. o.of \in Fields
      BY <1>1, <2>3 DEF Names
    <3>2. Refined[o.of] \in Ranges
      BY <3>1, RefinedAssumption
    <3> QED BY <1>2, <1>4, <2>3, <3>1, <3>2 DEF Source, Reader, Proper
  <2> QED BY <2>1, <2>2, <2>3
<1>6. OperandRange(o, f) = Times(range, o.by)
  BY <1>4 DEF OperandRange
<1>7. o.by * r \in Int
  BY <1>1, <1>3
<1> QED BY <1>1, <1>3, <1>5, <1>6, <1>7, TimesIs

LEMMA IntervalIs ==
    ASSUME NEW f, IsFacts(f), NEW s, NEW free, Proper(s, free), Admits(f, s),
           NEW e \in Expressions, Room(Weight(e))
    PROVE  Interval(e, f) \in Ranges /\ Within(Value(e, s), Interval(e, f))
<1>1. PICK l, r : l = Operand(e.l, s) /\ r = Operand(e.r, s)
  OBVIOUS
<1>2. PICK L, R : L = OperandRange(e.l, f) /\ R = OperandRange(e.r, f)
  OBVIOUS
<1>3. /\ e.op \in {"only", "+", "-"} /\ e.l \in Operands /\ e.r \in Operands /\ s \in Stores
      /\ e.l.by \in Int /\ e.r.by \in Int /\ e.r.of \in Names
      /\ Absolute(Second(e)) = (IF e.op = "only" THEN 0 ELSE Absolute(e.r.by))
      /\ Weight(e) = Absolute(e.l.by) + Absolute(Second(e)) /\ Second(e) \in Int
  BY ExpressionHas DEF Proper
<1>4. Fits(l) /\ (e.op # "only" => Fits(r)) /\ Value(e, s) \in Int /\ Fits(Value(e, s))
  <2>1. \E room \in Nat : room <= MaxInt /\ -room <= Value(e, s) /\ Value(e, s) <= room
    <3>1. PICK room : room = Absolute(e.l.by) * Scale + Absolute(Second(e)) * Scale
      OBVIOUS
    <3> QED BY <3>1, ExpressionIs
  <2>2. Value(e, s) \in Int
    <3>1. PICK p1, p2, f1, f2 :
             /\ p1 \in Int /\ p2 \in Int /\ f1 \in Int /\ f2 \in Int /\ Value(e, s) = p1 + p2 + f1 + f2
      BY ExpressionIs
    <3> QED BY <3>1
  <2> QED BY <1>1, <2>1, <2>2, ExpressionIs, Width DEF Fits
<1>5. L \in Ranges /\ l \in Int /\ Within(l, L)
  BY <1>1, <1>2, <1>3, <1>4, OperandRangeIs
<1>6. CASE e.op = "only"
  BY <1>1, <1>2, <1>5, <1>6 DEF Interval, Result, Value
<1>7. CASE e.op # "only"
  <2>1. R \in Ranges /\ r \in Int /\ Within(r, R)
    BY <1>1, <1>2, <1>3, <1>4, <1>7, OperandRangeIs
  <2>2. CASE e.op = "+"
    <3>1. Value(e, s) = l + r /\ Interval(e, f) = Add(L, R)
      BY <1>1, <1>2, <2>2 DEF Interval, Result, Value
    <3> QED BY <1>4, <1>5, <2>1, <3>1, AddIs
  <2>3. CASE e.op = "-"
    <3>1. Value(e, s) = l - r /\ Interval(e, f) = Add(L, Negate(R))
      BY <1>1, <1>2, <2>3 DEF Interval, Result, Value
    <3>2. Fits(-r)
      <4>1. PICK room : room = Absolute(e.r.by) * Scale
        OBVIOUS
      <4>2. room \in Nat /\ -room <= e.r.by * Reader(e.r.of, s) /\ e.r.by * Reader(e.r.of, s) <= room
        BY <1>3, <4>1, PartsOfOne
      <4>3. r = e.r.by * Reader(e.r.of, s)
        BY <1>1 DEF Operand, Reader
      <4>4. room <= MaxInt
        <5>1. Absolute(e.r.by) \in Nat /\ Absolute(e.r.by) <= Weight(e)
          BY <1>3, <1>7, AbsoluteIs
        <5>2. Room(Absolute(e.r.by))
          BY <5>1, RoomIs
        <5> QED BY <4>1, <5>2 DEF Room
      <4> QED BY <2>1, <4>2, <4>3, <4>4, Width DEF Fits
    <3>3. Negate(R) \in Ranges /\ Within(-r, Negate(R))
      BY <2>1, <3>2, NegateIs
    <3>4. l + (-r) = l - r /\ -r \in Int
      BY <1>5, <2>1
    <3> QED BY <1>4, <1>5, <3>1, <3>3, <3>4, AddIs
  <2> QED BY <1>3, <1>7, <2>2, <2>3
<1> QED BY <1>6, <1>7

LEMMA ValueFits ==
    ASSUME NEW s, NEW free, Proper(s, free), NEW e \in Expressions, Room(Weight(e))
    PROVE  Value(e, s) \in Int /\ Fits(Value(e, s))
<1>1. PICK p1, p2, f1, f2, room :
         /\ p1 \in Int /\ p2 \in Int /\ f1 \in Int /\ f2 \in Int /\ Value(e, s) = p1 + p2 + f1 + f2
         /\ room \in Nat /\ room <= MaxInt /\ -room <= Value(e, s) /\ Value(e, s) <= room
  <2>1. PICK room : room = Absolute(e.l.by) * Scale + Absolute(Second(e)) * Scale
    OBVIOUS
  <2>2. room \in Nat /\ room <= MaxInt /\ -room <= Value(e, s) /\ Value(e, s) <= room
    BY <2>1, ExpressionIs
  <2> QED BY <2>2, ExpressionIs
<1> QED BY <1>1, Width DEF Fits

LEMMA RangeOfIs ==
    ASSUME Roomy, NEW f, IsFacts(f), NEW s, NEW free, Proper(s, free), Admits(f, s),
           NEW e \in Expressions, Room(Weight(e)), Bound(e, free)
    PROVE  RangeOf(e, f) \in Ranges /\ Within(Value(e, s), RangeOf(e, f))
<1>1. Interval(e, f) \in Ranges /\ Within(Value(e, s), Interval(e, f))
  BY IntervalIs
<1>2. Value(e, s) \in Int /\ Fits(Value(e, s))
  BY ValueFits
<1>3. Means(Linear(e), s, Value(e, s), free)
  BY LinearMeans
<1>4. Related(e, f) \in Ranges /\ Within(Value(e, s), Related(e, f))
  BY <1>2, <1>3, RelatedIs DEF Related
<1>5. Meet(Interval(e, f), Related(e, f)) \in Ranges /\ Within(Value(e, s), Meet(Interval(e, f), Related(e, f)))
  BY <1>1, <1>2, <1>4, MeetIs
<1> QED BY <1>1, <1>5 DEF RangeOf

-----------------------------------------------------------------------------
(* A verdict is never wrong of a store the facts admit *)

Stands(op, l, r) ==
    CASE op = "<" -> l < r [] op = "<=" -> l <= r [] op = ">" -> l > r
      [] op = ">=" -> l >= r [] op = "==" -> l = r [] op = "!=" -> l # r

LEMMA VerdictIs ==
    ASSUME NEW op \in DOMAIN Negation, NEW left, NEW right, NEW d,
           NEW l \in Int, NEW r \in Int, d \in Ranges,
           left # Empty, right # Empty, d # Empty, Within(l - r, d), NEW v, v = Verdict(op, left, right, d)
    PROVE  /\ v = "always" => Stands(op, l, r)
           /\ v = "never" => ~Stands(op, l, r)
<1>1. d.low \in Int /\ d.high \in Int /\ d.low <= l - r /\ l - r <= d.high
  BY RangeIs DEF Within
<1>2. op \in {"<", "<=", ">", ">=", "==", "!="}
  BY DEF Negation
<1>3. CASE op = "<"
  BY <1>1, <1>3 DEF Verdict, Answer, Stands
<1>4. CASE op = "<="
  BY <1>1, <1>4 DEF Verdict, Answer, Stands
<1>5. CASE op = ">"
  BY <1>1, <1>5 DEF Verdict, Answer, Stands
<1>6. CASE op = ">="
  BY <1>1, <1>6 DEF Verdict, Answer, Stands
<1>7. CASE op = "=="
  BY <1>1, <1>7 DEF Verdict, Answer, Stands
<1>8. CASE op = "!="
  BY <1>1, <1>8 DEF Verdict, Answer, Stands, Opposite
<1> QED BY <1>2, <1>3, <1>4, <1>5, <1>6, <1>7, <1>8

LEMMA CompareIs ==
    ASSUME Roomy, NEW f, IsFacts(f), NEW s, NEW free, Proper(s, free), Admits(f, s),
           NEW c, Readable(c, free)
    PROVE  /\ Compare(c, f) = "always" => True(c, s)
           /\ Compare(c, f) = "never" => ~True(c, s)
<1>1. PICK l, r : l = Value(c.l, s) /\ r = Value(c.r, s)
  OBVIOUS
<1>2. PICK L, R, apart : L = RangeOf(c.l, f) /\ R = RangeOf(c.r, f) /\ apart = PairDifference(Form(c), f)
  OBVIOUS
<1>3. /\ Means(Form(c), s, l - r, free) /\ Room(Weight(c.l)) /\ Room(Weight(c.r))
      /\ Fits(l - r) /\ l \in Int /\ r \in Int
  BY <1>1, FormMeans DEF Difference2
<1>4. c.l \in Expressions /\ c.r \in Expressions /\ Bound(c.l, free) /\ Bound(c.r, free)
      /\ c.op \in DOMAIN Negation
  BY DEF Readable, Comparisons
<1>5. L \in Ranges /\ Within(l, L) /\ R \in Ranges /\ Within(r, R)
  BY <1>1, <1>2, <1>3, <1>4, RangeOfIs
<1>6. PICK m : m = l - r
  OBVIOUS
<1>7. m \in Int /\ Fits(m) /\ Means(Form(c), s, m, free)
  BY <1>3, <1>6
<1>8. apart \in Ranges /\ Within(m, apart)
  BY <1>2, <1>7, RelatedIs
<1>9. Spread(L, R) \in Ranges /\ Within(m, Spread(L, R))
  BY <1>3, <1>5, <1>6, SpreadIs
<1>10. PICK d : d = Meet(Spread(L, R), apart)
  OBVIOUS
<1>11. d \in Ranges /\ Within(m, d)
  BY <1>7, <1>8, <1>9, <1>10, MeetIs
<1>12. L # Empty /\ R # Empty /\ d # Empty
  BY <1>3, <1>5, <1>7, <1>11, EmptyIs
<1>13. Compare(c, f) = Verdict(c.op, L, R, d)
  BY <1>2, <1>10 DEF Compare, CompareRanges
<1>14. True(c, s) = Stands(c.op, l, r)
  BY <1>1 DEF True, Stands
<1>15. PICK v : v = Verdict(c.op, L, R, d)
  OBVIOUS
<1>16. (v = "always" => Stands(c.op, l, r)) /\ (v = "never" => ~Stands(c.op, l, r))
  BY <1>3, <1>4, <1>6, <1>11, <1>12, <1>15, VerdictIs
<1> QED BY <1>13, <1>14, <1>15, <1>16

\* A condition the program may test, all of whose names are bound.
Testable(condition, free) ==
    /\ condition.all \in BOOLEAN
    /\ condition.parts \in Seq(Comparisons) /\ Len(condition.parts) \in 1 .. 2
    /\ \A i \in DOMAIN condition.parts : Readable(condition.parts[i], free)

LEMMA TrueIs == ASSUME NEW c, NEW s, c.op \in DOMAIN Negation PROVE True(c, s) \in BOOLEAN
<1>1. c.op \in {"<", "<=", ">", ">=", "==", "!="}
  BY DEF Negation
<1>2. CASE c.op = "<"
  BY <1>2 DEF True
<1>3. CASE c.op = "<="
  BY <1>3 DEF True
<1>4. CASE c.op = ">"
  BY <1>4 DEF True
<1>5. CASE c.op = ">="
  BY <1>5 DEF True
<1>6. CASE c.op = "=="
  BY <1>6 DEF True
<1>7. CASE c.op = "!="
  BY <1>7 DEF True
<1> QED BY <1>1, <1>2, <1>3, <1>4, <1>5, <1>6, <1>7

LEMMA FindsIs ==
    ASSUME NEW condition, NEW free, Testable(condition, free), NEW sense \in BOOLEAN, NEW s
    PROVE  LET c == condition.parts IN
           /\ Len(c) = 1 \/ Len(c) = 2
           /\ DOMAIN c = 1 .. Len(c) /\ Readable(c[1], free) /\ True(c[1], s) \in BOOLEAN
           /\ Len(c) = 2 => Readable(c[2], free) /\ True(c[2], s) \in BOOLEAN
           /\ Finds(condition, sense, s) =>
                \/ Len(c) = 1 /\ True(c[1], s) = sense
                \/ Len(c) = 2 /\ True(c[1], s) = ~condition.all /\ sense = ~condition.all
                \/ Len(c) = 2 /\ True(c[1], s) = condition.all /\ True(c[2], s) = sense
<1>1. PICK c : c = condition.parts
  OBVIOUS
<1>2. (Len(c) = 1 \/ Len(c) = 2) /\ DOMAIN c = 1 .. Len(c)
  BY <1>1 DEF Testable
<1>3. Readable(c[1], free) /\ (Len(c) = 2 => Readable(c[2], free))
  BY <1>1, <1>2 DEF Testable
<1>4. True(c[1], s) \in BOOLEAN /\ (Len(c) = 2 => True(c[2], s) \in BOOLEAN)
  BY <1>3, TrueIs DEF Readable, Comparisons
<1>5. PICK all \in BOOLEAN : all = condition.all
  BY DEF Testable
<1>6. PICK one \in BOOLEAN : one = True(c[1], s)
  BY <1>4
<1>7. Finds(condition, sense, s) =>
        \/ Len(c) = 1 /\ one = sense
        \/ Len(c) = 2 /\ one # all /\ sense = ~all
        \/ Len(c) = 2 /\ one = all /\ True(c[2], s) = sense
  BY <1>1, <1>2, <1>5, <1>6 DEF Finds
<1>8. one # all <=> one = ~all
  BY <1>5, <1>6
<1> QED BY <1>1, <1>2, <1>3, <1>4, <1>5, <1>6, <1>7, <1>8

LEMMA HoldsIs ==
    ASSUME Roomy, NEW f, IsFacts(f), NEW s, NEW free, Proper(s, free), Admits(f, s),
           NEW condition, Testable(condition, free)
    PROVE  /\ Holds(condition, f) = "always" => ~Finds(condition, FALSE, s)
           /\ Holds(condition, f) = "never" => ~Finds(condition, TRUE, s)
<1>1. PICK c : c = condition.parts
  OBVIOUS
<1>2. /\ Len(c) = 1 \/ Len(c) = 2
      /\ DOMAIN c = 1 .. Len(c) /\ Readable(c[1], free)
      /\ Len(c) = 2 => Readable(c[2], free)
  BY <1>1, FindsIs
<1>3. PICK truths : truths = {Compare(c[i], f) : i \in DOMAIN c}
  OBVIOUS
<1>4. /\ Compare(c[1], f) = "always" => True(c[1], s)
      /\ Compare(c[1], f) = "never" => ~True(c[1], s)
  BY <1>2, CompareIs
<1>5. Len(c) = 2 => /\ Compare(c[2], f) = "always" => True(c[2], s)
                    /\ Compare(c[2], f) = "never" => ~True(c[2], s)
  BY <1>2, CompareIs
<1>6. /\ Compare(c[1], f) \in truths
      /\ Len(c) = 2 => Compare(c[2], f) \in truths
      /\ \A t \in truths : t = Compare(c[1], f) \/ (Len(c) = 2 /\ t = Compare(c[2], f))
  BY <1>2, <1>3
<1>7. Holds(condition, f) = Joint(condition.all, truths)
  BY <1>1, <1>3 DEF Holds
<1>8. PICK all \in BOOLEAN : all = condition.all
  BY DEF Testable
<1>9. ASSUME all
      PROVE  /\ Joint(all, truths) = "always" => /\ Compare(c[1], f) = "always"
                                                 /\ Len(c) = 2 => Compare(c[2], f) = "always"
             /\ Joint(all, truths) = "never" => \/ Compare(c[1], f) = "never"
                                                \/ Len(c) = 2 /\ Compare(c[2], f) = "never"
  BY <1>6, <1>9 DEF Joint, Answer
<1>10. ASSUME ~all
       PROVE  /\ Joint(all, truths) = "never" => /\ Compare(c[1], f) = "never"
                                                 /\ Len(c) = 2 => Compare(c[2], f) = "never"
              /\ Joint(all, truths) = "always" => \/ Compare(c[1], f) = "always"
                                                  \/ Len(c) = 2 /\ Compare(c[2], f) = "always"
  BY <1>6, <1>10 DEF Joint, Answer
<1>11. PICK one \in BOOLEAN, two \in BOOLEAN :
          one = True(c[1], s) /\ (Len(c) = 2 => two = True(c[2], s))
  BY <1>1, FindsIs
<1>12. \A sense \in BOOLEAN : Finds(condition, sense, s) =>
         \/ Len(c) = 1 /\ one = sense
         \/ Len(c) = 2 /\ one = ~all /\ sense = ~all
         \/ Len(c) = 2 /\ one = all /\ two = sense
  BY <1>1, <1>8, <1>11, FindsIs
<1>16. /\ Compare(c[1], f) = "always" => one
       /\ Compare(c[1], f) = "never" => ~one
       /\ Len(c) = 2 /\ Compare(c[2], f) = "always" => two
       /\ Len(c) = 2 /\ Compare(c[2], f) = "never" => ~two
  BY <1>4, <1>5, <1>11
<1>17. Finds(condition, FALSE, s) =>
         \/ Len(c) = 1 /\ ~one
         \/ Len(c) = 2 /\ ~one /\ all
         \/ Len(c) = 2 /\ (one <=> all) /\ ~two
  BY <1>12
<1>18. Finds(condition, TRUE, s) =>
         \/ Len(c) = 1 /\ one
         \/ Len(c) = 2 /\ one /\ ~all
         \/ Len(c) = 2 /\ (one <=> all) /\ two
  BY <1>12
<1>13. ASSUME Joint(all, truths) = "always" PROVE ~Finds(condition, FALSE, s)
  <2> SUFFICES ASSUME Finds(condition, FALSE, s) PROVE FALSE
    OBVIOUS
  <2>1. CASE all
    <3>1. one /\ (Len(c) = 2 => two)
      BY <1>16, <1>9, <1>13, <2>1
    <3> QED BY <1>17, <1>18, <2>1, <3>1, <1>2
  <2>2. CASE ~all
    <3>1. one \/ (Len(c) = 2 /\ two)
      BY <1>16, <1>10, <1>13, <2>2
    <3> QED BY <1>17, <1>18, <2>2, <3>1, <1>2
  <2> QED BY <2>1, <2>2
<1>14. ASSUME Joint(all, truths) = "never" PROVE ~Finds(condition, TRUE, s)
  <2> SUFFICES ASSUME Finds(condition, TRUE, s) PROVE FALSE
    OBVIOUS
  <2>1. CASE all
    <3>1. ~one \/ (Len(c) = 2 /\ ~two)
      BY <1>16, <1>9, <1>14, <2>1
    <3> QED BY <1>17, <1>18, <2>1, <3>1, <1>2
  <2>2. CASE ~all
    <3>1. ~one /\ (Len(c) = 2 => ~two)
      BY <1>16, <1>10, <1>14, <2>2
    <3> QED BY <1>17, <1>18, <2>2, <3>1, <1>2
  <2> QED BY <2>1, <2>2
<1> QED BY <1>7, <1>8, <1>13, <1>14

-----------------------------------------------------------------------------
(* What a condition is read for *)

IsSeq(q) == \E S : q \in Seq(S)

Told(reading, s) ==
    CASE reading.for = "bound" -> True(reading.of, s)
      [] reading.for = "rule out" -> True(reading.of, s)
      [] reading.for = "below" -> s[reading.index] < s[reading.length]
      [] reading.for = "enter" -> TRUE

Said(reading, free) ==
    CASE reading.for = "bound" -> Readable(reading.of, free)
      [] reading.for = "rule out" ->
           Readable(reading.of, free) /\ Named(reading.of.l) /\ reading.of.op = "!="
      [] reading.for = "below" ->
           /\ reading.index \in Terms /\ reading.index \notin free
           /\ reading.length \in Terms /\ reading.length \notin free
      [] reading.for = "enter" -> \A c \in reading.keep : Testable(c, free)

\* What a condition is read for: only that, all of it said and told.
Saying(q, free) ==
    /\ IsSeq(q)
    /\ \A i \in 1 .. Len(q) : q[i].for \in {"bound", "rule out"} /\ Said(q[i], free)
Telling(q, s) == \A i \in 1 .. Len(q) : Told(q[i], s)

LEMMA SeqIs ==
    ASSUME NEW q, IsSeq(q)
    PROVE  Len(q) \in Nat /\ DOMAIN q = 1 .. Len(q) /\ q = [i \in 1 .. Len(q) |-> q[i]]
BY DEF IsSeq

LEMMA NoneSaid == Saying(<<>>, {}) /\ (\A free : Saying(<<>>, free)) /\ (\A s : Telling(<<>>, s))
<1>1. IsSeq(<<>>)
  <2>1. <<>> \in Seq({})
    OBVIOUS
  <2> QED BY <2>1 DEF IsSeq
<1> QED BY <1>1 DEF Saying, Telling

LEMMA OneSaid ==
    ASSUME NEW r, NEW q, q = <<r>>
    PROVE  /\ \A free : r.for \in {"bound", "rule out"} /\ Said(r, free) => Saying(q, free)
           /\ \A s : Told(r, s) => Telling(q, s)
<1>1. Len(q) = 1 /\ q[1] = r /\ IsSeq(q)
  <2>1. q \in Seq({r})
    OBVIOUS
  <2> QED BY <2>1 DEF IsSeq
<1>2. \A i \in 1 .. Len(q) : q[i] = r
  BY <1>1
<1> QED BY <1>1, <1>2 DEF Saying, Telling

LEMMA BothSaid ==
    ASSUME NEW p, NEW q, IsSeq(p), IsSeq(q), NEW r, r = p \o q
    PROVE  /\ \A free : Saying(p, free) /\ Saying(q, free) => Saying(r, free)
           /\ \A s : Telling(p, s) /\ Telling(q, s) => Telling(r, s)
<1>1. PICK S, T : p \in Seq(S) /\ q \in Seq(T)
  BY DEF IsSeq
<1>2. PICK U : U = S \union T
  OBVIOUS
<1>3. p \in Seq(U) /\ q \in Seq(U)
  <2>1. \A i \in 1 .. Len(p) : p[i] \in U
    BY <1>1, <1>2
  <2>2. \A i \in 1 .. Len(q) : q[i] \in U
    BY <1>1, <1>2
  <2>3. /\ Len(p) \in Nat /\ p = [i \in 1 .. Len(p) |-> p[i]]
        /\ Len(q) \in Nat /\ q = [i \in 1 .. Len(q) |-> q[i]]
    BY SeqIs
  <2>4. p \in [1 .. Len(p) -> U] /\ q \in [1 .. Len(q) -> U]
    BY <2>1, <2>2, <2>3
  <2> QED BY <2>3, <2>4, SeqDef
<1>4. /\ r \in Seq(U) /\ Len(r) = Len(p) + Len(q) /\ Len(p) \in Nat /\ Len(q) \in Nat
      /\ \A i \in 1 .. Len(r) : r[i] = IF i <= Len(p) THEN p[i] ELSE q[i - Len(p)]
  BY <1>3
<1>5. \A i \in 1 .. Len(r) : \/ \E j \in 1 .. Len(p) : r[i] = p[j]
                             \/ \E j \in 1 .. Len(q) : r[i] = q[j]
  <2> SUFFICES ASSUME NEW i \in 1 .. Len(r)
               PROVE  \/ \E j \in 1 .. Len(p) : r[i] = p[j]
                      \/ \E j \in 1 .. Len(q) : r[i] = q[j]
    OBVIOUS
  <2>1. CASE i <= Len(p)
    <3>1. i \in 1 .. Len(p) /\ r[i] = p[i]
      BY <1>4, <2>1
    <3> QED BY <3>1
  <2>2. CASE ~(i <= Len(p))
    <3>1. i - Len(p) \in 1 .. Len(q) /\ r[i] = q[i - Len(p)]
      BY <1>4, <2>2
    <3> QED BY <3>1
  <2> QED BY <2>1, <2>2
<1>6. IsSeq(r)
  BY <1>4 DEF IsSeq
<1> QED BY <1>5, <1>6 DEF Saying, Telling

\* The comparison turned round, and the one that holds when this one does not.
LEMMA FlipIs ==
    ASSUME NEW c, NEW free, Readable(c, free)
    PROVE  /\ Flip(c).l = c.r /\ Flip(c).r = c.l /\ Flip(c).op = c.op /\ Readable(Flip(c), free)
           /\ \A s : c.op = "!=" /\ True(c, s) => True(Flip(c), s)
<1>1. PICK d : d = Flip(c)
  OBVIOUS
<1>2. /\ c \in Comparisons /\ c.l \in Expressions /\ c.r \in Expressions /\ c.op \in DOMAIN Negation
      /\ Bound(c.l, free) /\ Bound(c.r, free) /\ Room(Weight(c.l) + Weight(c.r))
  BY DEF Readable, Comparisons
<1>3. d.l = c.r /\ d.r = c.l /\ d.op = c.op /\ d \in Comparisons
  BY <1>1, <1>2 DEF Flip, Comparisons
<1>4. Room(Weight(d.l) + Weight(d.r))
  <2>1. Weight(c.l) \in Nat /\ Weight(c.r) \in Nat
    BY <1>2, ExpressionHas
  <2>2. Weight(c.l) + Weight(c.r) = Weight(c.r) + Weight(c.l)
    BY <2>1
  <2> QED BY <1>2, <1>3, <2>2
<1>5. \A s : c.op = "!=" /\ True(c, s) => True(d, s)
  BY <1>3 DEF True
<1> QED BY <1>1, <1>2, <1>3, <1>4, <1>5 DEF Readable

LEMMA SensedIs ==
    ASSUME NEW c, NEW free, Readable(c, free), NEW sense \in BOOLEAN
    PROVE  /\ Readable(Sensed(c, sense), free)
           /\ \A s : Proper(s, free) /\ True(c, s) = sense => True(Sensed(c, sense), s)
<1>1. CASE sense
  BY <1>1 DEF Sensed
<1>2. CASE ~sense
  <2>1. PICK d : d = Sensed(c, sense)
    OBVIOUS
  <2>2. c \in Comparisons /\ c.op \in DOMAIN Negation
    BY DEF Readable, Comparisons
  <2>3. d.l = c.l /\ d.r = c.r /\ d.op = Negation[c.op] /\ d \in Comparisons
    <3>1. Negation[c.op] \in DOMAIN Negation
      BY <2>2 DEF Negation
    <3> QED BY <1>2, <2>1, <2>2, <3>1 DEF Sensed, Comparisons
  <2>4. Readable(d, free)
    BY <2>3 DEF Readable
  <2>5. ASSUME NEW s, Proper(s, free), True(c, s) = FALSE PROVE True(d, s)
    <3>1. PICK l, r : l = Value(c.l, s) /\ r = Value(c.r, s)
      OBVIOUS
    <3>2. l \in Int /\ r \in Int
      BY <2>5, <3>1, FormMeans
    <3>3. ~Stands(c.op, l, r)
      BY <2>5, <3>1 DEF True, Stands
    <3>4. c.op \in {"<", "<=", ">", ">=", "==", "!="}
      BY <2>2 DEF Negation
    <3>5. Stands(Negation[c.op], l, r)
      <4>1. CASE c.op = "<"
        BY <3>2, <3>3, <4>1 DEF Negation, Stands
      <4>2. CASE c.op = "<="
        BY <3>2, <3>3, <4>2 DEF Negation, Stands
      <4>3. CASE c.op = ">"
        BY <3>2, <3>3, <4>3 DEF Negation, Stands
      <4>4. CASE c.op = ">="
        BY <3>2, <3>3, <4>4 DEF Negation, Stands
      <4>5. CASE c.op = "=="
        BY <3>2, <3>3, <4>5 DEF Negation, Stands
      <4>6. CASE c.op = "!="
        BY <3>2, <3>3, <4>6 DEF Negation, Stands
      <4> QED BY <3>4, <4>1, <4>2, <4>3, <4>4, <4>5, <4>6
    <3> QED BY <2>3, <3>1, <3>5 DEF True, Stands
  <2> QED BY <1>2, <2>1, <2>4, <2>5
<1> QED BY <1>1, <1>2

LEMMA ReadingsIs ==
    ASSUME NEW c, NEW free, Readable(c, free)
    PROVE  /\ Saying(Readings(c), free)
           /\ \A s : True(c, s) => Telling(Readings(c), s)
<1>1. CASE c.op # "!="
  <2>1. PICK r : r = [for |-> "bound", of |-> c]
    OBVIOUS
  <2>2. r.for = "bound" /\ r.of = c /\ Readings(c) = <<r>>
    BY <1>1, <2>1 DEF Readings
  <2>3. Said(r, free) /\ \A s : True(c, s) => Told(r, s)
    BY <2>2 DEF Said, Told
  <2> QED BY <2>2, <2>3, OneSaid
<1>2. CASE c.op = "!="
  <2>1. PICK d, r, t : d = Flip(c) /\ r = [for |-> "rule out", of |-> c] /\ t = [for |-> "rule out", of |-> d]
    OBVIOUS
  <2>2. r.for = "rule out" /\ r.of = c /\ t.for = "rule out" /\ t.of = d
    BY <2>1
  <2>3. /\ d.l = c.r /\ d.op = "!=" /\ Readable(d, free) /\ (\A s : True(c, s) => True(d, s))
    BY <1>2, <2>1, FlipIs
  <2>4. PICK p, q : p = (IF Named(c.l) THEN <<r>> ELSE <<>>) /\ q = (IF Named(c.r) THEN <<t>> ELSE <<>>)
    OBVIOUS
  <2>5. Saying(p, free) /\ (\A s : True(c, s) => Telling(p, s))
    <3>1. CASE Named(c.l)
      <4>1. Said(r, free) /\ \A s : True(c, s) => Told(r, s)
        BY <1>2, <2>2, <3>1 DEF Said, Told
      <4>2. p = <<r>>
        BY <2>4, <3>1
      <4> QED BY <2>2, <4>1, <4>2, OneSaid
    <3>2. CASE ~Named(c.l)
      BY <2>4, <3>2, NoneSaid
    <3> QED BY <3>1, <3>2
  <2>6. Saying(q, free) /\ (\A s : True(c, s) => Telling(q, s))
    <3>1. CASE Named(c.r)
      <4>1. Said(t, free) /\ \A s : True(c, s) => Told(t, s)
        BY <2>2, <2>3, <3>1 DEF Said, Told
      <4>2. q = <<t>>
        BY <2>4, <3>1
      <4> QED BY <2>2, <4>1, <4>2, OneSaid
    <3>2. CASE ~Named(c.r)
      BY <2>4, <3>2, NoneSaid
    <3> QED BY <3>1, <3>2
  <2>7. Readings(c) = p \o q
    BY <1>2, <2>1, <2>4 DEF Readings
  <2>8. IsSeq(p) /\ IsSeq(q)
    BY <2>5, <2>6 DEF Saying
  <2>9. PICK w : w = p \o q
    OBVIOUS
  <2>10. /\ Saying(p, free) /\ Saying(q, free) => Saying(w, free)
         /\ \A s : Telling(p, s) /\ Telling(q, s) => Telling(w, s)
    BY <2>8, <2>9, BothSaid
  <2> QED BY <2>5, <2>6, <2>7, <2>9, <2>10
<1> QED BY <1>1, <1>2

\* What a condition is read for is said of bound names, and told of every store
\* that finds it so.
LEMMA NarrowingIs ==
    ASSUME NEW condition, NEW free, Testable(condition, free), NEW sense \in BOOLEAN
    PROVE  /\ Saying(Narrowing(condition, sense), free)
           /\ \A s : Proper(s, free) /\ Finds(condition, sense, s) => Telling(Narrowing(condition, sense), s)
<1>1. PICK c : c = condition.parts
  OBVIOUS
<1>2. PICK all \in BOOLEAN : all = condition.all
  BY DEF Testable
<1>3. /\ Len(c) = 1 \/ Len(c) = 2
      /\ Readable(c[1], free) /\ (Len(c) = 2 => Readable(c[2], free))
  BY <1>1, FindsIs
<1>4. ASSUME NEW s, Proper(s, free), Finds(condition, sense, s)
      PROVE  \/ Len(c) = 1 /\ True(c[1], s) = sense
             \/ Len(c) = 2 /\ True(c[1], s) = ~all /\ sense = ~all
             \/ Len(c) = 2 /\ True(c[1], s) = all /\ True(c[2], s) = sense
  BY <1>1, <1>2, <1>4, FindsIs
<1>5. PICK p : p = Readings(Sensed(c[1], sense))
  OBVIOUS
<1>6. Saying(p, free) /\ \A s : Proper(s, free) /\ True(c[1], s) = sense => Telling(p, s)
  BY <1>3, <1>5, SensedIs, ReadingsIs
<1>7. CASE Len(c) = 1
  <2>1. Narrowing(condition, sense) = p
    BY <1>1, <1>5, <1>7 DEF Narrowing
  <2> QED BY <1>4, <1>6, <1>7, <2>1
<1>8. CASE Len(c) = 2 /\ all # sense
  <2>1. Narrowing(condition, sense) = <<>>
    BY <1>1, <1>2, <1>8 DEF Narrowing
  <2> QED BY <2>1, NoneSaid
<1>9. CASE Len(c) = 2 /\ all = sense
  <2>1. PICK q : q = Readings(Sensed(c[2], sense))
    OBVIOUS
  <2>2. Saying(q, free) /\ \A s : Proper(s, free) /\ True(c[2], s) = sense => Telling(q, s)
    BY <1>3, <1>9, <2>1, SensedIs, ReadingsIs
  <2>3. PICK w : w = p \o q
    OBVIOUS
  <2>4. Narrowing(condition, sense) = w
    BY <1>1, <1>2, <1>5, <1>9, <2>1, <2>3 DEF Narrowing
  <2>5. IsSeq(p) /\ IsSeq(q)
    BY <1>6, <2>2 DEF Saying
  <2>6. /\ Saying(p, free) /\ Saying(q, free) => Saying(w, free)
        /\ \A s : Telling(p, s) /\ Telling(q, s) => Telling(w, s)
    BY <2>3, <2>5, BothSaid
  <2>7. ASSUME NEW s, Proper(s, free), Finds(condition, sense, s)
        PROVE  True(c[1], s) = sense /\ True(c[2], s) = sense
    <3>1. sense # ~all
      BY <1>2, <1>9
    <3>2. Len(c) # 1
      BY <1>9
    <3> QED BY <1>4, <1>9, <2>7, <3>1, <3>2
  <2> QED BY <1>6, <2>2, <2>4, <2>6, <2>7
<1> QED BY <1>3, <1>7, <1>8, <1>9

-----------------------------------------------------------------------------
(* What a form and a range are, whatever the stores *)

\* A form that counts no name of free.
Shaped(form, free) == IsForm(form) /\ \A t \in Counted(form) : t \notin free

LEMMA SourceIs == ASSUME NEW o \in Operands PROVE o.of \notin Terms => Source(o) \in Ranges
<1>1. Exactly(1) \in Ranges
  BY ExactlyIs, Width DEF Fits
<1>2. o.of \in Terms \/ o.of = One \/ o.of \in Fields
  BY DEF Operands
<1> QED BY <1>1, <1>2, RefinedAssumption DEF Source

LEMMA OperandFormShaped ==
    ASSUME NEW o \in Operands, NEW free, o.of \notin free
    PROVE  Shaped(OperandForm(o), free)
<1>1. o.by \in Int
  BY Width DEF Operands
<1>2. CASE o.of \in Terms
  <2>1. Exactly(0) \in Ranges
    BY ExactlyIs, Width DEF Fits
  <2>2. OperandForm(o) = [count |-> [t \in Terms |-> IF t = o.of THEN o.by ELSE 0], offset |-> Exactly(0)]
    BY <1>2 DEF OperandForm
  <2> QED BY <1>1, <2>1, <2>2 DEF Shaped, IsForm, Counted
<1>3. CASE o.of \notin Terms
  <2>1. Times(Source(o), o.by) \in Ranges
    BY <1>1, <1>3, SourceIs, TimesIs
  <2>2. OperandForm(o) = [count |-> [t \in Terms |-> 0], offset |-> Times(Source(o), o.by)]
    BY <1>3 DEF OperandForm, Constant
  <2> QED BY <2>1, <2>2 DEF Shaped, IsForm, Counted
<1> QED BY <1>2, <1>3

LEMMA PlusShaped ==
    ASSUME NEW F, NEW G, NEW free, Shaped(F, free), Shaped(G, free)
    PROVE  Shaped(Plus(F, G), free)
<1>1. \A t \in Terms : F.count[t] \in Int /\ G.count[t] \in Int
  BY DEF Shaped, IsForm
<1>2. /\ Plus(F, G).count = [t \in Terms |-> Clamp(F.count[t] + G.count[t])]
      /\ Plus(F, G).offset = Add(F.offset, G.offset)
  BY DEF Plus
<1>3. Plus(F, G).count \in [Terms -> Int]
  BY <1>1, <1>2, ClampIs
<1>4. Add(F.offset, G.offset) \in Ranges
  BY AddIs DEF Shaped, IsForm
<1>5. \A t \in Terms : Plus(F, G).count[t] # 0 => F.count[t] # 0 \/ G.count[t] # 0
  <2>1. Clamp(0) = 0
    BY ClampIs, Width DEF Fits
  <2> QED BY <1>1, <1>2, <2>1
<1> QED BY <1>2, <1>3, <1>4, <1>5 DEF Shaped, IsForm, Counted

LEMMA NegatedShaped ==
    ASSUME NEW F, NEW free, Shaped(F, free)
    PROVE  Shaped(Negated(F), free)
<1>1. \A t \in Terms : F.count[t] \in Int
  BY DEF Shaped, IsForm
<1>2. CASE \E t \in Terms : F.count[t] = MinInt
  <2>1. Negated(F) = [count |-> [t \in Terms |-> 0], offset |-> Any]
    BY <1>2 DEF Negated, Constant
  <2> QED BY <2>1, AnyIs DEF Shaped, IsForm, Counted
<1>3. CASE ~ \E t \in Terms : F.count[t] = MinInt
  <2>1. Negated(F) = [count |-> [t \in Terms |-> -F.count[t]], offset |-> Times(F.offset, -1)]
    BY <1>3 DEF Negated
  <2>2. Times(F.offset, -1) \in Ranges
    BY TimesIs DEF Shaped, IsForm
  <2> QED BY <1>1, <2>1, <2>2 DEF Shaped, IsForm, Counted
<1> QED BY <1>2, <1>3

LEMMA LinearShaped ==
    ASSUME NEW e \in Expressions, NEW free, Bound(e, free)
    PROVE  Shaped(Linear(e), free)
<1>1. e.op \in {"only", "+", "-"} /\ e.l \in Operands /\ e.r \in Operands
  BY ExpressionHas
<1>2. Shaped(OperandForm(e.l), free) /\ Shaped(OperandForm(e.r), free)
  BY <1>1, OperandFormShaped DEF Bound
<1>3. CASE e.op = "only"
  BY <1>2, <1>3 DEF Linear
<1>4. CASE e.op = "+"
  BY <1>2, <1>4, PlusShaped DEF Linear
<1>5. CASE e.op = "-"
  BY <1>2, <1>5, PlusShaped, NegatedShaped DEF Linear
<1> QED BY <1>1, <1>3, <1>4, <1>5

LEMMA FormShaped ==
    ASSUME NEW c, NEW free, Readable(c, free)
    PROVE  Shaped(Form(c), free)
<1>1. c.l \in Expressions /\ c.r \in Expressions /\ Bound(c.l, free) /\ Bound(c.r, free)
  BY DEF Readable, Comparisons
<1> QED BY <1>1, LinearShaped, NegatedShaped, PlusShaped DEF Form

LEMMA OperandRanges ==
    ASSUME NEW f, IsFacts(f), NEW o \in Operands
    PROVE  OperandRange(o, f) \in Ranges
<1>1. o.by \in Int
  BY Width DEF Operands
<1>2. o.of \in Terms => f.known[o.of] \in Ranges
  BY DEF IsFacts
<1> QED BY <1>1, <1>2, SourceIs, TimesIs DEF OperandRange

LEMMA DifferenceRange ==
    ASSUME NEW f, IsFacts(f), NEW a, NEW b
    PROVE  Difference(f, a, b) \in Ranges
<1>1. Exactly(0) \in Ranges
  BY ExactlyIs, Width DEF Fits
<1>2. <<a, b>> \in DOMAIN f.differences => f.differences[<<a, b>>] \in Ranges
  <2>1. PICK p : p = <<a, b>>
    OBVIOUS
  <2> QED BY <2>1 DEF IsFacts
<1> QED BY <1>1, <1>2, AnyIs DEF Difference

\* What is read of an expression is a range.
LEMMA RangeOfRanges ==
    ASSUME NEW f, IsFacts(f), NEW e \in Expressions
    PROVE  RangeOf(e, f) \in Ranges
<1>1. e.op \in {"only", "+", "-"} /\ e.l \in Operands /\ e.r \in Operands
  BY ExpressionHas
<1>2. PICK L, R : L = OperandRange(e.l, f) /\ R = OperandRange(e.r, f)
  OBVIOUS
<1>3. L \in Ranges /\ R \in Ranges
  BY <1>1, <1>2, OperandRanges
<1>4. Interval(e, f) \in Ranges
  <2>1. Add(L, R) \in Ranges
    BY <1>3, AddIs
  <2>2. Negate(R) \in Ranges
    BY <1>3, NegateIs
  <2>3. Add(L, Negate(R)) \in Ranges
    BY <1>3, <2>2, AddIs
  <2> QED BY <1>1, <1>2, <1>3, <2>1, <2>3 DEF Interval, Result
<1>5. Related(e, f) \in Ranges
  <2>1. Shaped(Linear(e), {})
    BY LinearShaped DEF Bound
  <2>2. PICK form : form = Linear(e)
    OBVIOUS
  <2>3. form.offset \in Ranges
    BY <2>1, <2>2 DEF Shaped, IsForm
  <2>4. CASE PairOf(form) # {}
    <3>1. PICK d : d = Difference(f, The(PairOf(form))[1], The(PairOf(form))[2])
      OBVIOUS
    <3>2. d \in Ranges
      BY <3>1, DifferenceRange
    <3>3. RelatedForm(form, f) = Add(d, form.offset)
      BY <2>4, <3>1 DEF RelatedForm
    <3> QED BY <2>2, <2>3, <3>2, <3>3, AddIs DEF Related
  <2>5. CASE PairOf(form) = {} /\ CoupleOf(form) # {}
    <3>1. PICK c : c = The(CoupleOf(form))
      OBVIOUS
    <3>2. c \in Couples
      BY <2>5, <3>1, ChosenIs DEF CoupleOf
    <3>3. f.totals[c] \in Ranges
      BY <3>2 DEF IsFacts
    <3>4. RelatedForm(form, f) = Add(f.totals[c], form.offset)
      BY <2>5, <3>1 DEF RelatedForm
    <3> QED BY <2>2, <2>3, <3>3, <3>4, AddIs DEF Related
  <2>6. CASE PairOf(form) = {} /\ CoupleOf(form) = {}
    BY <2>2, <2>6, AnyIs DEF Related, RelatedForm
  <2> QED BY <2>4, <2>5, <2>6
<1>6. Meet(Interval(e, f), Related(e, f)) \in Ranges
  BY <1>4, <1>5, MeetIs
<1> QED BY <1>4, <1>6 DEF RangeOf

-----------------------------------------------------------------------------
(* What becomes of facts *)

\* Nothing is known of a name that is not bound.
Silent(f, n) ==
    /\ f.known[n] = Any
    /\ \A p \in DOMAIN f.differences : ~About(p, n)
    /\ \A c \in Couples : n \in c => f.totals[c] = Any

Untouched(f, free) == IsFacts(f) /\ \A n \in free : Silent(f, n)

LEMMA TightenIs ==
    ASSUME NEW f, IsFacts(f), NEW t \in Terms, NEW r \in Ranges, NEW g, g = Tighten(f, t, r)
    PROVE  /\ IsFacts(g)
           /\ \A s \in Stores : Admits(f, s) /\ Within(s[t], r) => Admits(g, s)
           /\ \A n \in Terms : n # t /\ Silent(f, n) => Silent(g, n)
<1>1. PICK m : m = Meet(f.known[t], r)
  OBVIOUS
<1>2. f.known \in [Terms -> Ranges] /\ f.known[t] \in Ranges
  BY DEF IsFacts
<1>3. m \in Ranges /\ \A v \in Int : Within(v, f.known[t]) /\ Within(v, r) => Within(v, m)
  BY <1>1, <1>2, MeetIs
<1>4. /\ DOMAIN g = {"known", "differences", "totals"}
      /\ g.known = [f.known EXCEPT ![t] = m] /\ g.differences = f.differences /\ g.totals = f.totals
  BY <1>1 DEF Tighten, IsFacts
<1>5. IsFacts(g)
  BY <1>2, <1>3, <1>4 DEF IsFacts
<1>6. g.known[t] = m /\ \A n \in Terms : n # t => g.known[n] = f.known[n]
  BY <1>2, <1>4
<1>7. \A s \in Stores : Admits(f, s) /\ Within(s[t], r) => Admits(g, s)
  <2>1. \A s \in Stores : Within(s[t], f.known[t]) /\ Within(s[t], r) => Within(s[t], m)
    BY <1>3, StoreIs
  <2> QED BY <1>4, <1>6, <2>1 DEF Admits
<1>8. \A n \in Terms : n # t /\ Silent(f, n) => Silent(g, n)
  BY <1>4, <1>6 DEF Silent
<1> QED BY <1>5, <1>7, <1>8

LEMMA NarrowTotalIs ==
    ASSUME NEW f, IsFacts(f), NEW a \in Terms, NEW b \in Terms, a # b,
           NEW r \in Ranges, NEW g, g = NarrowTotal(f, {a, b}, r)
    PROVE  /\ IsFacts(g)
           /\ \A s \in Stores : Admits(f, s) /\ Within(s[a] + s[b], r) => Admits(g, s)
           /\ \A n \in Terms : n # a /\ n # b /\ Silent(f, n) => Silent(g, n)
<1>1. PICK c : c = {a, b}
  OBVIOUS
<1>2. PICK m : m = Meet(f.totals[c], r)
  OBVIOUS
<1>3. c \in Couples
  <2>1. <<a, b>> \in Pairs
    BY DEF Pairs
  <2> QED BY <1>1, <2>1 DEF Couples
<1>4. f.totals \in [Couples -> Ranges] /\ f.totals[c] \in Ranges
  BY <1>3 DEF IsFacts
<1>5. m \in Ranges /\ \A v \in Int : Within(v, f.totals[c]) /\ Within(v, r) => Within(v, m)
  BY <1>2, <1>4, MeetIs
<1>6. /\ DOMAIN g = {"known", "differences", "totals"}
      /\ g.totals = [f.totals EXCEPT ![c] = m] /\ g.differences = f.differences /\ g.known = f.known
  BY <1>1, <1>2 DEF NarrowTotal, IsFacts
<1>7. IsFacts(g)
  BY <1>3, <1>4, <1>5, <1>6 DEF IsFacts
<1>8. g.totals[c] = m /\ \A d \in Couples : d # c => g.totals[d] = f.totals[d]
  BY <1>3, <1>4, <1>6
<1>9. ASSUME NEW s \in Stores, Admits(f, s), Within(s[a] + s[b], r) PROVE Admits(g, s)
  <2>1. ASSUME NEW p \in Pairs PROVE Within(s[p[1]] + s[p[2]], g.totals[{p[1], p[2]}])
    <3>1. Within(s[p[1]] + s[p[2]], f.totals[{p[1], p[2]}])
      BY <1>9 DEF Admits
    <3>2. CASE {p[1], p[2]} = c
      <4>1. s[a] \in Int /\ s[b] \in Int
        BY StoreIs
      <4>2. s[p[1]] + s[p[2]] = s[a] + s[b]
        <5>1. (p[1] = a /\ p[2] = b) \/ (p[1] = b /\ p[2] = a)
          BY <1>1, <3>2, PairHas
        <5>2. s[a] + s[b] = s[b] + s[a]
          BY <4>1
        <5>3. CASE p[1] = a /\ p[2] = b
          BY <5>3
        <5>4. CASE p[1] = b /\ p[2] = a
          <6>1. s[p[1]] = s[b] /\ s[p[2]] = s[a]
            BY <5>4
          <6> QED BY <5>2, <6>1
        <5> QED BY <5>1, <5>3, <5>4
      <4>3. PICK v \in Int : v = s[a] + s[b]
        BY <4>1
      <4>4. Within(v, f.totals[c]) /\ Within(v, r)
        BY <1>9, <3>1, <3>2, <4>2, <4>3
      <4>5. Within(v, m)
        BY <1>5, <4>4
      <4>6. g.totals[{p[1], p[2]}] = m
        BY <1>8, <3>2
      <4> QED BY <4>2, <4>3, <4>5, <4>6
    <3>3. CASE {p[1], p[2]} # c
      <4>1. {p[1], p[2]} \in Couples
        BY DEF Couples
      <4>2. g.totals[{p[1], p[2]}] = f.totals[{p[1], p[2]}]
        BY <1>8, <3>3, <4>1
      <4> QED BY <3>1, <4>2
    <3> QED BY <3>2, <3>3
  <2> QED BY <1>6, <1>9, <2>1 DEF Admits
<1>10. \A n \in Terms : n # a /\ n # b /\ Silent(f, n) => Silent(g, n)
  <2>1. \A n : n # a /\ n # b => n \notin c
    BY <1>1
  <2> QED BY <1>6, <1>8, <2>1 DEF Silent
<1> QED BY <1>7, <1>9, <1>10

LEMMA BothOrdersIs ==
    ASSUME NEW f, IsFacts(f), NEW a \in Terms, NEW b \in Terms, NEW x \in Ranges, NEW y \in Ranges,
           NEW g, g = BothOrders(f, a, b, x, y)
    PROVE  /\ IsFacts(g)
           /\ \A s : Admits(f, s) /\ Within(s[a] - s[b], x) /\ Within(s[b] - s[a], y) => Admits(g, s)
           /\ \A n : n # a /\ n # b /\ Silent(f, n) => Silent(g, n)
<1>1. CASE a = b \/ (x = Difference(f, a, b) /\ y = Difference(f, b, a))
  <2>1. g = f
    BY <1>1 DEF BothOrders
  <2> QED BY <2>1
<1>2. CASE ~(a = b \/ (x = Difference(f, a, b) /\ y = Difference(f, b, a)))
  <2>1. PICK p, q : p = <<a, b>> /\ q = <<b, a>>
    OBVIOUS
  <2>2. a # b
    BY <1>2
  <2>3. p \in Pairs /\ q \in Pairs /\ p # q /\ p[1] = a /\ p[2] = b /\ q[1] = b /\ q[2] = a
    BY <2>1, <2>2 DEF Pairs
  <2>4. PICK D, E : D = DOMAIN f.differences /\ E = D \union {p, q}
    OBVIOUS
  <2>5. PICK d : d = [z \in E |-> CASE z = p -> x [] z = q -> y [] OTHER -> f.differences[z]]
    OBVIOUS
  <2>6. g = [f EXCEPT !.differences = d]
    BY <1>2, <2>1, <2>4, <2>5 DEF BothOrders
  <2>7. /\ DOMAIN g = {"known", "differences", "totals"}
        /\ g.known = f.known /\ g.totals = f.totals /\ g.differences = d
    BY <2>6 DEF IsFacts
  <2>8. /\ DOMAIN d = E /\ d[p] = x /\ d[q] = y /\ (\A z \in D : z # p /\ z # q => d[z] = f.differences[z])
        /\ \A z \in E : z = p \/ z = q \/ (z \in D /\ z # p /\ z # q)
    BY <2>3, <2>4, <2>5
  <2>9. E \subseteq Pairs /\ \A z \in D : f.differences[z] \in Ranges
    BY <2>3, <2>4 DEF IsFacts
  <2>10. \A z \in E : d[z] \in Ranges
    BY <2>8, <2>9
  <2>11. d \in [E -> Ranges]
    BY <2>5, <2>8, <2>10
  <2>12. IsFacts(g)
    BY <2>7, <2>8, <2>9, <2>11 DEF IsFacts
  <2>13. ASSUME NEW s, Admits(f, s), Within(s[a] - s[b], x), Within(s[b] - s[a], y) PROVE Admits(g, s)
    <3>1. ASSUME NEW z \in E PROVE Within(s[z[1]] - s[z[2]], d[z])
      <4>1. CASE z = p
        BY <2>3, <2>8, <2>13, <4>1
      <4>2. CASE z = q
        BY <2>3, <2>8, <2>13, <4>2
      <4>3. CASE z \in D /\ z # p /\ z # q
        <5>1. Within(s[z[1]] - s[z[2]], f.differences[z])
          BY <2>4, <2>13, <4>3 DEF Admits
        <5> QED BY <2>8, <4>3, <5>1
      <4> QED BY <2>8, <4>1, <4>2, <4>3
    <3> QED BY <2>7, <2>8, <2>13, <3>1 DEF Admits
  <2>14. ASSUME NEW n, n # a, n # b, Silent(f, n) PROVE Silent(g, n)
    <3>1. \A z \in E : ~About(z, n)
      <4>1. ~About(p, n) /\ ~About(q, n)
        BY <2>3, <2>14 DEF About
      <4>2. \A z \in D : ~About(z, n)
        BY <2>4, <2>14 DEF Silent
      <4> QED BY <2>8, <4>1, <4>2
    <3> QED BY <2>7, <2>8, <2>14, <3>1 DEF Silent
  <2> QED BY <2>12, <2>13, <2>14
<1> QED BY <1>1, <1>2

LEMMA TightenDifferenceIs ==
    ASSUME Roomy, NEW f, IsFacts(f), NEW a \in Terms, NEW b \in Terms, NEW r \in Ranges,
           NEW g, g = TightenDifference(f, a, b, r)
    PROVE  /\ IsFacts(g)
           /\ \A s \in Stores : Admits(f, s) /\ Within(s[a] - s[b], r) => Admits(g, s)
           /\ \A n : n # a /\ n # b /\ Silent(f, n) => Silent(g, n)
<1>1. PICK D, E : D = Difference(f, a, b) /\ E = Difference(f, b, a)
  OBVIOUS
<1>2. D \in Ranges /\ E \in Ranges
  BY <1>1, DifferenceRange
<1>3. PICK x : x = Meet(D, r)
  OBVIOUS
<1>4. x \in Ranges /\ \A v \in Int : Within(v, D) /\ Within(v, r) => Within(v, x)
  BY <1>2, <1>3, MeetIs
<1>5. Negate(x) \in Ranges /\ \A v \in Int : Within(v, x) /\ Fits(-v) => Within(-v, Negate(x))
  BY <1>4, NegateIs
<1>6. PICK y : y = Meet(E, Negate(x))
  OBVIOUS
<1>7. y \in Ranges /\ \A v \in Int : Within(v, E) /\ Within(v, Negate(x)) => Within(v, y)
  BY <1>2, <1>5, <1>6, MeetIs
<1>8. g = BothOrders(f, a, b, x, y)
  BY <1>1, <1>3, <1>6 DEF TightenDifference, Mirrored
<1>9. ASSUME NEW s \in Stores, Admits(f, s), Within(s[a] - s[b], r)
      PROVE  Within(s[a] - s[b], x) /\ Within(s[b] - s[a], y)
  <2>1. PICK v : v = s[a] - s[b]
    OBVIOUS
  <2>2. v \in Int /\ Fits(-v) /\ s[b] - s[a] = -v /\ -v \in Int
    BY <2>1, NearBy
  <2>3. Within(v, D) /\ Within(-v, E)
    BY <1>1, <1>9, <2>1, <2>2, DifferenceIs
  <2>4. Within(v, x)
    BY <1>4, <1>9, <2>1, <2>2, <2>3
  <2>5. Within(-v, y)
    BY <1>5, <1>7, <2>2, <2>3, <2>4
  <2> QED BY <2>1, <2>2, <2>4, <2>5
<1> QED BY <1>4, <1>7, <1>8, <1>9, BothOrdersIs

LEMMA UnboundIs ==
    ASSUME NEW t \in Terms
    PROVE  /\ Unbound(t) \in Ranges
           /\ t \in Locals => Unbound(t) = Any
<1>1. Between(0, MaxInt) \in Ranges
  BY BetweenIs, Width
<1>2. Locals \intersect Lengths = {}
  <2>1. Kinds[2] = Locals /\ Kinds[4] = Lengths /\ DOMAIN Kinds = 1 .. 6
    BY DEF Kinds
  <2> QED BY <2>1, NamesAssumption
<1> QED BY <1>1, <1>2, AnyIs DEF Unbound

\* What a binding leaves: a store that differs in that name alone.
LEMMA SetIs ==
    ASSUME Roomy, NEW f, IsFacts(f), NEW t \in Terms, NEW r \in Ranges, NEW g, g = Set(f, t, r)
    PROVE  /\ IsFacts(g)
           /\ \A s, u \in Stores : /\ Admits(f, s) /\ Within(u[t], r)
                                   /\ \A n \in Terms : n # t => u[n] = s[n]
                                   => Admits(g, u)
           /\ \A n \in Terms : n # t /\ Silent(f, n) => Silent(g, n)
<1>1. PICK D, E : D = DOMAIN f.differences /\ E = {q \in D : ~About(q, t)}
  OBVIOUS
<1>2. /\ DOMAIN g = {"known", "differences", "totals"}
      /\ g.differences = [p \in E |-> f.differences[p]]
      /\ g.totals = [c \in Couples |-> IF t \in c THEN Any ELSE f.totals[c]]
      /\ g.known = [[f.known EXCEPT ![t] = Unbound(t)] EXCEPT ![t] = r]
  BY <1>1 DEF Set, Forget
<1>3. f.known \in [Terms -> Ranges]
  BY DEF IsFacts
<1>4. /\ g.known \in [Terms -> Ranges] /\ g.known[t] = r
      /\ \A n \in Terms : n # t => g.known[n] = f.known[n]
  BY <1>2, <1>3, UnboundIs
<1>5. IsFacts(g)
  BY <1>1, <1>2, <1>4, AnyIs DEF IsFacts
<1>6. ASSUME NEW s \in Stores, NEW u \in Stores, Admits(f, s), Within(u[t], r),
             \A n \in Terms : n # t => u[n] = s[n]
      PROVE  Admits(g, u)
  <2>1. \A n \in Terms : Within(u[n], g.known[n])
    BY <1>4, <1>6 DEF Admits
  <2>2. ASSUME NEW p \in E PROVE Within(u[p[1]] - u[p[2]], g.differences[p])
    <3>1. p \in D /\ p[1] # t /\ p[2] # t /\ p \in Pairs
      BY <1>1 DEF About, IsFacts
    <3>2. u[p[1]] = s[p[1]] /\ u[p[2]] = s[p[2]]
      BY <1>6, <3>1, PairHas
    <3>3. Within(s[p[1]] - s[p[2]], f.differences[p])
      BY <1>1, <1>6, <3>1 DEF Admits
    <3> QED BY <1>2, <3>2, <3>3
  <2>3. ASSUME NEW p \in Pairs PROVE Within(u[p[1]] + u[p[2]], g.totals[{p[1], p[2]}])
    <3>1. PICK c : c = {p[1], p[2]}
      OBVIOUS
    <3>2. c \in Couples
      BY <3>1 DEF Couples
    <3>3. CASE t \in c
      <4>1. g.totals[c] = Any
        BY <1>2, <3>2, <3>3
      <4>2. u[p[1]] + u[p[2]] \in Int /\ Fits(u[p[1]] + u[p[2]])
        BY NearBy, PairHas
      <4> QED BY <3>1, <4>1, <4>2, AnyIs
    <3>4. CASE t \notin c
      <4>1. g.totals[c] = f.totals[c]
        BY <1>2, <3>2, <3>4
      <4>2. u[p[1]] = s[p[1]] /\ u[p[2]] = s[p[2]]
        BY <1>6, <3>1, <3>4, PairHas
      <4>3. Within(s[p[1]] + s[p[2]], f.totals[c])
        BY <1>6, <3>1 DEF Admits
      <4> QED BY <3>1, <4>1, <4>2, <4>3
    <3> QED BY <3>3, <3>4
  <2>4. DOMAIN g.differences = E
    BY <1>2
  <2> QED BY <2>1, <2>2, <2>3, <2>4 DEF Admits
<1>7. ASSUME NEW n \in Terms, n # t, Silent(f, n) PROVE Silent(g, n)
  <2>1. g.known[n] = Any
    BY <1>4, <1>7 DEF Silent
  <2>2. \A p \in DOMAIN g.differences : ~About(p, n)
    BY <1>1, <1>2, <1>7 DEF Silent
  <2>3. \A c \in Couples : n \in c => g.totals[c] = Any
    BY <1>2, <1>7 DEF Silent
  <2> QED BY <2>1, <2>2, <2>3 DEF Silent
<1> QED BY <1>5, <1>6, <1>7

\* What two sides agree on holds of a store that either admits.
LEMMA JoinFactsIs ==
    ASSUME Roomy, NEW f, IsFacts(f), NEW g, IsFacts(g), NEW h, h = JoinFacts(f, g)
    PROVE  /\ IsFacts(h)
           /\ \A s \in Stores : Admits(f, s) \/ Admits(g, s) => Admits(h, s)
           /\ \A n \in Terms : Silent(f, n) => Silent(h, n)
<1>1. PICK both : both = [p \in DOMAIN f.differences |-> Join(f.differences[p], Difference(g, p[1], p[2]))]
  OBVIOUS
<1>2. PICK E : E = {q \in DOMAIN both : both[q] # Any}
  OBVIOUS
<1>3. /\ DOMAIN h = {"known", "differences", "totals"}
      /\ h.known = [t \in Terms |-> Join(f.known[t], g.known[t])]
      /\ h.differences = [p \in E |-> both[p]]
      /\ h.totals = [c \in Couples |-> Join(f.totals[c], g.totals[c])]
  BY <1>1, <1>2 DEF JoinFacts
<1>4. \A t \in Terms : f.known[t] \in Ranges /\ g.known[t] \in Ranges
  BY DEF IsFacts
<1>5. \A c \in Couples : f.totals[c] \in Ranges /\ g.totals[c] \in Ranges
  BY DEF IsFacts
<1>6. \A p \in DOMAIN f.differences : /\ p \in Pairs /\ f.differences[p] \in Ranges
                                      /\ Difference(g, p[1], p[2]) \in Ranges
  BY DifferenceRange DEF IsFacts
<1>7. \A p \in E : p \in DOMAIN f.differences /\ p \in Pairs /\ both[p] \in Ranges
  BY <1>1, <1>2, <1>6, JoinIs
<1>8. IsFacts(h)
  <2>1. h.known \in [Terms -> Ranges] /\ h.totals \in [Couples -> Ranges]
    BY <1>3, <1>4, <1>5, JoinIs
  <2>2. DOMAIN h.differences = E /\ h.differences \in [E -> Ranges]
    BY <1>3, <1>7
  <2> QED BY <1>3, <1>7, <2>1, <2>2 DEF IsFacts
<1>9. ASSUME NEW s \in Stores, Admits(f, s) \/ Admits(g, s) PROVE Admits(h, s)
  <2>1. ASSUME NEW t \in Terms PROVE Within(s[t], h.known[t])
    <3>1. s[t] \in Int /\ (Within(s[t], f.known[t]) \/ Within(s[t], g.known[t]))
      BY <1>9, StoreIs DEF Admits
    <3>2. Within(s[t], Join(f.known[t], g.known[t]))
      BY <1>4, <3>1, JoinIs
    <3> QED BY <1>3, <3>2
  <2>2. ASSUME NEW p \in E PROVE Within(s[p[1]] - s[p[2]], h.differences[p])
    <3>1. PICK v, D : v = s[p[1]] - s[p[2]] /\ D = Difference(g, p[1], p[2])
      OBVIOUS
    <3>2. v \in Int /\ p[1] \in Terms /\ p[2] \in Terms
      BY <1>7, <3>1, PairHas, NearBy
    <3>3. Within(v, f.differences[p]) \/ Within(v, D)
      <4>1. Admits(f, s) => Within(v, f.differences[p])
        BY <1>7, <3>1 DEF Admits
      <4>2. Admits(g, s) => Within(v, D)
        BY <3>1, <3>2, DifferenceIs
      <4> QED BY <1>9, <4>1, <4>2
    <3>4. f.differences[p] \in Ranges /\ D \in Ranges
      BY <1>6, <1>7, <3>1
    <3>5. Within(v, Join(f.differences[p], D))
      BY <3>2, <3>3, <3>4, JoinIs
    <3>6. h.differences[p] = Join(f.differences[p], D)
      BY <1>1, <1>3, <1>7, <3>1
    <3> QED BY <3>1, <3>5, <3>6
  <2>3. ASSUME NEW p \in Pairs PROVE Within(s[p[1]] + s[p[2]], h.totals[{p[1], p[2]}])
    <3>1. PICK v, c : v = s[p[1]] + s[p[2]] /\ c = {p[1], p[2]}
      OBVIOUS
    <3>2. v \in Int /\ c \in Couples
      BY <3>1, PairHas, NearBy DEF Couples
    <3>3. Within(v, f.totals[c]) \/ Within(v, g.totals[c])
      BY <1>9, <3>1 DEF Admits
    <3>4. Within(v, Join(f.totals[c], g.totals[c]))
      BY <1>5, <3>2, <3>3, JoinIs
    <3> QED BY <1>3, <3>1, <3>2, <3>4
  <2>4. DOMAIN h.differences = E
    BY <1>3
  <2> QED BY <2>1, <2>2, <2>3, <2>4 DEF Admits
<1>10. ASSUME NEW n \in Terms, Silent(f, n) PROVE Silent(h, n)
  <2>1. h.known[n] = Any
    BY <1>3, <1>4, <1>10, JoinIs DEF Silent
  <2>2. \A p \in DOMAIN h.differences : ~About(p, n)
    BY <1>3, <1>7, <1>10 DEF Silent
  <2>3. \A c \in Couples : n \in c => h.totals[c] = Any
    BY <1>3, <1>5, <1>10, JoinIs DEF Silent
  <2> QED BY <2>1, <2>2, <2>3 DEF Silent
<1> QED BY <1>8, <1>9, <1>10

-----------------------------------------------------------------------------
(* What a condition that holds adds *)

LEMMA BoundFromIs ==
    ASSUME NEW op \in DOMAIN Negation, NEW offset \in Ranges, Boundable(op, offset),
           NEW here, here = BoundFrom(op, offset)
    PROVE  /\ here \in Ranges
           /\ \A w, z \in Int : Fits(w) /\ Within(z, offset) /\ Stands(op, w + z, 0) => Within(w, here)
<1>1. PICK low, high : low = offset.low /\ high = offset.high
  OBVIOUS
<1>2. /\ low \in Int /\ high \in Int /\ MinInt < low /\ low <= MaxInt /\ MinInt < high /\ high <= MaxInt
  BY <1>1, RangeIs, Width DEF Boundable
<1>3. op \in {"<", "<=", ">", ">=", "=="}
  BY DEF Boundable, Negation
<1>4. \A z \in Int : Within(z, offset) => low <= z /\ z <= high
  BY <1>1 DEF Within
<1>5. MinInt <= -high /\ -low <= MaxInt /\ MinInt <= -high + 1 /\ -low - 1 <= MaxInt
      /\ -high \in Int /\ -low \in Int /\ -high + 1 \in Int /\ -low - 1 \in Int
  BY <1>2, Width
<1>6. \A w \in Int : Fits(w) => MinInt <= w /\ w <= MaxInt
  BY Width DEF Fits
<1>7. CASE op = "<"
  <2>1. here = Between(MinInt, -low - 1)
    BY <1>1, <1>7 DEF BoundFrom
  <2>2. \A w, z \in Int : Within(z, offset) /\ Stands(op, w + z, 0) => w <= -low - 1
    BY <1>2, <1>4, <1>7 DEF Stands
  <2> QED BY <1>5, <1>6, <2>1, <2>2, BetweenIs, Width
<1>8. CASE op = "<="
  <2>1. here = Between(MinInt, -low)
    BY <1>1, <1>8 DEF BoundFrom
  <2>2. \A w, z \in Int : Within(z, offset) /\ Stands(op, w + z, 0) => w <= -low
    BY <1>2, <1>4, <1>8 DEF Stands
  <2> QED BY <1>5, <1>6, <2>1, <2>2, BetweenIs, Width
<1>9. CASE op = ">"
  <2>1. here = Between(-high + 1, MaxInt)
    BY <1>1, <1>9 DEF BoundFrom
  <2>2. \A w, z \in Int : Within(z, offset) /\ Stands(op, w + z, 0) => -high + 1 <= w
    BY <1>2, <1>4, <1>9 DEF Stands
  <2> QED BY <1>5, <1>6, <2>1, <2>2, BetweenIs, Width
<1>10. CASE op = ">="
  <2>1. here = Between(-high, MaxInt)
    BY <1>1, <1>10 DEF BoundFrom
  <2>2. \A w, z \in Int : Within(z, offset) /\ Stands(op, w + z, 0) => -high <= w
    BY <1>2, <1>4, <1>10 DEF Stands
  <2> QED BY <1>5, <1>6, <2>1, <2>2, BetweenIs, Width
<1>11. CASE op = "=="
  <2>1. here = Between(-high, -low)
    BY <1>1, <1>11 DEF BoundFrom
  <2>2. \A w, z \in Int : Within(z, offset) /\ Stands(op, w + z, 0) => -high <= w /\ w <= -low
    BY <1>2, <1>4, <1>11 DEF Stands
  <2> QED BY <1>5, <2>1, <2>2, BetweenIs, Width
<1> QED BY <1>3, <1>7, <1>8, <1>9, <1>10, <1>11

\* What a form is worth, put where it says something.
LEMMA NarrowFormIs ==
    ASSUME Roomy, NEW f, IsFacts(f), NEW form, NEW free, Shaped(form, free), NEW here \in Ranges,
           NEW g, g = NarrowForm(f, form, here)
    PROVE  /\ IsFacts(g)
           /\ \A s \in Stores : \A B \in Weights : \A X :
                 Admits(f, s) /\ CountsAs(form, B, X) /\ Within(Worth(B, X, s), here) => Admits(g, s)
           /\ \A n \in free : n \in Terms /\ Silent(f, n) => Silent(g, n)
<1>1. form.count \in [Terms -> Int] /\ \A t \in Counted(form) : t \in Terms /\ t \notin free
  BY DEF Shaped, IsForm, Counted
<1>2. CASE NameOf(form) # {}
  <2>1. PICK t, k : t = The(NameOf(form)) /\ k = form.count[t]
    OBVIOUS
  <2>2. t \in Counted(form)
    BY <1>2, <2>1, ChosenIs DEF NameOf
  <2>3. t \in Terms /\ t \notin free /\ k \in Int /\ k # 0
    BY <1>1, <2>1, <2>2 DEF Counted
  <2>4. ASSUME NEW s \in Stores, NEW B \in Weights, NEW X, CountsAs(form, B, X)
        PROVE  Worth(B, X, s) = k * s[t]
    BY <1>2, <2>1, <2>4, NameIs, StoreIs
  <2>5. CASE here # Empty /\ ~Divisible(here, k)
    <3>1. g = f
      BY <1>2, <2>1, <2>5 DEF NarrowForm
    <3> QED BY <3>1
  <2>6. CASE ~(here # Empty /\ ~Divisible(here, k))
    <3>1. PICK r : r = Divided(here, k)
      OBVIOUS
    <3>2. r \in Ranges /\ \A d \in Int : Fits(d) /\ Within(k * d, here) => Within(d, r)
      BY <2>3, <2>6, <3>1, DividedIs
    <3>3. g = Tighten(f, t, r)
      BY <1>2, <2>1, <2>6, <3>1 DEF NarrowForm
    <3>4. \A s \in Stores : s[t] \in Int /\ Fits(s[t])
      BY <2>3, NearBy
    <3>5. /\ IsFacts(g)
          /\ \A s \in Stores : Admits(f, s) /\ Within(s[t], r) => Admits(g, s)
          /\ \A n \in Terms : n # t /\ Silent(f, n) => Silent(g, n)
      BY <2>3, <3>2, <3>3, TightenIs
    <3>6. ASSUME NEW s \in Stores, NEW B \in Weights, NEW X,
                 Admits(f, s), CountsAs(form, B, X), Within(Worth(B, X, s), here)
          PROVE  Admits(g, s)
      <4>1. Within(k * s[t], here)
        BY <2>4, <3>6
      <4> QED BY <3>2, <3>4, <3>5, <3>6, <4>1
    <3> QED BY <2>3, <3>5, <3>6
  <2> QED BY <2>5, <2>6
<1>3. CASE NameOf(form) = {} /\ PairOf(form) # {}
  <2>1. PICK p : p = The(PairOf(form))
    OBVIOUS
  <2>2. p \in Counted(form) \X Counted(form)
    BY <1>3, <2>1, ChosenIs DEF PairOf
  <2>3. PICK a, b : a = p[1] /\ b = p[2]
    OBVIOUS
  <2>4. a \in Terms /\ b \in Terms /\ a \notin free /\ b \notin free
    BY <1>1, <2>2, <2>3
  <2>5. g = TightenDifference(f, a, b, here)
    BY <1>3, <2>1, <2>3 DEF NarrowForm
  <2>6. /\ IsFacts(g)
        /\ \A s \in Stores : Admits(f, s) /\ Within(s[a] - s[b], here) => Admits(g, s)
        /\ \A n : n # a /\ n # b /\ Silent(f, n) => Silent(g, n)
    BY <2>4, <2>5, TightenDifferenceIs
  <2>7. ASSUME NEW s \in Stores, NEW B \in Weights, NEW X, CountsAs(form, B, X)
        PROVE  Worth(B, X, s) = s[a] - s[b]
    BY <1>3, <2>1, <2>3, <2>7, PairIs, StoreIs
  <2> QED BY <2>4, <2>6, <2>7
<1>4. CASE NameOf(form) = {} /\ PairOf(form) = {} /\ CoupleOf(form) # {}
  <2>1. PICK c : c = The(CoupleOf(form))
    OBVIOUS
  <2>2. c = Counted(form) /\ c \in Couples
    BY <1>4, <2>1, ChosenIs DEF CoupleOf
  <2>3. PICK a \in Terms, b \in Terms : a # b /\ c = {a, b}
    <3>1. PICK p \in Pairs : c = {p[1], p[2]}
      BY <2>2 DEF Couples
    <3> QED BY <3>1, PairHas
  <2>4. a \notin free /\ b \notin free
    BY <1>1, <2>2, <2>3
  <2>5. g = NarrowTotal(f, {a, b}, here)
    BY <1>4, <2>1, <2>3 DEF NarrowForm
  <2>6. /\ IsFacts(g)
        /\ \A s \in Stores : Admits(f, s) /\ Within(s[a] + s[b], here) => Admits(g, s)
        /\ \A n \in Terms : n # a /\ n # b /\ Silent(f, n) => Silent(g, n)
    BY <2>3, <2>5, NarrowTotalIs
  <2>7. ASSUME NEW s \in Stores, NEW B \in Weights, NEW X, CountsAs(form, B, X)
        PROVE  Worth(B, X, s) = s[a] + s[b]
    <3>1. PICK q \in Pairs : c = {q[1], q[2]} /\ Worth(B, X, s) = s[q[1]] + s[q[2]]
      BY <1>4, <2>1, <2>7, CoupleIs, StoreIs
    <3>2. s[a] \in Int /\ s[b] \in Int
      BY StoreIs
    <3>3. (q[1] = a /\ q[2] = b) \/ (q[1] = b /\ q[2] = a)
      BY <2>3, <3>1, PairHas
    <3>4. s[b] + s[a] = s[a] + s[b]
      BY <3>2
    <3>5. CASE q[1] = a /\ q[2] = b
      BY <3>1, <3>5
    <3>6. CASE q[1] = b /\ q[2] = a
      <4>1. s[q[1]] = s[b] /\ s[q[2]] = s[a]
        BY <3>6
      <4> QED BY <3>1, <3>4, <4>1
    <3> QED BY <3>3, <3>5, <3>6
  <2> QED BY <2>4, <2>6, <2>7
<1>5. CASE NameOf(form) = {} /\ PairOf(form) = {} /\ CoupleOf(form) = {}
  <2>1. g = f
    BY <1>5 DEF NarrowForm
  <2> QED BY <2>1
<1> QED BY <1>2, <1>3, <1>4, <1>5

LEMMA NarrowBoundIs ==
    ASSUME Roomy, NEW f, IsFacts(f), NEW free, NEW c, Readable(c, free), NEW g, g = NarrowBound(f, c)
    PROVE  /\ IsFacts(g)
           /\ \A s : Proper(s, free) /\ Admits(f, s) /\ True(c, s) => Admits(g, s)
           /\ \A n \in free : n \in Terms /\ Silent(f, n) => Silent(g, n)
<1>1. PICK form, op : form = Form(c) /\ op = c.op
  OBVIOUS
<1>2. Shaped(form, free) /\ form.offset \in Ranges
  BY <1>1, FormShaped DEF Shaped, IsForm
<1>3. op \in DOMAIN Negation
  BY <1>1 DEF Readable, Comparisons
<1>4. CASE ~Boundable(op, form.offset)
  <2>1. g = f
    BY <1>1, <1>4 DEF NarrowBound
  <2> QED BY <2>1
<1>5. CASE Boundable(op, form.offset)
  <2>1. PICK here : here = BoundFrom(op, form.offset)
    OBVIOUS
  <2>2. /\ here \in Ranges
        /\ \A w, z \in Int : Fits(w) /\ Within(z, form.offset) /\ Stands(op, w + z, 0) => Within(w, here)
    BY <1>2, <1>3, <1>5, <2>1, BoundFromIs
  <2>3. g = NarrowForm(f, form, here)
    BY <1>1, <1>5, <2>1 DEF NarrowBound
  <2>4. /\ IsFacts(g)
        /\ \A s \in Stores : \A B \in Weights : \A X :
              Admits(f, s) /\ CountsAs(form, B, X) /\ Within(Worth(B, X, s), here) => Admits(g, s)
        /\ \A n \in free : n \in Terms /\ Silent(f, n) => Silent(g, n)
    BY <1>2, <2>2, <2>3, NarrowFormIs
  <2>5. ASSUME NEW s, Proper(s, free), Admits(f, s), True(c, s) PROVE Admits(g, s)
    <3>1. PICK l, r : l = Value(c.l, s) /\ r = Value(c.r, s)
      OBVIOUS
    <3>2. Means(form, s, l - r, free) /\ l \in Int /\ r \in Int
      BY <1>1, <2>5, <3>1, FormMeans DEF Difference2
    <3>3. PICK B \in Weights, X \in [1 .. 4 -> Names], z \in Int :
             /\ CountsAs(form, B, X) /\ Within(z, form.offset) /\ Fits(Worth(B, X, s))
             /\ l - r = Worth(B, X, s) + z
      BY <3>2 DEF Means
    <3>4. PICK w : w = Worth(B, X, s)
      OBVIOUS
    <3>5. w \in Int
      BY <3>3, <3>4, Width DEF Fits
    <3>6. Stands(op, l, r)
      BY <1>1, <2>5, <3>1 DEF True, Stands
    <3>7. w + z = l - r
      BY <3>3, <3>4
    <3>8. Stands(op, w + z, 0)
      <4>1. op \in {"<", "<=", ">", ">=", "==", "!="}
        BY <1>3 DEF Negation
      <4>2. CASE op = "<"
        BY <3>2, <3>5, <3>6, <3>7, <4>2 DEF Stands
      <4>3. CASE op = "<="
        BY <3>2, <3>5, <3>6, <3>7, <4>3 DEF Stands
      <4>4. CASE op = ">"
        BY <3>2, <3>5, <3>6, <3>7, <4>4 DEF Stands
      <4>5. CASE op = ">="
        BY <3>2, <3>5, <3>6, <3>7, <4>5 DEF Stands
      <4>6. CASE op = "=="
        BY <3>2, <3>5, <3>6, <3>7, <4>6 DEF Stands
      <4>7. CASE op = "!="
        BY <1>5, <4>7 DEF Boundable
      <4> QED BY <4>1, <4>2, <4>3, <4>4, <4>5, <4>6, <4>7
    <3>9. Within(w, here)
      BY <2>2, <3>3, <3>4, <3>5, <3>8
    <3>10. s \in Stores
      BY <2>5 DEF Proper
    <3> QED BY <2>4, <2>5, <3>3, <3>4, <3>9, <3>10
  <2> QED BY <2>4, <2>5
<1> QED BY <1>4, <1>5

LEMMA RuleOutIs ==
    ASSUME NEW f, IsFacts(f), NEW t \in Terms, NEW value \in Ranges, NEW g, g = RuleOut(f, t, value)
    PROVE  /\ IsFacts(g)
           /\ \A s \in Stores : \A v \in Int : Admits(f, s) /\ Within(v, value) /\ s[t] # v => Admits(g, s)
           /\ \A n \in Terms : n # t /\ Silent(f, n) => Silent(g, n)
<1>1. PICK known : known = f.known[t]
  OBVIOUS
<1>2. known \in Ranges
  BY <1>1 DEF IsFacts
<1>3. PICK low, high : low = known.low /\ high = known.high
  OBVIOUS
<1>4. low \in Int /\ high \in Int /\ MinInt <= low /\ high <= MaxInt
  BY <1>2, <1>3, RangeIs
<1>5. value.low \in Int /\ value.high \in Int
  BY RangeIs
<1>6. ASSUME NEW s \in Stores, NEW v \in Int, Admits(f, s), Within(v, value), s[t] # v, value.low = value.high
      PROVE  /\ s[t] \in Int /\ v = value.low /\ v = value.high
             /\ low <= s[t] /\ s[t] <= high /\ s[t] # value.low /\ s[t] # value.high
  <2>1. s[t] \in Int
    BY StoreIs
  <2>2. v = value.low /\ v = value.high
    BY <1>5, <1>6 DEF Within
  <2>3. Within(s[t], known)
    BY <1>1, <1>6 DEF Admits
  <2> QED BY <1>3, <1>6, <2>1, <2>2, <2>3 DEF Within
<1>7. CASE value = Empty \/ value.low # value.high \/ known = Empty \/ ~(value.low = low \/ value.high = high)
  <2>1. g = f
    BY <1>1, <1>3, <1>7 DEF RuleOut
  <2> QED BY <2>1
<1>8. CASE value.low = value.high /\ value # Empty /\ known # Empty /\ value.low = low
  <2>1. PICK r : r = Between(low + 1, high)
    OBVIOUS
  <2>2. r \in Ranges /\ \A v \in Int : Within(v, r) <=> low + 1 <= v /\ v <= high
    BY <1>4, <2>1, BetweenIs, Width
  <2>3. g = Tighten(f, t, r)
    BY <1>1, <1>3, <1>8, <2>1 DEF RuleOut
  <2>4. \A s \in Stores : \A v \in Int : Admits(f, s) /\ Within(v, value) /\ s[t] # v => Within(s[t], r)
    BY <1>4, <1>6, <1>8, <2>2
  <2> QED BY <2>2, <2>3, <2>4, TightenIs
<1>9. CASE value.low = value.high /\ value # Empty /\ known # Empty /\ value.low # low /\ value.high = high
  <2>1. PICK r : r = Between(low, high - 1)
    OBVIOUS
  <2>2. r \in Ranges /\ \A v \in Int : Within(v, r) <=> low <= v /\ v <= high - 1
    BY <1>4, <2>1, BetweenIs, Width
  <2>3. g = Tighten(f, t, r)
    BY <1>1, <1>3, <1>9, <2>1 DEF RuleOut
  <2>4. \A s \in Stores : \A v \in Int : Admits(f, s) /\ Within(v, value) /\ s[t] # v => Within(s[t], r)
    BY <1>4, <1>6, <1>9, <2>2
  <2> QED BY <2>2, <2>3, <2>4, TightenIs
<1> QED BY <1>7, <1>8, <1>9

LEMMA NamedIs ==
    ASSUME NEW e, Named(e), NEW s \in Stores
    PROVE  Value(e, s) = s[e.l.of]
<1>1. PICK t : t = e.l.of
  OBVIOUS
<1>2. t \in Terms /\ e.op = "only" /\ e.l.by = 1
  BY <1>1 DEF Named
<1>3. t # One
  BY <1>2, OneIsNoName
<1>4. PICK w \in Int : w = s[t]
  BY <1>2, StoreIs
<1>5. Value(e, s) = 1 * w
  BY <1>1, <1>2, <1>3, <1>4 DEF Value, Operand
<1>6. 1 * w = w
  BY <1>4
<1> QED BY <1>1, <1>4, <1>5, <1>6

LEMMA BelowIs ==
    ASSUME Roomy, NEW a \in Terms, NEW b \in Terms, NEW r, r = Between(MinInt, -1)
    PROVE  r \in Ranges /\ \A s \in Stores : s[a] < s[b] => Within(s[a] - s[b], r)
<1>1. PICK one : one = -1
  OBVIOUS
<1>2. one \in Int /\ one <= MaxInt
  BY <1>1, Width
<1>3. r \in Ranges /\ \A v \in Int : Within(v, r) <=> MinInt <= v /\ v <= one
  BY <1>1, <1>2, BetweenIs, Width
<1>4. ASSUME NEW s \in Stores, s[a] < s[b] PROVE Within(s[a] - s[b], r)
  <2>1. PICK x \in Int, y \in Int : x = s[a] /\ y = s[b]
    BY StoreIs
  <2>2. PICK v \in Int : v = x - y
    BY <2>1
  <2>3. Fits(v)
    BY <2>1, <2>2, NearBy
  <2>4. v <= one
    BY <1>1, <1>4, <2>1, <2>2
  <2> QED BY <1>3, <2>1, <2>2, <2>3, <2>4, Width DEF Fits
<1> QED BY <1>3, <1>4

\* A reading of a condition that holds keeps what the facts admit.
LEMMA ReadIs ==
    ASSUME Roomy, NEW f, NEW free, free \subseteq Terms, Untouched(f, free), NEW reading, Said(reading, free),
           reading.for \in {"bound", "rule out", "below"}, NEW g, g = Read(f, reading)
    PROVE  /\ Untouched(g, free)
           /\ \A s : Proper(s, free) /\ Admits(f, s) /\ Told(reading, s) => Admits(g, s)
<1>1. IsFacts(f) /\ \A n \in free : n \in Terms /\ Silent(f, n)
  BY DEF Untouched
<1>2. CASE reading.for = "bound"
  <2>1. g = NarrowBound(f, reading.of) /\ Readable(reading.of, free) /\ \A s : Told(reading, s) => True(reading.of, s)
    BY <1>2 DEF Read, Said, Told
  <2> QED BY <1>1, <2>1, NarrowBoundIs DEF Untouched
<1>3. CASE reading.for = "rule out"
  <2>1. PICK c, t : c = reading.of /\ t = c.l.l.of
    OBVIOUS
  <2>2. PICK value : value = RangeOf(c.r, f)
    OBVIOUS
  <2>3. /\ g = RuleOut(f, t, value)
        /\ Readable(c, free) /\ Named(c.l) /\ c.op = "!=" /\ \A s : Told(reading, s) => True(c, s)
    BY <1>3, <2>1, <2>2 DEF Read, Said, Told
  <2>4. t \in Terms /\ t \notin free /\ c.r \in Expressions /\ Bound(c.r, free)
    BY <2>1, <2>3 DEF Named, Readable, Bound, Comparisons
  <2>5. value \in Ranges
    BY <1>1, <2>2, <2>4, RangeOfRanges
  <2>6. /\ IsFacts(g)
        /\ \A s \in Stores : \A v \in Int : Admits(f, s) /\ Within(v, value) /\ s[t] # v => Admits(g, s)
        /\ \A n \in Terms : n # t /\ Silent(f, n) => Silent(g, n)
    BY <1>1, <2>3, <2>4, <2>5, RuleOutIs
  <2>7. ASSUME NEW s, Proper(s, free), Admits(f, s), Told(reading, s) PROVE Admits(g, s)
    <3>1. s \in Stores
      BY <2>7 DEF Proper
    <3>2. PICK v : v = Value(c.r, s)
      OBVIOUS
    <3>3. v \in Int /\ Room(Weight(c.r))
      BY <2>3, <2>7, <3>2, FormMeans
    <3>4. Within(v, value)
      BY <1>1, <2>2, <2>4, <2>7, <3>2, <3>3, RangeOfIs
    <3>5. Value(c.l, s) = s[t]
      BY <2>1, <2>3, <2>4, <3>1, NamedIs
    <3>6. s[t] # v
      <4>1. True(c, s)
        BY <2>3, <2>7
      <4> QED BY <2>3, <3>2, <3>5, <4>1 DEF True
    <3> QED BY <2>6, <2>7, <3>1, <3>3, <3>4, <3>6
  <2>8. \A n \in free : Silent(g, n)
    BY <1>1, <2>4, <2>6
  <2> QED BY <2>6, <2>7, <2>8 DEF Untouched
<1>4. CASE reading.for = "below"
  <2>1. PICK a, b : a = reading.index /\ b = reading.length
    OBVIOUS
  <2>2. PICK r : r = Between(MinInt, -1)
    OBVIOUS
  <2>3. /\ g = TightenDifference(f, a, b, r) /\ \A s : Told(reading, s) => s[a] < s[b]
        /\ a \in Terms /\ b \in Terms /\ a \notin free /\ b \notin free
    BY <1>4, <2>1, <2>2 DEF Read, Said, Told
  <2>4. r \in Ranges /\ \A s \in Stores : s[a] < s[b] => Within(s[a] - s[b], r)
    BY <2>2, <2>3, BelowIs
  <2>5. /\ IsFacts(g)
        /\ \A s \in Stores : Admits(f, s) /\ Within(s[a] - s[b], r) => Admits(g, s)
        /\ \A n : n # a /\ n # b /\ Silent(f, n) => Silent(g, n)
    BY <1>1, <2>3, <2>4, TightenDifferenceIs
  <2>7. \A n \in free : Silent(g, n)
    BY <1>1, <2>3, <2>5
  <2> QED BY <2>3, <2>4, <2>5, <2>7 DEF Untouched, Proper
<1> QED BY <1>2, <1>3, <1>4

-----------------------------------------------------------------------------
(* Settling *)

LEMMA Smallest ==
    ASSUME NEW S, S \subseteq Nat, S # {}
    PROVE  \E x \in S : \A y \in S : x <= y
<1> DEFINE R == {ss \in Nat \X Nat : ss[1] < ss[2]}
<1>1. IsWellFoundedOn(R, Nat)
  BY NatLessThanWellFounded DEF OpToRel
<1>2. \A x, y \in S : y < x => <<y, x>> \in R
  OBVIOUS
<1> HIDE DEF R
<1>3. PICK x \in S : \A y \in S : ~(<<y, x>> \in R)
  BY <1>1, WFMin
<1>4. ASSUME NEW y \in S PROVE x <= y
  <2>1. x \in Nat /\ y \in Nat /\ ~(y < x)
    BY <1>2, <1>3
  <2> QED BY <2>1
<1> QED BY <1>4

\* A set of numbers with a bound has a greatest.
LEMMA Greatest ==
    ASSUME NEW n \in Nat, NEW S, S \subseteq 1..n, S # {}
    PROVE  \E x \in S : \A y \in S : y <= x
<1> DEFINE Bounds == {m \in Nat : \A k \in S : k <= m}
<1>1. Bounds \subseteq Nat /\ n \in Bounds
  OBVIOUS
<1>2. PICK m \in Bounds : \A b \in Bounds : m <= b
  BY <1>1, Smallest
<1>3. m \in S
  <2> SUFFICES ASSUME m \notin S PROVE FALSE
    OBVIOUS
  <2>1. \A k \in S : k \in Nat /\ k >= 1 /\ k <= m /\ k # m
    BY <1>2
  <2>2. PICK k \in S : TRUE
    OBVIOUS
  <2>3. m \in Nat /\ m - 1 \in Nat
    BY <2>1, <2>2
  <2>4. \A j \in S : j <= m - 1
    BY <2>1, <2>3
  <2>5. m - 1 \in Bounds
    BY <2>3, <2>4
  <2>6. m <= m - 1
    BY <1>2, <2>5
  <2> QED BY <2>3, <2>6
<1>4. \A y \in S : y <= m
  BY <1>2
<1> QED BY <1>3, <1>4

\* What is kept of a list is numbered from one, without a gap.
LEMMA Numbered ==
    ASSUME NEW n \in Nat, NEW kept, kept \subseteq 1..n, NEW k \in 1..Cardinality(kept)
    PROVE  \E i \in kept : Cardinality({j \in kept : j <= i}) = k
<1> DEFINE UpTo(i) == {j \in kept : j <= i}
           Big == {i \in kept : Cardinality(UpTo(i)) >= k}
<1>1. IsFiniteSet(kept) /\ Cardinality(kept) \in Nat
  <2>1. IsFiniteSet(1..n)
    BY FS_Interval
  <2> QED BY <2>1, FS_Subset, FS_CardinalityType
<1>2. \A S \in SUBSET kept : IsFiniteSet(S) /\ Cardinality(S) \in Nat
  BY <1>1, FS_Subset, FS_CardinalityType
<1>3. kept # {} /\ kept \subseteq Nat /\ k \in Nat /\ k >= 1
  <2>1. kept # {}
    BY <1>1, FS_EmptySet
  <2> QED BY <1>1, <2>1
<1>4. Big # {}
  <2>1. PICK g \in kept : \A y \in kept : y <= g
    BY <1>3, Greatest
  <2>2. UpTo(g) = kept
    BY <2>1
  <2>3. Cardinality(kept) >= k
    BY <1>1
  <2> QED BY <2>1, <2>2, <2>3
<1>5. PICK i \in Big : \A y \in Big : i <= y
  <2>1. Big \subseteq Nat
    BY <1>3
  <2> HIDE DEF Big
  <2> QED BY <1>4, <2>1, Smallest
<1>6. i \in kept /\ Cardinality(UpTo(i)) >= k /\ i \in UpTo(i)
  BY <1>3, <1>5
<1>7. Cardinality(UpTo(i)) \in Nat /\ IsFiniteSet(UpTo(i))
  BY <1>2
<1>8. ~(Cardinality(UpTo(i)) > k)
  <2> SUFFICES ASSUME Cardinality(UpTo(i)) > k PROVE FALSE
    OBVIOUS
  <2> DEFINE W == UpTo(i) \ {i}
  <2>1. Cardinality(W) = Cardinality(UpTo(i)) - 1
    BY <1>6, <1>7, FS_RemoveElement
  <2>2. Cardinality(W) >= k /\ W \subseteq kept
    BY <1>3, <1>7, <2>1
  <2>3. W # {}
    BY <1>3, <2>2, FS_EmptySet
  <2>4. W \subseteq 1..n
    OBVIOUS
  <2>5. PICK g \in W : \A y \in W : y <= g
    <3> HIDE DEF W
    <3> QED BY <2>3, <2>4, Greatest
  <2>6. g \in kept /\ g \in Nat /\ i \in Nat /\ g < i
    BY <1>3, <1>6, <2>5
  <2>7. UpTo(g) = W
    <3>1. \A j \in kept : j \in Nat
      BY <1>3
    <3>2. \A j \in kept : j <= g => j \in W
      BY <2>6, <3>1
    <3>3. \A j \in W : j \in kept /\ j <= g
      BY <2>5
    <3> QED BY <3>2, <3>3
  <2>8. g \in Big
    BY <2>2, <2>6, <2>7
  <2> QED BY <1>5, <2>6, <2>8
<1>9. Cardinality(UpTo(i)) = k
  <2> HIDE DEF UpTo, Big
  <2> QED BY <1>3, <1>6, <1>7, <1>8
<1> QED BY <1>6, <1>9

LEMMA ListedIs ==
    ASSUME NEW f, order \in Orders
    PROVE  /\ Len(Listed(f)) \in Nat
           /\ \A k \in 1 .. Len(Listed(f)) : Listed(f)[k] \in DOMAIN f.differences
<1>1. PICK n, kept : n = Len(order) /\ kept = {i \in DOMAIN order : order[i] \in DOMAIN f.differences}
  OBVIOUS
<1>2. n \in Nat /\ DOMAIN order = 1 .. n
  BY <1>1, WidthAssumption
<1>3. kept \subseteq 1 .. n
  BY <1>1, <1>2
<1>4. Cardinality(kept) \in Nat
  <2>1. IsFiniteSet(1 .. n)
    BY <1>2, FS_Interval
  <2> QED BY <1>3, <2>1, FS_Subset, FS_CardinalityType
<1>5. PICK m : m = Cardinality(kept)
  OBVIOUS
<1>6. PICK list : list = [k \in 1 .. m |-> order[CHOOSE i \in kept : Cardinality({j \in kept : j <= i}) = k]]
  OBVIOUS
<1>7. Listed(f) = list
  BY <1>1, <1>5, <1>6 DEF Listed
<1>8. Len(list) = m
  BY <1>4, <1>5, <1>6
<1>9. ASSUME NEW k \in 1 .. m PROVE list[k] \in DOMAIN f.differences
  <2>1. \E i \in kept : Cardinality({j \in kept : j <= i}) = k
    BY <1>2, <1>3, <1>5, <1>9, Numbered
  <2>2. PICK i : i = (CHOOSE h \in kept : Cardinality({j \in kept : j <= h}) = k)
    OBVIOUS
  <2>3. i \in kept
    BY <2>1, <2>2
  <2>4. list[k] = order[i]
    BY <1>6, <1>9, <2>2
  <2> QED BY <1>1, <2>3, <2>4
<1> QED BY <1>4, <1>5, <1>7, <1>8, <1>9

Todo(m) == 3 * m + m * m

\* A round of settling that every store of S bears out.
Rounding(st, free, S) ==
    /\ DOMAIN st = {"round", "entries", "was", "at", "changed"}
    /\ st.round \in 1 .. Rounds /\ Len(st.entries) \in Nat
    /\ st.at \in 1 .. Todo(Len(st.entries)) + 1
    /\ DOMAIN st.was \subseteq Pairs /\ st.was \in [DOMAIN st.was -> Ranges]
    /\ \A i \in 1 .. Len(st.entries) : st.entries[i] \in DOMAIN st.was
    /\ \A p \in DOMAIN st.was : /\ p[1] \notin free /\ p[2] \notin free
                                /\ \A s \in S : Within(s[p[1]] - s[p[2]], st.was[p])

Settled(st, free, S) == st = Still \/ Rounding(st, free, S)

LEMMA TodoIs == ASSUME NEW m \in Nat PROVE Todo(m) \in Nat
<1>1. m * m \in Nat
  OBVIOUS
<1> QED BY <1>1 DEF Todo

LEMMA RoundIs ==
    ASSUME order \in Orders, NEW f, NEW free, Untouched(f, free), NEW S, \A s \in S : Admits(f, s),
           NEW n \in 1 .. Rounds, NEW st, st = Round(n, f)
    PROVE  Rounding(st, free, S)
<1>1. /\ DOMAIN st = {"round", "entries", "was", "at", "changed"}
      /\ st.round = n /\ st.entries = Listed(f) /\ st.was = f.differences /\ st.at = 1
  BY DEF Round
<1>2. DOMAIN f.differences \subseteq Pairs /\ f.differences \in [DOMAIN f.differences -> Ranges]
  BY DEF Untouched, IsFacts
<1>3. ASSUME NEW p \in DOMAIN f.differences PROVE p[1] \notin free /\ p[2] \notin free
  BY DEF Untouched, Silent, About
<1>4. \A p \in DOMAIN f.differences : \A s \in S : Within(s[p[1]] - s[p[2]], f.differences[p])
  BY DEF Admits
<1>5. Len(Listed(f)) \in Nat /\ \A k \in 1 .. Len(Listed(f)) : Listed(f)[k] \in DOMAIN f.differences
  BY ListedIs
<1>6. 1 \in 1 .. Todo(Len(Listed(f))) + 1
  <2>1. PICK t \in Nat : t = Todo(Len(Listed(f)))
    BY <1>5, TodoIs
  <2> QED BY <2>1
<1> QED BY <1>1, <1>2, <1>3, <1>4, <1>5, <1>6 DEF Rounding

LEMMA SettlingIs ==
    ASSUME order \in Orders, NEW f, NEW free, Untouched(f, free), NEW S, \A s \in S : Admits(f, s)
    PROVE  Settled(Settling(f), free, S)
<1>1. 1 \in 1 .. Rounds
  BY DEF Rounds
<1>2. Rounding(Round(1, f), free, S)
  BY <1>1, RoundIs
<1> QED BY <1>2 DEF Settling, Settled

LEMMA FromOneIs ==
    ASSUME Roomy, NEW f, NEW free, free \subseteq Terms, Untouched(f, free), NEW S, S \subseteq Stores,
           Rounding(settle, free, S), NEW p \in DOMAIN settle.was, NEW kind \in 0 .. 2,
           NEW g, g = FromOne(f, p, kind)
    PROVE  Untouched(g, free) /\ \A s \in S : Admits(f, s) => Admits(g, s)
<1>1. PICK a, b, d : a = p[1] /\ b = p[2] /\ d = settle.was[p]
  OBVIOUS
<1>2. /\ a \in Terms /\ b \in Terms /\ a \notin free /\ b \notin free /\ d \in Ranges
      /\ \A s \in S : Within(s[a] - s[b], d)
  <2>1. p \in Pairs /\ settle.was[p] \in Ranges
    BY DEF Rounding
  <2> QED BY <1>1, <2>1, PairHas DEF Rounding
<1>3. IsFacts(f) /\ f.known[a] \in Ranges /\ f.known[b] \in Ranges
  BY <1>2 DEF Untouched, IsFacts
<1>4. ASSUME NEW s \in S, Admits(f, s)
      PROVE  /\ s[a] \in Int /\ s[b] \in Int /\ Fits(s[a]) /\ Fits(s[b]) /\ Fits(s[a] - s[b]) /\ Fits(s[b] - s[a])
             /\ Within(s[a], f.known[a]) /\ Within(s[b], f.known[b])
  BY <1>2, <1>4, NearBy DEF Admits
<1>5. CASE kind = 0
  <2>1. PICK r : r = Add(f.known[b], d)
    OBVIOUS
  <2>2. r \in Ranges /\ \A v, w \in Int : Within(v, f.known[b]) /\ Within(w, d) /\ Fits(v + w) => Within(v + w, r)
    BY <1>2, <1>3, <2>1, AddIs
  <2>3. g = Tighten(f, a, r)
    BY <1>1, <1>5, <2>1 DEF FromOne
  <2>4. ASSUME NEW s \in S, Admits(f, s) PROVE Within(s[a], r)
    <3>1. PICK v \in Int, w \in Int : v = s[b] /\ w = s[a] - s[b] /\ v + w = s[a]
      BY <1>4, <2>4
    <3>2. Within(v, f.known[b]) /\ Within(w, d) /\ Fits(v + w)
      BY <1>2, <1>4, <2>4, <3>1
    <3> QED BY <2>2, <3>1, <3>2
  <2>5. /\ IsFacts(g)
        /\ \A s \in Stores : Admits(f, s) /\ Within(s[a], r) => Admits(g, s)
        /\ \A n \in Terms : n # a /\ Silent(f, n) => Silent(g, n)
    BY <1>2, <1>3, <2>2, <2>3, TightenIs
  <2> QED BY <1>2, <2>4, <2>5 DEF Untouched
<1>6. CASE kind = 1
  <2>1. PICK z, m : z = Exactly(0) /\ m = Spread(z, d)
    OBVIOUS
  <2>2. z \in Ranges /\ Within(0, z)
    BY <2>1, ExactlyIs, Width DEF Fits
  <2>3. m \in Ranges /\ \A v, w \in Int : Within(v, z) /\ Within(w, d) /\ Fits(v - w) => Within(v - w, m)
    BY <1>2, <2>1, <2>2, SpreadIs
  <2>4. PICK r : r = Add(f.known[a], m)
    OBVIOUS
  <2>5. r \in Ranges /\ \A v, w \in Int : Within(v, f.known[a]) /\ Within(w, m) /\ Fits(v + w) => Within(v + w, r)
    BY <1>3, <2>3, <2>4, AddIs
  <2>6. g = Tighten(f, b, r)
    BY <1>1, <1>6, <2>1, <2>4 DEF FromOne
  <2>7. ASSUME NEW s \in S, Admits(f, s) PROVE Within(s[b], r)
    <3>1. PICK v \in Int, w \in Int : v = s[a] /\ w = s[a] - s[b] /\ 0 - w = s[b] - s[a] /\ v + (0 - w) = s[b]
      BY <1>4, <2>7
    <3>2. Within(v, f.known[a]) /\ Within(w, d) /\ Fits(0 - w) /\ Fits(v + (0 - w))
      BY <1>2, <1>4, <2>7, <3>1
    <3>3. Within(0 - w, m)
      BY <2>2, <2>3, <3>2
    <3>4. 0 - w \in Int
      BY <3>1
    <3>5. Within(v + (0 - w), r)
      BY <2>5, <3>2, <3>3, <3>4
    <3> QED BY <3>1, <3>5
  <2>8. /\ IsFacts(g)
        /\ \A s \in Stores : Admits(f, s) /\ Within(s[b], r) => Admits(g, s)
        /\ \A n \in Terms : n # b /\ Silent(f, n) => Silent(g, n)
    BY <1>2, <1>3, <2>5, <2>6, TightenIs
  <2> QED BY <1>2, <2>7, <2>8 DEF Untouched
<1>7. CASE kind = 2
  <2>1. PICK r : r = Spread(f.known[a], f.known[b])
    OBVIOUS
  <2>2. r \in Ranges /\ \A v, w \in Int : Within(v, f.known[a]) /\ Within(w, f.known[b]) /\ Fits(v - w) => Within(v - w, r)
    BY <1>3, <2>1, SpreadIs
  <2>3. g = TightenDifference(f, a, b, r)
    BY <1>1, <1>7, <2>1 DEF FromOne
  <2>4. \A s \in S : Admits(f, s) => Within(s[a] - s[b], r)
    BY <1>4, <2>2
  <2>5. /\ IsFacts(g)
        /\ \A s \in Stores : Admits(f, s) /\ Within(s[a] - s[b], r) => Admits(g, s)
        /\ \A n : n # a /\ n # b /\ Silent(f, n) => Silent(g, n)
    BY <1>2, <1>3, <2>2, <2>3, TightenDifferenceIs
  <2> QED BY <1>2, <2>4, <2>5 DEF Untouched
<1>8. kind = 0 \/ kind = 1 \/ kind = 2
  OBVIOUS
<1> QED BY <1>5, <1>6, <1>7, <1>8

LEMMA FromTwoIs ==
    ASSUME Roomy, NEW f, NEW free, free \subseteq Terms, Untouched(f, free), NEW S, S \subseteq Stores,
           Rounding(settle, free, S), NEW p \in DOMAIN settle.was, NEW q \in DOMAIN settle.was,
           NEW g, g = FromTwo(f, p, q)
    PROVE  Untouched(g, free) /\ \A s \in S : Admits(f, s) => Admits(g, s)
<1>1. PICK a, b, c, d, e : a = p[1] /\ b = p[2] /\ c = q[2] /\ d = settle.was[p] /\ e = settle.was[q]
  OBVIOUS
<1>2. /\ a \in Terms /\ b \in Terms /\ c \in Terms /\ a \notin free /\ c \notin free
      /\ d \in Ranges /\ e \in Ranges
  <2>1. p \in Pairs /\ settle.was[p] \in Ranges /\ q \in Pairs /\ settle.was[q] \in Ranges
    BY DEF Rounding
  <2> QED BY <1>1, <2>1, PairHas DEF Rounding
<1>3. CASE ~(p[2] = q[1] /\ p[1] # q[2])
  <2>1. g = f
    BY <1>3 DEF FromTwo
  <2> QED BY <2>1
<1>4. CASE p[2] = q[1] /\ p[1] # q[2]
  <2>1. PICK r : r = Add(d, e)
    OBVIOUS
  <2>2. r \in Ranges /\ \A v, w \in Int : Within(v, d) /\ Within(w, e) /\ Fits(v + w) => Within(v + w, r)
    BY <1>2, <2>1, AddIs
  <2>3. g = TightenDifference(f, a, c, r)
    BY <1>1, <1>4, <2>1 DEF FromTwo
  <2>4. ASSUME NEW s \in S PROVE Within(s[a] - s[c], r)
    <3>1. s[a] \in Int /\ s[b] \in Int /\ s[c] \in Int /\ Fits(s[a] - s[c])
      BY <1>2, NearBy
    <3>2. PICK v \in Int, w \in Int : v = s[a] - s[b] /\ w = s[b] - s[c] /\ v + w = s[a] - s[c]
      BY <3>1
    <3>3. Within(v, d) /\ Within(w, e)
      <4>1. b = q[1]
        BY <1>1, <1>4
      <4> QED BY <1>1, <3>2, <4>1 DEF Rounding
    <3>4. Fits(v + w)
      BY <3>1, <3>2
    <3> QED BY <2>2, <3>2, <3>3, <3>4
  <2>5. /\ IsFacts(g)
        /\ \A s \in Stores : Admits(f, s) /\ Within(s[a] - s[c], r) => Admits(g, s)
        /\ \A n : n # a /\ n # c /\ Silent(f, n) => Silent(g, n)
    BY <1>2, <2>2, <2>3, TightenDifferenceIs DEF Untouched
  <2> QED BY <1>2, <2>4, <2>5 DEF Untouched
<1> QED BY <1>3, <1>4

\* An entry of a round is about the pairs it found.
LEMMA TaskIs ==
    ASSUME Roomy, NEW free, free \subseteq Terms, Untouched(facts, free), NEW S, S \subseteq Stores,
           Rounding(settle, free, S), NEW k \in settle.at .. Tasks, NEW g, g = Task(k)
    PROVE  /\ Untouched(g, free) /\ \A s \in S : Admits(facts, s) => Admits(g, s)
           /\ k + 1 \in 1 .. Todo(Len(settle.entries)) + 1
<1>1. PICK m : m = Len(settle.entries)
  OBVIOUS
<1>2. m \in Nat /\ \A i \in 1 .. m : settle.entries[i] \in DOMAIN settle.was
  BY <1>1 DEF Rounding
<1>3. PICK sq \in Nat : sq = m * m
  BY <1>2
<1>4. Tasks = 3 * m + sq /\ Todo(m) = 3 * m + sq
  BY <1>1, <1>3 DEF Tasks, Todo
<1>5. k \in Int /\ 1 <= k /\ k <= 3 * m + sq
  <2>1. PICK at : at = settle.at
    OBVIOUS
  <2>2. at \in Int /\ 1 <= at
    <3>1. PICK t \in Nat : t = Todo(Len(settle.entries))
      BY <1>1, <1>2, TodoIs
    <3>2. at \in 1 .. t + 1
      BY <2>1, <3>1 DEF Rounding
    <3> QED BY <3>1, <3>2
  <2>3. k \in at .. 3 * m + sq
    BY <1>4, <2>1
  <2> QED BY <1>2, <1>3, <2>2, <2>3
<1>6. CASE k <= 3 * m
  <2>1. PICK i, kind : i = (k - 1) \div 3 + 1 /\ kind = (k - 1) % 3
    OBVIOUS
  <2>2. i \in 1 .. m /\ kind \in 0 .. 2
    BY <1>2, <1>5, <1>6, <2>1
  <2>3. g = FromOne(facts, settle.entries[i], kind)
    BY <1>1, <1>6, <2>1 DEF Task
  <2>4. settle.entries[i] \in DOMAIN settle.was
    BY <1>2, <2>2
  <2>5. Untouched(g, free) /\ \A s \in S : Admits(facts, s) => Admits(g, s)
    BY <2>2, <2>3, <2>4, FromOneIs
  <2> QED BY <1>1, <1>2, <1>3, <1>4, <1>5, <2>5
<1>7. CASE ~(k <= 3 * m)
  <2>1. PICK j : j = k - 3 * m - 1
    OBVIOUS
  <2>2. j \in Nat /\ j < m * m
    BY <1>2, <1>3, <1>5, <1>7, <2>1
  <2>3. m > 0
    <3>1. 0 * 0 = 0
      OBVIOUS
    <3> QED BY <1>2, <2>2, <3>1
  <2>4. PICK x, y : x = j \div m /\ y = j % m
    OBVIOUS
  <2>5. x \in Int /\ m * x <= j /\ j < m * x + m
    BY <1>2, <2>2, <2>3, <2>4, Quotient
  <2>6. x < m
    <3> SUFFICES ASSUME m <= x PROVE FALSE
      BY <1>2, <2>5
    <3>1. m * m <= x * m
      BY <1>2, <2>5, Multiplied
    <3>2. x * m = m * x /\ m * m \in Int /\ m * x \in Int
      BY <1>2, <2>5
    <3> QED BY <2>2, <2>5, <3>1, <3>2
  <2>7. x >= 0
    <3> SUFFICES ASSUME x <= -1 PROVE FALSE
      BY <2>5
    <3>1. x * m <= (-1) * m
      BY <1>2, <2>5, Multiplied
    <3>2. x * m = m * x /\ (-1) * m = -m /\ m * x \in Int
      BY <1>2, <2>5
    <3> QED BY <1>2, <2>2, <2>5, <3>1, <3>2
  <2>8. y \in 0 .. m - 1
    BY <1>2, <2>2, <2>3, <2>4
  <2>9. x + 1 \in 1 .. m /\ y + 1 \in 1 .. m
    BY <1>2, <2>5, <2>6, <2>7, <2>8
  <2>10. g = FromTwo(facts, settle.entries[x + 1], settle.entries[y + 1])
    BY <1>1, <1>7, <2>1, <2>4 DEF Task
  <2>11. settle.entries[x + 1] \in DOMAIN settle.was /\ settle.entries[y + 1] \in DOMAIN settle.was
    BY <1>2, <2>9
  <2>12. Untouched(g, free) /\ \A s \in S : Admits(facts, s) => Admits(g, s)
    BY <2>10, <2>11, FromTwoIs
  <2> QED BY <1>1, <1>2, <1>3, <1>4, <1>5, <2>12
<1> QED BY <1>6, <1>7

-----------------------------------------------------------------------------
(* The invariant: what is known, what is still to be read, what is being      *)
(* settled and what is put aside all hold of the stores they are about.       *)

Free(bd) == Locals \ bd

\* Stores that wait for a walk to be entered.
Waiting(q) == UNION {q[i].skipped : i \in {i \in 1 .. Len(q) : q[i].for = "enter"}}
Live(q, R) == R \union Waiting(q)

Knowing(f, free, L) == Untouched(f, free) /\ \A s \in L : Proper(s, free) /\ Admits(f, s)

Entering(x, R, depth) ==
    x.for = "enter" => depth < MaxNesting /\ \A s \in R : \A c \in x.keep : Finds(c, TRUE, s)

Queued(q, free, R, depth) ==
    /\ IsSeq(q)
    /\ \A i \in 1 .. Len(q) :
          /\ q[i].for \in {"bound", "rule out", "below", "enter"} /\ Said(q[i], free)
          /\ \A s \in Live(q, R) : Told(q[i], s)
          /\ Entering(q[i], R, depth)

FrameHolds(x, free) ==
    /\ x.kind \in {"lone", "then", "else", "walk"} /\ x.leaves = FALSE
    /\ Knowing(x.outer, free, x.skipped)
    /\ x.kind \in {"lone", "then"} =>
          Testable(x.condition, free) /\ \A s \in x.skipped : Finds(x.condition, FALSE, s)
    /\ x.kind = "else" => x.left \in BOOLEAN /\ (x.left => x.skipped = {})

\* What was known outside comes back at the end, for all that got past it.
PutBack(x, S) == x.kind \in {"lone", "walk"} => \A s \in S : Admits(x.outer, s)

Framed(fr, free, L) ==
    /\ IsSeq(fr) /\ Len(fr) <= MaxNesting
    /\ \A i \in 1 .. Len(fr) :
          /\ FrameHolds(fr[i], free) /\ PutBack(fr[i], L)
          /\ \A j \in i .. Len(fr) : PutBack(fr[i], fr[j].skipped)

Sound(f, q, st, fr, lv, op, bd, R) ==
    /\ bd \subseteq Locals /\ lv \in BOOLEAN /\ op \in BOOLEAN
    /\ Knowing(f, Free(bd), Live(q, R))
    /\ Queued(q, Free(bd), R, Len(fr))
    /\ Settled(st, Free(bd), Live(q, R))
    /\ Framed(fr, Free(bd), Live(q, R))
    /\ lv => R = {} /\ q = <<>>
    /\ op => ~lv

FactsInv ==
    /\ order \in Orders /\ spent \in 0 .. MaxStatements
    /\ Sound(facts, queue, settle, frames, leaves, opening, bound, reach)

LEMMA FreeIs ==
    ASSUME NEW bd
    PROVE  /\ Free(bd) \subseteq Terms /\ Free(bd) \subseteq Locals
           /\ \A n : n \notin Locals \/ n \in bd => n \notin Free(bd)
BY DEF Free, Terms

LEMMA LocalsAre ==
    /\ Locals \intersect State = {} /\ Locals \intersect Lengths = {} /\ Locals \intersect Params = {}
    /\ Locals \intersect Fields = {}
<1>1. Kinds[1] = Params /\ Kinds[2] = Locals /\ Kinds[3] = State /\ Kinds[4] = Lengths
      /\ Kinds[5] = Fields /\ DOMAIN Kinds = 1 .. 6
  BY DEF Kinds
<1>2. \A i, j \in 1 .. 6 : i # j => Kinds[i] \intersect Kinds[j] = {}
  BY <1>1, NamesAssumption
<1>3. /\ Kinds[2] \intersect Kinds[3] = {} /\ Kinds[2] \intersect Kinds[4] = {} /\ Kinds[2] \intersect Kinds[1] = {}
      /\ Kinds[2] \intersect Kinds[5] = {}
  BY <1>2
<1> QED BY <1>1, <1>3

\* A condition the program tests where its names are bound.
LEMMA TestsAre ==
    ASSUME Roomy, NEW condition \in Conditions, NEW bd, Tests(condition, bd)
    PROVE  Testable(condition, Free(bd))
<1>1. /\ condition.all \in BOOLEAN /\ condition.parts \in Seq(Comparisons) /\ Len(condition.parts) \in 1 .. 2
  BY ProgramsAssumption
<1>2. ASSUME NEW i \in DOMAIN condition.parts PROVE Readable(condition.parts[i], Free(bd))
  <2>1. PICK c : c = condition.parts[i]
    OBVIOUS
  <2>2. c \in Comparisons
    BY <1>1, <2>1
  <2>3. c.l \in Expressions /\ c.r \in Expressions
    BY <2>2 DEF Comparisons
  <2>4. Bound(c.l, Free(bd)) /\ Bound(c.r, Free(bd))
    BY <2>1 DEF Tests, Reads, Bound, Free
  <2>5. Compact(c)
    BY <2>1 DEF Roomy
  <2>6. Weight(c.l) + Weight(c.r) \in Nat
    BY <2>3, ExpressionHas
  <2> QED BY <2>1, <2>2, <2>4, <2>5, <2>6 DEF Readable, Room, Compact
<1> QED BY <1>1, <1>2 DEF Testable

LEMMA ValuesAre ==
    ASSUME Roomy, NEW e \in Values, NEW bd, Reads(e, bd)
    PROVE  e \in Expressions /\ Room(Weight(e)) /\ Bound(e, Free(bd))
<1>1. e \in Expressions
  BY ProgramsAssumption
<1>2. Weight(e) * Scale <= MaxInt /\ Weight(e) \in Nat
  BY <1>1, ExpressionHas DEF Roomy
<1> QED BY <1>1, <1>2 DEF Room, Reads, Bound, Free

\* Fewer names wait to be bound.
LEMMA LessFree ==
    ASSUME NEW free, NEW less, less \subseteq free
    PROVE  /\ \A f : Untouched(f, free) => Untouched(f, less)
           /\ \A s : Proper(s, free) => Proper(s, less)
           /\ \A c : Testable(c, free) => Testable(c, less)
           /\ \A x : FrameHolds(x, free) => FrameHolds(x, less)
<1>1. \A f : Untouched(f, free) => Untouched(f, less)
  BY DEF Untouched
<1>2. \A s : Proper(s, free) => Proper(s, less)
  BY DEF Proper
<1>3. \A c : Testable(c, free) => Testable(c, less)
  <2>1. \A c : Readable(c, free) => Readable(c, less)
    BY DEF Readable, Bound
  <2> QED BY <2>1 DEF Testable
<1>4. ASSUME NEW x, FrameHolds(x, free) PROVE FrameHolds(x, less)
  BY <1>1, <1>2, <1>3, <1>4 DEF FrameHolds, Knowing
<1> QED BY <1>1, <1>2, <1>3, <1>4

\* Readings of a condition hold nobody back.
LEMMA SayingQueued ==
    ASSUME NEW q, NEW free, Saying(q, free), NEW R, \A s \in R : Telling(q, s), NEW depth
    PROVE  Live(q, R) = R /\ Queued(q, free, R, depth)
<1>1. \A i \in 1 .. Len(q) : q[i].for # "enter" /\ q[i].for \in {"bound", "rule out", "below", "enter"}
  BY DEF Saying
<1>2. Waiting(q) = {}
  BY <1>1 DEF Waiting
<1>3. Live(q, R) = R
  BY <1>2 DEF Live
<1>4. \A i \in 1 .. Len(q) : Entering(q[i], R, depth)
  BY <1>1 DEF Entering
<1> QED BY <1>1, <1>3, <1>4 DEF Queued, Saying, Telling

LEMMA NoneQueued ==
    ASSUME NEW R, NEW free, NEW depth
    PROVE  Live(<<>>, R) = R /\ Queued(<<>>, free, R, depth)
BY NoneSaid, SayingQueued

Found(condition, free, sense, R) == \A s \in R : Proper(s, free) /\ Finds(condition, sense, s)

Ready(q, free, R, depth) == Live(q, R) = R /\ Queued(q, free, R, depth)

LEMMA ConditionQueued ==
    ASSUME NEW condition, NEW free, Testable(condition, free), NEW sense \in BOOLEAN, NEW R, NEW depth,
           Found(condition, free, sense, R), NEW q, q = Narrowing(condition, sense)
    PROVE  Ready(q, free, R, depth)
<1>1. Saying(q, free) /\ \A s \in R : Telling(q, s)
  BY NarrowingIs DEF Found
<1> QED BY <1>1, SayingQueued DEF Ready

LEMMA TrueQueued ==
    ASSUME NEW condition, NEW free, Testable(condition, free), NEW R, NEW depth,
           Found(condition, free, TRUE, R), NEW q, q = Narrowing(condition, TRUE)
    PROVE  Ready(q, free, R, depth)
<1>1. PICK sense \in BOOLEAN : sense = TRUE
  OBVIOUS
<1>2. Found(condition, free, sense, R) /\ q = Narrowing(condition, sense)
  BY <1>1
<1> QED BY <1>2, ConditionQueued

LEMMA FalseQueued ==
    ASSUME NEW condition, NEW free, Testable(condition, free), NEW R, NEW depth,
           Found(condition, free, FALSE, R), NEW q, q = Narrowing(condition, FALSE)
    PROVE  Ready(q, free, R, depth)
<1>1. PICK sense \in BOOLEAN : sense = FALSE
  OBVIOUS
<1>2. Found(condition, free, sense, R) /\ q = Narrowing(condition, sense)
  BY <1>1
<1> QED BY <1>2, ConditionQueued

LEMMA FirstOfQueue ==
    ASSUME NEW q, IsSeq(q), q # <<>>
    PROVE  /\ 1 \in 1 .. Len(q) /\ Head(q) = q[1] /\ IsSeq(Tail(q))
           /\ Len(Tail(q)) = Len(q) - 1 /\ Len(q) \in Nat
           /\ \A i \in 1 .. Len(Tail(q)) : i + 1 \in 1 .. Len(q) /\ Tail(q)[i] = q[i + 1]
<1>1. PICK S : q \in Seq(S)
  BY DEF IsSeq
<1>2. Tail(q) \in Seq(S) /\ Len(q) \in Nat /\ Len(q) > 0 /\ Len(Tail(q)) = Len(q) - 1
      /\ \A i \in 1 .. Len(q) - 1 : Tail(q)[i] = q[i + 1]
  BY <1>1
<1>3. Head(q) = q[1]
  BY <1>1
<1> QED BY <1>2, <1>3 DEF IsSeq

LEMMA RestQueued ==
    ASSUME NEW q, NEW free, NEW R, NEW depth, Queued(q, free, R, depth), q # <<>>, NEW r, r = Tail(q)
    PROVE  /\ Queued(r, free, R, depth) /\ Live(r, R) \subseteq Live(q, R)
           /\ Head(q) = q[1] /\ 1 \in 1 .. Len(q)
<1>1. IsSeq(q)
  BY DEF Queued
<1>2. /\ 1 \in 1 .. Len(q) /\ Head(q) = q[1] /\ IsSeq(r)
      /\ \A i \in 1 .. Len(r) : i + 1 \in 1 .. Len(q) /\ r[i] = q[i + 1]
  BY <1>1, FirstOfQueue
<1>3. Waiting(r) \subseteq Waiting(q)
  <2> SUFFICES ASSUME NEW s \in Waiting(r) PROVE s \in Waiting(q)
    OBVIOUS
  <2>1. PICK i \in 1 .. Len(r) : r[i].for = "enter" /\ s \in r[i].skipped
    BY DEF Waiting
  <2>2. PICK j \in 1 .. Len(q) : r[i] = q[j]
    BY <1>2
  <2> QED BY <2>1, <2>2 DEF Waiting
<1>4. Live(r, R) \subseteq Live(q, R)
  BY <1>3 DEF Live
<1>5. \A i \in 1 .. Len(r) : \E j \in 1 .. Len(q) : r[i] = q[j]
  BY <1>2
<1> QED BY <1>2, <1>4, <1>5 DEF Queued

-----------------------------------------------------------------------------
(* What is put aside *)

LEMMA FramedFewer ==
    ASSUME NEW fr, NEW free, NEW L, Framed(fr, free, L), NEW less, less \subseteq free, NEW M, M \subseteq L
    PROVE  Framed(fr, less, M)
<1>1. \A x : FrameHolds(x, free) => FrameHolds(x, less)
  BY LessFree
<1>2. \A x : PutBack(x, L) => PutBack(x, M)
  BY DEF PutBack
<1> QED BY <1>1, <1>2 DEF Framed

Pushed(to, fr, x) ==
    /\ IsSeq(to) /\ Len(to) = Len(fr) + 1 /\ Len(fr) \in Nat /\ to[Len(to)] = x
    /\ \A i \in 1 .. Len(fr) : to[i] = fr[i]

LEMMA PushIs ==
    ASSUME NEW fr, IsSeq(fr), NEW x, NEW to, to = Append(fr, x)
    PROVE  Pushed(to, fr, x)
<1>1. PICK S : fr \in Seq(S)
  BY DEF IsSeq
<1>2. PICK T : T = S \union {x}
  OBVIOUS
<1>3. fr \in Seq(T)
  <2>1. Len(fr) \in Nat /\ fr = [i \in 1 .. Len(fr) |-> fr[i]] /\ \A i \in 1 .. Len(fr) : fr[i] \in T
    BY <1>1, <1>2
  <2>2. fr \in [1 .. Len(fr) -> T]
    BY <2>1
  <2> QED BY <2>1, <2>2, SeqDef
<1>4. x \in T
  BY <1>2
<1>5. /\ to \in Seq(T) /\ Len(to) = Len(fr) + 1 /\ Len(fr) \in Nat /\ to[Len(fr) + 1] = x
      /\ \A i \in 1 .. Len(fr) : to[i] = fr[i]
  BY <1>3, <1>4
<1> QED BY <1>5 DEF IsSeq, Pushed

LEMMA PopIs ==
    ASSUME NEW fr, IsSeq(fr), fr # <<>>, NEW to, to = SubSeq(fr, 1, Len(fr) - 1)
    PROVE  /\ IsSeq(to) /\ Len(to) = Len(fr) - 1 /\ Len(fr) \in Nat /\ Len(fr) \in 1 .. Len(fr)
           /\ \A i \in 1 .. Len(to) : to[i] = fr[i]
<1>1. PICK S : fr \in Seq(S)
  BY DEF IsSeq
<1>2. Len(fr) \in Nat /\ Len(fr) >= 1
  BY <1>1
<1>3. PICK n \in Nat : n = Len(fr) - 1
  BY <1>2
<1>4. to = SubSeq(fr, 1, n)
  BY <1>3
<1>5. to \in Seq(S) /\ Len(to) = n /\ \A i \in 1 .. n : to[i] = fr[i]
  BY <1>1, <1>2, <1>3, <1>4
<1> QED BY <1>2, <1>3, <1>5 DEF IsSeq

LEMMA FramedPush ==
    ASSUME NEW fr, NEW free, NEW L, Framed(fr, free, L), Len(fr) < MaxNesting,
           NEW x, FrameHolds(x, free), x.skipped \subseteq L, PutBack(x, L),
           NEW M, M \subseteq L, NEW to, Pushed(to, fr, x)
    PROVE  Framed(to, free, M)
<1>1. /\ IsSeq(to) /\ Len(to) = Len(fr) + 1 /\ Len(fr) \in Nat /\ to[Len(to)] = x
      /\ \A i \in 1 .. Len(fr) : to[i] = fr[i]
  BY DEF Pushed
<1>2. PICK n \in Nat : n = Len(fr)
  BY <1>1
<1>3. Len(to) <= MaxNesting
  BY <1>1, <1>2, WidthAssumption
<1>4. \A y : PutBack(y, L) => PutBack(y, M) /\ PutBack(y, x.skipped)
  BY DEF PutBack
<1>5. ASSUME NEW i \in 1 .. n + 1
      PROVE  /\ FrameHolds(to[i], free) /\ PutBack(to[i], M)
             /\ \A j \in i .. n + 1 : PutBack(to[i], to[j].skipped)
  <2>1. CASE i = n + 1
    <3>1. to[i] = x /\ \A j \in i .. n + 1 : j = n + 1
      BY <1>1, <1>2, <2>1
    <3> QED BY <1>4, <3>1, <2>1
  <2>2. CASE i \in 1 .. n
    <3>1. to[i] = fr[i] /\ FrameHolds(fr[i], free) /\ PutBack(fr[i], L)
          /\ \A j \in i .. n : PutBack(fr[i], fr[j].skipped)
      BY <1>1, <1>2, <2>2 DEF Framed
    <3>2. ASSUME NEW j \in i .. n + 1 PROVE PutBack(to[i], to[j].skipped)
      <4>1. CASE j = n + 1
        BY <1>1, <1>2, <1>4, <3>1, <4>1
      <4>2. CASE j # n + 1
        <5>1. j \in i .. n /\ j \in 1 .. n
          BY <2>2, <4>2
        <5> QED BY <1>1, <1>2, <3>1, <5>1
      <4> QED BY <4>1, <4>2
    <3>3. FrameHolds(to[i], free) /\ PutBack(to[i], L)
      BY <3>1
    <3>4. PutBack(to[i], M)
      BY <1>4, <3>3
    <3> QED BY <3>2, <3>3, <3>4
  <2> QED BY <2>1, <2>2
<1> QED BY <1>1, <1>2, <1>3, <1>5 DEF Framed

LEMMA FramedPop ==
    ASSUME NEW fr, NEW free, NEW L, Framed(fr, free, L), fr # <<>>, NEW x, x = fr[Len(fr)],
           NEW M, M \subseteq L \union x.skipped, NEW to, to = SubSeq(fr, 1, Len(fr) - 1)
    PROVE  /\ Framed(to, free, M) /\ FrameHolds(x, free) /\ PutBack(x, M)
           /\ PutBack(x, L) /\ Len(to) < MaxNesting
<1>1. /\ IsSeq(to) /\ Len(to) = Len(fr) - 1 /\ Len(fr) \in Nat /\ Len(fr) \in 1 .. Len(fr)
      /\ \A i \in 1 .. Len(to) : to[i] = fr[i]
  BY PopIs DEF Framed
<1>2. PICK n \in Nat : n = Len(fr)
  BY <1>1
<1>3. n >= 1 /\ n <= MaxNesting /\ Len(to) = n - 1 /\ n - 1 < MaxNesting
  BY <1>1, <1>2, WidthAssumption DEF Framed
<1>4. \A y : PutBack(y, L) /\ PutBack(y, x.skipped) => PutBack(y, M)
  BY DEF PutBack
<1>5. ASSUME NEW i \in 1 .. n
      PROVE  /\ FrameHolds(fr[i], free) /\ PutBack(fr[i], L) /\ PutBack(fr[i], M)
             /\ \A j \in i .. n : PutBack(fr[i], fr[j].skipped)
  <2>1. /\ FrameHolds(fr[i], free) /\ PutBack(fr[i], L)
        /\ \A j \in i .. n : PutBack(fr[i], fr[j].skipped)
    BY <1>2 DEF Framed
  <2>2. n \in i .. n
    OBVIOUS
  <2> QED BY <1>2, <1>4, <2>1, <2>2
<1>6. ASSUME NEW i \in 1 .. Len(to)
      PROVE  /\ FrameHolds(to[i], free) /\ PutBack(to[i], M)
             /\ \A j \in i .. Len(to) : PutBack(to[i], to[j].skipped)
  <2>1. i \in 1 .. n /\ to[i] = fr[i]
    BY <1>1, <1>3
  <2>2. \A j \in i .. Len(to) : j \in i .. n /\ to[j] = fr[j]
    BY <1>1, <1>3
  <2> QED BY <1>5, <2>1, <2>2
<1>7. n \in 1 .. n
  BY <1>3
<1>8. Framed(to, free, M)
  <2>1. Len(to) <= MaxNesting
    BY <1>3, WidthAssumption
  <2> QED BY <1>1, <1>6, <2>1 DEF Framed
<1>9. Len(to) < MaxNesting
  BY <1>3, WidthAssumption
<1>10. FrameHolds(x, free) /\ PutBack(x, M) /\ PutBack(x, L)
  BY <1>2, <1>5, <1>7
<1> QED BY <1>8, <1>9, <1>10

\* Where nothing is put back, any store may come.
LEMMA FramedOpen ==
    ASSUME NEW fr, NEW free, NEW L, Framed(fr, free, L),
           \A i \in 1 .. Len(fr) : fr[i].kind \notin {"lone", "walk"}, NEW M
    PROVE  Framed(fr, free, M)
BY DEF Framed, PutBack

\* Facts that are silent of a name admit a store that differs in it alone.
LEMMA SilentKeeps ==
    ASSUME Roomy, NEW f, IsFacts(f), NEW n \in Terms, Silent(f, n), NEW s, Admits(f, s), NEW u \in Stores,
           \A t \in Terms : t # n => u[t] = s[t]
    PROVE  Admits(f, u)
<1>1. ASSUME NEW t \in Terms PROVE Within(u[t], f.known[t])
  <2>1. CASE t = n
    BY <2>1, NearBy, AnyIs DEF Silent
  <2>2. CASE t # n
    BY <2>2 DEF Admits
  <2> QED BY <2>1, <2>2
<1>2. ASSUME NEW p \in DOMAIN f.differences PROVE Within(u[p[1]] - u[p[2]], f.differences[p])
  <2>1. p \in Pairs /\ p[1] # n /\ p[2] # n
    BY DEF IsFacts, Silent, About
  <2>2. u[p[1]] = s[p[1]] /\ u[p[2]] = s[p[2]]
    BY <2>1, PairHas
  <2>3. Within(s[p[1]] - s[p[2]], f.differences[p])
    BY DEF Admits
  <2> QED BY <2>2, <2>3
<1>3. ASSUME NEW p \in Pairs PROVE Within(u[p[1]] + u[p[2]], f.totals[{p[1], p[2]}])
  <2>1. PICK c : c = {p[1], p[2]}
    OBVIOUS
  <2>2. c \in Couples
    BY <2>1 DEF Couples
  <2>3. CASE n \in c
    <3>1. f.totals[c] = Any
      BY <2>2, <2>3 DEF Silent
    <3>2. u[p[1]] + u[p[2]] \in Int /\ Fits(u[p[1]] + u[p[2]])
      BY PairHas, NearBy
    <3> QED BY <2>1, <3>1, <3>2, AnyIs
  <2>4. CASE n \notin c
    <3>1. u[p[1]] = s[p[1]] /\ u[p[2]] = s[p[2]]
      BY <2>1, <2>4, PairHas
    <3>2. Within(s[p[1]] + s[p[2]], f.totals[c])
      BY <2>1 DEF Admits
    <3> QED BY <2>1, <3>1, <3>2
  <2> QED BY <2>3, <2>4
<1> QED BY <1>1, <1>2, <1>3 DEF Admits

\* A store that differs from one of L in n alone.
Moves(L, M, n) ==
    \A u \in M : u \in Stores /\ \E s \in L : \A t \in Terms : t # n => u[t] = s[t]

LEMMA FramedMoved ==
    ASSUME Roomy, NEW fr, NEW free, free \subseteq Terms, NEW L, Framed(fr, free, L), NEW n \in free,
           NEW M, Moves(L, M, n), NEW less, less \subseteq free
    PROVE  Framed(fr, less, M)
<1>1. \A x : FrameHolds(x, free) => FrameHolds(x, less)
  BY LessFree
<1>2. ASSUME NEW i \in 1 .. Len(fr) PROVE PutBack(fr[i], M)
  <2>1. PICK f : f = fr[i].outer
    OBVIOUS
  <2>2. IsFacts(f) /\ Silent(f, n)
    BY <2>1 DEF Framed, FrameHolds, Knowing, Untouched
  <2>3. PutBack(fr[i], L)
    BY DEF Framed
  <2>4. ASSUME fr[i].kind \in {"lone", "walk"}, NEW u \in M PROVE Admits(f, u)
    <3>1. PICK s \in L : \A t \in Terms : t # n => u[t] = s[t]
      BY DEF Moves
    <3>2. u \in Stores
      BY DEF Moves
    <3>3. Admits(f, s)
      BY <2>1, <2>3, <2>4 DEF PutBack
    <3>4. n \in Terms
      OBVIOUS
    <3> QED BY <2>2, <3>1, <3>2, <3>3, <3>4, SilentKeeps
  <2> QED BY <2>1, <2>4 DEF PutBack
<1> QED BY <1>1, <1>2 DEF Framed

\* The stores a binding leaves.
LEMMA BindIs ==
    ASSUME Roomy, NEW R, NEW free, free \subseteq Terms, NEW f, Knowing(f, free, R), NEW term \in Terms, NEW e \in Expressions,
           Room(Weight(e)), Bound(e, free), NEW declared \in Ranges,
           NEW g, g = Set(f, term, Meet(RangeOf(e, f), declared)), NEW M, M = Bind(R, term, e, declared)
    PROVE  Knowing(g, free \ {term}, M) /\ Moves(R, M, term)
<1>1. IsFacts(f) /\ RangeOf(e, f) \in Ranges
  BY RangeOfRanges DEF Knowing, Untouched
<1>2. PICK r : r = Meet(RangeOf(e, f), declared)
  OBVIOUS
<1>3. r \in Ranges /\ \A v \in Int : Within(v, RangeOf(e, f)) /\ Within(v, declared) => Within(v, r)
  BY <1>1, <1>2, MeetIs
<1>4. /\ IsFacts(g)
      /\ \A s, u \in Stores : /\ Admits(f, s) /\ Within(u[term], r)
                              /\ \A n \in Terms : n # term => u[n] = s[n]
                              => Admits(g, u)
      /\ \A n \in Terms : n # term /\ Silent(f, n) => Silent(g, n)
  BY <1>1, <1>2, <1>3, SetIs
<1>5. Untouched(g, free \ {term})
  BY <1>4 DEF Knowing, Untouched
<1>6. ASSUME NEW u \in M
      PROVE  /\ u \in Stores /\ Proper(u, free \ {term}) /\ Admits(g, u)
             /\ \E s \in R : \A t \in Terms : t # term => u[t] = s[t]
  <2>1. PICK s \in R : /\ u = [s EXCEPT ![term] = Value(e, s)]
                       /\ Within(Value(e, s), declared) /\ Value(e, s) \in -MaxValue .. MaxValue
    BY DEF Bind
  <2>2. PICK v : v = Value(e, s)
    OBVIOUS
  <2>3. Proper(s, free) /\ Admits(f, s) /\ s \in Stores
    BY DEF Knowing, Proper
  <2>4. u \in Stores /\ u[term] = v /\ \A t \in Terms \union Fields : t # term => u[t] = s[t]
    BY <2>1, <2>2, <2>3 DEF Stores
  <2>5. v \in Int /\ Within(v, RangeOf(e, f))
    BY <1>1, <2>2, <2>3, ValueFits, RangeOfIs
  <2>6. Admits(g, u)
    <3>1. Within(u[term], r)
      BY <1>3, <2>1, <2>2, <2>4, <2>5
    <3> QED BY <1>4, <2>3, <2>4, <3>1
  <2>7. Proper(u, free \ {term})
    <3>1. \A t \in Fields : t # term
      BY OneIsNoName
    <3>2. \A n \in free \ {term} : n \in Terms /\ n # term
      OBVIOUS
    <3> QED BY <2>3, <2>4, <3>1, <3>2 DEF Proper
  <2> QED BY <2>4, <2>6, <2>7
<1> QED BY <1>5, <1>6 DEF Knowing, Moves

\* The stores of a turn of a walk, and of the ones that wait for its end.
LEMMA TurnsAre ==
    ASSUME Roomy, NEW R, NEW free, free \subseteq Terms, NEW f, Knowing(f, free, R), NEW index \in Locals, index \in free,
           NEW length \in Lengths, NEW keep, NEW g, g = Set(f, index, Between(0, MaxInt)),
           NEW M, M = Turns(R, index, length, keep)
    PROVE  /\ Knowing(g, free \ {index}, R \union M) /\ Moves(R, R \union M, index)
           /\ \A u \in M : u[index] < u[length] /\ \A c \in keep : Finds(c, TRUE, u)
           /\ \A u \in R : u[length] > 0 => u[index] < u[length]
<1>1. index \in Terms /\ length \in Terms /\ index # length
  BY LocalsAre DEF Terms
<1>2. PICK r : r = Between(0, MaxInt)
  OBVIOUS
<1>3. r \in Ranges /\ \A v \in Int : Within(v, r) <=> 0 <= v /\ v <= MaxInt
  BY <1>2, BetweenIs, Width
<1>4. IsFacts(f) /\ \A s \in R : Proper(s, free) /\ Admits(f, s) /\ s \in Stores /\ s[index] = 0
  BY DEF Knowing, Untouched, Proper
<1>5. /\ IsFacts(g)
      /\ \A s, u \in Stores : /\ Admits(f, s) /\ Within(u[index], r)
                              /\ \A n \in Terms : n # index => u[n] = s[n]
                              => Admits(g, u)
      /\ \A n \in Terms : n # index /\ Silent(f, n) => Silent(g, n)
  BY <1>1, <1>2, <1>3, <1>4, SetIs
<1>6. Untouched(g, free \ {index})
  BY <1>5 DEF Knowing, Untouched
<1>7. ASSUME NEW u \in R
      PROVE  /\ Proper(u, free \ {index}) /\ Admits(g, u)
             /\ u \in Stores /\ \E s \in R : \A t \in Terms : t # index => u[t] = s[t]
             /\ u[length] > 0 => u[index] < u[length]
  <2>1. Proper(u, free) /\ Admits(f, u) /\ u \in Stores /\ u[index] = 0
    BY <1>4
  <2>2. Within(u[index], r)
    BY <1>3, <2>1, Width
  <2>3. Admits(g, u)
    BY <1>5, <2>1, <2>2
  <2>4. Proper(u, free \ {index})
    BY <2>1 DEF Proper
  <2>5. u[length] \in Int
    BY <1>1, <2>1, StoreIs
  <2> QED BY <2>1, <2>3, <2>4, <2>5
<1>8. ASSUME NEW u \in M
      PROVE  /\ Proper(u, free \ {index}) /\ Admits(g, u)
             /\ u \in Stores /\ \E s \in R : \A t \in Terms : t # index => u[t] = s[t]
             /\ u[index] < u[length] /\ \A c \in keep : Finds(c, TRUE, u)
  <2>12. PICK s \in R : \E i \in 0 .. s[length] - 1 :
            /\ u = [s EXCEPT ![index] = i]
            /\ \A j \in 0 .. i : \A c \in keep : Finds(c, TRUE, [s EXCEPT ![index] = j])
    BY DEF Turns
  <2>1. PICK i \in 0 .. s[length] - 1 :
            /\ u = [s EXCEPT ![index] = i]
            /\ \A j \in 0 .. i : \A c \in keep : Finds(c, TRUE, [s EXCEPT ![index] = j])
    BY <2>12
  <2>2. Proper(s, free) /\ Admits(f, s) /\ s \in Stores
    BY <1>4
  <2>3. PICK n \in Int : n = s[length] /\ n <= MaxValue /\ -MaxValue <= n
    BY <1>1, <2>2, StoreIs
  <2>4. i \in Int /\ 0 <= i /\ i < n /\ i \in 0 .. i
    BY <2>1, <2>3
  <2>5. i \in -MaxValue .. MaxValue
    BY <2>3, <2>4, Width
  <2>6. u \in Stores /\ u[index] = i /\ \A t \in Terms \union Fields : t # index => u[t] = s[t]
    BY <1>1, <2>1, <2>2, <2>5 DEF Stores
  <2>7. Within(u[index], r)
    BY <1>3, <2>3, <2>4, <2>6, Width
  <2>8. Admits(g, u)
    BY <1>5, <2>2, <2>6, <2>7
  <2>9. Proper(u, free \ {index})
    <3>1. \A t \in Fields : t # index
      BY <1>1, OneIsNoName
    <3>2. \A t \in free \ {index} : t \in Terms /\ t # index
      OBVIOUS
    <3> QED BY <2>2, <2>6, <3>1, <3>2 DEF Proper
  <2>10. u[length] = n
    BY <1>1, <2>3, <2>6
  <2>11. \A c \in keep : Finds(c, TRUE, u)
    BY <2>1, <2>4
  <2> QED BY <2>4, <2>6, <2>8, <2>9, <2>10, <2>11
<1> QED BY <1>6, <1>7, <1>8 DEF Knowing, Moves

-----------------------------------------------------------------------------
(* Steps *)

LEMMA SoundIs ==
    ASSUME FactsInv
    PROVE  /\ order \in Orders /\ spent \in 0 .. MaxStatements
           /\ bound \subseteq Locals /\ leaves \in BOOLEAN /\ opening \in BOOLEAN
           /\ Untouched(facts, Free(bound))
           /\ Knowing(facts, Free(bound), Live(queue, reach))
           /\ Queued(queue, Free(bound), reach, Len(frames))
           /\ Settled(settle, Free(bound), Live(queue, reach))
           /\ Framed(frames, Free(bound), Live(queue, reach))
           /\ leaves => reach = {} /\ queue = <<>>
           /\ opening => ~leaves
           /\ \A s \in Live(queue, reach) : Proper(s, Free(bound)) /\ Admits(facts, s) /\ s \in Stores
           /\ reach \subseteq Live(queue, reach)
BY DEF FactsInv, Sound, Knowing, Live, Proper

LEMMA SettleKeeps == ASSUME Roomy, FactsInv, Settle PROVE FactsInv'
<1>1. PICK k \in settle.at .. Tasks :
         facts' = Task(k) /\ settle' = [settle EXCEPT !.at = k + 1, !.changed = TRUE]
  BY DEF Settle
<1>2. PICK g, st, L, free :
         g = facts' /\ st = settle' /\ L = Live(queue, reach) /\ free = Free(bound)
  OBVIOUS
<1>3. /\ Rounding(settle, free, L) /\ Untouched(facts, free)
      /\ \A s \in L : Proper(s, free) /\ Admits(facts, s) /\ s \in Stores
  BY <1>2, SoundIs DEF Settle, Settled
<1>4. free \subseteq Terms /\ L \subseteq Stores
  BY <1>2, <1>3, FreeIs
<1>5. /\ Untouched(g, free) /\ \A s \in L : Admits(facts, s) => Admits(g, s)
      /\ k + 1 \in 1 .. Todo(Len(settle.entries)) + 1
  BY <1>1, <1>2, <1>3, <1>4, TaskIs
<1>6. Knowing(g, free, L)
  BY <1>3, <1>5 DEF Knowing
<1>7. Rounding(st, free, L)
  <2>1. /\ DOMAIN st = {"round", "entries", "was", "at", "changed"}
        /\ st.round = settle.round /\ st.entries = settle.entries /\ st.was = settle.was /\ st.at = k + 1
    BY <1>1, <1>2, <1>3 DEF Rounding
  <2> QED BY <1>3, <1>5, <2>1 DEF Rounding
<1>8. Sound(g, queue, st, frames, leaves, opening, bound, reach)
  BY <1>2, <1>6, <1>7, SoundIs DEF Sound, Settled
<1>9. UNCHANGED <<queue, order, frames, leaves, opening, bound, spent, reach>>
  BY DEF Settle
<1> QED BY <1>2, <1>8, <1>9 DEF FactsInv

LEMMA EndRoundKeeps == ASSUME Roomy, FactsInv, EndRound PROVE FactsInv'
<1>1. PICK st, L, free : st = settle' /\ L = Live(queue, reach) /\ free = Free(bound)
  OBVIOUS
<1>2. /\ Rounding(settle, free, L) /\ Untouched(facts, free) /\ order \in Orders
      /\ \A s \in L : Admits(facts, s)
  BY <1>1, SoundIs DEF EndRound, Settled
<1>3. Settled(st, free, L)
  <2>1. CASE settle.changed /\ settle.round < Rounds
    <3>1. PICK n : n = settle.round + 1
      OBVIOUS
    <3>2. n \in 1 .. Rounds
      BY <1>2, <2>1, <3>1 DEF Rounding, Rounds
    <3>3. st = Round(n, facts)
      BY <1>1, <2>1, <3>1 DEF EndRound
    <3> QED BY <1>2, <3>2, <3>3, RoundIs DEF Settled
  <2>2. CASE ~(settle.changed /\ settle.round < Rounds)
    <3>1. st = Still
      BY <1>1, <2>2 DEF EndRound
    <3> QED BY <3>1 DEF Settled
  <2> QED BY <2>1, <2>2
<1>4. Sound(facts, queue, st, frames, leaves, opening, bound, reach)
  BY <1>1, <1>3, SoundIs DEF Sound
<1>5. UNCHANGED <<facts, queue, order, frames, leaves, opening, bound, spent, reach>>
  BY DEF EndRound
<1> QED BY <1>1, <1>4, <1>5 DEF FactsInv

LEMMA NarrowKeeps == ASSUME Roomy, FactsInv, Narrow PROVE FactsInv'
<1>1. PICK g, st, q, x, L, M, free :
         /\ g = facts' /\ st = settle' /\ q = queue' /\ x = Head(queue) /\ free = Free(bound)
         /\ L = Live(queue, reach) /\ M = Live(q, reach)
  OBVIOUS
<1>2. /\ Queued(queue, free, reach, Len(frames)) /\ queue # <<>> /\ q = Tail(queue) /\ x.for # "enter"
      /\ g = Read(facts, x)
      /\ st = (IF g.known = facts.known /\ g.differences = facts.differences THEN Still ELSE Settling(g))
  BY <1>1, SoundIs DEF Narrow
<1>3. /\ Queued(q, free, reach, Len(frames)) /\ M \subseteq L /\ x = queue[1] /\ 1 \in 1 .. Len(queue)
  BY <1>1, <1>2, RestQueued
<1>4. /\ x.for \in {"bound", "rule out", "below"} /\ Said(x, free) /\ \A s \in L : Told(x, s)
  BY <1>1, <1>2, <1>3 DEF Queued
<1>5. /\ Untouched(facts, free) /\ order \in Orders /\ free \subseteq Terms
      /\ \A s \in L : Proper(s, free) /\ Admits(facts, s)
  BY <1>1, SoundIs, FreeIs
<1>6. /\ Untouched(g, free)
      /\ \A s : Proper(s, free) /\ Admits(facts, s) /\ Told(x, s) => Admits(g, s)
  BY <1>2, <1>4, <1>5, ReadIs
<1>7. \A s \in M : Proper(s, free) /\ Admits(g, s)
  BY <1>3, <1>4, <1>5, <1>6
<1>8. Settled(st, free, M)
  <2>1. Settled(Settling(g), free, M)
    BY <1>5, <1>6, <1>7, SettlingIs
  <2>2. Settled(Still, free, M)
    BY DEF Settled
  <2> QED BY <1>2, <2>1, <2>2
<1>9. Framed(frames, free, M)
  BY <1>1, <1>3, SoundIs, FramedFewer
<1>10. ~leaves
  BY <1>2, SoundIs
<1>11. Sound(g, q, st, frames, leaves, opening, bound, reach)
  BY <1>1, <1>3, <1>6, <1>7, <1>8, <1>9, <1>10, SoundIs DEF Sound, Knowing
<1>12. UNCHANGED <<order, frames, leaves, opening, bound, spent, reach>>
  BY DEF Narrow
<1> QED BY <1>1, <1>11, <1>12 DEF FactsInv

LEMMA EnterKeeps == ASSUME Roomy, FactsInv, Enter PROVE FactsInv'
<1>1. PICK q, x, L, fr, free, frame :
         /\ q = queue' /\ x = Head(queue) /\ free = Free(bound) /\ fr = frames'
         /\ L = Live(queue, reach)
         /\ frame = [kind |-> "walk", outer |-> facts, leaves |-> leaves, skipped |-> x.skipped]
  OBVIOUS
<1>2. /\ Queued(queue, free, reach, Len(frames)) /\ queue # <<>> /\ x.for = "enter"
      /\ fr = Append(frames, frame)
      /\ x.keep = {} => q = <<>>
      /\ x.keep # {} => \E c \in x.keep : q = Narrowing(c, TRUE)
  BY <1>1, SoundIs DEF Enter, Open
<1>3. x = queue[1] /\ 1 \in 1 .. Len(queue)
  BY <1>1, <1>2, RestQueued
<1>4. Said(x, free) /\ Entering(x, reach, Len(frames))
  BY <1>3, <1>2 DEF Queued
<1>5. /\ Len(frames) < MaxNesting
      /\ \A c \in x.keep : Testable(c, free) /\ \A s \in reach : Finds(c, TRUE, s)
  BY <1>2, <1>4 DEF Said, Entering
<1>6. x.skipped \subseteq L /\ reach \subseteq L
  BY <1>1, <1>2, <1>3 DEF Live, Waiting
<1>7. \A s \in L : Proper(s, free) /\ Admits(facts, s)
  BY <1>1, SoundIs
<1>8. Live(q, reach) = reach /\ Queued(q, free, reach, Len(fr))
  <2>1. CASE x.keep = {}
    BY <1>2, <2>1, NoneQueued
  <2>2. CASE x.keep # {}
    <3>1. PICK c \in x.keep : q = Narrowing(c, TRUE)
      BY <1>2, <2>2
    <3>2. Testable(c, free) /\ Found(c, free, TRUE, reach)
      BY <1>5, <1>6, <1>7 DEF Found
    <3>3. PICK depth : depth = Len(fr)
      OBVIOUS
    <3>4. PICK R : R = reach
      OBVIOUS
    <3>5. Found(c, free, TRUE, R)
      BY <3>2, <3>4
    <3>6. Ready(q, free, R, depth)
      BY <3>1, <3>2, <3>5, TrueQueued
    <3> QED BY <3>3, <3>4, <3>6 DEF Ready
  <2> QED BY <2>1, <2>2
<1>9. ~leaves
  BY <1>2, SoundIs
<1>10. FrameHolds(frame, free) /\ PutBack(frame, L) /\ frame.skipped = x.skipped
  <2>1. /\ frame.kind = "walk" /\ frame.leaves = FALSE /\ frame.outer = facts /\ frame.skipped = x.skipped
    BY <1>1, <1>9, SoundIs
  <2>2. Knowing(facts, free, x.skipped)
    BY <1>1, <1>6, <1>7, SoundIs DEF Knowing
  <2> QED BY <1>7, <2>1, <2>2 DEF FrameHolds, PutBack
<1>11. Framed(fr, free, reach)
  <2>1. Framed(frames, free, L)
    BY <1>1, SoundIs
  <2>2. Pushed(fr, frames, frame)
    BY <1>2, <2>1, PushIs DEF Framed
  <2> QED BY <1>5, <1>6, <1>10, <2>1, <2>2, FramedPush
<1>12. Knowing(facts, free, reach)
  BY <1>1, <1>6, <1>7, SoundIs DEF Knowing
<1>13. Settled(settle, free, reach)
  <2>1. settle = Still
    BY DEF Enter
  <2> QED BY <2>1 DEF Settled
<1>15. Sound(facts, q, settle, fr, leaves, opening, bound, reach)
  BY <1>1, <1>8, <1>9, <1>11, <1>12, <1>13, SoundIs DEF Sound
<1>16. UNCHANGED <<facts, settle, order, leaves, opening, bound, spent, reach>>
  BY DEF Enter
<1> QED BY <1>1, <1>15, <1>16 DEF FactsInv

-----------------------------------------------------------------------------
(* Statements keep the invariant *)

LEMMA QuietIs ==
    ASSUME FactsInv, Quiet
    PROVE  /\ order \in Orders /\ spent \in 0 .. MaxStatements
           /\ bound \subseteq Locals /\ leaves \in BOOLEAN /\ opening \in BOOLEAN
           /\ queue = <<>> /\ settle = Still /\ Live(queue, reach) = reach
           /\ Knowing(facts, Free(bound), reach) /\ Framed(frames, Free(bound), reach)
           /\ leaves => reach = {}
           /\ opening => ~leaves
           /\ \A s \in reach : Proper(s, Free(bound)) /\ Admits(facts, s) /\ s \in Stores
<1>1. queue = <<>> /\ settle = Still
  BY DEF Quiet
<1>2. PICK R, free, depth : R = reach /\ free = Free(bound) /\ depth = Len(frames)
  OBVIOUS
<1>3. Live(queue, reach) = reach
  BY <1>1, <1>2, NoneQueued
<1> QED BY <1>1, <1>3, SoundIs

\* What is said of a condition is queued for the stores that get past it.
LEMMA GivenTrue ==
    ASSUME Roomy, NEW condition \in Conditions, NEW bd, Tests(condition, bd), NEW S, NEW free,
           free = Free(bd), \A s \in S : Proper(s, free),
           NEW R, R = Given(S, condition, TRUE), NEW q, q = Narrowing(condition, TRUE), NEW depth
    PROVE  Ready(q, free, R, depth) /\ R \subseteq S /\ Testable(condition, free)
<1>1. Testable(condition, free)
  BY TestsAre
<1>2. R \subseteq S /\ Found(condition, free, TRUE, R)
  BY DEF Given, Found
<1> QED BY <1>1, <1>2, TrueQueued

LEMMA WhereKeeps ==
    ASSUME Roomy, FactsInv, NEW condition \in Conditions, Where(condition) PROVE FactsInv'
<1>1. PICK q, S, R, free, depth :
         q = queue' /\ S = reach /\ R = reach' /\ free = Free(bound) /\ depth = Len(frames)
  OBVIOUS
<1>2. /\ q = Narrowing(condition, TRUE) /\ R = Given(S, condition, TRUE) /\ Tests(condition, bound)
      /\ Quiet /\ opening /\ spent < MaxStatements /\ spent' = spent + 1
  BY <1>1 DEF Where
<1>3. \A s \in S : Proper(s, free) /\ Admits(facts, s)
  BY <1>1, <1>2, QuietIs
<1>4. Ready(q, free, R, depth) /\ R \subseteq S
  BY <1>1, <1>2, <1>3, GivenTrue
<1>5. Knowing(facts, free, R) /\ Framed(frames, free, R)
  BY <1>1, <1>2, <1>4, QuietIs, FramedFewer DEF Knowing
<1>6. Settled(settle, free, R)
  BY <1>2, QuietIs DEF Settled
<1>7. Sound(facts, q, settle, frames, leaves, opening, bound, R)
  BY <1>1, <1>2, <1>4, <1>5, <1>6, QuietIs DEF Sound, Ready
<1>8. UNCHANGED <<facts, settle, order, frames, leaves, opening, bound>>
  BY DEF Where
<1>9. spent' \in 0 .. MaxStatements /\ order \in Orders
  BY <1>2, QuietIs, WidthAssumption
<1> QED BY <1>1, <1>7, <1>8, <1>9 DEF FactsInv

LEMMA StatementIs ==
    ASSUME FactsInv, Statement
    PROVE  /\ Quiet /\ ~leaves /\ opening' = FALSE /\ spent' \in 0 .. MaxStatements
BY SoundIs, WidthAssumption DEF Statement

LEMMA IfKeeps ==
    ASSUME Roomy, FactsInv, NEW condition \in Conditions, NEW kind \in {"lone", "then"}, If(condition, kind)
    PROVE  FactsInv'
<1>1. PICK q, S, R, fr, free, depth, x :
         /\ q = queue' /\ S = reach /\ R = reach' /\ fr = frames' /\ free = Free(bound) /\ depth = Len(fr)
         /\ x = [kind |-> kind, outer |-> facts, condition |-> condition, leaves |-> leaves,
                 skipped |-> Given(reach, condition, FALSE)]
  OBVIOUS
<1>2. /\ q = Narrowing(condition, TRUE) /\ R = Given(S, condition, TRUE) /\ Tests(condition, bound)
      /\ Statement /\ Len(frames) < MaxNesting /\ fr = Append(frames, x)
  BY <1>1 DEF If, Open
<1>3. Quiet /\ ~leaves /\ opening' = FALSE /\ spent' \in 0 .. MaxStatements
  BY <1>2, StatementIs
<1>4. \A s \in S : Proper(s, free) /\ Admits(facts, s)
  BY <1>1, <1>3, QuietIs
<1>5. Ready(q, free, R, depth) /\ R \subseteq S /\ Testable(condition, free)
  BY <1>1, <1>2, <1>4, GivenTrue
<1>6. /\ x.skipped \subseteq S /\ \A s \in x.skipped : Finds(condition, FALSE, s)
      /\ x.kind \in {"lone", "then"} /\ x.outer = facts /\ x.condition = condition /\ x.leaves = FALSE
  BY <1>1, <1>3, QuietIs DEF Given
<1>7. FrameHolds(x, free) /\ PutBack(x, S)
  <2>1. Knowing(facts, free, x.skipped)
    BY <1>1, <1>3, <1>6, QuietIs DEF Knowing
  <2> QED BY <1>4, <1>5, <1>6, <2>1 DEF FrameHolds, PutBack
<1>8. Framed(fr, free, R)
  <2>1. Framed(frames, free, S)
    BY <1>1, <1>3, QuietIs
  <2>2. Pushed(fr, frames, x)
    BY <1>2, <2>1, PushIs DEF Framed
  <2> QED BY <1>2, <1>5, <1>6, <1>7, <2>1, <2>2, FramedPush
<1>9. Knowing(facts, free, R)
  BY <1>1, <1>3, <1>5, QuietIs DEF Knowing
<1>10. Settled(settle, free, R)
  BY <1>3, QuietIs DEF Settled
<1>11. Sound(facts, q, settle, fr, leaves, FALSE, bound, R)
  BY <1>1, <1>3, <1>5, <1>8, <1>9, <1>10, QuietIs DEF Sound, Ready
<1>12. UNCHANGED <<facts, settle, order, leaves, bound>> /\ order \in Orders
  BY <1>3, QuietIs DEF If
<1> QED BY <1>1, <1>3, <1>11, <1>12 DEF FactsInv

LEMMA LeaveKeeps == ASSUME Roomy, FactsInv, Leave PROVE FactsInv'
<1>1. PICK free : free = Free(bound)
  OBVIOUS
<1>2. Quiet /\ ~leaves /\ opening' = FALSE /\ spent' \in 0 .. MaxStatements /\ leaves' = TRUE /\ reach' = {}
  BY StatementIs DEF Leave
<1>3. Live(<<>>, {}) = {} /\ Queued(<<>>, free, {}, Len(frames))
  BY NoneQueued
<1>4. Knowing(facts, free, {}) /\ Settled(settle, free, {})
  BY <1>1, <1>2, QuietIs DEF Knowing, Settled
<1>5. Framed(frames, free, {})
  <2>1. Framed(frames, free, reach) /\ {} \subseteq reach
    BY <1>1, <1>2, QuietIs
  <2> QED BY <2>1, FramedFewer
<1>6. Sound(facts, <<>>, settle, frames, TRUE, FALSE, bound, {})
  BY <1>1, <1>2, <1>3, <1>4, <1>5, QuietIs DEF Sound
<1>7. UNCHANGED <<facts, queue, settle, order, frames, bound>> /\ order \in Orders /\ queue = <<>>
  BY <1>2, QuietIs DEF Leave
<1> QED BY <1>2, <1>6, <1>7 DEF FactsInv

LEMMA TakeIs ==
    ASSUME Roomy, FactsInv, Quiet, NEW term \in Terms, NEW e \in Values, Reads(e, bound), NEW declared \in Ranges,
           Take(term, e, declared), NEW g, g = facts', NEW st, st = settle', NEW M, M = reach',
           NEW less, less = Free(bound) \ {term}
    PROVE  Knowing(g, less, M) /\ Moves(reach, M, term) /\ Settled(st, less, M)
<1>1. PICK free, f, R : free = Free(bound) /\ f = facts /\ R = reach
  OBVIOUS
<1>2. free \subseteq Terms /\ Knowing(f, free, R) /\ order \in Orders
  BY <1>1, FreeIs, QuietIs
<1>3. e \in Expressions /\ Room(Weight(e)) /\ Bound(e, free)
  BY <1>1, ValuesAre
<1>4. g = Set(f, term, Meet(RangeOf(e, f), declared)) /\ M = Bind(R, term, e, declared) /\ st = Settling(g)
  BY <1>1 DEF Take
<1>5. Knowing(g, free \ {term}, M) /\ Moves(R, M, term)
  BY <1>2, <1>3, <1>4, BindIs
<1>6. Settled(st, less, M)
  BY <1>1, <1>2, <1>4, <1>5, SettlingIs DEF Knowing
<1> QED BY <1>1, <1>5, <1>6

LEMMA LetKeeps ==
    ASSUME Roomy, FactsInv, NEW n \in Locals, NEW e \in Values, NEW declared \in Declarations, Let(n, e, declared)
    PROVE  FactsInv'
<1>1. PICK g, st, M, bd, free, less :
         /\ g = facts' /\ st = settle' /\ M = reach' /\ bd = bound' /\ free = Free(bound) /\ less = free \ {n}
  OBVIOUS
<1>2. Statement /\ Reads(e, bound) /\ n \notin bound /\ bd = bound \union {n} /\ Take(n, e, declared)
  BY <1>1 DEF Let
<1>3. Quiet /\ ~leaves /\ opening' = FALSE /\ spent' \in 0 .. MaxStatements
  BY <1>2, StatementIs
<1>4. n \in Terms /\ n \in free /\ less = Free(bd) /\ bd \subseteq Locals /\ free \subseteq Terms
  BY <1>1, <1>2, <1>3, QuietIs DEF Terms, Free
<1>5. Knowing(g, less, M) /\ Moves(reach, M, n) /\ Settled(st, less, M)
  BY <1>1, <1>2, <1>3, <1>4, TakeIs, RefinedAssumption
<1>6. Framed(frames, less, M)
  <2>1. Framed(frames, free, reach)
    BY <1>1, <1>3, QuietIs
  <2>2. PICK fr, R : fr = frames /\ R = reach
    OBVIOUS
  <2>3. Framed(fr, less, M)
    BY <1>1, <1>4, <1>5, <2>1, <2>2, FramedMoved
  <2> QED BY <2>2, <2>3
<1>7. Live(<<>>, M) = M /\ Queued(<<>>, less, M, Len(frames))
  BY NoneQueued
<1>8. Sound(g, <<>>, st, frames, FALSE, FALSE, bd, M)
  BY <1>4, <1>5, <1>6, <1>7 DEF Sound
<1>9. UNCHANGED <<queue, order, frames, leaves>> /\ order \in Orders /\ queue = <<>> /\ leaves = FALSE
  BY <1>2, <1>3, QuietIs DEF Take
<1> QED BY <1>1, <1>3, <1>8, <1>9 DEF FactsInv

LEMMA AssignKeeps ==
    ASSUME Roomy, Forms = {}, FactsInv, NEW x \in State, NEW e \in Values, Assign(x, e)
    PROVE  FactsInv'
<1>1. PICK g, st, M, free :
         g = facts' /\ st = settle' /\ M = reach' /\ free = Free(bound)
  OBVIOUS
<1>2. Statement /\ Reads(e, bound) /\ ~InA("walk") /\ ~InA("lone") /\ Take(x, e, Refined[x]) /\ bound' = bound
  BY <1>1 DEF Assign
<1>3. Quiet /\ ~leaves /\ opening' = FALSE /\ spent' \in 0 .. MaxStatements
  BY <1>2, StatementIs
<1>4. x \in Terms /\ free = free \ {x} /\ Refined[x] \in Ranges
  <2>1. x \in Terms
    BY DEF Terms
  <2>2. x \notin Locals
    BY LocalsAre
  <2>3. Refined[x] \in Ranges
    BY RefinedAssumption
  <2> QED BY <1>1, <2>1, <2>2, <2>3 DEF Free
<1>5. Knowing(g, free, M) /\ Settled(st, free, M)
  <2>1. PICK less : less = free \ {x}
    OBVIOUS
  <2>2. PICK declared \in Ranges : declared = Refined[x]
    BY <1>4
  <2>3. Take(x, e, declared)
    BY <1>2, <2>2
  <2>4. Knowing(g, less, M) /\ Settled(st, less, M)
    BY <1>1, <1>2, <1>3, <1>4, <2>1, <2>3, TakeIs
  <2> QED BY <1>4, <2>1, <2>4
<1>6. Framed(frames, free, M)
  <2>1. Framed(frames, free, reach)
    BY <1>1, <1>3, QuietIs
  <2>2. DOMAIN frames = 1 .. Len(frames)
    BY <2>1, SeqIs DEF Framed
  <2>3. \A i \in 1 .. Len(frames) : frames[i].kind \notin {"lone", "walk"}
    BY <1>2, <2>2 DEF InA
  <2> QED BY <2>1, <2>3, FramedOpen
<1>7. Live(<<>>, M) = M /\ Queued(<<>>, free, M, Len(frames))
  BY NoneQueued
<1>8. Sound(g, <<>>, st, frames, FALSE, FALSE, bound, M)
  BY <1>1, <1>3, <1>5, <1>6, <1>7, QuietIs DEF Sound
<1>9. UNCHANGED <<queue, order, frames, leaves>> /\ order \in Orders /\ queue = <<>> /\ leaves = FALSE
  BY <1>2, <1>3, QuietIs DEF Take
<1> QED BY <1>1, <1>2, <1>3, <1>8, <1>9 DEF FactsInv

LEMMA TopIs ==
    ASSUME FactsInv, Quiet, frames # <<>>, NEW x, x = Top, NEW to, to = Below,
           NEW M, M = x.skipped \union reach, NEW free, free = Free(bound)
    PROVE  /\ Framed(to, free, M) /\ FrameHolds(x, free) /\ PutBack(x, reach) /\ Len(to) < MaxNesting
           /\ x.leaves = FALSE /\ Knowing(x.outer, free, x.skipped)
<1>1. PICK L, fr : L = reach /\ fr = frames
  OBVIOUS
<1>2. Framed(fr, free, L) /\ fr # <<>> /\ x = fr[Len(fr)] /\ to = SubSeq(fr, 1, Len(fr) - 1)
  BY <1>1, QuietIs DEF Top, Below
<1>3. M \subseteq L \union x.skipped
  BY <1>1
<1>4. Framed(to, free, M) /\ FrameHolds(x, free) /\ PutBack(x, L) /\ Len(to) < MaxNesting
  BY <1>2, <1>3, FramedPop
<1> QED BY <1>1, <1>4 DEF FrameHolds

LEMMA ElseKeeps == ASSUME Roomy, FactsInv, Else PROVE FactsInv'
<1>1. PICK x, y, q, R, S, M, to, fr, free, depth :
         /\ x = Top /\ q = queue' /\ R = reach' /\ S = reach /\ to = Below /\ fr = frames' /\ free = Free(bound)
         /\ M = x.skipped \union reach /\ depth = Len(fr)
         /\ y = [kind |-> "else", outer |-> facts, left |-> leaves, leaves |-> x.leaves, skipped |-> reach]
  OBVIOUS
<1>2. /\ Quiet /\ frames # <<>> /\ x.kind = "then" /\ fr = Append(to, y) /\ facts' = x.outer
      /\ q = Narrowing(x.condition, FALSE) /\ leaves' = FALSE /\ R = x.skipped
  BY <1>1 DEF Else
<1>3. /\ Framed(to, free, M) /\ FrameHolds(x, free) /\ Len(to) < MaxNesting
      /\ x.leaves = FALSE /\ Knowing(x.outer, free, R)
  BY <1>1, <1>2, TopIs
<1>4. Ready(q, free, R, depth)
  <2>1. Testable(x.condition, free) /\ Found(x.condition, free, FALSE, R)
    BY <1>2, <1>3 DEF FrameHolds, Found, Knowing
  <2> QED BY <1>2, <2>1, FalseQueued
<1>5. FrameHolds(y, free) /\ PutBack(y, M) /\ y.skipped \subseteq M
  <2>1. /\ y.kind = "else" /\ y.outer = facts /\ y.left = leaves /\ y.leaves = FALSE /\ y.skipped = S
    BY <1>1, <1>3
  <2>2. Knowing(facts, free, S) /\ leaves \in BOOLEAN /\ (leaves => S = {})
    BY <1>1, <1>2, QuietIs
  <2> QED BY <1>1, <2>1, <2>2 DEF FrameHolds, PutBack
<1>6. Framed(fr, free, R)
  <2>1. Pushed(fr, to, y)
    BY <1>2, <1>3, PushIs DEF Framed
  <2>2. R \subseteq M
    BY <1>1, <1>2
  <2> QED BY <1>3, <1>5, <2>1, <2>2, FramedPush
<1>7. Settled(settle, free, R)
  BY <1>2, QuietIs DEF Settled
<1>8. Sound(x.outer, q, settle, fr, FALSE, opening, bound, R)
  BY <1>1, <1>2, <1>3, <1>4, <1>6, <1>7, QuietIs DEF Sound, Ready
<1>9. UNCHANGED <<settle, order, opening, bound, spent>> /\ order \in Orders /\ spent \in 0 .. MaxStatements
  BY <1>2, QuietIs DEF Else
<1> QED BY <1>1, <1>2, <1>8, <1>9 DEF FactsInv

LEMMA EndElseKeeps == ASSUME Roomy, FactsInv, NEW last \in BOOLEAN, EndElse(last) PROVE FactsInv'
<1>1. PICK x, g, R, S, to, free, lv :
         /\ x = Top /\ g = facts' /\ R = reach' /\ S = reach /\ to = Below /\ free = Free(bound) /\ lv = leaves'
  OBVIOUS
<1>2. /\ Quiet /\ frames # <<>> /\ x.kind = "else" /\ R = x.skipped \union S /\ frames' = to
      /\ lv = (x.leaves \/ (last /\ x.left /\ leaves))
      /\ g = (IF x.left /\ ~leaves THEN facts ELSE IF leaves /\ ~x.left THEN x.outer ELSE JoinFacts(x.outer, facts))
  BY <1>1 DEF EndElse
<1>3. /\ Framed(to, free, R) /\ FrameHolds(x, free) /\ x.leaves = FALSE /\ Knowing(x.outer, free, x.skipped)
  BY <1>1, <1>2, TopIs
<1>4. x.left \in BOOLEAN /\ (x.left => x.skipped = {}) /\ leaves \in BOOLEAN /\ (leaves => S = {})
  BY <1>1, <1>2, <1>3, QuietIs DEF FrameHolds
<1>5. Knowing(facts, free, S)
  BY <1>1, <1>2, QuietIs
<1>6. Knowing(g, free, R)
  <2>1. CASE x.left /\ ~leaves
    BY <1>2, <1>4, <1>5, <2>1
  <2>2. CASE leaves /\ ~x.left
    BY <1>2, <1>3, <1>4, <2>2
  <2>3. CASE ~(x.left /\ ~leaves) /\ ~(leaves /\ ~x.left)
    <3>1. PICK f, o : f = facts /\ o = x.outer
      OBVIOUS
    <3>2. g = JoinFacts(o, f) /\ IsFacts(o) /\ IsFacts(f)
      BY <1>2, <1>3, <1>5, <2>3, <3>1 DEF Knowing, Untouched
    <3>3. /\ IsFacts(g) /\ \A s \in Stores : Admits(o, s) \/ Admits(f, s) => Admits(g, s)
          /\ \A n \in Terms : Silent(o, n) => Silent(g, n)
      BY <3>2, JoinFactsIs
    <3>4. free \subseteq Terms
      BY <1>1, FreeIs
    <3> QED BY <1>2, <1>3, <1>5, <3>1, <3>3, <3>4 DEF Knowing, Untouched, Proper
  <2> QED BY <2>1, <2>2, <2>3
<1>7. lv \in BOOLEAN /\ (lv => R = {}) /\ (lv => leaves)
  BY <1>2, <1>3, <1>4
<1>8. Live(<<>>, R) = R /\ Queued(<<>>, free, R, Len(to)) /\ Settled(settle, free, R)
  BY <1>2, NoneQueued, QuietIs DEF Settled
<1>9. Sound(g, <<>>, settle, to, lv, opening, bound, R)
  BY <1>1, <1>2, <1>3, <1>6, <1>7, <1>8, QuietIs DEF Sound
<1>10. UNCHANGED <<queue, settle, order, opening, bound, spent>> /\ queue = <<>>
       /\ order \in Orders /\ spent \in 0 .. MaxStatements
  BY <1>2, QuietIs DEF EndElse
<1> QED BY <1>1, <1>2, <1>9, <1>10 DEF FactsInv

LEMMA EndWalkKeeps == ASSUME Roomy, FactsInv, EndWalk PROVE FactsInv'
<1>1. PICK x, g, R, S, to, free, o, f :
         /\ x = Top /\ g = facts' /\ R = reach' /\ S = reach /\ to = Below /\ free = Free(bound)
         /\ o = x.outer /\ f = facts
  OBVIOUS
<1>2. /\ Quiet /\ frames # <<>> /\ R = x.skipped \union S /\ frames' = to /\ leaves' = x.leaves
      /\ g = JoinFacts(o, f)
  BY <1>1 DEF EndWalk
<1>3. /\ Framed(to, free, R) /\ x.leaves = FALSE /\ Knowing(o, free, x.skipped) /\ Knowing(f, free, S)
  BY <1>1, <1>2, TopIs, QuietIs
<1>4. /\ IsFacts(g) /\ \A s \in Stores : Admits(o, s) \/ Admits(f, s) => Admits(g, s)
      /\ \A n \in Terms : Silent(o, n) => Silent(g, n)
  BY <1>2, <1>3, JoinFactsIs DEF Knowing, Untouched
<1>5. Knowing(g, free, R)
  <2>1. free \subseteq Terms
    BY <1>1, FreeIs
  <2> QED BY <1>2, <1>3, <1>4, <2>1 DEF Knowing, Untouched, Proper
<1>6. Live(<<>>, R) = R /\ Queued(<<>>, free, R, Len(to)) /\ Settled(settle, free, R)
  BY <1>2, NoneQueued, QuietIs DEF Settled
<1>7. Sound(g, <<>>, settle, to, FALSE, opening, bound, R)
  BY <1>1, <1>2, <1>3, <1>5, <1>6, QuietIs DEF Sound
<1>8. UNCHANGED <<queue, settle, order, opening, bound, spent>> /\ queue = <<>>
      /\ order \in Orders /\ spent \in 0 .. MaxStatements
  BY <1>2, QuietIs DEF EndWalk
<1> QED BY <1>1, <1>2, <1>3, <1>7, <1>8 DEF FactsInv

LEMMA EndLoneKeeps == ASSUME Roomy, FactsInv, EndLone PROVE FactsInv'
<1>1. PICK x, q, R, S, to, free, depth, o :
         /\ x = Top /\ q = queue' /\ R = reach' /\ S = reach /\ to = Below /\ free = Free(bound)
         /\ depth = Len(to) /\ o = x.outer
  OBVIOUS
<1>2. /\ Quiet /\ frames # <<>> /\ x.kind = "lone" /\ R = x.skipped \union S /\ frames' = to /\ leaves' = x.leaves
      /\ facts' = o /\ q = (IF leaves THEN Narrowing(x.condition, FALSE) ELSE <<>>)
  BY <1>1 DEF EndLone
<1>3. /\ Framed(to, free, R) /\ FrameHolds(x, free) /\ PutBack(x, S) /\ x.leaves = FALSE
      /\ Knowing(o, free, x.skipped)
  BY <1>1, <1>2, TopIs
<1>4. leaves \in BOOLEAN /\ (leaves => S = {}) /\ \A s \in S : Proper(s, free)
  BY <1>1, <1>2, QuietIs
<1>5. Knowing(o, free, R)
  BY <1>1, <1>2, <1>3, <1>4 DEF Knowing, PutBack
<1>6. Ready(q, free, R, depth)
  <2>1. CASE leaves
    <3>1. q = Narrowing(x.condition, FALSE) /\ R = x.skipped
      BY <1>2, <1>4, <2>1
    <3>2. Testable(x.condition, free) /\ Found(x.condition, free, FALSE, R)
      BY <1>2, <1>3, <3>1 DEF FrameHolds, Found, Knowing
    <3> QED BY <3>1, <3>2, FalseQueued
  <2>2. CASE ~leaves
    BY <1>2, <2>2, NoneQueued DEF Ready
  <2> QED BY <2>1, <2>2
<1>7. Settled(settle, free, R)
  BY <1>2, QuietIs DEF Settled
<1>8. Sound(o, q, settle, to, FALSE, opening, bound, R)
  BY <1>1, <1>2, <1>3, <1>5, <1>6, <1>7, QuietIs DEF Sound, Ready
<1>9. UNCHANGED <<settle, order, opening, bound, spent>> /\ order \in Orders /\ spent \in 0 .. MaxStatements
  BY <1>2, QuietIs DEF EndLone
<1> QED BY <1>1, <1>2, <1>3, <1>8, <1>9 DEF FactsInv

\* A walk's bound on its index, and the walk itself, wait to be taken.
Awaited(index, length, keep, R) ==
    <<[for |-> "below", index |-> index, length |-> length],
      [for |-> "enter", keep |-> keep, skipped |-> R]>>
Held(q, S, free, R, depth) == Live(q, R) = S /\ Queued(q, free, R, depth)
Walked(index, length, keep, R, M) ==
    /\ \A s \in R \union M : s[index] < s[length]
    /\ \A s \in M : \A c \in keep : Finds(c, TRUE, s)

LEMMA WalkQueued ==
    ASSUME NEW less, NEW index \in Terms, index \notin less, NEW length \in Terms, length \notin less,
           NEW keep, \A c \in keep : Testable(c, less), NEW R, NEW M, NEW depth \in Nat, depth < MaxNesting,
           Walked(index, length, keep, R, M), NEW q, q = Awaited(index, length, keep, R)
    PROVE  Held(q, R \union M, less, M, depth)
<1>1. PICK b, x : /\ b = [for |-> "below", index |-> index, length |-> length]
                  /\ x = [for |-> "enter", keep |-> keep, skipped |-> R]
  OBVIOUS
<1>2. /\ b.for = "below" /\ b.index = index /\ b.length = length
      /\ x.for = "enter" /\ x.keep = keep /\ x.skipped = R
  BY <1>1
<1>3. q = <<b, x>> /\ Len(q) = 2 /\ q[1] = b /\ q[2] = x
  BY <1>1 DEF Awaited
<1>4. 1 .. Len(q) = {1, 2}
  BY <1>3
<1>5. IsSeq(q)
  <2>1. q \in Seq({b, x})
    BY <1>3
  <2> QED BY <2>1 DEF IsSeq
<1>6. Waiting(q) = R
  <2>1. {i \in 1 .. Len(q) : q[i].for = "enter"} = {2}
    BY <1>2, <1>3, <1>4
  <2> QED BY <1>2, <1>3, <2>1 DEF Waiting
<1>7. Live(q, M) = R \union M
  BY <1>6 DEF Live
<1>8. Said(b, less) /\ (\A s \in Live(q, M) : Told(b, s)) /\ Entering(b, M, depth)
  BY <1>2, <1>7 DEF Said, Told, Entering, Walked
<1>9. Said(x, less) /\ (\A s \in Live(q, M) : Told(x, s)) /\ Entering(x, M, depth)
  BY <1>2 DEF Said, Told, Entering, Walked
<1>10. ASSUME NEW i \in 1 .. Len(q)
       PROVE  /\ q[i].for \in {"bound", "rule out", "below", "enter"} /\ Said(q[i], less)
              /\ \A s \in Live(q, M) : Told(q[i], s)
              /\ Entering(q[i], M, depth)
  <2>1. q[i] = b \/ q[i] = x
    BY <1>3, <1>4
  <2> QED BY <1>2, <1>8, <1>9, <2>1
<1> QED BY <1>5, <1>7, <1>10 DEF Queued, Held

LEMMA WalkKeeps ==
    ASSUME Roomy, Forms = {}, FactsInv, NEW index \in Locals, NEW length \in Lengths, NEW keep \in SUBSET Conditions,
           Walk(index, length, keep)
    PROVE  FactsInv'
<1>1. PICK g, st, q, f, R, M, bd, fr, free, less :
         /\ g = facts' /\ st = settle' /\ q = queue' /\ f = facts /\ R = reach /\ M = reach' /\ bd = bound'
         /\ fr = frames /\ free = Free(bound) /\ less = free \ {index}
  OBVIOUS
<1>2. /\ Statement /\ Len(fr) < MaxNesting /\ index \notin bound /\ bd = bound \union {index}
      /\ \A c \in keep : Tests(c, bd)
      /\ \A s \in R : s[length] > 0
      /\ g = Set(f, index, Between(0, MaxInt)) /\ st = Settling(g) /\ M = Turns(R, index, length, keep)
      /\ q = <<[for |-> "below", index |-> index, length |-> length],
               [for |-> "enter", keep |-> keep, skipped |-> R]>>
  BY <1>1 DEF Walk
<1>3. Quiet /\ ~leaves /\ opening' = FALSE /\ spent' \in 0 .. MaxStatements
  BY <1>2, StatementIs
<1>4. /\ index \in Terms /\ length \in Terms /\ index \in free /\ less = Free(bd) /\ bd \subseteq Locals
      /\ free \subseteq Terms /\ index \notin less /\ length \notin less
  BY <1>1, <1>2, <1>3, QuietIs, LocalsAre DEF Terms, Free
<1>5. Knowing(f, free, R) /\ Framed(fr, free, R) /\ order \in Orders
  BY <1>1, <1>3, QuietIs
<1>6. /\ Knowing(g, less, R \union M) /\ Moves(R, R \union M, index)
      /\ \A u \in M : u[index] < u[length] /\ \A c \in keep : Finds(c, TRUE, u)
      /\ \A u \in R : u[length] > 0 => u[index] < u[length]
  <2>1. g = Set(f, index, Between(0, MaxInt)) /\ M = Turns(R, index, length, keep)
    BY <1>2
  <2>2. /\ Knowing(g, free \ {index}, R \union M) /\ Moves(R, R \union M, index)
        /\ \A u \in M : u[index] < u[length] /\ \A c \in keep : Finds(c, TRUE, u)
        /\ \A u \in R : u[length] > 0 => u[index] < u[length]
    BY <1>4, <1>5, <2>1, TurnsAre
  <2> QED BY <1>1, <2>2
<1>7. Live(q, M) = R \union M /\ Queued(q, less, M, Len(fr))
  <2>1. PICK depth : depth = Len(fr)
    OBVIOUS
  <2>2. depth \in Nat
    BY <1>5, <2>1, SeqIs DEF Framed
  <2>3. \A c \in keep : Testable(c, less)
    BY <1>2, <1>4, TestsAre
  <2>4. \A s \in R \union M : s[index] < s[length]
    BY <1>2, <1>6
  <2>5. \A s \in M : \A c \in keep : Finds(c, TRUE, s)
    BY <1>6
  <2>6. depth < MaxNesting
    BY <1>2, <2>1
  <2>7. q = Awaited(index, length, keep, R) /\ Walked(index, length, keep, R, M)
    BY <1>2, <2>4, <2>5 DEF Awaited, Walked
  <2>8. Held(q, R \union M, less, M, depth)
    BY <1>4, <2>2, <2>3, <2>6, <2>7, WalkQueued
  <2> QED BY <2>1, <2>8 DEF Held
<1>8. Framed(fr, less, R \union M)
  <2>1. PICK L : L = R \union M
    OBVIOUS
  <2>2. less \subseteq free /\ Moves(R, L, index)
    BY <1>1, <1>6, <2>1
  <2>3. Framed(fr, less, L)
    BY <1>4, <1>5, <2>2, FramedMoved
  <2> QED BY <2>1, <2>3
<1>9. Settled(st, less, R \union M)
  <2>1. PICK L : L = R \union M
    OBVIOUS
  <2>2. Untouched(g, less) /\ \A s \in L : Admits(g, s)
    BY <1>6, <2>1 DEF Knowing
  <2>3. Settled(st, less, L)
    BY <1>2, <1>5, <2>2, SettlingIs
  <2> QED BY <2>1, <2>3
<1>10. Sound(g, q, st, fr, FALSE, FALSE, bd, M)
  BY <1>4, <1>6, <1>7, <1>8, <1>9 DEF Sound
<1>11. UNCHANGED <<order, frames, leaves>> /\ leaves = FALSE
  BY <1>2, <1>3, QuietIs DEF Walk
<1> QED BY <1>1, <1>3, <1>5, <1>10, <1>11 DEF FactsInv

-----------------------------------------------------------------------------
(* The invariant *)

LEMMA InitHolds == ASSUME Roomy, Init PROVE FactsInv
<1>1. PICK f, R, D : /\ f = facts /\ R = reach
                     /\ D = [t \in Terms |-> IF t \in Params \union Lengths
                                              THEN Meet(Unbound(t), Refined[t]) ELSE Unbound(t)]
  OBVIOUS
<1>2. /\ f = [Nothing EXCEPT !.known = D]
      /\ R = {s \in Stores :
                \A t \in Terms \union Fields :
                    IF t \in Locals THEN s[t] = 0
                    ELSE Within(s[t], Refined[t]) /\ (t \in Lengths => s[t] >= 0)}
      /\ order \in Orders /\ queue = <<>> /\ settle = Still /\ frames = <<>> /\ leaves = FALSE
      /\ opening = TRUE /\ bound = {} /\ spent = 0
  BY <1>1 DEF Init
<1>3. PICK E, C : E = [p \in {} |-> Any] /\ C = [c \in Couples |-> Any]
  OBVIOUS
<1>4. Nothing.differences = E /\ Nothing.totals = C /\ DOMAIN Nothing = {"known", "differences", "totals"}
  BY <1>3 DEF Nothing
<1>5. /\ DOMAIN f = {"known", "differences", "totals"} /\ f.known = D /\ f.differences = E /\ f.totals = C
  BY <1>2, <1>4
<1>6. ASSUME NEW t \in Terms
      PROVE  /\ D[t] \in Ranges /\ (t \in Locals => D[t] = Any)
             /\ \A s \in R : Within(s[t], D[t])
  <2>1. Unbound(t) \in Ranges /\ (t \in Locals => Unbound(t) = Any)
    BY UnboundIs
  <2>2. \A s \in R : s[t] \in Int /\ Fits(s[t]) /\ Within(s[t], Unbound(t))
    <3> SUFFICES ASSUME NEW s \in R PROVE s[t] \in Int /\ Fits(s[t]) /\ Within(s[t], Unbound(t))
      OBVIOUS
    <3>1. s[t] \in -MaxValue .. MaxValue
      BY <1>2 DEF Stores
    <3>2. s[t] \in Int /\ Fits(s[t])
      BY <3>1, Width DEF Fits
    <3>3. Within(s[t], Any)
      BY <3>2, AnyIs
    <3>4. t \in Lengths => s[t] >= 0
      BY <1>2, LocalsAre
    <3>5. t \in Lengths => Within(s[t], Between(0, MaxInt))
      BY <3>2, <3>4, BetweenIs, Width DEF Fits
    <3> QED BY <3>2, <3>3, <3>5 DEF Unbound
  <2>3. CASE t \in Params \union Lengths
    <3>1. D[t] = Meet(Unbound(t), Refined[t]) /\ t \notin Locals
      BY <1>1, <2>3, LocalsAre
    <3>2. Refined[t] \in Ranges
      BY <2>3, RefinedAssumption
    <3>3. \A s \in R : Within(s[t], Refined[t])
      BY <1>2, <3>1
    <3> QED BY <2>1, <2>2, <3>1, <3>2, <3>3, MeetIs
  <2>4. CASE t \notin Params \union Lengths
    <3>1. D[t] = Unbound(t)
      BY <1>1, <2>4
    <3> QED BY <2>1, <2>2, <3>1
  <2> QED BY <2>3, <2>4
<1>7. IsFacts(f)
  <2>1. D \in [Terms -> Ranges]
    BY <1>1, <1>6
  <2>2. C \in [Couples -> Ranges] /\ E \in [DOMAIN E -> Ranges] /\ DOMAIN E = {}
    BY <1>3, AnyIs
  <2> QED BY <1>5, <2>1, <2>2 DEF IsFacts
<1>8. Untouched(f, Locals)
  <2>1. ASSUME NEW n \in Locals PROVE Silent(f, n)
    <3>1. n \in Terms
      BY DEF Terms
    <3>2. f.known[n] = Any
      BY <1>5, <1>6, <3>1
    <3>3. DOMAIN f.differences = {} /\ \A c \in Couples : f.totals[c] = Any
      BY <1>3, <1>5
    <3> QED BY <3>2, <3>3 DEF Silent
  <2> QED BY <1>7, <2>1 DEF Untouched
<1>9. ASSUME NEW s \in R PROVE Proper(s, Locals) /\ Admits(f, s)
  <2>1. s \in Stores
    BY <1>2
  <2>2. Proper(s, Locals)
    <3>1. \A t \in Fields : t \notin Locals
      BY LocalsAre
    <3>2. \A t \in Fields : Within(s[t], Refined[t])
      BY <1>2, <3>1
    <3>3. \A n \in Locals : s[n] = 0
      BY <1>2 DEF Terms
    <3> QED BY <2>1, <3>2, <3>3 DEF Proper
  <2>3. \A t \in Terms : Within(s[t], f.known[t])
    BY <1>5, <1>6
  <2>4. \A p \in DOMAIN f.differences : Within(s[p[1]] - s[p[2]], f.differences[p])
    BY <1>3, <1>5
  <2>5. ASSUME NEW p \in Pairs PROVE Within(s[p[1]] + s[p[2]], f.totals[{p[1], p[2]}])
    <3>1. p[1] \in Terms /\ p[2] \in Terms
      BY PairHas
    <3>2. s[p[1]] \in -MaxValue .. MaxValue /\ s[p[2]] \in -MaxValue .. MaxValue
      BY <2>1, <3>1 DEF Stores
    <3>3. PICK v, w : v = s[p[1]] /\ w = s[p[2]]
      OBVIOUS
    <3>4. v + w \in Int /\ Fits(v + w)
      BY <3>2, <3>3, Width DEF Fits, Roomy
    <3>5. f.totals[{p[1], p[2]}] = Any
      BY <1>3, <1>5 DEF Couples
    <3> QED BY <3>3, <3>4, <3>5, AnyIs
  <2> QED BY <2>2, <2>3, <2>4, <2>5 DEF Admits
<1>10. Live(<<>>, R) = R /\ Queued(<<>>, Locals, R, 0)
  BY NoneQueued
<1>11. Framed(<<>>, Locals, R)
  <2>1. IsSeq(<<>>) /\ Len(<<>>) = 0
    <3>1. <<>> \in Seq({})
      OBVIOUS
    <3> QED BY <3>1 DEF IsSeq
  <2>2. 1 .. 0 = {} /\ 0 <= MaxNesting
    BY WidthAssumption
  <2> QED BY <2>1, <2>2 DEF Framed
<1>12. Free({}) = Locals
  BY DEF Free
<1>13. Sound(f, <<>>, Still, <<>>, FALSE, TRUE, {}, R)
  BY <1>8, <1>9, <1>10, <1>11, <1>12 DEF Sound, Knowing, Settled
<1>14. 0 \in 0 .. MaxStatements
  BY WidthAssumption
<1> QED BY <1>1, <1>2, <1>13, <1>14 DEF FactsInv

LEMMA NextKeeps == ASSUME Roomy, Forms = {}, FactsInv, [Next]_vars PROVE FactsInv'
<1>1. CASE UNCHANGED vars
  BY <1>1 DEF vars, FactsInv, Sound
<1>2. CASE Settle
  BY <1>2, SettleKeeps
<1>3. CASE EndRound
  BY <1>3, EndRoundKeeps
<1>4. CASE Narrow
  BY <1>4, NarrowKeeps
<1>5. CASE Enter
  BY <1>5, EnterKeeps
<1>6. CASE Check
  <2>1. ASSUME NEW c \in Conditions, Where(c) PROVE FactsInv'
    BY <2>1, WhereKeeps
  <2>2. ASSUME NEW c \in Conditions, NEW kind \in {"lone", "then"}, If(c, kind) PROVE FactsInv'
    BY <2>2, IfKeeps
  <2>3. ASSUME NEW e \in Values, NEW n \in Locals, NEW d \in Declarations, Let(n, e, d) PROVE FactsInv'
    BY <2>3, LetKeeps
  <2>4. ASSUME NEW e \in Values, NEW x \in State, Assign(x, e) PROVE FactsInv'
    BY <2>4, AssignKeeps
  <2>5. ASSUME NEW n \in Locals, NEW l \in Lengths, NEW c \in Conditions \union {<<>>},
               Walk(n, l, IF c = <<>> THEN {} ELSE {c})
        PROVE  FactsInv'
    <3>1. PICK keep : keep = (IF c = <<>> THEN {} ELSE {c})
      OBVIOUS
    <3>2. keep \in SUBSET Conditions
      BY <3>1
    <3>3. Walk(n, l, keep)
      BY <2>5, <3>1
    <3> QED BY <3>2, <3>3, WalkKeeps
  <2>6. CASE Leave
    BY <2>6, LeaveKeeps
  <2>7. CASE Else
    BY <2>7, ElseKeeps
  <2>8. CASE EndLone
    BY <2>8, EndLoneKeeps
  <2>9. CASE EndWalk
    BY <2>9, EndWalkKeeps
  <2>10. ASSUME NEW last \in BOOLEAN, EndElse(last) PROVE FactsInv'
    BY <2>10, EndElseKeeps
  <2> QED BY <1>6, <2>1, <2>2, <2>3, <2>4, <2>5, <2>6, <2>7, <2>8, <2>9, <2>10 DEF Check
<1> QED BY <1>1, <1>2, <1>3, <1>4, <1>5, <1>6 DEF Next

LEMMA InvariantHolds == ASSUME Roomy, Forms = {} PROVE Spec => []FactsInv
<1>1. Init => FactsInv
  BY InitHolds
<1>2. FactsInv /\ [Next]_vars => FactsInv'
  BY NextKeeps
<1> QED BY <1>1, <1>2, PTL DEF Spec

-----------------------------------------------------------------------------
(* What it says *)

\* What the checker keeps has its shape: no range is inverted but the empty
\* one, every recorded difference is of two names, and a settling is within the
\* round it started from (facts.rs Range, Facts, settle).
THEOREM TypeCorrect == ASSUME Roomy, Forms = {} PROVE Spec => []TypeOK
<1>1. ASSUME FactsInv PROVE TypeOK
  <2>1. IsFacts(facts)
    BY <1>1, SoundIs DEF Untouched
  <2>2. \A r \in Ranges : IsRange(r)
    BY DEF Ranges
  <2>3. /\ DOMAIN facts.known = Terms /\ \A t \in Terms : IsRange(facts.known[t])
        /\ DOMAIN facts.differences \subseteq Pairs
        /\ \A p \in DOMAIN facts.differences : IsRange(facts.differences[p])
        /\ DOMAIN facts.totals = Couples /\ \A c \in Couples : IsRange(facts.totals[c])
    BY <2>1, <2>2 DEF IsFacts
  <2>4. settle = Still \/ (settle.round \in 1 .. Rounds /\ settle.at \in 1 .. Tasks + 1)
    BY <1>1, SoundIs DEF Settled, Rounding, Tasks, Todo
  <2>5. leaves \in BOOLEAN /\ opening \in BOOLEAN /\ bound \subseteq Locals /\ spent \in 0 .. MaxStatements
    BY <1>1, SoundIs
  <2>6. Len(frames) <= MaxNesting
    BY <1>1, SoundIs DEF Framed
  <2>7. reach \subseteq Stores
    BY <1>1, SoundIs
  <2> QED BY <2>3, <2>4, <2>5, <2>6, <2>7 DEF TypeOK
<1>2. FactsInv => TypeOK
  BY <1>1
<1> QED BY <1>2, InvariantHolds, PTL

\* What the checker knows at a point of a body, settled or not yet, is true of
\* every run that gets there, whatever the program computes and tests, however
\* its blocks nest and leave, and in whatever order the pairs are listed
\* (facts.rs Facts; check.rs check_block, check_for).
THEOREM FactsAreTrue == ASSUME Roomy, Forms = {} PROVE Spec => []FactsHold
<1>1. ASSUME FactsInv PROVE FactsHold
  BY <1>1, SoundIs DEF FactsHold
<1>2. FactsInv => FactsHold
  BY <1>1
<1> QED BY <1>2, InvariantHolds, PTL

\* No run finds false a condition the checker answers "always", or true one it
\* answers "never" (facts.rs holds, compare).
THEOREM VerdictsAreTrue == ASSUME Roomy, Forms = {} PROVE Spec => []ProvenIsTrue
<1>1. ASSUME FactsInv PROVE ProvenIsTrue
  <2> SUFFICES ASSUME NEW c \in Conditions, NEW s \in reach
               PROVE  /\ Holds(c, facts) = "always" => ~Finds(c, FALSE, s)
                      /\ Holds(c, facts) = "never" => ~Finds(c, TRUE, s)
    BY DEF ProvenIsTrue, Given
  <2>1. Testable(c, {})
    <3>1. Tests(c, Locals) /\ Free(Locals) = {}
      BY DEF Tests, Reads, Free
    <3>2. PICK bd : bd = Locals
      OBVIOUS
    <3>3. Testable(c, Free(bd))
      BY <3>1, <3>2, TestsAre
    <3> QED BY <3>1, <3>2, <3>3
  <2>2. PICK f, free : f = facts /\ free = Free(bound)
    OBVIOUS
  <2>3. IsFacts(f) /\ Admits(f, s) /\ Proper(s, free)
    BY <1>1, <2>2, SoundIs DEF Untouched
  <2>4. PICK none : none = {}
    OBVIOUS
  <2>5. Proper(s, none) /\ Testable(c, none)
    BY <2>1, <2>3, <2>4, LessFree
  <2>6. /\ Holds(c, f) = "always" => ~Finds(c, FALSE, s)
        /\ Holds(c, f) = "never" => ~Finds(c, TRUE, s)
    BY <2>3, <2>5, HoldsIs
  <2> QED BY <2>2, <2>6
<1>2. FactsInv => ProvenIsTrue
  BY <1>1
<1> QED BY <1>2, InvariantHolds, PTL

=============================================================================
