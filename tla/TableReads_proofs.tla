------------------------- MODULE TableReads_proofs -------------------------
(***************************************************************************)
(* How whole tables are read.  The ranges of oracle_scan_parallel          *)
(* partition its keys, for every width of a word, every range of keys and  *)
(* every number of shards that TableRangesAssumption admits (TableRanges); *)
(* a local copy of a table has the rows of the moment its comment names    *)
(* (Snapshots); and an attached catalog describes tables as they were at   *)
(* some moment since ATTACH (Metadata).                                    *)
(***************************************************************************)
EXTENDS TableRanges, Snapshots, Metadata, FiniteSetTheorems, SequenceTheorems, TLAPS

-----------------------------------------------------------------------------
(* A quotient, by what it is between.                                      *)
LEMMA Division ==
    ASSUME NEW n \in Int, NEW d \in Nat \ {0}
    PROVE  /\ n \div d \in Int
           /\ n % d \in 0..(d - 1)
           /\ n = d * (n \div d) + (n % d)
    BY Z3

(* Dividing keeps an order.                                                *)
LEMMA DivisionMonotone ==
    ASSUME NEW m \in Nat, NEW n \in Nat, NEW d \in Nat \ {0}, m <= n
    PROVE  m \div d <= n \div d
    <1>1. /\ m \div d \in Int /\ m % d \in 0..(d - 1) /\ m = d * (m \div d) + (m % d)
          /\ n \div d \in Int /\ n % d \in 0..(d - 1) /\ n = d * (n \div d) + (n % d)
        BY Division
    <1>2. SUFFICES ASSUME n \div d < m \div d PROVE FALSE
        BY <1>1
    <1>3. d * (n \div d) + d <= d * (m \div d)
        <2> DEFINE a == n \div d  b == m \div d
        <2>1. a \in Int /\ b \in Int /\ a + 1 <= b
            BY <1>1, <1>2
        <2>2. d * (a + 1) <= d * b
            <3> HIDE DEF a, b
            <3> QED BY <2>1, Z3
        <2>3. d * (a + 1) = d * a + d
            <3> HIDE DEF a, b
            <3> QED BY <2>1, Z3
        <2> QED BY <2>2, <2>3
    <1> QED BY <1>1, <1>3

(* ... and is the only number it is between.                               *)
LEMMA DivisionUnique ==
    ASSUME NEW d \in Nat \ {0}, NEW x \in Int, NEW y \in 0..(d - 1)
    PROVE  /\ (d * x + y) \div d = x
           /\ (d * x + y) % d = y
    <1> DEFINE n == d * x + y  a == n \div d  b == n % d
    <1>0. n \in Int
        BY Z3
    <1>1. a \in Int /\ b \in 0..(d - 1) /\ n = d * a + b
        <2> HIDE DEF n
        <2> QED BY <1>0, Division
    <1>2. d * x + y = d * a + b
        BY <1>1
    <1>3. ASSUME NEW u \in Int, NEW v \in Int, u < v PROVE d * u + d <= d * v
        <2>1. d * (u + 1) <= d * v
            BY <1>3, Z3
        <2> QED BY <2>1, Z3
    <1>4. ~(a < x) /\ ~(x < a)
        <2> HIDE DEF a, b
        <2>1. ASSUME a < x PROVE FALSE
            <3>1. d * a + d <= d * x
                BY <1>1, <1>3, <2>1
            <3> QED BY <1>1, <1>2, <3>1, Z3
        <2>2. ASSUME x < a PROVE FALSE
            <3>1. d * x + d <= d * a
                BY <1>1, <1>3, <2>2
            <3> QED BY <1>1, <1>2, <3>1, Z3
        <2> QED BY <2>1, <2>2
    <1>5. a = x
        <2> HIDE DEF a, b
        <2> QED BY <1>1, <1>4
    <1>6. b = y
        <2> HIDE DEF a, b
        <2> QED BY <1>1, <1>2, <1>5, Z3
    <1> QED BY <1>5, <1>6

(* Multiples of the divisor come out of a quotient.                        *)
LEMMA DivisionOfSum ==
    ASSUME NEW d \in Nat \ {0}, NEW x \in Int, NEW y \in Int
    PROVE  /\ (d * x + y) \div d = x + (y \div d)
           /\ (d * x + y) % d = y % d
    <1> DEFINE q == y \div d  r == y % d
    <1>1. q \in Int /\ r \in 0..(d - 1) /\ y = d * q + r
        BY Division
    <1>2. d * x + y = d * (x + q) + r
        <2> HIDE DEF q, r
        <2> QED BY <1>1, Z3
    <1>3. x + q \in Int
        <2> HIDE DEF q
        <2> QED BY <1>1
    <1>4. (d * (x + q) + r) \div d = x + q /\ (d * (x + q) + r) % d = r
        <2> HIDE DEF q, r
        <2> QED BY <1>1, <1>3, DivisionUnique
    <1> QED BY <1>2, <1>4

(* A sum, a difference and a product may be reduced before or after.       *)
LEMMA ReducedSum ==
    ASSUME NEW d \in Nat \ {0}, NEW a \in Int, NEW b \in Int
    PROVE  /\ ((a % d) + b) % d = (a + b) % d
           /\ (a + (b % d)) % d = (a + b) % d
    <1>1. /\ a \div d \in Int /\ a % d \in Int /\ a = d * (a \div d) + (a % d)
          /\ b \div d \in Int /\ b % d \in Int /\ b = d * (b \div d) + (b % d)
        BY Division
    <1>2. /\ a + b = d * (a \div d) + ((a % d) + b)
          /\ a + b = d * (b \div d) + (a + (b % d))
        <2> DEFINE p == d * (a \div d)  q == d * (b \div d)  u == a % d  v == b % d
        <2>1. p \in Int /\ q \in Int /\ u \in Int /\ v \in Int /\ a = p + u /\ b = q + v
            BY <1>1
        <2> HIDE DEF p, q, u, v
        <2>2. a + b = p + (u + b) /\ a + b = q + (a + v)
            BY <2>1
        <2> QED BY <2>2 DEF p, q, u, v
    <1> DEFINE c == a + b  u == (a % d) + b  v == a + (b % d)  x == a \div d  y == b \div d
    <1>3. c \in Int /\ u \in Int /\ v \in Int /\ x \in Int /\ y \in Int
        BY <1>1
    <1>4. c = d * x + u /\ c = d * y + v
        BY <1>2
    <1>5. c % d = u % d /\ c % d = v % d
        <2> HIDE DEF c, u, v, x, y
        <2>1. (d * x + u) % d = u % d /\ (d * y + v) % d = v % d
            BY <1>3, DivisionOfSum
        <2> QED BY <1>4, <2>1
    <1> QED BY <1>5

LEMMA ReducedProduct ==
    ASSUME NEW d \in Nat \ {0}, NEW a \in Int, NEW i \in Int
    PROVE  ((a % d) * i) % d = (a * i) % d
    <1> DEFINE x == a \div d  y == a % d
    <1>1. x \in Int /\ y \in Int /\ a = d * x + y
        BY Division
    <1> HIDE DEF x, y
    <1>2. a * i = d * (x * i) + y * i
        BY <1>1, Z3
    <1>3. a * i \in Int /\ x * i \in Int /\ y * i \in Int
        BY <1>1
    <1>4. (d * (x * i) + y * i) % d = (y * i) % d
        BY <1>3, DivisionOfSum
    <1> QED BY <1>2, <1>4 DEF y

(* What needs no reduction.                                                *)
LEMMA Reduced ==
    ASSUME NEW d \in Nat \ {0}, NEW n \in 0..(d - 1)
    PROVE  n % d = n
    <1>1. (d * 0 + n) % d = n
        BY DivisionUnique
    <1> QED BY <1>1

-----------------------------------------------------------------------------
LEMMA WordsAreMany == Words \in Nat \ {0}
    BY TableRangesAssumption DEF Words

(* An int64_t that becomes a word becomes itself again.                    *)
LEMMA SignedOfUnsigned ==
    ASSUME NEW n \in Signed64
    PROVE  Signed(n % Words) = n
    <1>1. Half \in Nat \ {0} /\ n \in Int /\ -Half <= n /\ n < Half
        BY TableRangesAssumption DEF Signed64
    <1>2. CASE 0 <= n
        <2>1. n \in 0..(Words - 1)
            BY <1>1, <1>2 DEF Words
        <2>2. n % Words = n
            BY <2>1, WordsAreMany, Reduced
        <2> QED BY <1>1, <2>2 DEF Signed
    <1>3. CASE n < 0
        <2>1. n + Words \in 0..(Words - 1)
            BY <1>1, <1>3 DEF Words
        <2>2. (n + Words) % Words = n + Words
            BY <2>1, WordsAreMany, Reduced
        <2> DEFINE one == 1
        <2>3. one \in Int /\ n + Words = Words * one + n
            BY <1>1 DEF Words
        <2>4. (n + Words) % Words = n % Words
            <3> HIDE DEF one
            <3>1. (Words * one + n) % Words = n % Words
                BY <1>1, <2>3, WordsAreMany, DivisionOfSum
            <3> QED BY <2>3, <3>1
        <2> QED BY <1>1, <1>3, <2>2, <2>4 DEF Signed, Words
    <1> QED BY <1>1, <1>2, <1>3

(* The span of the keys, which no signed number may hold.                  *)
LEMMA SpanIsDistance ==
    ASSUME NEW low \in Signed64, NEW high \in Signed64, low <= high
    PROVE  /\ Span(low, high) = high - low
           /\ high - low \in 0..(Words - 1)
    <1>1. low \in Int /\ high \in Int /\ high - low \in 0..(Words - 1)
        BY TableRangesAssumption DEF Signed64, Words
    <1> DEFINE p == low \div Words  u == 0 - (low % Words)
    <1>2. p \in Int /\ u \in Int /\ low % Words \in Int /\ low = Words * p + (low % Words)
        BY <1>1, WordsAreMany, Division
    <1>3. ((high % Words) + u) % Words = (high + u) % Words
        <2> HIDE DEF u
        <2> QED BY <1>1, <1>2, WordsAreMany, ReducedSum
    <1>4. (high + u) % Words = (high - low) % Words
        <2>1. high + u = Words * p + (high - low)
            <3> DEFINE m == Words * p  r == low % Words
            <3>1. m \in Int /\ r \in Int /\ low = m + r
                BY <1>2, WordsAreMany
            <3> HIDE DEF m, r
            <3>2. high + (0 - r) = m + (high - low)
                BY <1>1, <3>1
            <3> QED BY <3>2 DEF m, r
        <2> DEFINE b == high - low
        <2>2. b \in Int
            BY <1>1
        <2>3. (Words * p + b) % Words = b % Words
            <3> HIDE DEF b, p
            <3> QED BY <1>2, <2>2, WordsAreMany, DivisionOfSum
        <2> QED BY <2>1, <2>3
    <1>5. Span(low, high) = ((high % Words) + u) % Words
        <2>1. high % Words \in Int
            BY <1>1, WordsAreMany, Division
        <2>2. (high % Words) - (low % Words) = (high % Words) + u
            BY <1>2, <2>1
        <2> QED BY <2>2 DEF Span, Minus, Unsigned
    <1>6. (high - low) % Words = high - low
        BY <1>1, WordsAreMany, Reduced
    <1> QED BY <1>1, <1>3, <1>4, <1>5, <1>6

(* No more shards than keys, so that none is empty.                        *)
LEMMA ShardsAreFew ==
    ASSUME NEW span \in 0..(Words - 1), NEW requested \in 1..MaximumShards
    PROVE  /\ Shards(span, requested) \in 1..MaximumShards
           /\ Shards(span, requested) <= span + 1
    <1>1. /\ MaximumShards \in Nat \ {0} /\ MaximumShards <= Half /\ Half \in Nat \ {0}
          /\ Words = 2 * Half /\ Words \in Nat
        BY TableRangesAssumption DEF Words
    <1>2. Minus(requested, 1) = requested - 1
        <2>1. requested - 1 \in 0..(Words - 1)
            BY <1>1
        <2> QED BY <2>1, WordsAreMany, Reduced DEF Minus
    <1>3. ASSUME span < requested - 1 PROVE Plus(span, 1) = span + 1
        <2>1. span + 1 \in 0..(Words - 1)
            BY <1>1, <1>3
        <2> QED BY <2>1, WordsAreMany, Reduced DEF Plus
    <1> QED BY <1>1, <1>2, <1>3 DEF Shards

-----------------------------------------------------------------------------
(* Where shard i of s starts among n keys, without words.                  *)
Start(n, s, i) == (n * i) \div s

LEMMA StartIsBetween ==
    ASSUME NEW n \in Nat, NEW s \in Nat \ {0}, NEW i \in Nat
    PROVE  /\ Start(n, s, i) \in Nat
           /\ s * Start(n, s, i) <= n * i
           /\ n * i < s * Start(n, s, i) + s
    <1> DEFINE m == n * i  q == m \div s
    <1>1. m \in Nat
        OBVIOUS
    <1>2. q \in Int /\ m % s \in 0..(s - 1) /\ m = s * q + (m % s)
        <2> HIDE DEF m
        <2> QED BY <1>1, Division
    <1>3. s * q <= m /\ m < s * q + s
        <2> HIDE DEF m, q
        <2> QED BY <1>1, <1>2, Z3
    <1>4. q >= 0
        <2> HIDE DEF m, q
        <2>1. ASSUME q <= -1 PROVE FALSE
            <3>1. s * q <= -s
                BY <1>2, <2>1, Z3
            <3> QED BY <1>1, <1>3, <3>1, <1>2, Z3
        <2> QED BY <1>2, <2>1
    <1> QED BY <1>2, <1>3, <1>4 DEF Start

LEMMA StartsAscend ==
    ASSUME NEW n \in Nat, NEW s \in Nat \ {0}, NEW i \in Nat, NEW j \in Nat, i <= j
    PROVE  Start(n, s, i) <= Start(n, s, j)
    <1>1. n * i \in Nat /\ n * j \in Nat /\ n * i <= n * j
        BY Z3
    <1> QED BY <1>1, DivisionMonotone DEF Start

(* The first shard starts at the first key, the one after the last beyond  *)
(* the last key, and each of them at a key of its own.                     *)
LEMMA StartsAreKeys ==
    ASSUME NEW n \in Nat, NEW s \in 1..n, NEW i \in 0..s
    PROVE  /\ i < s => Start(n, s, i) \in 0..(n - 1)
           /\ i > 0 => Start(n, s, i) \in 1..n
    <1>1. s \in Nat \ {0} /\ i \in Nat
        OBVIOUS
    <1> DEFINE t == Start(n, s, i)
    <1>2. t \in Nat /\ s * t <= n * i /\ n * i < s * t + s
        BY <1>1, StartIsBetween
    <1> HIDE DEF t
    <1>3. ASSUME NEW u \in Nat, NEW v \in Nat, s * u < s * v PROVE u < v
        <2>1. ASSUME v <= u PROVE FALSE
            <3>1. s * v <= s * u
                BY <1>1, <2>1, Z3
            <3> QED BY <1>1, <1>3, <3>1, Z3
        <2> QED BY <2>1
    <1>4. t <= n
        <2>1. s * t <= n * s
            <3>1. n * i <= n * s
                BY <1>1, Z3
            <3> QED BY <1>1, <1>2, <3>1, Z3
        <2>2. s * t < s * (n + 1)
            BY <1>1, <1>2, <2>1, Z3
        <2>3. t < n + 1
            BY <1>2, <1>3, <2>2
        <2> QED BY <1>2, <2>3
    <1>5. ASSUME i < s PROVE t < n
        <2>1. n * i <= n * s - n
            BY <1>1, <1>5, Z3
        <2>2. s * t < s * n
            BY <1>1, <1>2, <2>1, Z3
        <2> QED BY <1>2, <1>3, <2>2
    <1>6. ASSUME i > 0 PROVE t > 0
        <2>1. n * i >= n
            BY <1>1, <1>6, Z3
        <2>2. ~(t = 0)
            BY <1>1, <1>2, <2>1, Z3
        <2> QED BY <1>2, <2>2
    <1> QED BY <1>2, <1>4, <1>5, <1>6 DEF t

(* What the code computes without the number of keys, which may be no      *)
(* word, is the quotient of it and its remainder.                          *)
LEMMA QuotientAndRemainder ==
    ASSUME NEW span \in 0..(Words - 1), NEW s \in 1..MaximumShards
    PROVE  /\ Quotient(span, s) = ((span + 1) \div s) % Words
           /\ Remainder(span, s) = (span + 1) % s
    <1>1. s \in Nat \ {0} /\ span \in Int
        BY TableRangesAssumption
    <1> DEFINE q == span \div s  r == span % s
    <1>2. q \in Int /\ r \in 0..(s - 1) /\ span = s * q + r
        BY <1>1, Division
    <1>3. CASE r + 1 >= s
        <2> DEFINE z == 0
        <2>1. span + 1 = s * (q + 1) + z /\ r + 1 - s = z
            <3> HIDE DEF q, r
            <3> QED BY <1>1, <1>2, <1>3, Z3
        <2>2. z \in 0..(s - 1) /\ q + 1 \in Int
            BY <1>1, <1>2
        <2>3. (s * (q + 1) + z) \div s = q + 1 /\ (s * (q + 1) + z) % s = z
            <3> HIDE DEF q, z
            <3> QED BY <1>1, <2>2, DivisionUnique
        <2> QED BY <1>3, <2>1, <2>3 DEF Quotient, Remainder, Plus
    <1>4. CASE ~(r + 1 >= s)
        <2>1. span + 1 = s * q + (r + 1) /\ r + 1 \in 0..(s - 1) /\ q + 0 = q
            <3> HIDE DEF q, r
            <3> QED BY <1>1, <1>2, <1>4, Z3
        <2>2. (s * q + (r + 1)) \div s = q /\ (s * q + (r + 1)) % s = r + 1
            <3> HIDE DEF q, r
            <3> QED BY <1>1, <1>2, <2>1, DivisionUnique
        <2> QED BY <1>4, <2>1, <2>2 DEF Quotient, Remainder, Plus
    <1> QED BY <1>3, <1>4

(* The offsets are the starts, although the products may not fit a word.   *)
LEMMA OffsetIsStart ==
    ASSUME NEW span \in 0..(Words - 1), NEW s \in 1..MaximumShards, NEW i \in 0..s
    PROVE  Offset(span, s, i) = Start(span + 1, s, i) % Words
    <1> DEFINE n == span + 1  q == n \div s  r == n % s  f == (r * i) \div s
    <1>1. s \in Nat \ {0} /\ i \in Nat /\ n \in Nat /\ Words \in Nat \ {0}
        BY TableRangesAssumption, WordsAreMany
    <1>2. q \in Int /\ r \in 0..(s - 1) /\ n = s * q + r
        <2> HIDE DEF n
        <2> QED BY <1>1, Division
    <1>3. r * i \in 0..(Words - 1)
        <2> HIDE DEF n, q, r
        <2>1. r * i <= (s - 1) * s /\ r * i >= 0
            <3>1. r * i <= (s - 1) * i
                BY <1>1, <1>2, Z3
            <3>2. (s - 1) * i <= (s - 1) * s
                BY <1>1, Z3
            <3>3. r * i >= 0
                BY <1>1, <1>2, Z3
            <3> QED BY <1>1, <1>2, <3>1, <3>2, <3>3, Z3
        <2>2. s * s <= Words
            <3>1. s <= MaximumShards /\ MaximumShards \in Nat /\ MaximumShards * MaximumShards <= Words
                BY TableRangesAssumption DEF Words
            <3>2. s * s <= MaximumShards * MaximumShards
                BY <1>1, <3>1, Z3
            <3> QED BY <1>1, <3>1, <3>2, Z3
        <2>3. (s - 1) * s < s * s
            BY <1>1, Z3
        <2> QED BY <1>1, <1>2, <2>1, <2>2, <2>3, Z3
    <1>4. (r * i) % Words = r * i
        <2> DEFINE m == r * i
        <2> HIDE DEF m
        <2>1. m % Words = m
            BY <1>1, <1>3, Reduced DEF m
        <2> QED BY <2>1 DEF m
    <1>5. ((q % Words) * i) % Words = (q * i) % Words
        <2> HIDE DEF n, q
        <2>1. q \in Int /\ i \in Int
            BY <1>1, <1>2
        <2> QED BY <2>1, WordsAreMany, ReducedProduct
    <1>6. f \in Int
        <2> DEFINE m == r * i
        <2>1. m \in Int
            BY <1>3
        <2> HIDE DEF m
        <2>2. m \div s \in Int
            BY <1>1, <2>1, Division
        <2> QED BY <2>2 DEF m
    <1>7. (((q * i) % Words) + f) % Words = ((q * i) + f) % Words
        <2> DEFINE m == q * i
        <2>1. m \in Int
            <3> HIDE DEF q
            <3> QED BY <1>1, <1>2
        <2> HIDE DEF m, f
        <2>2. ((m % Words) + f) % Words = (m + f) % Words
            BY <1>1, <1>6, <2>1, ReducedSum
        <2> QED BY <2>2 DEF m
    <1>8. (n * i) \div s = (q * i) + f
        <2> DEFINE x == q * i  y == r * i
        <2>1. x \in Int /\ y \in Int
            <3> HIDE DEF q, r
            <3> QED BY <1>1, <1>2
        <2>2. n * i = s * x + y
            <3> HIDE DEF n, q, r
            <3> QED BY <1>1, <1>2, Z3
        <2>3. (s * x + y) \div s = x + (y \div s)
            <3> HIDE DEF x, y
            <3> QED BY <1>1, <2>1, DivisionOfSum
        <2> QED BY <2>2, <2>3
    <1>9. Offset(span, s, i) = ((((q % Words) * i) % Words) + (((r * i) % Words) \div s)) % Words
        BY QuotientAndRemainder DEF Offset, Plus, Times
    <1> HIDE DEF q, r
    <1> QED BY <1>4, <1>5, <1>7, <1>8, <1>9 DEF Start

(* So does subtracting one.                                                *)
LEMMA ReducedPredecessor ==
    ASSUME NEW m \in Int, NEW d \in Nat \ {0}
    PROVE  ((m % d) - 1) % d = (m - 1) % d
    <1> DEFINE back == -1  u == m % d
    <1>1. back \in Int /\ u \in Int
        BY Division
    <1>2. ((m % d) + back) % d = (m + back) % d
        <2> HIDE DEF back
        <2> QED BY <1>1, ReducedSum
    <1>3. u - 1 = u + back /\ m - 1 = m + back
        <2> HIDE DEF u
        <2> QED BY <1>1
    <1>4. (u + back) % d = (m + back) % d
        BY <1>2
    <1>5. (u - 1) % d = (m - 1) % d
        <2> HIDE DEF u, back
        <2> QED BY <1>3, <1>4
    <1> QED BY <1>5

(* A shard's statement reads from its start to just before the next.       *)
LEMMA ShardBounds ==
    ASSUME NEW low \in Signed64, NEW high \in Signed64, low <= high,
           NEW s \in 1..MaximumShards, s <= high - low + 1, NEW i \in 0..(s - 1)
    PROVE  /\ FirstKey(low, high - low, s, i) = low + Start(high - low + 1, s, i)
           /\ LastKey(low, high - low, s, i) = low + Start(high - low + 1, s, i + 1) - 1
    <1> DEFINE span == high - low  n == span + 1  b == Start(n, s, i)  e == Start(n, s, i + 1)
    <1>1. /\ span \in 0..(Words - 1) /\ n \in Nat /\ s \in 1..n /\ i \in 0..s /\ i + 1 \in 0..s
          /\ low \in Int /\ high \in Int /\ Words \in Nat \ {0}
        BY SpanIsDistance, WordsAreMany, TableRangesAssumption DEF Signed64
    <1>2. b \in 0..(n - 1) /\ e \in 1..n
        <2> HIDE DEF n
        <2>1. Start(n, s, i) \in 0..(n - 1)
            BY <1>1, StartsAreKeys
        <2>2. Start(n, s, i + 1) \in 1..n
            BY <1>1, StartsAreKeys
        <2> QED BY <2>1, <2>2
    <1>3. Offset(span, s, i) = b % Words /\ Offset(span, s, i + 1) = e % Words
        <2> HIDE DEF span
        <2> QED BY <1>1, OffsetIsStart
    <1>4. ((low % Words) + (b % Words)) % Words = (low + b) % Words
        <2> DEFINE u == low % Words
        <2> HIDE DEF b
        <2>1. low \in Int /\ u \in Int /\ b \in Int
            BY <1>1, <1>2, Division
        <2>2. (u + b) % Words = (low + b) % Words
            BY <2>1, WordsAreMany, ReducedSum
        <2>3. (u + (b % Words)) % Words = (u + b) % Words
            <3> HIDE DEF u
            <3> QED BY <2>1, WordsAreMany, ReducedSum
        <2> QED BY <2>2, <2>3
    <1>5. ((low % Words) + (e % Words)) % Words = (low + e) % Words
        <2> DEFINE u == low % Words
        <2> HIDE DEF e
        <2>1. low \in Int /\ u \in Int /\ e \in Int
            BY <1>1, <1>2, Division
        <2>2. (u + e) % Words = (low + e) % Words
            BY <2>1, WordsAreMany, ReducedSum
        <2>3. (u + (e % Words)) % Words = (u + e) % Words
            <3> HIDE DEF u
            <3> QED BY <2>1, WordsAreMany, ReducedSum
        <2> QED BY <2>2, <2>3
    <1> DEFINE m == low + e
    <1>6. m \in Int /\ ((m % Words) - 1) % Words = (m - 1) % Words
        <2>1. m \in Int
            <3> HIDE DEF e
            <3> QED BY <1>1, <1>2
        <2> HIDE DEF m
        <2> QED BY <1>1, <2>1, ReducedPredecessor
    <1>7. low + b \in Signed64 /\ m - 1 \in Signed64
        <2> HIDE DEF b, e
        <2>1. /\ Half \in Nat /\ -Half <= low /\ high <= Half - 1
              /\ low <= low + b /\ low + b <= high /\ low <= m - 1 /\ m - 1 <= high
            BY <1>1, <1>2, TableRangesAssumption DEF Signed64
        <2> HIDE DEF m
        <2> QED BY <1>1, <1>2, <1>6, <2>1 DEF Signed64
    <1>8. Signed((low + b) % Words) = low + b /\ Signed((m - 1) % Words) = m - 1
        <2> DEFINE x == low + b  y == m - 1
        <2> HIDE DEF x, y
        <2>1. Signed(x % Words) = x /\ Signed(y % Words) = y
            BY <1>7, SignedOfUnsigned DEF x, y
        <2> QED BY <2>1 DEF x, y
    <1>9. ((low % Words) + (e % Words)) % Words = m % Words
        BY <1>5
    <1>10. LastKey(low, span, s, i) = m - 1
        <2> HIDE DEF e, m, span
        <2> QED BY <1>3, <1>6, <1>8, <1>9 DEF LastKey, Plus, Minus, Unsigned
    <1>11. FirstKey(low, span, s, i) = low + b
        <2> HIDE DEF b, span
        <2> QED BY <1>3, <1>4, <1>8 DEF FirstKey, Plus, Unsigned
    <1>12. m - 1 = low + e - 1
        <2> HIDE DEF e
        <2> QED BY <1>1, <1>2
    <1> HIDE DEF m
    <1> QED BY <1>10, <1>11, <1>12

-----------------------------------------------------------------------------
(* What the theorem rests on: a distance below n lies between the starts   *)
(* of one of s shards, and of no other.                                    *)
LEMMA OneShard ==
    ASSUME NEW n \in Nat, NEW s \in 1..n, NEW d \in 0..(n - 1)
    PROVE  \E i \in 0..(s - 1) :
              /\ Start(n, s, i) <= d /\ d + 1 <= Start(n, s, i + 1)
              /\ \A j \in 0..(s - 1) :
                    Start(n, s, j) <= d /\ d + 1 <= Start(n, s, j + 1) => j = i
    <1> DEFINE p == (d + 1) * s - 1  i == p \div n
    <1>1. n \in Nat \ {0} /\ s \in Nat \ {0} /\ d \in Nat /\ d + 1 <= n
        OBVIOUS
    <1>2. p \in Nat /\ p < n * s /\ d * s <= p /\ p < (d + 1) * s
        BY <1>1, Z3
    <1>3. i \in Int /\ n * i <= p /\ p < n * i + n
        <2> HIDE DEF p
        <2>1. i \in Int /\ p % n \in 0..(n - 1) /\ p = n * i + (p % n)
            BY <1>1, <1>2, Division
        <2> DEFINE x == n * i  y == p % n
        <2>2. x \in Int
            <3> HIDE DEF i
            <3> QED BY <1>1, <2>1
        <2> HIDE DEF x, y, i
        <2>3. x <= p /\ p < x + n
            BY <1>1, <2>1, <2>2 DEF x, y
        <2> QED BY <2>1, <2>3 DEF x
    <1> HIDE DEF p, i
    <1>4. i \in 0..(s - 1)
        <2>1. i >= 0
            BY <1>1, <1>2, <1>3, Z3
        <2>2. i < s
            BY <1>1, <1>2, <1>3, Z3
        <2> QED BY <1>1, <1>3, <2>1, <2>2
    <1> DEFINE b == Start(n, s, i)  e == Start(n, s, i + 1)
    <1>5. b <= d
        <2>1. b \in Nat /\ s * b <= n * i
            BY <1>1, <1>4, StartIsBetween
        <2> HIDE DEF b
        <2>2. s * b < (d + 1) * s
            <3> DEFINE x == s * b  y == n * i  z == (d + 1) * s
            <3>1. x \in Int /\ y \in Int /\ z \in Int
                BY <1>1, <1>3, <2>1
            <3> HIDE DEF x, y, z
            <3>2. x <= y /\ y <= p /\ p < z
                BY <1>2, <1>3, <2>1 DEF x, y, z
            <3>3. x < z
                BY <1>2, <3>1, <3>2
            <3> QED BY <3>3 DEF x, z
        <2> QED BY <1>1, <2>1, <2>2, Z3
    <1>6. d + 1 <= e
        <2>1. e \in Nat /\ n * (i + 1) < s * e + s
            <3>1. i + 1 \in Nat
                BY <1>4
            <3> QED BY <1>1, <3>1, StartIsBetween
        <2> HIDE DEF e
        <2>2. n * (i + 1) = n * i + n
            BY <1>1, <1>3, Z3
        <2>3. d * s < s * e + s - s
            <3> DEFINE x == s * e  y == n * i  z == d * s
            <3>1. x \in Int /\ y \in Int /\ z \in Int
                BY <1>1, <1>3, <2>1
            <3> HIDE DEF x, y, z
            <3>2. y + n < x + s /\ z + s = p + 1 /\ p < y + n
                BY <1>1, <1>2, <1>3, <2>1, <2>2 DEF x, y, z, p
            <3>3. z < x + s - s
                BY <1>1, <1>2, <3>1, <3>2
            <3> QED BY <3>3 DEF x, z
        <2> QED BY <1>1, <2>1, <2>3, Z3
    <1>7. ASSUME NEW j \in 0..(s - 1), Start(n, s, j) <= d, d + 1 <= Start(n, s, j + 1)
          PROVE  j = i
        <2>1. /\ i \in Nat /\ j \in Nat /\ i + 1 \in Nat /\ j + 1 \in Nat
              /\ i \in Int /\ j \in Int
            BY <1>4
        <2> DEFINE f == Start(n, s, j)  g == Start(n, s, j + 1)
        <2>2. b \in Nat /\ e \in Nat /\ f \in Nat /\ g \in Nat
            BY <1>1, <2>1, StartIsBetween
        <2>3. i + 1 <= j => e <= f
            BY <1>1, <2>1, StartsAscend
        <2>4. j + 1 <= i => g <= b
            BY <1>1, <2>1, StartsAscend
        <2>5. f <= d /\ d + 1 <= g
            BY <1>7
        <2> HIDE DEF b, e, f, g
        <2> QED BY <1>1, <1>5, <1>6, <2>1, <2>2, <2>3, <2>4, <2>5
    <1> QED BY <1>4, <1>5, <1>6, <1>7

(* The predicates oracle_scan_parallel gives its statements are disjoint   *)
(* and leave out no key between the bounds, for every pair of 64-bit       *)
(* bounds and every number of shards it accepts, whatever its unsigned     *)
(* arithmetic wraps.                                                       *)
THEOREM ShardsPartition ==
    ASSUME NEW low \in Signed64, NEW high \in Signed64, low <= high,
           NEW requested \in 1..MaximumShards
    PROVE  EachKeyOnce(low, high, requested)
    <1> DEFINE span == high - low  n == span + 1  s == Shards(span, requested)
    <1>1. Span(low, high) = span /\ span \in 0..(Words - 1)
        BY SpanIsDistance
    <1>2. s \in 1..MaximumShards /\ s <= n
        <2> HIDE DEF span
        <2> QED BY <1>1, ShardsAreFew
    <1>3. low \in Int /\ high \in Int /\ n \in Nat /\ s \in 1..n /\ MaximumShards \in Nat
        BY <1>1, <1>2, TableRangesAssumption, WordsAreMany DEF Signed64
    <1>4. ASSUME NEW key \in low..high, NEW i \in 0..(s - 1)
          PROVE  InShard(key, low, high, requested, i) <=>
                    Start(n, s, i) <= key - low /\ key - low + 1 <= Start(n, s, i + 1)
        <2> DEFINE b == Start(n, s, i)  e == Start(n, s, i + 1)
        <2>1. FirstKey(low, span, s, i) = low + b /\ LastKey(low, span, s, i) = low + e - 1
            <3> HIDE DEF s
            <3> QED BY <1>2, ShardBounds
        <2>2. b \in Nat /\ e \in Nat
            <3> HIDE DEF n, s
            <3>1. n \in Nat /\ s \in Nat \ {0} /\ i \in Nat /\ i + 1 \in Nat
                BY <1>3
            <3> QED BY <3>1, StartIsBetween
        <2>3. InShard(key, low, high, requested, i) <=>
                 FirstKey(low, span, s, i) <= key /\ key <= LastKey(low, span, s, i)
            <3> HIDE DEF span
            <3> QED BY <1>1 DEF InShard
        <2> HIDE DEF b, e, n, s
        <2>4. InShard(key, low, high, requested, i) <=> low + b <= key /\ key <= low + e - 1
            BY <2>1, <2>3
        <2>5. (low + b <= key /\ key <= low + e - 1) <=> (b <= key - low /\ key - low + 1 <= e)
            BY <1>3, <2>2
        <2> QED BY <2>4, <2>5 DEF b, e
    <1> HIDE DEF s, n, span
    <1>5. SUFFICES ASSUME NEW key \in low..high
          PROVE  \E i \in 0..(s - 1) :
                    /\ InShard(key, low, high, requested, i)
                    /\ \A j \in 0..(s - 1) : InShard(key, low, high, requested, j) => j = i
        BY <1>1 DEF EachKeyOnce, s
    <1>6. key - low \in 0..(n - 1)
        BY <1>3 DEF n, span
    <1>7. PICK i \in 0..(s - 1) :
              /\ Start(n, s, i) <= key - low /\ key - low + 1 <= Start(n, s, i + 1)
              /\ \A j \in 0..(s - 1) :
                    Start(n, s, j) <= key - low /\ key - low + 1 <= Start(n, s, j + 1) => j = i
        BY <1>3, <1>6, OneShard
    <1>8. InShard(key, low, high, requested, i)
        BY <1>4, <1>7
    <1>9. \A j \in 0..(s - 1) : InShard(key, low, high, requested, j) => j = i
        BY <1>4, <1>7
    <1> QED BY <1>8, <1>9

-----------------------------------------------------------------------------
(* Snapshots: a marked copy has the rows of the moment it names, as long   *)
(* as no two statements work on one copy at once and users spell the       *)
(* catalog's name as it was attached.                                      *)

(* What a statement may have read: one moment of each table it began.      *)
Reads == UNION {[T -> Nat] : T \in SUBSET SourceTables}

Jobs == [step : {"ask", "build", "count", "comment"}, database : Databases, catalog : Spellings,
         source : Sources, refresh : BOOLEAN, scn : Nat, read : Reads]
Marks == [catalog : Spellings, scn : Nat, source : Sources]
Copies == [exists : {TRUE}, source : Sources, read : Reads, comment : {<<>>} \cup {<<m>> : m \in Marks}]

SnapshotsTyped ==
    /\ moment \in Nat
    /\ copies \in [Databases -> Copies \cup {NoCopy}]
    /\ taking \in [SnapshotCallers -> Jobs \cup {NotTaking}]
    /\ DOMAIN asked = Databases

Everything(scn) == [t \in SourceTables |-> scn]

(* A job reads the moment it asked for; a refresh makes the copy that was  *)
(* asked for; and until its end nobody else touches the copy it made.      *)
JobIsFaithful(job) ==
    /\ job.step = "ask" => job.read = <<>>
    /\ job.step = "build" => \A t \in DOMAIN job.read : job.read[t] = job.scn
    /\ job.refresh => job.source = asked[job.database]
    /\ job.step \in {"count", "comment"} =>
          /\ job.source = asked[job.database]
          /\ copies[job.database].exists =>
                /\ copies[job.database].read = Everything(job.scn)
                /\ copies[job.database].source = job.source

JobsAreFaithful == \A c \in SnapshotCallers : taking[c] # NotTaking => JobIsFaithful(taking[c])

MarkIsTrue(d) ==
    copies[d].exists /\ copies[d].comment # <<>> =>
        LET mark == copies[d].comment[1]
        IN  /\ copies[d].read = Everything(mark.scn)
            /\ copies[d].source = mark.source
            /\ mark.source = asked[d]

SnapshotsInv ==
    SnapshotsTyped /\ NoneOverlaps /\ JobsAreFaithful /\ \A d \in Databases : MarkIsTrue(d)

LEMMA NothingRead == <<>> \in Reads /\ DOMAIN <<>> = {}
<1>1. DOMAIN <<>> = {}
  OBVIOUS
<1>2. <<>> \in [{} -> Nat]
  OBVIOUS
<1> QED
  BY <1>1, <1>2 DEF Reads

LEMMA JobFields ==
    ASSUME NEW job \in Jobs
    PROVE  /\ job # NotTaking /\ job.step \in {"ask", "build", "count", "comment"}
           /\ job.database \in Databases /\ job.catalog \in Spellings /\ job.source \in Sources
           /\ job.refresh \in BOOLEAN /\ job.scn \in Nat /\ job.read \in Reads
BY DEF Jobs, NotTaking

LEMMA CopyFields ==
    ASSUME NEW copy \in Copies \cup {NoCopy}, copy.exists
    PROVE  /\ copy \in Copies /\ copy.source \in Sources /\ copy.read \in Reads
           /\ copy.comment # <<>> => copy.comment[1] \in Marks
<1>1. copy \in Copies
  BY DEF NoCopy
<1>2. copy.source \in Sources /\ copy.read \in Reads
  BY <1>1 DEF Copies
<1>3. ASSUME copy.comment # <<>> PROVE copy.comment[1] \in Marks
  <2>1. copy.comment \in {<<>>} \cup {<<m>> : m \in Marks}
    BY <1>1 DEF Copies
  <2>2. PICK m \in Marks : copy.comment = <<m>>
    BY <1>3, <2>1
  <2> QED
    BY <2>2
<1> QED
  BY <1>1, <1>2, <1>3

(* What a job says stays true while its copy and its query do.             *)
LEMMA JobStays ==
    ASSUME NEW job \in Jobs, JobIsFaithful(job),
           copies'[job.database] = copies[job.database], asked'[job.database] = asked[job.database]
    PROVE  JobIsFaithful(job)'
BY DEF JobIsFaithful

LEMMA MarkStays ==
    ASSUME NEW d \in Databases, MarkIsTrue(d), copies'[d] = copies[d], asked'[d] = asked[d]
    PROVE  MarkIsTrue(d)'
BY DEF MarkIsTrue

(* A step of one caller: only the copy of its job changes, and what it     *)
(* leaves is again a faithful job and a true mark.                         *)
LEMMA JobGoesOn ==
    ASSUME SnapshotsInv, NEW c \in SnapshotCallers, taking[c] \in Jobs,
           NEW d \in Databases, taking[c].database = d, NEW job \in Jobs \cup {NotTaking},
           taking' = [taking EXCEPT ![c] = job],
           \A e \in Databases \ {d} : copies'[e] = copies[e] /\ asked'[e] = asked[e],
           job # NotTaking => JobIsFaithful(job)',
           MarkIsTrue(d)'
    PROVE  JobsAreFaithful' /\ \A e \in Databases : MarkIsTrue(e)'
<1>0. taking \in [SnapshotCallers -> Jobs \cup {NotTaking}]
  BY DEF SnapshotsInv, SnapshotsTyped
<1>1. ASSUME NEW o \in SnapshotCallers, taking'[o] # NotTaking PROVE JobIsFaithful(taking[o])'
  <2>1. CASE o = c
    BY <1>0, <1>1, <2>1
  <2>2. CASE o # c
    <3>1. taking'[o] = taking[o] /\ taking[o] \in Jobs
      BY <1>0, <1>1, <2>2
    <3>2. taking[o].database # d
      BY <2>2, <3>1, JobFields DEF SnapshotsInv, NoneOverlaps
    <3>3. JobIsFaithful(taking[o])
      BY <1>1, <3>1 DEF SnapshotsInv, JobsAreFaithful
    <3>4. taking[o].database \in Databases
      BY <3>1, JobFields
    <3> QED
      BY <3>1, <3>2, <3>3, <3>4, JobStays
  <2> QED
    BY <2>1, <2>2
<1>2. ASSUME NEW e \in Databases PROVE MarkIsTrue(e)'
  <2>1. MarkIsTrue(e)
    BY DEF SnapshotsInv
  <2>2. CASE e # d
    BY <2>1, <2>2, MarkStays
  <2> QED
    BY <2>2
<1> QED
  BY <1>1, <1>2 DEF JobsAreFaithful

LEMMA SnapshotsInitially == SnapshotsInit => SnapshotsInv
<1> SUFFICES ASSUME SnapshotsInit PROVE SnapshotsInv
  OBVIOUS
<1> USE DEF SnapshotsInit
<1>1. SnapshotsTyped
  BY DEF SnapshotsTyped
<1>2. NoneOverlaps /\ JobsAreFaithful
  BY DEF NoneOverlaps, JobsAreFaithful
<1>3. \A d \in Databases : MarkIsTrue(d)
  BY DEF MarkIsTrue, NoCopy
<1> QED
  BY <1>1, <1>2, <1>3 DEF SnapshotsInv

LEMMA SnapshotsStep ==
    ASSUME SnapshotsInv, Spellings = {AttachedName}, [SnapshotsNext /\ NoneOverlaps']_snapshotVars
    PROVE  SnapshotsInv'
<1>0. /\ moment \in Nat /\ copies \in [Databases -> Copies \cup {NoCopy}]
      /\ taking \in [SnapshotCallers -> Jobs \cup {NotTaking}] /\ DOMAIN asked = Databases
  BY DEF SnapshotsInv, SnapshotsTyped
(* Who is at work.                                                         *)
<1>2. ASSUME NEW c \in SnapshotCallers, taking[c].step # "none"
      PROVE  taking[c] \in Jobs /\ JobIsFaithful(taking[c])
  <2>1. taking[c] # NotTaking
    BY <1>2 DEF NotTaking
  <2> QED
    BY <1>0, <2>1 DEF SnapshotsInv, JobsAreFaithful
(* A caller goes on with its job, which touches no copy.                   *)
<1>3. ASSUME NEW c \in SnapshotCallers, taking[c] \in Jobs, NEW job \in Jobs \cup {NotTaking},
             taking' = [taking EXCEPT ![c] = job], UNCHANGED <<moment, copies, asked>>,
             NoneOverlaps', job # NotTaking => JobIsFaithful(job)'
      PROVE  SnapshotsInv'
  <2>1. SnapshotsTyped'
    BY <1>0, <1>3 DEF SnapshotsTyped
  <2>2. PICK d \in Databases : taking[c].database = d
    BY <1>3, JobFields
  <2>3. MarkIsTrue(d)'
    BY <1>3, MarkStays DEF SnapshotsInv
  <2>4. JobsAreFaithful' /\ \A e \in Databases : MarkIsTrue(e)'
    BY <1>3, <2>2, <2>3, JobGoesOn
  <2> QED
    BY <1>3, <2>1, <2>4 DEF SnapshotsInv
(* A caller begins one.                                                    *)
<1>4. ASSUME NEW c \in SnapshotCallers, NEW job \in Jobs, Starts(c, job), JobIsFaithful(job)',
             UNCHANGED <<moment, copies, asked>>, NoneOverlaps'
      PROVE  SnapshotsInv'
  <2>1. taking' = [taking EXCEPT ![c] = job]
    BY <1>4 DEF Starts
  <2>2. SnapshotsTyped'
    BY <1>0, <1>4, <2>1 DEF SnapshotsTyped
  <2>3. ASSUME NEW o \in SnapshotCallers, taking'[o] # NotTaking PROVE JobIsFaithful(taking[o])'
    <3>1. CASE o = c
      BY <1>0, <1>4, <2>1, <3>1
    <3>2. CASE o # c
      <4>1. taking'[o] = taking[o] /\ taking[o] \in Jobs /\ JobIsFaithful(taking[o])
        BY <1>0, <2>1, <2>3, <3>2 DEF SnapshotsInv, JobsAreFaithful
      <4> QED
        BY <1>4, <4>1, JobStays
    <3> QED
      BY <3>1, <3>2
  <2>4. \A d \in Databases : MarkIsTrue(d)'
    BY <1>4, MarkStays DEF SnapshotsInv
  <2> QED
    BY <1>4, <2>2, <2>3, <2>4 DEF SnapshotsInv, JobsAreFaithful
<1>5. CASE UNCHANGED snapshotVars
  BY <1>5 DEF snapshotVars, SnapshotsInv, SnapshotsTyped, NoneOverlaps, JobsAreFaithful, JobIsFaithful,
              MarkIsTrue
<1>6. CASE OracleChanges
  <2>1. moment' \in Nat
    BY <1>0, <1>6 DEF OracleChanges
  <2> QED
    BY <1>6, <2>1 DEF OracleChanges, SnapshotsInv, SnapshotsTyped, NoneOverlaps, JobsAreFaithful,
                      JobIsFaithful, MarkIsTrue
<1>7. ASSUME NEW d \in Databases, DropCopy(d) PROVE SnapshotsInv'
  <2>1. /\ copies' = [copies EXCEPT ![d] = NoCopy] /\ copies'[d] = NoCopy
        /\ UNCHANGED <<moment, taking, asked>>
    BY <1>0, <1>7 DEF DropCopy
  <2>2. SnapshotsTyped' /\ NoneOverlaps'
    BY <1>0, <2>1 DEF SnapshotsInv, SnapshotsTyped, NoneOverlaps
  <2>3. ASSUME NEW c \in SnapshotCallers, taking[c] # NotTaking PROVE JobIsFaithful(taking[c])'
    <3>1. taking[c] \in Jobs /\ JobIsFaithful(taking[c]) /\ taking[c].database \in Databases
      BY <1>0, <2>3, JobFields DEF SnapshotsInv, JobsAreFaithful
    <3>2. CASE taking[c].database = d
      BY <2>1, <3>1, <3>2 DEF JobIsFaithful, NoCopy
    <3>3. CASE taking[c].database # d
      BY <1>0, <2>1, <3>1, <3>3, JobStays
    <3> QED
      BY <3>2, <3>3
  <2>4. ASSUME NEW e \in Databases PROVE MarkIsTrue(e)'
    <3>1. CASE e = d
      BY <2>1, <3>1 DEF MarkIsTrue, NoCopy
    <3>2. CASE e # d
      BY <1>0, <2>1, <3>2, MarkStays DEF SnapshotsInv
    <3> QED
      BY <3>1, <3>2
  <2> QED
    BY <2>1, <2>2, <2>3, <2>4 DEF SnapshotsInv, JobsAreFaithful
<1>8. ASSUME NEW c \in SnapshotCallers, OracleSnapshot(c), NoneOverlaps' PROVE SnapshotsInv'
  <2>1. PICK d \in Databases, spelled \in Spellings, q \in Sources :
           Starts(c, Job(d, spelled, q, FALSE))
    BY <1>8 DEF OracleSnapshot
  <2> DEFINE job == Job(d, spelled, q, FALSE)
  <2>2. job \in Jobs /\ JobIsFaithful(job)'
    BY NothingRead DEF Job, Jobs, JobIsFaithful
  <2> QED
    BY <1>4, <1>8, <2>1, <2>2 DEF OracleSnapshot
<1>9. ASSUME NEW c \in SnapshotCallers, OracleSnapshotRefresh(c), NoneOverlaps' PROVE SnapshotsInv'
  <2>1. PICK d \in Listed :
           Starts(c, Job(d, copies[d].comment[1].catalog, copies[d].comment[1].source, TRUE))
    BY <1>9 DEF OracleSnapshotRefresh
  <2>2. PICK mark \in Marks : mark = copies[d].comment[1] /\ mark.source = asked[d] /\ d \in Databases
    <3>1. d \in Databases /\ copies[d].exists /\ copies[d].comment # <<>>
      BY <2>1 DEF Listed
    <3>2. MarkIsTrue(d)
      BY <3>1 DEF SnapshotsInv
    <3> QED
      BY <1>0, <3>1, <3>2, CopyFields DEF MarkIsTrue
  <2>3. UNCHANGED <<moment, copies, asked>>
    BY <1>9 DEF OracleSnapshotRefresh
  <2>4. /\ Job(d, mark.catalog, mark.source, TRUE) \in Jobs
        /\ JobIsFaithful(Job(d, mark.catalog, mark.source, TRUE))'
    <3>1. mark.catalog \in Spellings /\ mark.source \in Sources
      BY <2>2 DEF Marks
    <3>2. asked'[d] = asked[d]
      BY <2>3
    <3> QED
      BY <2>2, <3>1, <3>2, NothingRead DEF Job, Jobs, JobIsFaithful
  <2> QED
    BY <1>4, <1>9, <2>1, <2>2, <2>3, <2>4
<1>10. ASSUME NEW c \in SnapshotCallers, OracleCurrentScn(c), NoneOverlaps' PROVE SnapshotsInv'
  <2>1. taking[c] \in Jobs /\ JobIsFaithful(taking[c]) /\ taking[c].step = "ask"
    BY <1>2, <1>10 DEF OracleCurrentScn, Doing
  <2>2. PICK job \in Jobs : job = [taking[c] EXCEPT !.step = "build", !.scn = moment]
    BY <1>0, <2>1 DEF Jobs
  <2>3. /\ job.step = "build" /\ job.read = <<>> /\ job.database = taking[c].database
        /\ job.source = taking[c].source /\ job.refresh = taking[c].refresh
        /\ taking' = [taking EXCEPT ![c] = job]
    BY <1>0, <1>10, <2>1, <2>2 DEF OracleCurrentScn, Jobs, JobIsFaithful
  <2>4. JobIsFaithful(job)'
    <3>1. asked'[taking[c].database] = asked[taking[c].database]
      BY <1>10 DEF OracleCurrentScn
    <3>2. job.refresh => job.source = asked'[job.database]
      BY <2>1, <2>3, <3>1 DEF JobIsFaithful
    <3> QED
      BY <2>3, <3>2, NothingRead DEF JobIsFaithful
  <2> QED
    BY <1>3, <1>10, <2>1, <2>3, <2>4 DEF OracleCurrentScn
<1>11. ASSUME NEW c \in SnapshotCallers, NEW t \in SourceTables, SourceIsRead(c, t), NoneOverlaps'
       PROVE  SnapshotsInv'
  <2>1. taking[c] \in Jobs /\ JobIsFaithful(taking[c]) /\ taking[c].step = "build"
    BY <1>2, <1>11 DEF SourceIsRead, Doing
  <2>2. taking[c].catalog = AttachedName /\ MomentRead(taking[c]) = taking[c].scn
    BY <2>1, JobFields DEF MomentRead
  <2> DEFINE old == taking[c].read
             read == [u \in DOMAIN old \cup {t} |-> IF u = t THEN taking[c].scn ELSE old[u]]
  <2>3. read \in Reads /\ \A u \in DOMAIN read : read[u] = taking[c].scn
    <3>1. PICK T \in SUBSET SourceTables : old \in [T -> Nat]
      BY <2>1, JobFields DEF Reads
    <3>2. read \in [T \cup {t} -> Nat]
      BY <2>1, <3>1, JobFields
    <3> QED
      BY <2>1, <3>1, <3>2 DEF Reads, JobIsFaithful
  <2>4. PICK job \in Jobs : job = [taking[c] EXCEPT !.read = read]
    <3> HIDE DEF read
    <3> QED
      BY <2>1, <2>3 DEF Jobs
  <2>5. taking' = [taking EXCEPT ![c] = job]
    BY <1>0, <1>11, <2>1, <2>2, <2>4 DEF SourceIsRead, Jobs
  <2>6. /\ job.step = "build" /\ job.read = read /\ job.database = taking[c].database
        /\ job.source = taking[c].source /\ job.refresh = taking[c].refresh /\ job.scn = taking[c].scn
    <3> HIDE DEF read
    <3> QED
      BY <2>1, <2>4, <2>3 DEF Jobs
  <2>7. JobIsFaithful(job)'
    <3> HIDE DEF read
    <3>1. asked'[taking[c].database] = asked[taking[c].database]
      BY <1>11 DEF SourceIsRead
    <3>2. job.refresh => job.source = asked'[job.database]
      BY <2>1, <2>6, <3>1 DEF JobIsFaithful
    <3> QED
      BY <2>3, <2>6, <3>2 DEF JobIsFaithful
  <2> QED
    BY <1>3, <1>11, <2>1, <2>5, <2>7 DEF SourceIsRead
<1>12. ASSUME NEW c \in SnapshotCallers, CopyIsReplaced(c), NoneOverlaps' PROVE SnapshotsInv'
  <2>1. taking[c] \in Jobs /\ JobIsFaithful(taking[c]) /\ taking[c].step = "build"
    BY <1>2, <1>12 DEF CopyIsReplaced, Doing
  <2>a. PICK d \in Databases : d = taking[c].database
    BY <2>1, JobFields
  <2>b. PICK job \in Jobs : job = [taking[c] EXCEPT !.step = "count"]
    BY <2>1 DEF Jobs
  <2>2. taking[c].source \in Sources /\ taking[c].read \in Reads
    BY <2>1, JobFields
  <2>c. PICK copy \in Copies : copy = Copy(taking[c].source, taking[c].read)
    BY <2>2 DEF Copy, Copies
  <2>3. /\ taking' = [taking EXCEPT ![c] = job] /\ copies' = [copies EXCEPT ![d] = copy]
        /\ asked' = (IF taking[c].refresh THEN asked ELSE [asked EXCEPT ![d] = taking[c].source])
        /\ moment' = moment
    BY <1>0, <1>12, <2>a, <2>b, <2>c DEF CopyIsReplaced
  <2>4. copy.exists /\ copy.source = taking[c].source /\ copy.comment = <<>>
    BY <2>c DEF Copy
  <2>5. copy.read = Everything(taking[c].scn)
    <3>1. PICK T \in SUBSET SourceTables : taking[c].read \in [T -> Nat]
      BY <2>2 DEF Reads
    <3>2. T = SourceTables
      BY <1>12, <3>1 DEF CopyIsReplaced
    <3> QED
      BY <2>1, <2>c, <3>1, <3>2 DEF Copy, Everything, JobIsFaithful
  <2>6. /\ job.step = "count" /\ job.database = d /\ job.source = taking[c].source
        /\ job.scn = taking[c].scn
    BY <2>1, <2>a, <2>b DEF Jobs
  <2>7. copies'[d] = copy /\ asked'[d] = taking[c].source /\ DOMAIN asked' = Databases
    BY <1>0, <2>1, <2>3, <2>a DEF JobIsFaithful
  <2>8. \A e \in Databases \ {d} : copies'[e] = copies[e] /\ asked'[e] = asked[e]
    BY <1>0, <2>3
  <2>9. SnapshotsTyped'
    BY <1>0, <2>3, <2>7 DEF SnapshotsTyped
  <2>10. JobIsFaithful(job)'
    BY <2>4, <2>5, <2>6, <2>7 DEF JobIsFaithful
  <2>11. MarkIsTrue(d)'
    BY <2>4, <2>7 DEF MarkIsTrue
  <2>12. JobsAreFaithful' /\ \A e \in Databases : MarkIsTrue(e)'
    BY <2>1, <2>3, <2>8, <2>10, <2>11, <2>a, JobGoesOn
  <2> QED
    BY <1>12, <2>9, <2>12 DEF SnapshotsInv
<1>13. ASSUME NEW c \in SnapshotCallers, CountRows(c), NoneOverlaps' PROVE SnapshotsInv'
  <2>1. taking[c] \in Jobs /\ JobIsFaithful(taking[c]) /\ taking[c].step = "count"
    BY <1>2, <1>13 DEF CountRows, Doing
  <2>2. PICK job \in Jobs : job = [taking[c] EXCEPT !.step = "comment"]
    BY <2>1 DEF Jobs
  <2>3. /\ job.step = "comment" /\ job.database = taking[c].database /\ job.scn = taking[c].scn
        /\ job.source = taking[c].source
        /\ taking' = [taking EXCEPT ![c] = job]
    BY <1>0, <1>13, <2>1, <2>2 DEF CountRows, Jobs
  <2>4. JobIsFaithful(job)'
    <3>1. UNCHANGED <<copies, asked>>
      BY <1>13 DEF CountRows
    <3> QED
      BY <2>1, <2>3, <3>1 DEF JobIsFaithful
  <2> QED
    BY <1>3, <1>13, <2>1, <2>3, <2>4 DEF CountRows
<1>14. ASSUME NEW c \in SnapshotCallers, CommentOnTable(c), NoneOverlaps' PROVE SnapshotsInv'
  <2>1. taking[c] \in Jobs /\ JobIsFaithful(taking[c]) /\ taking[c].step = "comment"
    BY <1>2, <1>14 DEF CommentOnTable, Doing
  <2>a. PICK d \in Databases : d = taking[c].database
    BY <2>1, JobFields
  <2>2. PICK mark \in Marks : mark = [catalog |-> taking[c].catalog, scn |-> taking[c].scn,
                                    source |-> taking[c].source]
    BY <2>1, JobFields DEF Marks
  <2>3. copies[d] \in Copies /\ copies[d].exists
    BY <1>0, <1>14, <2>a, CopyFields DEF CommentOnTable
  <2>b. PICK copy \in Copies : copy = [copies[d] EXCEPT !.comment = <<mark>>]
    BY <2>3 DEF Copies
  <2>4. /\ taking' = [taking EXCEPT ![c] = NotTaking] /\ copies' = [copies EXCEPT ![d] = copy]
        /\ UNCHANGED <<moment, asked>>
    BY <1>0, <1>14, <2>2, <2>a, <2>b DEF CommentOnTable, Mark
  <2>5. copy.read = copies[d].read /\ copy.source = copies[d].source /\ copy.comment[1] = mark
    BY <2>3, <2>b DEF Copies
  <2>6. mark.scn = taking[c].scn /\ mark.source = taking[c].source
    BY <2>2
  <2>7. copies'[d] = copy /\ \A e \in Databases \ {d} : copies'[e] = copies[e]
    BY <1>0, <2>4
  <2>8. /\ taking[c].source = asked[d] /\ copies[d].read = Everything(taking[c].scn)
        /\ copies[d].source = taking[c].source
    BY <2>1, <2>3, <2>a DEF JobIsFaithful
  <2>9. SnapshotsTyped'
    BY <1>0, <2>4 DEF SnapshotsTyped
  <2>10. MarkIsTrue(d)'
    BY <2>4, <2>5, <2>6, <2>7, <2>8 DEF MarkIsTrue
  <2>11. JobsAreFaithful' /\ \A e \in Databases : MarkIsTrue(e)'
    BY <2>1, <2>4, <2>7, <2>10, <2>a, JobGoesOn
  <2> QED
    BY <1>14, <2>9, <2>11 DEF SnapshotsInv
<1>15. ASSUME NEW c \in SnapshotCallers, SnapshotFails(c), NoneOverlaps' PROVE SnapshotsInv'
  <2>1. taking[c] \in Jobs
    BY <1>0, <1>15 DEF SnapshotFails
  <2> QED
    BY <1>3, <1>15, <2>1 DEF SnapshotFails
<1> QED
  <2>1. ASSUME NEW c \in SnapshotCallers, SnapshotsNext, NoneOverlaps',
               \/ OracleSnapshot(c) \/ OracleSnapshotRefresh(c) \/ OracleCurrentScn(c)
               \/ \E t \in SourceTables : SourceIsRead(c, t)
               \/ CopyIsReplaced(c) \/ CountRows(c) \/ CommentOnTable(c) \/ SnapshotFails(c)
        PROVE  SnapshotsInv'
    BY <1>8, <1>9, <1>10, <1>11, <1>12, <1>13, <1>14, <1>15, <2>1
  <2> QED
    BY <1>5, <1>6, <1>7, <2>1 DEF SnapshotsNext

(* ``Reading every table of that catalog AS OF one SCN, and records the    *)
(* SCN and the query in the table's comment'' (oracle_snapshot.cpp line    *)
(* 300): for any callers, databases, tables and queries, what a marked     *)
(* copy says of itself is true, where users spell the catalog's name as it *)
(* was attached and one statement works on a copy at a time.               *)
THEOREM MarksAreTrue ==
    ASSUME Spellings = {AttachedName}
    PROVE  SnapshotsInit /\ [][SnapshotsNext /\ NoneOverlaps']_snapshotVars
              => []MarkedRowsAreOfTheirMoment
<1>1. SnapshotsInv => MarkedRowsAreOfTheirMoment
  BY DEF SnapshotsInv, MarkIsTrue, Listed, MarkedRowsAreOfTheirMoment, Everything
<1>2. SnapshotsInv /\ [SnapshotsNext /\ NoneOverlaps']_snapshotVars => SnapshotsInv'
  BY SnapshotsStep
<1> QED
  BY <1>1, <1>2, SnapshotsInitially, PTL

-----------------------------------------------------------------------------
(* The invariant.  A list of columns is what an object had at a moment,    *)
(* but for shapes, each of which it had at a moment too.                   *)
IsAs(c, e) == IsColumn(c) /\ c.name = e.name /\ c.vector = e.vector

Plain(n, columns) ==
    \E d \in past :
        /\ n \in DOMAIN d /\ DOMAIN columns = DOMAIN d[n].columns
        /\ \A i \in DOMAIN columns : IsAs(columns[i], d[n].columns[i])

Told(n, columns) ==
    \A i \in DOMAIN columns :
        columns[i].shape = 0 \/ \E d \in past : n \in DOMAIN d /\ columns[i] \in ToSet(d[n].columns)

Faithful(n, columns) == Plain(n, columns) /\ Told(n, columns)

(* A list has all of a kind that were there at some moment.                *)
Holds(names, kind, d) ==
    \A n \in DOMAIN d : d[n].view = kind => n \in ToSet(names)
HasHeld(names, kind) == \E d \in past : Holds(names, kind, d)

(* What the schema has held.                                               *)
PastIs ==
    /\ dictionary \in past
    /\ \A d \in past : DOMAIN d \subseteq ObjectNames /\ \A n \in DOMAIN d : IsShape(d[n])

(* The cache grows only, and holds what is true of some moment; once the   *)
(* whole schema was read, it holds that schema and nothing else, but for   *)
(* the while in which its reader has yet to put it there.                  *)
CacheIs ==
    /\ IsFiniteSet(DOMAIN column_cache)
    /\ \A n \in DOMAIN column_cache :
          column_cache[n] = <<>> \/ Faithful(n, column_cache[n])
    /\ ~metadata.loaded => DOMAIN column_cache = {} /\ ~metadata.complete
    /\ metadata.complete =>
          /\ at_load \in past
          /\ \/ \E t \in Lookers : lookups[t].step = "shapes"
             \/ /\ DOMAIN column_cache = DOMAIN at_load
                /\ \A n \in DOMAIN column_cache : DOMAIN column_cache[n] # {}

(* The keys are of some moment; a complete list has all of both kinds.     *)
KeysAre ==
    \A n \in DOMAIN primary_keys.cache :
        \E d \in past : n \in DOMAIN d /\ primary_keys.cache[n] = d[n].key

ListIs ==
    /\ objects.names \in Seq(ObjectNames) /\ Len(objects.names) <= MaximumObjects
    /\ objects.loaded => \/ Len(objects.names) = MaximumObjects
                         \/ HasHeld(objects.names, FALSE) /\ HasHeld(objects.names, TRUE)

(* The names an object is described under, one after the other.            *)
Aims(x) ==
    \/ \E a : /\ x.tries = <<a>> /\ Alike(a, x.requested)
              /\ metadata.complete => Meant(x.requested) = {a}
    \/ \E a, b : /\ x.tries = <<a, b>> /\ Alike(a, x.requested) /\ Alike(b, x.requested)
                 /\ ~metadata.complete

(* What a looker does, by its step, and what it knows then.                *)
IsBinding(x) ==
    x = [step |-> x.step, requested |-> x.requested, tries |-> x.tries, columns |-> x.columns,
         reading |-> x.reading]
IsListing(x) == x = [step |-> x.step, requested |-> x.requested]

ReadingIs(x) ==
    /\ IsFiniteSet(DOMAIN x.reading) /\ DOMAIN x.reading \cap DOMAIN column_cache = {}
    /\ \A n \in DOMAIN x.reading :
          \/ DOMAIN x.reading[n] = {}
          \/ Plain(n, x.reading[n]) /\ \A i \in DOMAIN x.reading[n] : x.reading[n][i].shape = 0
    /\ metadata.complete =>
          /\ DOMAIN column_cache = {} /\ DOMAIN x.reading = DOMAIN at_load
          /\ \A n \in DOMAIN x.reading : DOMAIN x.reading[n] # {}

LookupIs(t, x) ==
    \/ x = IdleLooker
    \/ /\ IsListing(x) /\ x.step \in {"tables", "views"}
       /\ x.step = "views" => metadata_lock = t /\ HasHeld(objects.names, FALSE)
    \/ /\ IsBinding(x) /\ x.step \in {"resolve", "shapes", "describe", "keys"}
       /\ x.step = "resolve" => x.tries = <<>>
       /\ x.step = "shapes" =>
             metadata.loaded /\ metadata_lock = t /\ ReadingIs(x) /\ (x.tries = <<>> \/ Aims(x))
       /\ x.step \in {"describe", "keys"} => metadata.loaded /\ Aims(x)
       /\ x.step = "keys" =>
             /\ Head(x.tries) \in DOMAIN column_cache /\ x.columns = column_cache[Head(x.tries)]
             /\ DOMAIN x.columns # {}

LookupsAre == DOMAIN lookups = Lookers /\ \A t \in Lookers : LookupIs(t, lookups[t])

(* What was told is what the cache and the keys hold to this day: that is  *)
(* why no table is described in two ways.                                  *)
AnswerIs(a) ==
    \/ a.kind = "list" /\ ListIsWhole(a)
    \/ a.kind = "none" /\ metadata.loaded /\ NameIsMeant(a)
    \/ /\ a.kind = "entry" /\ metadata.loaded /\ NameIsMeant(a) /\ primary_keys.loaded
       /\ Alike(a.object, a.requested)
       /\ a.object \in DOMAIN column_cache /\ a.columns = column_cache[a.object]
       /\ DOMAIN a.columns # {} /\ a.key = KeyOf(a.object, a.columns)

AnswersAre == \A a \in answers : AnswerIs(a)

MetadataInv == PastIs /\ CacheIs /\ KeysAre /\ ListIs /\ LookupsAre /\ AnswersAre

-----------------------------------------------------------------------------
(* What is new goes over what was known, name by name.                     *)
LEMMA OverIs ==
    ASSUME NEW f, NEW g
    PROVE  /\ DOMAIN Over(f, g) = DOMAIN f \cup DOMAIN g
           /\ \A n \in DOMAIN f : Over(f, g)[n] = f[n]
           /\ \A n \in DOMAIN g \ DOMAIN f : Over(f, g)[n] = g[n]
BY DEF Over

(* An empty sequence is a function of no argument.                         *)
LEMMA EmptyIs == DOMAIN <<>> = {}
OBVIOUS

(* An object has at least one column, and every column is one.             *)
LEMMA ShapeIs ==
    ASSUME NEW s, IsShape(s)
    PROVE  /\ DOMAIN s.columns = 1..Len(s.columns) /\ Len(s.columns) \in Nat \ {0}
           /\ DOMAIN s.columns # {}
           /\ \A i \in DOMAIN s.columns :
                 IsColumn(s.columns[i]) /\ s.columns[i] \in ToSet(s.columns)
           /\ \A c \in ToSet(s.columns) : IsColumn(c)
<1>1. s.columns \in Seq(ToSet(s.columns)) /\ s.columns # <<>>
  BY DEF IsShape
<1>2. Len(s.columns) \in Nat \ {0} /\ DOMAIN s.columns = 1..Len(s.columns)
  BY <1>1, EmptySeq, LenProperties
<1>3. \A i \in DOMAIN s.columns : s.columns[i] \in ToSet(s.columns)
  BY DEF ToSet
<1>4. \A c \in ToSet(s.columns) : IsColumn(c)
  BY DEF IsShape
<1>5. 1 \in DOMAIN s.columns
  BY <1>2
<1> QED
  BY <1>2, <1>3, <1>4, <1>5

Reshaped(c, s) == [c EXCEPT !.shape = s]

(* A column without its shape is still that column.                        *)
LEMMA ColumnIs ==
    ASSUME NEW c, IsColumn(c)
    PROVE  IsAs(Reshaped(c, 0), c) /\ Reshaped(c, 0).shape = 0
BY DEF IsColumn, IsAs, Reshaped

(* Two columns alike differ in their shape at most.                        *)
LEMMA ColumnsAlike ==
    ASSUME NEW c, NEW e, IsAs(c, e), IsColumn(e)
    PROVE  Reshaped(c, e.shape) = e /\ Reshaped(c, 0) = Reshaped(e, 0)
<1>1. /\ c \in [name : {c.name}, vector : BOOLEAN, shape : Nat]
      /\ e \in [name : {e.name}, vector : BOOLEAN, shape : Nat]
      /\ c.name = e.name /\ c.vector = e.vector
  BY DEF IsAs, IsColumn
<1> QED
  BY <1>1 DEF Reshaped

(* Plain and Told lists of columns remain so while the schema goes on.     *)
LEMMA FaithfulStays ==
    ASSUME past \subseteq past', NEW n, NEW columns
    PROVE  /\ Plain(n, columns) => Plain(n, columns)'
           /\ Told(n, columns) => Told(n, columns)'
BY DEF Plain, Told

(* A list of columns read from the dictionary, before shapes are known.    *)
LEMMA UnshapedIs ==
    ASSUME NEW d \in past, NEW n \in DOMAIN d, IsShape(d[n])
    PROVE  LET columns == Unshaped(d[n].columns) IN
           /\ Plain(n, columns) /\ DOMAIN columns # {}
           /\ \A i \in DOMAIN columns : columns[i].shape = 0
<1> DEFINE full == d[n].columns
           columns == Unshaped(full)
<1>1. DOMAIN full # {} /\ \A i \in DOMAIN full : IsColumn(full[i])
  BY ShapeIs
<1>2. DOMAIN columns = DOMAIN full /\ \A i \in DOMAIN full : columns[i] = Reshaped(full[i], 0)
  BY DEF Unshaped, Reshaped
<1> HIDE DEF columns
<1>3. \A i \in DOMAIN full : IsAs(columns[i], full[i]) /\ columns[i].shape = 0
  BY <1>1, <1>2, ColumnIs
<1> QED
  BY <1>1, <1>2, <1>3 DEF Plain, columns

(* The second query tells of some vectors what they are by then: nothing   *)
(* it adds is untrue of the object, though it may have been replaced.      *)
LEMMA ShapedIs ==
    ASSUME PastIs, NEW n, NEW columns, NEW told, NEW reading, n \in DOMAIN reading,
           columns = reading[n], told \subseteq Vectors(reading),
           Plain(n, columns), \A i \in DOMAIN columns : columns[i].shape = 0
    PROVE  Faithful(n, Shaped(reading, told)[n]) /\ DOMAIN Shaped(reading, told)[n] = DOMAIN columns
<1> DEFINE shaped == Shaped(reading, told)[n]
           shapes(i) == IF <<n, i>> \in told THEN ShapesNow(n, columns[i].name) ELSE {}
<1>1. /\ DOMAIN shaped = DOMAIN columns
      /\ \A i \in DOMAIN columns :
            shaped[i] = IF shapes(i) = {} THEN columns[i]
                        ELSE Reshaped(columns[i], CHOOSE s \in shapes(i) : TRUE)
  BY DEF Shaped, Reshaped
<1>2. PICK d \in past :
          /\ n \in DOMAIN d /\ DOMAIN columns = DOMAIN d[n].columns
          /\ \A i \in DOMAIN columns : IsAs(columns[i], d[n].columns[i])
  BY DEF Plain
<1>3. ASSUME NEW i \in DOMAIN columns
      PROVE  /\ IsAs(shaped[i], d[n].columns[i])
             /\ \/ shaped[i].shape = 0
                \/ \E e \in past : n \in DOMAIN e /\ shaped[i] \in ToSet(e[n].columns)
  <2>1. CASE shapes(i) = {}
    <3>1. shaped[i] = columns[i]
      BY <1>1, <2>1
    <3> HIDE DEF shaped, shapes
    <3> QED
      BY <1>2, <3>1
  <2>2. CASE shapes(i) # {}
    <3> DEFINE s == CHOOSE s \in shapes(i) : TRUE
    <3>1. s \in shapes(i) /\ <<n, i>> \in told /\ shapes(i) = ShapesNow(n, columns[i].name)
      BY <2>2
    <3>2. n \in DOMAIN dictionary /\ columns[i].vector
      <4>1. <<n, i>> \in Vectors(reading)
        BY <3>1
      <4>2. columns[i].vector
        BY <4>1 DEF Vectors
      <4> QED
        BY <3>1, <4>2 DEF ShapesNow
    <3>3. PICK c \in ToSet(dictionary[n].columns) : c.name = columns[i].name /\ c.vector /\ s = c.shape
      BY <3>1, <3>2 DEF ShapesNow
    <3>4. IsColumn(c) /\ IsColumn(columns[i])
      BY <1>2, <3>2, <3>3, ShapeIs DEF PastIs, IsAs
    <3>5. c.vector = columns[i].vector
      BY <3>2, <3>3, <3>4 DEF IsColumn
    <3>6. IsAs(columns[i], c)
      BY <3>3, <3>4, <3>5 DEF IsAs
    <3>7. shaped[i] = Reshaped(columns[i], s)
      BY <1>1, <2>2
    <3> HIDE DEF s, shaped, shapes
    <3>8. shaped[i] = c
      BY <3>3, <3>4, <3>6, <3>7, ColumnsAlike
    <3>9. IsAs(c, d[n].columns[i])
      BY <1>2, <3>3, <3>4, <3>5 DEF IsAs
    <3> QED
      BY <3>2, <3>3, <3>8, <3>9 DEF PastIs
  <2> QED
    BY <2>1, <2>2
<1> HIDE DEF shaped
<1> QED
  BY <1>1, <1>2, <1>3 DEF Faithful, Plain, Told, shaped


(* A name that is no object has no shapes to apply.                        *)
LEMMA NoneIs == ASSUME NEW f, NEW reading, NEW told, f = Shaped(reading, told), NEW n \in DOMAIN reading,
                       DOMAIN reading[n] = {}
                PROVE f[n] = <<>>
<1>1. f[n] = [i \in {} |-> f[n][i]]
  BY DEF Shaped
<1> QED
  BY <1>1
-----------------------------------------------------------------------------
(* The columns up to an object are finitely many.                          *)
LEMMA ThroughIs ==
    ASSUME NEW d, IsFiniteSet(DOMAIN d), \A m \in DOMAIN d : IsShape(d[m]), NEW n
    PROVE  ColumnsThrough(d, n) \in Nat
<1> DEFINE M == {m \in DOMAIN d : m = n \/ PrecedesName(m, n)}
           rows == [m \in M |-> {m} \X DOMAIN d[m].columns]
           all == {{m} \X DOMAIN d[m].columns : m \in M}
<1>1. IsFiniteSet(M)
  BY FS_Subset
<1>2. \A m \in M : IsFiniteSet({m} \X DOMAIN d[m].columns)
  <2> SUFFICES ASSUME NEW m \in M PROVE IsFiniteSet({m} \X DOMAIN d[m].columns)
    OBVIOUS
  <2>1. IsShape(d[m])
    OBVIOUS
  <2>2. DOMAIN d[m].columns = 1..Len(d[m].columns) /\ Len(d[m].columns) \in Nat
    BY <2>1, ShapeIs
  <2>3. IsFiniteSet(1..Len(d[m].columns)) /\ IsFiniteSet({m})
    <3>1. 1 \in Int /\ Len(d[m].columns) \in Int
      BY <2>2
    <3> QED
      BY ONLY <3>1, FS_Interval, FS_Singleton
  <2> QED
    BY <2>2, <2>3, FS_Product
<1>3. ColumnsThrough(d, n) = Cardinality(UNION all)
  BY DEF ColumnsThrough
<1> HIDE DEF M
<1>4. rows \in Surjection(M, all)
  BY DEF Surjection
<1>5. IsFiniteSet(all)
  BY <1>1, <1>4, FS_Surjection
<1>6. IsFiniteSet(UNION all)
  BY <1>2, <1>5, FS_UNION
<1> QED
  BY <1>3, <1>6, FS_CardinalityType

(* Whatever the bound leaves, it leaves whole.                             *)
LEMMA LoadedIs ==
    ASSUME NEW d, IsFiniteSet(DOMAIN d), \A m \in DOMAIN d : IsShape(d[m])
    PROVE  /\ LoadedObjects(d) \subseteq DOMAIN d
           /\ ~Truncated(d) => LoadedObjects(d) = DOMAIN d
           /\ \A n \in LoadedObjects(d) : LoadedColumns(d, n) = Unshaped(d[n].columns)
<1>1. MaximumColumns \in Nat
  BY MetadataAssumption
<1>2. \A n \in LoadedObjects(d) : ColumnsThrough(d, n) <= MaximumColumns
  BY <1>1, ThroughIs DEF LoadedObjects, Truncated
<1> QED
  BY <1>2 DEF LoadedObjects, LoadedColumns

(* One thing, numbered, is a sequence of one.                              *)
LEMMA InOrder ==
    ASSUME NEW m, NEW f \in [1..1 -> {m}], IsInjective(f)
    PROVE  f = <<m>>
<1>1. f = [i \in 1..1 |-> m] /\ 1..1 = {1}
  OBVIOUS
<1> QED
  BY <1>1

(* ... which is how SetToSeq gives the only name that is alike.            *)
LEMMA OneInOrder == ASSUME NEW m PROVE SetToSeq({m}) = <<m>>
<1> DEFINE f == [i \in 1..1 |-> m]
<1>1. Cardinality({m}) = 1
  BY FS_Singleton
<1>2. f \in [1..1 -> {m}] /\ IsInjective(f)
  BY DEF IsInjective
<1>3. SetToSeq({m}) = CHOOSE g \in [1..1 -> {m}] : IsInjective(g)
  BY <1>1 DEF SetToSeq
<1>4. SetToSeq({m}) \in [1..1 -> {m}] /\ IsInjective(SetToSeq({m}))
  BY <1>2, <1>3
<1> QED
  BY <1>4, InOrder

(* What a name resolves to, in a cache of finitely many names.             *)
LEMMA ResolvedIs ==
    ASSUME IsFiniteSet(DOMAIN column_cache), NEW requested
    PROVE  LET alike == {n \in DOMAIN column_cache : Alike(n, requested)}
               tries == ResolveObjectName(requested)
           IN  \/ /\ tries = <<>> /\ metadata.complete
                  /\ requested \notin alike /\ Cardinality(alike) # 1
               \/ tries = <<>> /\ ~metadata.complete
               \/ \E a : /\ tries = <<a>> /\ Alike(a, requested)
                         /\ \/ a = requested /\ a \in alike
                            \/ requested \notin alike /\ alike = {a} /\ Cardinality(alike) = 1
                            \/ ~metadata.complete
               \/ \E a, b : /\ tries = <<a, b>> /\ Alike(a, requested) /\ Alike(b, requested)
                            /\ ~metadata.complete
<1> DEFINE alike == {n \in DOMAIN column_cache : Alike(n, requested)}
           tries == ResolveObjectName(requested)
<1>1. IsFiniteSet(alike) /\ Cardinality(alike) \in Nat /\ (Cardinality(alike) = 0 <=> alike = {})
  BY FS_Subset, FS_CardinalityType, FS_EmptySet
<1>2. tries = CASE requested \in alike -> <<requested>>
                [] requested \notin alike /\ Cardinality(alike) = 1 -> SetToSeq(alike)
                [] requested \notin alike /\ Cardinality(alike) > 1 -> <<>>
                [] alike = {} /\ metadata.complete -> <<>>
                [] alike = {} /\ ~metadata.complete ->
                     IF requested = Upper(requested) THEN <<requested>>
                     ELSE <<Upper(requested), requested>>
  BY DEF ResolveObjectName
<1>3. Alike(requested, requested) /\ Alike(Upper(requested), requested)
  BY DEF Alike, Upper
<1>4. \A a \in alike : Alike(a, requested)
  OBVIOUS
<1> HIDE DEF alike, tries
<1>5. CASE requested \in alike
  <2>1. tries = <<requested>>
    BY <1>1, <1>2, <1>5
  <2> QED
    BY <1>3, <1>5, <2>1 DEF alike, tries
<1>6. CASE requested \notin alike /\ Cardinality(alike) = 1
  <2>1. PICK a : alike = {a}
    BY <1>1, <1>6, FS_Singleton
  <2>2. tries = SetToSeq(alike)
    BY <1>1, <1>2, <1>6
  <2>3. tries = <<a>>
    BY <2>1, <2>2, OneInOrder
  <2> QED
    BY <1>4, <1>6, <2>1, <2>3 DEF alike, tries
<1>7. CASE requested \notin alike /\ Cardinality(alike) > 1
  <2>1. tries = <<>>
    BY <1>1, <1>2, <1>7
  <2> QED
    BY <1>7, <2>1 DEF alike, tries
<1>8. CASE alike = {} /\ metadata.complete
  <2>1. tries = <<>>
    BY <1>1, <1>2, <1>8
  <2> QED
    BY <1>1, <1>8, <2>1 DEF alike, tries
<1>9. CASE alike = {} /\ ~metadata.complete
  <2>1. tries = IF requested = Upper(requested) THEN <<requested>> ELSE <<Upper(requested), requested>>
    BY <1>1, <1>2, <1>9
  <2> QED
    BY <1>3, <1>9, <2>1 DEF tries
<1>10. \/ requested \in alike \/ alike = {}
       \/ requested \notin alike /\ (Cardinality(alike) = 1 \/ Cardinality(alike) > 1)
  BY <1>1
<1> QED
  BY <1>5, <1>6, <1>7, <1>8, <1>9, <1>10

-----------------------------------------------------------------------------
(* What no step takes back.                                                *)
GoesOn ==
    /\ past \subseteq past'
    /\ DOMAIN column_cache \subseteq DOMAIN column_cache'
    /\ \A n \in DOMAIN column_cache : column_cache'[n] = column_cache[n]
    /\ UNCHANGED <<metadata, at_load>> \/ ~metadata.loaded
    /\ UNCHANGED primary_keys \/ ~primary_keys.loaded

(* What was told stays true: what it rests on is not taken back.           *)
LEMMA AnswerStays ==
    ASSUME GoesOn, NEW a, AnswerIs(a)
    PROVE  AnswerIs(a)'
<1>1. CASE a.kind = "list" /\ ListIsWhole(a)
  BY <1>1 DEF AnswerIs, ListIsWhole, GoesOn
<1>2. ASSUME metadata.loaded, NameIsMeant(a)
      PROVE  (metadata.loaded /\ NameIsMeant(a))'
  BY <1>2 DEF GoesOn, NameIsMeant, Meant
<1>3. CASE a.kind = "none" /\ metadata.loaded /\ NameIsMeant(a)
  BY <1>2, <1>3 DEF AnswerIs
<1>4. CASE /\ a.kind = "entry" /\ metadata.loaded /\ NameIsMeant(a) /\ primary_keys.loaded
           /\ Alike(a.object, a.requested)
           /\ a.object \in DOMAIN column_cache /\ a.columns = column_cache[a.object]
           /\ DOMAIN a.columns # {} /\ a.key = KeyOf(a.object, a.columns)
  <2>1. primary_keys' = primary_keys
    BY <1>4 DEF GoesOn
  <2>2. KeyOf(a.object, a.columns)' = KeyOf(a.object, a.columns)
    BY <2>1 DEF KeyOf
  <2>3. a.object \in DOMAIN column_cache' /\ a.columns = column_cache'[a.object]
    BY <1>4 DEF GoesOn
  <2> QED
    BY <1>2, <1>4, <2>1, <2>2, <2>3 DEF AnswerIs
<1> QED
  BY <1>1, <1>3, <1>4 DEF AnswerIs

(* The names a lookup is to describe stay the ones meant.                  *)
LEMMA AimStays ==
    ASSUME GoesOn, metadata.loaded, NEW x, Aims(x)
    PROVE  Aims(x)' /\ metadata'.loaded
BY DEF Aims, GoesOn, Meant

(* A list that held all of a kind at some moment goes on doing so.         *)
LEMMA HeldStays ==
    ASSUME past \subseteq past', NEW names, NEW kind, HasHeld(names, kind)
    PROVE  HasHeld(names, kind)'
BY DEF HasHeld, Holds

(* What is being read stays true while the schema changes.                 *)
LEMMA ReadingStays ==
    ASSUME past \subseteq past', UNCHANGED <<column_cache, metadata, at_load>>, NEW x, ReadingIs(x)
    PROVE  ReadingIs(x)'
<1>1. ASSUME NEW n \in DOMAIN x.reading, Plain(n, x.reading[n]) PROVE Plain(n, x.reading[n])'
  BY <1>1, FaithfulStays
<1> QED
  BY <1>1 DEF ReadingIs

(* What one holds the lock for: it changes in a step of another looker     *)
(* only while nobody, or that one, holds it.                               *)
Protected == <<metadata_lock, column_cache, metadata, at_load, objects>>

(* So a looker that does not step goes on as it was.                       *)
LEMMA LookupStays ==
    ASSUME GoesOn, NEW u \in Lookers, lookups'[u] = lookups[u], LookupIs(u, lookups[u]),
           metadata_lock # u \/ UNCHANGED Protected
    PROVE  LookupIs(u, lookups[u])'
<1>0. PICK x : x = lookups[u]
  OBVIOUS
<1>1. x = lookups'[u]
  BY <1>0
<1>2. LookupIs(u, x)
  BY <1>0
<1>3. CASE x = IdleLooker
  BY <1>1, <1>3 DEF LookupIs
<1>4. CASE /\ IsListing(x) /\ x.step \in {"tables", "views"}
           /\ x.step = "views" => metadata_lock = u /\ HasHeld(objects.names, FALSE)
  <2>1. CASE x.step = "views"
    <3>1. UNCHANGED Protected
      BY <1>4, <2>1
    <3>2. HasHeld(objects.names, FALSE)'
      BY <1>4, <2>1, <3>1, HeldStays DEF GoesOn, Protected, HasHeld, Holds
    <3> QED
      BY <1>1, <1>4, <3>1, <3>2 DEF LookupIs, Protected
  <2>2. CASE x.step # "views"
    BY <1>1, <1>4, <2>2 DEF LookupIs
  <2> QED
    BY <2>1, <2>2
<1>5. CASE IsBinding(x) /\ x.step = "resolve" /\ x.tries = <<>>
  BY <1>1, <1>5 DEF LookupIs
<1>6. CASE /\ IsBinding(x) /\ x.step = "shapes" /\ metadata.loaded /\ metadata_lock = u /\ ReadingIs(x)
           /\ x.tries = <<>> \/ Aims(x)
  <2>1. UNCHANGED Protected
    BY <1>6
  <2>3. ReadingIs(x)'
    BY <1>6, <2>1, ReadingStays DEF GoesOn, Protected
  <2>4. x.tries = <<>> \/ Aims(x)'
    BY <1>6, AimStays
  <2> QED
    BY <1>1, <1>6, <2>1, <2>3, <2>4 DEF LookupIs, Protected
<1>7. CASE IsBinding(x) /\ x.step = "describe" /\ metadata.loaded /\ Aims(x)
  BY <1>1, <1>7, AimStays DEF LookupIs
<1>8. CASE /\ IsBinding(x) /\ x.step = "keys" /\ metadata.loaded /\ Aims(x)
           /\ Head(x.tries) \in DOMAIN column_cache /\ x.columns = column_cache[Head(x.tries)]
           /\ DOMAIN x.columns # {}
  <2>1. Head(x.tries) \in DOMAIN column_cache' /\ x.columns = column_cache'[Head(x.tries)]
    BY <1>8 DEF GoesOn
  <2> QED
    BY <1>1, <1>8, <2>1, AimStays DEF LookupIs
<1> QED
  BY <1>2, <1>3, <1>4, <1>5, <1>6, <1>7, <1>8 DEF LookupIs

(* The columns in the cache stay true while the schema changes,            *)
LEMMA CacheStays ==
    ASSUME CacheIs, UNCHANGED <<column_cache, metadata, at_load>>, past \subseteq past',
           \A t \in Lookers : lookups[t].step = "shapes" => lookups'[t].step = "shapes"
    PROVE  CacheIs'
<1>1. \A n \in DOMAIN column_cache : Faithful(n, column_cache[n]) => Faithful(n, column_cache[n])'
  BY FaithfulStays DEF Faithful
<1> QED
  BY <1>1 DEF CacheIs

(* ... so do the keys,                                                     *)
LEMMA KeysStay ==
    ASSUME KeysAre, UNCHANGED primary_keys, past \subseteq past'
    PROVE  KeysAre'
BY DEF KeysAre

(* ... and the list of objects.                                            *)
LEMMA ListStays ==
    ASSUME ListIs, UNCHANGED objects, past \subseteq past'
    PROVE  ListIs'
<1>1. /\ HasHeld(objects.names, FALSE) => HasHeld(objects.names, FALSE)'
      /\ HasHeld(objects.names, TRUE) => HasHeld(objects.names, TRUE)'
  BY DEF HasHeld, Holds
<1> QED
  BY <1>1 DEF ListIs

(* A step of one looker over what is known already.                        *)
LooksOn(t) ==
    /\ UNCHANGED <<dictionary, past, column_cache, metadata, at_load, primary_keys, objects>>
    /\ DOMAIN lookups' = DOMAIN lookups /\ \A u \in Lookers \ {t} : lookups'[u] = lookups[u]
    /\ lookups[t].step # "shapes"
    /\ metadata_lock \in {NoLooker, t} \/ UNCHANGED metadata_lock

(* ... which keeps the invariant if its looker is as it should be.         *)
LEMMA LooksOnKeeps ==
    ASSUME MetadataInv, NEW t \in Lookers, LooksOn(t), LookupIs(t, lookups[t])',
           \A a \in answers' \ answers : AnswerIs(a)'
    PROVE  MetadataInv'
<1>1. GoesOn
  BY DEF LooksOn, GoesOn
<1>2. PastIs' /\ KeysAre' /\ ListIs'
  BY KeysStay, ListStays DEF MetadataInv, LooksOn, PastIs
<1>3. CacheIs'
  BY CacheStays DEF MetadataInv, LooksOn
<1>4. LookupsAre'
  <2>1. ASSUME NEW u \in Lookers \ {t} PROVE LookupIs(u, lookups[u])'
    <3>1. metadata_lock # u \/ UNCHANGED Protected
      BY MetadataAssumption DEF LooksOn, Protected
    <3>2. LookupIs(u, lookups[u]) /\ lookups'[u] = lookups[u]
      BY DEF MetadataInv, LookupsAre, LooksOn
    <3> QED
      BY <1>1, <3>1, <3>2, LookupStays
  <2>2. DOMAIN lookups' = Lookers
    BY DEF MetadataInv, LookupsAre, LooksOn
  <2> QED
    BY <2>1, <2>2 DEF LookupsAre
<1>5. AnswersAre'
  BY <1>1, AnswerStays DEF MetadataInv, AnswersAre
<1> QED
  BY <1>2, <1>3, <1>4, <1>5 DEF MetadataInv


-----------------------------------------------------------------------------
(* While the lock is free, or its holder's own, no list is half read.      *)
LEMMA SettledIs ==
    ASSUME MetadataInv, NEW t \in Lookers, metadata_lock \in {NoLooker, t}, lookups[t].step # "shapes",
           metadata.complete
    PROVE  /\ DOMAIN column_cache = DOMAIN at_load
           /\ \A n \in DOMAIN column_cache : DOMAIN column_cache[n] # {}
<1>1. ASSUME NEW u \in Lookers, lookups[u].step = "shapes" PROVE FALSE
  <2>1. LookupIs(u, lookups[u])
    BY DEF MetadataInv, LookupsAre
  <2>2. metadata_lock = u
    BY <1>1, <2>1 DEF LookupIs, IdleLooker
  <2> QED
    BY <1>1, <2>2, MetadataAssumption
<1> QED
  BY <1>1 DEF MetadataInv, CacheIs

(* A lookup begins with nothing known of its name.                         *)
LEMMA BeginsKeep ==
    ASSUME MetadataInv, NEW t \in Lookers, LooksUp(t) \/ GetDefaultEntries(t)
    PROVE  MetadataInv'
<1>1. LooksOn(t) /\ answers' = answers
  BY DEF MetadataInv, LookupsAre, LooksUp, GetDefaultEntries, LookerBegins, LookerGoes, LooksOn, IdleLooker
<1>2. CASE LooksUp(t)
  <2>1. PICK n \in ObjectNames : lookups'[t] = [step |-> "resolve", requested |-> n, tries |-> <<>>,
                                                columns |-> <<>>, reading |-> <<>>]
    BY <1>2 DEF LooksUp, LookerBegins, LookerGoes, MetadataInv, LookupsAre
  <2>2. LookupIs(t, lookups[t])'
    BY <2>1 DEF LookupIs, IsBinding
  <2> QED
    BY <1>1, <2>2, LooksOnKeeps
<1>3. CASE GetDefaultEntries(t)
  <2>1. lookups'[t] = [step |-> "tables", requested |-> <<>>]
    BY <1>3 DEF GetDefaultEntries, LookerBegins, LookerGoes, MetadataInv, LookupsAre
  <2>2. LookupIs(t, lookups[t])'
    BY <2>1 DEF LookupIs, IsListing
  <2> QED
    BY <1>1, <2>2, LooksOnKeeps
<1> QED
  BY <1>2, <1>3

(* What a looker at a step is.                                             *)
LEMMA BindingIs ==
    ASSUME MetadataInv, NEW t \in Lookers, lookups[t].step \in {"resolve", "shapes", "describe", "keys"}
    PROVE  /\ DOMAIN lookups = Lookers /\ IsBinding(lookups[t])
           /\ lookups[t].step = "resolve" => lookups[t].tries = <<>>
           /\ lookups[t].step = "shapes" =>
                 /\ metadata.loaded /\ metadata_lock = t /\ ReadingIs(lookups[t])
                 /\ lookups[t].tries = <<>> \/ Aims(lookups[t])
           /\ lookups[t].step \in {"describe", "keys"} => metadata.loaded /\ Aims(lookups[t])
           /\ lookups[t].step = "keys" =>
                 /\ Head(lookups[t].tries) \in DOMAIN column_cache
                 /\ lookups[t].columns = column_cache[Head(lookups[t].tries)]
                 /\ DOMAIN lookups[t].columns # {}
<1>1. DOMAIN lookups = Lookers /\ LookupIs(t, lookups[t])
  BY DEF MetadataInv, LookupsAre
<1>2. PICK x : x = lookups[t]
  OBVIOUS
<1>3. LookupIs(t, x) /\ x.step \notin {"none", "tables", "views"}
  BY <1>1, <1>2
<1>4. x # IdleLooker
  BY <1>3 DEF IdleLooker
<1>5. /\ IsBinding(x)
      /\ x.step = "resolve" => x.tries = <<>>
      /\ x.step = "shapes" =>
            metadata.loaded /\ metadata_lock = t /\ ReadingIs(x) /\ (x.tries = <<>> \/ Aims(x))
      /\ x.step \in {"describe", "keys"} => metadata.loaded /\ Aims(x)
      /\ x.step = "keys" =>
            /\ Head(x.tries) \in DOMAIN column_cache /\ x.columns = column_cache[Head(x.tries)]
            /\ DOMAIN x.columns # {}
  BY ONLY <1>3, <1>4 DEF LookupIs
<1> QED
  BY ONLY <1>1, <1>2, <1>5

(* A lookup that ends leaves only its answer.                              *)
LEMMA AnsweredKeeps ==
    ASSUME MetadataInv, NEW t \in Lookers, lookups[t].step # "shapes",
           metadata_lock \in {NoLooker, t}, NEW answer, LookupAnswered(t, answer), AnswerIs(answer)',
           UNCHANGED <<dictionary, past, column_cache, metadata, at_load, primary_keys, objects>>
    PROVE  MetadataInv'
<1>1. LooksOn(t) /\ lookups'[t] = IdleLooker
  BY DEF MetadataInv, LookupsAre, LookupAnswered, LookerGoes, LooksOn
<1>2. LookupIs(t, lookups[t])'
  BY <1>1 DEF LookupIs, IdleLooker
<1>3. \A a \in answers' \ answers : AnswerIs(a)'
  BY DEF LookupAnswered
<1> QED
  BY <1>1, <1>2, <1>3, LooksOnKeeps

(* ResolveObjectName finds the names that are meant.                       *)
LEMMA ResolvesKeeps ==
    ASSUME MetadataInv, NEW t \in Lookers, Resolves(t)
    PROVE  MetadataInv'
<1>1. PICK requested : requested = lookups[t].requested
  OBVIOUS
<1>2. PICK tries : tries = ResolveObjectName(requested)
  OBVIOUS
<1>3. /\ lookups[t].step = "resolve" /\ metadata_lock \in {NoLooker, t} /\ metadata.loaded
      /\ UNCHANGED <<dictionary, past, column_cache, metadata, at_load, primary_keys, objects>>
      /\ \/ tries = <<>> /\ LookupAnswered(t, NotFound(requested))
         \/ /\ LookerGoes(t, [lookups[t] EXCEPT !.step = "describe", !.tries = tries])
            /\ tries # <<>> /\ metadata_lock' = NoLooker /\ UNCHANGED answers
  BY <1>1, <1>2 DEF Resolves, LookerAt
<1>4. DOMAIN lookups = Lookers /\ IsBinding(lookups[t])
  BY <1>3, BindingIs
<1>5. metadata.complete => DOMAIN column_cache = DOMAIN at_load
  BY <1>3, SettledIs
<1>6. IsFiniteSet(DOMAIN column_cache)
  BY DEF MetadataInv, CacheIs
<1>7. \/ /\ tries = <<>>
         /\ metadata.complete => Meant(requested) = {}
      \/ \E a : /\ tries = <<a>> /\ Alike(a, requested)
                /\ metadata.complete => Meant(requested) = {a}
      \/ \E a, b : /\ tries = <<a, b>> /\ Alike(a, requested) /\ Alike(b, requested)
                   /\ ~metadata.complete
  <2> DEFINE alike == {n \in DOMAIN column_cache : Alike(n, requested)}
  <2>1. \/ /\ tries = <<>> /\ metadata.complete
           /\ requested \notin alike /\ Cardinality(alike) # 1
        \/ tries = <<>> /\ ~metadata.complete
        \/ \E a : /\ tries = <<a>> /\ Alike(a, requested)
                  /\ \/ a = requested /\ a \in alike
                     \/ requested \notin alike /\ alike = {a} /\ Cardinality(alike) = 1
                     \/ ~metadata.complete
        \/ \E a, b : /\ tries = <<a, b>> /\ Alike(a, requested) /\ Alike(b, requested)
                     /\ ~metadata.complete
    BY <1>2, <1>6, ResolvedIs
  <2>2. metadata.complete =>
            Meant(requested) = IF requested \in alike THEN {requested}
                               ELSE IF Cardinality(alike) = 1 THEN alike ELSE {}
    BY <1>5 DEF Meant
  <2> HIDE DEF alike
  <2> QED
    BY <2>1, <2>2
<1>8. CASE tries = <<>> /\ LookupAnswered(t, NotFound(requested))
  <2>1. metadata.complete => Meant(requested) = {}
    BY <1>7, <1>8
  <2>2. PICK answer : answer = NotFound(requested)
    OBVIOUS
  <2>3. answer.kind = "none" /\ answer.requested = requested
    BY <2>2 DEF NotFound
  <2>4. Meant(requested)' = Meant(requested)
    BY <1>3 DEF Meant
  <2>5. AnswerIs(answer)'
    BY <1>3, <2>1, <2>3, <2>4 DEF AnswerIs, NameIsMeant
  <2> QED
    BY <1>3, <1>8, <2>2, <2>5, AnsweredKeeps
<1>9. CASE /\ LookerGoes(t, [lookups[t] EXCEPT !.step = "describe", !.tries = tries])
           /\ tries # <<>> /\ metadata_lock' = NoLooker /\ UNCHANGED answers
  <2>1. LooksOn(t)
    BY <1>3, <1>4, <1>9 DEF LooksOn, LookerGoes
  <2>2. PICK x : x = lookups'[t]
    OBVIOUS
  <2>3. IsBinding(x) /\ x.step = "describe" /\ x.tries = tries /\ x.requested = requested
    BY <1>1, <1>4, <1>9, <2>2 DEF LookerGoes, IsBinding
  <2>4. Aims(x)
    BY <1>7, <1>9, <2>3 DEF Aims
  <2>5. Aims(x)'
    BY <1>3, <2>1, <2>4, AimStays DEF LooksOn, GoesOn
  <2>6. LookupIs(t, lookups[t])'
    BY <1>3, <2>2, <2>3, <2>5 DEF LookupIs
  <2> QED
    BY <1>9, <2>1, <2>6, LooksOnKeeps
<1> QED
  BY <1>3, <1>8, <1>9

(* A name in the cache that has columns is an object.                      *)
LEMMA CachedIs ==
    ASSUME MetadataInv, NEW n \in DOMAIN column_cache, column_cache[n] # <<>>
    PROVE  DOMAIN column_cache[n] # {}
<1>1. PICK d \in past : n \in DOMAIN d /\ DOMAIN column_cache[n] = DOMAIN d[n].columns
  BY DEF MetadataInv, CacheIs, Faithful, Plain
<1>2. IsShape(d[n])
  BY <1>1 DEF MetadataInv, PastIs
<1> QED
  BY <1>1, <1>2, ShapeIs

(* DescribeOneLocked reads what the object is now, or that it is none.     *)
LEMMA DescribeOneKeeps ==
    ASSUME MetadataInv, NEW t \in Lookers, DescribeOne(t)
    PROVE  MetadataInv'
<1>1. PICK n : n = Head(lookups[t].tries)
  OBVIOUS
<1>2. PICK columns : columns = IF n \in DOMAIN dictionary THEN Unshaped(dictionary[n].columns) ELSE <<>>
  OBVIOUS
<1>3. /\ lookups[t].step = "describe" /\ metadata_lock \in {NoLooker, t} /\ metadata_lock' = t
      /\ n \notin DOMAIN column_cache /\ ~metadata.complete
      /\ LookerGoes(t, [lookups[t] EXCEPT !.step = "shapes", !.reading = [m \in {n} |-> columns]])
      /\ UNCHANGED <<dictionary, past, column_cache, metadata, at_load, primary_keys, objects, answers>>
  BY <1>1, <1>2 DEF DescribeOne, LookerAt, Known
<1>4. DOMAIN lookups = Lookers /\ IsBinding(lookups[t]) /\ metadata.loaded /\ Aims(lookups[t])
  BY <1>3, BindingIs
<1>5. PICK x : x = lookups'[t]
  OBVIOUS
<1>6. /\ IsBinding(x) /\ x.step = "shapes" /\ x.reading = [m \in {n} |-> columns]
      /\ x.tries = lookups[t].tries /\ x.requested = lookups[t].requested
  BY <1>3, <1>4, <1>5 DEF LookerGoes, IsBinding
<1>7. LooksOn(t)
  BY <1>3, <1>4 DEF LooksOn, LookerGoes
<1>8. Aims(x)'
  <2>1. Aims(x)
    BY <1>4, <1>6 DEF Aims
  <2> QED
    BY <1>4, <1>7, <2>1, AimStays DEF LooksOn, GoesOn
<1>9. \/ DOMAIN columns = {}
      \/ Plain(n, columns) /\ \A i \in DOMAIN columns : columns[i].shape = 0
  <2>1. CASE n \in DOMAIN dictionary
    <3>1. IsShape(dictionary[n]) /\ dictionary \in past
      BY <2>1 DEF MetadataInv, PastIs
    <3> QED
      BY <1>2, <2>1, <3>1, UnshapedIs
  <2>2. CASE n \notin DOMAIN dictionary
    BY <1>2, <2>2, EmptyIs
  <2> QED
    BY <2>1, <2>2
<1>10. ReadingIs(x)
  <2>1. DOMAIN x.reading = {n} /\ x.reading[n] = columns /\ IsFiniteSet({n})
    BY <1>6, FS_Singleton
  <2> QED
    BY <1>3, <1>9, <2>1 DEF ReadingIs
<1>11. ReadingIs(x)'
  BY <1>3, <1>10, ReadingStays
<1>12. LookupIs(t, lookups[t])'
  BY <1>3, <1>4, <1>5, <1>6, <1>8, <1>11 DEF LookupIs
<1> QED
  BY <1>3, <1>7, <1>12, LooksOnKeeps

(* What failed is not remembered.                                          *)
LEMMA DescribeFailsKeeps ==
    ASSUME MetadataInv, NEW t \in Lookers, DescribeFails(t)
    PROVE  MetadataInv'
<1>1. LooksOn(t) /\ lookups'[t] = IdleLooker /\ answers' = answers
  BY DEF MetadataInv, LookupsAre, DescribeFails, LookupFails, LookerAt, LookerGoes, LooksOn
<1>2. LookupIs(t, lookups[t])'
  BY <1>1 DEF LookupIs, IdleLooker
<1> QED
  BY <1>1, <1>2, LooksOnKeeps

(* TryDescribe takes a name that has columns, goes on to the next, or ends. *)
LEMMA TryDescribeKeeps ==
    ASSUME MetadataInv, NEW t \in Lookers, TryDescribe(t)
    PROVE  MetadataInv'
<1>1. PICK old : old = lookups[t]
  OBVIOUS
<1>2. PICK n : n = Head(old.tries)
  OBVIOUS
<1>3. PICK columns : columns = IF n \in DOMAIN column_cache THEN column_cache[n] ELSE <<>>
  OBVIOUS
<1>4. /\ old.step = "describe" /\ metadata_lock \in {NoLooker, t}
      /\ n \in DOMAIN column_cache \/ metadata.complete
      /\ UNCHANGED <<dictionary, past, column_cache, metadata, at_load, primary_keys, objects>>
      /\ \/ /\ columns # <<>>
            /\ LookerGoes(t, [old EXCEPT !.step = "keys", !.columns = columns]) /\ UNCHANGED answers
         \/ /\ columns = <<>> /\ Len(old.tries) > 1
            /\ LookerGoes(t, [old EXCEPT !.tries = Tail(@)]) /\ UNCHANGED answers
         \/ /\ columns = <<>> /\ Len(old.tries) = 1
            /\ LookupAnswered(t, NotFound(old.requested))
  BY <1>1, <1>2, <1>3 DEF TryDescribe, LookerAt, Known
<1>5. DOMAIN lookups = Lookers /\ IsBinding(old) /\ metadata.loaded /\ Aims(old)
  BY <1>1, <1>4, BindingIs
<1>6. columns = <<>> => ~metadata.complete
  <2> SUFFICES ASSUME metadata.complete PROVE columns # <<>>
    OBVIOUS
  <2>1. /\ DOMAIN column_cache = DOMAIN at_load
        /\ \A m \in DOMAIN column_cache : DOMAIN column_cache[m] # {}
    BY <1>1, <1>4, SettledIs
  <2>2. PICK a : old.tries = <<a>> /\ Meant(old.requested) = {a}
    BY <1>5 DEF Aims
  <2>3. n = a
    BY <1>2, <2>2
  <2>4. n \in DOMAIN at_load
    BY <2>2, <2>3 DEF Meant
  <2> QED
    BY <1>3, <2>1, <2>4, EmptyIs
<1>7. CASE /\ columns # <<>>
           /\ LookerGoes(t, [old EXCEPT !.step = "keys", !.columns = columns]) /\ UNCHANGED answers
  <2>1. n \in DOMAIN column_cache /\ columns = column_cache[n]
    BY <1>3, <1>7
  <2>2. DOMAIN columns # {}
    BY <1>7, <2>1, CachedIs
  <2>3. PICK x : x = lookups'[t]
    OBVIOUS
  <2>4. /\ IsBinding(x) /\ x.step = "keys" /\ x.columns = columns
        /\ x.tries = old.tries /\ x.requested = old.requested
    BY <1>1, <1>5, <1>7, <2>3 DEF LookerGoes, IsBinding
  <2>5. LooksOn(t)
    BY <1>1, <1>4, <1>5, <1>7 DEF LooksOn, LookerGoes
  <2>6. Aims(x)
    BY <1>5, <2>4 DEF Aims
  <2>7. Aims(x)'
    BY <1>5, <2>5, <2>6, AimStays DEF LooksOn, GoesOn
  <2>8. LookupIs(t, lookups[t])'
    BY <1>2, <1>4, <1>5, <2>1, <2>2, <2>3, <2>4, <2>7 DEF LookupIs
  <2> QED
    BY <1>7, <2>5, <2>8, LooksOnKeeps
<1>8. CASE /\ columns = <<>> /\ Len(old.tries) > 1
           /\ LookerGoes(t, [old EXCEPT !.tries = Tail(@)]) /\ UNCHANGED answers
  <2>1. PICK a, b : old.tries = <<a, b>> /\ Alike(b, old.requested) /\ ~metadata.complete
    <3>1. ASSUME NEW a, old.tries = <<a>> PROVE FALSE
      <4>1. Len(<<a>>) = 1
        OBVIOUS
      <4> QED
        BY <1>8, <3>1, <4>1
    <3> QED
      BY <1>5, <3>1 DEF Aims
  <2>2. PICK x : x = lookups'[t]
    OBVIOUS
  <2>3. IsBinding(x) /\ x.step = "describe" /\ x.tries = <<b>> /\ x.requested = old.requested
    <3>1. Tail(old.tries) = <<b>>
      BY <2>1
    <3>2. x = [old EXCEPT !.tries = Tail(old.tries)]
      BY <1>1, <1>5, <1>8, <2>2 DEF LookerGoes
    <3> QED
      BY <1>4, <1>5, <3>1, <3>2 DEF IsBinding
  <2>4. LooksOn(t)
    BY <1>1, <1>4, <1>5, <1>8 DEF LooksOn, LookerGoes
  <2>5. Aims(x)
    BY <2>1, <2>3 DEF Aims
  <2>6. Aims(x)'
    BY <1>5, <2>4, <2>5, AimStays DEF LooksOn, GoesOn
  <2>7. LookupIs(t, lookups[t])'
    BY <1>4, <1>5, <2>2, <2>3, <2>6 DEF LookupIs
  <2> QED
    BY <1>8, <2>4, <2>7, LooksOnKeeps
<1>9. CASE columns = <<>> /\ LookupAnswered(t, NotFound(old.requested))
  <2>1. PICK answer : answer = NotFound(old.requested)
    OBVIOUS
  <2>2. answer.kind = "none"
    BY <2>1 DEF NotFound
  <2>3. AnswerIs(answer)'
    BY <1>4, <1>5, <1>6, <1>9, <2>2 DEF AnswerIs, NameIsMeant
  <2> QED
    BY <1>1, <1>4, <1>9, <2>1, <2>3, AnsweredKeeps
<1> QED
  BY <1>4, <1>7, <1>8, <1>9

(* An entry is made of what the cache and the keys hold.                   *)
LEMMA CreateKeeps ==
    ASSUME MetadataInv, NEW t \in Lookers, Create(t)
    PROVE  MetadataInv'
<1>1. PICK old : old = lookups[t]
  OBVIOUS
<1>2. PICK object : object = Head(old.tries)
  OBVIOUS
<1>3. PICK answer : answer = [kind |-> "entry", requested |-> old.requested, object |-> object,
                              columns |-> old.columns, key |-> KeyOf(object, old.columns)]
  OBVIOUS
<1>4. /\ old.step = "keys" /\ metadata_lock \in {NoLooker, t} /\ primary_keys.loaded
      /\ LookupAnswered(t, answer)
      /\ UNCHANGED <<dictionary, past, column_cache, metadata, at_load, primary_keys, objects>>
  BY <1>1, <1>2, <1>3 DEF Create, LookerAt
<1>5. /\ metadata.loaded /\ Aims(old) /\ DOMAIN old.columns # {}
      /\ object \in DOMAIN column_cache /\ old.columns = column_cache[object]
  BY <1>1, <1>2, <1>4, BindingIs
<1>6. /\ Alike(object, old.requested)
      /\ metadata.complete => Meant(old.requested) = {object}
  <2>1. CASE \E a : /\ old.tries = <<a>> /\ Alike(a, old.requested)
                    /\ metadata.complete => Meant(old.requested) = {a}
    BY <1>2, <2>1
  <2>2. CASE \E a, b : /\ old.tries = <<a, b>> /\ Alike(a, old.requested) /\ ~metadata.complete
    BY <1>2, <2>2
  <2> QED
    BY <1>5, <2>1, <2>2 DEF Aims
<1>7. /\ answer.kind = "entry" /\ answer.requested = old.requested /\ answer.object = object
      /\ answer.columns = old.columns /\ answer.key = KeyOf(object, old.columns)
  BY <1>3
<1>8. AnswerIs(answer)
  BY <1>4, <1>5, <1>6, <1>7 DEF AnswerIs, NameIsMeant
<1>9. AnswerIs(answer)'
  BY <1>4, <1>8, AnswerStays DEF GoesOn
<1> QED
  BY <1>1, <1>4, <1>9, AnsweredKeeps

(* A list is given out once it is read.                                    *)
LEMMA ObjectsListedKeeps ==
    ASSUME MetadataInv, NEW t \in Lookers, ObjectsListed(t)
    PROVE  MetadataInv'
<1>1. PICK answer : answer = [kind |-> "list", names |-> objects.names]
  OBVIOUS
<1>2. /\ lookups[t].step = "tables" /\ metadata_lock \in {NoLooker, t} /\ objects.loaded
      /\ LookupAnswered(t, answer)
      /\ UNCHANGED <<dictionary, past, column_cache, metadata, at_load, primary_keys, objects>>
  BY <1>1 DEF ObjectsListed, LookerAt
<1>3. \/ Len(objects.names) = MaximumObjects
      \/ HasHeld(objects.names, FALSE) /\ HasHeld(objects.names, TRUE)
  BY <1>2 DEF MetadataInv, ListIs
<1>4. ListIsWhole(answer)
  <2>1. answer.names = objects.names
    BY <1>1
  <2>2. CASE Len(objects.names) = MaximumObjects
    BY <2>1, <2>2, MetadataAssumption DEF ListIsWhole
  <2>3. ASSUME HasHeld(objects.names, FALSE), HasHeld(objects.names, TRUE), NEW n, NEW view \in BOOLEAN,
               \A d \in past : n \in DOMAIN d /\ d[n].view = view
        PROVE  n \in ToSet(objects.names)
    <3>1. PICK d \in past : Holds(objects.names, view, d)
      BY <2>3 DEF HasHeld
    <3> QED
      BY <2>3, <3>1 DEF Holds
  <2> QED
    BY <1>3, <2>1, <2>2, <2>3 DEF ListIsWhole
<1>5. AnswerIs(answer)'
  BY <1>1, <1>2, <1>4, AnswerStays DEF AnswerIs, GoesOn
<1> QED
  BY <1>2, <1>5, AnsweredKeeps

-----------------------------------------------------------------------------
(* A step of one looker, or of none, that adds to what is known.           *)
LearnsOn(t) ==
    /\ DOMAIN lookups' = DOMAIN lookups /\ \A u \in Lookers \ {t} : lookups'[u] = lookups[u]
    /\ metadata_lock \in {NoLooker, t} \/ UNCHANGED Protected
    /\ UNCHANGED answers

(* ... which keeps what all others do, and what was told.                  *)
LEMMA LearnsOnKeeps ==
    ASSUME MetadataInv, NEW t, LearnsOn(t), GoesOn,
           t \in Lookers => LookupIs(t, lookups[t])'
    PROVE  LookupsAre' /\ AnswersAre'
<1>1. ASSUME NEW u \in Lookers \ {t} PROVE LookupIs(u, lookups[u])'
  <2>1. metadata_lock # u \/ UNCHANGED Protected
    BY MetadataAssumption DEF LearnsOn
  <2>2. LookupIs(u, lookups[u]) /\ lookups'[u] = lookups[u]
    BY DEF MetadataInv, LookupsAre, LearnsOn
  <2> QED
    BY <2>1, <2>2, LookupStays
<1>2. DOMAIN lookups' = Lookers
  BY DEF MetadataInv, LookupsAre, LearnsOn
<1>3. LookupsAre'
  BY <1>1, <1>2 DEF LookupsAre
<1>4. AnswersAre'
  BY AnswerStays DEF MetadataInv, AnswersAre, LearnsOn
<1> QED
  BY <1>3, <1>4

(* DDL of another session adds a moment, and takes none away.              *)
LEMMA SchemaKeeps ==
    ASSUME MetadataInv, SchemaChanges
    PROVE  MetadataInv'
<1>1. /\ past' = past \cup {dictionary'}
      /\ UNCHANGED <<column_cache, metadata, primary_keys, objects, metadata_lock, lookups,
                     at_load, answers, begun>>
  BY DEF SchemaChanges
<1>2. past \subseteq past'
  BY <1>1
<1>3. DOMAIN dictionary' \subseteq ObjectNames /\ \A m \in DOMAIN dictionary' : IsShape(dictionary'[m])
  <2>0. DOMAIN dictionary \subseteq ObjectNames /\ \A m \in DOMAIN dictionary : IsShape(dictionary[m])
    BY DEF MetadataInv, PastIs
  <2>1. PICK n \in ObjectNames :
            \/ \E shape \in Shapes : dictionary' = Over([m \in {n} |-> shape], dictionary)
            \/ dictionary' = [m \in DOMAIN dictionary \ {n} |-> dictionary[m]]
    BY DEF SchemaChanges
  <2>2. ASSUME NEW shape \in Shapes, dictionary' = Over([m \in {n} |-> shape], dictionary)
        PROVE  DOMAIN dictionary' \subseteq ObjectNames /\ \A m \in DOMAIN dictionary' : IsShape(dictionary'[m])
    <3>1. IsShape(shape)
      BY SchemasAssumption
    <3> QED
      BY <2>0, <2>2, <3>1 DEF Over
  <2>3. CASE dictionary' = [m \in DOMAIN dictionary \ {n} |-> dictionary[m]]
    BY <2>0, <2>3
  <2> QED
    BY <2>1, <2>2, <2>3
<1>4. PastIs'
  BY <1>1, <1>3 DEF MetadataInv, PastIs
<1>5. CacheIs' /\ KeysAre' /\ ListIs'
  BY <1>1, <1>2, CacheStays, KeysStay, ListStays DEF MetadataInv
<1>6. GoesOn
  BY <1>1, <1>2 DEF GoesOn
<1>7. LearnsOn(NoLooker) /\ NoLooker \notin Lookers
  BY <1>1, MetadataAssumption DEF LearnsOn, Protected
<1>8. LookupsAre' /\ AnswersAre'
  BY <1>6, <1>7, LearnsOnKeeps
<1> QED
  BY <1>4, <1>5, <1>8 DEF MetadataInv

(* The keys are those of one moment.                                       *)
LEMMA LoadKeysKeeps ==
    ASSUME MetadataInv, NEW t \in Lookers, LoadPrimaryKeys(t)
    PROVE  MetadataInv'
<1>1. /\ ~primary_keys.loaded
      /\ UNCHANGED <<dictionary, column_cache, metadata, objects, metadata_lock, lookups, past,
                     at_load, answers, begun>>
  BY DEF LoadPrimaryKeys
<1>2. KeysAre'
  BY EmptyIs DEF MetadataInv, PastIs, LoadPrimaryKeys, KeysAre
<1>3. PastIs' /\ CacheIs' /\ ListIs'
  BY <1>1, CacheStays, ListStays DEF MetadataInv, PastIs
<1>4. GoesOn
  BY <1>1 DEF GoesOn
<1>5. LearnsOn(NoLooker) /\ NoLooker \notin Lookers
  BY <1>1, MetadataAssumption DEF LearnsOn, Protected
<1>6. LookupsAre' /\ AnswersAre'
  BY <1>4, <1>5, LearnsOnKeeps
<1> QED
  BY <1>2, <1>3, <1>6 DEF MetadataInv

(* LoadSchemaColumnsLocked reads all columns of one moment, or of its first objects. *)
LEMMA LoadKeeps ==
    ASSUME MetadataInv, NEW t \in Lookers, LoadSchemaColumns(t)
    PROVE  MetadataInv'
<1>1. PICK reading : reading = [n \in LoadedObjects(dictionary) |-> LoadedColumns(dictionary, n)]
  OBVIOUS
<1>2. /\ lookups[t].step = "resolve" /\ metadata_lock \in {NoLooker, t} /\ metadata_lock' = t
      /\ ~metadata.loaded /\ metadata' = [loaded |-> TRUE, complete |-> ~Truncated(dictionary)]
      /\ at_load' = dictionary
      /\ LookerGoes(t, [lookups[t] EXCEPT !.step = "shapes", !.reading = reading])
      /\ UNCHANGED <<dictionary, column_cache, primary_keys, objects, past, answers>>
  BY <1>1 DEF LoadSchemaColumns, LookerAt
<1>3. DOMAIN lookups = Lookers /\ IsBinding(lookups[t]) /\ lookups[t].tries = <<>>
  BY <1>2, BindingIs
<1>4. PICK x : x = lookups'[t]
  OBVIOUS
<1>5. IsBinding(x) /\ x.step = "shapes" /\ x.reading = reading /\ x.tries = <<>>
  BY <1>2, <1>3, <1>4 DEF LookerGoes, IsBinding
<1>6. DOMAIN column_cache = {}
  BY <1>2 DEF MetadataInv, CacheIs
<1>7. /\ dictionary \in past /\ IsFiniteSet(DOMAIN dictionary)
      /\ \A n \in DOMAIN dictionary : IsShape(dictionary[n])
  BY SchemasAssumption, FS_Subset DEF MetadataInv, PastIs
<1>8. /\ LoadedObjects(dictionary) \subseteq DOMAIN dictionary
      /\ ~Truncated(dictionary) => LoadedObjects(dictionary) = DOMAIN dictionary
      /\ \A n \in LoadedObjects(dictionary) :
            LoadedColumns(dictionary, n) = Unshaped(dictionary[n].columns)
  BY <1>7, LoadedIs
<1>9. ASSUME NEW n \in DOMAIN reading
      PROVE  /\ n \in DOMAIN dictionary
             /\ Plain(n, reading[n]) /\ DOMAIN reading[n] # {}
             /\ \A i \in DOMAIN reading[n] : reading[n][i].shape = 0
  <2>1. n \in DOMAIN dictionary /\ reading[n] = Unshaped(dictionary[n].columns)
    BY <1>1, <1>8
  <2> QED
    BY <1>7, <2>1, UnshapedIs
<1>10. GoesOn
  BY <1>2 DEF GoesOn
<1>11. ReadingIs(x)'
  <2>1. IsFiniteSet(DOMAIN reading)
    BY <1>7, <1>9, FS_Subset
  <2>2. ASSUME NEW n \in DOMAIN reading PROVE Plain(n, reading[n])'
    BY <1>2, <1>9 DEF Plain
  <2>3. metadata'.complete => DOMAIN reading = DOMAIN dictionary
    BY <1>1, <1>2, <1>8
  <2> QED
    BY <1>2, <1>5, <1>6, <1>9, <2>1, <2>2, <2>3 DEF ReadingIs
<1>12. LookupIs(t, lookups[t])'
  BY <1>2, <1>4, <1>5, <1>11 DEF LookupIs
<1>13. LearnsOn(t)
  BY <1>2, <1>3 DEF LearnsOn, LookerGoes
<1>14. LookupsAre' /\ AnswersAre'
  BY <1>10, <1>12, <1>13, LearnsOnKeeps
<1>15. PastIs' /\ KeysAre' /\ ListIs'
  BY <1>2, KeysStay, ListStays DEF MetadataInv, PastIs
<1>16. CacheIs'
  BY <1>2, <1>4, <1>5, <1>6, <1>7, FS_EmptySet DEF CacheIs
<1> QED
  BY <1>14, <1>15, <1>16 DEF MetadataInv

(* ... or fails, and nothing is known of the schema as a whole.            *)
LEMMA LoadFailsKeeps ==
    ASSUME MetadataInv, NEW t \in Lookers, LoadSchemaColumnsFails(t)
    PROVE  MetadataInv'
<1>1. /\ lookups[t].step = "resolve" /\ metadata_lock \in {NoLooker, t}
      /\ ~metadata.loaded /\ metadata' = [loaded |-> TRUE, complete |-> FALSE]
      /\ UNCHANGED <<dictionary, column_cache, primary_keys, objects, lookups, past, at_load, answers>>
  BY DEF LoadSchemaColumnsFails, LookerAt
<1>2. IsBinding(lookups[t]) /\ lookups[t].tries = <<>>
  BY <1>1, BindingIs
<1>3. LookupIs(t, lookups[t])'
  BY <1>1, <1>2 DEF LookupIs, IsBinding
<1>4. GoesOn /\ LearnsOn(t)
  BY <1>1 DEF GoesOn, LearnsOn
<1>5. LookupsAre' /\ AnswersAre'
  BY <1>3, <1>4, LearnsOnKeeps
<1>6. PastIs' /\ KeysAre' /\ ListIs'
  BY <1>1, KeysStay, ListStays DEF MetadataInv, PastIs
<1>7. CacheIs'
  BY <1>1 DEF MetadataInv, CacheIs
<1> QED
  BY <1>5, <1>6, <1>7 DEF MetadataInv

-----------------------------------------------------------------------------
(* What a query that read all its objects tells, in whatever order.        *)
LEMMA ReadIs ==
    ASSUME NEW S, IsFiniteSet(S), NEW read \in SetToSeqs(S)
    PROVE  read \in Seq(S) /\ ToSet(read) = S /\ Len(read) \in Nat
<1> DEFINE D == 1..Cardinality(S)
<1>1. Cardinality(S) \in Nat
  BY FS_CardinalityType
<1>2. read \in [D -> S] /\ \A i, j \in D : i # j => read[i] # read[j]
  BY DEF SetToSeqs
<1>3. read \in Injection(D, S)
  BY <1>2 DEF Injection, IsInjective
<1>4. IsFiniteSet(D) /\ Cardinality(D) = Cardinality(S)
  <2>1. Cardinality(S) \in Int /\ 1 \in Int
    BY <1>1
  <2>2. IsFiniteSet(1..Cardinality(S)) /\ Cardinality(1..Cardinality(S)) =
           IF 1 > Cardinality(S) THEN 0 ELSE Cardinality(S) - 1 + 1
    BY ONLY <2>1, FS_Interval
  <2> QED
    BY <1>1, <2>2
<1>5. read \in Surjection(D, S)
  BY <1>3, <1>4, FS_Injection
<1>6. read \in Seq(S) /\ Len(read) = Cardinality(S)
  BY <1>1, <1>2
<1>7. ToSet(read) = S
  BY <1>2, <1>5 DEF ToSet, Surjection
<1> QED
  BY <1>1, <1>6, <1>7

(* What is appended to a list takes nothing from it.                       *)
LEMMA AppendedIs ==
    ASSUME NEW S, NEW s \in Seq(S), NEW r \in Seq(S)
    PROVE  /\ s \o r \in Seq(S) /\ Len(s \o r) = Len(s) + Len(r)
           /\ ToSet(s) \subseteq ToSet(s \o r) /\ ToSet(r) \subseteq ToSet(s \o r)
<1>1. s \o r \in Seq(S) /\ Len(s \o r) = Len(s) + Len(r) /\ Len(s) \in Nat /\ Len(r) \in Nat
  BY ConcatProperties, LenProperties
<1>2. ASSUME NEW i \in DOMAIN s PROVE s[i] \in ToSet(s \o r)
  <2>1. i \in 1..Len(s)
    BY LenProperties
  <2>2. i \in DOMAIN (s \o r) /\ (s \o r)[i] = s[i]
    BY <1>1, <2>1, LenProperties
  <2> QED
    BY <2>2 DEF ToSet
<1>3. ASSUME NEW i \in DOMAIN r PROVE r[i] \in ToSet(s \o r)
  <2>1. i \in 1..Len(r)
    BY LenProperties
  <2>2. Len(s) + i \in DOMAIN (s \o r) /\ (s \o r)[Len(s) + i] = r[i]
    BY <1>1, <2>1, LenProperties
  <2> QED
    BY <2>2 DEF ToSet
<1> QED
  BY <1>1, <1>2, <1>3 DEF ToSet

(* A part of a list, from its beginning,                                   *)
LEMMA PrefixIs ==
    ASSUME NEW S, NEW s \in Seq(S), NEW k \in 0..Len(s)
    PROVE  SubSeq(s, 1, k) \in Seq(S) /\ Len(SubSeq(s, 1, k)) = k
BY SubSeqProperties, LenProperties

(* ... up to its end is the list.                                          *)
LEMMA WholeIs ==
    ASSUME NEW S, NEW s \in Seq(S)
    PROVE  SubSeq(s, 1, Len(s)) = s
BY LenProperties

(* ListObjects adds some of the objects of a kind, or all of them.         *)
LEMMA ListsKeep ==
    ASSUME MetadataInv, NEW t \in Lookers, NEW step \in {"tables", "views"}, ListObjects(t, step),
           NEW kind \in BOOLEAN, kind = (step = "views")
    PROVE  MetadataInv'
<1>1. PICK those : those = {n \in DOMAIN dictionary : dictionary[n].view = kind}
  OBVIOUS
<1>2. PICK space : space = MaximumObjects - Len(objects.names)
  OBVIOUS
<1>3. PICK old : old = lookups[t]
  OBVIOUS
<1>4. PICK read \in SetToSeqs(those) :
          \/ /\ step = "views" \/ Len(read) >= space
             /\ objects' = [loaded |-> TRUE, names |-> objects.names \o
                                SubSeq(read, 1, Smaller(Len(read), space))]
             /\ LookerGoes(t, [old EXCEPT !.step = "tables"])
             /\ metadata_lock' = NoLooker
          \/ /\ step = "tables" /\ Len(read) < space
             /\ objects' = [loaded |-> FALSE, names |-> objects.names \o read]
             /\ LookerGoes(t, [old EXCEPT !.step = "views"])
             /\ metadata_lock' = t
          \/ /\ \E k \in 0..Smaller(Len(read), space - 1) :
                   objects' = [loaded |-> FALSE, names |-> objects.names \o SubSeq(read, 1, k)]
             /\ LookerGoes(t, IdleLooker)
             /\ metadata_lock' = NoLooker
  BY <1>1, <1>2, <1>3 DEF ListObjects
<1>5. /\ old.step = step /\ metadata_lock \in {NoLooker, t} /\ ~objects.loaded
      /\ UNCHANGED <<dictionary, column_cache, metadata, primary_keys, past, at_load, answers>>
  BY <1>3 DEF ListObjects, LookerAt
<1>6. /\ DOMAIN lookups = Lookers /\ IsListing(old)
      /\ step = "views" => HasHeld(objects.names, FALSE)
  <2>1. DOMAIN lookups = Lookers /\ LookupIs(t, old)
    BY <1>3 DEF MetadataInv, LookupsAre
  <2>2. old # IdleLooker /\ old.step \notin {"resolve", "shapes", "describe", "keys"}
    BY <1>5 DEF IdleLooker
  <2> QED
    BY <1>5, <2>1, <2>2 DEF LookupIs
<1>7. /\ objects.names \in Seq(ObjectNames) /\ Len(objects.names) \in Nat
      /\ MaximumObjects \in Nat /\ space \in Nat
  BY <1>2, MetadataAssumption, LenProperties DEF MetadataInv, ListIs
<1>8. /\ dictionary \in past /\ those \subseteq ObjectNames /\ IsFiniteSet(those)
  <2>1. dictionary \in past /\ DOMAIN dictionary \subseteq ObjectNames
    BY DEF MetadataInv, PastIs
  <2> QED
    BY <1>1, <2>1, SchemasAssumption, FS_Subset
<1>9. read \in Seq(ObjectNames) /\ ToSet(read) = those /\ Len(read) \in Nat
  <2>1. read \in Seq(those) /\ ToSet(read) = those /\ Len(read) \in Nat
    BY <1>8, ReadIs
  <2> QED
    BY <1>8, <2>1
<1>10. GoesOn
  BY <1>5 DEF GoesOn
<1>11. PastIs' /\ KeysAre'
  BY <1>5, KeysStay DEF MetadataInv, PastIs
<1>12. CacheIs'
  <2>1. \A u \in Lookers : lookups[u].step = "shapes" => lookups'[u].step = "shapes"
    BY <1>3, <1>4, <1>5, <1>6 DEF LookerGoes
  <2> QED
    BY <1>5, <2>1, CacheStays DEF MetadataInv
<1>13. LearnsOn(t)
  BY <1>4, <1>5, <1>6 DEF LearnsOn, LookerGoes
<1>14. \A names : ToSet(read) \subseteq ToSet(names) => HasHeld(names, kind)
  BY <1>1, <1>8, <1>9 DEF HasHeld, Holds
<1>15. \A names : ToSet(objects.names) \subseteq ToSet(names) /\ HasHeld(objects.names, FALSE)
                    => HasHeld(names, FALSE)
  BY DEF HasHeld, Holds
<1>16. SUFFICES ListIs' /\ LookupIs(t, lookups[t])'
  BY <1>10, <1>11, <1>12, <1>13, LearnsOnKeeps DEF MetadataInv
<1>17. CASE /\ step = "views" \/ Len(read) >= space
            /\ objects' = [loaded |-> TRUE, names |-> objects.names \o
                               SubSeq(read, 1, Smaller(Len(read), space))]
            /\ LookerGoes(t, [old EXCEPT !.step = "tables"])
  <2>1. PICK k : k = Smaller(Len(read), space)
    OBVIOUS
  <2>2. k \in 0..Len(read) /\ k <= space /\ (k = space \/ (step = "views" /\ k = Len(read)))
    BY <1>7, <1>9, <1>17, <2>1 DEF Smaller
  <2>3. SubSeq(read, 1, k) \in Seq(ObjectNames) /\ Len(SubSeq(read, 1, k)) = k
    BY <1>9, <2>2, PrefixIs
  <2>4. PICK more, names : more = SubSeq(read, 1, k) /\ names = objects.names \o more
    OBVIOUS
  <2>5. /\ names \in Seq(ObjectNames) /\ Len(names) = Len(objects.names) + k
        /\ ToSet(objects.names) \subseteq ToSet(names)
        /\ ToSet(SubSeq(read, 1, k)) \subseteq ToSet(names)
    <3>1. more \in Seq(ObjectNames) /\ Len(more) = k
      BY ONLY <2>3, <2>4
    <3>2. /\ objects.names \o more \in Seq(ObjectNames)
          /\ Len(objects.names \o more) = Len(objects.names) + k
          /\ ToSet(objects.names) \subseteq ToSet(objects.names \o more)
          /\ ToSet(more) \subseteq ToSet(objects.names \o more)
      BY ONLY <1>7, <3>1, AppendedIs
    <3> QED
      BY ONLY <2>4, <3>2
  <2>6. objects' = [loaded |-> TRUE, names |-> names]
    BY <1>17, <2>1, <2>4
  <2>7. \/ Len(names) = MaximumObjects
        \/ HasHeld(names, FALSE) /\ HasHeld(names, TRUE)
    <3>1. CASE k = space
      BY <1>2, <1>7, <2>5, <3>1
    <3>2. CASE step = "views" /\ k = Len(read)
      <4>1. SubSeq(read, 1, k) = read /\ kind = TRUE
        BY <1>9, <3>2, WholeIs
      <4> QED
        BY <1>6, <1>14, <1>15, <2>5, <3>2, <4>1
    <3> QED
      BY <2>2, <3>1, <3>2
  <2>8. Len(names) <= MaximumObjects
    BY <1>2, <1>7, <2>2, <2>5
  <2>9. ListIs'
    BY <1>5, <2>5, <2>6, <2>7, <2>8 DEF ListIs, HasHeld
  <2>10. PICK x : x = lookups'[t]
    OBVIOUS
  <2>11. IsListing(x) /\ x.step = "tables"
    BY <1>3, <1>6, <1>17, <2>10 DEF LookerGoes, IsListing
  <2>12. LookupIs(t, lookups[t])'
    BY <2>10, <2>11 DEF LookupIs
  <2> QED
    BY <2>9, <2>12
<1>18. CASE /\ step = "tables" /\ Len(read) < space
            /\ objects' = [loaded |-> FALSE, names |-> objects.names \o read]
            /\ LookerGoes(t, [old EXCEPT !.step = "views"])
            /\ metadata_lock' = t
  <2>1. PICK names : names = objects.names \o read
    OBVIOUS
  <2>2. /\ names \in Seq(ObjectNames) /\ Len(names) = Len(objects.names) + Len(read)
        /\ ToSet(read) \subseteq ToSet(names)
    BY <1>7, <1>9, <2>1, AppendedIs
  <2>3. objects' = [loaded |-> FALSE, names |-> names] /\ Len(names) <= MaximumObjects
    BY <1>2, <1>7, <1>9, <1>18, <2>1, <2>2
  <2>4. ListIs'
    BY <2>2, <2>3 DEF ListIs
  <2>5. kind = FALSE
    BY <1>18
  <2>6. HasHeld(names, FALSE)
    BY <1>14, <2>2, <2>5
  <2>7. PICK x : x = lookups'[t]
    OBVIOUS
  <2>8. IsListing(x) /\ x.step = "views"
    BY <1>3, <1>6, <1>18, <2>7 DEF LookerGoes, IsListing
  <2>9. HasHeld(objects.names, FALSE)'
    BY <1>5, <2>3, <2>6 DEF HasHeld
  <2>10. LookupIs(t, lookups[t])'
    BY <1>18, <2>7, <2>8, <2>9 DEF LookupIs
  <2> QED
    BY <2>4, <2>10
<1>19. CASE /\ \E k \in 0..Smaller(Len(read), space - 1) :
                  objects' = [loaded |-> FALSE, names |-> objects.names \o SubSeq(read, 1, k)]
            /\ LookerGoes(t, IdleLooker)
  <2>1. PICK k \in 0..Smaller(Len(read), space - 1) :
            objects' = [loaded |-> FALSE, names |-> objects.names \o SubSeq(read, 1, k)]
    BY <1>19
  <2>2. k \in 0..Len(read) /\ k <= space
    BY <1>7, <1>9 DEF Smaller
  <2>3. SubSeq(read, 1, k) \in Seq(ObjectNames) /\ Len(SubSeq(read, 1, k)) = k
    BY <1>9, <2>2, PrefixIs
  <2>4. PICK more, names : more = SubSeq(read, 1, k) /\ names = objects.names \o more
    OBVIOUS
  <2>5. names \in Seq(ObjectNames) /\ Len(names) = Len(objects.names) + k
    <3>1. more \in Seq(ObjectNames) /\ Len(more) = k
      BY ONLY <2>3, <2>4
    <3>2. /\ objects.names \o more \in Seq(ObjectNames)
          /\ Len(objects.names \o more) = Len(objects.names) + k
      BY ONLY <1>7, <3>1, AppendedIs
    <3> QED
      BY ONLY <2>4, <3>2
  <2>6. objects' = [loaded |-> FALSE, names |-> names] /\ Len(names) <= MaximumObjects
    <3>1. objects' = [loaded |-> FALSE, names |-> names]
      BY ONLY <2>1, <2>4
    <3>2. Len(names) <= MaximumObjects
      BY ONLY <1>2, <1>7, <2>2, <2>5
    <3> QED
      BY <3>1, <3>2
  <2>7. ListIs'
    BY <2>5, <2>6 DEF ListIs
  <2>8. LookupIs(t, lookups[t])'
    BY <1>6, <1>19 DEF LookerGoes, LookupIs
  <2> QED
    BY <2>7, <2>8
<1> QED
  BY <1>4, <1>17, <1>18, <1>19

-----------------------------------------------------------------------------
(* The second query: what it does not tell stays as it was read.           *)
LEMMA ApplyKeeps ==
    ASSUME MetadataInv, NEW t \in Lookers, ApplyVectorShapes(t)
    PROVE  MetadataInv'
<1>1. PICK old : old = lookups[t]
  OBVIOUS
<1>2. PICK told \in SUBSET Vectors(old.reading) :
          column_cache' = Over(Shaped(old.reading, told), column_cache)
  BY <1>1 DEF ApplyVectorShapes
<1>3. /\ old.step = "shapes"
      /\ LookerGoes(t, [old EXCEPT !.step = IF old.tries = <<>> THEN "resolve" ELSE "describe",
                                   !.reading = <<>>])
      /\ UNCHANGED <<dictionary, metadata, primary_keys, objects, metadata_lock, past, at_load, answers>>
  BY <1>1 DEF ApplyVectorShapes, LookerAt
<1>4. /\ DOMAIN lookups = Lookers /\ IsBinding(old) /\ metadata.loaded /\ metadata_lock = t
      /\ ReadingIs(old) /\ (old.tries = <<>> \/ Aims(old))
  BY <1>1, <1>3, BindingIs
<1>5. PICK shaped : shaped = Shaped(old.reading, told)
  OBVIOUS
<1>6. DOMAIN shaped = DOMAIN old.reading
  BY <1>5 DEF Shaped
<1>7. /\ DOMAIN column_cache' = DOMAIN old.reading \cup DOMAIN column_cache
      /\ \A n \in DOMAIN old.reading : column_cache'[n] = shaped[n]
      /\ \A n \in DOMAIN column_cache : column_cache'[n] = column_cache[n]
  <2>1. column_cache' = Over(shaped, column_cache)
    BY <1>2, <1>5
  <2>2. /\ DOMAIN Over(shaped, column_cache) = DOMAIN shaped \cup DOMAIN column_cache
        /\ \A n \in DOMAIN shaped : Over(shaped, column_cache)[n] = shaped[n]
        /\ \A n \in DOMAIN column_cache \ DOMAIN shaped : Over(shaped, column_cache)[n] = column_cache[n]
    BY OverIs
  <2>3. DOMAIN old.reading \cap DOMAIN column_cache = {}
    BY <1>4 DEF ReadingIs
  <2> QED
    BY ONLY <1>6, <2>1, <2>2, <2>3
<1>8. GoesOn
  BY <1>3, <1>7 DEF GoesOn
<1>9. LearnsOn(t)
  BY <1>3, <1>4 DEF LearnsOn, LookerGoes
<1>10. LookupIs(t, lookups[t])'
  <2>1. PICK x : x = lookups'[t]
    OBVIOUS
  <2>2. /\ IsBinding(x) /\ x.tries = old.tries /\ x.requested = old.requested
        /\ x.step = IF old.tries = <<>> THEN "resolve" ELSE "describe"
    BY <1>3, <1>4, <2>1 DEF LookerGoes, IsBinding
  <2>3. CASE old.tries = <<>>
    BY <2>1, <2>2, <2>3 DEF LookupIs
  <2>4. CASE old.tries # <<>>
    <3>1. Aims(x)
      BY <1>4, <2>2, <2>4 DEF Aims
    <3>2. Aims(x)' /\ metadata'.loaded
      BY <1>4, <1>8, <3>1, AimStays
    <3> QED
      BY <2>1, <2>2, <2>4, <3>2 DEF LookupIs
  <2> QED
    BY <2>3, <2>4
<1>11. LookupsAre' /\ AnswersAre'
  BY <1>8, <1>9, <1>10, LearnsOnKeeps
<1>12. PastIs' /\ KeysAre' /\ ListIs'
  BY <1>3, KeysStay, ListStays DEF MetadataInv, PastIs
<1>13. CacheIs'
  <2>1. IsFiniteSet(DOMAIN column_cache')
    BY <1>4, <1>7, FS_Union DEF MetadataInv, CacheIs, ReadingIs
  <2>2. ASSUME NEW n \in DOMAIN old.reading
        PROVE  /\ shaped[n] = <<>> \/ Faithful(n, shaped[n])
               /\ DOMAIN shaped[n] = DOMAIN old.reading[n]
    <3>1. CASE DOMAIN old.reading[n] = {}
      BY <1>5, <3>1, NoneIs, EmptyIs
    <3>2. CASE Plain(n, old.reading[n]) /\ \A i \in DOMAIN old.reading[n] : old.reading[n][i].shape = 0
      <4>1. PastIs /\ told \subseteq Vectors(old.reading)
        BY <1>2 DEF MetadataInv
      <4>2. Faithful(n, Shaped(old.reading, told)[n]) /\ DOMAIN Shaped(old.reading, told)[n] = DOMAIN old.reading[n]
        BY <3>2, <4>1, ShapedIs
      <4> QED
        BY <1>5, <4>2
    <3> QED
      BY <1>4, <3>1, <3>2 DEF ReadingIs
  <2>3. ASSUME NEW n \in DOMAIN column_cache'
        PROVE  (column_cache[n] = <<>> \/ Faithful(n, column_cache[n]))'
    <3>1. PICK columns : columns = column_cache'[n]
      OBVIOUS
    <3>2. columns = <<>> \/ Faithful(n, columns)
      <4>1. CASE n \in DOMAIN old.reading
        BY <1>7, <2>2, <3>1, <4>1
      <4>2. CASE n \in DOMAIN column_cache
        BY <1>7, <3>1, <4>2 DEF MetadataInv, CacheIs
      <4> QED
        BY <1>7, <4>1, <4>2
    <3>3. Faithful(n, columns) => Faithful(n, columns)'
      BY <1>3, FaithfulStays DEF Faithful
    <3>4. columns = <<>> \/ Faithful(n, columns)'
      BY <3>2, <3>3
    <3> QED
      BY <3>1, <3>4 DEF Faithful, Plain, Told
  <2>4. metadata'.complete =>
            /\ at_load' \in past' /\ DOMAIN column_cache' = DOMAIN at_load'
            /\ \A n \in DOMAIN column_cache' : DOMAIN column_cache'[n] # {}
    <3> SUFFICES ASSUME metadata.complete
                 PROVE  /\ at_load \in past /\ DOMAIN column_cache' = DOMAIN at_load
                        /\ \A n \in DOMAIN column_cache' : DOMAIN column_cache'[n] # {}
      BY <1>3
    <3>1. /\ DOMAIN column_cache = {} /\ DOMAIN old.reading = DOMAIN at_load
          /\ \A n \in DOMAIN old.reading : DOMAIN old.reading[n] # {}
      BY <1>4 DEF ReadingIs
    <3>2. at_load \in past
      BY DEF MetadataInv, CacheIs
    <3> QED
      BY <1>7, <2>2, <3>1, <3>2
  <2> QED
    BY <1>3, <1>4, <2>1, <2>3, <2>4 DEF CacheIs
<1> QED
  BY <1>11, <1>12, <1>13 DEF MetadataInv

-----------------------------------------------------------------------------
(* Nothing is known at ATTACH.                                             *)
LEMMA MetadataStarts == MetadataInit => MetadataInv
<1> SUFFICES ASSUME MetadataInit PROVE MetadataInv
  OBVIOUS
<1>1. PastIs
  BY SchemasAssumption DEF MetadataInit, PastIs
<1>2. CacheIs
  BY EmptyIs, FS_EmptySet DEF MetadataInit, CacheIs
<1>3. KeysAre
  BY EmptyIs DEF MetadataInit, KeysAre
<1>4. ListIs
  BY MetadataAssumption DEF MetadataInit, ListIs
<1>5. LookupsAre /\ AnswersAre
  BY DEF MetadataInit, LookupsAre, LookupIs, AnswersAre
<1> QED
  BY <1>1, <1>2, <1>3, <1>4, <1>5 DEF MetadataInv

(* A step of anything else changes nothing.                                *)
LEMMA MetadataStutters == ASSUME MetadataInv, UNCHANGED metadataVars PROVE MetadataInv'
<1>1. GoesOn /\ LearnsOn(NoLooker) /\ NoLooker \notin Lookers
  BY MetadataAssumption DEF metadataVars, GoesOn, LearnsOn, Protected
<1>2. LookupsAre' /\ AnswersAre'
  BY <1>1, LearnsOnKeeps
<1>3. PastIs' /\ CacheIs' /\ KeysAre' /\ ListIs'
  BY CacheStays, KeysStay, ListStays DEF MetadataInv, PastIs, metadataVars
<1> QED
  BY <1>2, <1>3 DEF MetadataInv

(* Every step keeps the invariant.                                         *)
LEMMA MetadataKeeps == ASSUME MetadataInv, MetadataNext PROVE MetadataInv'
<1>1. CASE SchemaChanges
  BY <1>1, SchemaKeeps
<1>2. ASSUME NEW t \in Lookers,
             \/ LooksUp(t) \/ GetDefaultEntries(t)
             \/ LoadSchemaColumns(t) \/ LoadSchemaColumnsFails(t) \/ ApplyVectorShapes(t)
             \/ Resolves(t) \/ DescribeOne(t) \/ DescribeFails(t) \/ TryDescribe(t)
             \/ LoadPrimaryKeys(t) \/ Create(t)
             \/ ListObjects(t, "tables") \/ ListObjects(t, "views") \/ ObjectsListed(t)
      PROVE  MetadataInv'
  <2>1. ASSUME LooksUp(t) \/ GetDefaultEntries(t) PROVE MetadataInv'
    BY <2>1, BeginsKeep
  <2>2. ASSUME LoadSchemaColumns(t) \/ LoadSchemaColumnsFails(t) \/ ApplyVectorShapes(t) PROVE MetadataInv'
    BY <2>2, LoadKeeps, LoadFailsKeeps, ApplyKeeps
  <2>3. ASSUME Resolves(t) \/ DescribeOne(t) \/ DescribeFails(t) \/ TryDescribe(t) PROVE MetadataInv'
    BY <2>3, ResolvesKeeps, DescribeOneKeeps, DescribeFailsKeeps, TryDescribeKeeps
  <2>4. ASSUME LoadPrimaryKeys(t) \/ Create(t) \/ ObjectsListed(t) PROVE MetadataInv'
    BY <2>4, LoadKeysKeeps, CreateKeeps, ObjectsListedKeeps
  <2>5. ASSUME ListObjects(t, "tables") PROVE MetadataInv'
    <3>1. FALSE = ("tables" = "views")
      OBVIOUS
    <3> QED
      BY <2>5, <3>1, ListsKeep
  <2>6. ASSUME ListObjects(t, "views") PROVE MetadataInv'
    <3>1. TRUE = ("views" = "views")
      OBVIOUS
    <3> QED
      BY <2>6, <3>1, ListsKeep
  <2> QED
    BY <1>2, <2>1, <2>2, <2>3, <2>4, <2>5, <2>6
<1> QED
  BY <1>1, <1>2 DEF MetadataNext

(* A column list that is faithful describes what the object was.           *)
LEMMA EntriesAreWhole ==
    ASSUME MetadataInv, NEW a \in answers, a.kind = "entry", AnswerIs(a)
    PROVE  Alike(a.object, a.requested) /\ EntryIsWhole(a) /\ NameIsMeant(a)
<1>1. /\ NameIsMeant(a) /\ primary_keys.loaded /\ Alike(a.object, a.requested)
      /\ a.object \in DOMAIN column_cache /\ a.columns = column_cache[a.object]
      /\ DOMAIN a.columns # {} /\ a.key = KeyOf(a.object, a.columns)
  BY DEF AnswerIs
<1>2. Faithful(a.object, a.columns)
  BY <1>1, EmptyIs DEF MetadataInv, CacheIs
<1>3. \E d \in past : a.object \in DOMAIN d /\ Unshaped(a.columns) = Unshaped(d[a.object].columns)
  <2>1. PICK d \in past :
            /\ a.object \in DOMAIN d /\ DOMAIN a.columns = DOMAIN d[a.object].columns
            /\ \A i \in DOMAIN a.columns : IsAs(a.columns[i], d[a.object].columns[i])
    BY <1>2 DEF Faithful, Plain
  <2>2. PICK full : full = d[a.object].columns
    OBVIOUS
  <2>3. \A i \in DOMAIN full : IsColumn(full[i])
    <3>1. IsShape(d[a.object])
      BY <2>1 DEF MetadataInv, PastIs
    <3> QED
      BY <2>2, <3>1, ShapeIs
  <2>4. DOMAIN a.columns = DOMAIN full /\ \A i \in DOMAIN full : Reshaped(a.columns[i], 0) = Reshaped(full[i], 0)
    BY <2>1, <2>2, <2>3, ColumnsAlike
  <2>5. Unshaped(a.columns) = Unshaped(full)
    BY <2>4 DEF Unshaped, Reshaped
  <2> QED
    BY <2>1, <2>2, <2>5
<1>4. \A c \in ToSet(a.columns) :
          c.shape = 0 \/ \E d \in past : a.object \in DOMAIN d /\ c \in ToSet(d[a.object].columns)
  BY <1>2 DEF Faithful, Told, ToSet
<1>5. /\ ToSet(a.key) \subseteq ColumnNames(a.columns)
      /\ a.key = <<>> \/ \E d \in past : a.object \in DOMAIN d /\ a.key = d[a.object].key
  <2>1. ToSet(<<>>) = {}
    BY EmptyIs DEF ToSet
  <2>2. PICK key : key = IF a.object \in DOMAIN primary_keys.cache
                         THEN primary_keys.cache[a.object] ELSE <<>>
    OBVIOUS
  <2>3. a.key = IF ToSet(key) \subseteq ColumnNames(a.columns) THEN key ELSE <<>>
    BY <1>1, <2>2 DEF KeyOf
  <2>4. key = <<>> \/ \E d \in past : a.object \in DOMAIN d /\ key = d[a.object].key
    BY <2>2 DEF MetadataInv, KeysAre
  <2> QED
    BY <2>1, <2>3, <2>4
<1>6. ASSUME NEW b \in answers, b.kind = "entry", b.object = a.object
      PROVE  b.columns = a.columns /\ b.key = a.key
  <2>1. b.columns = column_cache[b.object] /\ b.key = KeyOf(b.object, b.columns)
    BY <1>6 DEF MetadataInv, AnswersAre, AnswerIs
  <2> QED
    BY <1>1, <1>6, <2>1
<1> QED
  BY <1>1, <1>3, <1>4, <1>5, <1>6 DEF EntryIsWhole

(* What the invariant says of an answer is what the property asks.         *)
LEMMA InvDescribes == MetadataInv => TablesAreAsDescribed
<1> SUFFICES ASSUME MetadataInv PROVE TablesAreAsDescribed
  OBVIOUS
<1>1. ASSUME NEW a \in answers
      PROVE  CASE a.kind = "entry" -> Alike(a.object, a.requested) /\ EntryIsWhole(a) /\ NameIsMeant(a)
               [] a.kind = "none" -> NameIsMeant(a)
               [] a.kind = "list" -> ListIsWhole(a)
  <2>1. AnswerIs(a)
    BY DEF MetadataInv, AnswersAre
  <2>2. CASE a.kind = "entry"
    <3>1. Alike(a.object, a.requested) /\ EntryIsWhole(a) /\ NameIsMeant(a)
      BY <2>1, <2>2, EntriesAreWhole
    <3> QED
      BY <2>2, <3>1
  <2>3. CASE a.kind = "none"
    <3>1. NameIsMeant(a)
      BY <2>1, <2>3 DEF AnswerIs
    <3> QED
      BY <2>3, <3>1
  <2>4. CASE a.kind = "list"
    <3>1. ListIsWhole(a)
      BY <2>1, <2>4 DEF AnswerIs
    <3> QED
      BY <2>4, <3>1
  <2> QED
    BY <2>1, <2>2, <2>3, <2>4 DEF AnswerIs
<1> QED
  BY <1>1 DEF TablesAreAsDescribed

(* What an attached catalog tells of its tables, keys and names is the     *)
(* truth of some moment since ATTACH, whole, in every run of every number  *)
(* of binding threads over every schema and every sequence of its changes: *)
(* however the queries of oracle_catalog.cpp fail or meet their bounds.    *)
THEOREM DescriptionsAreTrue == MetadataSpec => []TablesAreAsDescribed
<1>1. MetadataInit => MetadataInv
  BY MetadataStarts
<1>2. MetadataInv /\ [MetadataNext]_metadataVars => MetadataInv'
  BY MetadataKeeps, MetadataStutters
<1> QED
  BY <1>1, <1>2, InvDescribes, PTL DEF MetadataSpec
=============================================================================
