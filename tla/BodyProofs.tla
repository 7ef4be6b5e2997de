----------------------------- MODULE BodyProofs -----------------------------
(***************************************************************************)
(* Proofs about Message, first those about bodies: whatever the framing,   *)
(* the body, the sizes the server reads and writes in and the cut, what is *)
(* read is what was written, to its end and no further, or the reader      *)
(* fails. Powers of two are counted as sets of bits. The lemmas about      *)
(* sequences that come first are for the proofs                            *)
(* about header fields and cookies too.                                    *)
(***************************************************************************)
EXTENDS Message, Integers, SequenceTheorems, FiniteSetTheorems, WellFoundedInduction, TLAPS

\* A number that fails has a first one that does.
LEMMA LeastNumber ==
  ASSUME NEW T, T \subseteq Nat, T # {}
  PROVE  \E x \in T : \A y \in T : x <= y
<1> DEFINE R == OpToRel(<, Nat)
<1>1. IsWellFoundedOn(R, Nat)
  BY NatLessThanWellFounded
<1>2. \A x, y \in Nat : <<x, y>> \in R <=> x < y
  BY DEF OpToRel
<1> HIDE DEF R
<1>3. PICK x \in T : \A y \in T : ~(<<y, x>> \in R)
  BY <1>1, WFMin
<1>4. \A y \in T : ~(y < x) /\ y \in Nat /\ x \in Nat
  BY <1>2, <1>3
<1> QED BY <1>4

\* Induction up to a bound, without an operator for the hypothesis: S is the set of those it holds for.
LEMMA InductUpTo ==
  ASSUME NEW S, NEW k \in Nat, 0 \in S, \A n \in 0 .. k - 1 : n \in S => n + 1 \in S
  PROVE  \A n \in 0 .. k : n \in S
<1> SUFFICES ASSUME NEW n \in 0 .. k, n \notin S PROVE FALSE
  OBVIOUS
<1> DEFINE T == (0 .. k) \ S
<1>1. T \subseteq Nat /\ T # {}
  OBVIOUS
<1>2. PICK x \in T : \A y \in T : x <= y
  <2> HIDE DEF T
  <2> QED BY <1>1, LeastNumber
<1>3. x \in Nat /\ x # 0 /\ x <= k
  BY <1>2
<1>4. x - 1 \in S
  BY <1>2, <1>3
<1> QED BY <1>2, <1>3, <1>4

\* f is a at 0 and what by makes of the value before at any number up to k.
Follows(f, V, k, a, by) == /\ f \in [0 .. k -> V] /\ f[0] = a
                             /\ \A i \in 1 .. k : f[i] = by[i][f[i - 1]]

\* A function defined by recursion on a number exists.
LEMMA Recursion ==
  ASSUME NEW V, NEW k \in Nat, NEW a \in V, NEW by \in [1 .. k -> [V -> V]]
  PROVE  \E f : Follows(f, V, k, a, by)
<1> DEFINE S == {n \in 0 .. k : \E f \in [0 .. n -> V] :
                                    f[0] = a /\ \A i \in 1 .. n : f[i] = by[i][f[i - 1]]}
<1>1. 0 \in S
  <2> DEFINE f == [i \in 0 .. 0 |-> a]
  <2>1. f \in [0 .. 0 -> V] /\ f[0] = a /\ \A i \in 1 .. 0 : f[i] = by[i][f[i - 1]]
    OBVIOUS
  <2> HIDE DEF f
  <2> QED BY <2>1
<1>2. ASSUME NEW n \in 0 .. k - 1, n \in S PROVE n + 1 \in S
  <2>1. PICK f \in [0 .. n -> V] : f[0] = a /\ \A i \in 1 .. n : f[i] = by[i][f[i - 1]]
    BY <1>2
  <2> DEFINE g == [i \in 0 .. n + 1 |-> IF i = n + 1 THEN by[n + 1][f[n]] ELSE f[i]]
  <2>2. n + 1 \in 1 .. k /\ n \in 0 .. n /\ n + 1 \in 0 .. k
    OBVIOUS
  <2>3. by[n + 1][f[n]] \in V
    BY <2>2
  <2>4. g \in [0 .. n + 1 -> V]
    BY <2>3
  <2>5. g[0] = a
    BY <2>1, <2>2
  <2>6. ASSUME NEW i \in 1 .. n + 1 PROVE g[i] = by[i][g[i - 1]]
    <3>1. CASE i = n + 1
      BY <3>1, <2>2
    <3>2. CASE i # n + 1
      <4>1. i \in 1 .. n /\ i - 1 \in 0 .. n
        BY <3>2
      <4>2. g[i] = f[i] /\ g[i - 1] = f[i - 1]
        BY <4>1
      <4> QED BY <4>1, <4>2, <2>1
    <3> QED BY <3>1, <3>2
  <2> HIDE DEF g
  <2> QED BY <2>4, <2>5, <2>6, <2>2
<1>3. \A n \in 0 .. k : n \in S
  <2> HIDE DEF S
  <2> QED BY <1>1, <1>2, InductUpTo
<1>4. k \in S
  <2> HIDE DEF S
  <2> QED BY <1>3
<1>5. PICK f \in [0 .. k -> V] : f[0] = a /\ \A i \in 1 .. k : f[i] = by[i][f[i - 1]]
  BY <1>4
<1> QED BY <1>5 DEF Follows

\* What SubSeq takes.
LEMMA Taken ==
  ASSUME NEW S, NEW s, NEW a \in Int, NEW b \in Int, a <= b + 1, \A i \in a .. b : s[i] \in S
  PROVE  /\ SubSeq(s, a, b) \in Seq(S) /\ Len(SubSeq(s, a, b)) = b - a + 1
         /\ \A i \in 1 .. b - a + 1 : SubSeq(s, a, b)[i] = s[a + i - 1]
<1> DEFINE u == SubSeq(s, a, b)
<1>1. /\ u \in Seq(S) /\ Len(u) = (IF a <= b THEN b - a + 1 ELSE 0)
      /\ \A i \in 1 .. b - a + 1 : u[i] = s[a + i - 1]
  BY SubSeqProperties
<1> HIDE DEF u
<1>2. Len(u) = b - a + 1
  BY <1>1
<1> QED BY <1>1, <1>2 DEF u

\* What putting t behind s makes.
LEMMA Behind ==
  ASSUME NEW V, NEW s \in Seq(V), NEW t \in Seq(V)
  PROVE  /\ s \o t \in Seq(V) /\ Len(s) \in Nat /\ Len(t) \in Nat /\ Len(s \o t) = Len(s) + Len(t)
         /\ \A i \in 1 .. Len(s) : (s \o t)[i] = s[i]
         /\ \A i \in 1 .. Len(t) : (s \o t)[Len(s) + i] = t[i]
<1>1. Len(s) \in Nat /\ Len(t) \in Nat
  BY LenProperties
<1>2. /\ s \o t \in Seq(V) /\ Len(s \o t) = Len(s) + Len(t)
      /\ \A i \in 1 .. Len(s) + Len(t) : (s \o t)[i] = IF i <= Len(s) THEN s[i] ELSE t[i - Len(s)]
  BY ConcatProperties
<1>3. ASSUME NEW i \in 1 .. Len(t) PROVE (s \o t)[Len(s) + i] = t[i]
  <2>1. Len(s) + i \in 1 .. Len(s) + Len(t) /\ ~(Len(s) + i <= Len(s)) /\ Len(s) + i - Len(s) = i
    BY <1>1
  <2> QED BY <1>2, <2>1
<1>4. ASSUME NEW i \in 1 .. Len(s) PROVE (s \o t)[i] = s[i]
  BY <1>1, <1>2
<1> QED BY <1>1, <1>2, <1>3, <1>4

-----------------------------------------------------------------------------
\* Bodies: numbers in hexadecimal digits.

HexSet == {Bodies!HexDigits[i + 1] : i \in 0 .. 15}

LEMMA HexDigitsAre == /\ \A i \in 0 .. 15 : Bodies!Value(Bodies!HexDigits[i + 1]) = i
                      /\ Bodies!ToSet(Bodies!HexDigits) = HexSet
                      /\ \A i \in 0 .. 15 : Bodies!HexDigits[i + 1] = "0" <=> i = 0
                      /\ \A i \in 0 .. 15 : Bodies!HexDigits[i + 1] # "cr" /\ Bodies!HexDigits[i + 1] # "lf"
<1> DEFINE h == Bodies!HexDigits
<1>1. \A i, j \in 0 .. 15 : h[i + 1] = h[j + 1] => i = j
  BY DEF Bodies!HexDigits
<1>2. \A i \in 0 .. 15 : (h[i + 1] = "0" <=> i = 0) /\ h[i + 1] # "cr" /\ h[i + 1] # "lf"
  BY DEF Bodies!HexDigits
<1>3. Bodies!ToSet(h) = HexSet
  <2>1. DOMAIN h = 1 .. 16
    BY DEF Bodies!HexDigits
  <2>2. \A i \in 1 .. 16 : i - 1 \in 0 .. 15 /\ (i - 1) + 1 = i
    OBVIOUS
  <2>3. \A i \in 0 .. 15 : i + 1 \in 1 .. 16
    OBVIOUS
  <2> HIDE DEF h
  <2>4. Bodies!ToSet(h) = {h[i] : i \in 1 .. 16}
    BY <2>1 DEF Bodies!ToSet
  <2>5. {h[i] : i \in 1 .. 16} = {h[i + 1] : i \in 0 .. 15}
    BY <2>2, <2>3
  <2> QED BY <2>4, <2>5 DEF HexSet, h
<1>4. \A i \in 0 .. 15 : Bodies!Value(h[i + 1]) = i
  <2> HIDE DEF h
  <2> QED BY <1>1 DEF Bodies!Value, h
<1> QED BY <1>2, <1>3, <1>4

\* The digits of a number: q[k] is what the first k of them amount to.
HexOf(d, q, K) == /\ q \in [0 .. K -> Nat] /\ q[0] = 0
                  /\ Len(d) = K
                  /\ \A k \in 1 .. K : /\ d[k] = Bodies!HexDigits[(q[k] % 16) + 1]
                                       /\ q[k] = 16 * q[k - 1] + (q[k] % 16)

\* Zeros in front, and no more.
Zeros(d, z) == /\ z \in 0 .. Len(d) /\ \A k \in 1 .. z : d[k] = "0"
               /\ (z = Len(d) \/ d[z + 1] # "0")

LEMMA LeadingZerosAre ==
  ASSUME NEW d, Len(d) \in Nat
  PROVE  Zeros(d, Bodies!LeadingZeros(d))
<1> DEFINE n == Len(d)
           T == {k \in 1 .. n : d[k] # "0"}
<1>1. \E z : Zeros(d, z)
  <2>1. CASE T = {}
    BY <2>1 DEF Zeros
  <2>2. CASE T # {}
    <3>1. PICK x \in T : \A y \in T : x <= y
      <4>1. T \subseteq Nat
        OBVIOUS
      <4> HIDE DEF T
      <4> QED BY <2>2, <4>1, LeastNumber
    <3> DEFINE z == x - 1
    <3>2. z \in 0 .. n /\ z + 1 = x /\ d[x] # "0" /\ \A k \in 1 .. z : k \in 1 .. n /\ ~(x <= k)
      OBVIOUS
    <3> HIDE DEF z
    <3>3. \A k \in 1 .. z : d[k] = "0"
      BY <3>1, <3>2
    <3> QED BY <3>2, <3>3 DEF Zeros
  <2> QED BY <2>1, <2>2
<1>2. \E z \in 0 .. n : (\A k \in 1 .. z : d[k] = "0") /\ (z = n \/ d[z + 1] # "0")
  BY <1>1 DEF Zeros
<1> QED BY <1>2 DEF Zeros, Bodies!LeadingZeros

\* Zeros in front amount to nothing.
LEMMA ZerosAreNothing ==
  ASSUME NEW K \in Nat, NEW d, NEW q, HexOf(d, q, K), NEW z, Zeros(d, z)
  PROVE  /\ z \in 0 .. K /\ q[z] = 0
         /\ z # K => q[z + 1] # 0
<1>1. z \in 0 .. K /\ q \in [0 .. K -> Nat] /\ q[0] = 0
  BY DEF HexOf, Zeros
<1>2. \A k \in 1 .. K : /\ d[k] = Bodies!HexDigits[(q[k] % 16) + 1] /\ q[k] % 16 \in 0 .. 15
                        /\ q[k] = 16 * q[k - 1] + (q[k] % 16)
  <2> SUFFICES ASSUME NEW k \in 1 .. K
               PROVE  /\ d[k] = Bodies!HexDigits[(q[k] % 16) + 1] /\ q[k] % 16 \in 0 .. 15
                      /\ q[k] = 16 * q[k - 1] + (q[k] % 16)
    OBVIOUS
  <2>1. q[k] \in Nat
    BY <1>1
  <2>2. \A x \in Nat : x % 16 \in 0 .. 15
    OBVIOUS
  <2>3. q[k] % 16 \in 0 .. 15
    BY <2>1, <2>2
  <2>4. d[k] = Bodies!HexDigits[(q[k] % 16) + 1] /\ q[k] = 16 * q[k - 1] + (q[k] % 16)
    BY Zenon DEF HexOf
  <2> QED BY <2>3, <2>4
<1> DEFINE S == {i \in 0 .. z : q[i] = 0}
<1>3. 0 \in S
  BY <1>1
<1>4. ASSUME NEW i \in 0 .. z - 1, i \in S PROVE i + 1 \in S
  <2> DEFINE j == i + 1
  <2>1. j \in 1 .. K /\ j \in 1 .. z /\ j \in 0 .. z /\ j - 1 = i
    BY <1>1
  <2> HIDE DEF j
  <2>2. d[j] = "0"
    BY <2>1 DEF Zeros
  <2>3. q[j] % 16 = 0
    BY <1>2, <2>1, <2>2, HexDigitsAre
  <2>4. q[j] = 16 * q[i] + (q[j] % 16) /\ q[i] = 0
    BY <1>2, <1>4, <2>1
  <2>5. q[j] = 0
    BY <2>3, <2>4
  <2> QED BY <2>1, <2>5 DEF j
<1>5. \A i \in 0 .. z : i \in S
  <2> HIDE DEF S
  <2>1. z \in Nat
    BY <1>1
  <2> QED BY <1>3, <1>4, <2>1, InductUpTo
<1>6. q[z] = 0
  BY <1>1, <1>5
<1>7. ASSUME z # K PROVE q[z + 1] # 0
  <2> DEFINE j == z + 1
  <2>1. j \in 1 .. K /\ z # Len(d)
    BY <1>1, <1>7 DEF HexOf
  <2>2. d[j] # "0"
    BY <2>1 DEF Zeros
  <2> HIDE DEF j
  <2>3. q[j] % 16 # 0
    BY <1>2, <2>1, <2>2, HexDigitsAre
  <2>4. q[j] \in Nat
    BY <1>1, <2>1
  <2>5. q[j] # 0
    BY <2>3, <2>4
  <2> QED BY <2>5 DEF j
<1> QED BY <1>1, <1>6, <1>7

\* ToInteger takes digit after digit.
LEMMA ToIntegerSteps ==
  ASSUME NEW s, Len(s) \in Nat, \A i \in 1 .. Len(s) : Bodies!Value(s[i]) \in Int
  PROVE  \E value : /\ Bodies!ToInteger(s) = value[Len(s)] /\ value[0] = 0
                    /\ \A i \in 1 .. Len(s) : value[i] = 16 * value[i - 1] + Bodies!Value(s[i])
<1> DEFINE n == Len(s)
           by == [i \in 1 .. n |-> [x \in Int |-> 16 * x + Bodies!Value(s[i])]]
<1>2. by \in [1 .. n -> [Int -> Int]]
  OBVIOUS
<1>3. PICK f : Follows(f, Int, n, 0, by)
  <2>1. 0 \in Int /\ n \in Nat
    OBVIOUS
  <2> HIDE DEF by, n
  <2> QED BY <1>2, <2>1, Recursion
<1>4. f \in [0 .. n -> Int] /\ f[0] = 0
  BY <1>3 DEF Follows
<1>5. ASSUME NEW i \in 1 .. n PROVE f[i] = 16 * f[i - 1] + Bodies!Value(s[i])
  <2>1. i - 1 \in 0 .. n
    OBVIOUS
  <2> QED BY <1>3, <1>4, <2>1 DEF Follows
<1> DEFINE V(g) == g = [i \in 0 .. n |-> IF i = 0 THEN 0 ELSE 16 * g[i - 1] + Bodies!Value(s[i])]
           value == CHOOSE g : V(g)
<1> HIDE DEF by
<1>6. V(f)
  BY <1>4, <1>5
<1>7. V(value)
  <2> HIDE DEF V
  <2> QED BY <1>6
<1>8. Bodies!ToInteger(s) = value[n]
  BY DEF Bodies!ToInteger
<1> HIDE DEF value
<1>9. value[0] = 0 /\ \A i \in 1 .. n : value[i] = 16 * value[i - 1] + Bodies!Value(s[i])
  <2>1. value = [i \in 0 .. n |-> IF i = 0 THEN 0 ELSE 16 * value[i - 1] + Bodies!Value(s[i])]
    BY <1>7
  <2> HIDE DEF V
  <2>2. ASSUME NEW i \in 0 .. n PROVE value[i] = IF i = 0 THEN 0 ELSE 16 * value[i - 1] + Bodies!Value(s[i])
    BY <2>1
  <2> QED BY <2>2
<1> QED BY <1>8, <1>9

LEMMA Remainder == \A x \in Nat : x % 16 \in 0 .. 15
OBVIOUS

\* What the digits without the zeros in front amount to.
LEMMA HexRead ==
  ASSUME NEW K \in Nat, NEW d, NEW q, HexOf(d, q, K), NEW z, Zeros(d, z),
         NEW s, Len(s) = K - z, \A i \in 1 .. K - z : s[i] = d[z + i]
  PROVE  Bodies!ToInteger(s) = q[K]
<1>1. z \in 0 .. K /\ q[z] = 0 /\ q \in [0 .. K -> Nat]
  <2>1. q \in [0 .. K -> Nat]
    BY DEF HexOf
  <2> QED BY <2>1, ZerosAreNothing
<1> DEFINE n == K - z
<1>2. ASSUME NEW i \in 1 .. n
      PROVE  Bodies!Value(s[i]) = q[z + i] % 16 /\ q[z + i] = 16 * q[z + (i - 1)] + (q[z + i] % 16)
  <2> DEFINE j == z + i
  <2>1. j \in 1 .. K /\ j - 1 = z + (i - 1) /\ s[i] = d[j]
    BY <1>1
  <2> HIDE DEF j
  <2>2. d[j] = Bodies!HexDigits[(q[j] % 16) + 1] /\ q[j] \in Nat /\ q[j] % 16 \in 0 .. 15
    <3>1. q[j] \in Nat
      BY <1>1, <2>1
    <3>2. d[j] = Bodies!HexDigits[(q[j] % 16) + 1]
      BY <2>1, Zenon DEF HexOf
    <3> QED BY <3>1, <3>2, Remainder
  <2>3. q[j] = 16 * q[j - 1] + (q[j] % 16)
    BY <2>1, Zenon DEF HexOf
  <2> QED BY <2>1, <2>2, <2>3, HexDigitsAre DEF j
<1>3. n \in Nat /\ Len(s) = n
  BY <1>1
<1>4. \A i \in 1 .. n : Bodies!Value(s[i]) \in Int
  <2>1. \A i \in 1 .. n : q[z + i] \in Nat
    BY <1>1
  <2> QED BY <1>2, <2>1
<1>5. PICK value : /\ Bodies!ToInteger(s) = value[n] /\ value[0] = 0
                   /\ \A i \in 1 .. n : value[i] = 16 * value[i - 1] + Bodies!Value(s[i])
  <2> HIDE DEF n
  <2> QED BY <1>3, <1>4, ToIntegerSteps
<1> DEFINE S == {i \in 0 .. n : value[i] = q[z + i]}
<1>6. 0 \in S
  <2>1. z + 0 = z
    BY <1>1
  <2> QED BY <1>1, <1>5, <2>1
<1>7. ASSUME NEW i \in 0 .. n - 1, i \in S PROVE i + 1 \in S
  <2> DEFINE j == i + 1
  <2>1. j \in 1 .. n /\ j \in 0 .. n /\ j - 1 = i
    BY <1>3
  <2> HIDE DEF j, n
  <2>2. value[j] = 16 * value[j - 1] + Bodies!Value(s[j])
    BY <1>5, <2>1
  <2>3. value[i] = q[z + i]
    BY <1>7
  <2>4. Bodies!Value(s[j]) = q[z + j] % 16 /\ q[z + j] = 16 * q[z + (j - 1)] + (q[z + j] % 16)
    BY <1>2, <2>1
  <2>5. value[j] = q[z + j]
    BY <2>1, <2>2, <2>3, <2>4
  <2> QED BY <2>1, <2>5 DEF j
<1>8. \A i \in 0 .. n : i \in S
  <2> HIDE DEF S, n
  <2> QED BY <1>3, <1>6, <1>7, InductUpTo
<1>9. n \in 0 .. n /\ z + n = K
  BY <1>1, <1>3
<1> QED BY <1>5, <1>8, <1>9

\* The powers of two, as the numbers of subsets: one more to choose from, twice as many.
LEMMA Subsets ==
  ASSUME NEW e \in Nat
  PROVE  /\ IsFiniteSet(SUBSET (1 .. e)) /\ Cardinality(SUBSET (1 .. e)) = 2^e
         /\ 2^e \in Nat
<1>1. IsFiniteSet(1 .. e) /\ Cardinality(1 .. e) = e
  <2>1. IsFiniteSet(1 .. e) /\ Cardinality(1 .. e) = IF 1 > e THEN 0 ELSE e - 1 + 1
    BY 1 \in Int, e \in Int, FS_Interval
  <2> QED BY <2>1
<1>2. IsFiniteSet(SUBSET (1 .. e)) /\ Cardinality(SUBSET (1 .. e)) = 2^Cardinality(1 .. e)
  BY <1>1, FS_SUBSET
<1>3. Cardinality(SUBSET (1 .. e)) \in Nat
  BY <1>2, FS_CardinalityType
<1> QED BY <1>1, <1>2, <1>3

LEMMA Doubled ==
  ASSUME NEW e \in Nat
  PROVE  2^(e + 1) = 2 * 2^e
<1> DEFINE S == SUBSET (1 .. e)
           x == e + 1
           R == SUBSET (1 .. x)
           T == {s \cup {x} : s \in S}
           f == [s \in S |-> s \cup {x}]
<1>1. x \notin 1 .. e /\ 1 .. x = (1 .. e) \cup {x}
  OBVIOUS
<1>2. R = S \cup T
  <2>1. ASSUME NEW r \in R PROVE r \in S \cup T
    <3>1. CASE x \in r
      <4>1. r \ {x} \in S /\ r = (r \ {x}) \cup {x}
        BY <1>1, <3>1
      <4> QED BY <4>1
    <3>2. CASE x \notin r
      BY <1>1, <3>2
    <3> QED BY <3>1, <3>2
  <2>2. ASSUME NEW r \in S \cup T PROVE r \in R
    BY <1>1
  <2> QED BY <2>1, <2>2
<1>3. S \cap T = {}
  BY <1>1
<1>4. IsFiniteSet(S) /\ Cardinality(S) = 2^e /\ 2^e \in Nat
  BY Subsets
<1>5. f \in Bijection(S, T)
  <2>1. f \in Surjection(S, T)
    BY DEF Surjection
  <2>2. ASSUME NEW a \in S, NEW b \in S, f[a] = f[b] PROVE a = b
    <3>1. a \cup {x} = b \cup {x} /\ x \notin a /\ x \notin b
      BY <1>1, <2>2
    <3> QED BY <3>1
  <2> QED BY <2>1, <2>2 DEF Bijection, Injection, Surjection, IsInjective
<1>6. IsFiniteSet(T) /\ Cardinality(T) = 2^e
  <2> HIDE DEF S, T, f
  <2> QED BY <1>4, <1>5, FS_Bijection DEF ExistsBijection
<1>7. Cardinality(R) = Cardinality(S) + Cardinality(T) - Cardinality(S \cap T)
  <2> HIDE DEF S, T, R
  <2> QED BY <1>2, <1>4, <1>6, FS_Union
<1>8. Cardinality(S \cap T) = 0
  BY <1>3, FS_EmptySet
<1>9. x \in Nat
  OBVIOUS
<1>10. Cardinality(R) = 2^x
  <2> HIDE DEF x
  <2> QED BY <1>9, Subsets
<1> HIDE DEF S, T, R
<1>11. 2^x = 2^e + 2^e - 0
  BY <1>4, <1>6, <1>7, <1>8, <1>10
<1> QED BY <1>4, <1>11

LEMMA NotZero ==
  ASSUME NEW e \in Nat
  PROVE  2^e \in Nat \ {0}
<1>1. IsFiniteSet(SUBSET (1 .. e)) /\ Cardinality(SUBSET (1 .. e)) = 2^e /\ 2^e \in Nat
  BY Subsets
<1>2. SUBSET (1 .. e) # {}
  OBVIOUS
<1>3. 2^e # 0
  <2> DEFINE S == SUBSET (1 .. e)
  <2>1. IsFiniteSet(S) /\ Cardinality(S) = 2^e /\ S # {}
    BY <1>1, <1>2
  <2> HIDE DEF S
  <2> QED BY <2>1, FS_EmptySet
<1> QED BY <1>1, <1>3

LEMMA PowersGrow ==
  ASSUME NEW a \in Nat, NEW b \in Nat
  PROVE  2^(a + b) >= 2^a
<1> DEFINE S == {i \in 0 .. b : 2^(a + i) >= 2^a}
<1>1. 0 \in S
  <2>1. a + 0 = a /\ 2^a \in Nat
    BY NotZero
  <2> QED BY <2>1
<1>2. ASSUME NEW i \in 0 .. b - 1, i \in S PROVE i + 1 \in S
  <2> DEFINE e == a + i
  <2>1. e \in Nat /\ a + (i + 1) = e + 1 /\ i + 1 \in 0 .. b /\ 2^e >= 2^a
    BY <1>2
  <2> HIDE DEF e
  <2>2. 2^(e + 1) = 2 * 2^e /\ 2^e \in Nat /\ 2^a \in Nat
    BY <2>1, Doubled, NotZero
  <2>3. 2^(a + (i + 1)) >= 2^a
    BY <2>1, <2>2
  <2> QED BY <2>1, <2>3
<1>3. \A i \in 0 .. b : i \in S
  <2> HIDE DEF S
  <2> QED BY <1>1, <1>2, InductUpTo
<1> QED BY <1>3

\* Four bits more.
LEMMA SixteenTimes ==
  ASSUME NEW e \in Nat
  PROVE  2^(e + 4) = 16 * 2^e
<1>1. 2^(e + 1) = 2 * 2^e
  BY Doubled
<1>2. 2^((e + 1) + 1) = 2 * 2^(e + 1)
  BY e + 1 \in Nat, Doubled
<1>3. 2^((e + 2) + 1) = 2 * 2^(e + 2)
  BY e + 2 \in Nat, Doubled
<1>4. 2^((e + 3) + 1) = 2 * 2^(e + 3)
  BY e + 3 \in Nat, Doubled
<1>5. (e + 1) + 1 = e + 2 /\ (e + 2) + 1 = e + 3 /\ (e + 3) + 1 = e + 4
  OBVIOUS
<1>6. 2^e \in Nat
  BY NotZero
<1> QED BY <1>1, <1>2, <1>3, <1>4, <1>5, <1>6

\* What division is.
LEMMA Division ==
  ASSUME NEW n \in Nat, NEW m \in Nat \ {0}
  PROVE  n \div m \in Nat /\ n % m \in 0 .. m - 1 /\ n = m * (n \div m) + (n % m)
OBVIOUS

LEMMA Quotient ==
  ASSUME NEW n \in Nat, NEW m \in Nat \ {0}, NEW a \in Nat, NEW r \in 0 .. m - 1, n = m * a + r
  PROVE  n \div m = a
OBVIOUS

\* A half byte of the digits, and what is above it.
LEMMA HalfByte ==
  ASSUME NEW n \in Nat, NEW e \in Nat
  PROVE  /\ n \div 2^e \in Nat
         /\ n \div 2^e = 16 * (n \div 2^(e + 4)) + ((n \div 2^e) % 16)
<1> DEFINE m == 2^e
           a == n \div m
           b == a \div 16
           s == a % 16
<1>1. m \in Nat \ {0} /\ 2^(e + 4) = 16 * m
  BY NotZero, SixteenTimes
<1>2. a \in Nat /\ n % m \in 0 .. m - 1 /\ n = m * a + (n % m)
  BY <1>1, Division
<1>3. b \in Nat /\ s \in 0 .. 15 /\ a = 16 * b + s
  <2> HIDE DEF a
  <2> QED BY <1>2
<1> DEFINE r == m * s + (n % m)
           k == 16 * m
<1>4. n = k * b + r /\ r \in 0 .. k - 1 /\ k \in Nat \ {0}
  <2> DEFINE t == n % m
  <2>1. t \in 0 .. m - 1 /\ n = m * a + t
    BY <1>2
  <2> HIDE DEF m, a, b, s, t
  <2>2. m * a = 16 * m * b + m * s
    <3>1. m * (16 * b + s) = 16 * m * b + m * s
      BY <1>1, <1>3
    <3> QED BY <1>3, <3>1
  <2>3. m * s \in 0 .. 15 * m
    BY <1>1, <1>3
  <2> QED BY <1>1, <1>3, <2>1, <2>2, <2>3 DEF t
<1>5. n \div k = b
  <2> HIDE DEF k, r, b
  <2> QED BY <1>3, <1>4, Quotient
<1>6. n \div 2^(e + 4) = b
  BY <1>1, <1>5
<1> QED BY <1>2, <1>3, <1>6

\* Too small for the width: nothing is left.
LEMMA NothingLeft ==
  ASSUME NEW W \in Nat, NEW n \in Nat, n < 2^W
  PROVE  n \div 2^W = 0
<1>1. 2^W \in Nat \ {0} /\ n = 2^W * 0 + n /\ n \in 0 .. 2^W - 1
  BY NotZero
<1> QED BY <1>1, 0 \in Nat, Quotient

\* Digits after one that is not zero make it sixteen times as much each.
LEMMA HexGrows ==
  ASSUME NEW K \in Nat, NEW d, NEW q, HexOf(d, q, K), NEW x \in 1 .. K, q[x] # 0
  PROVE  \A i \in 0 .. K - x : q[x + i] \in Nat /\ q[x + i] >= 2^(4 * i)
<1>1. q \in [0 .. K -> Nat]
  BY DEF HexOf
<1> DEFINE S == {i \in 0 .. K - x : q[x + i] >= 2^(4 * i)}
<1>2. 0 \in S
  <2>1. 2^0 = 1 /\ 4 * 0 = 0 /\ x + 0 = x /\ q[x] \in Nat
    BY <1>1
  <2> QED BY <2>1
<1>3. ASSUME NEW i \in 0 .. K - x - 1, i \in S PROVE i + 1 \in S
  <2> DEFINE j == x + (i + 1)
             m == 2^(4 * i)
             n == 2^(4 * (i + 1))
  <2>1. j \in 1 .. K /\ j - 1 = x + i /\ j - 1 \in 0 .. K /\ i + 1 \in 0 .. K - x
    OBVIOUS
  <2>2. m \in Nat /\ n = 16 * m
    <3> DEFINE e == 4 * i
    <3>1. e \in Nat /\ 4 * (i + 1) = e + 4
      OBVIOUS
    <3> HIDE DEF e
    <3>2. 2^(e + 4) = 16 * 2^e /\ 2^e \in Nat
      BY <3>1, SixteenTimes, NotZero
    <3> QED BY <3>1, <3>2 DEF e
  <2>3. q[j - 1] >= m
    <3>1. q[x + i] >= m
      BY <1>3
    <3> QED BY <2>1, <3>1
  <2> HIDE DEF j, m, n
  <2>4. q[j] = 16 * q[j - 1] + (q[j] % 16)
    BY <2>1, Zenon DEF HexOf
  <2>5. q[j - 1] \in Nat /\ q[j] \in Nat
    BY <1>1, <2>1
  <2> DEFINE a == q[j - 1]
             b == q[j]
             r == b % 16
  <2>6. r \in Nat
    BY <2>5
  <2>7. b = 16 * a + r /\ a >= m /\ a \in Nat /\ b \in Nat
    BY <2>3, <2>4, <2>5
  <2> HIDE DEF a, b, r
  <2>8. b >= n
    BY <2>2, <2>6, <2>7
  <2> QED BY <2>1, <2>8 DEF j, n, b
<1>4. \A i \in 0 .. K - x : i \in S
  <2> HIDE DEF S
  <2>1. K - x \in Nat
    OBVIOUS
  <2> QED BY <1>2, <1>3, <2>1, InductUpTo
<1>5. \A i \in 0 .. K - x : x + i \in 0 .. K
  OBVIOUS
<1> QED BY <1>1, <1>4, <1>5

LEMMA NibblesAre ==
  ASSUME NEW W \in Nat, NEW n \in Nat, n < 2^W
  PROVE  \E q : HexOf(Bodies!Nibbles(n, W), q, W \div 4) /\ q[W \div 4] = n \div 2^(W % 4)
<1> DEFINE K == W \div 4
           q == [k \in 0 .. K |-> n \div 2^(W - 4 * k)]
           d == Bodies!Nibbles(n, W)
<1>1. /\ K \in Nat /\ W - 4 * 0 = W /\ W - 4 * K = W % 4
      /\ \A k \in 1 .. K : W - 4 * k \in Nat /\ (W - 4 * k) + 4 = W - 4 * (k - 1)
  OBVIOUS
<1>2. \A k \in 1 .. K : n \div 2^(W - 4 * k) \in Nat
  BY <1>1, HalfByte
<1>3. n \div 2^(W - 4 * 0) = 0
  BY <1>1, NothingLeft
<1>4. q \in [0 .. K -> Nat] /\ q[0] = 0
  <2>1. \A k \in 0 .. K : k = 0 \/ k \in 1 .. K
    OBVIOUS
  <2>2. \A k \in 0 .. K : n \div 2^(W - 4 * k) \in Nat
    BY <1>2, <1>3, <2>1
  <2>3. 0 \in 0 .. K
    BY <1>1
  <2> QED BY <1>3, <2>2, <2>3
<1>5. Len(d) = K /\ \A k \in 1 .. K : d[k] = Bodies!HexDigits[((n \div 2^(W - 4 * k)) % 16) + 1]
  BY <1>1 DEF Bodies!Nibbles
<1>6. ASSUME NEW k \in 1 .. K
      PROVE  q[k] = n \div 2^(W - 4 * k) /\ q[k] = 16 * q[k - 1] + (q[k] % 16)
  <2>1. q[k] = n \div 2^(W - 4 * k) /\ q[k - 1] = n \div 2^(W - 4 * (k - 1))
    <3>1. k \in 0 .. K /\ k - 1 \in 0 .. K
      BY <1>1
    <3> HIDE DEF K
    <3> QED BY <3>1
  <2> DEFINE e == W - 4 * k
  <2>2. e \in Nat /\ e + 4 = W - 4 * (k - 1)
    BY <1>1
  <2> HIDE DEF e, q, K
  <2>3. n \div 2^e = 16 * (n \div 2^(e + 4)) + ((n \div 2^e) % 16)
    BY <2>2, HalfByte
  <2>4. q[k] = n \div 2^e /\ q[k - 1] = n \div 2^(e + 4)
    BY <2>1, <2>2 DEF e
  <2> QED BY <2>1, <2>3, <2>4
<1>7. q[K] = n \div 2^(W % 4)
  <2>1. K \in 0 .. K
    BY <1>1
  <2> QED BY <1>1, <2>1
<1> HIDE DEF q, d, K
<1>8. \A k \in 1 .. K : d[k] = Bodies!HexDigits[(q[k] % 16) + 1]
  BY <1>5, <1>6
<1>9. HexOf(d, q, K)
  BY <1>4, <1>5, <1>6, <1>8, Zenon DEF HexOf
<1> QED BY <1>7, <1>9 DEF d, K

\* to_hex, and to_integer of it: nothing for nothing, else the number, without the bits a signed type cuts.
LEMMA ToHexIs ==
  ASSUME NEW W \in Nat, NEW n \in Nat, n < 2^W
  PROVE  LET s == Bodies!ToHex(n, W)
             m == n \div 2^(W % 4)
         IN /\ Len(s) \in Nat /\ DOMAIN s = 1 .. Len(s)
            /\ \A i \in 1 .. Len(s) : s[i] \in HexSet
            /\ (Len(s) = 0) <=> (m = 0)
            /\ Bodies!ToInteger(s) = m
            /\ s \in Seq(HexSet)
            /\ \A D \in Nat : m < 2^(4 * D) => Len(s) <= D
<1> DEFINE K == W \div 4
           d == Bodies!Nibbles(n, W)
           z == Bodies!LeadingZeros(d)
           s == Bodies!ToHex(n, W)
           m == n \div 2^(W % 4)
<1>1. PICK q : HexOf(d, q, K) /\ q[K] = m
  BY NibblesAre
<1>2. K \in Nat /\ Len(d) = K
  <2>1. K \in Nat
    OBVIOUS
  <2> QED BY <1>1, <2>1 DEF HexOf
<1>3. Zeros(d, z)
  <2> HIDE DEF d, K
  <2> QED BY <1>2, LeadingZerosAre
<1>4. z \in 0 .. K /\ q[z] = 0 /\ (z # K => q[z + 1] # 0) /\ q \in [0 .. K -> Nat]
  <2> HIDE DEF d, K, z, m
  <2>1. K \in Nat /\ q \in [0 .. K -> Nat]
    BY <1>1, <1>2 DEF HexOf
  <2> QED BY <1>1, <1>3, <2>1, ZerosAreNothing
<1>5. s = SubSeq(d, z + 1, K)
  BY DEF Bodies!ToHex
<1> HIDE DEF s
<1>6. ASSUME NEW j \in 1 .. K PROVE d[j] \in HexSet
  <2> HIDE DEF d, K, z, m
  <2>1. q[j] \in Nat
    BY <1>4
  <2>2. d[j] = Bodies!HexDigits[(q[j] % 16) + 1]
    BY <1>1, Zenon DEF HexOf
  <2>3. q[j] % 16 \in 0 .. 15
    BY <2>1
  <2> QED BY <2>2, <2>3 DEF HexSet
<1>7. /\ s \in Seq(HexSet) /\ Len(s) = K - z
      /\ \A i \in 1 .. K - z : s[i] = d[z + i]
  <2> HIDE DEF K, z, d
  <2> DEFINE a == z + 1
  <2>1. a \in Int /\ K \in Int /\ a <= K + 1 /\ K - a + 1 = K - z /\ K - z \in Nat
    BY <1>2, <1>4
  <2>2. \A i \in 1 .. K - z : a + i - 1 = z + i
    BY <1>4
  <2>3. \A i \in a .. K : i \in 1 .. K
    BY <1>2, <1>4
  <2> HIDE DEF d, K, z, m, a
  <2>4. \A i \in a .. K : d[i] \in HexSet
    BY <1>6, <2>3
  <2>5. SubSeq(d, a, K) = s
    BY <1>5 DEF a
  <2>6. s \in Seq(HexSet) /\ Len(s) = K - a + 1 /\ \A i \in 1 .. K - a + 1 : s[i] = d[a + i - 1]
    <3>1. SubSeq(d, a, K) \in Seq(HexSet) /\ Len(SubSeq(d, a, K)) = K - a + 1
      BY <2>1, <2>4, Taken
    <3>2. \A i \in 1 .. K - a + 1 : SubSeq(d, a, K)[i] = d[a + i - 1]
      BY <2>1, <2>4, Taken
    <3> QED BY <2>5, <3>1, <3>2, Zenon
  <2> QED BY <2>1, <2>2, <2>6
<1>8. Bodies!ToInteger(s) = m
  <2> HIDE DEF d, K, z, m
  <2>1. K \in Nat
    BY <1>2
  <2> QED BY <1>1, <1>3, <1>7, <2>1, HexRead
<1>9. Len(s) = 0 <=> m = 0
  <2> HIDE DEF d, z, m
  <2>1. CASE z = K
    BY <1>1, <1>2, <1>4, <1>7, <2>1
  <2>2. CASE z # K
    <3>1. q[z + 1] # 0 /\ z + 1 \in 1 .. K /\ Len(s) # 0
      BY <1>2, <1>4, <1>7, <2>2
    <3>2. q[K] # 0
      <4> DEFINE x == z + 1
                 i == K - x
      <4>1. q[x] # 0 /\ x \in 1 .. K /\ i \in 0 .. K - x /\ x + i = K /\ 4 * i \in Nat
        BY <1>2, <3>1
      <4> HIDE DEF x, i
      <4>2. q[x + i] \in Nat /\ q[x + i] >= 2^(4 * i)
        BY <1>1, <1>2, <4>1, HexGrows
      <4>3. 2^(4 * i) \in Nat \ {0}
        BY <4>1, NotZero
      <4> QED BY <4>1, <4>2, <4>3
    <3> QED BY <1>1, <3>1, <3>2
  <2> QED BY <2>1, <2>2
<1>10. Len(s) \in Nat /\ DOMAIN s = 1 .. Len(s)
  <2> HIDE DEF d, K, z, m
  <2>1. Len(s) \in Nat
    BY <1>2, <1>4, <1>7
  <2>2. DOMAIN s = 1 .. Len(s)
    BY <1>7
  <2> QED BY <2>1, <2>2
<1>11. \A i \in 1 .. Len(s) : s[i] \in HexSet
  <2> HIDE DEF m
  <2> QED BY <1>7
<1>13. ASSUME NEW D \in Nat, m < 2^(4 * D), ~(Len(s) <= D) PROVE FALSE
  <2> DEFINE x == z + 1
             i == K - x
  <2> HIDE DEF d, z, m
  <2>1. x \in 1 .. K /\ q[x] # 0 /\ i \in 0 .. K - x /\ x + i = K /\ i - D \in Nat
    BY <1>2, <1>4, <1>7, <1>13
  <2> HIDE DEF x, i, K
  <2>2. q[x + i] \in Nat /\ q[x + i] >= 2^(4 * i)
    BY <1>1, <1>2, <2>1, HexGrows
  <2>3. 2^(4 * i) >= 2^(4 * D)
    <3> DEFINE a == 4 * D
               b == 4 * (i - D)
    <3>1. a \in Nat /\ b \in Nat /\ a + b = 4 * i
      <4>1. i \in Int
        BY <1>2, <2>1
      <4> QED BY <2>1, <4>1
    <3> HIDE DEF a, b
    <3>2. 2^(a + b) >= 2^a
      BY <3>1, PowersGrow
    <3> QED BY <3>1, <3>2 DEF a
  <2>4. 2^(4 * i) \in Nat /\ 2^(4 * D) \in Nat
    <3>1. 4 * i \in Nat /\ 4 * D \in Nat
      <4>1. i \in Nat
        BY <2>1
      <4> QED BY <4>1
    <3> QED BY <3>1, NotZero
  <2>5. q[x + i] = m
    BY <1>1, <2>1
  <2> QED BY <1>13, <2>2, <2>3, <2>4, <2>5
<1> HIDE DEF m
<1>12. s \in Seq(HexSet)
  BY <1>7
<1>14. \A D \in Nat : m < 2^(4 * D) => Len(s) <= D
  BY <1>13
<1> QED BY <1>8, <1>9, <1>10, <1>11, <1>12, <1>14, Zenon DEF s, m

-----------------------------------------------------------------------------
\* Bodies: the decoder's place in the encoded body.

framing == v1
body == v2
bytes == v3
cutOff == v4
at == v5
step == v6
remain == v7
eofSeen == v8
out == v9
verdict == v10

Chars == HexSet \cup {"cr", "lf", "x"}

\* The digits of a size that are read; a body with a chunk of more is at least this long.
Digits == SizeChars - 2
Long == Len(body) >= Bodies!TooLong

\* The first c bytes of the body were handed out.
Out(c) == /\ c \in 0 .. Len(body) /\ out \in Seq(Chars) /\ Len(out) = c
          /\ \A x \in 1 .. c : out[x] = body[x]

\* As far as they arrived: the digits h, a line end, l bytes of the body behind the first g.
HexAt(p, h) == \A x \in 1 .. Len(h) : p + x <= Len(bytes) => bytes[p + x] = h[x]
CrlfAt(p) == (p + 1 <= Len(bytes) => bytes[p + 1] = "cr") /\ (p + 2 <= Len(bytes) => bytes[p + 2] = "lf")
BodyAt(p, g, l) == \A x \in 1 .. l : p + x <= Len(bytes) => bytes[p + x] = body[g + x]

\* The digits h of the number l.
Sized(h, l) == /\ Len(h) \in Nat /\ DOMAIN h = 1 .. Len(h) /\ h \in Seq(HexSet)
               /\ \A x \in 1 .. Len(h) : h[x] \in HexSet
               /\ Bodies!ToInteger(h) = l

\* A chunked body of n chunks, the last one empty: the length l[i] of chunk i, the digits h[i] it is written with,
\* where it ends in the encoding, e[i], and where in the body, g[i].
ChunkOK(i, n, l, h, e, g) ==
  /\ l[i] \in Nat /\ (l[i] = 0 <=> i = n)
  /\ Sized(h[i], l[i]) /\ Len(h[i]) # 0 /\ (Long \/ Len(h[i]) <= Digits)
  /\ e[i - 1] \in Nat /\ e[i] = e[i - 1] + Len(h[i]) + l[i] + 4 /\ e[i] <= e[n]
  /\ g[i - 1] \in Nat /\ g[i] = g[i - 1] + l[i] /\ g[i] <= Len(body)
  /\ HexAt(e[i - 1], h[i]) /\ CrlfAt(e[i - 1] + Len(h[i]))
  /\ BodyAt(e[i - 1] + Len(h[i]) + 2, g[i - 1], l[i]) /\ CrlfAt(e[i] - 2)

Chunks(n, l, h, e, g) ==
  /\ n \in Nat \ {0} /\ e[0] = 0 /\ g[0] = 0 /\ g[n] = Len(body)
  /\ Len(bytes) <= e[n] /\ (cutOff <=> Len(bytes) < e[n])
  /\ \A i \in 1 .. n : ChunkOK(i, n, l, h, e, g)

\* Where in chunk i the decoder is.
InSize(i, n, l, h, e, g) == step = "size" /\ at = e[i - 1] /\ Out(g[i - 1]) /\ remain = 0 /\ verdict # "end"
InChunk(i, n, l, h, e, g) ==
  /\ step = "chunk" /\ remain \in 0 .. l[i] /\ (remain = 0 => i = n)
  /\ at = e[i - 1] + Len(h[i]) + 2 + (l[i] - remain) /\ Out(g[i - 1] + (l[i] - remain)) /\ verdict # "end"
BeforeCr(i, n, l, h, e, g) ==
  step = "cr_after_chunk" /\ at = e[i] - 2 /\ Out(g[i]) /\ remain = 0 /\ (verdict = "end" <=> i = n)
BeforeLf(i, n, l, h, e, g) ==
  step = "lf_after_chunk" /\ at = e[i] - 1 /\ Out(g[i]) /\ remain = 0 /\ i # n /\ verdict # "end"

Decoding(n, l, h, e, g) ==
  /\ verdict = "failed" => cutOff \/ Long
  /\ \E i \in 1 .. n : \/ InSize(i, n, l, h, e, g) \/ InChunk(i, n, l, h, e, g)
                       \/ BeforeCr(i, n, l, h, e, g) \/ BeforeLf(i, n, l, h, e, g)

\* A body of announced length.
Limited ==
  /\ Len(bytes) <= Len(body) /\ (\A x \in 1 .. Len(bytes) : bytes[x] = body[x])
  /\ cutOff <=> Len(bytes) < Len(body)
  /\ remain = Len(body) - at /\ Out(at) /\ verdict # "failed"
  /\ verdict = "end" => at = Len(bytes)

\* A client's chunk: the size it announces is an eighth of the chunk's. Over is what was read of line ends and
\* sizes behind the first; a second chunk is read when five of it were, and ten of it are more than the encoding has.
ClientSize == Len(body) \div 8
Over(k) == at - k - 2 - Len(out)
Since == CASE step = "lf_after_chunk" -> 1 [] step = "size" -> 2 [] OTHER -> 0
ClientStart == step = "size" /\ at = 0 /\ out = <<>> /\ remain = 0 /\ verdict # "end"
FirstChunk == Len(out) + remain <= ClientSize
SecondChunk(k) == verdict # "end" /\ Over(k) >= 5 + Since /\ ~(step = "chunk" /\ remain = 0)
ClientLater(k) == Over(k) >= Since /\ (FirstChunk \/ SecondChunk(k) \/ Over(k) >= 10)
ClientBytes(h) ==
  /\ Sized(h, ClientSize) /\ (Len(h) = 0 <=> ClientSize = 0) /\ HexAt(0, h) /\ CrlfAt(Len(h))
  /\ Len(bytes) <= Len(h) + Len(body) + 9
ClientWrong == \E h : ClientBytes(h) /\ (ClientStart \/ ClientLater(Len(h)))

BodyTypes ==
  /\ framing \in {"length", "chunked", "client"} /\ body \in Seq(Chars) /\ bytes \in Seq(Chars) /\ cutOff \in BOOLEAN
  /\ at \in 0 .. Len(bytes) /\ remain \in Nat /\ eofSeen \in BOOLEAN /\ out \in Seq(Chars)
  /\ step \in {"size", "chunk", "cr_after_chunk", "lf_after_chunk"}
  /\ verdict \in {"reading", "end", "failed"} /\ Len(body) < 2^(Width - 1)

Wrong == framing = "client" /\ body # <<>>

BodyInv ==
  /\ BodyTypes
  /\ framing = "length" => Limited
  /\ framing # "length" /\ ~Wrong => \E n, l, h, e, g : Chunks(n, l, h, e, g) /\ Decoding(n, l, h, e, g)
  /\ Wrong => ClientWrong

-----------------------------------------------------------------------------
\* Bodies: the decoder's steps.

LEMMA CharsAre == HexSet \subseteq Chars /\ "cr" \notin HexSet /\ "lf" \notin HexSet /\ "0" \in HexSet
<1>1. "0" \in HexSet
  <2>1. Bodies!HexDigits[0 + 1] = "0"
    BY DEF Bodies!HexDigits
  <2> QED BY <2>1 DEF HexSet
<1>2. \A i \in 0 .. 15 : Bodies!HexDigits[i + 1] # "cr" /\ Bodies!HexDigits[i + 1] # "lf"
  BY HexDigitsAre
<1>3. "cr" \notin HexSet /\ "lf" \notin HexSet
  BY <1>2 DEF HexSet
<1> HIDE DEF HexSet
<1> QED BY <1>1, <1>3 DEF Chars

\* The body and what arrived of it.
LEMMA BodyIs ==
  ASSUME BodyTypes
  PROVE  /\ Len(body) \in Nat /\ Len(bytes) \in Nat /\ at \in 0 .. Len(bytes)
         /\ \A x \in 1 .. Len(body) : body[x] \in Chars
         /\ \A x \in 1 .. Len(bytes) : bytes[x] \in Chars
<1>1. body \in Seq(Chars) /\ bytes \in Seq(Chars) /\ at \in 0 .. Len(bytes)
  BY DEF BodyTypes
<1> QED BY <1>1, LenProperties, ElementOfSeq

LEMMA PlaceBetween ==
  ASSUME NEW p \in Nat, NEW n \in Nat, NEW y \in p + 1 .. p + n
  PROVE  y - p \in 1 .. n /\ y = p + (y - p)
OBVIOUS

\* n bytes of the chunk or body are handed out.
LEMMA OutMore ==
  ASSUME BodyTypes, NEW c \in Nat, Out(c), NEW p \in Nat, NEW n \in Nat,
         p + n <= Len(bytes), c + n <= Len(body),
         \A x \in 1 .. n : bytes[p + x] = body[c + x],
         out' = out \o SubSeq(bytes, p + 1, p + n), body' = body
  PROVE  Out(c + n)'
<1> DEFINE a == p + 1
           b == p + n
           u == SubSeq(bytes, a, b)
           w == out \o u
           l == Len(body)
<1>0. l \in Nat /\ \A x \in 1 .. l : body[x] \in Chars
  BY BodyIs
<1>1. a \in Int /\ b \in Int /\ a <= b + 1 /\ b - a + 1 = n /\ \A x \in 1 .. n : a + x - 1 = p + x
  OBVIOUS
<1>2. ASSUME NEW y \in a .. b PROVE bytes[y] \in Chars
  <2> DEFINE x == y - p
  <2>1. x \in 1 .. n /\ y = p + x
    BY PlaceBetween
  <2>0. c + x \in 1 .. l
    <3>1. l \in Nat /\ c + n <= l
      BY <1>0
    <3> HIDE DEF x, l
    <3> QED BY <2>1, <3>1
  <2> HIDE DEF x, l
  <2>2. bytes[y] = body[c + x]
    BY <2>1
  <2> QED BY <1>0, <2>0, <2>2
<1>3. u \in Seq(Chars) /\ Len(u) = n /\ \A x \in 1 .. n : u[x] = body[c + x]
  <2> HIDE DEF a, b
  <2>1. u \in Seq(Chars) /\ Len(u) = b - a + 1
    BY <1>1, <1>2, Taken
  <2>2. \A x \in 1 .. b - a + 1 : u[x] = bytes[a + x - 1]
    BY <1>1, <1>2, Taken
  <2> HIDE DEF u
  <2> QED BY <1>1, <2>1, <2>2
<1>4. out \in Seq(Chars) /\ Len(out) = c /\ \A x \in 1 .. c : out[x] = body[x]
  BY DEF Out
<1> HIDE DEF u
<1>10. out \in Seq(Chars) /\ u \in Seq(Chars)
  BY <1>3, <1>4
<1>11. /\ w \in Seq(Chars) /\ Len(w) = Len(out) + Len(u)
       /\ (\A x \in 1 .. Len(out) : w[x] = out[x]) /\ \A x \in 1 .. Len(u) : w[Len(out) + x] = u[x]
  <2> DEFINE o == out
             z == o \o u
  <2>1. o \in Seq(Chars) /\ u \in Seq(Chars)
    BY <1>10
  <2> HIDE DEF o
  <2>2. z \in Seq(Chars) /\ Len(z) = Len(o) + Len(u)
    BY <2>1, Behind
  <2>3. \A x \in 1 .. Len(o) : z[x] = o[x]
    BY <2>1, Behind
  <2>4. \A x \in 1 .. Len(u) : z[Len(o) + x] = u[x]
    BY <2>1, Behind
  <2> HIDE DEF z
  <2>5. w = z
    BY DEF z, o
  <2> HIDE DEF w
  <2> QED BY <2>2, <2>3, <2>4, <2>5 DEF o
<1>12. Len(out) = c /\ Len(u) = n
  BY <1>3, <1>4
<1>5. w \in Seq(Chars) /\ Len(w) = c + n
  BY <1>11, <1>12
<1>6. \A x \in 1 .. c : w[x] = out[x]
  BY <1>11, <1>12
<1>7. \A x \in 1 .. n : w[c + x] = u[x]
  BY <1>11, <1>12
<1> HIDE DEF w
<1>8. ASSUME NEW y \in 1 .. c + n PROVE w[y] = body[y]
  <2>1. CASE y \in 1 .. c
    BY <1>4, <1>6, <2>1
  <2>2. CASE y \notin 1 .. c
    <3> DEFINE x == y - c
    <3>1. x \in 1 .. n /\ c + x = y
      BY <2>2
    <3> HIDE DEF x
    <3> QED BY <1>3, <1>7, <3>1
  <2> QED BY <2>1, <2>2
<1>9. out' = w /\ c + n \in 0 .. Len(body)
  BY <1>0 DEF u, w
<1> QED BY <1>5, <1>8, <1>9 DEF Out

-----------------------------------------------------------------------------
\* Bodies: the line with the size.

\* How much of it is read.
LEMMA DigitsRead == SizeChars \in Nat /\ Digits \in Nat /\ Digits >= 1 /\ SizeChars = Digits + 2
BY MessageAssumption DEF Bodies!BodyAssumption, Digits

\* Its characters.
LEMMA SizeLineIs ==
  ASSUME BodyTypes
  PROVE  LET s == Bodies!SizeLine
             n == IF at + SizeChars < Len(bytes) THEN SizeChars ELSE Len(bytes) - at
         IN /\ s \in Seq(Chars) /\ Len(s) = n /\ n \in 0 .. SizeChars /\ at + n <= Len(bytes)
            /\ \A x \in 1 .. n : s[x] = bytes[at + x]
<1> DEFINE s == Bodies!SizeLine
           n == IF at + SizeChars < Len(bytes) THEN SizeChars ELSE Len(bytes) - at
           a == at + 1
           b == Bodies!Upto(at + SizeChars, Len(bytes))
           l == Len(bytes)
<1>1. l \in Nat /\ at \in 0 .. l /\ \A x \in 1 .. l : bytes[x] \in Chars
  BY BodyIs
<1>2. b = (IF at + SizeChars < l THEN at + SizeChars ELSE l)
  BY DEF Bodies!Upto
<1>3. n \in 0 .. SizeChars /\ at + n <= l /\ b = at + n
  BY <1>1, <1>2, DigitsRead
<1>4. a \in Int /\ b \in Int /\ a <= b + 1 /\ b - a + 1 = n /\ (\A x \in a .. b : x \in 1 .. l)
      /\ \A x \in 1 .. n : a + x - 1 = at + x
  BY <1>1, <1>3
<1>5. s = SubSeq(bytes, a, b)
  BY DEF Bodies!SizeLine, bytes, at
<1> HIDE DEF a, b, n, l, s
<1>6. \A x \in a .. b : bytes[x] \in Chars
  BY <1>1, <1>4
<1>7. s \in Seq(Chars) /\ Len(s) = b - a + 1
  BY <1>4, <1>5, <1>6, Taken
<1>8. \A x \in 1 .. b - a + 1 : s[x] = bytes[a + x - 1]
  BY <1>4, <1>5, <1>6, Taken
<1>9. s \in Seq(Chars) /\ Len(s) = n /\ n \in 0 .. SizeChars /\ at + n <= l
  BY <1>3, <1>4, <1>7
<1>10. \A x \in 1 .. n : s[x] = bytes[at + x]
  BY <1>4, <1>8
<1> QED BY <1>9, <1>10 DEF s, n, l

\* A line end.
LEMMA LineEndIs ==
  ASSUME BodyTypes, NEW x \in 1 .. Len(Bodies!SizeLine) - 1
  PROVE  x \in Bodies!LineEnds <=> Bodies!SizeLine[x] = "cr" /\ Bodies!SizeLine[x + 1] = "lf"
<1> DEFINE s == Bodies!SizeLine
           l == Len(s)
           u == SubSeq(s, x, x + 1)
<1>1. s \in Seq(Chars) /\ l \in Nat
  BY SizeLineIs
<1> HIDE DEF s
<1>2. u = <<s[x], s[x + 1]>>
  <2>1. x \in 1 .. l /\ x + 1 \in 1 .. l
    BY <1>1 DEF s
  <2>2. \A y \in x .. x + 1 : s[y] \in Chars
    <3>1. \A y \in x .. x + 1 : y \in 1 .. l
      BY <1>1, <2>1
    <3> QED BY <1>1, <3>1, ElementOfSeq
  <2> DEFINE b == x + 1
  <2>3. x \in Int /\ b \in Int /\ x <= b + 1 /\ b - x + 1 = 2 /\ x + 1 - 1 = x /\ x + 2 - 1 = b
    BY <2>1
  <2> HIDE DEF b, l
  <2>4. SubSeq(s, x, b) \in Seq(Chars) /\ Len(SubSeq(s, x, b)) = b - x + 1
    BY <2>2, <2>3, Taken DEF b
  <2>5. \A y \in 1 .. b - x + 1 : SubSeq(s, x, b)[y] = s[x + y - 1]
    BY <2>2, <2>3, Taken DEF b
  <2> DEFINE w == SubSeq(s, x, b)
  <2>6. w \in Seq(Chars) /\ Len(w) = 2
    BY <2>3, <2>4
  <2>7. w[1] = s[x] /\ w[2] = s[b]
    BY <2>3, <2>5
  <2> HIDE DEF w
  <2>8. w = <<w[1], w[2]>>
    BY <2>6
  <2> QED BY <2>7, <2>8 DEF w, b
<1>3. x \in Bodies!LineEnds <=> u = <<"cr", "lf">>
  BY DEF Bodies!LineEnds, Bodies!Crlf, s
<1> HIDE DEF u
<1> QED BY <1>2, <1>3 DEF s

\* The size is there as it was written, with its line end; or the line is not all there, or too long.
LEMMA LineIs ==
  ASSUME BodyTypes, NEW h, NEW m, Sized(h, m), HexAt(at, h), CrlfAt(at + Len(h))
  PROVE  LET ends == Bodies!LineEnds
             n == CHOOSE x \in ends : \A y \in ends : x <= y
         IN IF at + Len(h) + 2 <= Len(bytes) /\ Len(h) <= Digits
            THEN ends # {} /\ n = Len(h) + 1 /\ SubSeq(Bodies!SizeLine, 1, n - 1) = h
            ELSE ends = {}
<1> DEFINE s == Bodies!SizeLine
           ends == Bodies!LineEnds
           n == CHOOSE x \in ends : \A y \in ends : x <= y
           k == Len(h)
           l == Len(bytes)
           t == IF at + SizeChars < l THEN SizeChars ELSE l - at
<1>1. /\ s \in Seq(Chars) /\ Len(s) = t /\ t \in 0 .. SizeChars /\ at + t <= l
      /\ \A x \in 1 .. t : s[x] = bytes[at + x]
  BY SizeLineIs
<1>2. /\ k \in Nat /\ h \in Seq(HexSet) /\ \A x \in 1 .. k : h[x] \in HexSet
  BY DEF Sized
<1>3. l \in Nat /\ at \in 0 .. l
  BY BodyIs
<1>4. ends \subseteq 1 .. t - 1
  BY <1>1 DEF Bodies!LineEnds
<1> HIDE DEF s, ends, t, l, k
<1>5. \A x \in 1 .. k : at + x <= l => bytes[at + x] = h[x]
  BY DEF HexAt, k, l
<1>6. \A x \in 1 .. k : x <= t => s[x] # "cr"
  <2> SUFFICES ASSUME NEW x \in 1 .. k, x <= t PROVE s[x] # "cr"
    OBVIOUS
  <2>1. x \in 1 .. t /\ at + x <= l
    BY <1>1, <1>2, <1>3
  <2>2. s[x] = h[x] /\ h[x] \in HexSet
    BY <1>1, <1>2, <1>5, <2>1
  <2> QED BY <2>2, CharsAre
<1>7. \A x \in 1 .. t - 1 : x \in ends <=> s[x] = "cr" /\ s[x + 1] = "lf"
  BY <1>1, LineEndIs DEF s, ends
<1>8. \A x \in ends : x > k
  <2> SUFFICES ASSUME NEW x \in ends, ~(x > k) PROVE FALSE
    OBVIOUS
  <2>1. x \in 1 .. t - 1 /\ s[x] = "cr"
    BY <1>4, <1>7
  <2>2. x \in 1 .. k /\ x <= t
    BY <1>1, <1>2, <2>1
  <2> QED BY <1>6, <2>1, <2>2
<1>9. CASE at + k + 2 <= l /\ k <= Digits
  <2> DEFINE j == k + 1
  <2>1. j \in 1 .. t - 1 /\ j + 1 \in 1 .. t /\ j \in 1 .. t /\ j - 1 = k /\ at + j = at + k + 1 /\ at + (j + 1) = at + k + 2
    BY <1>2, <1>3, <1>9, DigitsRead DEF t
  <2> HIDE DEF j
  <2>2. bytes[at + k + 1] = "cr" /\ bytes[at + k + 2] = "lf"
    <3>1. at + k + 1 <= l
      BY <1>2, <1>3, <1>9
    <3> QED BY <1>9, <3>1 DEF CrlfAt, k, l
  <2>3. s[j] = "cr" /\ s[j + 1] = "lf"
    BY <1>1, <2>1, <2>2
  <2>4. j \in ends
    BY <1>7, <2>1, <2>3
  <2>5. \A y \in ends : j <= y /\ y \in Nat
    BY <1>2, <1>4, <1>8 DEF j
  <2>6. n = j
    <3>1. n \in ends /\ \A y \in ends : n <= y
      BY <2>4, <2>5
    <3> HIDE DEF n
    <3>2. n <= j /\ j <= n /\ n \in Nat /\ j \in Nat
      BY <2>1, <2>4, <2>5, <3>1
    <3> QED BY <3>2
  <2>7. SubSeq(s, 1, k) = h
    <3> DEFINE u == SubSeq(s, 1, k)
    <3>1. \A x \in 1 .. k : s[x] = h[x] /\ s[x] \in HexSet
      <4> SUFFICES ASSUME NEW x \in 1 .. k PROVE s[x] = h[x] /\ s[x] \in HexSet
        OBVIOUS
      <4>1. x \in 1 .. t /\ at + x <= l
        <5>1. x \in 1 .. t
          BY <1>2, <1>3, <1>9, DigitsRead DEF t
        <5>2. at + x <= l
          BY <1>2, <1>3, <1>9
        <5> QED BY <5>1, <5>2
      <4> QED BY <1>1, <1>2, <1>5, <4>1
    <3>2. 1 \in Int /\ k \in Int /\ 1 <= k + 1 /\ k - 1 + 1 = k /\ \A x \in 1 .. k : 1 + x - 1 = x
      BY <1>2
    <3>3. u \in Seq(HexSet) /\ Len(u) = k - 1 + 1
      BY <3>1, <3>2, Taken
    <3>4. \A x \in 1 .. k - 1 + 1 : u[x] = s[1 + x - 1]
      BY <3>1, <3>2, Taken
    <3> HIDE DEF u
    <3>5. \A x \in 1 .. k : u[x] = h[x]
      BY <3>1, <3>2, <3>4
    <3>6. Len(u) = Len(h) /\ Len(u) = k
      BY <3>2, <3>3 DEF k
    <3>7. u = h
      BY <1>2, <3>3, <3>5, <3>6, SeqEqual
    <3> QED BY <3>7 DEF u
  <2> HIDE DEF n
  <2> QED BY <1>9, <2>1, <2>4, <2>6, <2>7 DEF s, ends, n, k, l, j
<1>10. CASE ~(at + k + 2 <= l /\ k <= Digits)
  <2>1. t <= k + 1
    BY <1>1, <1>2, <1>3, <1>10, DigitsRead
  <2>2. ends = {}
    <3> SUFFICES ASSUME NEW x \in ends PROVE FALSE
      OBVIOUS
    <3>1. x \in 1 .. t - 1 /\ x > k
      BY <1>4, <1>8
    <3> QED BY <1>1, <1>2, <2>1, <3>1
  <2> QED BY <1>10, <2>2 DEF ends, k, l
<1> QED BY <1>9, <1>10 DEF s, ends, n, k, l

\* What digits amount to is a number, and nothing when they are zeros.
LEMMA HexNumber ==
  ASSUME NEW s, Len(s) \in Nat, \A i \in 1 .. Len(s) : s[i] \in HexSet
  PROVE  /\ Bodies!ToInteger(s) \in Nat
         /\ (\A i \in 1 .. Len(s) : s[i] = "0") => Bodies!ToInteger(s) = 0
<1> DEFINE n == Len(s)
<1>1. \A c \in HexSet : Bodies!Value(c) \in Nat /\ (c = "0" => Bodies!Value(c) = 0)
  <2> SUFFICES ASSUME NEW c \in HexSet PROVE Bodies!Value(c) \in Nat /\ (c = "0" => Bodies!Value(c) = 0)
    OBVIOUS
  <2>1. PICK i \in 0 .. 15 : c = Bodies!HexDigits[i + 1]
    BY DEF HexSet
  <2>2. Bodies!Value(c) = i /\ (c = "0" <=> i = 0)
    BY <2>1, HexDigitsAre, Zenon
  <2> QED BY <2>2
<1>2. \A i \in 1 .. n : Bodies!Value(s[i]) \in Nat /\ (s[i] = "0" => Bodies!Value(s[i]) = 0)
  BY <1>1
<1>3. PICK value : /\ Bodies!ToInteger(s) = value[n] /\ value[0] = 0
                   /\ \A i \in 1 .. n : value[i] = 16 * value[i - 1] + Bodies!Value(s[i])
  BY <1>2, ToIntegerSteps
<1> DEFINE P(i) == value[i] \in Nat /\ ((\A x \in 1 .. n : s[x] = "0") => value[i] = 0)
           S == {i \in 0 .. n : P(i)}
<1>4. 0 \in S
  BY <1>3
<1>5. ASSUME NEW i \in 0 .. n - 1, i \in S PROVE i + 1 \in S
  <2> DEFINE j == i + 1
  <2>1. j \in 1 .. n /\ j \in 0 .. n /\ j - 1 = i
    OBVIOUS
  <2> HIDE DEF j
  <2>2. value[j] = 16 * value[i] + Bodies!Value(s[j])
    BY <1>3, <2>1
  <2>3. value[i] \in Nat /\ ((\A x \in 1 .. n : s[x] = "0") => value[i] = 0)
    BY <1>5
  <2>4. Bodies!Value(s[j]) \in Nat /\ (s[j] = "0" => Bodies!Value(s[j]) = 0)
    BY <1>2, <2>1
  <2>5. value[j] \in Nat
    <3> DEFINE a == value[i]
               c == Bodies!Value(s[j])
    <3>1. a \in Nat /\ c \in Nat /\ value[j] = 16 * a + c
      BY <2>2, <2>3, <2>4
    <3> HIDE DEF a, c
    <3> QED BY <3>1
  <2>6. ASSUME \A x \in 1 .. n : s[x] = "0" PROVE value[j] = 0
    <3>1. value[i] = 0 /\ Bodies!Value(s[j]) = 0
      BY <2>1, <2>3, <2>4, <2>6
    <3> QED BY <2>2, <3>1
  <2> QED BY <2>1, <2>5, <2>6 DEF j
<1>6. \A i \in 0 .. n : i \in S
  <2> HIDE DEF S
  <2> QED BY <1>4, <1>5, InductUpTo
<1>7. n \in 0 .. n
  OBVIOUS
<1> QED BY <1>3, <1>6, <1>7

\* The first line end, and the characters before it.
LineEnd == CHOOSE x \in Bodies!LineEnds : \A y \in Bodies!LineEnds : x <= y
SizeDigits == SubSeq(Bodies!SizeLine, 1, LineEnd - 1)

LEMMA SizeDigitsAre ==
  ASSUME BodyTypes, Bodies!LineEnds # {}
  PROVE  /\ LineEnd \in Nat \ {0} /\ at + LineEnd + 1 <= Len(bytes)
         /\ Len(SizeDigits) = LineEnd - 1 /\ DOMAIN SizeDigits = 1 .. LineEnd - 1
         /\ \A x \in 1 .. LineEnd - 1 : SizeDigits[x] = bytes[at + x] /\ at + x \in 1 .. Len(bytes)
         /\ SizeDigits \in Seq(Chars)
<1> DEFINE s == Bodies!SizeLine
           ends == Bodies!LineEnds
           l == Len(bytes)
           t == IF at + SizeChars < l THEN SizeChars ELSE l - at
           n == LineEnd
           d == SizeDigits
<1>1. /\ s \in Seq(Chars) /\ Len(s) = t /\ t \in 0 .. SizeChars /\ at + t <= l
      /\ \A x \in 1 .. t : s[x] = bytes[at + x]
  BY SizeLineIs
<1>2. ends \subseteq 1 .. t - 1
  BY <1>1 DEF Bodies!LineEnds
<1>3. l \in Nat /\ at \in 0 .. l
  BY BodyIs
<1> HIDE DEF s, t, l
<1>4. n \in 1 .. t - 1
  <2>1. ends \subseteq Nat
    BY <1>1, <1>2, DigitsRead
  <2>2. PICK x \in ends : \A y \in ends : x <= y
    <3> HIDE DEF ends
    <3>1. ends # {}
      BY DEF ends
    <3> QED BY <2>1, <3>1, LeastNumber
  <2> QED BY <1>2, <2>2 DEF LineEnd
<1> HIDE DEF ends, n
<1>5. n \in Nat \ {0} /\ at + n + 1 <= l /\ \A x \in 1 .. n - 1 : x \in 1 .. t /\ at + x \in 1 .. l
  BY <1>1, <1>3, <1>4, DigitsRead
<1> DEFINE b == n - 1
<1>6. d = SubSeq(s, 1, b)
  BY DEF SizeDigits, n, s
<1>7. 1 \in Int /\ b \in Int /\ 1 <= b + 1 /\ b - 1 + 1 = b /\ \A x \in 1 .. b : 1 + x - 1 = x
  BY <1>5
<1> HIDE DEF d
<1>8. \A x \in 1 .. b : s[x] = bytes[at + x] /\ s[x] \in Chars
  <2>1. \A x \in 1 .. l : bytes[x] \in Chars
    BY BodyIs DEF l
  <2> QED BY <1>1, <1>5, <2>1
<1> HIDE DEF b
<1>9. d \in Seq(Chars) /\ Len(d) = b - 1 + 1
  BY <1>6, <1>7, <1>8, Taken
<1>10. \A x \in 1 .. b - 1 + 1 : d[x] = s[1 + x - 1]
  BY <1>6, <1>7, <1>8, Taken
<1>11. \A x \in 1 .. b : d[x] = bytes[at + x]
  BY <1>7, <1>8, <1>10
<1>12. Len(d) = b /\ DOMAIN d = 1 .. b
  BY <1>7, <1>9
<1>13. d \in Seq(Chars)
  BY <1>9
<1> QED BY <1>5, <1>11, <1>12, <1>13 DEF b, d, n, l

-----------------------------------------------------------------------------
\* Bodies: the steps.

Same == framing' = framing /\ body' = body /\ bytes' = bytes /\ cutOff' = cutOff
Failing == verdict' = "failed" /\ at' = at /\ step' = step /\ remain' = remain /\ eofSeen' = eofSeen /\ out' = out

\* chunked_decoder looks for one character.
Looks(from, char, to) ==
  /\ framing # "length" /\ step = from
  /\ \/ (at = Len(bytes) \/ bytes[at + 1] # char) /\ Failing
     \/ /\ at # Len(bytes) /\ bytes[at + 1] = char /\ at' = at + 1 /\ step' = to
        /\ remain' = remain /\ eofSeen' = eofSeen /\ out' = out /\ verdict' = verdict

\* It reads a size.
Sizes ==
  /\ framing # "length" /\ step = "size"
  /\ \/ (Bodies!LineEnds = {} \/ ~Bodies!IsHex(SizeDigits)) /\ Failing
     \/ /\ Bodies!LineEnds # {} /\ Bodies!IsHex(SizeDigits) /\ at' = at + LineEnd + 1 /\ step' = "chunk"
        /\ remain' = Bodies!ToInteger(SizeDigits) /\ eofSeen' \in BOOLEAN /\ out' = out /\ verdict' = verdict

\* n bytes are handed out.
Hands(n) ==
  /\ n \in Nat /\ n <= remain /\ at + n <= Len(bytes) /\ (n = 0 => remain = 0 \/ at = Len(bytes))
  /\ at' = at + n /\ remain' = remain - n /\ out' = out \o SubSeq(bytes, at + 1, at + n)
  /\ eofSeen' = eofSeen /\ verdict' = IF n = 0 THEN "end" ELSE verdict

Reads ==
  /\ framing # "length" /\ step = "chunk"
  /\ \/ remain > 0 /\ at = Len(bytes) /\ Failing
     \/ /\ ~(remain > 0 /\ at = Len(bytes))
        /\ \E n : Hands(n) /\ step' = IF remain - n = 0 THEN "cr_after_chunk" ELSE "chunk"

Limits == framing = "length" /\ step' = step /\ \E n : Hands(n)

BodyStep == /\ Same /\ verdict = "reading"
            /\ \/ Looks("cr_after_chunk", "cr", "lf_after_chunk") \/ Looks("lf_after_chunk", "lf", "size")
               \/ Sizes \/ Reads \/ Limits

\* How much the reader gets.
LEMMA AmountIs ==
  ASSUME BodyTypes, NEW b \in Nat \ {0}
  PROVE  LET n == Bodies!Amount(b)
         IN n \in Nat /\ n <= remain /\ at + n <= Len(bytes) /\ (n = 0 => remain = 0 \/ at = Len(bytes))
<1>1. Len(bytes) \in Nat /\ at \in 0 .. Len(bytes)
  BY BodyIs
<1>2. remain \in Nat
  BY DEF BodyTypes
<1> DEFINE l == Len(bytes)
           u == Bodies!Upto(remain, b)
           n == Bodies!Amount(b)
<1>3. u \in Nat /\ u <= remain /\ (u = 0 => remain = 0)
  BY <1>2 DEF Bodies!Upto
<1>4. n = (IF u < l - at THEN u ELSE l - at)
  BY DEF Bodies!Amount, Bodies!Upto, Bodies!Available, remain, at, bytes
<1> HIDE DEF l, u, n
<1>5. l \in Nat /\ at \in 0 .. l
  BY <1>1 DEF l
<1>6. n \in Nat /\ n <= remain /\ at + n <= l /\ (n = 0 => remain = 0 \/ at = l)
  BY <1>2, <1>3, <1>4, <1>5
<1> QED BY <1>6 DEF n, l

LEMMA BodySteps == ASSUME BodyTypes, Bodies!Next PROVE BodyStep
<1>1. Len(bytes) \in Nat /\ at \in 0 .. Len(bytes) /\ (Bodies!Available = 0 <=> at = Len(bytes))
  <2>1. Len(bytes) \in Nat /\ at \in 0 .. Len(bytes)
    BY BodyIs
  <2> QED BY <2>1 DEF Bodies!Available, bytes, at
<1>2. ASSUME NEW from, NEW char, NEW to, Bodies!AfterChunk(from, char, to)
      PROVE  Same /\ verdict = "reading" /\ Looks(from, char, to)
  BY <1>1, <1>2, Zenon DEF Bodies!AfterChunk, Bodies!Reading, Bodies!Fail, Bodies!FrameKept, Same, Looks, Failing,
     framing, body, bytes, cutOff, at, step, remain, eofSeen, out, verdict
<1>3. ASSUME Bodies!Size PROVE Same /\ verdict = "reading" /\ Sizes
  <2>1. Same /\ verdict = "reading" /\ framing # "length" /\ step = "size"
    BY <1>3 DEF Bodies!Size, Bodies!Reading, Bodies!FrameKept, Same, framing, body, bytes, cutOff, step, verdict
  <2>2. CASE Bodies!LineEnds = {} \/ ~Bodies!IsHex(SizeDigits)
    <3>1. Failing
      BY <1>3, <2>2, Zenon DEF Bodies!Size, SizeDigits, LineEnd, Bodies!Fail, Failing, at, step, remain, eofSeen, out, verdict
    <3> QED BY <2>1, <2>2, <3>1 DEF Sizes
  <2>3. CASE ~(Bodies!LineEnds = {} \/ ~Bodies!IsHex(SizeDigits))
    <3>1. /\ at' = at + LineEnd + 1 /\ step' = "chunk"
          /\ remain' = Bodies!ToInteger(SizeDigits) /\ eofSeen' = (Bodies!ToInteger(SizeDigits) = 0)
          /\ out' = out /\ verdict' = verdict
      BY <1>3, <2>3, Zenon DEF Bodies!Size, SizeDigits, LineEnd, at, step, remain, eofSeen, out, verdict
    <3> QED BY <2>1, <2>3, <3>1 DEF Sizes
  <2> QED BY <2>2, <2>3
<1>4. ASSUME NEW b \in Buffers, Bodies!ReadChunk(b) PROVE Same /\ verdict = "reading" /\ Reads
  <2> DEFINE n == Bodies!Amount(b)
  <2>1. b \in Nat \ {0}
    BY MessageAssumption DEF Bodies!BodyAssumption
  <2>2. n \in Nat /\ n <= remain /\ at + n <= Len(bytes) /\ (n = 0 => remain = 0 \/ at = Len(bytes))
    BY <2>1, AmountIs
  <2>3. Same /\ verdict = "reading" /\ framing # "length" /\ step = "chunk"
    BY <1>4 DEF Bodies!ReadChunk, Bodies!Reading, Bodies!FrameKept, Same, framing, body, bytes, cutOff, step, verdict
  <2>4. CASE remain > 0 /\ at = Len(bytes)
    <3>1. Failing
      BY <1>1, <1>4, <2>4 DEF Bodies!ReadChunk, Bodies!Fail, Failing, at, step, remain, eofSeen, out, verdict
    <3> QED BY <2>3, <2>4, <3>1 DEF Reads
  <2>5. CASE ~(remain > 0 /\ at = Len(bytes))
    <3>1. /\ at' = at + n /\ remain' = remain - n /\ step' = Bodies!NextState(remain - n)
          /\ out' = out \o SubSeq(bytes, at + 1, at + n)
          /\ verdict' = (IF n = 0 THEN "end" ELSE verdict) /\ eofSeen' = eofSeen
      BY <1>1, <1>4, <2>5 DEF Bodies!ReadChunk, at, step, remain, eofSeen, out, verdict, bytes
    <3> HIDE DEF n
    <3>2. Hands(n)
      BY <2>2, <3>1 DEF Hands
    <3>3. step' = IF remain - n = 0 THEN "cr_after_chunk" ELSE "chunk"
      BY <3>1 DEF Bodies!NextState
    <3> QED BY <2>3, <2>5, <3>2, <3>3 DEF Reads
  <2> QED BY <2>4, <2>5
<1>5. ASSUME NEW b \in Buffers, Bodies!ReadLength(b) PROVE Same /\ verdict = "reading" /\ Limits
  <2> DEFINE n == Bodies!Amount(b)
  <2>1. b \in Nat \ {0}
    BY MessageAssumption DEF Bodies!BodyAssumption
  <2>2. n \in Nat /\ n <= remain /\ at + n <= Len(bytes) /\ (n = 0 => remain = 0 \/ at = Len(bytes))
    BY <2>1, AmountIs
  <2>3. Same /\ verdict = "reading" /\ framing = "length"
    BY <1>5 DEF Bodies!ReadLength, Bodies!Reading, Bodies!FrameKept, Same, framing, body, bytes, cutOff, verdict
  <2>4. /\ at' = at + n /\ remain' = remain - n /\ step' = step
        /\ out' = out \o SubSeq(bytes, at + 1, at + n)
        /\ verdict' = (IF n = 0 THEN "end" ELSE verdict) /\ eofSeen' = eofSeen
    BY <1>5 DEF Bodies!ReadLength, Bodies!LengthLeft, at, step, remain, eofSeen, out, verdict, bytes
  <2> HIDE DEF n
  <2>5. Hands(n)
    BY <2>2, <2>4 DEF Hands
  <2> QED BY <2>3, <2>4, <2>5 DEF Limits
<1> QED BY <1>2, <1>3, <1>4, <1>5 DEF Bodies!Next, BodyStep

LEMMA BodyTyped == ASSUME BodyTypes, BodyStep PROVE BodyTypes'
<1>1. Len(bytes) \in Nat /\ at \in 0 .. Len(bytes) /\ \A x \in 1 .. Len(bytes) : bytes[x] \in Chars
  BY BodyIs
<1>2. /\ framing \in {"length", "chunked", "client"} /\ body \in Seq(Chars) /\ bytes \in Seq(Chars) /\ cutOff \in BOOLEAN
      /\ remain \in Nat /\ eofSeen \in BOOLEAN /\ out \in Seq(Chars)
      /\ step \in {"size", "chunk", "cr_after_chunk", "lf_after_chunk"} /\ verdict = "reading"
      /\ Len(body) < 2^(Width - 1)
  BY DEF BodyTypes, BodyStep
<1>3. /\ framing' \in {"length", "chunked", "client"} /\ body' \in Seq(Chars) /\ bytes' \in Seq(Chars) /\ cutOff' \in BOOLEAN
      /\ (Len(body) < 2^(Width - 1))' /\ Len(bytes)' = Len(bytes)
  BY <1>2 DEF BodyStep, Same
<1> DEFINE Typed == /\ at' \in 0 .. Len(bytes) /\ remain' \in Nat /\ eofSeen' \in BOOLEAN /\ out' \in Seq(Chars)
                    /\ step' \in {"size", "chunk", "cr_after_chunk", "lf_after_chunk"}
                    /\ verdict' \in {"reading", "end", "failed"}
<1>4. SUFFICES Typed
  BY <1>3 DEF BodyTypes
<1>5. ASSUME Failing PROVE Typed
  BY <1>1, <1>2, <1>5 DEF Failing
<1>6. ASSUME NEW from, NEW char, NEW to \in {"lf_after_chunk", "size"}, Looks(from, char, to) PROVE Typed
  <2>1. CASE Failing
    BY <1>5, <2>1
  <2>2. CASE ~Failing
    <3>1. at # Len(bytes) /\ at' = at + 1 /\ step' = to /\ remain' = remain /\ eofSeen' = eofSeen /\ out' = out /\ verdict' = verdict
      BY <1>6, <2>2 DEF Looks
    <3>2. at' \in 0 .. Len(bytes)
      BY <1>1, <3>1
    <3> QED BY <1>2, <3>1, <3>2
  <2> QED BY <2>1, <2>2
<1>7. ASSUME Sizes PROVE Typed
  <2>1. CASE Failing
    BY <1>5, <2>1
  <2>2. CASE ~Failing
    <3>1. Bodies!LineEnds # {} /\ Bodies!IsHex(SizeDigits) /\ at' = at + LineEnd + 1 /\ step' = "chunk"
          /\ remain' = Bodies!ToInteger(SizeDigits) /\ eofSeen' \in BOOLEAN /\ out' = out /\ verdict' = verdict
      BY <1>7, <2>2 DEF Sizes
    <3>2. LineEnd \in Nat \ {0} /\ at + LineEnd + 1 <= Len(bytes)
          /\ Len(SizeDigits) = LineEnd - 1 /\ DOMAIN SizeDigits = 1 .. LineEnd - 1
      BY <3>1, SizeDigitsAre
    <3>3. at' \in 0 .. Len(bytes)
      BY <1>1, <3>1, <3>2
    <3>4. remain' \in Nat
      <4>1. \A x \in 1 .. LineEnd - 1 : SizeDigits[x] \in HexSet
        BY <3>1, <3>2, HexDigitsAre DEF Bodies!IsHex
      <4>2. Bodies!ToInteger(SizeDigits) \in Nat
        BY <3>2, <4>1, HexNumber
      <4> QED BY <3>1, <4>2
    <3> QED BY <1>2, <3>1, <3>3, <3>4
  <2> QED BY <2>1, <2>2
<1>8. ASSUME NEW n, Hands(n)
      PROVE  /\ at' \in 0 .. Len(bytes) /\ remain' \in Nat /\ eofSeen' \in BOOLEAN /\ out' \in Seq(Chars)
             /\ verdict' \in {"reading", "end", "failed"}
  <2>1. /\ n \in Nat /\ n <= remain /\ at + n <= Len(bytes) /\ at' = at + n /\ remain' = remain - n
        /\ eofSeen' = eofSeen /\ verdict' = IF n = 0 THEN "end" ELSE verdict
    BY <1>8 DEF Hands
  <2> DEFINE u == SubSeq(bytes, at + 1, at + n)
  <2>2. out' = out \o u
    BY <1>8 DEF Hands
  <2>3. u \in Seq(Chars)
    <3> DEFINE a == at + 1
               b == at + n
    <3>1. a \in Int /\ b \in Int /\ a <= b + 1 /\ \A x \in a .. b : x \in 1 .. Len(bytes)
      BY <1>1, <2>1
    <3> HIDE DEF a, b
    <3>2. \A x \in a .. b : bytes[x] \in Chars
      BY <1>1, <3>1
    <3>3. SubSeq(bytes, a, b) \in Seq(Chars)
      BY <3>1, <3>2, Taken
    <3> QED BY <3>3 DEF a, b
  <2> HIDE DEF u
  <2>4. out' \in Seq(Chars)
    BY <1>2, <2>2, <2>3, Behind
  <2>5. at' \in 0 .. Len(bytes) /\ remain' \in Nat
    BY <1>1, <1>2, <2>1
  <2>6. eofSeen' \in BOOLEAN /\ verdict' \in {"reading", "end", "failed"}
    BY <1>2, <2>1
  <2> QED BY <2>4, <2>5, <2>6
<1>9. ASSUME Reads PROVE Typed
  <2>1. CASE Failing
    BY <1>5, <2>1
  <2>2. CASE ~Failing
    <3>1. PICK n : Hands(n) /\ step' = IF remain - n = 0 THEN "cr_after_chunk" ELSE "chunk"
      BY <1>9, <2>2 DEF Reads
    <3>2. step' \in {"size", "chunk", "cr_after_chunk", "lf_after_chunk"}
      BY <3>1
    <3> QED BY <1>8, <3>1, <3>2
  <2> QED BY <2>1, <2>2
<1>10. ASSUME Limits PROVE Typed
  <2>1. PICK n : Hands(n)
    BY <1>10 DEF Limits
  <2>2. step' = step
    BY <1>10 DEF Limits
  <2> QED BY <1>2, <1>8, <2>1, <2>2
<1> QED BY <1>6, <1>7, <1>9, <1>10 DEF BodyStep

\* The chunks stay where they are.
LEMMA ChunksStay ==
  ASSUME Same, NEW n, NEW l, NEW h, NEW e, NEW g, Chunks(n, l, h, e, g)
  PROVE  Chunks(n, l, h, e, g)'
<1>1. \A i \in 1 .. n : ChunkOK(i, n, l, h, e, g)'
  BY DEF Same, Chunks, ChunkOK, HexAt, CrlfAt, BodyAt, Long
<1> QED BY <1>1 DEF Same, Chunks

\* Nothing of the body is handed out.
LEMMA OutStays == ASSUME Same, out' = out, NEW c, Out(c) PROVE Out(c)'
BY DEF Same, Out

LEMMA FailingKeeps ==
  ASSUME Same, Failing, cutOff \/ Long, verdict = "reading", NEW n, NEW l, NEW h, NEW e, NEW g,
         NEW i \in 1 .. n, n \in Nat, ~(i = n /\ step = "cr_after_chunk"),
         InSize(i, n, l, h, e, g) \/ InChunk(i, n, l, h, e, g) \/ BeforeCr(i, n, l, h, e, g) \/ BeforeLf(i, n, l, h, e, g)
  PROVE  Decoding(n, l, h, e, g)'
<1>1. at' = at /\ step' = step /\ remain' = remain /\ out' = out /\ verdict' = "failed" /\ (cutOff \/ Long)'
  BY DEF Same, Failing, Long
<1>2. CASE InSize(i, n, l, h, e, g)
  <2>1. InSize(i, n, l, h, e, g)'
    BY <1>1, <1>2, OutStays DEF InSize
  <2> QED BY <1>1, <2>1 DEF Decoding
<1>3. CASE InChunk(i, n, l, h, e, g)
  <2>1. InChunk(i, n, l, h, e, g)'
    BY <1>1, <1>3, OutStays DEF InChunk
  <2> QED BY <1>1, <2>1 DEF Decoding
<1>4. CASE BeforeCr(i, n, l, h, e, g)
  <2>1. BeforeCr(i, n, l, h, e, g)'
    BY <1>1, <1>4, OutStays DEF BeforeCr
  <2> QED BY <1>1, <2>1 DEF Decoding
<1>5. CASE BeforeLf(i, n, l, h, e, g)
  <2>1. BeforeLf(i, n, l, h, e, g)'
    BY <1>1, <1>5, OutStays DEF BeforeLf
  <2> QED BY <1>1, <2>1 DEF Decoding
<1> QED BY <1>2, <1>3, <1>4, <1>5

-----------------------------------------------------------------------------
\* Bodies: decoding a chunked body.

LEMMA ChunkIs ==
  ASSUME BodyTypes, NEW n, NEW l, NEW h, NEW e, NEW g, Chunks(n, l, h, e, g), NEW i \in 1 .. n
  PROVE  /\ n \in Nat \ {0} /\ Len(bytes) \in Nat /\ Len(body) \in Nat
         /\ l[i] \in Nat /\ (l[i] = 0 <=> i = n) /\ Sized(h[i], l[i]) /\ Len(h[i]) \in Nat \ {0} /\ (Long \/ Len(h[i]) <= Digits)
         /\ e[i - 1] \in Nat /\ e[i] \in Nat /\ e[i] = e[i - 1] + Len(h[i]) + l[i] + 4
         /\ g[i - 1] \in Nat /\ g[i] \in Nat /\ g[i] = g[i - 1] + l[i] /\ g[i] <= Len(body)
         /\ HexAt(e[i - 1], h[i]) /\ CrlfAt(e[i - 1] + Len(h[i]))
         /\ BodyAt(e[i - 1] + Len(h[i]) + 2, g[i - 1], l[i]) /\ CrlfAt(e[i] - 2)
         /\ (Len(bytes) < e[i] => cutOff)
<1>1. \A j \in 1 .. n : ChunkOK(j, n, l, h, e, g)
  BY DEF Chunks
<1>2. ChunkOK(i, n, l, h, e, g)
  BY <1>1
<1>3. n \in Nat \ {0} /\ Len(bytes) \in Nat /\ Len(body) \in Nat
  BY BodyIs DEF Chunks
<1>4. Len(h[i]) \in Nat \ {0}
  <2>1. Len(h[i]) \in Nat /\ Len(h[i]) # 0
    BY <1>2 DEF ChunkOK, Sized
  <2> QED BY <2>1
<1>5. l[i] \in Nat /\ e[i - 1] \in Nat /\ e[i] = e[i - 1] + Len(h[i]) + l[i] + 4 /\ g[i - 1] \in Nat /\ g[i] = g[i - 1] + l[i]
  BY <1>2 DEF ChunkOK
<1>6. e[i] \in Nat /\ g[i] \in Nat
  <2> DEFINE x == e[i - 1]
             y == Len(h[i])
             z == l[i]
             o == g[i - 1]
  <2>1. x \in Nat /\ y \in Nat /\ z \in Nat /\ o \in Nat /\ e[i] = x + y + z + 4 /\ g[i] = o + z
    BY <1>4, <1>5
  <2> HIDE DEF x, y, z, o
  <2>2. x + y + z + 4 \in Nat /\ o + z \in Nat
    BY <2>1
  <2> QED BY <2>1, <2>2
<1>7. ASSUME Len(bytes) < e[i] PROVE cutOff
  <2>1. e[i] <= e[n]
    BY <1>2 DEF ChunkOK
  <2>2. e[n] \in Nat
    <3>1. n \in 1 .. n
      BY <1>3
    <3>2. ChunkOK(n, n, l, h, e, g)
      BY <1>1, <3>1
    <3>3. l[n] \in Nat /\ e[n - 1] \in Nat /\ e[n] = e[n - 1] + Len(h[n]) + l[n] + 4 /\ Len(h[n]) \in Nat
      BY <3>2 DEF ChunkOK, Sized
    <3> QED BY <3>3
  <2>3. Len(bytes) < e[n]
    BY <1>3, <1>6, <1>7, <2>1, <2>2
  <2> QED BY <2>3 DEF Chunks
<1> QED BY <1>2, <1>3, <1>4, <1>5, <1>6, <1>7 DEF ChunkOK

LEMMA SizesKeep ==
  ASSUME BodyTypes, Same, verdict = "reading", Sizes,
         NEW n, NEW l, NEW h, NEW e, NEW g, Chunks(n, l, h, e, g), NEW i \in 1 .. n, InSize(i, n, l, h, e, g)
  PROVE  Decoding(n, l, h, e, g)'
<1> DEFINE d == h[i]
           k == Len(d)
           p == e[i - 1]
<1>1. /\ n \in Nat \ {0} /\ Len(bytes) \in Nat /\ l[i] \in Nat /\ (l[i] = 0 <=> i = n) /\ Sized(d, l[i]) /\ k \in Nat \ {0}
      /\ p \in Nat /\ e[i] = p + k + l[i] + 4 /\ HexAt(p, d) /\ CrlfAt(p + k) /\ (Len(bytes) < e[i] => cutOff)
      /\ g[i - 1] \in Nat /\ (Long \/ k <= Digits)
  BY ChunkIs
<1>2. step = "size" /\ at = p /\ Out(g[i - 1]) /\ remain = 0
  BY DEF InSize
<1>3. IF at + k + 2 <= Len(bytes) /\ k <= Digits THEN Bodies!LineEnds # {} /\ LineEnd = k + 1 /\ SizeDigits = d ELSE Bodies!LineEnds = {}
  <2> HIDE DEF d
  <2>1. Sized(d, l[i]) /\ HexAt(at, d) /\ CrlfAt(at + Len(d))
    BY <1>1, <1>2
  <2> QED BY <2>1, LineIs DEF LineEnd, SizeDigits
<1> HIDE DEF k, p
<1>4. CASE at + k + 2 <= Len(bytes) /\ k <= Digits
  <2>1. Bodies!IsHex(d)
    <3>1. d # <<>> /\ DOMAIN d = 1 .. k /\ \A x \in 1 .. k : d[x] \in HexSet
      <4>1. DOMAIN d = 1 .. k /\ \A x \in 1 .. k : d[x] \in HexSet
        BY <1>1 DEF Sized, k
      <4>2. Len(d) # 0
        <5>1. k # 0
          BY <1>1
        <5> QED BY <5>1 DEF k
      <4>3. d # <<>>
        <5> HIDE DEF d
        <5>1. Len(<<>>) = 0
          OBVIOUS
        <5> QED BY <4>2, <5>1
      <4> QED BY <4>1, <4>3
    <3> HIDE DEF d
    <3> QED BY <3>1, HexDigitsAre DEF Bodies!IsHex
  <2>2. at' = at + LineEnd + 1 /\ step' = "chunk" /\ remain' = Bodies!ToInteger(d) /\ out' = out /\ verdict' = verdict
    BY <1>3, <1>4, <2>1 DEF Sizes
  <2>3. remain' = l[i]
    BY <1>1, <2>2 DEF Sized
  <2>4. at' = p + k + 2 + (l[i] - l[i])
    BY <1>1, <1>2, <1>3, <1>4, <2>2
  <2>5. g[i - 1] + (l[i] - l[i]) = g[i - 1] /\ l[i] \in 0 .. l[i]
    BY <1>1
  <2>6. Out(g[i - 1])'
    BY <1>2, <2>2, OutStays
  <2>7. InChunk(i, n, l, h, e, g)'
    BY <1>1, <2>2, <2>3, <2>4, <2>5, <2>6 DEF InChunk, p, k, d
  <2> QED BY <2>2, <2>7 DEF Decoding
<1>5. CASE ~(at + k + 2 <= Len(bytes) /\ k <= Digits)
  <2>1. Failing
    BY <1>3, <1>5 DEF Sizes
  <2>2. cutOff \/ Long
    BY <1>1, <1>2, <1>5
  <2> QED BY <1>1, <1>2, <2>1, <2>2, FailingKeeps
<1> QED BY <1>4, <1>5

LEMMA ReadsKeep ==
  ASSUME BodyTypes, Same, verdict = "reading", Reads,
         NEW n, NEW l, NEW h, NEW e, NEW g, Chunks(n, l, h, e, g), NEW i \in 1 .. n, InChunk(i, n, l, h, e, g)
  PROVE  Decoding(n, l, h, e, g)'
<1> DEFINE k == Len(h[i])
           p == e[i - 1]
           c == g[i - 1]
           m == l[i]
           q == e[i]
           L == Len(bytes)
           B == Len(body)
<1>1. /\ n \in Nat \ {0} /\ L \in Nat /\ B \in Nat /\ m \in Nat /\ (m = 0 <=> i = n) /\ k \in Nat \ {0}
      /\ p \in Nat /\ q = p + k + m + 4 /\ (L < q => cutOff) /\ c \in Nat /\ g[i] = c + m /\ g[i] <= B
      /\ BodyAt(p + k + 2, c, m)
  BY ChunkIs
<1>2. /\ step = "chunk" /\ remain \in 0 .. m /\ (remain = 0 => i = n)
      /\ at = p + k + 2 + (m - remain) /\ Out(c + (m - remain))
  BY DEF InChunk
<1> PICK r : r = remain
  OBVIOUS
<1> HIDE DEF k, p, c, m, q, L, B
<1>3. CASE remain > 0 /\ at = L /\ Failing
  <2>1. cutOff
    BY <1>1, <1>2, <1>3
  <2> QED BY <1>1, <1>2, <1>3, <2>1, FailingKeeps
<1>4. CASE ~(remain > 0 /\ at = L)
  <2>1. PICK z : Hands(z) /\ step' = IF remain - z = 0 THEN "cr_after_chunk" ELSE "chunk"
    BY <1>4 DEF Reads, L
  <2>2. /\ z \in Nat /\ z <= remain /\ at + z <= L /\ (z = 0 => remain = 0 \/ at = L)
        /\ at' = at + z /\ remain' = remain - z /\ out' = out \o SubSeq(bytes, at + 1, at + z)
        /\ verdict' = IF z = 0 THEN "end" ELSE verdict
    BY <2>1 DEF Hands, L
  <2> DEFINE s == c + (m - r)
             y == p + k + 2 + (m - r)
  <2>3. s \in Nat /\ y \in Nat /\ y = at /\ s + z <= B /\ m - remain \in Nat /\ (m - remain) + z <= m
    BY <1>1, <1>2, <2>2
  <2>4. \A x \in 1 .. z : bytes[y + x] = body[s + x]
    <3> SUFFICES ASSUME NEW x \in 1 .. z PROVE bytes[y + x] = body[s + x]
      OBVIOUS
    <3> DEFINE w == (m - r) + x
    <3>1. w \in 1 .. m /\ p + k + 2 + w = y + x /\ c + w = s + x /\ p + k + 2 + w <= L
      BY <1>1, <1>2, <2>2, <2>3
    <3> HIDE DEF w, y, s, m, p, c, k
    <3>2. bytes[p + k + 2 + w] = body[c + w]
      BY <1>1, <3>1 DEF BodyAt, L
    <3> QED BY <3>1, <3>2
  <2>5. Out(s + z)'
    <3>1. body' = body /\ y + z <= L /\ out' = out \o SubSeq(bytes, y + 1, y + z) /\ Out(s)
      BY <1>2, <2>2, <2>3 DEF Same
    <3>2. s \in Nat /\ y \in Nat /\ z \in Nat /\ y + z <= Len(bytes) /\ s + z <= Len(body)
      BY <2>2, <2>3, <3>1 DEF L, B
    <3> HIDE DEF s, y
    <3> QED BY <2>4, <3>1, <3>2, OutMore
  <2> HIDE DEF s, y
  <2>6. s + z = c + (m - (r - z)) /\ at + z = p + k + 2 + (m - (r - z)) /\ r - z \in 0 .. m
    BY <1>1, <1>2, <2>2, <2>3 DEF s, y
  <2>7. CASE remain - z = 0
    <3>1. s + z = g[i] /\ at' = q - 2
      BY <1>1, <1>2, <2>2, <2>3, <2>6, <2>7
    <3>2. verdict' = "end" <=> i = n
      <4>1. CASE z = 0
        BY <1>2, <2>2, <2>7, <4>1
      <4>2. CASE z # 0
        <5>1. m # 0
          BY <1>1, <1>2, <2>2, <2>7, <4>2
        <5> QED BY <1>1, <2>2, <4>2, <5>1
      <4> QED BY <4>1, <4>2
    <3>3. verdict' # "failed"
      BY <2>2
    <3>4. step' = "cr_after_chunk" /\ remain' = 0
      BY <2>1, <2>2, <2>7
    <3>5. Out(g[i])'
      BY <2>5, <3>1
    <3>6. BeforeCr(i, n, l, h, e, g)'
      BY <3>1, <3>2, <3>4, <3>5 DEF BeforeCr, q
    <3> QED BY <3>3, <3>6 DEF Decoding
  <2>8. CASE remain - z # 0
    <3>1. z # 0
      BY <1>2, <1>4, <2>2, <2>8, <1>1
    <3>2. step' = "chunk" /\ verdict' = "reading" /\ remain' \in 0 .. m /\ remain' # 0
      BY <2>1, <2>2, <2>6, <2>8, <3>1
    <3>3. at' = p + k + 2 + (m - remain')
      BY <2>2, <2>6
    <3> DEFINE w == c + (m - (r - z))
    <3>4. Out(w)' /\ remain' = r - z
      BY <2>2, <2>5, <2>6
    <3>5. InChunk(i, n, l, h, e, g)'
      BY <3>2, <3>3, <3>4 DEF InChunk, c, m, p, k
    <3> QED BY <3>2, <3>5 DEF Decoding
  <2> QED BY <2>7, <2>8
<1> QED BY <1>3, <1>4 DEF Reads, L

LEMMA CrKeeps ==
  ASSUME BodyTypes, Same, verdict = "reading", Looks("cr_after_chunk", "cr", "lf_after_chunk"),
         NEW n, NEW l, NEW h, NEW e, NEW g, Chunks(n, l, h, e, g), NEW i \in 1 .. n, BeforeCr(i, n, l, h, e, g)
  PROVE  Decoding(n, l, h, e, g)'
<1>1. /\ n \in Nat \ {0} /\ Len(bytes) \in Nat /\ e[i - 1] \in Nat /\ l[i] \in Nat /\ Len(h[i]) \in Nat \ {0}
      /\ e[i] = e[i - 1] + Len(h[i]) + l[i] + 4 /\ (Len(bytes) < e[i] => cutOff) /\ CrlfAt(e[i] - 2)
  BY ChunkIs
<1>2. at = e[i] - 2 /\ Out(g[i]) /\ remain = 0 /\ i # n /\ step = "cr_after_chunk"
  BY DEF BeforeCr
<1>3. at \in 0 .. Len(bytes)
  BY BodyIs
<1>4. CASE at = Len(bytes)
  <2>1. Failing
    BY <1>4 DEF Looks
  <2>2. cutOff
    <3> DEFINE q == e[i]
    <3>1. q \in Nat
      BY ChunkIs
    <3>2. Len(bytes) = q - 2 /\ (Len(bytes) < q => cutOff)
      BY <1>1, <1>2, <1>4
    <3>3. Len(bytes) < q
      <4> HIDE DEF q
      <4> QED BY <3>1, <3>2
    <3> QED BY <3>2, <3>3
  <2> QED BY <1>1, <1>2, <2>1, <2>2, FailingKeeps
<1>5. CASE at # Len(bytes)
  <2>1. bytes[at + 1] = "cr"
    BY <1>1, <1>2, <1>3, <1>5 DEF CrlfAt
  <2>2. at' = at + 1 /\ step' = "lf_after_chunk" /\ remain' = remain /\ out' = out /\ verdict' = verdict
    BY <1>5, <2>1 DEF Looks
  <2>3. at' = e[i] - 1
    <3>1. \A x \in Nat : (x - 2) + 1 = x - 1
      OBVIOUS
    <3>2. e[i] \in Nat
      BY ChunkIs
    <3>3. (e[i] - 2) + 1 = e[i] - 1
      BY <3>1, <3>2, Zenon
    <3> QED BY <1>2, <2>2, <3>3, Zenon
  <2>4. Out(g[i])'
    BY <1>2, <2>2, OutStays
  <2>5. BeforeLf(i, n, l, h, e, g)'
    BY <1>2, <2>2, <2>3, <2>4 DEF BeforeLf
  <2> QED BY <2>2, <2>5 DEF Decoding
<1> QED BY <1>4, <1>5

LEMMA LfKeeps ==
  ASSUME BodyTypes, Same, verdict = "reading", Looks("lf_after_chunk", "lf", "size"),
         NEW n, NEW l, NEW h, NEW e, NEW g, Chunks(n, l, h, e, g), NEW i \in 1 .. n, BeforeLf(i, n, l, h, e, g)
  PROVE  Decoding(n, l, h, e, g)'
<1>1. /\ n \in Nat \ {0} /\ Len(bytes) \in Nat /\ e[i - 1] \in Nat /\ l[i] \in Nat /\ Len(h[i]) \in Nat \ {0}
      /\ e[i] = e[i - 1] + Len(h[i]) + l[i] + 4 /\ (Len(bytes) < e[i] => cutOff) /\ CrlfAt(e[i] - 2)
  BY ChunkIs
<1>2. at = e[i] - 1 /\ Out(g[i]) /\ remain = 0 /\ i # n /\ step = "lf_after_chunk"
  BY DEF BeforeLf
<1>3. at \in 0 .. Len(bytes)
  BY BodyIs
<1>4. CASE at = Len(bytes)
  <2>1. Failing
    BY <1>4 DEF Looks
  <2>2. cutOff
    <3> DEFINE q == e[i]
    <3>1. q \in Nat
      BY ChunkIs
    <3>2. Len(bytes) = q - 1 /\ (Len(bytes) < q => cutOff)
      BY <1>1, <1>2, <1>4
    <3>3. Len(bytes) < q
      <4> HIDE DEF q
      <4> QED BY <3>1, <3>2
    <3> QED BY <3>2, <3>3
  <2> QED BY <1>1, <1>2, <2>1, <2>2, FailingKeeps
<1>5. CASE at # Len(bytes)
  <2>1. bytes[at + 1] = "lf"
    <3>1. e[i] \in Nat /\ CrlfAt(e[i] - 2)
      BY ChunkIs
    <3>2. Len(bytes) \in Nat /\ at = e[i] - 1 /\ at \in 0 .. Len(bytes)
      BY <1>1, <1>2, <1>3
    <3> DEFINE z == e[i]
               k == Len(bytes)
    <3> HIDE DEF z, k
    <3>3. at + 1 = (z - 2) + 2 /\ (z - 2) + 2 <= k
      BY <1>5, <3>1, <3>2 DEF z, k
    <3> QED BY <3>1, <3>3 DEF CrlfAt, z, k
  <2>2. at' = at + 1 /\ step' = "size" /\ remain' = remain /\ out' = out /\ verdict' = verdict
    BY <1>5, <2>1 DEF Looks
  <2> DEFINE j == i + 1
  <2>3. at' = e[i] /\ j \in 1 .. n /\ j - 1 = i
    <3>1. \A x \in Nat : (x - 1) + 1 = x
      OBVIOUS
    <3>2. e[i] \in Nat
      BY ChunkIs
    <3>3. (e[i] - 1) + 1 = e[i]
      BY <3>1, <3>2, Zenon
    <3>4. at' = e[i]
      BY <1>2, <2>2, <3>3, Zenon
    <3>5. n \in Nat /\ i # n
      BY <1>1, <1>2
    <3>6. j \in 1 .. n /\ j - 1 = i
      BY <3>5
    <3> QED BY <3>4, <3>6
  <2> HIDE DEF j
  <2>4. Out(g[i])'
    BY <1>2, <2>2, OutStays
  <2>5. InSize(j, n, l, h, e, g)'
    BY <1>2, <2>2, <2>3, <2>4 DEF InSize
  <2> QED BY <2>2, <2>3, <2>5 DEF Decoding
<1> QED BY <1>4, <1>5

LEMMA DecodingNext ==
  ASSUME BodyTypes, BodyStep, framing # "length",
         NEW n, NEW l, NEW h, NEW e, NEW g, Chunks(n, l, h, e, g), Decoding(n, l, h, e, g)
  PROVE  Decoding(n, l, h, e, g)'
<1>1. PICK i \in 1 .. n : \/ InSize(i, n, l, h, e, g) \/ InChunk(i, n, l, h, e, g)
                          \/ BeforeCr(i, n, l, h, e, g) \/ BeforeLf(i, n, l, h, e, g)
  BY DEF Decoding
<1>2. Same /\ verdict = "reading"
  BY DEF BodyStep
<1>3. CASE Looks("cr_after_chunk", "cr", "lf_after_chunk")
  <2>1. step = "cr_after_chunk"
    BY <1>3 DEF Looks
  <2>2. BeforeCr(i, n, l, h, e, g)
    BY <1>1, <2>1 DEF InSize, InChunk, BeforeLf
  <2> QED BY <1>2, <1>3, <2>2, CrKeeps
<1>4. CASE Looks("lf_after_chunk", "lf", "size")
  <2>1. step = "lf_after_chunk"
    BY <1>4 DEF Looks
  <2>2. BeforeLf(i, n, l, h, e, g)
    BY <1>1, <2>1 DEF InSize, InChunk, BeforeCr
  <2> QED BY <1>2, <1>4, <2>2, LfKeeps
<1>5. CASE Sizes
  <2>1. step = "size"
    BY <1>5 DEF Sizes
  <2>2. InSize(i, n, l, h, e, g)
    BY <1>1, <2>1 DEF BeforeCr, InChunk, BeforeLf
  <2> QED BY <1>2, <1>5, <2>2, SizesKeep
<1>6. CASE Reads
  <2>1. step = "chunk"
    BY <1>6 DEF Reads
  <2>2. InChunk(i, n, l, h, e, g)
    BY <1>1, <2>1 DEF BeforeCr, InSize, BeforeLf
  <2> QED BY <1>2, <1>6, <2>2, ReadsKeep
<1>7. ~Limits
  BY DEF Limits
<1> QED BY <1>3, <1>4, <1>5, <1>6, <1>7 DEF BodyStep

-----------------------------------------------------------------------------
\* Bodies: reading a body of announced length, and what http_client's chunk is read as.

LEMMA LimitedNext == ASSUME BodyTypes, BodyStep, framing = "length", Limited PROVE Limited'
<1> DEFINE L == Len(bytes)
           B == Len(body)
<1>1. L \in Nat /\ B \in Nat /\ at \in 0 .. L
  BY BodyIs
<1>2. /\ L <= B /\ (\A x \in 1 .. L : bytes[x] = body[x]) /\ (cutOff <=> L < B)
      /\ remain = B - at /\ Out(at)
  BY DEF Limited
<1>3. Same /\ verdict = "reading" /\ Limits
  BY DEF BodyStep, Looks, Sizes, Reads
<1>4. PICK n : Hands(n)
  BY <1>3 DEF Limits
<1>5. /\ n \in Nat /\ n <= remain /\ at + n <= L /\ (n = 0 => remain = 0 \/ at = L)
      /\ at' = at + n /\ remain' = remain - n /\ out' = out \o SubSeq(bytes, at + 1, at + n)
      /\ verdict' = IF n = 0 THEN "end" ELSE verdict
  BY <1>4 DEF Hands
<1> PICK a : a = at
  OBVIOUS
<1> HIDE DEF L, B
<1>6. \A x \in 1 .. n : bytes[a + x] = body[a + x]
  <2> SUFFICES ASSUME NEW x \in 1 .. n PROVE bytes[a + x] = body[a + x]
    OBVIOUS
  <2>1. a + x \in 1 .. L
    BY <1>1, <1>5
  <2> QED BY <1>2, <2>1
<1>7. Out(a + n)'
  <2>1. a \in Nat /\ n \in Nat /\ a + n <= Len(bytes) /\ a + n <= Len(body)
    BY <1>1, <1>2, <1>5 DEF L, B
  <2>2. out' = out \o SubSeq(bytes, a + 1, a + n) /\ body' = body /\ Out(a)
    BY <1>2, <1>3, <1>5 DEF Same
  <2> QED BY <1>6, <2>1, <2>2, OutMore
<1>8. remain' = B - at' /\ at' = a + n
  BY <1>1, <1>2, <1>5
<1>9. verdict' = "end" => at' = L
  BY <1>1, <1>2, <1>3, <1>5
<1>10. Out(at)'
  BY <1>7, <1>8 DEF Out
<1>11. verdict' # "failed"
  BY <1>3, <1>5
<1>12. L' = L /\ B' = B /\ bytes' = bytes /\ body' = body /\ cutOff' = cutOff
  BY <1>3 DEF Same, L, B
<1> QED BY <1>2, <1>8, <1>9, <1>10, <1>11, <1>12 DEF Limited, L, B

LEMMA ClientStays == ASSUME Same, NEW h, ClientBytes(h) PROVE ClientBytes(h)' /\ ClientSize' = ClientSize
BY DEF Same, ClientBytes, ClientSize, HexAt, CrlfAt

LEMMA ClientFails ==
  ASSUME Same, Failing, NEW k, ClientStart \/ ClientLater(k) PROVE ClientStart' \/ ClientLater(k)'
<1>1. /\ at' = at /\ step' = step /\ remain' = remain /\ out' = out /\ verdict' = "failed" /\ ClientSize' = ClientSize
      /\ Over(k)' = Over(k) /\ Since' = Since
  BY DEF Same, Failing, ClientSize, Over, Since
<1>2. CASE ClientStart
  BY <1>1, <1>2 DEF ClientStart
<1>3. CASE ClientLater(k)
  BY <1>1, <1>3 DEF ClientLater, FirstChunk, SecondChunk
<1> QED BY <1>2, <1>3

\* What is counted.
LEMMA ClientCounts ==
  ASSUME BodyTypes, NEW k \in Nat
  PROVE  /\ Len(bytes) \in Nat /\ at \in 0 .. Len(bytes) /\ Len(out) \in Nat /\ remain \in Nat
         /\ ClientSize \in Nat /\ Over(k) \in Int /\ Over(k) = at - k - 2 - Len(out) /\ Since \in 0 .. 2
<1>1. out \in Seq(Chars) /\ remain \in Nat
  BY DEF BodyTypes
<1>2. Len(bytes) \in Nat /\ at \in 0 .. Len(bytes) /\ Len(body) \in Nat
  BY BodyIs
<1>3. Len(out) \in Nat
  BY <1>1, LenProperties
<1>4. ClientSize \in Nat
  BY <1>2 DEF ClientSize
<1>5. Over(k) \in Int
  BY <1>2, <1>3 DEF Over
<1> QED BY <1>1, <1>2, <1>3, <1>4, <1>5 DEF Over, Since

\* The size it announces is the first it reads. Another takes three bytes.
LEMMA ClientSizes ==
  ASSUME BodyTypes, Same, Sizes, verdict = "reading", NEW h, ClientBytes(h), ClientStart \/ ClientLater(Len(h)),
         BodyTypes'
  PROVE  ClientStart' \/ ClientLater(Len(h))'
<1>1. CASE Failing
  BY <1>1, ClientFails
<1>2. CASE ~Failing
  <2>1. /\ Bodies!LineEnds # {} /\ Bodies!IsHex(SizeDigits) /\ at' = at + LineEnd + 1 /\ step = "size" /\ step' = "chunk"
        /\ remain' = Bodies!ToInteger(SizeDigits) /\ out' = out /\ verdict' = "reading"
    BY <1>2 DEF Sizes
  <2>2. LineEnd \in Nat \ {0} /\ Len(SizeDigits) = LineEnd - 1
    BY <2>1, SizeDigitsAre
  <2>3. LineEnd >= 2
    <3>1. SizeDigits # <<>>
      BY <2>1 DEF Bodies!IsHex
    <3>2. CASE LineEnd = 1
      <4>1. DOMAIN SizeDigits = 1 .. LineEnd - 1
        BY <2>1, SizeDigitsAre
      <4>2. SizeDigits \in Seq(Chars)
        BY <2>1, SizeDigitsAre
      <4>3. SizeDigits = <<>>
        BY <2>2, <3>2, <4>2, EmptySeq
      <4> QED BY <3>1, <4>3
    <3> QED BY <2>2, <3>2
  <2>4. ClientSize' = ClientSize
    BY ClientStays
  <2>5. Len(h) \in Nat
    BY DEF ClientBytes, Sized
  <2>6. /\ ClientSize \in Nat /\ at \in Nat /\ Len(out) \in Nat /\ Over(Len(h)) = at - Len(h) - 2 - Len(out)
        /\ remain \in Nat
    BY <2>5, ClientCounts
  <2>7. Over(Len(h))' = (at + LineEnd + 1) - Len(h) - 2 - Len(out) /\ Since' = 0 /\ Since = 2
    <3>1. Over(Len(h))' = (at + LineEnd + 1) - Len(h) - 2 - Len(out)
      <4>1. Over(Len(h))' = at' - Len(h) - 2 - Len(out')
        BY DEF Over
      <4>2. at' = at + LineEnd + 1 /\ out' = out
        BY <2>1
      <4> QED BY <4>1, <4>2
    <3>2. Since = 2
      BY <2>1 DEF Since
    <3>3. step' = "chunk"
      BY <2>1
    <3>4. Since' = 0
      BY <3>3 DEF Since
    <3> QED BY <3>1, <3>2, <3>4
  <2>8. remain' \in Nat
    BY DEF BodyTypes
  <2>9. CASE ClientStart
    <3>1. at = 0 /\ out = <<>>
      BY <2>9 DEF ClientStart
    <3>2. Sized(h, ClientSize) /\ HexAt(at, h) /\ CrlfAt(at + Len(h))
      BY <2>5, <3>1 DEF ClientBytes
    <3>3. LineEnd = Len(h) + 1 /\ SizeDigits = h
      BY <2>1, <3>2, LineIs DEF LineEnd, SizeDigits
    <3>4. remain' = ClientSize
      BY <2>1, <3>2, <3>3 DEF Sized
    <3>5. Len(out) = 0
      BY <3>1
    <3>6. Over(Len(h))' = 0
      <4> DEFINE x == Len(h)
                 y == Len(out)
                 p == Over(x)'
      <4>1. x \in Nat /\ y = 0 /\ p = 0 + LineEnd + 1 - x - 2 - y /\ LineEnd = x + 1
        BY <2>5, <2>7, <3>1, <3>3, <3>5
      <4> HIDE DEF x, y, p
      <4>2. p = 0
        BY <4>1
      <4> QED BY <4>2 DEF p, x
    <3>7. FirstChunk'
      BY <2>1, <2>4, <2>6, <3>4, <3>5 DEF FirstChunk
    <3> QED BY <2>7, <3>6, <3>7 DEF ClientLater
  <2>10. CASE ClientLater(Len(h))
    <3>1. Over(Len(h)) >= 2 /\ (FirstChunk \/ SecondChunk(Len(h)) \/ Over(Len(h)) >= 10)
      BY <2>7, <2>10 DEF ClientLater
    <3>2. Over(Len(h))' >= Over(Len(h)) + 3 /\ Over(Len(h)) \in Int /\ Over(Len(h))' \in Int
      BY <2>2, <2>3, <2>5, <2>6, <2>7
    <3> DEFINE o == Over(Len(h))
               p == Over(Len(h))'
    <3>3. o \in Int /\ p \in Int /\ p >= o + 3 /\ o >= 2
      BY <3>1, <3>2
    <3>4. CASE FirstChunk
      <4>1. Len(out) <= ClientSize
        BY <2>6, <3>4 DEF FirstChunk
      <4>2. CASE remain' = 0
        <5>1. FirstChunk'
          BY <2>1, <2>4, <2>6, <4>1, <4>2 DEF FirstChunk
        <5>2. p >= 0
          <6> HIDE DEF o, p
          <6> QED BY <3>3
        <5> QED BY <2>7, <5>1, <5>2, Zenon DEF ClientLater, p
      <4>3. CASE remain' # 0
        <5>1. p >= 5
          <6> HIDE DEF o, p
          <6> QED BY <3>3
        <5>2. SecondChunk(Len(h))'
          BY <2>1, <2>7, <4>3, <5>1 DEF SecondChunk
        <5>3. Over(Len(h))' >= 2
          <6>1. p >= 2
            <7> HIDE DEF o, p
            <7> QED BY <3>3
          <6> QED BY <6>1 DEF p
        <5>4. Over(Len(h))' >= Since'
          BY <2>7, <3>2, <5>3
        <5> QED BY <5>2, <5>4 DEF ClientLater
      <4> QED BY <4>2, <4>3
    <3>5. CASE SecondChunk(Len(h)) \/ o >= 10
      <4>1. o >= 7
        BY <2>7, <3>3, <3>5 DEF SecondChunk
      <4>2. p >= 10
        <5> HIDE DEF o, p
        <5> QED BY <3>3, <4>1
      <4>3. Over(Len(h))' >= 10 /\ Over(Len(h))' >= Since'
        BY <2>7, <3>2, <4>2
      <4> QED BY <4>3 DEF ClientLater
    <3> QED BY <3>1, <3>4, <3>5
  <2> QED BY <2>9, <2>10
<1> QED BY <1>1, <1>2

LEMMA ClientReads ==
  ASSUME BodyTypes, Same, Reads, verdict = "reading", NEW k \in Nat, ClientStart \/ ClientLater(k)
  PROVE  ClientStart' \/ ClientLater(k)'
<1>1. CASE Failing
  BY <1>1, ClientFails
<1>2. CASE ~Failing
  <2>1. PICK n : Hands(n) /\ step' = IF remain - n = 0 THEN "cr_after_chunk" ELSE "chunk"
    BY <1>2 DEF Reads
  <2>2. /\ n \in Nat /\ n <= remain /\ at + n <= Len(bytes) /\ (n = 0 => remain = 0 \/ at = Len(bytes))
        /\ at' = at + n /\ remain' = remain - n /\ out' = out \o SubSeq(bytes, at + 1, at + n)
        /\ verdict' = IF n = 0 THEN "end" ELSE "reading"
    BY <2>1 DEF Hands
  <2>3. ClientLater(k)
    BY DEF Reads, ClientStart
  <2>4. /\ Len(bytes) \in Nat /\ at \in 0 .. Len(bytes) /\ Len(out) \in Nat /\ remain \in Nat
        /\ ClientSize \in Nat /\ Over(k) \in Int /\ Over(k) = at - k - 2 - Len(out)
    BY ClientCounts
  <2>5. out \in Seq(Chars) /\ \A x \in 1 .. Len(bytes) : bytes[x] \in Chars
    BY BodyIs DEF BodyTypes
  <2> DEFINE a == at + 1
             b == at + n
             u == SubSeq(bytes, a, b)
  <2>6. a \in Int /\ b \in Int /\ a <= b + 1 /\ b - a + 1 = n /\ \A x \in a .. b : x \in 1 .. Len(bytes)
    BY <2>2, <2>4
  <2> HIDE DEF a, b
  <2>7. \A x \in a .. b : bytes[x] \in Chars
    BY <2>5, <2>6
  <2>8. u \in Seq(Chars) /\ Len(u) = n
    BY <2>6, <2>7, Taken
  <2>9. out' = out \o u
    BY <2>2 DEF a, b
  <2> HIDE DEF u
  <2>10. Len(out') = Len(out) + n
    BY <2>5, <2>8, <2>9, Behind
  <2>11. ClientSize' = ClientSize
    BY DEF ClientSize, Same
  <2>12. Over(k)' = Over(k)
    BY <2>2, <2>4, <2>10 DEF Over
  <2>13. step = "chunk" /\ Since = 0 /\ Since' = 0
    BY <2>1 DEF Reads, Since
  <2>14. Over(k) >= 0 /\ (FirstChunk \/ SecondChunk(k) \/ Over(k) >= 10)
    BY <2>3, <2>13 DEF ClientLater
  <2>15. CASE FirstChunk
    <3>1. FirstChunk'
      BY <2>2, <2>4, <2>10, <2>11, <2>15 DEF FirstChunk
    <3> QED BY <2>12, <2>13, <2>14, <3>1 DEF ClientLater
  <2>16. CASE SecondChunk(k)
    <3>1. Over(k) >= 5 /\ remain # 0
      BY <2>13, <2>16 DEF SecondChunk
    <3>2. n # 0
      BY <1>2, <2>2, <2>4, <3>1 DEF Reads
    <3>3. verdict' = "reading" /\ ~(step' = "chunk" /\ remain' = 0)
      BY <2>1, <2>2, <3>2
    <3>4. SecondChunk(k)'
      BY <2>12, <2>13, <3>1, <3>3 DEF SecondChunk
    <3> QED BY <2>12, <2>13, <2>14, <3>4 DEF ClientLater
  <2>17. CASE Over(k) >= 10
    BY <2>12, <2>13, <2>14, <2>17 DEF ClientLater
  <2> QED BY <2>14, <2>15, <2>16, <2>17
<1> QED BY <1>1, <1>2

LEMMA ClientLooks ==
  ASSUME BodyTypes, Same, verdict = "reading", NEW from, NEW char, NEW to, Looks(from, char, to),
         (from = "cr_after_chunk" /\ to = "lf_after_chunk") \/ (from = "lf_after_chunk" /\ to = "size"),
         NEW k \in Nat, ClientStart \/ ClientLater(k)
  PROVE  ClientStart' \/ ClientLater(k)'
<1>1. CASE Failing
  BY <1>1, ClientFails
<1>2. CASE ~Failing
  <2>1. at' = at + 1 /\ remain' = remain /\ out' = out /\ verdict' = "reading" /\ step = from /\ step' = to
    BY <1>2 DEF Looks
  <2>2. ClientLater(k)
    BY <2>1 DEF ClientStart
  <2>3. at \in Nat /\ Len(out) \in Nat /\ Over(k) \in Int /\ Over(k) = at - k - 2 - Len(out)
    BY ClientCounts
  <2>4. Over(k)' = Over(k) + 1
    BY <2>1, <2>3 DEF Over
  <2>5. Since \in 0 .. 2 /\ Since' = Since + 1 /\ step' # "chunk"
    BY <2>1 DEF Since
  <2>6. Over(k) >= Since /\ (FirstChunk \/ SecondChunk(k) \/ Over(k) >= 10)
    BY <2>2 DEF ClientLater
  <2>7. Over(k)' >= Since'
    BY <2>3, <2>4, <2>5, <2>6
  <2>8. FirstChunk => FirstChunk'
    BY <2>1 DEF FirstChunk, ClientSize, Same
  <2>9. SecondChunk(k) => SecondChunk(k)'
    <3> SUFFICES ASSUME SecondChunk(k) PROVE SecondChunk(k)'
      OBVIOUS
    <3>1. Over(k) >= 5 + Since
      BY DEF SecondChunk
    <3>2. Over(k)' >= 5 + Since'
      BY <2>3, <2>4, <2>5, <3>1
    <3> QED BY <2>1, <2>5, <3>2 DEF SecondChunk
  <2>10. Over(k) >= 10 => Over(k)' >= 10
    BY <2>3, <2>4
  <2> QED BY <2>6, <2>7, <2>8, <2>9, <2>10 DEF ClientLater
<1> QED BY <1>1, <1>2

LEMMA ClientNext == ASSUME BodyTypes, BodyStep, BodyTypes', framing = "client", ClientWrong PROVE ClientWrong'
<1>1. PICK h : ClientBytes(h) /\ (ClientStart \/ ClientLater(Len(h)))
  BY DEF ClientWrong
<1>2. Len(h) \in Nat
  BY <1>1 DEF ClientBytes, Sized
<1>3. Same /\ verdict = "reading"
  BY DEF BodyStep
<1>4. ClientBytes(h)'
  BY <1>1, <1>3, ClientStays
<1>5. CASE Looks("cr_after_chunk", "cr", "lf_after_chunk") \/ Looks("lf_after_chunk", "lf", "size")
  BY <1>1, <1>2, <1>3, <1>4, <1>5, ClientLooks DEF ClientWrong
<1>6. CASE Sizes
  BY <1>1, <1>3, <1>4, <1>6, ClientSizes DEF ClientWrong
<1>7. CASE Reads
  BY <1>1, <1>2, <1>3, <1>4, <1>7, ClientReads DEF ClientWrong
<1>8. ~Limits
  BY DEF Limits
<1> QED BY <1>5, <1>6, <1>7, <1>8 DEF BodyStep

LEMMA BodyNext == ASSUME BodyInv, Bodies!Next \/ UNCHANGED Bodies!vars PROVE BodyInv'
<1>1. CASE Bodies!Next
  <2>1. BodyTypes /\ BodyStep /\ BodyTypes'
    BY <1>1, BodySteps, BodyTyped DEF BodyInv
  <2>2. framing' = framing /\ body' = body
    BY <2>1 DEF BodyStep, Same
  <2>3. CASE framing = "length"
    <3>1. Limited'
      BY <2>1, <2>3, LimitedNext DEF BodyInv
    <3> QED BY <2>1, <2>2, <2>3, <3>1 DEF BodyInv, Wrong
  <2>4. CASE framing # "length" /\ ~Wrong
    <3>1. PICK n, l, h, e, g : Chunks(n, l, h, e, g) /\ Decoding(n, l, h, e, g)
      BY <2>4 DEF BodyInv
    <3>2. Decoding(n, l, h, e, g)'
      BY <2>1, <2>4, <3>1, DecodingNext
    <3>3. Chunks(n, l, h, e, g)'
      BY <2>1, <3>1, ChunksStay DEF BodyStep
    <3> QED BY <2>1, <2>2, <2>4, <3>2, <3>3 DEF BodyInv, Wrong
  <2>5. CASE Wrong
    <3>1. ClientWrong'
      BY <2>1, <2>5, ClientNext DEF BodyInv, Wrong
    <3> QED BY <2>1, <2>2, <2>5, <3>1 DEF BodyInv, Wrong
  <2> QED BY <2>3, <2>4, <2>5
<1>2. CASE UNCHANGED Bodies!vars
  <2>1. /\ framing' = framing /\ body' = body /\ bytes' = bytes /\ cutOff' = cutOff /\ at' = at /\ step' = step
        /\ remain' = remain /\ eofSeen' = eofSeen /\ out' = out /\ verdict' = verdict
    BY <1>2 DEF Bodies!vars, framing, body, bytes, cutOff, at, step, remain, eofSeen, out, verdict
  <2>2. BodyTypes'
    BY <2>1 DEF BodyInv, BodyTypes
  <2>3. framing = "length" => Limited'
    BY <2>1 DEF BodyInv, Limited, Out
  <2>4. Wrong => ClientWrong'
    BY <2>1 DEF BodyInv, ClientWrong, ClientBytes, ClientSize, HexAt, CrlfAt, ClientStart, ClientLater,
       Over, Since, FirstChunk, SecondChunk
  <2>5. framing # "length" /\ ~Wrong => (\E n, l, h, e, g : Chunks(n, l, h, e, g) /\ Decoding(n, l, h, e, g))'
    <3> SUFFICES ASSUME framing # "length" /\ ~Wrong
                 PROVE  \E n, l, h, e, g : Chunks(n, l, h, e, g)' /\ Decoding(n, l, h, e, g)'
      OBVIOUS
    <3>1. PICK n, l, h, e, g : Chunks(n, l, h, e, g) /\ Decoding(n, l, h, e, g)
      BY DEF BodyInv
    <3>2. Chunks(n, l, h, e, g)'
      BY <2>1, <3>1, ChunksStay DEF Same
    <3>3. Decoding(n, l, h, e, g)'
      BY <2>1, <3>1 DEF Decoding, InSize, InChunk, BeforeCr, BeforeLf, Out, Long
    <3> QED BY <3>2, <3>3
  <2> QED BY <2>1, <2>2, <2>3, <2>4, <2>5 DEF BodyInv, Wrong
<1> QED BY <1>1, <1>2

-----------------------------------------------------------------------------
\* Bodies: what the invariant says.

\* The whole body was handed out.
LEMMA AllOut == ASSUME BodyTypes, Out(Len(body)) PROVE out = body
<1>1. out \in Seq(Chars) /\ body \in Seq(Chars) /\ Len(out) = Len(body) /\ \A x \in 1 .. Len(body) : out[x] = body[x]
  BY DEF BodyTypes, Out
<1> QED BY <1>1, SeqEqual

LEMMA PrefixOut == ASSUME BodyTypes, NEW c, Out(c) PROVE Bodies!IsPrefix(out, body)
<1> DEFINE p == SubSeq(body, 1, c)
<1>1. Len(body) \in Nat /\ \A x \in 1 .. Len(body) : body[x] \in Chars
  BY BodyIs
<1>2. c \in 0 .. Len(body) /\ out \in Seq(Chars) /\ Len(out) = c /\ \A x \in 1 .. c : out[x] = body[x]
  BY DEF Out
<1>3. 1 \in Int /\ c \in Int /\ 1 <= c + 1 /\ c - 1 + 1 = c /\ (\A x \in 1 .. c : 1 + x - 1 = x /\ x \in 1 .. Len(body))
  BY <1>1, <1>2
<1>4. \A x \in 1 .. c : body[x] \in Chars
  BY <1>1, <1>3
<1>5. p \in Seq(Chars) /\ Len(p) = c - 1 + 1
  BY <1>3, <1>4, Taken
<1>6. \A x \in 1 .. c - 1 + 1 : p[x] = body[1 + x - 1]
  BY <1>3, <1>4, Taken
<1> HIDE DEF p
<1>7. \A x \in 1 .. c : p[x] = out[x]
  BY <1>2, <1>3, <1>6
<1>8. p = out
  <2>1. Len(p) = Len(out) /\ \A x \in 1 .. Len(out) : p[x] = out[x]
    BY <1>2, <1>3, <1>5, <1>7
  <2> QED BY <1>2, <1>5, <2>1, SeqEqual
<1>9. SubSeq(out, 1, Len(out)) = out
  BY <1>2, SubSeqFull
<1> QED BY <1>1, <1>2, <1>8, <1>9 DEF Bodies!IsPrefix, p

\* Half of the type's values is less than all of them.
LEMMA Halved == 2^(Width - 1) \in Nat /\ 2^Width \in Nat /\ 2^(Width - 1) <= 2^Width
<1> DEFINE e == Width - 1
<1>1. Width \in Nat \ {0}
  BY MessageAssumption DEF Bodies!BodyAssumption
<1>2. e \in Nat /\ e + 1 = Width
  BY <1>1
<1> HIDE DEF e
<1>3. 2^e \in Nat /\ 2^(e + 1) = 2 * 2^e
  BY <1>2, NotZero, Doubled
<1> QED BY <1>2, <1>3 DEF e

\* What decoding means, wherever it is.
LEMMA DecodingMeans ==
  ASSUME BodyTypes, NEW n, NEW l, NEW h, NEW e, NEW g, Chunks(n, l, h, e, g), Decoding(n, l, h, e, g)
  PROVE  /\ \E c : Out(c)
         /\ verdict = "failed" => cutOff \/ Long
         /\ verdict = "end" => /\ out = body /\ at = e[n] - 2 /\ CrlfAt(e[n] - 2) /\ e[n] \in Nat /\ e[n] >= 5
                               /\ (~cutOff => Len(bytes) = e[n])
<1>1. PICK i \in 1 .. n : \/ InSize(i, n, l, h, e, g) \/ InChunk(i, n, l, h, e, g)
                          \/ BeforeCr(i, n, l, h, e, g) \/ BeforeLf(i, n, l, h, e, g)
  BY DEF Decoding
<1>2. \E c : Out(c)
  BY <1>1 DEF InSize, InChunk, BeforeCr, BeforeLf
<1>4. verdict = "failed" => cutOff \/ Long
  BY DEF Decoding
<1>5. ASSUME verdict = "end"
      PROVE  /\ out = body /\ at = e[n] - 2 /\ CrlfAt(e[n] - 2) /\ e[n] \in Nat /\ e[n] >= 5
             /\ (~cutOff => Len(bytes) = e[n])
  <2>1. i = n /\ BeforeCr(n, n, l, h, e, g)
    BY <1>1, <1>5 DEF InSize, InChunk, BeforeCr, BeforeLf
  <2>2. at = e[n] - 2 /\ Out(g[n])
    BY <2>1 DEF BeforeCr
  <2>3. g[n] = Len(body) /\ Len(bytes) <= e[n] /\ (cutOff <=> Len(bytes) < e[n])
    BY DEF Chunks
  <2>4. out = body
    BY <2>2, <2>3, AllOut
  <2>5. n \in 1 .. n
    BY <2>1
  <2>6. e[n] \in Nat /\ e[n - 1] \in Nat /\ Len(h[n]) \in Nat \ {0} /\ l[n] \in Nat /\ e[n] = e[n - 1] + Len(h[n]) + l[n] + 4
        /\ CrlfAt(e[n] - 2) /\ Len(bytes) \in Nat
    <3>1. Chunks(n, l, h, e, g)
      BY <1>1
    <3>2. PICK j \in 1 .. n : j = n
      BY <2>5
    <3>3. /\ l[j] \in Nat /\ Len(h[j]) \in Nat \ {0} /\ e[j - 1] \in Nat /\ e[j] \in Nat
          /\ e[j] = e[j - 1] + Len(h[j]) + l[j] + 4 /\ CrlfAt(e[j] - 2) /\ Len(bytes) \in Nat
      BY <3>1, <3>2, ChunkIs
    <3> QED BY <3>2, <3>3
  <2>7. e[n] >= 5 /\ (~cutOff => Len(bytes) = e[n])
    <3> DEFINE E == e[n]
               F == e[n - 1]
               H == Len(h[n])
               M == l[n]
               L == Len(bytes)
    <3>1. E \in Nat /\ F \in Nat /\ H \in Nat \ {0} /\ M \in Nat /\ E = F + H + M + 4 /\ L \in Nat
          /\ L <= E /\ (cutOff <=> L < E)
      BY <2>3, <2>6
    <3> HIDE DEF E, F, H, M, L
    <3>2. E >= 5 /\ (~cutOff => L = E)
      BY <3>1
    <3> QED BY <3>2 DEF E, L
  <2> QED BY <2>2, <2>4, <2>6, <2>7
<1> QED BY <1>2, <1>4, <1>5

\* The last line end is left of a chunked body.
LEMMA CrlfLeft ==
  ASSUME BodyTypes, NEW E \in Nat, E >= 5, at = E - 2, CrlfAt(E - 2), Len(bytes) = E
  PROVE  SubSeq(bytes, at + 1, Len(bytes)) = Bodies!Crlf
<1> DEFINE a == at + 1
           b == Len(bytes)
           u == SubSeq(bytes, a, b)
<1>1. \A x \in 1 .. b : bytes[x] \in Chars
  BY BodyIs
<1>2. a \in Int /\ b \in Int /\ a <= b + 1 /\ b - a + 1 = 2 /\ a = E - 1 /\ b = E /\ \A x \in a .. b : x \in 1 .. b
  OBVIOUS
<1> HIDE DEF a, b
<1>3. \A x \in a .. b : bytes[x] \in Chars
  BY <1>1, <1>2
<1>4. u \in Seq(Chars) /\ Len(u) = b - a + 1
  BY <1>2, <1>3, Taken
<1>5. \A x \in 1 .. b - a + 1 : u[x] = bytes[a + x - 1]
  BY <1>2, <1>3, Taken
<1> HIDE DEF u
<1>6. u[1] = bytes[E - 1] /\ u[2] = bytes[E]
  <2>1. 1 \in 1 .. b - a + 1 /\ 2 \in 1 .. b - a + 1 /\ a + 1 - 1 = E - 1 /\ a + 2 - 1 = E
    BY <1>2
  <2> QED BY <1>5, <2>1
<1>7. bytes[E - 1] = "cr" /\ bytes[E] = "lf"
  <2>1. (E - 2) + 1 = E - 1 /\ (E - 2) + 2 = E /\ E - 1 <= Len(bytes) /\ E <= Len(bytes)
    OBVIOUS
  <2> QED BY <2>1 DEF CrlfAt
<1>8. u = <<u[1], u[2]>>
  <2>1. u \in Seq(Chars) /\ Len(u) = 2
    BY <1>2, <1>4
  <2> QED BY <2>1
<1> QED BY <1>6, <1>7, <1>8 DEF u, a, b, Bodies!Crlf

LEMMA NothingBehind == ASSUME BodyTypes, at = Len(bytes) PROVE SubSeq(bytes, at + 1, Len(bytes)) = <<>>
<1>1. bytes \in Seq(Chars) /\ Len(bytes) \in Nat
  BY BodyIs DEF BodyTypes
<1> DEFINE a == at + 1
           b == Len(bytes)
           u == SubSeq(bytes, a, b)
<1>2. a \in Int /\ b \in Int /\ a <= b + 1 /\ b - a + 1 = 0 /\ \A x \in a .. b : FALSE
  BY <1>1
<1> HIDE DEF a, b
<1>3. u \in Seq(Chars) /\ Len(u) = b - a + 1
  BY <1>2, Taken
<1> HIDE DEF u
<1>4. u = <<>>
  BY <1>2, <1>3, EmptySeq
<1> QED BY <1>4 DEF u, a, b

LEMMA BodyMeans ==
  ASSUME BodyInv
  PROVE  /\ Bodies!TypeOK /\ Bodies!ReadsPrefix /\ Bodies!EndIsWhole /\ Bodies!FailsWhenCut
         /\ Bodies!LeftOver /\ Bodies!ClientChunkWrong
<1>1. BodyTypes
  BY DEF BodyInv
<1>2. Len(body) \in Nat /\ Len(bytes) \in Nat /\ at \in 0 .. Len(bytes)
  BY <1>1, BodyIs
<1>3. /\ eofSeen \in BOOLEAN /\ step \in {"size", "chunk", "cr_after_chunk", "lf_after_chunk"} /\ remain \in Nat
      /\ verdict \in {"reading", "end", "failed"} /\ framing \in {"length", "chunked", "client"}
      /\ Len(body) < 2^(Width - 1)
  BY <1>1 DEF BodyTypes
<1> DEFINE Means ==
      /\ framing # "client" => Bodies!IsPrefix(out, body)
      /\ verdict = "end" /\ framing # "client" => out = body \/ (framing = "length" /\ cutOff)
      /\ verdict = "failed" => cutOff \/ framing = "client" \/ (framing = "chunked" /\ Long)
      /\ verdict = "end" /\ ~cutOff /\ framing # "client" =>
           SubSeq(bytes, at + 1, Len(bytes)) = IF framing = "chunked" THEN Bodies!Crlf ELSE <<>>
      /\ framing = "client" /\ verdict = "end" => (out = body) = (body = <<>>)
<1> HIDE DEF Means
<1>5. ASSUME framing = "length" PROVE Means
  <2>1. /\ remain = Len(body) - at /\ Out(at) /\ verdict # "failed" /\ (verdict = "end" => at = Len(bytes))
        /\ Len(bytes) <= Len(body) /\ (cutOff <=> Len(bytes) < Len(body))
    BY <1>5 DEF BodyInv, Limited
  <2>3. Bodies!IsPrefix(out, body)
    BY <1>1, <2>1, PrefixOut
  <2>4. verdict = "end" => out = body \/ cutOff
    <3> SUFFICES ASSUME verdict = "end", ~cutOff PROVE out = body
      OBVIOUS
    <3>1. at = Len(body)
      BY <1>2, <2>1
    <3>2. Out(Len(body))
      BY <2>1, <3>1
    <3> QED BY <1>1, <3>2, AllOut
  <2>5. verdict = "end" => SubSeq(bytes, at + 1, Len(bytes)) = <<>>
    BY <1>1, <2>1, NothingBehind
  <2>6. framing # "client" /\ framing # "chunked"
    BY <1>5
  <2>7. verdict = "failed" => cutOff
    BY <2>1
  <2> QED BY <1>5, <2>3, <2>4, <2>5, <2>6, <2>7, Zenon DEF Means
<1>6. ASSUME framing # "length" /\ ~Wrong PROVE Means
  <2>1. PICK n, l, h, e, g : Chunks(n, l, h, e, g) /\ Decoding(n, l, h, e, g)
    BY <1>6 DEF BodyInv
  <2>2. PICK c : Out(c)
    BY <1>1, <2>1, DecodingMeans
  <2>3. Bodies!IsPrefix(out, body)
    BY <1>1, <2>2, PrefixOut
  <2>4. (verdict = "failed" => cutOff \/ Long) /\ (verdict = "end" => out = body)
    BY <1>1, <2>1, DecodingMeans
  <2>5. verdict = "end" /\ ~cutOff => SubSeq(bytes, at + 1, Len(bytes)) = Bodies!Crlf
    <3> SUFFICES ASSUME verdict = "end", ~cutOff PROVE SubSeq(bytes, at + 1, Len(bytes)) = Bodies!Crlf
      OBVIOUS
    <3> DEFINE E == e[n]
    <3>1. at = E - 2 /\ CrlfAt(E - 2) /\ E \in Nat /\ E >= 5 /\ Len(bytes) = E
      BY <1>1, <2>1, DecodingMeans
    <3> HIDE DEF E
    <3> QED BY <1>1, <3>1, CrlfLeft
  <2>6. framing = "client" => body = <<>>
    BY <1>6 DEF Wrong
  <2>7. framing = "client" /\ verdict = "end" => (out = body) = (body = <<>>)
    BY <2>4, <2>6
  <2>8. framing # "client" => framing = "chunked"
    BY <1>3, <1>6
  <2> QED BY <2>3, <2>4, <2>5, <2>7, <2>8, Zenon DEF Means
<1>7. ASSUME Wrong PROVE Means
  <2>1. framing = "client" /\ body # <<>> /\ body \in Seq(Chars)
    BY <1>1, <1>7 DEF Wrong, BodyTypes
  <2>2. Len(body) # 0
    BY <2>1, EmptySeq
  <2>3. ClientSize \in Nat /\ ClientSize < Len(body)
    BY <1>2, <2>2 DEF ClientSize
  <2>4. PICK h : ClientBytes(h) /\ (ClientStart \/ ClientLater(Len(h)))
    BY <1>7 DEF BodyInv, ClientWrong
  <2>5. Len(out) \in Nat /\ Len(h) \in Nat
    <3>1. out \in Seq(Chars)
      BY <1>1 DEF BodyTypes
    <3> QED BY <2>4, <3>1, LenProperties DEF ClientBytes, Sized
  <2>7. ASSUME verdict = "end" PROVE Len(out) < Len(body)
    <3>1. FirstChunk \/ Over(Len(h)) >= 10
      BY <2>4, <2>7 DEF ClientStart, ClientLater, SecondChunk
    <3>2. CASE FirstChunk
      <4>1. Len(out) + remain <= ClientSize
        BY <3>2 DEF FirstChunk
      <4> QED BY <1>2, <1>3, <2>3, <2>5, <4>1
    <3>3. CASE Over(Len(h)) >= 10
      <4> DEFINE k == Len(h)
                 m == Len(body)
                 u == Len(out)
                 b == Len(bytes)
      <4>1. at - k - 2 - u >= 10 /\ b <= k + m + 9 /\ at \in 0 .. b /\ k \in Nat /\ m \in Nat /\ u \in Nat /\ b \in Nat
        BY <1>2, <2>4, <2>5, <3>3 DEF Over, ClientBytes
      <4> HIDE DEF k, m, u, b
      <4>2. u < m
        BY <4>1
      <4> QED BY <4>2 DEF u, m
    <3> QED BY <3>1, <3>2, <3>3
  <2>8. verdict = "end" => out # body
    BY <1>2, <2>5, <2>7
  <2>9. verdict = "end" => (out = body) = (body = <<>>)
    BY <2>1, <2>8
  <2> QED BY <2>1, <2>9, Zenon DEF Means
<1>8. Means
  BY <1>5, <1>6, <1>7 DEF Wrong
<1>10. Bodies!TypeOK
  BY <1>2, <1>3 DEF Bodies!TypeOK, at, bytes, remain, eofSeen, step, verdict
<1>11. Bodies!ReadsPrefix /\ Bodies!EndIsWhole /\ Bodies!FailsWhenCut /\ Bodies!LeftOver /\ Bodies!ClientChunkWrong
  BY <1>8, Zenon DEF Means, Bodies!ReadsPrefix, Bodies!EndIsWhole, Bodies!FailsWhenCut, Bodies!LeftOver,
     Bodies!ClientChunkWrong, framing, body, bytes, cutOff, at, out, verdict, Long
<1> QED BY <1>10, <1>11

-----------------------------------------------------------------------------
\* Pieces behind each other.

\* made is what the first elements of q make.
Parts(made, q, V) == /\ made[0] = <<>>
                     /\ \A i \in 0 .. Len(q) : made[i] \in Seq(V)
                     /\ \A i \in 1 .. Len(q) : made[i] = made[i - 1] \o q[i]

\* FlattenSeq, of any pieces.
LEMMA FlattenParts ==
  ASSUME NEW V, NEW q, Len(q) \in Nat, \A i \in 1 .. Len(q) : q[i] \in Seq(V), Len(q) = 0 => q = <<>>
  PROVE  \E made : Parts(made, q, V) /\ Bodies!FlattenSeq(q) = made[Len(q)]
<1> DEFINE n == Len(q)
           W == Seq(V)
           by == [i \in 1 .. n |-> [x \in W |-> x \o q[i]]]
<1>1. by \in [1 .. n -> [W -> W]]
  <2>1. ASSUME NEW i \in 1 .. n, NEW x \in W PROVE x \o q[i] \in W
    <3>1. q[i] \in Seq(V) /\ x \in Seq(V)
      OBVIOUS
    <3> HIDE DEF n
    <3> QED BY <3>1
  <2> HIDE DEF W, n
  <2> QED BY <2>1
<1>2. PICK f : Follows(f, W, n, <<>>, by)
  <2>1. n \in Nat /\ <<>> \in W
    OBVIOUS
  <2> HIDE DEF by, n, W
  <2> QED BY <1>1, <2>1, Recursion
<1> HIDE DEF n
<1>3. n \in Nat
  BY DEF n
<1> HIDE DEF W
<1>4. f \in [0 .. n -> W] /\ f[0] = <<>>
  BY <1>2 DEF Follows
<1>5. ASSUME NEW i \in 1 .. n PROVE f[i] = f[i - 1] \o q[i]
  <2>1. i - 1 \in 0 .. n /\ f[i - 1] \in W
    BY <1>3, <1>4
  <2> QED BY <1>2, <2>1 DEF Follows
<1>6. Parts(f, q, V)
  BY <1>4, <1>5, Zenon DEF Parts, W, n
<1>7. CASE n = 0
  <2>1. q = <<>> /\ Bodies!FlattenSeq(q) = q
    BY <1>7 DEF n, Bodies!FlattenSeq
  <2> QED BY <1>4, <1>6, <1>7, <2>1 DEF n
<1>8. CASE n # 0
  <2> DEFINE M(g) == g = [i \in 1 .. n |-> IF i = 1 THEN q[i] ELSE g[i - 1] \o q[i]]
             flatten == CHOOSE g : M(g)
             h == [i \in 1 .. n |-> f[i]]
  <2>1. Bodies!FlattenSeq(q) = flatten[n]
    BY <1>8 DEF n, Bodies!FlattenSeq
  <2>2. f[1] = q[1]
    <3>1. 1 \in 1 .. n /\ 1 - 1 = 0 /\ q[1] \in Seq(V)
      BY <1>3, <1>8 DEF n
    <3>2. f[1] = <<>> \o q[1]
      BY <3>1, <1>4, <1>5
    <3> QED BY <3>1, <3>2
  <2>3. M(h)
    <3>1. ASSUME NEW i \in 1 .. n PROVE h[i] = IF i = 1 THEN q[i] ELSE h[i - 1] \o q[i]
      <4>1. CASE i = 1
        BY <2>2, <4>1
      <4>2. CASE i # 1
        <5>1. i - 1 \in 1 .. n
          BY <1>3, <4>2
        <5> QED BY <4>2, <5>1, <1>5
      <4> QED BY <4>1, <4>2
    <3> QED BY <3>1
  <2>4. M(flatten)
    <3> HIDE DEF M, h
    <3> QED BY <2>3
  <2>5. flatten = [i \in 1 .. n |-> IF i = 1 THEN q[i] ELSE flatten[i - 1] \o q[i]]
    <3> HIDE DEF flatten
    <3> QED BY <2>4
  <2> HIDE DEF flatten, M, h
  <2>6. ASSUME NEW i \in 1 .. n PROVE flatten[i] = IF i = 1 THEN q[i] ELSE flatten[i - 1] \o q[i]
    BY <2>5
  <2> DEFINE S == {i \in 0 .. n : i # 0 => flatten[i] = f[i]}
  <2>7. 0 \in S
    BY <1>3
  <2>8. ASSUME NEW i \in 0 .. n - 1, i \in S PROVE i + 1 \in S
    <3>0. i + 1 \in 1 .. n /\ i + 1 \in 0 .. n /\ i + 1 - 1 = i
      BY <1>3
    <3>1. CASE i = 0
      <4>1. flatten[1] = q[1]
        BY <3>0, <3>1, <2>6
      <4> QED BY <3>0, <3>1, <4>1, <2>2
    <3>2. CASE i # 0
      <4> DEFINE j == i + 1
      <4>0. j \in 1 .. n /\ j - 1 = i /\ j # 1
        BY <3>0, <3>2
      <4> HIDE DEF j
      <4>1. flatten[j] = flatten[j - 1] \o q[j]
        BY <4>0, <2>6
      <4>2. f[j] = f[j - 1] \o q[j]
        BY <4>0, <1>5
      <4>3. flatten[i] = f[i]
        BY <3>2, <2>8
      <4> QED BY <3>0, <4>0, <4>1, <4>2, <4>3 DEF j
    <3> QED BY <3>1, <3>2
  <2> HIDE DEF S
  <2>9. \A i \in 0 .. n : i \in S
    BY <1>3, <2>7, <2>8, InductUpTo
  <2>10. flatten[n] = f[n]
    BY <1>3, <1>8, <2>9 DEF S
  <2> QED BY <2>1, <2>10, <1>6 DEF n
<1> QED BY <1>7, <1>8

\* w begins with p.
StartsWith(w, p) == Len(p) <= Len(w) /\ \A k \in 1 .. Len(p) : w[k] = p[k]

\* A length is a number.
LEMMA LenNat == ASSUME NEW V, NEW s \in Seq(V) PROVE Len(s) \in Nat
OBVIOUS

\* What is put behind a string leaves its beginning.
LEMMA JoinStarts == ASSUME NEW V, NEW p \in Seq(V), NEW q \in Seq(V) PROVE StartsWith(p \o q, p)
<1>1. Len(p \o q) = Len(p) + Len(q) /\ Len(p) \in Nat /\ Len(q) \in Nat
  OBVIOUS
<1>2. \A k \in 1 .. Len(p) : (p \o q)[k] = p[k]
  OBVIOUS
<1>3. Len(p) <= Len(p \o q)
  BY <1>1
<1> QED BY <1>2, <1>3 DEF StartsWith

\* The beginning of a beginning is one.
LEMMA StartsTransitive ==
  ASSUME NEW w, NEW p, NEW q, Len(w) \in Nat, Len(p) \in Nat, Len(q) \in Nat, StartsWith(w, p), StartsWith(p, q)
  PROVE  StartsWith(w, q)
<1>1. Len(q) <= Len(p) /\ Len(p) <= Len(w)
  BY DEF StartsWith
<1>2. ASSUME NEW k \in 1 .. Len(q) PROVE w[k] = q[k]
  <2>1. k \in 1 .. Len(p)
    BY <1>1
  <2> QED BY <2>1 DEF StartsWith
<1>3. Len(q) <= Len(w)
  BY <1>1
<1> QED BY <1>2, <1>3 DEF StartsWith

\* What is made grows at its end only.
LEMMA PartsStart ==
  ASSUME NEW V, NEW q, NEW n \in Nat, Len(q) = n, \A i \in 1 .. n : q[i] \in Seq(V),
         NEW made, Parts(made, q, V), NEW x \in 0 .. n
  PROVE  StartsWith(made[n], made[x]) /\ made[x] \in Seq(V)
<1>1. \A i \in 0 .. n : made[i] \in Seq(V)
  BY DEF Parts
<1>2. \A i \in 1 .. n : made[i] = made[i - 1] \o q[i]
  BY DEF Parts
<1> DEFINE S == {m \in 0 .. n - x : StartsWith(made[x + m], made[x])}
<1>5. 0 \in S
  <2>1. made[x] \in Seq(V) /\ x + 0 = x /\ 0 \in 0 .. n - x
    BY <1>1
  <2>2. StartsWith(made[x], made[x])
    BY <2>1 DEF StartsWith
  <2> QED BY <2>1, <2>2
<1>6. ASSUME NEW m \in 0 .. n - x - 1, m \in S PROVE m + 1 \in S
  <2> DEFINE j == x + (m + 1)
  <2>1. j \in 1 .. n /\ j - 1 = x + m /\ j - 1 \in 0 .. n /\ j \in 0 .. n /\ m + 1 \in 0 .. n - x
    OBVIOUS
  <2> HIDE DEF j
  <2>2. made[j] = made[j - 1] \o q[j] /\ q[j] \in Seq(V) /\ made[j - 1] \in Seq(V) /\ made[j] \in Seq(V)
    BY <1>1, <1>2, <2>1
  <2>3. StartsWith(made[j], made[j - 1])
    BY <2>2, JoinStarts
  <2>4. StartsWith(made[j - 1], made[x])
    BY <1>6, <2>1
  <2>5. made[x] \in Seq(V)
    BY <1>1
  <2>6. Len(made[j]) \in Nat /\ Len(made[j - 1]) \in Nat /\ Len(made[x]) \in Nat
    BY <2>2, <2>5, LenNat
  <2>7. StartsWith(made[j], made[x])
    BY <2>3, <2>4, <2>6, StartsTransitive
  <2> QED BY <2>1, <2>7 DEF j
<1> HIDE DEF S
<1>7. n - x \in Nat
  OBVIOUS
<1>8. \A m \in 0 .. n - x : m \in S
  BY <1>5, <1>6, <1>7, InductUpTo
<1>9. StartsWith(made[n], made[x])
  <2>1. n - x \in 0 .. n - x /\ x + (n - x) = n
    OBVIOUS
  <2> QED BY <1>8, <2>1 DEF S
<1> QED BY <1>1, <1>9


-----------------------------------------------------------------------------
\* Bodies: where they begin.

\* A chunk.
LEMMA ChunkSpelled ==
  ASSUME NEW h \in Seq(Chars), NEW p \in Seq(Chars)
  PROVE  LET c == ((h \o Bodies!Crlf) \o p) \o Bodies!Crlf
             k == Len(h)
             m == Len(p)
         IN /\ c \in Seq(Chars) /\ k \in Nat /\ m \in Nat /\ Len(c) = k + m + 4
            /\ \A x \in 1 .. k : c[x] = h[x]
            /\ c[k + 1] = "cr" /\ c[k + 2] = "lf"
            /\ \A x \in 1 .. m : c[k + 2 + x] = p[x]
            /\ c[k + m + 3] = "cr" /\ c[k + m + 4] = "lf"
<1> DEFINE k == Len(h)
           m == Len(p)
           r == Bodies!Crlf
           a == h \o r
           b == a \o p
           c == b \o r
<1>1. r \in Seq(Chars) /\ Len(r) = 2 /\ r[1] = "cr" /\ r[2] = "lf"
  BY DEF Bodies!Crlf, Chars
<1>2. k \in Nat /\ m \in Nat
  BY LenNat
<1> HIDE DEF r
<1>0. r \in Seq(Chars)
  BY <1>1
<1>3. a \in Seq(Chars) /\ Len(a) = k + 2
  <2>1. a \in Seq(Chars) /\ Len(a) = Len(h) + Len(r)
    BY <1>0, Behind
  <2> QED BY <1>1, <1>2, <2>1
<1>4. \A x \in 1 .. k : a[x] = h[x]
  BY <1>0, Behind
<1>5. \A x \in 1 .. Len(r) : a[k + x] = r[x]
  BY <1>0, Behind
<1> HIDE DEF a
<1>6. b \in Seq(Chars) /\ Len(b) = k + 2 + m
  <2>1. b \in Seq(Chars) /\ Len(b) = Len(a) + Len(p)
    BY <1>2, <1>3, Behind
  <2> QED BY <1>2, <1>3, <2>1
<1>7. \A x \in 1 .. Len(a) : b[x] = a[x]
  BY <1>2, <1>3, Behind
<1>8. \A x \in 1 .. Len(p) : b[Len(a) + x] = p[x]
  BY <1>2, <1>3, Behind
<1> HIDE DEF b
<1>9. c \in Seq(Chars) /\ Len(c) = k + m + 4
  <2>1. c \in Seq(Chars) /\ Len(c) = Len(b) + Len(r)
    BY <1>1, <1>6, Behind
  <2> QED BY <1>1, <1>2, <1>6, <2>1
<1>10. \A x \in 1 .. Len(b) : c[x] = b[x]
  BY <1>1, <1>6, Behind
<1>11. \A x \in 1 .. Len(r) : c[Len(b) + x] = r[x]
  <2>1. b \in Seq(Chars)
    BY <1>6
  <2> QED BY <1>0, <2>1, Behind
<1> HIDE DEF c, k, m
<1>12. \A x \in 1 .. k : c[x] = h[x]
  <2> SUFFICES ASSUME NEW x \in 1 .. k PROVE c[x] = h[x]
    OBVIOUS
  <2>1. x \in 1 .. Len(a) /\ x \in 1 .. Len(b)
    BY <1>2, <1>3, <1>6
  <2> QED BY <1>4, <1>7, <1>10, <2>1
<1>13. c[k + 1] = "cr" /\ c[k + 2] = "lf"
  <2>1. /\ 1 \in 1 .. Len(r) /\ 2 \in 1 .. Len(r) /\ k + 1 \in 1 .. Len(a) /\ k + 2 \in 1 .. Len(a)
        /\ k + 1 \in 1 .. Len(b) /\ k + 2 \in 1 .. Len(b)
    BY <1>1, <1>2, <1>3, <1>6
  <2> QED BY <1>1, <1>5, <1>7, <1>10, <2>1
<1>14. \A x \in 1 .. m : c[k + 2 + x] = p[x]
  <2> SUFFICES ASSUME NEW x \in 1 .. m PROVE c[k + 2 + x] = p[x]
    OBVIOUS
  <2>1. k + 2 + x \in 1 .. Len(b) /\ k + 2 + x = Len(a) + x /\ x \in 1 .. Len(p)
    BY <1>2, <1>3, <1>6 DEF m
  <2> QED BY <1>8, <1>10, <2>1
<1>15. c[k + m + 3] = "cr" /\ c[k + m + 4] = "lf"
  <2>1. 1 \in 1 .. Len(r) /\ 2 \in 1 .. Len(r) /\ Len(b) + 1 = k + m + 3 /\ Len(b) + 2 = k + m + 4
    BY <1>1, <1>2, <1>6
  <2> QED BY <1>1, <1>11, <2>1
<1>16. c \in Seq(Chars) /\ k \in Nat /\ m \in Nat /\ Len(c) = k + m + 4
  BY <1>2, <1>9
<1> QED BY <1>12, <1>13, <1>14, <1>15, <1>16 DEF c, b, a, r, k, m

\* A chunk c in an encoding that begins with what comes before, and c.
LEMMA ChunkThere ==
  ASSUME NEW w, NEW m0 \in Seq(Chars), NEW c \in Seq(Chars), StartsWith(w, m0 \o c)
  PROVE  Len(m0) + Len(c) <= Len(w) /\ \A x \in 1 .. Len(c) : w[Len(m0) + x] = c[x]
<1> DEFINE j == m0 \o c
<1>1. Len(m0) \in Nat /\ Len(c) \in Nat /\ Len(j) = Len(m0) + Len(c)
  BY Behind
<1>2. \A x \in 1 .. Len(c) : j[Len(m0) + x] = c[x]
  BY Behind
<1> HIDE DEF j
<1>3. Len(j) <= Len(w) /\ \A x \in 1 .. Len(j) : w[x] = j[x]
  BY DEF StartsWith, j
<1>4. ASSUME NEW x \in 1 .. Len(c) PROVE w[Len(m0) + x] = c[x]
  <2>1. Len(m0) + x \in 1 .. Len(j)
    BY <1>1
  <2> QED BY <1>2, <1>3, <2>1
<1> QED BY <1>1, <1>3, <1>4

\* The type's bits are written four at a time; an unsigned length has them all, a signed one three less than its digits.
LEMMA WidthIs == /\ Width \in Nat /\ Width - 1 \in Nat /\ 2^(Width % 4) = 1 /\ 2^((Width - 1) % 4) = 8
                 /\ Bodies!TooLong \in Nat /\ Bodies!TooLong = 2^(4 * Digits)
<1>1. Width \in Nat \ {0} /\ Width % 8 = 0
  BY MessageAssumption DEF Bodies!BodyAssumption
<1>2. PICK q \in Nat : Width = 8 * q
  <2> DEFINE q == Width \div 8
  <2>1. q \in Nat /\ Width = 8 * q
    BY <1>1
  <2> QED BY <2>1
<1>3. q # 0
  BY <1>1, <1>2
<1>4. Width % 4 = 0 /\ (Width - 1) % 4 = 3
  BY <1>2, <1>3
<1>5. 2^0 = 1 /\ 2^3 = 8
  OBVIOUS
<1>6. Bodies!TooLong = 2^(4 * Digits)
  BY DEF Bodies!TooLong, Digits
<1>7. 2^(4 * Digits) \in Nat
  <2> DEFINE x == 4 * Digits
  <2>1. x \in Nat
    BY DigitsRead
  <2> HIDE DEF x
  <2>2. 2^x \in Nat
    BY <2>1, NotZero
  <2> QED BY <2>2 DEF x
<1>8. 2^(Width % 4) = 1
  BY <1>4, <1>5, Zenon
<1>9. 2^((Width - 1) % 4) = 8
  BY <1>4, <1>5, Zenon
<1>10. Bodies!TooLong \in Nat
  BY <1>6, <1>7, Zenon
<1>11. Width \in Nat /\ Width - 1 \in Nat
  BY <1>1
<1> QED BY <1>6, <1>8, <1>9, <1>10, <1>11

\* What is written of the length of a chunk.
LEMMA SizeWritten ==
  ASSUME NEW n \in Nat, n < 2^(Width - 1)
  PROVE  /\ Sized(Bodies!ToHex(n, Width), n) /\ (n # 0 => Len(Bodies!ToHex(n, Width)) # 0)
         /\ n < Bodies!TooLong => Len(Bodies!ToHex(n, Width)) <= Digits
<1>1. Width \in Nat /\ n < 2^Width
  BY Halved, WidthIs
<1>2. n \div 2^(Width % 4) = n
  <2>1. n \div 1 = n
    OBVIOUS
  <2> QED BY <2>1, WidthIs
<1> DEFINE s == Bodies!ToHex(n, Width)
<1>3. /\ Len(s) \in Nat /\ DOMAIN s = 1 .. Len(s) /\ \A i \in 1 .. Len(s) : s[i] \in HexSet
      /\ (Len(s) = 0 <=> n = 0) /\ Bodies!ToInteger(s) = n /\ s \in Seq(HexSet)
  BY <1>1, <1>2, ToHexIs
<1>4. \A D \in Nat : n < 2^(4 * D) => Len(s) <= D
  <2> DEFINE m == n \div 2^(Width % 4)
  <2>1. \A D \in Nat : m < 2^(4 * D) => Len(s) <= D
    BY <1>1, ToHexIs
  <2>2. m = n
    BY <1>2
  <2> HIDE DEF m
  <2> QED BY <2>1, <2>2
<1> HIDE DEF s
<1>5. n < Bodies!TooLong => Len(s) <= Digits
  BY <1>4, DigitsRead, WidthIs
<1> QED BY <1>3, <1>5 DEF Sized, s

\* What arrived is the beginning of w, and all of it unless the peer closed.
Arrived(w) == /\ Len(w) \in Nat /\ Len(bytes) \in Nat /\ Len(bytes) <= Len(w)
              /\ \A x \in 1 .. Len(bytes) : bytes[x] = w[x]
              /\ cutOff <=> Len(bytes) < Len(w)

ChunkOf(h, p) == ((h \o Bodies!Crlf) \o p) \o Bodies!Crlf

\* Behind m0 w has the chunk that h and p make, p being what the body has behind its first g0.
Put(w, m0, h, p, g0) ==
  /\ Arrived(w) /\ m0 \in Seq(Chars) /\ h \in Seq(Chars) /\ p \in Seq(Chars) /\ g0 \in Nat
  /\ StartsWith(w, m0 \o ChunkOf(h, p)) /\ \A x \in 1 .. Len(p) : body[g0 + x] = p[x]

\* A chunk as it arrives.
LEMMA ChunkPut ==
  ASSUME NEW w, NEW m0, NEW h, NEW p, NEW g0, Put(w, m0, h, p, g0)
  PROVE  /\ HexAt(Len(m0), h) /\ CrlfAt(Len(m0) + Len(h)) /\ BodyAt(Len(m0) + Len(h) + 2, g0, Len(p))
         /\ CrlfAt(Len(m0) + Len(h) + Len(p) + 2)
         /\ Len(m0) + Len(h) + Len(p) + 4 <= Len(w)
         /\ Len(m0 \o ChunkOf(h, p)) = Len(m0) + Len(h) + Len(p) + 4
<1> DEFINE c == ChunkOf(h, p)
           q == Len(m0)
           k == Len(h)
           m == Len(p)
           L == Len(bytes)
<1>0. /\ Arrived(w) /\ m0 \in Seq(Chars) /\ h \in Seq(Chars) /\ p \in Seq(Chars) /\ g0 \in Nat
      /\ StartsWith(w, m0 \o c) /\ \A x \in 1 .. m : body[g0 + x] = p[x]
  BY DEF Put
<1>1. /\ c \in Seq(Chars) /\ k \in Nat /\ m \in Nat /\ Len(c) = k + m + 4
      /\ \A x \in 1 .. k : c[x] = h[x]
      /\ c[k + 1] = "cr" /\ c[k + 2] = "lf"
      /\ \A x \in 1 .. m : c[k + 2 + x] = p[x]
      /\ c[k + m + 3] = "cr" /\ c[k + m + 4] = "lf"
  BY <1>0, ChunkSpelled DEF ChunkOf
<1> HIDE DEF c
<1>2. q + Len(c) <= Len(w) /\ \A x \in 1 .. Len(c) : w[q + x] = c[x]
  <2>1. c \in Seq(Chars) /\ StartsWith(w, m0 \o c)
    BY <1>0, <1>1
  <2> QED BY <1>0, <2>1, ChunkThere
<1>3. q \in Nat /\ L \in Nat /\ L <= Len(w) /\ \A x \in 1 .. L : bytes[x] = w[x]
  BY <1>0, LenNat DEF Arrived
<1>4. Len(m0 \o c) = q + k + m + 4
  <2>1. c \in Seq(Chars)
    BY <1>1
  <2>2. Len(m0 \o c) = Len(m0) + Len(c)
    BY <1>0, <2>1, Behind
  <2> QED BY <1>1, <1>3, <2>2
<1> DEFINE n == Len(c)
<1>5. n = k + m + 4
  BY <1>1
<1> HIDE DEF q, k, m, L, n
<1>6. ASSUME NEW x \in 1 .. n, q + x <= L PROVE bytes[q + x] = c[x]
  <2>1. q + x \in 1 .. L
    BY <1>3, <1>6, <1>5, <1>1
  <2> QED BY <1>2, <1>3, <2>1 DEF n
<1>7. HexAt(q, h)
  <2> SUFFICES ASSUME NEW x \in 1 .. k, q + x <= L PROVE bytes[q + x] = h[x]
    BY DEF HexAt, k, L
  <2>1. x \in 1 .. n
    BY <1>1, <1>5
  <2> QED BY <1>1, <1>6, <2>1
<1>8. CrlfAt(q + k)
  <2>1. q + k + 1 <= L => bytes[q + k + 1] = "cr"
    <3> DEFINE x == k + 1
    <3>1. x \in 1 .. n /\ q + x = q + k + 1
      BY <1>1, <1>3, <1>5
    <3>2. c[x] = "cr"
      BY <1>1
    <3> HIDE DEF x
    <3> QED BY <1>6, <3>1, <3>2
  <2>2. q + k + 2 <= L => bytes[q + k + 2] = "lf"
    <3> DEFINE x == k + 2
    <3>1. x \in 1 .. n /\ q + x = q + k + 2
      BY <1>1, <1>3, <1>5
    <3>2. c[x] = "lf"
      BY <1>1
    <3> HIDE DEF x
    <3> QED BY <1>6, <3>1, <3>2
  <2> QED BY <2>1, <2>2 DEF CrlfAt, L
<1>9. BodyAt(q + k + 2, g0, m)
  <2> SUFFICES ASSUME NEW y \in 1 .. m, q + k + 2 + y <= L PROVE bytes[q + k + 2 + y] = body[g0 + y]
    BY DEF BodyAt, L
  <2> DEFINE x == k + 2 + y
  <2>1. x \in 1 .. n /\ q + x = q + k + 2 + y
    BY <1>1, <1>3, <1>5
  <2>2. c[x] = p[y]
    BY <1>1
  <2>3. p[y] = body[g0 + y]
    BY <1>0
  <2> HIDE DEF x
  <2>4. q + x <= L
    BY <2>1
  <2>5. bytes[q + x] = c[x]
    BY <1>6, <2>1, <2>4
  <2> QED BY <2>1, <2>2, <2>3, <2>5
<1>10. CrlfAt(q + k + m + 2)
  <2>1. (q + k + m + 2) + 1 <= L => bytes[(q + k + m + 2) + 1] = "cr"
    <3> DEFINE x == k + m + 3
    <3>1. x \in 1 .. n /\ q + x = (q + k + m + 2) + 1
      BY <1>1, <1>3, <1>5
    <3>2. c[x] = "cr"
      BY <1>1
    <3> HIDE DEF x
    <3> QED BY <1>6, <3>1, <3>2
  <2>2. (q + k + m + 2) + 2 <= L => bytes[(q + k + m + 2) + 2] = "lf"
    <3> DEFINE x == k + m + 4
    <3>1. x \in 1 .. n /\ q + x = (q + k + m + 2) + 2
      BY <1>1, <1>3, <1>5
    <3>2. c[x] = "lf"
      BY <1>1
    <3> HIDE DEF x
    <3> QED BY <1>6, <3>1, <3>2
  <2> QED BY <2>1, <2>2 DEF CrlfAt, L
<1>11. q + k + m + 4 <= Len(w)
  BY <1>1, <1>2, <1>3, <1>5 DEF n
<1> QED BY <1>4, <1>7, <1>8, <1>9, <1>10, <1>11 DEF q, k, m, c

LEMMA LastIs ==
  /\ Bodies!LastChunk = ChunkOf(<<"0">>, <<>>) /\ Bodies!LastChunk \in Seq(Chars) /\ Len(Bodies!LastChunk) = 5
  /\ <<"0">> \in Seq(Chars) /\ <<>> \in Seq(Chars) /\ Sized(<<"0">>, 0) /\ Len(<<"0">>) = 1
  /\ Len(<<"0">>) <= Digits
<1> DEFINE z == <<"0">>
<1>1. z \in Seq(Chars) /\ Len(z) = 1 /\ z[1] = "0" /\ DOMAIN z = 1 .. 1
  <2>1. "0" \in Chars
    BY CharsAre
  <2> QED BY <2>1
<1>2. Bodies!Crlf \in Seq(Chars) /\ Len(Bodies!Crlf) = 2
  BY DEF Bodies!Crlf, Chars
<1>3. z \in Seq(HexSet) /\ z \in Seq(Chars)
  <2>1. "0" \in HexSet /\ "0" \in Chars
    BY CharsAre DEF Chars
  <2> QED BY <2>1
<1>4. \A x \in 1 .. Len(z) : z[x] = "0" /\ z[x] \in HexSet
  <2>1. \A x \in 1 .. Len(z) : x = 1
    BY <1>1
  <2> QED BY <1>1, <2>1, CharsAre
<1> HIDE DEF z
<1>5. Bodies!ToInteger(z) = 0
  BY <1>1, <1>4, HexNumber
<1>6. Sized(z, 0)
  BY <1>1, <1>3, <1>4, <1>5 DEF Sized
<1> DEFINE a == z \o Bodies!Crlf
           b == a \o Bodies!Crlf
<1>7. a \in Seq(Chars) /\ Len(a) = 3
  <2>1. a \in Seq(Chars) /\ Len(a) = Len(z) + Len(Bodies!Crlf)
    BY <1>1, <1>2, Behind
  <2> QED BY <1>1, <1>2, <2>1
<1> HIDE DEF a
<1>8. b \in Seq(Chars) /\ Len(b) = 5
  <2>1. b \in Seq(Chars) /\ Len(b) = Len(a) + Len(Bodies!Crlf)
    BY <1>2, <1>7, Behind
  <2> QED BY <1>2, <1>7, <2>1
<1>9. Bodies!LastChunk = b
  BY DEF Bodies!LastChunk, a, z
<1>10. a \o <<>> = a
  BY <1>7
<1>11. ChunkOf(z, <<>>) = b
  BY <1>10 DEF ChunkOf, a
<1>12. <<>> \in Seq(Chars)
  OBVIOUS
<1>13. Len(z) <= Digits
  BY <1>1, DigitsRead
<1> HIDE DEF b
<1> QED BY <1>1, <1>3, <1>6, <1>8, <1>9, <1>11, <1>12, <1>13 DEF z

\* k pieces, their lengths, what they make of the body and of the encoding w.
Written(k, lens, pieces, mb, chunks, me, w) ==
  /\ k \in Nat /\ Len(pieces) = k /\ Len(chunks) = k
  /\ \A i \in 1 .. k : /\ lens[i] \in Nat \ {0} /\ pieces[i] \in Seq(Chars) /\ Len(pieces[i]) = lens[i]
                       /\ chunks[i] = ChunkOf(Bodies!ToHex(lens[i], Width), pieces[i])
  /\ Parts(mb, pieces, Chars) /\ Parts(me, chunks, Chars)
  /\ body = mb[k] /\ w = me[k] \o Bodies!LastChunk /\ Arrived(w)

\* Sequences of digits are sequences of characters.
LEMMA AreChars == \A s \in Seq(HexSet) : s \in Seq(Chars)
<1>1. HexSet \subseteq Chars
  BY CharsAre
<1>2. \A V, W : V \subseteq W => \A s \in Seq(V) : s \in Seq(W)
  OBVIOUS
<1> QED BY <1>1, <1>2

\* A piece of the body: where it is in it.
LEMMA PieceThere ==
  ASSUME BodyTypes, NEW k, NEW lens, NEW pieces, NEW mb, NEW chunks, NEW me, NEW w,
         Written(k, lens, pieces, mb, chunks, me, w), NEW i \in 1 .. k
  PROVE  /\ Len(mb[i - 1]) \in Nat /\ Len(mb[i]) = Len(mb[i - 1]) + lens[i] /\ Len(mb[i]) <= Len(body)
         /\ \A x \in 1 .. Len(pieces[i]) : body[Len(mb[i - 1]) + x] = pieces[i][x]
         /\ lens[i] < 2^(Width - 1) /\ (Long \/ lens[i] < Bodies!TooLong)
<1>1. /\ k \in Nat /\ Len(pieces) = k /\ Parts(mb, pieces, Chars) /\ body = mb[k]
      /\ \A y \in 1 .. k : pieces[y] \in Seq(Chars)
      /\ pieces[i] \in Seq(Chars) /\ Len(pieces[i]) = lens[i] /\ lens[i] \in Nat
  BY DEF Written
<1>2. i \in 0 .. k /\ i - 1 \in 0 .. k
  BY <1>1
<1>3. StartsWith(body, mb[i])
  BY <1>1, <1>2, PartsStart
<1>4. mb[i - 1] \in Seq(Chars) /\ mb[i] = mb[i - 1] \o pieces[i]
  BY <1>1, <1>2 DEF Parts
<1> DEFINE a == mb[i - 1]
           p == pieces[i]
           c == a \o p
<1>5. a \in Seq(Chars) /\ p \in Seq(Chars) /\ Len(p) = lens[i] /\ mb[i] = c
  BY <1>1, <1>4
<1> HIDE DEF a, p
<1>6. Len(a) \in Nat /\ Len(c) = Len(a) + Len(p)
  BY <1>5, Behind
<1>7. \A x \in 1 .. Len(p) : c[Len(a) + x] = p[x]
  BY <1>5, Behind
<1> HIDE DEF c
<1>8. Len(c) <= Len(body) /\ \A x \in 1 .. Len(c) : body[x] = c[x]
  BY <1>3, <1>5 DEF StartsWith
<1>9. ASSUME NEW x \in 1 .. Len(p) PROVE body[Len(a) + x] = p[x]
  <2>1. Len(p) \in Nat
    BY <1>5, LenNat
  <2>2. Len(a) + x \in 1 .. Len(c)
    <3>1. \A u, v \in Nat : \A y \in 1 .. v : u + y \in 1 .. u + v
      OBVIOUS
    <3> QED BY <1>6, <2>1, <3>1
  <2>3. body[Len(a) + x] = c[Len(a) + x]
    BY <1>8, <2>2
  <2> QED BY <1>7, <2>3
<1>10. lens[i] < 2^(Width - 1) /\ (Long \/ lens[i] < Bodies!TooLong)
  <2>1. Len(body) \in Nat /\ Len(body) < 2^(Width - 1)
    BY BodyIs DEF BodyTypes
  <2>2. lens[i] <= Len(body)
    BY <1>1, <1>5, <1>6, <1>8, <2>1
  <2> DEFINE m == Len(body)
             b == 2^(Width - 1)
             d == Bodies!TooLong
             x == lens[i]
  <2>3. m \in Nat /\ x \in Nat /\ b \in Nat /\ d \in Nat /\ m < b /\ x <= m /\ (Long \/ ~(m >= d))
    BY <1>1, <2>1, <2>2, Halved, WidthIs DEF Long
  <2> HIDE DEF m, b, d, x
  <2>4. x < b /\ (Long \/ x < d)
    BY <2>3
  <2> QED BY <2>4 DEF x, b, d
<1> QED BY <1>5, <1>6, <1>8, <1>9, <1>10 DEF a, p

\* A chunk, of the digits h and m bytes, between q and r in the encoding w.
Made(h, m, q, r, w, g0) ==
  /\ Sized(h, m) /\ Len(h) # 0 /\ (Long \/ Len(h) <= Digits) /\ q \in Nat /\ r = q + Len(h) + m + 4 /\ r <= Len(w)
  /\ HexAt(q, h) /\ CrlfAt(q + Len(h)) /\ BodyAt(q + Len(h) + 2, g0, m) /\ CrlfAt(q + Len(h) + m + 2)

\* A chunk of the encoding: where it is in it.
LEMMA ChunkMade ==
  ASSUME BodyTypes, NEW k, NEW lens, NEW pieces, NEW mb, NEW chunks, NEW me, NEW w,
         Written(k, lens, pieces, mb, chunks, me, w), NEW i \in 1 .. k
  PROVE  Made(Bodies!ToHex(lens[i], Width), lens[i], Len(me[i - 1]), Len(me[i]), w, Len(mb[i - 1]))
<1> DEFINE h == Bodies!ToHex(lens[i], Width)
           p == pieces[i]
           c == ChunkOf(h, p)
           a == me[i - 1]
           g0 == Len(mb[i - 1])
<1>1. /\ k \in Nat /\ Len(chunks) = k /\ Parts(me, chunks, Chars) /\ w = me[k] \o Bodies!LastChunk /\ Arrived(w)
      /\ lens[i] \in Nat \ {0} /\ p \in Seq(Chars) /\ Len(p) = lens[i] /\ chunks[i] = c
  BY DEF Written
<1>2. i \in 0 .. k /\ i - 1 \in 0 .. k
  BY <1>1
<1>3. /\ g0 \in Nat /\ (\A x \in 1 .. Len(p) : body[g0 + x] = p[x]) /\ lens[i] < 2^(Width - 1)
      /\ (Long \/ lens[i] < Bodies!TooLong)
  BY PieceThere
<1>4. Sized(h, lens[i]) /\ Len(h) # 0 /\ (Long \/ Len(h) <= Digits)
  BY <1>1, <1>3, SizeWritten
<1>5. h \in Seq(HexSet)
  BY <1>4 DEF Sized
<1>6. h \in Seq(Chars) /\ p \in Seq(Chars)
  BY <1>1, <1>5, AreChars
<1>7. \A y \in 1 .. k : chunks[y] \in Seq(Chars)
  <2> SUFFICES ASSUME NEW y \in 1 .. k PROVE chunks[y] \in Seq(Chars)
    OBVIOUS
  <2>1. lens[y] \in Nat /\ pieces[y] \in Seq(Chars) /\ chunks[y] = ChunkOf(Bodies!ToHex(lens[y], Width), pieces[y])
    BY DEF Written
  <2>2. lens[y] < 2^(Width - 1)
    BY PieceThere
  <2> DEFINE hy == Bodies!ToHex(lens[y], Width)
             py == pieces[y]
  <2>3. hy \in Seq(HexSet)
    BY <2>1, <2>2, SizeWritten DEF Sized
  <2>4. hy \in Seq(Chars) /\ py \in Seq(Chars)
    BY <2>1, <2>3, AreChars
  <2> HIDE DEF hy, py
  <2>5. ChunkOf(hy, py) \in Seq(Chars)
    BY <2>4, ChunkSpelled DEF ChunkOf
  <2> QED BY <2>1, <2>5 DEF hy, py
<1> HIDE DEF h, p, g0, c
<1>8. a \in Seq(Chars) /\ me[i] = a \o c /\ me[k] \in Seq(Chars)
  <2>1. k \in 0 .. k
    BY <1>1
  <2> QED BY <1>1, <1>2, <2>1 DEF Parts
<1>9. StartsWith(me[k], me[i]) /\ me[i] \in Seq(Chars)
  BY <1>1, <1>2, <1>7, PartsStart
<1>10. Bodies!LastChunk \in Seq(Chars)
  BY LastIs
<1>11. StartsWith(w, me[k]) /\ w \in Seq(Chars)
  <2>1. me[k] \o Bodies!LastChunk \in Seq(Chars)
    BY <1>8, <1>10, Behind
  <2>2. StartsWith(me[k] \o Bodies!LastChunk, me[k])
    BY <1>8, <1>10, JoinStarts
  <2> QED BY <1>1, <2>1, <2>2
<1>12. StartsWith(w, me[i])
  <2>1. Len(w) \in Nat /\ Len(me[k]) \in Nat /\ Len(me[i]) \in Nat
    BY <1>8, <1>9, <1>11, LenNat
  <2> QED BY <1>9, <1>11, <2>1, StartsTransitive
<1> HIDE DEF a
<1>13. StartsWith(w, a \o ChunkOf(h, p))
  BY <1>8, <1>12 DEF c
<1>14. /\ HexAt(Len(a), h) /\ CrlfAt(Len(a) + Len(h)) /\ BodyAt(Len(a) + Len(h) + 2, g0, Len(p))
       /\ CrlfAt(Len(a) + Len(h) + Len(p) + 2)
       /\ Len(a) + Len(h) + Len(p) + 4 <= Len(w)
       /\ Len(a \o ChunkOf(h, p)) = Len(a) + Len(h) + Len(p) + 4
  <2>1. Put(w, a, h, p, g0)
    BY <1>1, <1>3, <1>6, <1>8, <1>13 DEF Put
  <2> QED BY <2>1, ChunkPut
<1>15. Len(a) \in Nat
  BY <1>8, LenNat
<1>16. Len(me[i]) = Len(a) + Len(h) + lens[i] + 4 /\ Len(me[i]) <= Len(w)
  BY <1>1, <1>8, <1>14 DEF c
<1>17. Made(h, lens[i], Len(a), Len(me[i]), w, g0)
  BY <1>1, <1>4, <1>14, <1>15, <1>16 DEF Made
<1> QED BY <1>17 DEF h, a, g0

\* The last chunk.
LEMMA LastMade ==
  ASSUME BodyTypes, NEW k, NEW lens, NEW pieces, NEW mb, NEW chunks, NEW me, NEW w,
         Written(k, lens, pieces, mb, chunks, me, w)
  PROVE  LET h == <<"0">>
             q == Len(me[k])
         IN /\ q \in Nat /\ Len(w) = q + Len(h) + 0 + 4
            /\ HexAt(q, h) /\ CrlfAt(q + Len(h)) /\ BodyAt(q + Len(h) + 2, Len(body), 0)
            /\ CrlfAt(q + Len(h) + 0 + 2)
<1> DEFINE h == <<"0">>
           p == <<>>
           a == me[k]
<1>1. k \in Nat /\ Parts(me, chunks, Chars) /\ w = a \o Bodies!LastChunk /\ Arrived(w) /\ Len(chunks) = k
  BY DEF Written
<1>2. a \in Seq(Chars)
  <2>1. k \in 0 .. Len(chunks)
    BY <1>1
  <2> QED BY <1>1, <2>1 DEF Parts
<1>3. Len(p) = 0
  OBVIOUS
<1>4. h \in Seq(Chars) /\ p \in Seq(Chars) /\ Len(h) = 1 /\ w = a \o ChunkOf(h, p)
  BY <1>1, LastIs
<1> HIDE DEF h, p, a
<1>5. Len(body) \in Nat /\ \A x \in 1 .. Len(p) : body[Len(body) + x] = p[x]
  <2>1. 1 .. Len(p) = {}
    BY <1>3
  <2> QED BY <2>1, BodyIs
<1>6. StartsWith(w, a \o ChunkOf(h, p))
  <2>1. Len(w) \in Nat
    BY <1>1 DEF Arrived
  <2> QED BY <1>4, <2>1 DEF StartsWith
<1>7. /\ HexAt(Len(a), h) /\ CrlfAt(Len(a) + Len(h)) /\ BodyAt(Len(a) + Len(h) + 2, Len(body), Len(p))
      /\ CrlfAt(Len(a) + Len(h) + Len(p) + 2)
      /\ Len(a \o ChunkOf(h, p)) = Len(a) + Len(h) + Len(p) + 4
  <2>1. Put(w, a, h, p, Len(body))
    BY <1>1, <1>2, <1>4, <1>5, <1>6 DEF Put
  <2> QED BY <2>1, ChunkPut
<1>8. Len(a) \in Nat
  BY <1>2, LenNat
<1> QED BY <1>3, <1>4, <1>7, <1>8 DEF h, a

LEMMA ChunksOf ==
  ASSUME BodyTypes, NEW k, NEW lens, NEW pieces, NEW mb, NEW chunks, NEW me, NEW w,
         Written(k, lens, pieces, mb, chunks, me, w)
  PROVE  \E n, l, h, e, g : Chunks(n, l, h, e, g)
<1> DEFINE n == k + 1
           l == [i \in 1 .. n |-> IF i = n THEN 0 ELSE lens[i]]
           h == [i \in 1 .. n |-> IF i = n THEN <<"0">> ELSE Bodies!ToHex(lens[i], Width)]
           e == [i \in 0 .. n |-> IF i = n THEN Len(w) ELSE Len(me[i])]
           g == [i \in 0 .. n |-> IF i = n THEN Len(body) ELSE Len(mb[i])]
<1>1. /\ k \in Nat /\ Parts(mb, pieces, Chars) /\ Parts(me, chunks, Chars) /\ body = mb[k] /\ Arrived(w)
      /\ \A i \in 1 .. k : lens[i] \in Nat \ {0}
  BY DEF Written
<1>2. n \in Nat \ {0} /\ 0 \in 0 .. n /\ n \in 0 .. n /\ n \in 1 .. n /\ n # 0 /\ n - 1 = k /\ k \in 0 .. n /\ k # n
  BY <1>1
<1>3. e[0] = 0 /\ g[0] = 0 /\ g[n] = Len(body) /\ e[n] = Len(w)
  <2>1. Len(me[0]) = 0 /\ Len(mb[0]) = 0
    BY <1>1 DEF Parts
  <2> HIDE DEF n
  <2> QED BY <1>2, <2>1
<1>4. Len(bytes) <= e[n] /\ (cutOff <=> Len(bytes) < e[n])
  BY <1>1, <1>3 DEF Arrived
<1>5. ASSUME NEW i \in 1 .. k PROVE ChunkOK(i, n, l, h, e, g)
  <2>1. i \in 1 .. n /\ i \in 0 .. n /\ i - 1 \in 0 .. n /\ i # n /\ i - 1 # n
    BY <1>1
  <2> DEFINE d == Bodies!ToHex(lens[i], Width)
  <2>2. l[i] = lens[i] /\ h[i] = d /\ e[i] = Len(me[i]) /\ e[i - 1] = Len(me[i - 1])
        /\ g[i] = Len(mb[i]) /\ g[i - 1] = Len(mb[i - 1])
    <3> HIDE DEF n
    <3> QED BY <2>1
  <2>3. Len(mb[i - 1]) \in Nat /\ Len(mb[i]) = Len(mb[i - 1]) + lens[i] /\ Len(mb[i]) <= Len(body) /\ lens[i] < 2^(Width - 1)
    BY PieceThere
  <2>4. /\ Sized(d, lens[i]) /\ Len(d) # 0 /\ (Long \/ Len(d) <= Digits) /\ Len(me[i - 1]) \in Nat /\ Len(me[i]) = Len(me[i - 1]) + Len(d) + lens[i] + 4
        /\ Len(me[i]) <= Len(w)
        /\ HexAt(Len(me[i - 1]), d) /\ CrlfAt(Len(me[i - 1]) + Len(d))
        /\ BodyAt(Len(me[i - 1]) + Len(d) + 2, Len(mb[i - 1]), lens[i])
        /\ CrlfAt(Len(me[i - 1]) + Len(d) + lens[i] + 2)
    <3>1. Made(d, lens[i], Len(me[i - 1]), Len(me[i]), w, Len(mb[i - 1]))
      BY ChunkMade
    <3> HIDE DEF d
    <3> QED BY <3>1 DEF Made
  <2>5. Len(d) \in Nat /\ lens[i] \in Nat /\ lens[i] # 0
    BY <1>1, <2>4 DEF Sized
  <2> HIDE DEF n, l, h, e, g, d
  <2>7. e[i] - 2 = Len(me[i - 1]) + Len(d) + lens[i] + 2
    <3>1. \A x, y, z \in Nat : (x + y + z + 4) - 2 = x + y + z + 2
      OBVIOUS
    <3> QED BY <2>2, <2>4, <2>5, <3>1
  <2>8. l[i] \in Nat /\ (l[i] = 0 <=> i = n)
    BY <2>1, <2>2, <2>5
  <2>9. Sized(h[i], l[i]) /\ Len(h[i]) # 0 /\ (Long \/ Len(h[i]) <= Digits)
    BY <2>2, <2>4
  <2>10. e[i - 1] \in Nat /\ e[i] = e[i - 1] + Len(h[i]) + l[i] + 4 /\ e[i] <= e[n]
    BY <1>3, <2>2, <2>4
  <2>11. g[i - 1] \in Nat /\ g[i] = g[i - 1] + l[i] /\ g[i] <= Len(body)
    BY <2>2, <2>3
  <2>12. HexAt(e[i - 1], h[i]) /\ CrlfAt(e[i - 1] + Len(h[i])) /\ BodyAt(e[i - 1] + Len(h[i]) + 2, g[i - 1], l[i])
    BY <2>2, <2>4
  <2>13. CrlfAt(e[i] - 2)
    BY <2>4, <2>7
  <2> QED BY <2>8, <2>9, <2>10, <2>11, <2>12, <2>13 DEF ChunkOK
<1>6. ChunkOK(n, n, l, h, e, g)
  <2> DEFINE d == <<"0">>
  <2>1. l[n] = 0 /\ h[n] = d /\ e[n] = Len(w) /\ e[n - 1] = Len(me[k]) /\ g[n] = Len(body) /\ g[n - 1] = Len(body)
    <3> HIDE DEF n
    <3> QED BY <1>1, <1>2
  <2>2. /\ Len(me[k]) \in Nat /\ Len(w) = Len(me[k]) + Len(d) + 0 + 4
        /\ HexAt(Len(me[k]), d) /\ CrlfAt(Len(me[k]) + Len(d)) /\ BodyAt(Len(me[k]) + Len(d) + 2, Len(body), 0)
        /\ CrlfAt(Len(me[k]) + Len(d) + 0 + 2)
    BY LastMade
  <2>3. Sized(d, 0) /\ Len(d) = 1 /\ Len(d) <= Digits
    BY LastIs
  <2>4. Len(body) \in Nat
    BY BodyIs
  <2> HIDE DEF n, l, h, e, g, d
  <2>5. e[n] - 2 = Len(me[k]) + Len(d) + 0 + 2 /\ Len(w) \in Nat
    BY <2>1, <2>2, <2>3
  <2>6. l[n] \in Nat /\ l[n] = 0
    BY <2>1
  <2>7. Sized(h[n], l[n]) /\ Len(h[n]) # 0 /\ Len(h[n]) <= Digits
    BY <2>1, <2>3
  <2>8. e[n - 1] \in Nat /\ e[n] = e[n - 1] + Len(h[n]) + l[n] + 4 /\ e[n] <= e[n]
    BY <2>1, <2>2, <2>5
  <2>9. g[n - 1] \in Nat /\ g[n] = g[n - 1] + l[n] /\ g[n] <= Len(body)
    BY <2>1, <2>4
  <2>10. HexAt(e[n - 1], h[n]) /\ CrlfAt(e[n - 1] + Len(h[n])) /\ BodyAt(e[n - 1] + Len(h[n]) + 2, g[n - 1], l[n])
    BY <2>1, <2>2
  <2>11. CrlfAt(e[n] - 2)
    BY <2>2, <2>5
  <2> QED BY <2>6, <2>7, <2>8, <2>9, <2>10, <2>11 DEF ChunkOK
<1>7. \A i \in 1 .. n : i = n \/ i \in 1 .. k
  BY <1>1
<1> HIDE DEF n, l, h, e, g
<1>8. Chunks(n, l, h, e, g)
  BY <1>2, <1>3, <1>4, <1>5, <1>6, <1>7 DEF Chunks
<1> QED BY <1>8

LEMMA DecodingStarts ==
  ASSUME NEW n, NEW l, NEW h, NEW e, NEW g, Chunks(n, l, h, e, g), BodyTypes,
         step = "size", at = 0, remain = 0, out = <<>>, verdict = "reading"
  PROVE  Decoding(n, l, h, e, g)
<1>1. n \in Nat \ {0} /\ e[0] = 0 /\ g[0] = 0
  BY DEF Chunks
<1>2. 1 \in 1 .. n /\ 1 - 1 = 0
  BY <1>1
<1>3. Out(0)
  <2>1. Len(body) \in Nat
    BY BodyIs
  <2> QED BY <2>1 DEF Out
<1>4. InSize(1, n, l, h, e, g)
  BY <1>1, <1>2, <1>3 DEF InSize
<1> QED BY <1>2, <1>4 DEF Decoding

LEMMA ArrivedIs ==
  ASSUME NEW w \in Seq(Chars), NEW n \in 0 .. Len(w), bytes = SubSeq(w, 1, n), cutOff = (n < Len(w))
  PROVE  bytes \in Seq(Chars) /\ Arrived(w) /\ cutOff \in BOOLEAN
<1>1. Len(w) \in Nat
  BY LenNat
<1>2. \A x \in 1 .. Len(w) : w[x] \in Chars
  BY ElementOfSeq
<1>3. 1 \in Int /\ n \in Int /\ 1 <= n + 1 /\ n - 1 + 1 = n /\ \A x \in 1 .. n : 1 + x - 1 = x /\ x \in 1 .. Len(w)
  BY <1>1
<1> DEFINE u == SubSeq(w, 1, n)
<1>4. \A x \in 1 .. n : w[x] \in Chars
  BY <1>2, <1>3
<1>5. u \in Seq(Chars) /\ Len(u) = n - 1 + 1
  BY <1>3, <1>4, Taken
<1>6. \A x \in 1 .. n - 1 + 1 : u[x] = w[1 + x - 1]
  BY <1>3, <1>4, Taken
<1> HIDE DEF u
<1>7. bytes = u /\ Len(u) = n /\ \A x \in 1 .. n : u[x] = w[x]
  BY <1>3, <1>5, <1>6 DEF u
<1>8. Len(bytes) \in Nat /\ Len(bytes) <= Len(w) /\ (\A x \in 1 .. Len(bytes) : bytes[x] = w[x])
  <2> DEFINE L == Len(w)
  <2>1. n \in Nat /\ n <= L
    BY <1>1
  <2>2. Len(bytes) = n
    BY <1>7
  <2> QED BY <1>7, <2>1, <2>2
<1>9. (cutOff <=> Len(bytes) < Len(w)) /\ cutOff \in BOOLEAN
  <2>1. Len(bytes) = n
    BY <1>7
  <2>2. cutOff = (Len(bytes) < Len(w))
    BY <2>1, Zenon
  <2>3. (Len(bytes) < Len(w)) \in BOOLEAN
    OBVIOUS
  <2> QED BY <2>2, <2>3, Zenon
<1> QED BY <1>1, <1>5, <1>7, <1>8, <1>9 DEF Arrived

\* The client's only chunk.
LEMMA ClientStarts ==
  ASSUME BodyTypes, NEW w, w = Bodies!Chunk(body, Width - 1) \o Bodies!LastChunk, Arrived(w),
         step = "size", at = 0, remain = 0, out = <<>>, verdict = "reading"
  PROVE  ClientWrong
<1> DEFINE h == Bodies!ToHex(Len(body), Width - 1)
           c == ChunkOf(h, body)
           z == Bodies!LastChunk
           k == Len(h)
           m == Len(body)
<1>1. m \in Nat /\ m < 2^(Width - 1) /\ body \in Seq(Chars) /\ \A x \in 1 .. m : body[x] \in Chars
  BY BodyIs DEF BodyTypes
<1>2. Width - 1 \in Nat
  BY WidthIs
<1>3. m \div 2^((Width - 1) % 4) = ClientSize
  BY WidthIs DEF ClientSize
<1>4. /\ Len(h) \in Nat /\ DOMAIN h = 1 .. Len(h) /\ \A i \in 1 .. Len(h) : h[i] \in HexSet
      /\ (Len(h) = 0 <=> ClientSize = 0) /\ Bodies!ToInteger(h) = ClientSize /\ h \in Seq(HexSet)
  BY <1>1, <1>2, <1>3, ToHexIs
<1>5. w = c \o z
  BY DEF Bodies!Chunk, ChunkOf
<1> HIDE DEF h
<1>6. Sized(h, ClientSize)
  BY <1>4 DEF Sized
<1>7. h \in Seq(Chars) /\ body \in Seq(Chars)
  BY <1>1, <1>4, AreChars
<1>0. c \in Seq(Chars) /\ m \in Nat
  BY <1>1, <1>7, ChunkSpelled DEF ChunkOf
<1>8. /\ Len(c) = k + m + 4 /\ \A x \in 1 .. k : c[x] = h[x]
      /\ c[k + 1] = "cr" /\ c[k + 2] = "lf"
      /\ \A x \in 1 .. m : c[k + 2 + x] = body[x]
      /\ c[k + m + 3] = "cr" /\ c[k + m + 4] = "lf"
  BY <1>7, ChunkSpelled DEF ChunkOf
<1>9. Len(z) = 5
  BY LastIs
<1>z. z \in Seq(Chars)
  BY LastIs
<1> HIDE DEF c, z
<1>10. Len(w) = Len(c) + 5 /\ (\A x \in 1 .. Len(c) : w[x] = c[x])
  <2>1. Len(c \o z) = Len(c) + Len(z) /\ \A x \in 1 .. Len(c) : (c \o z)[x] = c[x]
    BY <1>0, <1>z, Behind
  <2> QED BY <1>5, <1>9, <2>1
<1> DEFINE n == Len(c)
           L == Len(bytes)
<1>12. k \in Nat /\ m \in Nat /\ n = k + m + 4 /\ L \in Nat /\ L <= n + 5 /\ \A x \in 1 .. L : bytes[x] = w[x]
  BY <1>0, <1>4, <1>8, <1>10 DEF Arrived
<1> HIDE DEF n, L, k, m
<1>13. \A x \in 1 .. n : w[x] = c[x]
  BY <1>10 DEF n
<1>14. HexAt(0, h)
  <2> SUFFICES ASSUME NEW x \in 1 .. k, 0 + x <= L PROVE bytes[0 + x] = h[x]
    BY DEF HexAt, k, L
  <2>1. 0 + x = x /\ x \in 1 .. L /\ x \in 1 .. n
    BY <1>12
  <2>2. c[x] = h[x]
    BY <1>8
  <2>3. w[x] = c[x] /\ bytes[x] = w[x]
    BY <1>12, <1>13, <2>1
  <2> QED BY <2>1, <2>2, <2>3
<1>15. CrlfAt(k)
  <2>1. k + 1 \in 1 .. n /\ k + 2 \in 1 .. n /\ (k + 1 <= L => k + 1 \in 1 .. L) /\ (k + 2 <= L => k + 2 \in 1 .. L)
    BY <1>12
  <2> QED BY <1>8, <1>12, <1>13, <2>1 DEF CrlfAt, L
<1>16. L <= k + m + 9
  BY <1>12
<1>17. ClientBytes(h)
  BY <1>4, <1>6, <1>14, <1>15, <1>16 DEF ClientBytes, L, k, m
<1>18. ClientStart
  BY DEF ClientStart
<1> QED BY <1>17, <1>18 DEF ClientWrong

LEMMA BodyInit == ASSUME Bodies!Init PROVE BodyInv
<1>1. PICK f \in {"length", "chunked", "client"}, pieces \in Contents :
          LET full == Bodies!Encode(f, pieces)
          IN /\ framing = f /\ body = Bodies!FlattenSeq(pieces)
             /\ \E n \in 0 .. Len(full) : bytes = SubSeq(full, 1, n) /\ cutOff = (n < Len(full))
             /\ at = 0 /\ step = "size" /\ eofSeen = FALSE
             /\ remain = IF f = "length" THEN Len(Bodies!FlattenSeq(pieces)) ELSE 0
             /\ out = <<>> /\ verdict = "reading"
  BY Zenon DEF Bodies!Init, framing, body, bytes, cutOff, at, step, eofSeen, remain, out, verdict
<1> DEFINE full == Bodies!Encode(f, pieces)
           k == Len(pieces)
           lens == [i \in 1 .. k |-> Len(pieces[i])]
<1>3. /\ framing = f /\ body = Bodies!FlattenSeq(pieces)
      /\ at = 0 /\ step = "size" /\ eofSeen = FALSE
      /\ remain = (IF f = "length" THEN Len(body) ELSE 0)
      /\ out = <<>> /\ verdict = "reading"
  BY <1>1
<1>4. PICK n \in 0 .. Len(full) : bytes = SubSeq(full, 1, n) /\ cutOff = (n < Len(full))
  BY <1>1, Zenon
<1> HIDE DEF full
<1>2. pieces \in Seq(Seq(Chars) \ {<<>>}) /\ Len(Bodies!FlattenSeq(pieces)) < 2^(Width - 1)
  <2>1. Bodies!Bytes = Chars
    BY HexDigitsAre DEF Bodies!Bytes, Chars
  <2>2. Contents \subseteq Seq(Seq(Bodies!Bytes) \ {<<>>}) /\ \A q \in Contents : Len(Bodies!FlattenSeq(q)) < 2^(Width - 1)
    BY MessageAssumption, Zenon DEF Bodies!BodyAssumption
  <2>3. Contents \subseteq Seq(Seq(Chars) \ {<<>>})
    BY <2>1, <2>2, Zenon
  <2> QED BY <2>2, <2>3, Zenon
<1>6. /\ k \in Nat /\ Len(pieces) = k /\ DOMAIN pieces = 1 .. k
      /\ \A i \in 1 .. k : pieces[i] \in Seq(Chars) /\ Len(pieces[i]) = lens[i]
  <2> DEFINE V == Seq(Chars) \ {<<>>}
  <2>1. Len(pieces) \in Nat /\ DOMAIN pieces = 1 .. Len(pieces)
    BY <1>2, LenProperties
  <2>2. \A i \in 1 .. Len(pieces) : pieces[i] \in V
    <3>1. pieces \in Seq(V)
      BY <1>2
    <3> HIDE DEF V
    <3> QED BY <3>1, ElementOfSeq
  <2> QED BY <2>1, <2>2
<1>5. k \in Nat /\ \A i \in 1 .. k : lens[i] \in Nat \ {0}
  <2> SUFFICES ASSUME NEW i \in 1 .. k PROVE lens[i] \in Nat \ {0}
    BY <1>6
  <2> DEFINE p == pieces[i]
  <2>1. p \in Seq(Chars)
    BY <1>6
  <2>2. p # <<>>
    <3> DEFINE V == Seq(Chars) \ {<<>>}
    <3>1. pieces \in Seq(V) /\ i \in 1 .. Len(pieces)
      BY <1>2
    <3>2. pieces[i] \in V
      <4> HIDE DEF V
      <4> QED BY <3>1, ElementOfSeq
    <3> QED BY <3>2
  <2>3. Len(p) = lens[i]
    BY <1>6
  <2> HIDE DEF p, lens, k
  <2>4. Len(p) \in Nat /\ Len(p) # 0
    BY <2>1, <2>2, LenNat, EmptySeq
  <2> QED BY <2>3, <2>4
<1>7. k = 0 => pieces = <<>>
  BY <1>2, EmptySeq
<1> HIDE DEF lens, k
<1>8. PICK mb : Parts(mb, pieces, Chars) /\ Bodies!FlattenSeq(pieces) = mb[k]
  <2>1. Len(pieces) \in Nat /\ (\A i \in 1 .. Len(pieces) : pieces[i] \in Seq(Chars)) /\ (Len(pieces) = 0 => pieces = <<>>)
    BY <1>5, <1>6, <1>7
  <2>2. \E made : Parts(made, pieces, Chars) /\ Bodies!FlattenSeq(pieces) = made[Len(pieces)]
    BY <2>1, FlattenParts, Zenon
  <2>3. Len(pieces) = k
    BY <1>6
  <2> QED BY <2>2, <2>3, Zenon
<1>9. body = mb[k] /\ body \in Seq(Chars) /\ Len(body) < 2^(Width - 1)
  <2>1. mb[k] \in Seq(Chars)
    <3>1. k \in 0 .. Len(pieces)
      BY <1>5, <1>6
    <3> QED BY <1>8, <3>1 DEF Parts
  <2> QED BY <1>2, <1>3, <1>8, <2>1
<1>10. body \in Seq(Chars)
  BY <1>9
<1>16. ASSUME NEW i \in 1 .. k PROVE lens[i] < 2^(Width - 1)
  <2>1. i \in 0 .. k /\ i - 1 \in 0 .. k
    BY <1>6
  <2>2. mb[i - 1] \in Seq(Chars) /\ mb[i] = mb[i - 1] \o pieces[i] /\ pieces[i] \in Seq(Chars) /\ Len(pieces[i]) = lens[i]
    BY <1>6, <1>8, <2>1 DEF Parts
  <2>3. StartsWith(mb[k], mb[i])
    BY <1>6, <1>8, <2>1, PartsStart
  <2> DEFINE a == mb[i - 1]
             q == pieces[i]
             b == Len(body)
             c == 2^(Width - 1)
  <2>4. a \in Seq(Chars) /\ q \in Seq(Chars) /\ mb[i] = a \o q /\ Len(q) = lens[i]
    BY <2>2
  <2> HIDE DEF a, q
  <2>5. Len(a \o q) = Len(a) + Len(q) /\ Len(a) \in Nat /\ Len(q) \in Nat
    BY <2>4, Behind
  <2>6. Len(a \o q) <= b /\ b \in Nat /\ b < c /\ c \in Nat
    BY <1>9, <2>3, <2>4, LenNat, Halved DEF StartsWith
  <2> HIDE DEF b, c
  <2>7. Len(q) < c
    BY <2>5, <2>6
  <2> QED BY <2>4, <2>7 DEF c
<1>11. ASSUME full \in Seq(Chars) PROVE BodyTypes /\ Arrived(full)
  <2> HIDE DEF full
  <2>1. bytes \in Seq(Chars) /\ Arrived(full) /\ cutOff \in BOOLEAN
    BY <1>4, <1>11, ArrivedIs
  <2>2. at \in 0 .. Len(bytes)
    BY <1>3, <2>1 DEF Arrived
  <2>3. remain \in Nat
    BY <1>3, <1>9, LenNat
  <2>4. out \in Seq(Chars)
    BY <1>3
  <2>5. framing \in {"length", "chunked", "client"} /\ eofSeen \in BOOLEAN /\ step = "size" /\ verdict = "reading"
    BY <1>3
  <2> QED BY <1>9, <2>1, <2>2, <2>3, <2>4, <2>5 DEF BodyTypes
<1>12. CASE f = "length"
  <2>1. full = body
    BY <1>3, <1>12 DEF Bodies!Encode, full
  <2>2. BodyTypes /\ Arrived(body)
    BY <1>10, <1>11, <2>1
  <2>3. Len(body) \in Nat
    BY <2>2, BodyIs
  <2>4. Out(at)
    BY <1>3, <2>3 DEF Out
  <2>5. remain = Len(body) - at
    BY <1>3, <1>12, <2>3
  <2>6. Limited
    BY <1>3, <2>2, <2>4, <2>5 DEF Limited, Arrived
  <2> QED BY <1>3, <1>12, <2>2, <2>6 DEF BodyInv, Wrong
<1>13. CASE f = "chunked"
  <2> DEFINE chunks == [i \in DOMAIN pieces |-> Bodies!Chunk(pieces[i], Width)]
  <2>1. full = Bodies!FlattenSeq(chunks) \o Bodies!LastChunk
    BY <1>13 DEF Bodies!Encode, full
  <2>2. Len(chunks) = k /\ \A i \in 1 .. k : chunks[i] = ChunkOf(Bodies!ToHex(lens[i], Width), pieces[i])
    <3>1. Len(chunks) = k /\ \A i \in 1 .. k : chunks[i] = Bodies!Chunk(pieces[i], Width)
      BY <1>5, <1>6
    <3> HIDE DEF chunks
    <3> QED BY <1>6, <3>1 DEF Bodies!Chunk, ChunkOf
  <2>3. k = 0 => chunks = <<>>
    BY <1>6
  <2> HIDE DEF chunks
  <2>4. \A i \in 1 .. k : chunks[i] \in Seq(Chars)
    <3> SUFFICES ASSUME NEW i \in 1 .. k PROVE chunks[i] \in Seq(Chars)
      OBVIOUS
    <3> DEFINE h == Bodies!ToHex(lens[i], Width)
               p == pieces[i]
    <3>1. lens[i] < 2^(Width - 1)
      BY <1>16
    <3>2. h \in Seq(HexSet)
      <4>1. lens[i] \in Nat
        BY <1>5
      <4> QED BY <3>1, <4>1, SizeWritten DEF Sized
    <3>3. h \in Seq(Chars) /\ p \in Seq(Chars)
      BY <1>6, <3>2, AreChars
    <3> HIDE DEF h, p
    <3>4. ChunkOf(h, p) \in Seq(Chars)
      BY <3>3, ChunkSpelled DEF ChunkOf
    <3> QED BY <2>2, <3>4 DEF h, p
  <2>5. PICK me : Parts(me, chunks, Chars) /\ Bodies!FlattenSeq(chunks) = me[k]
    <3>1. Len(chunks) \in Nat /\ (\A i \in 1 .. Len(chunks) : chunks[i] \in Seq(Chars)) /\ (Len(chunks) = 0 => chunks = <<>>)
      BY <1>5, <2>2, <2>3, <2>4
    <3> QED BY <2>2, <3>1, FlattenParts
  <2>6. full \in Seq(Chars) /\ full = me[k] \o Bodies!LastChunk
    <3>1. k \in 0 .. Len(chunks)
      BY <1>5, <2>2
    <3>2. me[k] \in Seq(Chars) /\ Bodies!LastChunk \in Seq(Chars)
      BY <2>5, <3>1, LastIs DEF Parts
    <3>3. me[k] \o Bodies!LastChunk \in Seq(Chars)
      BY <3>2, Behind
    <3> QED BY <2>1, <2>5, <3>3
  <2>7. BodyTypes /\ Arrived(full)
    BY <1>11, <2>6
  <2> HIDE DEF full
  <2>8. Written(k, lens, pieces, mb, chunks, me, full)
    BY <1>5, <1>6, <1>8, <1>9, <2>2, <2>5, <2>6, <2>7 DEF Written
  <2>9. PICK m, l, h, e, g : Chunks(m, l, h, e, g)
    BY <2>7, <2>8, ChunksOf
  <2>10. Decoding(m, l, h, e, g)
    <3>1. remain = 0
      BY <1>3, <1>13
    <3> QED BY <1>3, <2>7, <2>9, <3>1, DecodingStarts
  <2> QED BY <1>3, <1>13, <2>7, <2>9, <2>10 DEF BodyInv, Wrong
<1>14. CASE f = "client" /\ k = 0
  <2>1. full = Bodies!LastChunk
    BY <1>7, <1>14 DEF Bodies!Encode, full
  <2>2. full \in Seq(Chars)
    BY <2>1, LastIs, AreChars
  <2>3. BodyTypes /\ Arrived(full)
    BY <1>11, <2>2
  <2> HIDE DEF full
  <2>4. body = <<>>
    BY <1>8, <1>9, <1>14 DEF Parts
  <2> DEFINE chunks == <<>>
             me == [i \in 0 .. 0 |-> <<>>]
  <2>5. me[0] = <<>> /\ Len(chunks) = 0
    OBVIOUS
  <2>6. Parts(me, chunks, Chars)
    <3>1. \A i \in 0 .. 0 : me[i] \in Seq(Chars)
      OBVIOUS
    <3>2. 1 .. 0 = {}
      OBVIOUS
    <3> HIDE DEF me, chunks
    <3> QED BY <2>5, <3>1, <3>2 DEF Parts
  <2>7. full = me[0] \o Bodies!LastChunk
    <3>1. <<>> \o Bodies!LastChunk = Bodies!LastChunk
      BY LastIs
    <3> HIDE DEF me
    <3> QED BY <2>1, <2>5, <3>1
  <2> HIDE DEF me, chunks
  <2>8. Written(k, lens, pieces, mb, chunks, me, full)
    <3>1. \A i \in 1 .. k : FALSE
      BY <1>14
    <3> QED BY <1>5, <1>6, <1>8, <1>9, <1>14, <2>3, <2>5, <2>6, <2>7, <3>1 DEF Written
  <2>9. PICK m, l, h, e, g : Chunks(m, l, h, e, g)
    BY <2>3, <2>8, ChunksOf
  <2>10. Decoding(m, l, h, e, g)
    <3>1. remain = 0
      BY <1>3, <1>14
    <3> QED BY <1>3, <2>3, <2>9, <3>1, DecodingStarts
  <2> QED BY <1>3, <1>14, <2>3, <2>4, <2>9, <2>10 DEF BodyInv, Wrong
<1>15. CASE f = "client" /\ k # 0
  <2>1. pieces # <<>>
    BY <1>6, <1>15
  <2>2. full = Bodies!Chunk(body, Width - 1) \o Bodies!LastChunk
    BY <1>3, <1>15, <2>1 DEF Bodies!Encode, full
  <2>3. full \in Seq(Chars)
    <3> DEFINE h == Bodies!ToHex(Len(body), Width - 1)
    <3>1. Len(body) \in Nat
      BY <1>9, LenNat
    <3>2. Width - 1 \in Nat
      BY WidthIs
    <3>3. h \in Seq(HexSet)
      BY <1>9, <3>1, <3>2, ToHexIs
    <3>4. h \in Seq(Chars)
      BY <3>3, AreChars
    <3>5. Bodies!Chunk(body, Width - 1) = ChunkOf(h, body)
      BY DEF Bodies!Chunk, ChunkOf
    <3> HIDE DEF h
    <3>6. ChunkOf(h, body) \in Seq(Chars)
      BY <1>10, <3>4, ChunkSpelled DEF ChunkOf
    <3>7. Bodies!LastChunk \in Seq(Chars)
      BY LastIs
    <3>8. ChunkOf(h, body) \o Bodies!LastChunk \in Seq(Chars)
      BY <3>6, <3>7, Behind
    <3> QED BY <2>2, <3>5, <3>8
  <2>4. BodyTypes /\ Arrived(full)
    BY <1>11, <2>3
  <2> HIDE DEF full
  <2>5. ClientWrong
    <3>1. remain = 0
      BY <1>3, <1>15
    <3> QED BY <1>3, <2>2, <2>4, <3>1, ClientStarts
  <2>6. Wrong
    <3> SUFFICES ASSUME body = <<>> PROVE FALSE
      BY <1>3, <1>15 DEF Wrong
    <3> DEFINE g == [i \in 0 .. k |-> Len(mb[i])]
    <3>1. 1 \in 1 .. k /\ 1 \in 0 .. k /\ 1 - 1 = 0 /\ 0 \in 0 .. k
      BY <1>5, <1>15
    <3>2. mb[0] = <<>> /\ mb[1] = mb[0] \o pieces[1] /\ pieces[1] \in Seq(Chars) /\ Len(pieces[1]) # 0
      BY <1>5, <1>6, <1>8, <3>1 DEF Parts
    <3>3. StartsWith(mb[k], mb[1])
      BY <1>5, <1>6, <1>8, <3>1, PartsStart
    <3>4. mb[1] = pieces[1]
      <4> DEFINE p == pieces[1]
      <4>1. p \in Seq(Chars) /\ mb[1] = <<>> \o p
        BY <3>2
      <4> HIDE DEF p
      <4>2. <<>> \o p = p
        BY <4>1
      <4> QED BY <4>1, <4>2 DEF p
    <3>5. Len(mb[k]) = 0
      BY <1>9
    <3>6. Len(mb[1]) <= 0 /\ Len(mb[1]) \in Nat
      BY <3>2, <3>3, <3>4, <3>5, LenNat DEF StartsWith
    <3> QED BY <3>2, <3>4, <3>6
  <2> QED BY <1>3, <1>15, <2>4, <2>5, <2>6 DEF BodyInv, Wrong
<1> QED BY <1>12, <1>13, <1>14, <1>15

\* The part that is a body keeps the invariant.
WholeInv == part = "body" => BodyInv

LEMMA WholeInvariant == MessageSpec => []WholeInv
<1>1. MessageInit => WholeInv
  BY BodyInit DEF MessageInit, WholeInv
<1>2. WholeInv /\ [MessageNext]_messageVars => WholeInv'
  <2> SUFFICES ASSUME WholeInv, [MessageNext]_messageVars, part' = "body" PROVE BodyInv'
    BY DEF WholeInv
  <2>1. part = "body" /\ BodyInv
    BY DEF WholeInv, MessageNext, messageVars
  <2>2. Bodies!Next \/ UNCHANGED Bodies!vars
    BY <2>1 DEF MessageNext, messageVars, Bodies!vars
  <2> QED BY <2>1, <2>2, BodyNext
<1> QED BY <1>1, <1>2, PTL DEF MessageSpec

\* Any pieces of any bytes of the alphabet, read with any buffers, any cut, any width of the length type that is a
\* multiple of eight (64 is one) and any number of digits read that fits it: what the server reads is the beginning of
\* what was written, a chunked body that ends is whole and its last line end is left, one that fails was cut or has
\* as many bytes as a number of more digits; the client's chunk is never read back.
THEOREM BodiesAreWhole == MessageSpec => []BodyWhole
<1>1. WholeInv => BodyWhole
  BY BodyMeans DEF WholeInv, BodyWhole
<1> QED BY <1>1, WholeInvariant, PTL

-----------------------------------------------------------------------------
\* What is put together of parts.

\* What stands behind p in what begins with p and c.
LEMMA JoinThere ==
  ASSUME NEW V, NEW w, NEW p \in Seq(V), NEW c \in Seq(V), StartsWith(w, p \o c)
  PROVE  Len(p) + Len(c) <= Len(w) /\ \A x \in 1 .. Len(c) : w[Len(p) + x] = c[x]
<1> DEFINE j == p \o c
<1>1. Len(p) \in Nat /\ Len(c) \in Nat /\ Len(j) = Len(p) + Len(c)
  BY Behind
<1>2. \A x \in 1 .. Len(c) : j[Len(p) + x] = c[x]
  BY Behind
<1> HIDE DEF j
<1>3. Len(j) <= Len(w) /\ \A x \in 1 .. Len(j) : w[x] = j[x]
  BY DEF StartsWith, j
<1>4. ASSUME NEW x \in 1 .. Len(c) PROVE w[Len(p) + x] = c[x]
  <2>1. Len(p) + x \in 1 .. Len(j)
    BY <1>1
  <2> QED BY <1>2, <1>3, <2>1
<1> QED BY <1>1, <1>3, <1>4

\* The n parts of q, and where part x of them is in the whole.
Assembled(q, n, V, made) == /\ n \in Nat /\ Len(q) = n /\ (\A i \in 1 .. n : q[i] \in Seq(V))
                            /\ Parts(made, q, V)
Lies(q, n, made, x) == /\ Len(made[x - 1]) \in Nat /\ Len(q[x]) \in Nat /\ Len(made[n]) \in Nat
                       /\ Len(made[x]) = Len(made[x - 1]) + Len(q[x]) /\ Len(made[x]) <= Len(made[n])
                       /\ \A y \in 1 .. Len(q[x]) : made[n][Len(made[x - 1]) + y] = q[x][y]

LEMMA PartThere ==
  ASSUME NEW V, NEW q, NEW n, NEW made, Assembled(q, n, V, made), NEW x \in 1 .. n
  PROVE  Lies(q, n, made, x)
<1>0. n \in Nat /\ Len(q) = n /\ (\A i \in 1 .. n : q[i] \in Seq(V)) /\ Parts(made, q, V)
  BY DEF Assembled
<1>1. x \in 0 .. n /\ x - 1 \in 0 .. n /\ n \in 0 .. n
  BY <1>0
<1>2. made[x - 1] \in Seq(V) /\ made[n] \in Seq(V) /\ made[x] = made[x - 1] \o q[x] /\ q[x] \in Seq(V)
  BY <1>0, <1>1 DEF Parts
<1>3. StartsWith(made[n], made[x])
  BY <1>0, <1>1, PartsStart
<1> DEFINE a == made[x - 1]
           p == q[x]
           w == made[n]
           b == made[x]
<1>4. a \in Seq(V) /\ p \in Seq(V) /\ w \in Seq(V) /\ b = a \o p /\ StartsWith(w, b)
  BY <1>2, <1>3
<1> HIDE DEF a, p, w, b
<1>5. Len(a) \in Nat /\ Len(p) \in Nat /\ Len(w) \in Nat
  BY <1>4, LenNat
<1>6. Len(b) = Len(a) + Len(p)
  BY <1>4, Behind
<1>7. StartsWith(w, a \o p)
  BY <1>4
<1>8. Len(a) + Len(p) <= Len(w) /\ \A y \in 1 .. Len(p) : w[Len(a) + y] = p[y]
  BY <1>4, <1>7, JoinThere
<1> QED BY <1>5, <1>6, <1>8 DEF a, p, w, b, Lies
=============================================================================
