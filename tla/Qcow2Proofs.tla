----------------------------- MODULE Qcow2Proofs -----------------------------
(***************************************************************************)
(* The export of a disk as a qcow2 image, for any disk, base and maps and  *)
(* any sizes of clusters and tables.                                       *)
(***************************************************************************)
EXTENDS Qcow2Export, FiniteSetTheorems, SequenceTheorems, NaturalsInduction,
        WellFoundedInduction, TLAPS

-----------------------------------------------------------------------------
(* Numbers *)

\* What holds for 0 and for i + 1 whenever for i holds for every natural
\* number, or there would be a smallest for which it does not.
LEMMA Induction ==
  ASSUME NEW S, 0 \in S, \A i \in Nat : i \in S => i + 1 \in S
  PROVE  \A i \in Nat : i \in S
<1> DEFINE T == Nat \ S
<1> SUFFICES ASSUME T # {} PROVE FALSE
  OBVIOUS
<1>1. PICK x \in T : \A y \in T : ~(<<y, x>> \in OpToRel(<, Nat))
  BY NatLessThanWellFounded, WFMin
<1>2. x \in Nat /\ x \notin S /\ \A y \in Nat \ S : ~(y < x)
  BY <1>1 DEF OpToRel
<1>3. x # 0
  BY <1>2
<1>4. x - 1 \in Nat /\ x - 1 < x /\ (x - 1) + 1 = x
  BY <1>2, <1>3
<1>5. x - 1 \in S
  BY <1>2, <1>4
<1> QED BY <1>2, <1>4, <1>5

Quotient(n, d) == n \div d
Remainder(n, d) == n % d

\* Division with remainder.
LEMMA Division ==
  ASSUME NEW n \in Nat, NEW d \in Nat \ {0}
  PROVE  /\ Quotient(n, d) \in Nat /\ Remainder(n, d) \in 0 .. (d - 1)
         /\ n = Quotient(n, d) * d + Remainder(n, d)
<1>1. PICK q : q = n \div d
  OBVIOUS
<1>2. PICK r : r = n % d
  OBVIOUS
<1>3. q \in Nat
  BY <1>1
<1>4. r \in 0 .. (d - 1)
  BY <1>2
<1>5. n = q * d + r
  BY <1>1, <1>2
<1>6. q = Quotient(n, d) /\ r = Remainder(n, d)
  BY <1>1, <1>2 DEF Quotient, Remainder
<1> QED BY <1>3, <1>4, <1>5, <1>6

\* Multiples are in the order of what is multiplied.
LEMMA Multiples ==
  ASSUME NEW a \in Nat, NEW b \in Nat, NEW d \in Nat \ {0}
  PROVE  /\ a * d \in Nat
         /\ a <= b <=> a * d <= b * d
         /\ (a + 1) * d = a * d + d
<1>1. a * d \in Nat /\ (a + 1) * d = a * d + d
  OBVIOUS
<1>2. ASSUME a <= b PROVE a * d <= b * d
  <2>1. PICK e \in Nat : b = a + e
    BY <1>2
  <2>2. b * d = a * d + e * d /\ e * d \in Nat
    BY <2>1
  <2> QED BY <1>1, <2>2
<1>3. ASSUME ~(a <= b) PROVE ~(a * d <= b * d)
  <2>1. b + 1 <= a /\ b + 1 \in Nat
    BY <1>3
  <2>2. (b + 1) * d <= a * d
    BY <2>1
  <2>3. (b + 1) * d = b * d + d /\ b * d \in Nat
    OBVIOUS
  <2> QED BY <1>1, <2>2, <2>3
<1> QED BY <1>1, <1>2, <1>3

\* What is divided up has as many parts as begin inside it.
LEMMA Parts ==
  ASSUME NEW n \in Nat, NEW d \in Nat \ {0}
  PROVE  /\ DivUp(n, d) \in Nat
         /\ \A k \in Nat : k < DivUp(n, d) <=> k * d < n
<1>1. PICK m \in Nat : m = n + d - 1
  OBVIOUS
<1>2. PICK q : q = Quotient(m, d)
  OBVIOUS
<1>3. PICK r : r = Remainder(m, d)
  OBVIOUS
<1>4. q \in Nat /\ r \in 0 .. (d - 1) /\ m = q * d + r
  BY <1>2, <1>3, Division
<1>5. DivUp(n, d) = q
  BY <1>1, <1>2 DEF DivUp, Quotient
<1>6. ASSUME NEW k \in Nat PROVE k < q <=> k * d < n
  <2>1. q * d \in Nat /\ k * d \in Nat /\ (k + 1) * d = k * d + d
    BY <1>4, Multiples
  <2>2. k + 1 \in Nat /\ (k < q <=> k + 1 <= q)
    BY <1>4
  <2>3. k + 1 <= q <=> (k + 1) * d <= q * d
    BY <1>4, <2>2, Multiples
  <2>4. q <= k <=> q * d <= k * d
    BY <1>4, Multiples
  <2>5. CASE k + 1 <= q
    BY <1>1, <1>4, <2>1, <2>2, <2>3, <2>5
  <2>6. CASE q <= k
    BY <1>1, <1>4, <2>1, <2>2, <2>4, <2>6
  <2> QED BY <1>4, <2>5, <2>6
<1> QED BY <1>4, <1>5, <1>6

\* Where a number is in a table of tables.
LEMMA Place ==
  ASSUME NEW n \in Nat, NEW k \in Nat, NEW d \in Nat \ {0}, k < n,
         NEW q, NEW r, q = Quotient(k, d), r = Remainder(k, d)
  PROVE  /\ q \in Nat /\ q < DivUp(n, d) /\ r \in 0 .. (d - 1)
         /\ q * d + r = k /\ k \in 0 .. (DivUp(n, d) * d - 1)
<1>1. q \in Nat /\ r \in 0 .. (d - 1) /\ k = q * d + r /\ q * d \in Nat
  <2>1. q \in Nat /\ r \in 0 .. (d - 1) /\ k = q * d + r
    BY Division
  <2> QED BY <2>1, Multiples
<1>2. PICK t : t = DivUp(n, d)
  OBVIOUS
<1>3. t \in Nat /\ q < t
  <2>1. t \in Nat /\ (q < t <=> q * d < n)
    BY <1>1, <1>2, Parts
  <2>2. q * d < n
    BY <1>1
  <2> QED BY <2>1, <2>2
<1>4. (q + 1) * d = q * d + d /\ (q + 1) * d <= t * d /\ t * d \in Nat
  <2>1. q + 1 \in Nat /\ q + 1 <= t
    BY <1>1, <1>3
  <2>2. (q + 1) * d <= t * d
    BY <1>3, <2>1, Multiples
  <2> QED BY <1>1, <1>3, <2>2, Multiples
<1>5. k \in 0 .. (t * d - 1)
  BY <1>1, <1>4
<1> QED BY <1>1, <1>2, <1>3, <1>5

-----------------------------------------------------------------------------
(* Bitmaps *)

\* How many are set before one tells where it is in their order.
LEMMA BeforeCounts ==
  ASSUME NEW S \in SUBSET Nat, IsFiniteSet(S), NEW x \in S
  PROVE  /\ Cardinality(S) \in Nat
         /\ Before(S, x) \in 0 .. (Cardinality(S) - 1)
         /\ \A y \in S : Before(S, y) = Before(S, x) => y = x
<1> DEFINE B(y) == {k \in S : k < y}
<1>1. ASSUME NEW y \in S
      PROVE  /\ IsFiniteSet(B(y)) /\ Cardinality(B(y)) \in Nat
             /\ Cardinality(B(y)) < Cardinality(S)
  <2>1. B(y) \in SUBSET S /\ B(y) # S
    OBVIOUS
  <2>2. IsFiniteSet(B(y)) /\ Cardinality(B(y)) <= Cardinality(S) /\ Cardinality(B(y)) # Cardinality(S)
    BY <2>1, FS_Subset
  <2> QED BY <2>2, FS_CardinalityType
<1>2. ASSUME NEW y \in S, NEW z \in S, y < z
      PROVE  Cardinality(B(y)) < Cardinality(B(z))
  <2>1. B(y) \in SUBSET B(z) /\ B(y) # B(z)
    <3>1. y \in B(z) /\ y \notin B(y)
      BY <1>2
    <3>2. \A k \in B(y) : k \in B(z)
      BY <1>2
    <3> HIDE DEF B
    <3> QED BY <3>1, <3>2
  <2>2. IsFiniteSet(B(z)) /\ Cardinality(B(y)) \in Nat /\ Cardinality(B(z)) \in Nat
    BY <1>1
  <2>3. Cardinality(B(y)) <= Cardinality(B(z)) /\ Cardinality(B(y)) # Cardinality(B(z))
    <3> HIDE DEF B
    <3> QED BY <2>1, <2>2, FS_Subset
  <2> QED BY <2>2, <2>3
<1>3. \A y \in S : Before(S, y) = Cardinality(B(y))
  BY DEF Before
<1> HIDE DEF B
<1>4. ASSUME NEW y \in S, Before(S, y) = Before(S, x) PROVE y = x
  <2>1. ~(Cardinality(B(y)) < Cardinality(B(x))) /\ ~(Cardinality(B(x)) < Cardinality(B(y)))
    BY <1>1, <1>3, <1>4
  <2>2. x \in Nat /\ y \in Nat
    OBVIOUS
  <2> QED BY <1>2, <2>1, <2>2
<1>5. Cardinality(S) \in Nat
  BY FS_CardinalityType
<1> QED BY <1>1, <1>3, <1>4, <1>5

\* And every number below how many there are is reached.
LEMMA BeforeReaches ==
  ASSUME NEW S \in SUBSET Nat, IsFiniteSet(S), NEW b \in 0 .. (Cardinality(S) - 1)
  PROVE  \E x \in S : Before(S, x) = b
<1> DEFINE n == Cardinality(S)
           T == 0 .. (n - 1)
           f == [x \in S |-> Before(S, x)]
<1>1. n \in Nat
  BY FS_CardinalityType
<1>2. IsFiniteSet(T) /\ Cardinality(T) = n
  <2>1. 0 \in Int /\ n - 1 \in Int
    BY <1>1
  <2>2. IsFiniteSet(T) /\ Cardinality(T) = IF 0 > n - 1 THEN 0 ELSE (n - 1) - 0 + 1
    <3> HIDE DEF n
    <3> QED BY <2>1, FS_Interval
  <2> HIDE DEF T, n
  <2> QED BY <1>1, <2>2
<1>3. f \in [S -> T]
  BY BeforeCounts
<1>4. \A x, y \in S : f[x] = f[y] => x = y
  BY BeforeCounts
<1>5. f \in Injection(S, T)
  <2> HIDE DEF f, T
  <2>1. DOMAIN f = S
    BY <1>3
  <2> QED BY <1>3, <1>4, <2>1 DEF Injection, IsInjective
<1>6. f \in Surjection(S, T)
  <2> HIDE DEF f, T, n
  <2>1. Cardinality(S) = n
    BY DEF n
  <2> QED BY <1>2, <1>5, <2>1, FS_Injection
<1>7. \A t \in T : \E x \in S : f[x] = t
  <2> HIDE DEF f, T
  <2> QED BY <1>6 DEF Surjection
<1> QED BY <1>7

\* A function on the first n numbers is a sequence.
LEMMA FunctionIsSeq ==
  ASSUME NEW n \in Nat, NEW S, NEW s \in [1 .. n -> S]
  PROVE  s \in Seq(S) /\ Len(s) = n /\ DOMAIN s = 1 .. n
<1>1. s \in Seq(S)
  BY SeqDef
<1> QED BY <1>1

\* And the loops over a bitmap meet them in that order.
LEMMA InOrderIs ==
  ASSUME NEW S \in SUBSET Nat, IsFiniteSet(S)
  PROVE  /\ Cardinality(S) \in Nat
         /\ InOrder(S) \in Seq({InOrder(S)[i] : i \in 1 .. Cardinality(S)})
         /\ Len(InOrder(S)) = Cardinality(S) /\ DOMAIN InOrder(S) = 1 .. Cardinality(S)
         /\ \A x \in S : /\ Before(S, x) + 1 \in 1 .. Cardinality(S)
                         /\ InOrder(S)[Before(S, x) + 1] = x
         /\ \A i \in 1 .. Cardinality(S) : InOrder(S)[i] \in S
<1> DEFINE n == Cardinality(S)
           f == InOrder(S)
<1>1. n \in Nat
  BY FS_CardinalityType
<1>2. f = [i \in 1 .. n |-> CHOOSE k \in S : Before(S, k) = i - 1]
  BY DEF InOrder
<1> HIDE DEF n, f
<1>3. f \in [1 .. n -> {f[i] : i \in 1 .. n}]
  BY <1>2
<1>4. f \in Seq({f[i] : i \in 1 .. n}) /\ Len(f) = n /\ DOMAIN f = 1 .. n
  BY <1>1, <1>3, FunctionIsSeq
<1>5. ASSUME NEW x \in S PROVE Before(S, x) + 1 \in 1 .. n /\ f[Before(S, x) + 1] = x
  <2>1. PICK b : b = Before(S, x)
    OBVIOUS
  <2>2. b \in 0 .. (n - 1) /\ \A y \in S : Before(S, y) = b => y = x
    BY <2>1, BeforeCounts DEF n
  <2>3. b + 1 \in 1 .. n /\ (b + 1) - 1 = b
    BY <1>1, <2>2
  <2>4. f[b + 1] = CHOOSE k \in S : Before(S, k) = b
    BY <1>2, <2>3
  <2>5. (CHOOSE k \in S : Before(S, k) = b) = x
    BY <2>1, <2>2
  <2> QED BY <2>1, <2>3, <2>4, <2>5
<1>6. ASSUME NEW i \in 1 .. n PROVE f[i] \in S
  <2>1. i - 1 \in 0 .. (n - 1)
    BY <1>1
  <2>2. PICK x \in S : Before(S, x) = i - 1
    <3>1. PICK b : b = i - 1
      OBVIOUS
    <3>2. b \in 0 .. (Cardinality(S) - 1)
      BY <2>1, <3>1 DEF n
    <3>3. \E x \in S : Before(S, x) = b
      BY <3>2, BeforeReaches
    <3> QED BY <3>1, <3>3
  <2>3. f[i] = CHOOSE k \in S : Before(S, k) = i - 1
    BY <1>2
  <2> QED BY <2>2, <2>3
<1> QED BY <1>1, <1>4, <1>5, <1>6 DEF n, f

-----------------------------------------------------------------------------
(* Sequences *)

\* The one sequence and then the other.
LEMMA JoinedIs ==
  ASSUME NEW S, NEW s \in Seq(S), NEW t \in Seq(S)
  PROVE  /\ s \o t \in Seq(S) /\ Len(s \o t) = Len(s) + Len(t)
         /\ \A i \in 1 .. Len(s) : (s \o t)[i] = s[i]
         /\ \A i \in 1 .. Len(t) : (s \o t)[Len(s) + i] = t[i]
OBVIOUS

\* What is in the one or in the other.
LEMMA RangeJoined ==
  ASSUME NEW S, NEW s \in Seq(S), NEW t \in Seq(S)
  PROVE  s \o t \in Seq(S) /\ Range(s \o t) = Range(s) \cup Range(t)
<1>1. PICK c : c = s \o t
  OBVIOUS
<1>2. c \in Seq(S) /\ Len(c) = Len(s) + Len(t)
  BY <1>1
<1>3. /\ \A i \in 1 .. Len(s) : c[i] = s[i]
      /\ \A i \in 1 .. Len(t) : c[Len(s) + i] = t[i]
  BY <1>1
<1>4. /\ DOMAIN c = 1 .. Len(c) /\ DOMAIN s = 1 .. Len(s) /\ DOMAIN t = 1 .. Len(t)
      /\ Len(s) \in Nat /\ Len(t) \in Nat
  BY <1>2
<1>5. ASSUME NEW x \in Range(c) PROVE x \in Range(s) \cup Range(t)
  <2>1. PICK i \in DOMAIN c : x = c[i]
    BY <1>5 DEF Range
  <2>2. CASE i <= Len(s)
    BY <1>2, <1>3, <1>4, <2>1, <2>2 DEF Range
  <2>3. CASE i > Len(s)
    <3>1. i - Len(s) \in DOMAIN t /\ Len(s) + (i - Len(s)) = i
      BY <1>2, <1>4, <2>1, <2>3
    <3>2. c[i] = t[i - Len(s)]
      BY <1>3, <1>4, <3>1
    <3> QED BY <2>1, <3>1, <3>2 DEF Range
  <2> QED BY <1>2, <1>4, <2>1, <2>2, <2>3
<1>6. ASSUME NEW x \in Range(s) PROVE x \in Range(c)
  <2>1. PICK i \in DOMAIN s : x = s[i]
    BY <1>6 DEF Range
  <2>2. i \in DOMAIN c /\ c[i] = s[i]
    BY <1>2, <1>3, <1>4, <2>1
  <2> QED BY <2>1, <2>2 DEF Range
<1>7. ASSUME NEW x \in Range(t) PROVE x \in Range(c)
  <2>1. PICK i \in DOMAIN t : x = t[i]
    BY <1>7 DEF Range
  <2>2. Len(s) + i \in DOMAIN c /\ c[Len(s) + i] = t[i]
    BY <1>2, <1>3, <1>4, <2>1
  <2> QED BY <2>1, <2>2 DEF Range
<1> QED BY <1>1, <1>2, <1>5, <1>6, <1>7

\* What is left once the first is gone.
LEMMA RangeTail ==
  ASSUME NEW S, NEW s \in Seq(S), s # <<>>
  PROVE  /\ Tail(s) \in Seq(S) /\ Len(Tail(s)) = Len(s) - 1 /\ Head(s) \in S
         /\ \A x \in Range(s) : x = Head(s) \/ x \in Range(Tail(s))
<1>1. PICK t : t = Tail(s)
  OBVIOUS
<1>2. /\ t \in Seq(S) /\ Len(t) = Len(s) - 1 /\ Len(s) \in Nat \ {0} /\ Head(s) = s[1] /\ s[1] \in S
      /\ \A i \in 1 .. Len(s) - 1 : t[i] = s[i + 1]
  BY <1>1
<1>3. ASSUME NEW x \in Range(s) PROVE x = s[1] \/ x \in Range(t)
  <2>1. PICK i \in DOMAIN s : x = s[i]
    BY <1>3 DEF Range
  <2>2. DOMAIN s = 1 .. Len(s) /\ DOMAIN t = 1 .. Len(t)
    BY <1>2
  <2>3. CASE i # 1
    <3>1. i - 1 \in DOMAIN t /\ (i - 1) + 1 = i /\ i - 1 \in 1 .. Len(s) - 1
      BY <1>2, <2>1, <2>2, <2>3
    <3>2. t[i - 1] = s[i]
      BY <1>2, <3>1
    <3> QED BY <2>1, <3>1, <3>2 DEF Range
  <2> QED BY <2>1, <2>3
<1> QED BY <1>1, <1>2, <1>3

FlatTo(f, s, n) == [i \in 1 .. n |-> IF i = 1 THEN s[i] ELSE f[i - 1] \o s[i]]

\* Sequences can be joined one after the other.
LEMMA FlattenExists ==
  ASSUME NEW s
  PROVE  \A n \in Nat : \E f : f = FlatTo(f, s, n)
<1> DEFINE S == {n \in Nat : \E f : f = FlatTo(f, s, n)}
<1>1. 0 \in S
  <2>1. PICK f : f = [i \in 1 .. 0 |-> 0]
    OBVIOUS
  <2>2. f = FlatTo(f, s, 0)
    BY <2>1 DEF FlatTo
  <2> QED BY <2>2
<1>2. ASSUME NEW n \in Nat, n \in S
      PROVE  n + 1 \in S
  <2>1. PICK f : f = FlatTo(f, s, n)
    BY <1>2
  <2> DEFINE g == [i \in 1 .. n + 1 |-> IF i <= n THEN f[i] ELSE IF i = 1 THEN s[i] ELSE f[i - 1] \o s[i]]
  <2>2. ASSUME NEW i \in 1 .. n + 1
        PROVE  g[i] = IF i = 1 THEN s[i] ELSE g[i - 1] \o s[i]
    <3>1. CASE i <= n
      <4>1. g[i] = f[i] /\ (i # 1 => g[i - 1] = f[i - 1])
        BY <3>1
      <4>2. f[i] = IF i = 1 THEN s[i] ELSE f[i - 1] \o s[i]
        <5>1. i \in 1 .. n
          BY <3>1
        <5> QED BY <2>1, <5>1 DEF FlatTo
      <4> QED BY <4>1, <4>2
    <3>2. CASE ~(i <= n)
      <4>1. i # 1 => i - 1 \in 1 .. n + 1 /\ i - 1 <= n
        BY <3>2
      <4>2. i # 1 => g[i - 1] = f[i - 1]
        BY <4>1
      <4> QED BY <3>2, <4>2
    <3> QED BY <3>1, <3>2
  <2> HIDE DEF g
  <2>3. g = [i \in 1 .. n + 1 |-> g[i]]
    BY DEF g
  <2>4. g = FlatTo(g, s, n + 1)
    BY <2>2, <2>3 DEF FlatTo
  <2> QED BY <2>4
<1> HIDE DEF S
<1>3. \A n \in Nat : n \in S
  BY <1>1, <1>2, Induction
<1> QED BY <1>3 DEF S

\* Joined, they have what any of them has.
LEMMA FlattenRange ==
  ASSUME NEW S, NEW s \in Seq(Seq(S))
  PROVE  /\ FlattenSeq(s) \in Seq(S)
         /\ \A x : x \in Range(FlattenSeq(s)) <=> \E i \in DOMAIN s : x \in Range(s[i])
<1> DEFINE n == Len(s)
           f == CHOOSE h : h = FlatTo(h, s, n)
<1>1. n \in Nat /\ DOMAIN s = 1 .. n /\ \A i \in 1 .. n : s[i] \in Seq(S)
  OBVIOUS
<1>2. CASE n = 0
  <2>1. s = <<>> /\ FlattenSeq(s) = s
    BY <1>2 DEF FlattenSeq
  <2>2. FlattenSeq(s) \in Seq(S) /\ DOMAIN s = {} /\ DOMAIN FlattenSeq(s) = {}
    <3>1. PICK e : e = <<>>
      OBVIOUS
    <3>2. e \in Seq(S) /\ Len(e) = 0
      BY <3>1
    <3>3. DOMAIN e = {}
      BY <3>2
    <3> QED BY <2>1, <3>1, <3>2, <3>3
  <2> QED BY <2>2 DEF Range
<1>3. CASE n # 0
  <2>1. FlattenSeq(s) = f[n]
    BY <1>3 DEF FlattenSeq, FlatTo
  <2>2. f = FlatTo(f, s, n)
    BY <1>1, FlattenExists
  <2> HIDE DEF f, n
  <2> DEFINE P(i) == /\ f[i] \in Seq(S)
                     /\ \A x : x \in Range(f[i]) <=> \E h \in 1 .. i : x \in Range(s[h])
             T == {i \in Nat : i + 1 <= n => P(i + 1)}
  <2>3. 0 \in T
    <3> SUFFICES ASSUME 0 + 1 <= n PROVE P(0 + 1)
      OBVIOUS
    <3>1. 1 \in 1 .. n /\ 0 + 1 = 1
      BY <1>1
    <3>2. f[1] = s[1]
      BY <2>2, <3>1 DEF FlatTo
    <3>3. \A h : h \in 1 .. 1 <=> h = 1
      OBVIOUS
    <3> QED BY <1>1, <3>1, <3>2, <3>3
  <2>4. ASSUME NEW i \in Nat, i \in T PROVE i + 1 \in T
    <3> SUFFICES ASSUME (i + 1) + 1 <= n PROVE P((i + 1) + 1)
      OBVIOUS
    <3>1. PICK k : k = (i + 1) + 1
      OBVIOUS
    <3>2. k \in 1 .. n /\ k # 1 /\ k - 1 = i + 1 /\ i + 1 <= n /\ k - 1 \in Nat
      BY <1>1, <3>1
    <3>3. P(k - 1)
      BY <2>4, <3>2
    <3>4. f[k] = f[k - 1] \o s[k]
      BY <2>2, <3>2 DEF FlatTo
    <3>5. f[k - 1] \in Seq(S) /\ s[k] \in Seq(S)
      BY <1>1, <3>2, <3>3
    <3>6. f[k] \in Seq(S) /\ Range(f[k]) = Range(f[k - 1]) \cup Range(s[k])
      BY <3>4, <3>5, RangeJoined
    <3>7. \A h : h \in 1 .. k <=> h \in 1 .. (k - 1) \/ h = k
      BY <3>2
    <3>8. P(k)
      BY <3>3, <3>6, <3>7
    <3> QED BY <3>1, <3>8
  <2>5. \A i \in Nat : i \in T
    <3> HIDE DEF T
    <3> QED BY <2>3, <2>4, Induction
  <2>6. P(n)
    <3>1. n - 1 \in Nat /\ (n - 1) + 1 = n
      BY <1>1, <1>3
    <3>2. n - 1 \in T
      BY <2>5, <3>1
    <3>3. P((n - 1) + 1)
      BY <1>1, <3>1, <3>2
    <3> QED BY <3>1, <3>3
  <2> QED BY <1>1, <2>1, <2>6 DEF n
<1> QED BY <1>2, <1>3
-----------------------------------------------------------------------------
(* Intervals *)

Intervals == Seq(Int \X Int)
InSome(ivs, c) == \E i \in DOMAIN ivs : Within(ivs[i], c)

\* What a pair of numbers stands for.
LEMMA UpToIs ==
  ASSUME NEW l \in Int, NEW r \in Int
  PROVE  UpTo(l, r) \in Seq(Int) /\ \A c \in Int : c \in Range(UpTo(l, r)) <=> l <= c /\ c <= r
<1>1. PICK u : u = UpTo(l, r)
  OBVIOUS
<1>2. u = [i \in 1 .. (r - l + 1) |-> l + i - 1]
  BY <1>1 DEF UpTo
<1>3. CASE l <= r
  <2>1. r - l + 1 \in Nat /\ u \in [1 .. (r - l + 1) -> Int]
    BY <1>2, <1>3
  <2>2. u \in Seq(Int) /\ DOMAIN u = 1 .. (r - l + 1)
    BY <2>1, FunctionIsSeq
  <2>3. ASSUME NEW c \in Int, l <= c, c <= r PROVE c \in Range(u)
    <3>1. c - l + 1 \in DOMAIN u /\ l + (c - l + 1) - 1 = c
      BY <2>2, <2>3
    <3>2. u[c - l + 1] = c
      BY <1>2, <2>2, <3>1
    <3> QED BY <3>1, <3>2 DEF Range
  <2>4. ASSUME NEW c \in Range(u) PROVE l <= c /\ c <= r
    <3>1. PICK i \in DOMAIN u : c = u[i]
      BY <2>4 DEF Range
    <3> QED BY <1>2, <2>2, <3>1
  <2> QED BY <1>1, <2>2, <2>3, <2>4
<1>4. CASE ~(l <= r)
  <2>1. 1 .. (r - l + 1) = 1 .. 0
    BY <1>4
  <2>2. u \in [1 .. 0 -> Int]
    BY <1>2, <2>1
  <2>3. u \in Seq(Int) /\ DOMAIN u = 1 .. 0
    BY <2>2, FunctionIsSeq
  <2>4. \A c : c \notin Range(u)
    BY <2>3 DEF Range
  <2> QED BY <1>1, <1>4, <2>3, <2>4
<1> QED BY <1>3, <1>4

\* And what a sequence of them.
LEMMA ClustersAre ==
  ASSUME NEW ivs \in Intervals
  PROVE  /\ ClustersOf(ivs) \in Seq(Int)
         /\ \A c \in Int : c \in Range(ClustersOf(ivs)) <=> InSome(ivs, c)
<1> DEFINE s == [i \in DOMAIN ivs |-> UpTo(ivs[i][1], ivs[i][2])]
<1>1. /\ Len(ivs) \in Nat /\ DOMAIN ivs = 1 .. Len(ivs)
      /\ \A i \in DOMAIN ivs : ivs[i][1] \in Int /\ ivs[i][2] \in Int
  BY DEF Intervals
<1>2. \A i \in DOMAIN ivs : /\ s[i] \in Seq(Int)
                            /\ \A c \in Int : c \in Range(s[i]) <=> Within(ivs[i], c)
  BY <1>1, UpToIs DEF Within
<1>3. ClustersOf(ivs) = FlattenSeq(s) /\ DOMAIN s = DOMAIN ivs
  BY DEF ClustersOf
<1>4. s \in [1 .. Len(ivs) -> Seq(Int)]
  BY <1>1, <1>2
<1> HIDE DEF s
<1>5. s \in Seq(Seq(Int))
  BY <1>1, <1>4, FunctionIsSeq
<1>6. /\ FlattenSeq(s) \in Seq(Int)
      /\ \A x : x \in Range(FlattenSeq(s)) <=> \E i \in DOMAIN s : x \in Range(s[i])
  BY <1>5, FlattenRange
<1> QED BY <1>2, <1>3, <1>6 DEF InSome

\* The intervals of a map are pairs of numbers.
LEMMA ParseMapIs ==
  ASSUME NEW map, IsMap(map)
  PROVE  ParseMap(map) \in Intervals
<1> DEFINE S == {i \in DOMAIN map : map[i].data}
           data == InOrder(S)
<1>1. /\ Len(map) \in Nat /\ DOMAIN map = 1 .. Len(map)
      /\ \A i \in DOMAIN map : map[i].start \in Nat /\ map[i].length \in Nat
  <2> DEFINE R == [start : Nat, length : Nat, data : BOOLEAN]
  <2>1. map \in Seq(R)
    BY DEF IsMap
  <2>2. \A r \in R : r.start \in Nat /\ r.length \in Nat
    OBVIOUS
  <2> HIDE DEF R
  <2>3. Len(map) \in Nat /\ DOMAIN map = 1 .. Len(map) /\ \A i \in DOMAIN map : map[i] \in R
    BY <2>1
  <2> QED BY <2>2, <2>3
<1>2. S \in SUBSET Nat /\ IsFiniteSet(S)
  <2>1. S \in SUBSET (1 .. Len(map))
    BY <1>1
  <2>2. IsFiniteSet(1 .. Len(map))
    BY <1>1, FS_Interval
  <2> QED BY <1>1, <2>1, <2>2, FS_Subset
<1>3. PICK n \in Nat : DOMAIN data = 1 .. n /\ \A i \in 1 .. n : data[i] \in S
  <2> HIDE DEF S
  <2> QED BY <1>2, InOrderIs
<1>4. \A i \in 1 .. n : data[i] \in DOMAIN map
  BY <1>3
<1>5. ParseMap(map) = [i \in DOMAIN data |-> <<map[data[i]].start \div ClusterSize,
                          ((map[data[i]].start + map[data[i]].length) \div ClusterSize) - 1>>]
  BY DEF ParseMap
<1> HIDE DEF data
<1>6. ClusterSize \in Nat \ {0}
  BY SizesAssumption
<1>7. \A i \in 1 .. n : /\ map[data[i]].start \div ClusterSize \in Int
                        /\ ((map[data[i]].start + map[data[i]].length) \div ClusterSize) - 1 \in Int
  <2> TAKE i \in 1 .. n
  <2>1. PICK u, v : u = map[data[i]].start /\ v = map[data[i]].length
    OBVIOUS
  <2>2. u \in Nat /\ v \in Nat
    BY <1>1, <1>4, <2>1
  <2>3. PICK w : w = u + v
    OBVIOUS
  <2>4. w \in Nat
    BY <2>2, <2>3
  <2>5. u \div ClusterSize \in Int /\ w \div ClusterSize \in Int
    BY <1>6, <2>2, <2>4, Division DEF Quotient
  <2> QED BY <2>1, <2>3, <2>5
<1>8. ParseMap(map) \in [1 .. n -> Int \X Int]
  BY <1>3, <1>5, <1>7
<1> QED BY <1>8, FunctionIsSeq DEF Intervals

\* The range of the binary search in a round.
InRange(ivs, r) == /\ r = <<r[1], r[2]>> /\ r[1] \in Int /\ r[2] \in Int
                   /\ 1 <= r[1] /\ r[2] <= Len(ivs)
\* What is found, or how little is left to look at.
Closer(ivs, c, r, k) == \/ r[1] > r[2] \/ Within(ivs[Middle(r)], c)
                        \/ r[2] - r[1] + 1 <= Len(ivs) - k

\* The middle of a range is in it.
LEMMA MiddleIs ==
  ASSUME NEW ivs \in Intervals, NEW r, InRange(ivs, r), r[1] <= r[2]
  PROVE  /\ Middle(r) \in Int /\ r[1] <= Middle(r) /\ Middle(r) <= r[2]
         /\ Middle(r) \in DOMAIN ivs
<1>1. PICK l, h : l = r[1] /\ h = r[2]
  OBVIOUS
<1>2. l \in Int /\ h \in Int /\ 1 <= l /\ l <= h /\ h <= Len(ivs)
  BY <1>1 DEF InRange
<1>3. PICK m : m = (l + h) \div 2
  OBVIOUS
<1>4. m \in Int /\ l <= m /\ m <= h
  BY <1>2, <1>3
<1>5. DOMAIN ivs = 1 .. Len(ivs) /\ Len(ivs) \in Nat
  BY DEF Intervals
<1>6. m \in DOMAIN ivs
  BY <1>2, <1>4, <1>5
<1> QED BY <1>1, <1>3, <1>4, <1>6 DEF Middle

\* A round finds the cluster or narrows the range.
LEMMA NarrowedIs ==
  ASSUME NEW ivs \in Intervals, NEW c \in Int, NEW r, NEW k \in Nat,
         InRange(ivs, r), Closer(ivs, c, r, k)
  PROVE  InRange(ivs, Narrowed(ivs, c, r)) /\ Closer(ivs, c, Narrowed(ivs, c, r), k + 1)
<1>1. CASE r[1] > r[2] \/ Within(ivs[Middle(r)], c)
  <2>1. Narrowed(ivs, c, r) = r
    BY <1>1 DEF Narrowed
  <2> QED BY <1>1, <2>1 DEF Closer
<1>2. CASE ~(r[1] > r[2]) /\ ~Within(ivs[Middle(r)], c)
  <2>1. PICK l, h, m, n : l = r[1] /\ h = r[2] /\ m = Middle(r) /\ n = Len(ivs)
    OBVIOUS
  <2>2. l \in Int /\ h \in Int /\ l <= h /\ 1 <= l /\ h <= n /\ n \in Nat
    BY <1>2, <2>1 DEF InRange, Intervals
  <2>3. m \in Int /\ l <= m /\ m <= h
    BY <2>1, <2>2, MiddleIs
  <2>4. h - l + 1 <= n - k
    BY <1>2, <2>1 DEF Closer
  <2>5. PICK q : q = Narrowed(ivs, c, r)
    OBVIOUS
  <2>6. q = <<l, m - 1>> \/ q = <<m + 1, h>>
    BY <1>2, <2>1, <2>5 DEF Narrowed
  <2>7. /\ q = <<q[1], q[2]>> /\ q[1] \in Int /\ q[2] \in Int /\ 1 <= q[1] /\ q[2] <= n
        /\ q[2] - q[1] + 1 <= n - (k + 1)
    <3>1. CASE q = <<l, m - 1>>
      <4>1. q[1] = l /\ q[2] = m - 1
        BY <3>1
      <4>2. q[2] - q[1] + 1 <= n - (k + 1) /\ q[2] <= n /\ q[2] \in Int
        BY <2>2, <2>3, <2>4, <4>1
      <4> QED BY <2>2, <3>1, <4>1, <4>2
    <3>2. CASE q = <<m + 1, h>>
      <4>1. q[1] = m + 1 /\ q[2] = h
        BY <3>2
      <4>2. q[2] - q[1] + 1 <= n - (k + 1) /\ 1 <= q[1] /\ q[1] \in Int
        BY <2>2, <2>3, <2>4, <4>1
      <4> QED BY <2>2, <3>2, <4>1, <4>2
    <3> QED BY <2>6, <3>1, <3>2
  <2> QED BY <2>1, <2>5, <2>7 DEF InRange, Closer
<1> QED BY <1>1, <1>2

Rounds(f, ivs, c, n) ==
    [k \in 0 .. n |-> IF k = 0 THEN <<1, Len(ivs)>> ELSE Narrowed(ivs, c, f[k - 1])]

\* The search can make any number of rounds.
LEMMA RoundsExist ==
  ASSUME NEW ivs, NEW c
  PROVE  \A n \in Nat : \E f : f = Rounds(f, ivs, c, n)
<1> DEFINE S == {n \in Nat : \E f : f = Rounds(f, ivs, c, n)}
<1>1. 0 \in S
  <2>1. PICK f : f = [k \in 0 .. 0 |-> <<1, Len(ivs)>>]
    OBVIOUS
  <2>2. \A k : k \in 0 .. 0 <=> k = 0
    OBVIOUS
  <2>3. f = Rounds(f, ivs, c, 0)
    BY <2>1, <2>2 DEF Rounds
  <2> QED BY <2>3
<1>2. ASSUME NEW n \in Nat, n \in S
      PROVE  n + 1 \in S
  <2>1. PICK f : f = Rounds(f, ivs, c, n)
    BY <1>2
  <2> DEFINE g == [k \in 0 .. n + 1 |-> IF k <= n THEN f[k]
                       ELSE IF k = 0 THEN <<1, Len(ivs)>> ELSE Narrowed(ivs, c, f[k - 1])]
  <2>2. ASSUME NEW k \in 0 .. n + 1
        PROVE  g[k] = IF k = 0 THEN <<1, Len(ivs)>> ELSE Narrowed(ivs, c, g[k - 1])
    <3>1. CASE k <= n
      <4>1. g[k] = f[k] /\ (k # 0 => g[k - 1] = f[k - 1])
        BY <3>1
      <4>2. f[k] = IF k = 0 THEN <<1, Len(ivs)>> ELSE Narrowed(ivs, c, f[k - 1])
        <5>1. k \in 0 .. n
          BY <3>1
        <5> QED BY <2>1, <5>1 DEF Rounds
      <4> QED BY <4>1, <4>2
    <3>2. CASE ~(k <= n)
      <4>1. k # 0 => k - 1 \in 0 .. n + 1 /\ k - 1 <= n
        BY <3>2
      <4>2. k # 0 => g[k - 1] = f[k - 1]
        BY <4>1
      <4> QED BY <3>2, <4>2
    <3> QED BY <3>1, <3>2
  <2> HIDE DEF g
  <2>3. g = [k \in 0 .. n + 1 |-> g[k]]
    BY DEF g
  <2>4. g = Rounds(g, ivs, c, n + 1)
    BY <2>2, <2>3 DEF Rounds
  <2> QED BY <2>4
<1> HIDE DEF S
<1>3. \A n \in Nat : n \in S
  BY <1>1, <1>2, Induction
<1> QED BY <1>3 DEF S

\* What the search finds has the cluster.
LEMMA SearchFinds ==
  ASSUME NEW ivs \in Intervals, NEW c \in Int, Search(ivs, c) # 0
  PROVE  Search(ivs, c) \in DOMAIN ivs /\ Within(ivs[Search(ivs, c)], c)
<1> DEFINE n == Len(ivs)
           f == CHOOSE h : h = Rounds(h, ivs, c, n)
           r == f[n]
<1>1. n \in Nat
  BY DEF Intervals
<1>2. f = Rounds(f, ivs, c, n)
  <2>1. \E h : h = Rounds(h, ivs, c, n)
    <3> HIDE DEF n
    <3> QED BY <1>1, RoundsExist
  <2> HIDE DEF n
  <2> QED BY <2>1
<1>3. /\ Search(ivs, c) = IF ivs = <<>> \/ Last(ivs)[2] < c \/ ivs[1][1] > c \/ r[1] > r[2]
                          THEN 0 ELSE Middle(r)
  BY DEF Search, Rounds
<1> HIDE DEF f, n
<1> DEFINE P(k) == InRange(ivs, f[k]) /\ Closer(ivs, c, f[k], k)
           T == {k \in Nat : k <= n => P(k)}
<1>4. 0 \in T
  <2>1. f[0] = <<1, n>>
    BY <1>1, <1>2 DEF Rounds, n
  <2>2. P(0)
    <3>1. PICK q : q = f[0]
      OBVIOUS
    <3>2. q = <<1, n>> /\ q[1] = 1 /\ q[2] = n
      BY <2>1, <3>1
    <3>3. InRange(ivs, q) /\ Closer(ivs, c, q, 0)
      BY <1>1, <3>2 DEF InRange, Closer, n
    <3> QED BY <3>1, <3>3
  <2> QED BY <2>2
<1>5. ASSUME NEW k \in Nat, k \in T PROVE k + 1 \in T
  <2> SUFFICES ASSUME k + 1 <= n PROVE P(k + 1)
    OBVIOUS
  <2>1. P(k)
    BY <1>1, <1>5
  <2>2. f[k + 1] = Narrowed(ivs, c, f[k])
    <3>1. k + 1 \in 0 .. n /\ k + 1 # 0 /\ (k + 1) - 1 = k
      BY <1>1
    <3> QED BY <1>2, <3>1 DEF Rounds
  <2> QED BY <2>1, <2>2, NarrowedIs
<1>6. \A k \in Nat : k \in T
  <2> HIDE DEF T
  <2> QED BY <1>4, <1>5, Induction
<1>7. InRange(ivs, r) /\ Closer(ivs, c, r, n)
  BY <1>1, <1>6
<1> HIDE DEF r
<1>8. r[1] <= r[2] /\ Search(ivs, c) = Middle(r)
  <2>1. r[1] \in Int /\ r[2] \in Int
    BY <1>7 DEF InRange
  <2> QED BY <1>3, <2>1
<1>9. Within(ivs[Middle(r)], c)
  <2>1. r[1] \in Int /\ r[2] \in Int
    BY <1>7 DEF InRange
  <2>2. ~(r[1] > r[2]) /\ ~(r[2] - r[1] + 1 <= n - n)
    BY <1>1, <1>8, <2>1
  <2> QED BY <1>7, <2>2 DEF Closer, n
<1>10. Middle(r) \in DOMAIN ivs
  BY <1>7, <1>8, MiddleIs
<1> QED BY <1>8, <1>9, <1>10

\* What is removed from a sequence is the one element.
LEMMA RemoveAtIs ==
  ASSUME NEW S, NEW s \in Seq(S), NEW at \in DOMAIN s
  PROVE  /\ RemoveAt(s, at) \in Seq(S)
         /\ \A i \in DOMAIN s \ {at} : \E j \in DOMAIN RemoveAt(s, at) : RemoveAt(s, at)[j] = s[i]
<1>1. PICK n : n = Len(s)
  OBVIOUS
<1>2. n \in Nat /\ DOMAIN s = 1 .. n /\ at \in 1 .. n
  BY <1>1
<1>3. PICK a, b : a = SubSeq(s, 1, at - 1) /\ b = SubSeq(s, at + 1, n)
  OBVIOUS
<1>4. a \in Seq(S) /\ Len(a) = at - 1 /\ \A i \in 1 .. (at - 1) : a[i] = s[i]
  BY <1>1, <1>2, <1>3
<1>5. b \in Seq(S) /\ Len(b) = n - at /\ \A i \in 1 .. (n - at) : b[i] = s[at + i]
  BY <1>1, <1>2, <1>3
<1>6. PICK t : t = a \o b
  OBVIOUS
<1>7. t = RemoveAt(s, at)
  BY <1>1, <1>3, <1>6 DEF RemoveAt
<1>8. /\ t \in Seq(S) /\ Len(t) = n - 1
      /\ \A i \in 1 .. (at - 1) : t[i] = a[i]
      /\ \A i \in 1 .. (n - at) : t[(at - 1) + i] = b[i]
  <2>1. Len(a) + Len(b) = n - 1
    BY <1>2, <1>4, <1>5
  <2>2. /\ a \o b \in Seq(S) /\ Len(a \o b) = Len(a) + Len(b)
        /\ \A i \in 1 .. Len(a) : (a \o b)[i] = a[i]
        /\ \A i \in 1 .. Len(b) : (a \o b)[Len(a) + i] = b[i]
    <3>1. a \in Seq(S) /\ b \in Seq(S)
      BY <1>4, <1>5
    <3> QED BY <3>1, JoinedIs
  <2> QED BY <1>4, <1>5, <1>6, <2>1, <2>2
<1>9. ASSUME NEW i \in DOMAIN s \ {at} PROVE \E j \in DOMAIN t : t[j] = s[i]
  <2>1. CASE i < at
    <3>1. i \in DOMAIN t /\ i \in 1 .. (at - 1)
      BY <1>2, <1>8, <2>1
    <3>2. t[i] = a[i]
      BY <1>8, <3>1
    <3> QED BY <1>4, <3>1, <3>2
  <2>2. CASE at < i
    <3>1. i - 1 \in DOMAIN t /\ i - at \in 1 .. (n - at) /\ i - 1 = (at - 1) + (i - at) /\ at + (i - at) = i
      BY <1>2, <1>8, <2>2
    <3>2. t[i - 1] = b[i - at]
      BY <1>8, <3>1
    <3> QED BY <1>5, <3>1, <3>2
  <2> QED BY <1>2, <2>1, <2>2
<1> QED BY <1>7, <1>8, <1>9

\* What is inserted after an element leaves the others.
LEMMA InsertAtIs ==
  ASSUME NEW S, NEW s \in Seq(S), NEW at \in DOMAIN s, NEW e \in S
  PROVE  /\ InsertAt(s, at + 1, e) \in Seq(S)
         /\ at \in DOMAIN InsertAt(s, at + 1, e) /\ at + 1 \in DOMAIN InsertAt(s, at + 1, e)
         /\ InsertAt(s, at + 1, e)[at] = s[at] /\ InsertAt(s, at + 1, e)[at + 1] = e
         /\ \A i \in DOMAIN s \ {at} : \E j \in DOMAIN InsertAt(s, at + 1, e) \ {at} :
                                          InsertAt(s, at + 1, e)[j] = s[i]
<1>1. PICK n : n = Len(s)
  OBVIOUS
<1>2. n \in Nat /\ DOMAIN s = 1 .. n /\ at \in 1 .. n
  BY <1>1
<1>3. PICK a, b : a = SubSeq(s, 1, at) /\ b = SubSeq(s, at + 1, n)
  OBVIOUS
<1>4. a \in Seq(S) /\ Len(a) = at /\ \A i \in 1 .. at : a[i] = s[i]
  BY <1>1, <1>2, <1>3
<1>5. b \in Seq(S) /\ Len(b) = n - at /\ \A i \in 1 .. (n - at) : b[i] = s[at + i]
  BY <1>1, <1>2, <1>3
<1>6. PICK m : m = a \o <<e>>
  OBVIOUS
<1>7. m \in Seq(S) /\ Len(m) = at + 1 /\ m[at + 1] = e /\ \A i \in 1 .. at : m[i] = a[i]
  BY <1>2, <1>4, <1>6
<1>8. PICK t : t = m \o b
  OBVIOUS
<1>9. t = InsertAt(s, at + 1, e)
  <2>1. (at + 1) - 1 = at
    BY <1>2
  <2> QED BY <1>1, <1>3, <1>6, <1>8, <2>1 DEF InsertAt
<1>10. /\ t \in Seq(S) /\ Len(t) = n + 1
       /\ \A i \in 1 .. (at + 1) : t[i] = m[i]
       /\ \A i \in 1 .. (n - at) : t[(at + 1) + i] = b[i]
  <2>1. Len(m) + Len(b) = n + 1
    BY <1>2, <1>5, <1>7
  <2>2. /\ m \o b \in Seq(S) /\ Len(m \o b) = Len(m) + Len(b)
        /\ \A i \in 1 .. Len(m) : (m \o b)[i] = m[i]
        /\ \A i \in 1 .. Len(b) : (m \o b)[Len(m) + i] = b[i]
    <3>1. m \in Seq(S) /\ b \in Seq(S)
      BY <1>5, <1>7
    <3> QED BY <3>1, JoinedIs
  <2> QED BY <1>5, <1>7, <1>8, <2>1, <2>2
<1>11. at \in DOMAIN t /\ at + 1 \in DOMAIN t /\ t[at] = s[at] /\ t[at + 1] = e
  <2>1. at \in 1 .. Len(m) /\ at + 1 \in 1 .. Len(m) /\ at \in 1 .. at
    BY <1>2, <1>7
  <2>2. t[at] = m[at] /\ t[at + 1] = m[at + 1]
    BY <1>7, <1>10, <2>1
  <2> QED BY <1>2, <1>4, <1>7, <1>10, <2>1, <2>2
<1>12. ASSUME NEW i \in DOMAIN s \ {at} PROVE \E j \in DOMAIN t \ {at} : t[j] = s[i]
  <2>1. CASE i < at
    <3>1. i \in DOMAIN t /\ i \in 1 .. at /\ i # at /\ i \in 1 .. Len(m)
      BY <1>2, <1>7, <1>10, <2>1
    <3>2. t[i] = m[i] /\ m[i] = a[i]
      BY <1>7, <1>10, <3>1
    <3> QED BY <1>4, <3>1, <3>2
  <2>2. CASE at < i
    <3>1. /\ i + 1 \in DOMAIN t /\ i - at \in 1 .. (n - at) /\ i + 1 = (at + 1) + (i - at)
          /\ at + (i - at) = i /\ i + 1 # at
      <4>1. Len(t) = n + 1 /\ DOMAIN t = 1 .. Len(t)
        BY <1>10
      <4> QED BY <1>2, <2>2, <4>1
    <3>2. t[i + 1] = b[i - at]
      BY <1>10, <3>1
    <3> QED BY <1>5, <3>1, <3>2
  <2> QED BY <1>2, <2>1, <2>2
<1> QED BY <1>9, <1>10, <1>11, <1>12

\* An interval in the place of another.
LEMMA ReplaceAtIs ==
  ASSUME NEW ivs \in Intervals, NEW at \in DOMAIN ivs, NEW l \in Int, NEW r \in Int
  PROVE  /\ ReplaceAt(ivs, at, <<l, r>>) \in Intervals
         /\ \A x \in Int : l <= x /\ x <= r => InSome(ReplaceAt(ivs, at, <<l, r>>), x)
         /\ \A i \in DOMAIN ivs \ {at} : \A x \in Int :
                Within(ivs[i], x) => InSome(ReplaceAt(ivs, at, <<l, r>>), x)
<1>1. PICK t : t = ReplaceAt(ivs, at, <<l, r>>)
  OBVIOUS
<1>2. PICK p : p = <<l, r>>
  OBVIOUS
<1>3. p \in Int \X Int /\ p[1] = l /\ p[2] = r
  BY <1>2
<1>4. t = [ivs EXCEPT ![at] = p]
  BY <1>1, <1>2 DEF ReplaceAt
<1>5. /\ t \in Seq(Int \X Int) /\ DOMAIN t = DOMAIN ivs /\ t[at] = p
      /\ \A i \in DOMAIN ivs \ {at} : t[i] = ivs[i]
  <2> DEFINE I == Int \X Int
  <2>1. ivs \in Seq(I) /\ p \in I
    BY <1>3 DEF Intervals
  <2> HIDE DEF I
  <2>2. t \in Seq(I) /\ DOMAIN t = DOMAIN ivs
    BY <1>4, <2>1
  <2>3. t[at] = p /\ \A i \in DOMAIN ivs \ {at} : t[i] = ivs[i]
    BY <1>4
  <2> QED BY <2>2, <2>3 DEF I
<1>6. \A x \in Int : l <= x /\ x <= r => InSome(t, x)
  BY <1>3, <1>5 DEF InSome, Within
<1>7. \A i \in DOMAIN ivs \ {at} : \A x \in Int : Within(ivs[i], x) => InSome(t, x)
  BY <1>5 DEF InSome
<1> QED BY <1>1, <1>5, <1>6, <1>7 DEF Intervals

\* What is taken is the one cluster.
LEMMA TakeKeeps ==
  ASSUME NEW ivs \in Intervals, NEW at \in DOMAIN ivs, NEW c \in Int, Within(ivs[at], c)
  PROVE  /\ Take(ivs, at, c) \in Intervals
         /\ \A x \in Int : x # c /\ InSome(ivs, x) => InSome(Take(ivs, at, c), x)
<1>1. PICK l, r : l = ivs[at][1] /\ r = ivs[at][2]
  OBVIOUS
<1>2. l \in Int /\ r \in Int /\ l <= c /\ c <= r
  <2>1. ivs[at] \in Int \X Int
    BY DEF Intervals
  <2> QED BY <1>1, <2>1 DEF Within
<1> SUFFICES /\ Take(ivs, at, c) \in Intervals
             /\ \A x \in Int : \A i \in DOMAIN ivs :
                   x # c /\ Within(ivs[i], x) => InSome(Take(ivs, at, c), x)
  BY DEF InSome
<1>3. CASE c = l /\ c = r
  <2>1. PICK t : t = RemoveAt(ivs, at)
    OBVIOUS
  <2>2. Take(ivs, at, c) = t
    BY <1>1, <1>3, <2>1 DEF Take
  <2>3. t \in Intervals /\ \A i \in DOMAIN ivs \ {at} : \E j \in DOMAIN t : t[j] = ivs[i]
    BY <2>1, RemoveAtIs DEF Intervals
  <2>4. \A x \in Int : x # c => ~Within(ivs[at], x)
    BY <1>1, <1>2, <1>3 DEF Within
  <2> QED BY <2>2, <2>3, <2>4 DEF InSome
<1>4. CASE c = l /\ c # r
  <2>1. Take(ivs, at, c) = ReplaceAt(ivs, at, <<l + 1, r>>)
    BY <1>1, <1>4 DEF Take
  <2>2. \A x \in Int : x # c /\ Within(ivs[at], x) => l + 1 <= x /\ x <= r
    BY <1>1, <1>2, <1>4 DEF Within
  <2>3. l + 1 \in Int
    BY <1>2
  <2> QED BY <1>2, <2>1, <2>2, <2>3, ReplaceAtIs
<1>5. CASE c # l /\ c = r
  <2>1. Take(ivs, at, c) = ReplaceAt(ivs, at, <<l, r - 1>>)
    BY <1>1, <1>5 DEF Take
  <2>2. \A x \in Int : x # c /\ Within(ivs[at], x) => l <= x /\ x <= r - 1
    BY <1>1, <1>2, <1>5 DEF Within
  <2>3. r - 1 \in Int
    BY <1>2
  <2> QED BY <1>2, <2>1, <2>2, <2>3, ReplaceAtIs
<1>6. CASE c # l /\ c # r
  <2>1. PICK t : t = InsertAt(ivs, at + 1, <<c + 1, r>>)
    OBVIOUS
  <2>2. Take(ivs, at, c) = ReplaceAt(t, at, <<l, c>>)
    BY <1>1, <1>6, <2>1 DEF Take
  <2>3. PICK e : e = <<c + 1, r>>
    OBVIOUS
  <2>4. e \in Int \X Int /\ e[1] = c + 1 /\ e[2] = r
    BY <1>2, <2>3
  <2>5. /\ t \in Intervals /\ at \in DOMAIN t /\ at + 1 \in DOMAIN t /\ t[at + 1] = e
        /\ \A i \in DOMAIN ivs \ {at} : \E j \in DOMAIN t \ {at} : t[j] = ivs[i]
    <3> DEFINE I == Int \X Int
    <3>1. ivs \in Seq(I) /\ e \in I
      BY <2>4 DEF Intervals
    <3> HIDE DEF I
    <3>2. /\ t \in Seq(I) /\ at \in DOMAIN t /\ at + 1 \in DOMAIN t /\ t[at + 1] = e
          /\ \A i \in DOMAIN ivs \ {at} : \E j \in DOMAIN t \ {at} : t[j] = ivs[i]
      <4> DEFINE w == InsertAt(ivs, at + 1, e)
      <4>1. /\ w \in Seq(I) /\ at \in DOMAIN w /\ at + 1 \in DOMAIN w /\ w[at + 1] = e
            /\ \A i \in DOMAIN ivs \ {at} : \E j \in DOMAIN w \ {at} : w[j] = ivs[i]
        BY <3>1, InsertAtIs
      <4>2. t = w
        BY <2>1, <2>3
      <4> HIDE DEF w
      <4> QED BY <4>1, <4>2
    <3> QED BY <3>2 DEF I, Intervals
  <2>6. PICK u : u = ReplaceAt(t, at, <<l, c>>)
    OBVIOUS
  <2>7. /\ u \in Intervals
        /\ \A x \in Int : l <= x /\ x <= c => InSome(u, x)
        /\ \A j \in DOMAIN t \ {at} : \A x \in Int : Within(t[j], x) => InSome(u, x)
    BY <1>2, <2>5, <2>6, ReplaceAtIs
  <2>8. ASSUME NEW x \in Int, NEW i \in DOMAIN ivs, x # c, Within(ivs[i], x)
        PROVE  InSome(u, x)
    <3>1. CASE i # at
      BY <2>5, <2>7, <2>8, <3>1
    <3>2. CASE i = at /\ x <= c
      <4>1. l <= x
        BY <1>1, <2>8, <3>2 DEF Within
      <4> QED BY <2>7, <3>2, <4>1
    <3>3. CASE i = at /\ ~(x <= c)
      <4>1. Within(t[at + 1], x)
        BY <1>1, <1>2, <2>4, <2>5, <2>8, <3>3 DEF Within
      <4>2. at + 1 # at
        BY DEF Intervals
      <4> QED BY <2>5, <2>7, <4>1, <4>2
    <3> QED BY <3>1, <3>2, <3>3
  <2> QED BY <2>2, <2>6, <2>7, <2>8
<1> QED BY <1>3, <1>4, <1>5, <1>6

-----------------------------------------------------------------------------
(* Disks *)

\* A row of zeroes.
LEMMA ZeroesAre ==
  ASSUME NEW n \in Nat, NEW z, z = [i \in 1 .. n |-> 0]
  PROVE  z \in Seq(Nat) /\ Len(z) = n /\ \A i \in 1 .. n : z[i] = 0
<1>1. z \in [1 .. n -> Nat]
  OBVIOUS
<1> QED BY <1>1, FunctionIsSeq

\* Sequences that are the same everywhere are the same.
LEMMA SameSeq ==
  ASSUME NEW S, NEW s \in Seq(S), NEW t \in Seq(S), Len(s) = Len(t),
         \A i \in 1 .. Len(s) : s[i] = t[i]
  PROVE  s = t
OBVIOUS

\* A padded cluster is a whole one.
LEMMA PadIs ==
  ASSUME NEW s \in Seq(Nat), Len(s) <= ClusterSize
  PROVE  /\ Pad(s) \in Seq(Nat) /\ Len(Pad(s)) = ClusterSize
         /\ Len(s) = ClusterSize => Pad(s) = s
         /\ Len(s) = 0 => Pad(s) = ZeroCluster
<1>1. ClusterSize \in Nat \ {0} /\ Len(s) \in Nat
  BY SizesAssumption
<1>2. PICK n \in Nat : n = ClusterSize - Len(s)
  BY <1>1
<1>3. PICK z : z = [i \in 1 .. n |-> 0]
  OBVIOUS
<1>4. z \in Seq(Nat) /\ Len(z) = n /\ \A i \in 1 .. n : z[i] = 0
  BY <1>3, ZeroesAre
<1>5. PICK p : p = s \o z
  OBVIOUS
<1>6. p = Pad(s)
  BY <1>2, <1>3, <1>5 DEF Pad
<1>7. /\ p \in Seq(Nat) /\ Len(p) = ClusterSize
      /\ \A i \in 1 .. Len(s) : p[i] = s[i]
      /\ \A i \in 1 .. n : p[Len(s) + i] = z[i]
  <2>1. /\ s \o z \in Seq(Nat) /\ Len(s \o z) = Len(s) + Len(z)
        /\ \A i \in 1 .. Len(s) : (s \o z)[i] = s[i]
        /\ \A i \in 1 .. Len(z) : (s \o z)[Len(s) + i] = z[i]
    <3>1. z \in Seq(Nat)
      BY <1>4
    <3> QED BY <3>1, JoinedIs
  <2>2. Len(s) + Len(z) = ClusterSize
    BY <1>1, <1>2, <1>4
  <2> QED BY <1>4, <1>5, <2>1, <2>2
<1>8. ASSUME Len(s) = ClusterSize PROVE p = s
  BY <1>7, <1>8, SameSeq
<1>9. ASSUME Len(s) = 0 PROVE p = ZeroCluster
  <2>1. ZeroCluster \in Seq(Nat) /\ Len(ZeroCluster) = ClusterSize /\ \A i \in 1 .. ClusterSize : ZeroCluster[i] = 0
    BY <1>1, ZeroesAre DEF ZeroCluster
  <2>2. n = ClusterSize /\ \A i \in 1 .. n : 0 + i = i
    BY <1>1, <1>2, <1>9
  <2>3. \A i \in 1 .. ClusterSize : p[i] = 0
    BY <1>4, <1>7, <1>9, <2>2
  <2> QED BY <1>7, <2>1, <2>3, SameSeq
<1> QED BY <1>6, <1>7, <1>8, <1>9

\* What is read of a cluster is at most a cluster, and nothing past the end.
LEMMA PreadIs ==
  ASSUME NEW bytes \in Seq(Nat), NEW idx \in Nat
  PROVE  /\ Pread(bytes, idx) \in Seq(Nat) /\ Len(Pread(bytes, idx)) <= ClusterSize
         /\ LastCluster(bytes) \in Nat
         /\ idx >= LastCluster(bytes) => Len(Pread(bytes, idx)) = 0
<1>1. ClusterSize \in Nat \ {0}
  BY SizesAssumption
<1>2. PICK n : n = Len(bytes)
  OBVIOUS
<1>3. n \in Nat
  BY <1>2
<1>4. PICK a : a = idx * ClusterSize
  OBVIOUS
<1>5. a \in Nat /\ (idx + 1) * ClusterSize = a + ClusterSize
  BY <1>1, <1>4, Multiples
<1>6. LastCluster(bytes) \in Nat /\ (idx < LastCluster(bytes) <=> a < n)
  BY <1>1, <1>2, <1>3, <1>4, Parts DEF LastCluster
<1>7. PICK e : e = IF a + ClusterSize < n THEN a + ClusterSize ELSE n
  OBVIOUS
<1>8. e \in Nat /\ e <= n /\ e <= a + ClusterSize /\ (n <= a => e <= a)
  BY <1>1, <1>3, <1>5, <1>7
<1>9. Pread(bytes, idx) = SubSeq(bytes, a + 1, e)
  BY <1>2, <1>4, <1>5, <1>7 DEF Pread
<1>10. PICK s : s = SubSeq(bytes, a + 1, e)
  OBVIOUS
<1>11. s \in Seq(Nat) /\ Len(s) = IF a + 1 <= e THEN e - a ELSE 0
  BY <1>2, <1>3, <1>5, <1>8, <1>10
<1>12. Len(s) <= ClusterSize /\ (n <= a => Len(s) = 0)
  BY <1>1, <1>3, <1>5, <1>8, <1>11
<1> QED BY <1>3, <1>5, <1>6, <1>9, <1>10, <1>11, <1>12

-----------------------------------------------------------------------------
(* The choice of the clusters *)

Beneath(idx) == IF job.base = None \/ (job.base # None /\ idx >= LastCluster(Base))
                THEN ZeroCluster ELSE Pad(Pread(Base, idx))
OfDisk(idx) == Pad(Pread(job.disk, idx))
\* The image has the cluster or does not need it.
Settled(idx) == idx \in l2_bitmap \/ Beneath(idx) = OfDisk(idx)

\* It is, or the loop will come to it, or the loop over what is left will.
Awaited(idx) == Settled(idx) \/ idx \in Range(todo)
AwaitedLeft(idx) == Awaited(idx) \/ InSome(left, idx)

Looping == {"read", "map", "leftover"}
Counting == {"count", "grow"}
Writing == {"header", "refcountTable", "refcountBlocks", "l1", "l2", "data", "done"}

\* A cluster the bitmap has, has its table; the tables are the ones counted.
BitmapsTrue ==
    /\ l1_bitmap \in SUBSET Nat /\ IsFiniteSet(l1_bitmap)
    /\ l2_bitmap \in SUBSET Nat /\ IsFiniteSet(l2_bitmap)
    /\ \A idx \in l2_bitmap : Quotient(idx, EntriesPerTable) \in l1_bitmap
    /\ allocated_l2_tables = Cardinality(l1_bitmap)
    /\ allocated_data_clusters \in Nat

\* What the loops look at, and what they have still to see to.
LoopTrue ==
    /\ job \in Jobs
    /\ phase \in {"start", "failed", "mapDiff"} \cup Looping \cup Counting \cup Writing
    /\ todo \in Seq(Int) /\ left \in Intervals
    /\ phase = "mapDiff" => job.base # None
Chosen ==
    /\ phase \in Looping =>
         \A idx \in GuestClusters : Awaited(idx)
    /\ phase = "mapDiff" =>
         \A idx \in GuestClusters : AwaitedLeft(idx)
    /\ phase \in Counting \cup Writing =>
         \A idx \in GuestClusters : Settled(idx)

\* The jobs are what they should be.
LEMMA JobIs ==
  ASSUME job \in Jobs
  PROVE  /\ job.disk \in Seq(Nat)
         /\ job.base # None => Base \in Seq(Nat) /\ Len(Base) <= Len(job.disk)
         /\ job.map # None => IsMap(job.map[1])
         /\ job.baseMap # None => IsMap(job.baseMap[1])
         /\ TotalDataClusters \in Nat /\ L1Entries \in Nat /\ L1Tables \in Nat
<1>1. JobShape(job) /\ (job.base # None => Len(job.base[1]) <= Len(job.disk))
  BY JobsAssumption
<1>2. /\ job.disk \in Seq(Nat)
      /\ job.base # None => Base \in Seq(Nat) /\ Len(Base) <= Len(job.disk)
      /\ job.map # None => IsMap(job.map[1])
      /\ job.baseMap # None => IsMap(job.baseMap[1])
  BY <1>1 DEF JobShape, Base
<1>3. SectorSize \in Nat \ {0} /\ ClusterSize \in Nat \ {0} /\ EntriesPerTable \in Nat \ {0}
  BY SizesAssumption
<1>4. DiskSize \in Nat
  <2>1. PICK n : n = Len(job.disk)
    OBVIOUS
  <2>2. n \in Nat
    BY <1>2, <2>1
  <2>3. PICK q : q = DivUp(n, SectorSize)
    OBVIOUS
  <2>4. q \in Nat
    BY <1>3, <2>2, <2>3, Parts
  <2>5. SectorSize * q \in Nat
    BY <1>3, <2>4
  <2> QED BY <2>1, <2>2, <2>3, <2>5 DEF DiskSize, AlignUp
<1>5. TotalDataClusters \in Nat
  BY <1>3, <1>4, Parts DEF TotalDataClusters
<1>6. L1Entries \in Nat
  BY <1>3, <1>5, Parts DEF L1Entries
<1>7. L1Tables \in Nat
  BY <1>3, <1>6, Parts DEF L1Tables
<1> QED BY <1>2, <1>5, <1>6, <1>7

\* Past the end of the disk nothing is needed.
LEMMA PastTheEnd ==
  ASSUME job \in Jobs, NEW idx \in Nat, idx >= LastCluster(job.disk)
  PROVE  Beneath(idx) = OfDisk(idx)
<1>1. OfDisk(idx) = ZeroCluster
  BY JobIs, PreadIs, PadIs DEF OfDisk
<1>2. ASSUME job.base # None PROVE idx >= LastCluster(Base)
  <2>1. Base \in Seq(Nat) /\ Len(Base) <= Len(job.disk) /\ job.disk \in Seq(Nat)
    BY <1>2, JobIs
  <2>2. PICK m, n : m = Len(Base) /\ n = Len(job.disk)
    OBVIOUS
  <2>3. m \in Nat /\ n \in Nat /\ m <= n
    BY <2>1, <2>2
  <2>4. PICK a : a = idx * ClusterSize
    OBVIOUS
  <2>5. ClusterSize \in Nat \ {0}
    BY SizesAssumption
  <2>6. a \in Nat
    BY <2>4, <2>5
  <2>7. LastCluster(Base) \in Nat /\ (idx < LastCluster(Base) <=> a < m)
    BY <2>2, <2>3, <2>4, <2>5, Parts DEF LastCluster
  <2>8. LastCluster(job.disk) \in Nat /\ (idx < LastCluster(job.disk) <=> a < n)
    BY <2>2, <2>3, <2>4, <2>5, Parts DEF LastCluster
  <2> QED BY <2>3, <2>6, <2>7, <2>8
<1> QED BY <1>1, <1>2 DEF Beneath

\* The job stays, and with it all that depends on it alone.
LEMMA SameJob ==
  ASSUME job' = job
  PROVE  /\ GuestClusters' = GuestClusters /\ L1Entries' = L1Entries /\ L1Tables' = L1Tables
         /\ \A idx : Beneath(idx)' = Beneath(idx) /\ OfDisk(idx)' = OfDisk(idx)
<1>1. DiskSize' = DiskSize
  BY DEF DiskSize, ByMap
<1>2. TotalDataClusters' = TotalDataClusters
  BY <1>1 DEF TotalDataClusters
<1>3. L1Entries' = L1Entries
  BY <1>2 DEF L1Entries
<1>4. L1Tables' = L1Tables
  BY <1>3 DEF L1Tables
<1>5. \A idx : Beneath(idx)' = Beneath(idx) /\ OfDisk(idx)' = OfDisk(idx)
  BY DEF Beneath, OfDisk, Base
<1> QED BY <1>2, <1>3, <1>4, <1>5 DEF GuestClusters

\* What is settled stays so, whatever is allocated.
LEMMA StaysSettled ==
  ASSUME job' = job, l2_bitmap \subseteq l2_bitmap', NEW idx, Settled(idx)
  PROVE  Settled(idx)'
BY SameJob DEF Settled

\* An allocated cluster is in the bitmap, and its table is counted.
LEMMA AllocateIs ==
  ASSUME BitmapsTrue, NEW idx \in Nat, AllocateCluster(idx)
  PROVE  BitmapsTrue' /\ l2_bitmap \subseteq l2_bitmap' /\ idx \in l2_bitmap'
<1>1. PICK q : q = Quotient(idx, EntriesPerTable)
  OBVIOUS
<1>2. q \in Nat
  BY <1>1, Division, SizesAssumption
<1>3. /\ l2_bitmap' = l2_bitmap \cup {idx}
      /\ allocated_data_clusters' = allocated_data_clusters + 1
      /\ l1_bitmap' = l1_bitmap \cup {q}
      /\ allocated_l2_tables' = IF q \in l1_bitmap THEN allocated_l2_tables ELSE allocated_l2_tables + 1
  BY <1>1 DEF AllocateCluster, Quotient
<1>4. IsFiniteSet(l2_bitmap') /\ IsFiniteSet(l1_bitmap') /\ allocated_l2_tables' = Cardinality(l1_bitmap')
  <2>1. IsFiniteSet(l2_bitmap')
    BY <1>3, FS_AddElement DEF BitmapsTrue
  <2>2. CASE q \in l1_bitmap
    <3>1. l1_bitmap' = l1_bitmap
      BY <1>3, <2>2
    <3> QED BY <1>3, <2>1, <2>2, <3>1 DEF BitmapsTrue
  <2>3. CASE q \notin l1_bitmap
    <3>1. IsFiniteSet(l1_bitmap \cup {q}) /\ Cardinality(l1_bitmap \cup {q}) = Cardinality(l1_bitmap) + 1
      BY <2>3, FS_AddElement DEF BitmapsTrue
    <3> QED BY <1>3, <2>1, <2>3, <3>1 DEF BitmapsTrue
  <2> QED BY <2>2, <2>3
<1>5. \A x \in l2_bitmap' : Quotient(x, EntriesPerTable) \in l1_bitmap'
  BY <1>1, <1>3 DEF BitmapsTrue
<1>6. l1_bitmap' \in SUBSET Nat /\ l2_bitmap' \in SUBSET Nat /\ allocated_data_clusters' \in Nat
  BY <1>2, <1>3 DEF BitmapsTrue
<1>7. BitmapsTrue'
  BY <1>4, <1>5, <1>6 DEF BitmapsTrue
<1> QED BY <1>3, <1>7

\* A cluster that is compared is allocated or the same.
LEMMA CheckIs ==
  ASSUME BitmapsTrue, NEW idx \in Nat, NEW other, CheckClusterAllocate(idx, other)
  PROVE  /\ BitmapsTrue' /\ l2_bitmap \subseteq l2_bitmap'
         /\ idx \in l2_bitmap' \/ OfDisk(idx) = other
<1>1. CASE OfDisk(idx) # other
  <2>1. AllocateCluster(idx)
    BY <1>1 DEF CheckClusterAllocate, OfDisk
  <2> QED BY <2>1, AllocateIs
<1>2. CASE OfDisk(idx) = other
  <2>1. UNCHANGED bitmaps
    BY <1>2 DEF CheckClusterAllocate, OfDisk
  <2>2. UNCHANGED <<l1_bitmap, l2_bitmap, allocated_l2_tables, allocated_data_clusters>>
    BY <2>1 DEF bitmaps
  <2> QED BY <1>2, <2>2 DEF BitmapsTrue
<1> QED BY <1>1, <1>2

\* A cluster that is the same as the base's is settled.
LEMMA ComparedWithBase ==
  ASSUME job \in Jobs, job.base # None, NEW idx \in Nat, idx < LastCluster(Base),
         OfDisk(idx) = Pread(Base, idx)
  PROVE  Beneath(idx) = OfDisk(idx)
<1>1. Base \in Seq(Nat) /\ job.disk \in Seq(Nat)
  BY JobIs
<1>2. LastCluster(Base) \in Nat /\ Pread(Base, idx) \in Seq(Nat) /\ Len(Pread(Base, idx)) <= ClusterSize
  BY <1>1, PreadIs
<1>3. Len(OfDisk(idx)) = ClusterSize
  BY <1>1, PreadIs, PadIs DEF OfDisk
<1>4. Pad(Pread(Base, idx)) = Pread(Base, idx)
  BY <1>2, <1>3, PadIs
<1>5. Beneath(idx) = Pad(Pread(Base, idx))
  BY <1>2 DEF Beneath
<1> QED BY <1>4, <1>5

\* And where the base has ended or there is none, one that is zero.
LEMMA ComparedWithZero ==
  ASSUME job \in Jobs, NEW idx \in Nat, ~(job.base # None /\ idx < LastCluster(Base)),
         OfDisk(idx) = ZeroCluster
  PROVE  Beneath(idx) = OfDisk(idx)
<1>1. CASE job.base = None
  BY <1>1 DEF Beneath
<1>2. CASE job.base # None
  <2>1. LastCluster(Base) \in Nat
    BY <1>2, JobIs, PreadIs
  <2> QED BY <1>2, <2>1 DEF Beneath
<1> QED BY <1>1, <1>2

\* A step of a loop that settles its cluster, and loses no other.
LEMMA OneLooked ==
  ASSUME NEW idx, idx = Head(todo), LoopTrue, Chosen, phase \in Looping \cup {"mapDiff"}, todo # <<>>,
         NextCluster, l2_bitmap \subseteq l2_bitmap', Settled(idx)',
         left' \in Intervals,
         \A x \in Int : x # idx /\ InSome(left, x) => InSome(left', x)
  PROVE  LoopTrue' /\ Chosen'
<1>1. job' = job /\ phase' = phase /\ todo' = Tail(todo)
  BY DEF NextCluster
<1>2. /\ Tail(todo) \in Seq(Int)
      /\ \A x \in Range(todo) : x = Head(todo) \/ x \in Range(Tail(todo))
  BY RangeTail DEF LoopTrue
<1>3. LoopTrue'
  BY <1>1, <1>2 DEF LoopTrue
<1>4. GuestClusters' = GuestClusters /\ \A x \in GuestClusters : x \in Int
  BY <1>1, SameJob DEF GuestClusters
<1>5. \A x \in GuestClusters : x \in Range(todo) => Settled(x)' \/ x \in Range(todo')
  BY <1>1, <1>2
<1>6. \A x \in GuestClusters : Settled(x) => Settled(x)'
  BY <1>1, StaysSettled
<1>7. \A x \in GuestClusters : InSome(left, x) => Settled(x)' \/ InSome(left', x)
  BY <1>4
<1>8. CASE phase \in Looping
  <2>1. \A x \in GuestClusters : Awaited(x)'
    BY <1>5, <1>6, <1>8 DEF Chosen, Awaited
  <2>2. phase' \in Looping /\ phase' # "mapDiff" /\ phase' \notin Counting \cup Writing
    BY <1>1, <1>8 DEF Looping, Counting, Writing
  <2> QED BY <1>3, <1>4, <2>1, <2>2 DEF Chosen, Looping, Counting, Writing
<1>9. CASE phase = "mapDiff"
  <2>1. \A x \in GuestClusters : AwaitedLeft(x)'
    BY <1>5, <1>6, <1>7, <1>9 DEF Chosen, Awaited, AwaitedLeft
  <2>2. phase' = "mapDiff" /\ phase' \notin Looping /\ phase' \notin Counting \cup Writing
    BY <1>1, <1>9 DEF Looping, Counting, Writing
  <2> QED BY <1>3, <1>4, <2>1, <2>2 DEF Chosen, Looping, Counting, Writing
<1> QED BY <1>3, <1>8, <1>9

LoopInv == BitmapsTrue /\ LoopTrue /\ Chosen

\* Reading a cluster settles it.
LEMMA ReadClusterKeeps ==
  ASSUME LoopInv, NEW idx \in Nat, ReadCluster(idx)
  PROVE  LoopInv'
<1>1. /\ phase = "read" /\ todo # <<>> /\ idx = Head(todo) /\ NextCluster /\ left' = left
      /\ IF job.base # None /\ idx < LastCluster(Base)
         THEN CheckClusterAllocate(idx, Pread(Base, idx))
         ELSE CheckClusterAllocate(idx, ZeroCluster)
  BY DEF ReadCluster
<1>2. /\ BitmapsTrue' /\ l2_bitmap \subseteq l2_bitmap'
      /\ idx \in l2_bitmap' \/ Beneath(idx) = OfDisk(idx)
  <2>1. job \in Jobs
    BY DEF LoopInv, LoopTrue
  <2>2. CASE job.base # None /\ idx < LastCluster(Base)
    BY <1>1, <2>1, <2>2, CheckIs, ComparedWithBase DEF LoopInv
  <2>3. CASE ~(job.base # None /\ idx < LastCluster(Base))
    <3>1. CheckClusterAllocate(idx, ZeroCluster)
      BY <1>1, <2>3
    <3> QED BY <2>1, <2>3, <3>1, CheckIs, ComparedWithZero DEF LoopInv
  <2> QED BY <2>2, <2>3
<1>3. job' = job
  BY <1>1 DEF NextCluster
<1>4. Settled(idx)'
  BY <1>2, <1>3, SameJob DEF Settled
<1>5. LoopTrue' /\ Chosen'
  <2>1. phase \in Looping /\ left' \in Intervals
    BY <1>1 DEF Looping, LoopInv, LoopTrue
  <2> QED BY <1>1, <1>2, <1>4, <2>1, OneLooked DEF LoopInv
<1> QED BY <1>2, <1>5 DEF LoopInv

\* So does a cluster the map has.
LEMMA MapClusterKeeps ==
  ASSUME LoopInv, NEW idx \in Nat, MapCluster(idx)
  PROVE  LoopInv'
<1>1. /\ phase \in Looping /\ todo # <<>> /\ idx = Head(todo) /\ NextCluster /\ left' = left
      /\ AllocateCluster(idx)
  BY DEF MapCluster, Looping
<1>2. BitmapsTrue' /\ l2_bitmap \subseteq l2_bitmap' /\ idx \in l2_bitmap'
  BY <1>1, AllocateIs DEF LoopInv
<1>3. Settled(idx)'
  BY <1>2 DEF Settled
<1>4. LoopTrue' /\ Chosen'
  <2>1. left' \in Intervals
    BY <1>1 DEF LoopInv, LoopTrue
  <2> QED BY <1>1, <1>2, <1>3, <2>1, OneLooked DEF LoopInv
<1> QED BY <1>2, <1>4 DEF LoopInv

\* And one both maps have, which alone is taken from the base's.
LEMMA MapDiffClusterIs ==
  ASSUME LoopInv, NEW idx \in Nat, MapDiffCluster(idx)
  PROVE  LoopInv'
<1> DEFINE at == IF idx >= LastCluster(Base) THEN 0 ELSE Search(left, idx)
<1>1. /\ phase = "mapDiff" /\ todo # <<>> /\ idx = Head(todo) /\ NextCluster
      /\ IF at # 0 THEN left' = Take(left, at, idx) /\ CheckClusterAllocate(idx, Pread(Base, idx))
         ELSE AllocateCluster(idx) /\ left' = left
  BY DEF MapDiffCluster
<1>2. job \in Jobs /\ job.base # None /\ left \in Intervals
  BY <1>1 DEF LoopInv, LoopTrue
<1>3. job' = job
  BY <1>1 DEF NextCluster
<1>4. CASE at # 0
  <2>1. LastCluster(Base) \in Nat
    BY <1>2, JobIs, PreadIs
  <2>2. idx < LastCluster(Base) /\ at = Search(left, idx)
    BY <1>4, <2>1
  <2>3. CheckClusterAllocate(idx, Pread(Base, idx)) /\ left' = Take(left, at, idx)
    BY <1>1, <1>4
  <2>4. at \in DOMAIN left /\ Within(left[at], idx)
    BY <1>2, <1>4, <2>2, SearchFinds
  <2> HIDE DEF at
  <2>5. left' \in Intervals /\ \A x \in Int : x # idx /\ InSome(left, x) => InSome(left', x)
    BY <1>2, <2>3, <2>4, TakeKeeps
  <2>6. /\ BitmapsTrue' /\ l2_bitmap \subseteq l2_bitmap'
        /\ idx \in l2_bitmap' \/ Beneath(idx) = OfDisk(idx)
    BY <1>2, <2>2, <2>3, CheckIs, ComparedWithBase DEF LoopInv
  <2>7. Settled(idx)'
    BY <1>3, <2>6, SameJob DEF Settled
  <2>8. LoopTrue' /\ Chosen'
    BY <1>1, <2>5, <2>6, <2>7, OneLooked DEF LoopInv
  <2> QED BY <2>6, <2>8 DEF LoopInv
<1>5. CASE at = 0
  <2>1. AllocateCluster(idx) /\ left' = left
    BY <1>1, <1>5
  <2>2. BitmapsTrue' /\ l2_bitmap \subseteq l2_bitmap' /\ idx \in l2_bitmap'
    BY <2>1, AllocateIs DEF LoopInv
  <2>3. Settled(idx)'
    BY <2>2 DEF Settled
  <2>4. LoopTrue' /\ Chosen'
    BY <1>1, <1>2, <2>1, <2>2, <2>3, OneLooked DEF LoopInv
  <2> QED BY <2>2, <2>4 DEF LoopInv
<1> QED BY <1>4, <1>5

\* Every cluster is there.
LEMMA AllocateRawKeeps ==
  ASSUME LoopInv, AllocateRaw
  PROVE  LoopInv'
<1>1. /\ l1_bitmap' = 0 .. (L1Entries - 1) /\ allocated_l2_tables' = L1Entries
      /\ l2_bitmap' = 0 .. (TotalDataClusters - 1)
      /\ phase' = "count"
      /\ job' = job /\ todo' = todo /\ left' = left /\ allocated_data_clusters' = allocated_data_clusters
  BY DEF AllocateRaw
<1>2. job \in Jobs /\ TotalDataClusters \in Nat /\ L1Entries \in Nat
  BY JobIs DEF LoopInv, LoopTrue
<1>3. BitmapsTrue'
  <2>1. IsFiniteSet(l1_bitmap') /\ Cardinality(l1_bitmap') = L1Entries
    BY <1>1, <1>2, FS_Interval
  <2>2. IsFiniteSet(l2_bitmap')
    BY <1>1, <1>2, FS_Interval
  <2>3. ASSUME NEW idx \in l2_bitmap' PROVE Quotient(idx, EntriesPerTable) \in l1_bitmap'
    <3>1. idx \in Nat /\ idx < TotalDataClusters
      BY <1>1, <1>2, <2>3
    <3>2. PICK q, r : q = Quotient(idx, EntriesPerTable) /\ r = Remainder(idx, EntriesPerTable)
      OBVIOUS
    <3>3. q \in Nat /\ q < DivUp(TotalDataClusters, EntriesPerTable)
      BY <1>2, <3>1, <3>2, Place, SizesAssumption
    <3>4. q \in 0 .. (L1Entries - 1)
      BY <1>2, <3>3 DEF L1Entries
    <3> QED BY <1>1, <3>2, <3>4
  <2>4. l1_bitmap' \in SUBSET Nat /\ l2_bitmap' \in SUBSET Nat
    BY <1>1, <1>2
  <2>5. allocated_data_clusters' \in Nat
    BY <1>1 DEF LoopInv, BitmapsTrue
  <2> QED BY <1>1, <2>1, <2>2, <2>3, <2>4, <2>5 DEF BitmapsTrue
<1>4. LoopTrue'
  BY <1>1 DEF LoopInv, LoopTrue, Counting
<1>5. Chosen'
  <2>1. \A idx \in GuestClusters : Settled(idx)'
    BY <1>1 DEF GuestClusters, Settled
  <2>2. GuestClusters' = GuestClusters
    BY <1>1, SameJob
  <2>3. phase' \notin Looping /\ phase' # "mapDiff"
    BY <1>1 DEF Looping
  <2> QED BY <2>1, <2>2, <2>3 DEF Chosen, Looping
<1> QED BY <1>3, <1>4, <1>5 DEF LoopInv

\* Nothing is known of the choice of a job that fails.
LEMMA FailKeeps ==
  ASSUME LoopInv, Fail
  PROVE  LoopInv'
<1>1. /\ phase' = "failed" /\ job' = job /\ todo' = todo /\ left' = left
      /\ UNCHANGED <<l1_bitmap, l2_bitmap, allocated_l2_tables, allocated_data_clusters>>
  BY DEF Fail, bitmaps
<1>2. BitmapsTrue'
  BY <1>1 DEF LoopInv, BitmapsTrue
<1>3. LoopTrue'
  BY <1>1 DEF LoopInv, LoopTrue
<1>4. Chosen'
  BY <1>1 DEF Chosen, Looping, Counting, Writing
<1> QED BY <1>2, <1>3, <1>4 DEF LoopInv

\* Without maps all clusters of the disk are looked at.
LEMMA StartByReadingKeeps ==
  ASSUME LoopInv, StartByReading
  PROVE  LoopInv'
<1>1. /\ phase' = "read" /\ job' = job /\ left' = left
      /\ todo' = UpTo(0, LastCluster(job.disk) - 1)
      /\ UNCHANGED <<l1_bitmap, l2_bitmap, allocated_l2_tables, allocated_data_clusters>>
  BY DEF StartByReading, bitmaps
<1>2. job \in Jobs /\ LastCluster(job.disk) \in Nat
  <2>1. job \in Jobs
    BY DEF LoopInv, LoopTrue
  <2>2. job.disk \in Seq(Nat)
    BY <2>1, JobIs
  <2>3. 0 \in Nat
    OBVIOUS
  <2> QED BY <2>1, <2>2, <2>3, PreadIs
<1>3. BitmapsTrue'
  BY <1>1 DEF LoopInv, BitmapsTrue
<1>4. PICK u : u = UpTo(0, LastCluster(job.disk) - 1)
  OBVIOUS
<1>5. u \in Seq(Int) /\ \A c \in Int : c \in Range(u) <=> 0 <= c /\ c <= LastCluster(job.disk) - 1
  <2>1. 0 \in Int /\ LastCluster(job.disk) - 1 \in Int
    BY <1>2
  <2> QED BY <1>4, <2>1, UpToIs
<1>6. LoopTrue'
  BY <1>1, <1>4, <1>5 DEF LoopInv, LoopTrue, Looping
<1>7. \A idx \in GuestClusters : Awaited(idx)'
  <2> TAKE idx \in GuestClusters
  <2>1. idx \in Nat
    BY <1>2, JobIs DEF GuestClusters
  <2>2. CASE idx < LastCluster(job.disk)
    <3>1. idx \in Range(u)
      BY <1>2, <1>5, <2>1, <2>2
    <3> QED BY <1>1, <1>4, <3>1 DEF Awaited
  <2>3. CASE ~(idx < LastCluster(job.disk))
    <3>1. Beneath(idx) = OfDisk(idx)
      BY <1>2, <2>1, <2>3, PastTheEnd
    <3> QED BY <1>1, <3>1, SameJob DEF Awaited, Settled
  <2> QED BY <2>2, <2>3
<1>8. Chosen'
  <2>1. GuestClusters' = GuestClusters
    BY <1>1, SameJob
  <2> QED BY <1>1, <1>7, <2>1 DEF Chosen, Looping, Counting, Writing
<1> QED BY <1>3, <1>6, <1>8 DEF LoopInv

\* A true map lists every cluster that is not zero.
LEMMA MapCovers ==
  ASSUME NEW map, NEW bytes \in Seq(Nat), IsMap(map), MapTrue(map, bytes),
         NEW idx \in Nat, idx < LastCluster(bytes)
  PROVE  idx \in Range(ClustersOf(ParseMap(map))) \/ Pad(Pread(bytes, idx)) = ZeroCluster
<1>1. 0 \in Nat
  OBVIOUS
<1>2. LastCluster(bytes) \in Nat
  BY <1>1, PreadIs
<1>3. idx \in 0 .. (LastCluster(bytes) - 1)
  BY <1>2
<1>4. Listed(map) = Range(ClustersOf(ParseMap(map)))
  BY DEF Listed, Range
<1> QED BY <1>3, <1>4 DEF MapTrue

\* With maps, the clusters that the disk's or the base's lists.
LEMMA StartByMapKeeps ==
  ASSUME MapsTrue, LoopInv, StartByMap
  PROVE  LoopInv'
<1>1. /\ job' = job /\ job.map # None
      /\ \/ job.base = None /\ phase' = "map" /\ left' = left
         \/ /\ job.base # None /\ job.baseMap # None
            /\ phase' = "mapDiff" /\ left' = Interval(ParseMap(job.baseMap[1]))
      /\ todo' = ClustersOf(ParseMap(job.map[1]))
      /\ UNCHANGED <<l1_bitmap, l2_bitmap, allocated_l2_tables, allocated_data_clusters>>
  BY DEF StartByMap, bitmaps, ByMap
<1>2. job \in Jobs /\ job.disk \in Seq(Nat) /\ IsMap(job.map[1]) /\ TotalDataClusters \in Nat
  <2>1. job \in Jobs
    BY DEF LoopInv, LoopTrue
  <2> QED BY <1>1, <2>1, JobIs
<1>3. BitmapsTrue'
  BY <1>1 DEF LoopInv, BitmapsTrue
<1>4. todo' \in Seq(Int)
  BY <1>1, <1>2, ParseMapIs, ClustersAre
<1>5. MapTrue(job.map[1], job.disk)
  BY <1>1, <1>2 DEF MapsTrue
<1>6. \A idx \in GuestClusters : idx \in Nat
  BY <1>2 DEF GuestClusters
<1>7. ASSUME NEW idx \in GuestClusters
      PROVE  idx \in Range(todo') \/ OfDisk(idx) = ZeroCluster
  <2>1. CASE idx < LastCluster(job.disk)
    BY <1>1, <1>2, <1>5, <1>6, <2>1, MapCovers DEF OfDisk
  <2>2. CASE ~(idx < LastCluster(job.disk))
    <3>1. LastCluster(job.disk) \in Nat /\ idx \in Nat
      BY <1>2, <1>6, PreadIs
    <3>2. Pread(job.disk, idx) \in Seq(Nat) /\ Len(Pread(job.disk, idx)) = 0
      BY <1>2, <2>2, <3>1, PreadIs
    <3>3. 0 <= ClusterSize
      BY SizesAssumption
    <3> QED BY <3>2, <3>3, PadIs DEF OfDisk
  <2> QED BY <2>1, <2>2
<1>8. GuestClusters' = GuestClusters
  BY <1>1, SameJob
<1>9. CASE job.base = None /\ phase' = "map" /\ left' = left
  <2>1. LoopTrue'
    BY <1>1, <1>2, <1>4, <1>9 DEF LoopInv, LoopTrue, Looping
  <2>2. \A idx \in GuestClusters : Awaited(idx)'
    <3> TAKE idx \in GuestClusters
    <3>1. Beneath(idx) = ZeroCluster
      BY <1>9 DEF Beneath
    <3>2. Beneath(idx)' = Beneath(idx) /\ OfDisk(idx)' = OfDisk(idx)
      BY <1>1, SameJob
    <3> QED BY <1>7, <3>1, <3>2 DEF Awaited, Settled
  <2>3. Chosen'
    BY <1>8, <1>9, <2>2 DEF Chosen, Looping, Counting, Writing
  <2> QED BY <1>3, <2>1, <2>3 DEF LoopInv
<1>10. CASE /\ job.base # None /\ job.baseMap # None
            /\ phase' = "mapDiff" /\ left' = Interval(ParseMap(job.baseMap[1]))
  <2>1. Base \in Seq(Nat) /\ IsMap(job.baseMap[1])
    BY <1>2, <1>10, JobIs
  <2>2. MapTrue(job.baseMap[1], Base)
    BY <1>2, <1>10 DEF MapsTrue, Base
  <2>3. left' = ParseMap(job.baseMap[1])
    BY <1>10, <2>2 DEF MapTrue
  <2>4. left' \in Intervals
    BY <2>1, <2>3, ParseMapIs
  <2>5. LoopTrue'
    BY <1>1, <1>2, <1>4, <1>10, <2>4 DEF LoopInv, LoopTrue, Looping
  <2>6. \A idx \in GuestClusters : AwaitedLeft(idx)'
    <3> TAKE idx \in GuestClusters
    <3>1. idx \in Nat /\ LastCluster(Base) \in Nat
      BY <1>6, <2>1, PreadIs
    <3>2. Beneath(idx)' = Beneath(idx) /\ OfDisk(idx)' = OfDisk(idx)
      BY <1>1, SameJob
    <3>3. InSome(left', idx) \/ Beneath(idx) = ZeroCluster
      <4>1. CASE idx < LastCluster(Base)
        <5>1. idx \in Range(ClustersOf(ParseMap(job.baseMap[1]))) \/ Pad(Pread(Base, idx)) = ZeroCluster
          BY <2>1, <2>2, <3>1, <4>1, MapCovers
        <5>2. idx \in Range(ClustersOf(ParseMap(job.baseMap[1]))) => InSome(left', idx)
          BY <2>1, <2>3, <3>1, ParseMapIs, ClustersAre
        <5>3. Beneath(idx) = Pad(Pread(Base, idx))
          BY <1>10, <3>1, <4>1 DEF Beneath
        <5> QED BY <5>1, <5>2, <5>3
      <4>2. CASE ~(idx < LastCluster(Base))
        BY <1>10, <3>1, <4>2 DEF Beneath
      <4> QED BY <4>1, <4>2
    <3> QED BY <1>7, <3>2, <3>3 DEF AwaitedLeft, Awaited, Settled
  <2>7. Chosen'
    BY <1>8, <1>10, <2>6 DEF Chosen, Looping, Counting, Writing
  <2> QED BY <1>3, <2>5, <2>7 DEF LoopInv
<1> QED BY <1>1, <1>9, <1>10

\* What is left of the base's set is looked at too.
LEMMA StartLeftoverKeeps ==
  ASSUME LoopInv, StartLeftover
  PROVE  LoopInv'
<1>1. /\ phase = "mapDiff" /\ todo = <<>>
      /\ todo' = ClustersOf(left) /\ phase' = "leftover"
      /\ job' = job /\ left' = left
      /\ UNCHANGED <<l1_bitmap, l2_bitmap, allocated_l2_tables, allocated_data_clusters>>
  BY DEF StartLeftover, bitmaps
<1>2. BitmapsTrue'
  BY <1>1 DEF LoopInv, BitmapsTrue
<1>3. job \in Jobs /\ left \in Intervals /\ TotalDataClusters \in Nat
  <2>1. job \in Jobs /\ left \in Intervals
    BY DEF LoopInv, LoopTrue
  <2> QED BY <2>1, JobIs
<1>4. todo' \in Seq(Int) /\ \A c \in Int : InSome(left, c) => c \in Range(todo')
  BY <1>1, <1>3, ClustersAre
<1>5. LoopTrue'
  BY <1>1, <1>3, <1>4 DEF LoopInv, LoopTrue, Looping
<1>6. \A idx \in GuestClusters : Awaited(idx)'
  <2> TAKE idx \in GuestClusters
  <2>1. idx \in Int
    BY <1>3 DEF GuestClusters
  <2>2. AwaitedLeft(idx)
    BY <1>1 DEF LoopInv, Chosen
  <2>3. idx \notin Range(todo)
    BY <1>1 DEF Range
  <2>4. Settled(idx) => Settled(idx)'
    BY <1>1, StaysSettled
  <2> QED BY <1>4, <2>1, <2>2, <2>3, <2>4 DEF Awaited, AwaitedLeft
<1>7. Chosen'
  <2>1. GuestClusters' = GuestClusters
    BY <1>1, SameJob
  <2> QED BY <1>1, <1>6, <2>1 DEF Chosen, Looping, Counting, Writing
<1> QED BY <1>2, <1>5, <1>7 DEF LoopInv

\* When nothing is left to look at, all are settled.
LEMMA EndLoopKeeps ==
  ASSUME LoopInv, EndLoop
  PROVE  LoopInv'
<1>1. /\ phase \in Looping /\ todo = <<>> /\ phase' = "count"
      /\ job' = job /\ todo' = todo /\ left' = left
      /\ UNCHANGED <<l1_bitmap, l2_bitmap, allocated_l2_tables, allocated_data_clusters>>
  BY DEF EndLoop, bitmaps, Looping
<1>2. BitmapsTrue'
  BY <1>1 DEF LoopInv, BitmapsTrue
<1>3. LoopTrue'
  BY <1>1 DEF LoopInv, LoopTrue, Counting
<1>4. \A idx \in GuestClusters : Settled(idx)'
  <2> TAKE idx \in GuestClusters
  <2>1. Awaited(idx)
    BY <1>1 DEF LoopInv, Chosen
  <2>2. idx \notin Range(todo)
    BY <1>1 DEF Range
  <2>3. Settled(idx) => Settled(idx)'
    BY <1>1, StaysSettled
  <2> QED BY <2>1, <2>2, <2>3 DEF Awaited
<1>5. Chosen'
  <2>1. GuestClusters' = GuestClusters
    BY <1>1, SameJob
  <2> QED BY <1>1, <1>4, <2>1 DEF Chosen, Looping, Counting, Writing
<1> QED BY <1>2, <1>3, <1>5 DEF LoopInv

\* After the loops the choice stays.
LEMMA ChoiceStays ==
  ASSUME LoopInv, phase \in Counting \cup Writing, phase' \in Counting \cup Writing,
         UNCHANGED <<job, todo, left, bitmaps>>
  PROVE  LoopInv'
<1>1. /\ job' = job /\ todo' = todo /\ left' = left
      /\ UNCHANGED <<l1_bitmap, l2_bitmap, allocated_l2_tables, allocated_data_clusters>>
  BY DEF bitmaps
<1>2. BitmapsTrue'
  BY <1>1 DEF LoopInv, BitmapsTrue
<1>3. phase' \notin Looping /\ phase' # "mapDiff"
  BY DEF Looping, Counting, Writing
<1>4. LoopTrue'
  BY <1>1, <1>3 DEF LoopInv, LoopTrue, Looping, Counting, Writing
<1>5. \A idx \in GuestClusters : Settled(idx)'
  BY <1>1, StaysSettled DEF LoopInv, Chosen
<1>6. Chosen'
  <2>1. GuestClusters' = GuestClusters
    BY <1>1, SameJob
  <2> QED BY <1>3, <1>5, <2>1 DEF Chosen, Looping, Counting, Writing
<1> QED BY <1>2, <1>4, <1>6 DEF LoopInv

-----------------------------------------------------------------------------
(* The image *)

IsSeq(s) == s \in Seq(Range(s))

\* A function on the first n numbers, whatever its values are.
LEMMA RowIs ==
  ASSUME NEW n \in Nat, NEW f, f = [i \in 1 .. n |-> f[i]]
  PROVE  IsSeq(f) /\ Len(f) = n /\ DOMAIN f = 1 .. n
<1>1. DOMAIN f = 1 .. n
  OBVIOUS
<1>2. f \in [1 .. n -> Range(f)]
  BY <1>1 DEF Range
<1>3. PICK S : S = Range(f)
  OBVIOUS
<1>4. f \in Seq(S) /\ Len(f) = n
  BY <1>2, <1>3, FunctionIsSeq
<1> QED BY <1>1, <1>3, <1>4 DEF IsSeq

\* A sequence over a set is one over any larger set.
LEMMA WiderSeq ==
  ASSUME NEW S, NEW T, S \subseteq T, NEW s \in Seq(S)
  PROVE  s \in Seq(T)
<1>1. Len(s) \in Nat /\ s \in [1 .. Len(s) -> S]
  OBVIOUS
<1>2. s \in [1 .. Len(s) -> T]
  BY <1>1
<1> QED BY <1>1, <1>2, FunctionIsSeq

\* A sequence is such a function.
LEMMA SeqIsRow ==
  ASSUME NEW S, NEW s \in Seq(S)
  PROVE  Len(s) \in Nat /\ s = [i \in 1 .. Len(s) |-> s[i]]
<1>1. Len(s) \in Nat /\ s \in [1 .. Len(s) -> S]
  OBVIOUS
<1> QED BY <1>1

IsJoined(c, s, t) ==
    /\ Len(s) \in Nat /\ Len(t) \in Nat
    /\ IsSeq(c) /\ Len(c) = Len(s) + Len(t)
    /\ \A i \in 1 .. Len(s) : c[i] = s[i]
    /\ \A i \in 1 .. Len(t) : c[Len(s) + i] = t[i]

\* What is written goes after what is there.
LEMMA WrittenIs ==
  ASSUME NEW s, NEW t, IsSeq(s), IsSeq(t), NEW c, c = s \o t
  PROVE  IsJoined(c, s, t)
<1>1. PICK A, B : A = Range(s) /\ B = Range(t)
  OBVIOUS
<1>2. PICK S : S = A \cup B
  OBVIOUS
<1>3. s \in Seq(S) /\ t \in Seq(S)
  <2>1. s \in Seq(A) /\ t \in Seq(B) /\ A \subseteq S /\ B \subseteq S
    BY <1>1, <1>2 DEF IsSeq
  <2> QED BY <2>1, WiderSeq
<1>4. /\ s \o t \in Seq(S) /\ Len(s \o t) = Len(s) + Len(t)
      /\ \A i \in 1 .. Len(s) : (s \o t)[i] = s[i]
      /\ \A i \in 1 .. Len(t) : (s \o t)[Len(s) + i] = t[i]
  BY <1>3, JoinedIs
<1>5. c = [i \in 1 .. Len(c) |-> c[i]] /\ Len(c) \in Nat
  <2>1. c \in Seq(S)
    BY <1>4
  <2> QED BY <2>1, SeqIsRow
<1>6. IsSeq(c)
  <2>1. PICK n : n = Len(c)
    OBVIOUS
  <2> QED BY <1>5, <2>1, RowIs
<1> QED BY <1>3, <1>4, <1>6 DEF IsJoined

\* Where an entry is in the tables.
LEMMA TablesAre ==
  ASSUME NEW n \in Nat, NEW entries, NEW tables, tables = Tables(n, entries)
  PROVE  /\ IsSeq(tables) /\ Len(tables) = n
         /\ \A k, q, r : q \in Nat /\ q < n /\ r \in 0 .. (EntriesPerTable - 1)
                         /\ k = q * EntriesPerTable + r
                         => tables[q + 1][r + 1] = entries[k]
<1>1. EntriesPerTable \in Nat
  BY SizesAssumption
<1>2. tables = [t \in 1 .. n |-> [i \in 1 .. EntriesPerTable |-> entries[(t - 1) * EntriesPerTable + i - 1]]]
  BY DEF Tables
<1>3. tables = [t \in 1 .. n |-> tables[t]]
  BY <1>2
<1>4. ASSUME NEW k, NEW q \in Nat, NEW r \in 0 .. (EntriesPerTable - 1), q < n,
             k = q * EntriesPerTable + r
      PROVE  tables[q + 1][r + 1] = entries[k]
  <2>1. q + 1 \in 1 .. n /\ r + 1 \in 1 .. EntriesPerTable /\ (q + 1) - 1 = q
    BY <1>1, <1>4
  <2>2. PICK a : a = q * EntriesPerTable
    OBVIOUS
  <2>3. a \in Nat
    BY <1>1, <2>2
  <2>4. a + (r + 1) - 1 = k
    BY <1>1, <1>4, <2>2, <2>3
  <2>5. tables[q + 1] = [i \in 1 .. EntriesPerTable |-> entries[a + i - 1]]
    BY <1>2, <2>1, <2>2
  <2> QED BY <2>1, <2>4, <2>5
<1> QED BY <1>3, <1>4, RowIs

HeaderDone == Writing \ {"header"}

CountsTrue ==
    /\ total_allocated_clusters \in Nat
    /\ allocated_refcount_blocks \in Nat /\ allocated_refcount_tables \in Nat

DataClusters == IF job.dataFile = "none" THEN Cardinality(l2_bitmap \cap GuestClusters) ELSE 0

\* Every part of the image begins at its offset.
LaidOut ==
    /\ IsSeq(out)
    /\ phase \notin HeaderDone => out = <<>>
    /\ phase \in HeaderDone => Len(out) # 0
    /\ phase = "refcountTable" => Len(out) = RefcountTableOffset
    /\ phase = "refcountBlocks" => Len(out) = RefcountBlockOffset
    /\ phase = "l1" => Len(out) = L1TableOffset
    /\ phase = "l2" => Len(out) = L2TableOffset
    /\ phase = "data" => Len(out) = DataClustersOffset
    /\ phase = "done" => Len(out) = DataClustersOffset + DataClusters

\* And has what its reader looks for.
BlockPlace(k) == RefcountTableOffset + Quotient(k, EntriesPerTable)
BlockValue(k) == IF k < allocated_refcount_blocks THEN RefcountBlockOffset + k ELSE Unset
CountValue(b, i) == IF b * RefcountsPerBlock + i < total_allocated_clusters THEN 1 ELSE 0
L1Place(k) == L1TableOffset + Quotient(k, EntriesPerTable)
L1Value(k) == IF k \in l1_bitmap THEN L2TableOffset + Before(l1_bitmap, k) ELSE Unset
L2Place(idx) == L2TableOffset + Before(l1_bitmap, Quotient(idx, EntriesPerTable))
DataPlace(idx) == DataClustersOffset + Before(l2_bitmap, idx)
EntryAt(n, k) == Cluster(n)[Remainder(k, EntriesPerTable) + 1]

HeaderWritten ==
    phase \in HeaderDone =>
      /\ Cluster(0).l1_table = IF L1Tables = 0 THEN 0 ELSE L1TableOffset
      /\ Cluster(0).features = Features
      /\ Cluster(0).refcount_table = RefcountTableOffset
      /\ Cluster(0).refcount_tables = allocated_refcount_tables
RefcountTableWritten ==
    phase \in HeaderDone \ {"refcountTable"} =>
      /\ RefcountBlockOffset <= Len(out)
      /\ \A k \in EntriesOf(allocated_refcount_tables) : EntryAt(BlockPlace(k), k) = BlockValue(k)
RefcountBlocksWritten ==
    phase \in {"l1", "l2", "data", "done"} =>
      /\ L1TableOffset <= Len(out)
      /\ \A b \in 0 .. (allocated_refcount_blocks - 1) : \A i \in 0 .. (RefcountsPerBlock - 1) :
            Cluster(RefcountBlockOffset + b)[i + 1] = CountValue(b, i)
L1Written ==
    phase \in {"l2", "data", "done"} =>
      /\ L2TableOffset <= Len(out)
      /\ \A k \in 0 .. (L1Entries - 1) : EntryAt(L1Place(k), k) = L1Value(k)
L2Written ==
    phase \in {"data", "done"} =>
      /\ DataClustersOffset <= Len(out)
      /\ \A idx \in EntriesOf(L1Entries) :
            Quotient(idx, EntriesPerTable) \in l1_bitmap => EntryAt(L2Place(idx), idx) = L2Entry(idx)
DataWritten ==
    phase = "done" /\ job.dataFile = "none" =>
      \A idx \in GuestClusters \cap l2_bitmap : Cluster(DataPlace(idx)) = OfDisk(idx)

ImageInv == /\ CountsTrue /\ LaidOut /\ HeaderWritten
            /\ RefcountTableWritten /\ RefcountBlocksWritten
            /\ L1Written /\ L2Written /\ DataWritten

\* The offsets are numbers in order.
LEMMA OffsetsAre ==
  ASSUME LoopInv, CountsTrue
  PROVE  /\ RefcountTableOffset = 1
         /\ RefcountBlockOffset \in Nat /\ RefcountBlockOffset = 1 + allocated_refcount_tables
         /\ L1TableOffset \in Nat /\ L1TableOffset = RefcountBlockOffset + allocated_refcount_blocks
         /\ L2TableOffset \in Nat /\ L2TableOffset = L1TableOffset + L1Tables
         /\ DataClustersOffset \in Nat /\ DataClustersOffset = L2TableOffset + Cardinality(l1_bitmap)
         /\ L1Tables \in Nat /\ L1Entries \in Nat /\ TotalDataClusters \in Nat
         /\ Cardinality(l1_bitmap) \in Nat
<1>1. L1Tables \in Nat /\ L1Entries \in Nat /\ TotalDataClusters \in Nat
  BY JobIs DEF LoopInv, LoopTrue
<1>2. Cardinality(l1_bitmap) \in Nat /\ allocated_l2_tables = Cardinality(l1_bitmap)
  BY FS_CardinalityType DEF LoopInv, BitmapsTrue
<1>3. RefcountTableOffset = 1
  BY DEF RefcountTableOffset
<1>4. RefcountBlockOffset \in Nat /\ RefcountBlockOffset = 1 + allocated_refcount_tables
  BY <1>3 DEF RefcountBlockOffset, CountsTrue
<1>5. L1TableOffset \in Nat /\ L1TableOffset = RefcountBlockOffset + allocated_refcount_blocks
  BY <1>4 DEF L1TableOffset, CountsTrue
<1>6. L2TableOffset \in Nat /\ L2TableOffset = L1TableOffset + L1Tables
  BY <1>1, <1>5 DEF L2TableOffset
<1>7. DataClustersOffset \in Nat /\ DataClustersOffset = L2TableOffset + Cardinality(l1_bitmap)
  BY <1>2, <1>6 DEF DataClustersOffset
<1> QED BY <1>1, <1>2, <1>3, <1>4, <1>5, <1>6, <1>7

\* What the reader looks for depends on what no write changes.
LEMMA SamePlaces ==
  ASSUME UNCHANGED <<job, bitmaps, counts>>
  PROVE  /\ RefcountTableOffset' = RefcountTableOffset /\ RefcountBlockOffset' = RefcountBlockOffset
         /\ L1TableOffset' = L1TableOffset /\ L2TableOffset' = L2TableOffset
         /\ DataClustersOffset' = DataClustersOffset
         /\ \A k : L1Place(k)' = L1Place(k) /\ L1Value(k)' = L1Value(k)
         /\ \A k : L2Place(k)' = L2Place(k) /\ L2Entry(k)' = L2Entry(k)
         /\ \A k : DataPlace(k)' = DataPlace(k)
         /\ \A k : BlockPlace(k)' = BlockPlace(k) /\ BlockValue(k)' = BlockValue(k)
         /\ \A b, i : CountValue(b, i)' = CountValue(b, i)
         /\ DataClusters' = DataClusters
         /\ Features' = Features
<1>1. job' = job /\ L1Tables' = L1Tables
  BY SameJob
<1>2. UNCHANGED <<l1_bitmap, l2_bitmap, allocated_l2_tables>>
  BY DEF bitmaps
<1>3. UNCHANGED <<total_allocated_clusters, allocated_refcount_blocks, allocated_refcount_tables>>
  BY DEF counts
<1>4. RefcountTableOffset' = RefcountTableOffset /\ RefcountBlockOffset' = RefcountBlockOffset
  BY <1>3 DEF RefcountTableOffset, RefcountBlockOffset
<1>5. L1TableOffset' = L1TableOffset
  BY <1>3, <1>4 DEF L1TableOffset
<1>6. L2TableOffset' = L2TableOffset
  BY <1>1, <1>5 DEF L2TableOffset
<1>7. DataClustersOffset' = DataClustersOffset
  BY <1>2, <1>6 DEF DataClustersOffset
<1>8. \A k : L1Place(k)' = L1Place(k) /\ L1Value(k)' = L1Value(k)
  BY <1>2, <1>5, <1>6 DEF L1Place, L1Value, Before
<1>9. \A k : L2Place(k)' = L2Place(k) /\ L2Entry(k)' = L2Entry(k)
  BY <1>1, <1>2, <1>6, <1>7 DEF L2Place, L2Entry, Before
<1>10. \A k : DataPlace(k)' = DataPlace(k)
  BY <1>2, <1>7 DEF DataPlace, Before
<1>11. Features' = Features
  BY <1>1 DEF Features
<1>12. \A k : BlockPlace(k)' = BlockPlace(k) /\ BlockValue(k)' = BlockValue(k)
  BY <1>3, <1>4 DEF BlockPlace, BlockValue
<1>13. \A b, i : CountValue(b, i)' = CountValue(b, i)
  BY <1>3 DEF CountValue
<1>14. DataClusters' = DataClusters
  BY <1>1, <1>2, SameJob DEF DataClusters
<1> QED BY <1>4, <1>5, <1>6, <1>7, <1>8, <1>9, <1>10, <1>11, <1>12, <1>13, <1>14

\* Where the reader looks is inside what was written.
LEMMA L1PlaceIs ==
  ASSUME LoopInv, CountsTrue, NEW k \in 0 .. (L1Entries - 1)
  PROVE  /\ k \in Nat
         /\ Quotient(k, EntriesPerTable) \in 0 .. (L1Tables - 1)
         /\ Remainder(k, EntriesPerTable) \in 0 .. (EntriesPerTable - 1)
         /\ k = Quotient(k, EntriesPerTable) * EntriesPerTable + Remainder(k, EntriesPerTable)
         /\ k \in EntriesOf(L1Tables)
         /\ L1Place(k) \in Nat /\ L1TableOffset <= L1Place(k) /\ L1Place(k) < L2TableOffset
<1>1. L1Entries \in Nat /\ L1Tables \in Nat /\ L1TableOffset \in Nat
      /\ L2TableOffset = L1TableOffset + L1Tables
  BY OffsetsAre
<1>2. EntriesPerTable \in Nat \ {0}
  BY SizesAssumption
<1>3. k \in Nat /\ k < L1Entries
  BY <1>1
<1>4. PICK q, r : q = Quotient(k, EntriesPerTable) /\ r = Remainder(k, EntriesPerTable)
  OBVIOUS
<1>5. /\ q \in Nat /\ q < L1Tables /\ r \in 0 .. (EntriesPerTable - 1)
      /\ q * EntriesPerTable + r = k /\ k \in 0 .. (L1Tables * EntriesPerTable - 1)
  <2>1. L1Tables = DivUp(L1Entries, EntriesPerTable)
    BY DEF L1Tables
  <2> QED BY <1>1, <1>2, <1>3, <1>4, <2>1, Place
<1>6. q \in 0 .. (L1Tables - 1) /\ L1TableOffset + q \in Nat
      /\ L1TableOffset <= L1TableOffset + q /\ L1TableOffset + q < L2TableOffset
  BY <1>1, <1>5
<1> QED BY <1>3, <1>4, <1>5, <1>6 DEF L1Place, EntriesOf

\* The same of the tables of clusters.
LEMMA L2PlaceIs ==
  ASSUME LoopInv, CountsTrue, NEW idx \in EntriesOf(L1Entries)
  PROVE  /\ idx \in Nat
         /\ Quotient(idx, EntriesPerTable) \in 0 .. (L1Entries - 1)
         /\ Remainder(idx, EntriesPerTable) \in 0 .. (EntriesPerTable - 1)
         /\ idx = Quotient(idx, EntriesPerTable) * EntriesPerTable + Remainder(idx, EntriesPerTable)
         /\ Quotient(idx, EntriesPerTable) \in l1_bitmap =>
              /\ Before(l1_bitmap, Quotient(idx, EntriesPerTable)) \in 0 .. (Cardinality(l1_bitmap) - 1)
              /\ L2Place(idx) \in Nat /\ L2TableOffset <= L2Place(idx) /\ L2Place(idx) < DataClustersOffset
<1>1. /\ L1Entries \in Nat /\ TotalDataClusters \in Nat /\ L2TableOffset \in Nat
      /\ DataClustersOffset = L2TableOffset + Cardinality(l1_bitmap)
      /\ Cardinality(l1_bitmap) \in Nat
  BY OffsetsAre
<1>2. EntriesPerTable \in Nat \ {0}
  BY SizesAssumption
<1>3. PICK t : t = L1Entries * EntriesPerTable
  OBVIOUS
<1>4. PICK q, r : q = Quotient(idx, EntriesPerTable) /\ r = Remainder(idx, EntriesPerTable)
  OBVIOUS
<1>5. /\ idx \in Nat /\ q \in Nat /\ q < L1Entries /\ r \in 0 .. (EntriesPerTable - 1)
      /\ q * EntriesPerTable + r = idx
  <2>1. t \in Nat /\ idx \in Nat /\ idx < t
    BY <1>1, <1>2, <1>3 DEF EntriesOf
  <2>2. q \in Nat /\ r \in 0 .. (EntriesPerTable - 1) /\ idx = q * EntriesPerTable + r
    BY <1>2, <1>4, <2>1, Division
  <2>3. q * EntriesPerTable \in Nat /\ (L1Entries <= q => t <= q * EntriesPerTable)
    BY <1>1, <1>2, <1>3, <2>2, Multiples
  <2> QED BY <1>1, <1>2, <2>1, <2>2, <2>3
<1>6. q \in 0 .. (L1Entries - 1)
  BY <1>1, <1>5
<1>7. ASSUME q \in l1_bitmap
      PROVE  /\ Before(l1_bitmap, q) \in 0 .. (Cardinality(l1_bitmap) - 1)
             /\ L2Place(idx) \in Nat /\ L2TableOffset <= L2Place(idx) /\ L2Place(idx) < DataClustersOffset
  <2>1. Before(l1_bitmap, q) \in 0 .. (Cardinality(l1_bitmap) - 1)
    BY <1>7, BeforeCounts DEF LoopInv, BitmapsTrue
  <2>2. PICK b : b = Before(l1_bitmap, q)
    OBVIOUS
  <2>3. L2Place(idx) = L2TableOffset + b
    BY <1>4, <2>2 DEF L2Place
  <2> QED BY <1>1, <2>1, <2>2, <2>3
<1> QED BY <1>4, <1>5, <1>6, <1>7

\* And of the table of refcount blocks.
LEMMA BlockPlaceIs ==
  ASSUME LoopInv, CountsTrue, NEW k \in EntriesOf(allocated_refcount_tables)
  PROVE  /\ k \in Nat
         /\ Quotient(k, EntriesPerTable) \in 0 .. (allocated_refcount_tables - 1)
         /\ Remainder(k, EntriesPerTable) \in 0 .. (EntriesPerTable - 1)
         /\ k = Quotient(k, EntriesPerTable) * EntriesPerTable + Remainder(k, EntriesPerTable)
         /\ BlockPlace(k) \in Nat /\ BlockPlace(k) = 1 + Quotient(k, EntriesPerTable)
         /\ BlockPlace(k) < RefcountBlockOffset
<1>1. PICK m \in Nat : m = allocated_refcount_tables
  BY DEF CountsTrue
<1>2. RefcountTableOffset = 1 /\ RefcountBlockOffset = 1 + m
  BY <1>1, OffsetsAre
<1>3. EntriesPerTable \in Nat \ {0}
  BY SizesAssumption
<1>4. PICK t : t = m * EntriesPerTable
  OBVIOUS
<1>5. PICK q, r : q = Quotient(k, EntriesPerTable) /\ r = Remainder(k, EntriesPerTable)
  OBVIOUS
<1>6. /\ k \in Nat /\ q \in Nat /\ q < m /\ r \in 0 .. (EntriesPerTable - 1)
      /\ q * EntriesPerTable + r = k
  <2>1. t \in Nat /\ k \in Nat /\ k < t
    BY <1>1, <1>3, <1>4 DEF EntriesOf
  <2>2. q \in Nat /\ r \in 0 .. (EntriesPerTable - 1) /\ k = q * EntriesPerTable + r
    BY <1>3, <1>5, <2>1, Division
  <2>3. q * EntriesPerTable \in Nat /\ (m <= q => t <= q * EntriesPerTable)
    BY <1>1, <1>3, <1>4, <2>2, Multiples
  <2> QED BY <1>1, <1>3, <2>1, <2>2, <2>3
<1>7. BlockPlace(k) = 1 + q
  BY <1>2, <1>5 DEF BlockPlace
<1> QED BY <1>1, <1>2, <1>5, <1>6, <1>7

\* The tables have room for every cluster of the disk.
LEMMA GuestsAre ==
  ASSUME LoopInv, CountsTrue
  PROVE  GuestClusters \subseteq EntriesOf(L1Entries)
<1>1. TotalDataClusters \in Nat /\ L1Entries = DivUp(TotalDataClusters, EntriesPerTable)
  BY OffsetsAre DEF L1Entries
<1>2. EntriesPerTable \in Nat \ {0}
  BY SizesAssumption
<1>3. ASSUME NEW idx \in GuestClusters PROVE idx \in EntriesOf(L1Entries)
  <2>1. idx \in Nat /\ idx < TotalDataClusters
    BY <1>1, <1>3 DEF GuestClusters
  <2>2. PICK q, r : q = Quotient(idx, EntriesPerTable) /\ r = Remainder(idx, EntriesPerTable)
    OBVIOUS
  <2>3. idx \in 0 .. (DivUp(TotalDataClusters, EntriesPerTable) * EntriesPerTable - 1)
    BY <1>1, <1>2, <2>1, <2>2, Place
  <2> QED BY <1>1, <2>3 DEF EntriesOf
<1> QED BY <1>3

\* Before the header nothing is written.
LEMMA QuietKeeps ==
  ASSUME ImageInv, out' = out, phase \notin HeaderDone, phase' \notin HeaderDone, CountsTrue'
  PROVE  ImageInv'
<1>1. out = <<>> /\ out' = <<>> /\ IsSeq(out)
  BY DEF ImageInv, LaidOut
<1>2. IsSeq(out')
  BY <1>1
<1>3. LaidOut'
  BY <1>1, <1>2 DEF LaidOut, HeaderDone, Writing, IsSeq, Range
<1>4. /\ HeaderWritten' /\ RefcountTableWritten' /\ RefcountBlocksWritten'
      /\ L1Written' /\ L2Written' /\ DataWritten'
  BY DEF HeaderWritten, RefcountTableWritten, RefcountBlocksWritten, L1Written, L2Written, DataWritten,
         HeaderDone, Writing
<1> QED BY <1>3, <1>4 DEF ImageInv

Appended(c) ==
    /\ IsSeq(c) /\ out' = out \o c
    /\ phase \in Writing /\ phase' \in HeaderDone
    /\ UNCHANGED <<job, todo, left, bitmaps, counts>>

\* What is there stays, and what is written goes after it.
LEMMA AppendedIs ==
  ASSUME LoopInv, ImageInv, NEW c, Appended(c), NEW n, n = Len(out)
  PROVE  /\ LoopInv' /\ CountsTrue' /\ n \in Nat /\ Len(c) \in Nat
         /\ IsSeq(out)' /\ Len(out') = n + Len(c)
         /\ \A i \in 0 .. (n - 1) : Cluster(i)' = Cluster(i)
         /\ \A i \in 0 .. (Len(c) - 1) : Cluster(n + i)' = c[i + 1]
<1>1. IsSeq(out) /\ IsSeq(c) /\ out' = out \o c
  BY DEF ImageInv, LaidOut, Appended
<1>2. PICK o : o = out \o c
  OBVIOUS
<1>3. /\ n \in Nat /\ Len(c) \in Nat
      /\ IsSeq(o) /\ Len(o) = n + Len(c)
      /\ \A i \in 1 .. n : o[i] = out[i]
      /\ \A i \in 1 .. Len(c) : o[n + i] = c[i]
  <2>1. IsJoined(o, out, c)
    BY <1>1, <1>2, WrittenIs
  <2> QED BY <2>1 DEF IsJoined
<1>4. out' = o
  BY <1>1, <1>2
<1>5. IsSeq(out)'
  BY <1>3, <1>4 DEF IsSeq, Range
<1>6. \A i \in 0 .. (n - 1) : Cluster(i)' = Cluster(i)
  <2> TAKE i \in 0 .. (n - 1)
  <2>1. i + 1 \in 1 .. n
    BY <1>3
  <2> QED BY <1>3, <1>4, <2>1 DEF Cluster
<1>7. \A i \in 0 .. (Len(c) - 1) : Cluster(n + i)' = c[i + 1]
  <2> TAKE i \in 0 .. (Len(c) - 1)
  <2>1. i + 1 \in 1 .. Len(c) /\ n + i + 1 = n + (i + 1)
    BY <1>3
  <2> QED BY <1>3, <1>4, <2>1 DEF Cluster
<1>8. LoopInv'
  <2>1. phase \in Counting \cup Writing /\ phase' \in Counting \cup Writing
        /\ UNCHANGED <<job, todo, left, bitmaps>>
    BY DEF Appended, HeaderDone
  <2> QED BY <2>1, ChoiceStays
<1>9. CountsTrue'
  BY DEF Appended, counts, ImageInv, CountsTrue
<1> QED BY <1>3, <1>4, <1>5, <1>6, <1>7, <1>8, <1>9

\* The parts that are written stay what they are.
LEMMA WrittenStays ==
  ASSUME LoopInv, ImageInv, NEW c, Appended(c)
  PROVE  /\ phase \in HeaderDone => HeaderWritten'
         /\ phase \in HeaderDone \ {"refcountTable"} => RefcountTableWritten'
         /\ phase \in {"l1", "l2", "data"} => RefcountBlocksWritten'
         /\ phase \in {"l2", "data"} => L1Written'
         /\ phase = "data" => L2Written'
<1>1. PICK n : n = Len(out)
  OBVIOUS
<1>2. /\ n \in Nat /\ Len(c) \in Nat /\ Len(out') = n + Len(c)
      /\ \A i \in 0 .. (n - 1) : Cluster(i)' = Cluster(i)
  BY <1>1, AppendedIs
<1>3. UNCHANGED <<job, bitmaps, counts>> /\ UNCHANGED <<l1_bitmap, l2_bitmap>>
  BY DEF Appended, bitmaps
<1>4. CountsTrue
  BY DEF ImageInv
<1>5. GuestClusters' = GuestClusters /\ L1Entries' = L1Entries /\ L1Tables' = L1Tables
  BY <1>3, SameJob
<1>6. ASSUME phase \in HeaderDone PROVE HeaderWritten'
  <2>1. /\ Cluster(0).l1_table = IF L1Tables = 0 THEN 0 ELSE L1TableOffset
        /\ Cluster(0).features = Features
        /\ Cluster(0).refcount_table = RefcountTableOffset
        /\ Cluster(0).refcount_tables = allocated_refcount_tables
    BY <1>6 DEF ImageInv, HeaderWritten
  <2>2. 0 \in 0 .. (n - 1)
    BY <1>1, <1>2, <1>6 DEF ImageInv, LaidOut
  <2>3. Cluster(0)' = Cluster(0)
    BY <1>2, <2>2
  <2>4. /\ L1TableOffset' = L1TableOffset /\ Features' = Features
        /\ RefcountTableOffset' = RefcountTableOffset
        /\ allocated_refcount_tables' = allocated_refcount_tables
    BY <1>3, SamePlaces DEF counts
  <2> QED BY <1>5, <2>1, <2>3, <2>4 DEF HeaderWritten
<1>7. ASSUME phase \in {"l2", "data"} PROVE L1Written'
  <2>1. /\ L2TableOffset <= n
        /\ \A k \in 0 .. (L1Entries - 1) : EntryAt(L1Place(k), k) = L1Value(k)
    BY <1>1, <1>7 DEF ImageInv, L1Written
  <2>2. L2TableOffset \in Nat /\ L2TableOffset' = L2TableOffset
    BY <1>3, <1>4, OffsetsAre, SamePlaces
  <2>3. ASSUME NEW k \in 0 .. (L1Entries - 1)
        PROVE  EntryAt(L1Place(k), k)' = L1Value(k)'
    <3>1. PICK p : p = L1Place(k)
      OBVIOUS
    <3>2. p \in 0 .. (n - 1)
      BY <1>2, <1>4, <2>1, <2>2, <3>1, L1PlaceIs
    <3>3. L1Place(k)' = p /\ L1Value(k)' = L1Value(k)
      BY <1>3, <3>1, SamePlaces
    <3>4. Cluster(p)' = Cluster(p)
      BY <1>2, <3>2
    <3>5. EntryAt(p, k)' = EntryAt(p, k)
      BY <3>4 DEF EntryAt
    <3>6. EntryAt(L1Place(k), k)' = EntryAt(p, k)'
      BY <3>3 DEF EntryAt, Cluster
    <3> QED BY <2>1, <3>1, <3>3, <3>5, <3>6
  <2>4. L2TableOffset' <= Len(out')
    BY <1>2, <2>1, <2>2
  <2> QED BY <1>5, <2>3, <2>4 DEF L1Written
<1>8. ASSUME phase = "data" PROVE L2Written'
  <2>1. /\ DataClustersOffset <= n
        /\ \A idx \in EntriesOf(L1Entries) :
              Quotient(idx, EntriesPerTable) \in l1_bitmap => EntryAt(L2Place(idx), idx) = L2Entry(idx)
    BY <1>1, <1>8 DEF ImageInv, L2Written
  <2>2. DataClustersOffset \in Nat /\ DataClustersOffset' = DataClustersOffset
    BY <1>3, <1>4, OffsetsAre, SamePlaces
  <2>3. ASSUME NEW idx \in EntriesOf(L1Entries), Quotient(idx, EntriesPerTable) \in l1_bitmap
        PROVE  EntryAt(L2Place(idx), idx)' = L2Entry(idx)'
    <3>1. PICK p : p = L2Place(idx)
      OBVIOUS
    <3>2. p \in 0 .. (n - 1)
      BY <1>2, <1>4, <2>1, <2>2, <2>3, <3>1, L2PlaceIs
    <3>3. L2Place(idx)' = p /\ L2Entry(idx)' = L2Entry(idx)
      BY <1>3, <3>1, SamePlaces
    <3>4. Cluster(p)' = Cluster(p)
      BY <1>2, <3>2
    <3>5. EntryAt(p, idx)' = EntryAt(p, idx)
      BY <3>4 DEF EntryAt
    <3>6. EntryAt(L2Place(idx), idx)' = EntryAt(p, idx)'
      BY <3>3 DEF EntryAt, Cluster
    <3> QED BY <2>1, <2>3, <3>1, <3>3, <3>5, <3>6
  <2>4. DataClustersOffset' <= Len(out')
    BY <1>2, <2>1, <2>2
  <2> QED BY <1>3, <1>5, <2>3, <2>4 DEF L2Written, EntriesOf
<1>9. ASSUME phase \in HeaderDone \ {"refcountTable"} PROVE RefcountTableWritten'
  <2>1. /\ RefcountBlockOffset <= n
        /\ \A k \in EntriesOf(allocated_refcount_tables) : EntryAt(BlockPlace(k), k) = BlockValue(k)
    BY <1>1, <1>9 DEF ImageInv, RefcountTableWritten
  <2>2. /\ RefcountBlockOffset \in Nat /\ RefcountBlockOffset' = RefcountBlockOffset
        /\ allocated_refcount_tables' = allocated_refcount_tables
    BY <1>3, <1>4, OffsetsAre, SamePlaces DEF counts
  <2>3. ASSUME NEW k \in EntriesOf(allocated_refcount_tables)
        PROVE  EntryAt(BlockPlace(k), k)' = BlockValue(k)'
    <3>1. PICK p : p = BlockPlace(k)
      OBVIOUS
    <3>2. p \in 0 .. (n - 1)
      <4>1. p \in Nat /\ p < RefcountBlockOffset
        BY <1>4, <3>1, BlockPlaceIs
      <4> QED BY <1>2, <2>1, <2>2, <4>1
    <3>3. BlockPlace(k)' = p /\ BlockValue(k)' = BlockValue(k)
      BY <1>3, <3>1, SamePlaces
    <3>4. Cluster(p)' = Cluster(p)
      BY <1>2, <3>2
    <3>5. EntryAt(p, k)' = EntryAt(p, k)
      BY <3>4 DEF EntryAt
    <3>6. EntryAt(BlockPlace(k), k)' = EntryAt(p, k)'
      BY <3>3 DEF EntryAt, Cluster
    <3> QED BY <2>1, <3>1, <3>3, <3>5, <3>6
  <2>4. RefcountBlockOffset' <= Len(out')
    BY <1>2, <2>1, <2>2
  <2> QED BY <2>2, <2>3, <2>4 DEF RefcountTableWritten, EntriesOf
<1>10. ASSUME phase \in {"l1", "l2", "data"} PROVE RefcountBlocksWritten'
  <2>1. /\ L1TableOffset <= n
        /\ \A b \in 0 .. (allocated_refcount_blocks - 1) : \A i \in 0 .. (RefcountsPerBlock - 1) :
              Cluster(RefcountBlockOffset + b)[i + 1] = CountValue(b, i)
    BY <1>1, <1>10 DEF ImageInv, RefcountBlocksWritten
  <2>2. /\ RefcountBlockOffset \in Nat /\ RefcountBlockOffset' = RefcountBlockOffset
        /\ L1TableOffset \in Nat /\ L1TableOffset = RefcountBlockOffset + allocated_refcount_blocks
        /\ L1TableOffset' = L1TableOffset
        /\ allocated_refcount_blocks' = allocated_refcount_blocks /\ allocated_refcount_blocks \in Nat
    BY <1>3, <1>4, OffsetsAre, SamePlaces DEF counts, CountsTrue
  <2>3. ASSUME NEW b \in 0 .. (allocated_refcount_blocks - 1), NEW i \in 0 .. (RefcountsPerBlock - 1)
        PROVE  Cluster(RefcountBlockOffset + b)'[i + 1] = CountValue(b, i)'
    <3>1. PICK p : p = RefcountBlockOffset + b
      OBVIOUS
    <3>2. p \in 0 .. (n - 1)
      BY <1>2, <2>1, <2>2, <3>1
    <3>3. Cluster(p)' = Cluster(p) /\ CountValue(b, i)' = CountValue(b, i)
      BY <1>2, <1>3, <3>2, SamePlaces
    <3>4. Cluster(RefcountBlockOffset + b)' = Cluster(p)'
      BY <2>2, <3>1 DEF Cluster
    <3> QED BY <2>1, <3>1, <3>3, <3>4
  <2>4. L1TableOffset' <= Len(out')
    BY <1>2, <2>1, <2>2
  <2> QED BY <2>2, <2>3, <2>4 DEF RefcountBlocksWritten
<1> QED BY <1>6, <1>7, <1>8, <1>9, <1>10

\* A write is of whole clusters.
LEMMA WriteIs ==
  ASSUME NEW c, NEW from \in Writing, NEW to \in HeaderDone, Write(c, from, to), IsSeq(c)
  PROVE  Appended(c) /\ phase = from /\ phase' = to
BY DEF Write, Appended

\* The header comes first.
LEMMA WriteHeaderKeeps ==
  ASSUME LoopInv, ImageInv, WriteHeader
  PROVE  LoopInv' /\ ImageInv'
<1>1. PICK r : r = [disk_size |-> DiskSize, l1_entries |-> L1Entries,
                    l1_table |-> IF L1Tables = 0 THEN 0 ELSE L1TableOffset,
                    refcount_table |-> RefcountTableOffset,
                    refcount_tables |-> allocated_refcount_tables,
                    features |-> Features]
  OBVIOUS
<1>2. PICK c : c = <<r>>
  OBVIOUS
<1>3. IsSeq(c) /\ Len(c) = 1 /\ c[1] = r
  <2>1. c = [i \in 1 .. 1 |-> c[i]]
    BY <1>2
  <2> QED BY <1>2, <2>1, RowIs
<1>4. Appended(c) /\ phase = "header" /\ phase' = "refcountTable"
  <2>1. Write(c, "header", "refcountTable")
    BY <1>1, <1>2 DEF WriteHeader
  <2>2. "header" \in Writing /\ "refcountTable" \in HeaderDone
    BY DEF Writing, HeaderDone
  <2> QED BY <1>3, <2>1, <2>2, WriteIs
<1>5. Len(out) = 0
  BY <1>4 DEF ImageInv, LaidOut, HeaderDone
<1>6. PICK n : n = Len(out)
  OBVIOUS
<1>7. /\ LoopInv' /\ CountsTrue' /\ IsSeq(out)' /\ Len(out') = 1 /\ Cluster(0)' = r
  <2>1. /\ LoopInv' /\ CountsTrue' /\ n \in Nat /\ Len(c) \in Nat
        /\ IsSeq(out)' /\ Len(out') = n + Len(c)
        /\ \A i \in 0 .. (Len(c) - 1) : Cluster(n + i)' = c[i + 1]
    BY <1>4, <1>6, AppendedIs
  <2>2. n = 0 /\ 0 \in 0 .. (Len(c) - 1) /\ n + 0 = 0 /\ 0 + 1 = 1
    BY <1>3, <1>5, <1>6
  <2>3. Cluster(n + 0)' = c[0 + 1]
    BY <2>1, <2>2
  <2>4. Cluster(0)' = r
    BY <1>3, <2>2, <2>3
  <2> QED BY <1>3, <2>1, <2>2, <2>4
<1>8. /\ UNCHANGED <<job, bitmaps, counts>> /\ L1Tables' = L1Tables
      /\ L1TableOffset' = L1TableOffset /\ Features' = Features /\ RefcountTableOffset' = 1
      /\ RefcountTableOffset = 1 /\ allocated_refcount_tables' = allocated_refcount_tables
  <2>1. UNCHANGED <<job, bitmaps, counts>>
    BY <1>4 DEF Appended
  <2>2. RefcountTableOffset = 1
    BY DEF RefcountTableOffset
  <2> QED BY <2>1, <2>2, SameJob, SamePlaces DEF counts
<1>9. LaidOut'
  BY <1>4, <1>7, <1>8 DEF LaidOut, HeaderDone, Writing
<1>10. HeaderWritten'
  <2>1. r.l1_table = (IF L1Tables = 0 THEN 0 ELSE L1TableOffset) /\ r.features = Features
        /\ r.refcount_table = RefcountTableOffset /\ r.refcount_tables = allocated_refcount_tables
    BY <1>1
  <2> QED BY <1>7, <1>8, <2>1 DEF HeaderWritten
<1>11. RefcountTableWritten' /\ RefcountBlocksWritten' /\ L1Written' /\ L2Written' /\ DataWritten'
  BY <1>4 DEF RefcountTableWritten, RefcountBlocksWritten, HeaderDone, L1Written, L2Written, DataWritten
<1> QED BY <1>7, <1>9, <1>10, <1>11 DEF ImageInv

\* Then the refcount table.
LEMMA WriteRefcountTableKeeps ==
  ASSUME LoopInv, ImageInv, WriteRefcountTable
  PROVE  LoopInv' /\ ImageInv'
<1>1. PICK e : e = [k \in EntriesOf(allocated_refcount_tables) |->
                       IF k < allocated_refcount_blocks THEN RefcountBlockOffset + k ELSE Unset]
  OBVIOUS
<1>2. PICK c : c = Tables(allocated_refcount_tables, e)
  OBVIOUS
<1>3. IsSeq(c) /\ Len(c) = allocated_refcount_tables
  BY <1>2, TablesAre DEF ImageInv, CountsTrue
<1>4. Appended(c) /\ phase = "refcountTable" /\ phase' = "refcountBlocks"
  <2>1. Write(c, "refcountTable", "refcountBlocks")
    BY <1>1, <1>2 DEF WriteRefcountTable
  <2>2. "refcountTable" \in Writing /\ "refcountBlocks" \in HeaderDone
    BY DEF Writing, HeaderDone
  <2> QED BY <1>3, <2>1, <2>2, WriteIs
<1>5. PICK n : n = Len(out)
  OBVIOUS
<1>6. /\ LoopInv' /\ CountsTrue' /\ IsSeq(out)' /\ Len(out') = n + allocated_refcount_tables
      /\ \A i \in 0 .. (allocated_refcount_tables - 1) : Cluster(n + i)' = c[i + 1]
  <2>1. /\ LoopInv' /\ CountsTrue' /\ n \in Nat /\ IsSeq(out)' /\ Len(out') = n + Len(c)
        /\ \A i \in 0 .. (Len(c) - 1) : Cluster(n + i)' = c[i + 1]
    BY <1>4, <1>5, AppendedIs
  <2> QED BY <1>3, <2>1
<1>7. UNCHANGED <<job, bitmaps, counts>>
  BY <1>4 DEF Appended
<1>8. n = 1 /\ Len(out') = RefcountBlockOffset' /\ Len(out') # 0
  <2>1. n = 1
    BY <1>4, <1>5 DEF ImageInv, LaidOut, RefcountTableOffset
  <2>2. /\ RefcountBlockOffset = 1 + allocated_refcount_tables /\ RefcountBlockOffset' = RefcountBlockOffset
        /\ allocated_refcount_tables \in Nat
    BY <1>7, OffsetsAre, SamePlaces DEF ImageInv, CountsTrue
  <2> QED BY <1>6, <2>1, <2>2
<1>9. LaidOut'
  BY <1>4, <1>6, <1>8 DEF LaidOut, HeaderDone, Writing
<1>10. HeaderWritten'
  BY <1>4, WrittenStays DEF HeaderDone, Writing
<1>11. RefcountTableWritten'
  <2>1. PICK m \in Nat : m = allocated_refcount_tables
    BY DEF ImageInv, CountsTrue
  <2>2. allocated_refcount_tables' = m
    BY <1>7, <2>1 DEF counts
  <2>3. CountsTrue
    BY DEF ImageInv
  <2>4. ASSUME NEW k \in EntriesOf(allocated_refcount_tables)
        PROVE  EntryAt(BlockPlace(k), k)' = BlockValue(k)'
    <3>1. PICK q, r : q = Quotient(k, EntriesPerTable) /\ r = Remainder(k, EntriesPerTable)
      OBVIOUS
    <3>2. /\ q \in 0 .. (m - 1) /\ r \in 0 .. (EntriesPerTable - 1)
          /\ k = q * EntriesPerTable + r /\ BlockPlace(k) = 1 + q
      BY <2>1, <2>3, <2>4, <3>1, BlockPlaceIs
    <3>3. BlockPlace(k)' = n + q
      BY <1>7, <1>8, <3>2, SamePlaces
    <3>4. Cluster(n + q)' = c[q + 1]
      BY <1>6, <2>1, <3>2
    <3>5. c[q + 1][r + 1] = e[k]
      <4>1. q \in Nat /\ q < m
        BY <2>1, <3>2
      <4> QED BY <1>2, <2>1, <3>2, <4>1, TablesAre
    <3>6. e[k] = BlockValue(k)
      BY <1>1, <2>4 DEF BlockValue
    <3>7. BlockValue(k)' = BlockValue(k)
      BY <1>7, SamePlaces
    <3>8. EntryAt(BlockPlace(k), k)' = Cluster(n + q)'[r + 1]
      BY <3>1, <3>3 DEF EntryAt, Cluster
    <3> QED BY <3>4, <3>5, <3>6, <3>7, <3>8
  <2>5. RefcountBlockOffset' <= Len(out')
    <3>1. RefcountBlockOffset \in Nat /\ RefcountBlockOffset' = RefcountBlockOffset
      BY <1>7, <2>3, OffsetsAre, SamePlaces
    <3> QED BY <1>8, <3>1
  <2> QED BY <2>1, <2>2, <2>4, <2>5 DEF RefcountTableWritten, EntriesOf
<1>12. RefcountBlocksWritten' /\ L1Written' /\ L2Written' /\ DataWritten'
  BY <1>4 DEF RefcountBlocksWritten, L1Written, L2Written, DataWritten
<1> QED BY <1>6, <1>9, <1>10, <1>11, <1>12 DEF ImageInv

\* And the blocks.
LEMMA WriteRefcountBlocksKeeps ==
  ASSUME LoopInv, ImageInv, WriteRefcountBlocks
  PROVE  LoopInv' /\ ImageInv'
<1>1. PICK c : c = [b \in 1 .. allocated_refcount_blocks |->
              [i \in 1 .. RefcountsPerBlock |->
                  IF (b - 1) * RefcountsPerBlock + i - 1 < total_allocated_clusters THEN 1 ELSE 0]]
  OBVIOUS
<1>2. allocated_refcount_blocks \in Nat
  BY DEF ImageInv, CountsTrue
<1>3. IsSeq(c) /\ Len(c) = allocated_refcount_blocks
  <2>1. c = [b \in 1 .. allocated_refcount_blocks |-> c[b]]
    BY <1>1
  <2> QED BY <1>2, <2>1, RowIs
<1>4. Appended(c) /\ phase = "refcountBlocks" /\ phase' = "l1"
  <2>1. Write(c, "refcountBlocks", "l1")
    BY <1>1 DEF WriteRefcountBlocks
  <2>2. "refcountBlocks" \in Writing /\ "l1" \in HeaderDone
    BY DEF Writing, HeaderDone
  <2> QED BY <1>3, <2>1, <2>2, WriteIs
<1>5. PICK n : n = Len(out)
  OBVIOUS
<1>6. /\ LoopInv' /\ CountsTrue' /\ IsSeq(out)' /\ Len(out') = n + allocated_refcount_blocks
      /\ \A i \in 0 .. (allocated_refcount_blocks - 1) : Cluster(n + i)' = c[i + 1]
  <2>1. /\ LoopInv' /\ CountsTrue' /\ n \in Nat /\ IsSeq(out)' /\ Len(out') = n + Len(c)
        /\ \A i \in 0 .. (Len(c) - 1) : Cluster(n + i)' = c[i + 1]
    BY <1>4, <1>5, AppendedIs
  <2> QED BY <1>3, <2>1
<1>7. UNCHANGED <<job, bitmaps, counts>>
  BY <1>4 DEF Appended
<1>8. Len(out') = L1TableOffset' /\ Len(out') # 0
  <2>1. n = RefcountBlockOffset
    BY <1>4, <1>5 DEF ImageInv, LaidOut
  <2>2. /\ RefcountBlockOffset = 1 + allocated_refcount_tables
        /\ L1TableOffset = RefcountBlockOffset + allocated_refcount_blocks /\ L1TableOffset' = L1TableOffset
        /\ allocated_refcount_tables \in Nat
    BY <1>7, OffsetsAre, SamePlaces DEF ImageInv, CountsTrue
  <2> QED BY <1>2, <1>6, <2>1, <2>2
<1>9. LaidOut'
  BY <1>4, <1>6, <1>8 DEF LaidOut, HeaderDone, Writing
<1>10. HeaderWritten' /\ RefcountTableWritten'
  BY <1>4, WrittenStays DEF HeaderDone, Writing
<1>11. RefcountBlocksWritten'
  <2>1. /\ n = RefcountBlockOffset /\ RefcountBlockOffset' = RefcountBlockOffset
        /\ allocated_refcount_blocks' = allocated_refcount_blocks
    BY <1>4, <1>5, <1>7, SamePlaces DEF ImageInv, LaidOut, counts
  <2>2. ASSUME NEW b \in 0 .. (allocated_refcount_blocks - 1), NEW i \in 0 .. (RefcountsPerBlock - 1)
        PROVE  Cluster(RefcountBlockOffset + b)'[i + 1] = CountValue(b, i)'
    <3>1. Cluster(n + b)' = c[b + 1]
      BY <1>6
    <3>2. RefcountsPerBlock \in Nat
      BY SizesAssumption
    <3>3. b + 1 \in 1 .. allocated_refcount_blocks /\ (b + 1) - 1 = b /\ i + 1 \in 1 .. RefcountsPerBlock
      BY <1>2, <3>2
    <3>4. PICK a : a = b * RefcountsPerBlock
      OBVIOUS
    <3>5. a \in Nat
      BY <1>2, <3>2, <3>4
    <3>6. c[b + 1][i + 1] = IF a + (i + 1) - 1 < total_allocated_clusters THEN 1 ELSE 0
      BY <1>1, <3>3, <3>4
    <3>7. a + (i + 1) - 1 = a + i
      BY <3>2, <3>5
    <3>8. CountValue(b, i) = c[b + 1][i + 1]
      BY <3>4, <3>6, <3>7 DEF CountValue
    <3>9. CountValue(b, i)' = CountValue(b, i)
      BY <1>7, SamePlaces
    <3>10. Cluster(RefcountBlockOffset + b)' = Cluster(n + b)'
      BY <2>1 DEF Cluster
    <3> QED BY <3>1, <3>8, <3>9, <3>10
  <2>3. L1TableOffset' <= Len(out')
    <3>1. CountsTrue
      BY DEF ImageInv
    <3>2. L1TableOffset \in Nat /\ L1TableOffset' = L1TableOffset
      BY <1>7, <3>1, OffsetsAre, SamePlaces
    <3> QED BY <1>8, <3>2
  <2> QED BY <2>1, <2>2, <2>3 DEF RefcountBlocksWritten
<1>12. L1Written' /\ L2Written' /\ DataWritten'
  BY <1>4 DEF L1Written, L2Written, DataWritten
<1> QED BY <1>6, <1>9, <1>10, <1>11, <1>12 DEF ImageInv

\* The L1 table says where the tables of clusters will be.
LEMMA WriteL1TableKeeps ==
  ASSUME LoopInv, ImageInv, WriteL1Table
  PROVE  LoopInv' /\ ImageInv'
<1>1. PICK e : e = [k \in EntriesOf(L1Tables) |->
                     IF k \in l1_bitmap THEN L2TableOffset + Before(l1_bitmap, k) ELSE Unset]
  OBVIOUS
<1>2. PICK c : c = Tables(L1Tables, e)
  OBVIOUS
<1>3. CountsTrue
  BY DEF ImageInv
<1>4. PICK m \in Nat : m = L1Tables
  BY <1>3, OffsetsAre
<1>5. IsSeq(c) /\ Len(c) = m
  BY <1>2, <1>4, TablesAre
<1>6. Appended(c) /\ phase = "l1" /\ phase' = "l2"
  <2>1. Write(c, "l1", "l2")
    BY <1>1, <1>2 DEF WriteL1Table
  <2>2. "l1" \in Writing /\ "l2" \in HeaderDone
    BY DEF Writing, HeaderDone
  <2> QED BY <1>5, <2>1, <2>2, WriteIs
<1>7. PICK n : n = Len(out)
  OBVIOUS
<1>8. /\ LoopInv' /\ CountsTrue' /\ n \in Nat /\ IsSeq(out)' /\ Len(out') = n + m
      /\ \A i \in 0 .. (m - 1) : Cluster(n + i)' = c[i + 1]
  <2>1. /\ LoopInv' /\ CountsTrue' /\ n \in Nat /\ IsSeq(out)' /\ Len(out') = n + Len(c)
        /\ \A i \in 0 .. (Len(c) - 1) : Cluster(n + i)' = c[i + 1]
    BY <1>6, <1>7, AppendedIs
  <2> QED BY <1>5, <2>1
<1>9. UNCHANGED <<job, bitmaps, counts>>
  BY <1>6 DEF Appended
<1>10. n = L1TableOffset /\ n # 0
  BY <1>6, <1>7 DEF ImageInv, LaidOut, HeaderDone, Writing
<1>11. L2TableOffset = n + m /\ L2TableOffset' = L2TableOffset /\ L2TableOffset \in Nat
  BY <1>3, <1>4, <1>9, <1>10, OffsetsAre, SamePlaces
<1>12. LaidOut'
  <2>1. Len(out') = L2TableOffset' /\ Len(out') # 0
    BY <1>4, <1>8, <1>10, <1>11
  <2> QED BY <1>6, <1>8, <2>1 DEF LaidOut, HeaderDone, Writing
<1>13. HeaderWritten' /\ RefcountTableWritten' /\ RefcountBlocksWritten'
  BY <1>6, WrittenStays DEF HeaderDone, Writing
<1>14. L1Written'
  <2>1. L1Entries' = L1Entries
    BY <1>9, SameJob
  <2>2. ASSUME NEW k \in 0 .. (L1Entries - 1)
        PROVE  EntryAt(L1Place(k), k)' = L1Value(k)'
    <3>1. PICK q, r : q = Quotient(k, EntriesPerTable) /\ r = Remainder(k, EntriesPerTable)
      OBVIOUS
    <3>2. /\ q \in 0 .. (m - 1) /\ r \in 0 .. (EntriesPerTable - 1)
          /\ k = q * EntriesPerTable + r /\ k \in EntriesOf(L1Tables)
      BY <1>3, <1>4, <3>1, L1PlaceIs
    <3>3. L1Place(k)' = n + q
      <4>1. L1Place(k) = n + q
        BY <1>10, <3>1 DEF L1Place
      <4>2. L1Place(k)' = L1Place(k)
        BY <1>9, SamePlaces
      <4> QED BY <4>1, <4>2
    <3>4. Cluster(n + q)' = c[q + 1]
      BY <1>8, <3>2
    <3>5. c[q + 1][r + 1] = e[k]
      <4>1. q \in Nat /\ q < m
        BY <1>4, <3>2
      <4> QED BY <1>2, <1>4, <3>2, <4>1, TablesAre
    <3>6. e[k] = L1Value(k)
      BY <1>1, <3>2 DEF L1Value
    <3>7. L1Value(k)' = L1Value(k)
      BY <1>9, SamePlaces
    <3>8. EntryAt(L1Place(k), k)' = Cluster(n + q)'[r + 1]
      BY <3>1, <3>3 DEF EntryAt, Cluster
    <3> QED BY <3>4, <3>5, <3>6, <3>7, <3>8
  <2>3. L2TableOffset' <= Len(out')
    BY <1>8, <1>11
  <2> QED BY <2>1, <2>2, <2>3 DEF L1Written
<1>15. L2Written' /\ DataWritten'
  BY <1>6 DEF L2Written, DataWritten
<1> QED BY <1>8, <1>12, <1>13, <1>14, <1>15 DEF ImageInv

\* They are where it says, in the order of the bitmap.
LEMMA WriteL2TablesKeeps ==
  ASSUME LoopInv, ImageInv, WriteL2Tables
  PROVE  LoopInv' /\ ImageInv'
<1>1. PICK e : e = [k \in EntriesOf(L1Entries) |-> L2Entry(k)]
  OBVIOUS
<1>2. PICK tables : tables = Tables(L1Entries, e)
  OBVIOUS
<1>3. PICK set : set = InOrder(l1_bitmap)
  OBVIOUS
<1>4. PICK c : c = [i \in DOMAIN set |-> tables[set[i] + 1]]
  OBVIOUS
<1>5. CountsTrue
  BY DEF ImageInv
<1>6. PICK m \in Nat : m = Cardinality(l1_bitmap)
  BY <1>5, OffsetsAre
<1>7. /\ DOMAIN set = 1 .. m
      /\ \A x \in l1_bitmap : Before(l1_bitmap, x) + 1 \in 1 .. m /\ set[Before(l1_bitmap, x) + 1] = x
  BY <1>3, <1>6, InOrderIs DEF LoopInv, BitmapsTrue
<1>8. IsSeq(c) /\ Len(c) = m
  <2>1. c = [i \in 1 .. m |-> c[i]]
    BY <1>4, <1>7
  <2> QED BY <2>1, RowIs
<1>9. Appended(c) /\ phase = "l2" /\ phase' = "data"
  <2>1. Write(c, "l2", "data")
    BY <1>1, <1>2, <1>3, <1>4 DEF WriteL2Tables
  <2>2. "l2" \in Writing /\ "data" \in HeaderDone
    BY DEF Writing, HeaderDone
  <2> QED BY <1>8, <2>1, <2>2, WriteIs
<1>10. PICK n : n = Len(out)
  OBVIOUS
<1>11. /\ LoopInv' /\ CountsTrue' /\ n \in Nat /\ IsSeq(out)' /\ Len(out') = n + m
       /\ \A i \in 0 .. (m - 1) : Cluster(n + i)' = c[i + 1]
  <2>1. /\ LoopInv' /\ CountsTrue' /\ n \in Nat /\ IsSeq(out)' /\ Len(out') = n + Len(c)
        /\ \A i \in 0 .. (Len(c) - 1) : Cluster(n + i)' = c[i + 1]
    BY <1>9, <1>10, AppendedIs
  <2> QED BY <1>8, <2>1
<1>12. UNCHANGED <<job, bitmaps, counts>> /\ l1_bitmap' = l1_bitmap
  BY <1>9 DEF Appended, bitmaps
<1>13. n = L2TableOffset /\ n # 0
  BY <1>9, <1>10 DEF ImageInv, LaidOut, HeaderDone, Writing
<1>14. DataClustersOffset = n + m /\ DataClustersOffset' = DataClustersOffset
  BY <1>5, <1>6, <1>12, <1>13, OffsetsAre, SamePlaces
<1>15. LaidOut'
  <2>1. Len(out') = DataClustersOffset' /\ Len(out') # 0
    BY <1>6, <1>11, <1>13, <1>14
  <2> QED BY <1>9, <1>11, <2>1 DEF LaidOut, HeaderDone, Writing
<1>16. HeaderWritten' /\ RefcountTableWritten' /\ RefcountBlocksWritten' /\ L1Written'
  BY <1>9, WrittenStays DEF HeaderDone, Writing
<1>17. L2Written'
  <2>1. L1Entries' = L1Entries
    BY <1>12, SameJob
  <2>2. ASSUME NEW idx \in EntriesOf(L1Entries), Quotient(idx, EntriesPerTable) \in l1_bitmap
        PROVE  EntryAt(L2Place(idx), idx)' = L2Entry(idx)'
    <3>1. PICK q, r : q = Quotient(idx, EntriesPerTable) /\ r = Remainder(idx, EntriesPerTable)
      OBVIOUS
    <3>2. PICK b : b = Before(l1_bitmap, q)
      OBVIOUS
    <3>3. /\ q \in 0 .. (L1Entries - 1) /\ r \in 0 .. (EntriesPerTable - 1)
          /\ idx = q * EntriesPerTable + r
          /\ b \in 0 .. (m - 1) /\ q \in l1_bitmap
      BY <1>5, <1>6, <2>2, <3>1, <3>2, L2PlaceIs
    <3>4. L2Place(idx)' = n + b
      <4>1. L2Place(idx) = n + b
        BY <1>13, <3>1, <3>2 DEF L2Place
      <4>2. L2Place(idx)' = L2Place(idx)
        BY <1>12, SamePlaces
      <4> QED BY <4>1, <4>2
    <3>5. Cluster(n + b)' = c[b + 1]
      BY <1>11, <3>3
    <3>6. c[b + 1] = tables[q + 1]
      <4>1. b + 1 \in 1 .. m /\ set[b + 1] = q
        BY <1>7, <3>2, <3>3
      <4> QED BY <1>4, <1>7, <4>1
    <3>7. tables[q + 1][r + 1] = e[idx]
      <4>1. L1Entries \in Nat
        BY <1>5, OffsetsAre
      <4>2. q \in Nat /\ q < L1Entries
        BY <3>3, <4>1
      <4> QED BY <1>2, <3>3, <4>1, <4>2, TablesAre
    <3>8. e[idx] = L2Entry(idx)
      BY <1>1, <2>2
    <3>9. L2Entry(idx)' = L2Entry(idx)
      BY <1>12, SamePlaces
    <3>10. EntryAt(L2Place(idx), idx)' = Cluster(n + b)'[r + 1]
      BY <3>1, <3>4 DEF EntryAt, Cluster
    <3> QED BY <3>5, <3>6, <3>7, <3>8, <3>9, <3>10
  <2>3. DataClustersOffset' <= Len(out')
    BY <1>6, <1>11, <1>14
  <2> QED BY <1>12, <2>1, <2>2, <2>3 DEF L2Written, EntriesOf
<1>18. DataWritten'
  BY <1>9 DEF DataWritten
<1> QED BY <1>11, <1>15, <1>16, <1>17, <1>18 DEF ImageInv

\* The clusters of the disk come last, each where its entry says.
LEMMA WriteDataClustersKeeps ==
  ASSUME LoopInv, ImageInv, WriteDataClusters
  PROVE  LoopInv' /\ ImageInv'
<1> DEFINE S == l2_bitmap \cap (0 .. (TotalDataClusters - 1))
<1>1. PICK set : set = InOrder(S)
  OBVIOUS
<1>2. PICK d : d = [i \in DOMAIN set |-> Pad(Pread(job.disk, set[i]))]
  OBVIOUS
<1>3. PICK c : c = IF job.dataFile # "none" THEN <<>> ELSE d
  OBVIOUS
<1>4. /\ S \in SUBSET Nat /\ IsFiniteSet(S)
      /\ \A x \in S : Before(l2_bitmap, x) = Before(S, x)
  <2>1. TotalDataClusters \in Nat
    BY JobIs DEF LoopInv, LoopTrue
  <2>2. S \in SUBSET Nat /\ IsFiniteSet(S)
    <3>1. S \in SUBSET l2_bitmap /\ l2_bitmap \in SUBSET Nat /\ IsFiniteSet(l2_bitmap)
      BY DEF LoopInv, BitmapsTrue
    <3> HIDE DEF S
    <3> QED BY <3>1, FS_Subset
  <2>3. ASSUME NEW x \in S PROVE {k \in l2_bitmap : k < x} = {k \in S : k < x}
    <3>1. x \in Nat /\ x < TotalDataClusters
      BY <2>1
    <3>2. \A k \in l2_bitmap : k \in Nat
      BY DEF LoopInv, BitmapsTrue
    <3>3. \A k \in l2_bitmap : k < x => k \in 0 .. (TotalDataClusters - 1)
      BY <2>1, <3>1, <3>2
    <3> QED BY <3>3
  <2> QED BY <2>2, <2>3 DEF Before
<1> HIDE DEF S
<1>5. PICK m \in Nat : m = Cardinality(S)
  BY <1>4, FS_CardinalityType
<1>6. /\ DOMAIN set = 1 .. m
      /\ \A x \in S : Before(S, x) + 1 \in 1 .. m /\ set[Before(S, x) + 1] = x
  BY <1>1, <1>4, <1>5, InOrderIs
<1>7. IsSeq(d) /\ Len(d) = m
  <2>1. d = [i \in 1 .. m |-> d[i]]
    BY <1>2, <1>6
  <2> QED BY <2>1, RowIs
<1>8. IsSeq(c)
  <2>1. PICK z : z = <<>>
    OBVIOUS
  <2>2. z = [i \in 1 .. 0 |-> z[i]]
    BY <2>1
  <2>3. 0 \in Nat
    OBVIOUS
  <2>4. IsSeq(z)
    BY <2>2, <2>3, RowIs
  <2> QED BY <1>3, <1>7, <2>1, <2>4
<1>9. Appended(c) /\ phase = "data" /\ phase' = "done"
  <2>1. Write(c, "data", "done")
    BY <1>1, <1>2, <1>3 DEF WriteDataClusters, S
  <2>2. "data" \in Writing /\ "done" \in HeaderDone
    BY DEF Writing, HeaderDone
  <2> QED BY <1>8, <2>1, <2>2, WriteIs
<1>10. PICK n : n = Len(out)
  OBVIOUS
<1>11. /\ LoopInv' /\ CountsTrue' /\ n \in Nat /\ Len(c) \in Nat /\ IsSeq(out)' /\ Len(out') = n + Len(c)
       /\ \A i \in 0 .. (Len(c) - 1) : Cluster(n + i)' = c[i + 1]
  BY <1>9, <1>10, AppendedIs
<1>12. UNCHANGED <<job, bitmaps, counts>> /\ l2_bitmap' = l2_bitmap /\ job' = job
  BY <1>9 DEF Appended, bitmaps
<1>13. n = DataClustersOffset /\ n # 0
  BY <1>9, <1>10 DEF ImageInv, LaidOut, HeaderDone, Writing
<1>14. LaidOut'
  <2>1. Len(out') # 0
    BY <1>11, <1>13
  <2>2. Len(out') = DataClustersOffset + DataClusters
    <3>1. Len(c) = DataClusters
      <4>1. CASE job.dataFile = "none"
        <5>1. S = l2_bitmap \cap GuestClusters
          BY DEF S, GuestClusters
        <5> QED BY <1>3, <1>5, <1>7, <4>1, <5>1 DEF DataClusters
      <4>2. CASE job.dataFile # "none"
        BY <1>3, <4>2 DEF DataClusters
      <4> QED BY <4>1, <4>2
    <3> QED BY <1>11, <1>13, <3>1
  <2>3. DataClustersOffset' = DataClustersOffset /\ DataClusters' = DataClusters
    BY <1>12, SamePlaces
  <2> QED BY <1>9, <1>11, <2>1, <2>2, <2>3 DEF LaidOut, HeaderDone, Writing
<1>15. HeaderWritten' /\ RefcountTableWritten' /\ RefcountBlocksWritten' /\ L1Written' /\ L2Written'
  BY <1>9, WrittenStays DEF HeaderDone, Writing
<1>16. DataWritten'
  <2> SUFFICES ASSUME job.dataFile = "none", NEW idx \in GuestClusters \cap l2_bitmap
               PROVE  Cluster(DataPlace(idx))' = OfDisk(idx)'
    <3>1. GuestClusters' = GuestClusters
      BY <1>12, SameJob
    <3> QED BY <1>12, <3>1 DEF DataWritten
  <2>1. idx \in S /\ c = d
    BY <1>3 DEF S, GuestClusters
  <2>2. PICK b : b = Before(S, idx)
    OBVIOUS
  <2>3. b \in 0 .. (m - 1) /\ b + 1 \in 1 .. m /\ set[b + 1] = idx
    <3>1. b \in 0 .. (m - 1)
      BY <1>4, <1>5, <2>1, <2>2, BeforeCounts
    <3> QED BY <1>6, <2>1, <2>2, <3>1
  <2>4. DataPlace(idx)' = n + b
    <3>1. DataPlace(idx) = n + b
      BY <1>4, <1>13, <2>1, <2>2 DEF DataPlace
    <3>2. DataPlace(idx)' = DataPlace(idx)
      BY <1>12, SamePlaces
    <3> QED BY <3>1, <3>2
  <2>5. Cluster(n + b)' = d[b + 1]
    BY <1>7, <1>11, <2>1, <2>3
  <2>6. d[b + 1] = OfDisk(idx)
    BY <1>2, <1>6, <2>3 DEF OfDisk
  <2>7. OfDisk(idx)' = OfDisk(idx)
    BY <1>12, SameJob
  <2>8. Cluster(DataPlace(idx))' = Cluster(n + b)'
    BY <2>4 DEF Cluster
  <2> QED BY <2>5, <2>6, <2>7, <2>8
<1> QED BY <1>11, <1>14, <1>15, <1>16 DEF ImageInv

-----------------------------------------------------------------------------
(* The reader *)

\* An entry is at its own place in the one table it is in.
LEMMA InItsTable ==
  ASSUME NEW d \in Nat \ {0}, NEW r \in 0 .. (d - 1)
  PROVE  Quotient(r, d) = 0 /\ Remainder(r, d) = r
<1>1. PICK q, s : q = Quotient(r, d) /\ s = Remainder(r, d)
  OBVIOUS
<1>2. q \in Nat /\ s \in 0 .. (d - 1) /\ r = q * d + s
  BY <1>1, Division
<1>3. q = 0
  <2> SUFFICES ASSUME q # 0 PROVE FALSE
    OBVIOUS
  <2>1. 1 \in Nat /\ 1 <= q
    BY <1>2
  <2>2. 1 * d <= q * d /\ q * d \in Nat
    BY <1>2, <2>1, Multiples
  <2> QED BY <1>2, <2>2
<1> QED BY <1>1, <1>2, <1>3

\* What the reader finds for a table of clusters is what was written for it.
LEMMA ReaderFindsTable ==
  ASSUME LoopInv, ImageInv, Done, NEW q \in 0 .. (L1Entries - 1)
  PROVE  ImgL1(q) = L1Value(q)
<1>1. CountsTrue /\ phase \in HeaderDone /\ phase = "done"
  BY DEF ImageInv, Done, HeaderDone, Writing
<1>2. PICK t : t = Quotient(q, EntriesPerTable)
  OBVIOUS
<1>3. t \in 0 .. (L1Tables - 1) /\ L1Tables \in Nat
  BY <1>1, <1>2, L1PlaceIs, OffsetsAre
<1>4. Cluster(0).l1_table = L1TableOffset
  BY <1>1, <1>3 DEF ImageInv, HeaderWritten
<1>5. ImgL1(q) = EntryAt(L1Place(q), q)
  BY <1>4 DEF ImgL1, TableEntry, EntryAt, L1Place, Quotient, Remainder
<1>6. EntryAt(L1Place(q), q) = L1Value(q)
  BY <1>1 DEF ImageInv, L1Written
<1> QED BY <1>5, <1>6

\* And for a cluster.
LEMMA ReaderFinds ==
  ASSUME LoopInv, ImageInv, Done, NEW idx \in EntriesOf(L1Entries)
  PROVE  /\ idx \in Nat
         /\ idx \in l2_bitmap => ImgL2(idx) = L2Entry(idx) /\ L2Entry(idx) # Unset
         /\ idx \notin l2_bitmap => ImgL2(idx) = Unset
<1>1. CountsTrue /\ phase \in HeaderDone /\ phase = "done"
  BY DEF ImageInv, Done, HeaderDone, Writing
<1>2. EntriesPerTable \in Nat \ {0}
  BY SizesAssumption
<1>3. PICK q, r : q = Quotient(idx, EntriesPerTable) /\ r = Remainder(idx, EntriesPerTable)
  OBVIOUS
<1>4. /\ idx \in Nat /\ q \in 0 .. (L1Entries - 1) /\ r \in 0 .. (EntriesPerTable - 1)
      /\ q \in l1_bitmap => L2Place(idx) \in Nat
  BY <1>1, <1>3, L2PlaceIs
<1>5. ImgL1(q) = L1Value(q)
  BY <1>4, ReaderFindsTable
<1>6. ImgL2(idx) = IF ImgL1(q) = Unset THEN Unset ELSE TableEntry(ImgL1(q), r)
  BY <1>3 DEF ImgL2, Quotient, Remainder
<1>7. CASE q \notin l1_bitmap
  <2>1. idx \notin l2_bitmap
    BY <1>3, <1>7 DEF LoopInv, BitmapsTrue
  <2>2. ImgL1(q) = Unset
    BY <1>5, <1>7 DEF L1Value
  <2> QED BY <1>4, <1>6, <2>1, <2>2
<1>8. CASE q \in l1_bitmap
  <2>1. PICK p : p = L2Place(idx)
    OBVIOUS
  <2>2. p \in Nat /\ ImgL1(q) = p /\ p # Unset
    <3>1. p \in Nat
      BY <1>4, <1>8, <2>1
    <3>2. L1Value(q) = p
      BY <1>3, <1>8, <2>1 DEF L1Value, L2Place
    <3> QED BY <1>5, <3>1, <3>2 DEF Unset
  <2>3. TableEntry(p, r) = EntryAt(p, idx)
    <3>1. Quotient(r, EntriesPerTable) = 0 /\ Remainder(r, EntriesPerTable) = r
      BY <1>2, <1>4, InItsTable
    <3>2. TableEntry(p, r) = Cluster(p + Quotient(r, EntriesPerTable))[Remainder(r, EntriesPerTable) + 1]
      BY DEF TableEntry, Quotient, Remainder
    <3>3. p + 0 = p
      BY <2>2
    <3> QED BY <1>3, <3>1, <3>2, <3>3 DEF EntryAt
  <2>4. EntryAt(p, idx) = L2Entry(idx)
    BY <1>1, <1>3, <1>8, <2>1 DEF ImageInv, L2Written
  <2>5. ImgL2(idx) = L2Entry(idx)
    BY <1>6, <2>2, <2>3, <2>4
  <2>6. ASSUME idx \in l2_bitmap PROVE L2Entry(idx) # Unset
    <3>1. CASE job.dataFile = "none"
      <4>1. L2Entry(idx) = DataClustersOffset + Before(l2_bitmap, idx)
        BY <2>6, <3>1 DEF L2Entry
      <4>2. DataClustersOffset \in Nat
        BY <1>1, OffsetsAre
      <4>3. Before(l2_bitmap, idx) \in 0 .. (Cardinality(l2_bitmap) - 1) /\ Cardinality(l2_bitmap) \in Nat
        BY <2>6, BeforeCounts DEF LoopInv, BitmapsTrue
      <4>4. PICK b : b = Before(l2_bitmap, idx)
        OBVIOUS
      <4>5. b \in Nat
        BY <4>3, <4>4
      <4> QED BY <4>1, <4>2, <4>4, <4>5 DEF Unset
    <3>2. CASE job.dataFile # "none"
      BY <1>4, <2>6, <3>2 DEF L2Entry, Unset
    <3> QED BY <3>1, <3>2
  <2>7. idx \notin l2_bitmap => L2Entry(idx) = Unset
    BY DEF L2Entry
  <2> QED BY <1>4, <2>5, <2>6, <2>7
<1> QED BY <1>7, <1>8

\* So what it reads is the disk.
LEMMA ReaderReads ==
  ASSUME LoopInv, ImageInv
  PROVE  Restores
<1> SUFFICES ASSUME Done, NEW idx \in GuestClusters
             PROVE  (IF ImgL2(idx) = Unset THEN Beneath(idx) ELSE ImgData(idx)) = OfDisk(idx)
  BY DEF Restores, Beneath, OfDisk
<1>1. phase = "done" /\ phase \in HeaderDone
  BY DEF Done, HeaderDone, Writing
<1>0. idx \in EntriesOf(L1Entries)
  BY GuestsAre DEF ImageInv
<1>2. CASE idx \notin l2_bitmap
  <2>1. ImgL2(idx) = Unset
    BY <1>0, <1>2, ReaderFinds
  <2>2. Settled(idx)
    BY <1>1 DEF LoopInv, Chosen, Writing
  <2> QED BY <1>2, <2>1, <2>2 DEF Settled
<1>3. CASE idx \in l2_bitmap
  <2>1. ImgL2(idx) = L2Entry(idx) /\ ImgL2(idx) # Unset
    BY <1>0, <1>3, ReaderFinds
  <2>2. Cluster(0).features.data_file = (job.dataFile # "none")
    BY <1>1 DEF ImageInv, HeaderWritten, Features
  <2>3. CASE job.dataFile # "none"
    <3>1. L2Entry(idx) = idx
      BY <1>3, <2>3 DEF L2Entry
    <3>2. ImgData(idx) = Pad(Pread(job.disk, ImgL2(idx)))
      BY <2>2, <2>3 DEF ImgData
    <3> QED BY <2>1, <3>1, <3>2 DEF OfDisk
  <2>4. CASE job.dataFile = "none"
    <3>1. ImgData(idx) = Cluster(L2Entry(idx))
      BY <2>1, <2>2, <2>4 DEF ImgData
    <3>2. L2Entry(idx) = DataPlace(idx)
      BY <1>3, <2>4 DEF L2Entry, DataPlace
    <3>3. Cluster(DataPlace(idx)) = OfDisk(idx)
      BY <1>1, <1>3, <2>4 DEF ImageInv, DataWritten
    <3> QED BY <2>1, <3>1, <3>2, <3>3
  <2> QED BY <2>3, <2>4
<1> QED BY <1>2, <1>3

-----------------------------------------------------------------------------
(* The program *)

Inv == LoopInv /\ ImageInv

\* At the start nothing is chosen, counted or written.
LEMMA InitIs ==
  ASSUME Init
  PROVE  Inv
<1>1. /\ job \in Jobs /\ phase = "start" /\ todo = <<>> /\ left = <<>> /\ out = <<>>
      /\ l1_bitmap = {} /\ l2_bitmap = {} /\ allocated_l2_tables = 0 /\ allocated_data_clusters = 0
      /\ total_allocated_clusters = 0
      /\ allocated_refcount_blocks = 0 /\ allocated_refcount_tables = 0
  BY DEF Init
<1>2. BitmapsTrue
  <2>1. IsFiniteSet({}) /\ Cardinality({}) = 0
    BY FS_EmptySet
  <2> QED BY <1>1, <2>1 DEF BitmapsTrue
<1>3. PICK z : z = <<>>
  OBVIOUS
<1>4. z \in Seq(Int) /\ z \in Seq(Int \X Int) /\ IsSeq(z)
  <2>1. z = [i \in 1 .. 0 |-> z[i]]
    BY <1>3
  <2>2. 0 \in Nat
    OBVIOUS
  <2>3. IsSeq(z)
    BY <2>1, <2>2, RowIs
  <2> QED BY <1>3, <2>3
<1>5. LoopTrue
  BY <1>1, <1>3, <1>4 DEF LoopTrue, Intervals
<1>6. Chosen
  BY <1>1 DEF Chosen, Looping, Counting, Writing
<1>7. CountsTrue
  BY <1>1 DEF CountsTrue
<1>8. LaidOut
  <2>1. IsSeq(out)
    BY <1>1, <1>3, <1>4
  <2> QED BY <1>1, <2>1 DEF LaidOut, HeaderDone, Writing
<1>9. /\ HeaderWritten /\ RefcountTableWritten /\ RefcountBlocksWritten
      /\ L1Written /\ L2Written /\ DataWritten
  BY <1>1 DEF HeaderWritten, RefcountTableWritten, RefcountBlocksWritten, L1Written, L2Written, DataWritten, HeaderDone, Writing
<1> QED BY <1>2, <1>5, <1>6, <1>7, <1>8, <1>9 DEF Inv, LoopInv, ImageInv

\* What has the parts has the sum, however the refcount blocks grow.
LEMMA CountClustersKeeps ==
  ASSUME Inv, CountClusters
  PROVE  Inv'
<1>1. phase = "count" /\ phase' = "grow" /\ UNCHANGED <<job, todo, left, bitmaps, out>>
  BY DEF CountClusters
<1>2. LoopInv'
  <2>1. phase \in Counting \cup Writing /\ phase' \in Counting \cup Writing
        /\ UNCHANGED <<job, todo, left, bitmaps>>
    BY <1>1 DEF Counting
  <2> QED BY <2>1, ChoiceStays DEF Inv
<1>3. /\ L1Tables \in Nat /\ allocated_l2_tables \in Nat /\ allocated_data_clusters \in Nat
      /\ RefcountsPerBlock \in Nat \ {0} /\ EntriesPerTable \in Nat \ {0}
  <2>1. L1Tables \in Nat
    BY JobIs DEF Inv, LoopInv, LoopTrue
  <2>2. allocated_l2_tables \in Nat /\ allocated_data_clusters \in Nat
    BY FS_CardinalityType DEF Inv, LoopInv, BitmapsTrue
  <2> QED BY <2>1, <2>2, SizesAssumption
<1>4. PICK total : total = total_allocated_clusters'
  OBVIOUS
<1>5. /\ total = 1 + L1Tables + allocated_l2_tables
                   + (IF job.dataFile = "none" THEN allocated_data_clusters ELSE 0)
      /\ allocated_refcount_blocks' = DivUp(total, RefcountsPerBlock)
      /\ allocated_refcount_tables' = DivUp(allocated_refcount_blocks', EntriesPerTable)
  BY <1>4 DEF CountClusters
<1>6. total \in Nat
  BY <1>3, <1>5
<1>7. allocated_refcount_blocks' \in Nat
  BY <1>3, <1>5, <1>6, Parts
<1>8. allocated_refcount_tables' \in Nat
  BY <1>3, <1>5, <1>7, Parts
<1>9. CountsTrue'
  BY <1>4, <1>6, <1>7, <1>8 DEF CountsTrue
<1>10. ImageInv'
  <2>1. out' = out /\ phase \notin HeaderDone /\ phase' \notin HeaderDone
    BY <1>1 DEF HeaderDone, Writing
  <2> QED BY <1>9, <2>1, QuietKeeps DEF Inv
<1> QED BY <1>2, <1>10 DEF Inv

\* And once more when they do.
LEMMA GrowRefcountsKeeps ==
  ASSUME Inv, GrowRefcounts
  PROVE  Inv'
<1> DEFINE total == total_allocated_clusters + allocated_refcount_tables + allocated_refcount_blocks
           blocks == DivUp(total, RefcountsPerBlock)
           tables == DivUp(blocks, EntriesPerTable)
<1>1. /\ phase = "grow" /\ UNCHANGED <<job, todo, left, bitmaps, out>>
      /\ phase' = phase \/ phase' = "header"
      /\ total_allocated_clusters' = total \/ total_allocated_clusters' = total_allocated_clusters
      /\ allocated_refcount_blocks' = blocks \/ allocated_refcount_blocks' = allocated_refcount_blocks
      /\ allocated_refcount_tables' = tables \/ allocated_refcount_tables' = allocated_refcount_tables
  BY DEF GrowRefcounts
<1>2. LoopInv'
  <2>1. phase \in Counting \cup Writing /\ phase' \in Counting \cup Writing
        /\ UNCHANGED <<job, todo, left, bitmaps>>
    BY <1>1 DEF Counting, Writing
  <2> QED BY <2>1, ChoiceStays DEF Inv
<1>3. CountsTrue
  BY DEF Inv, ImageInv
<1>4. total \in Nat
  BY <1>3 DEF CountsTrue
<1>5. RefcountsPerBlock \in Nat \ {0} /\ EntriesPerTable \in Nat \ {0}
  BY SizesAssumption
<1>6. blocks \in Nat
  <2> HIDE DEF total
  <2> QED BY <1>4, <1>5, Parts
<1>7. tables \in Nat
  <2> HIDE DEF blocks
  <2> QED BY <1>5, <1>6, Parts
<1>8. CountsTrue'
  <2> HIDE DEF total, blocks, tables
  <2> QED BY <1>1, <1>3, <1>4, <1>6, <1>7 DEF CountsTrue
<1>9. ImageInv'
  <2>1. out' = out /\ phase \notin HeaderDone /\ phase' \notin HeaderDone
    BY <1>1 DEF HeaderDone, Writing
  <2> QED BY <1>8, <2>1, QuietKeeps DEF Inv
<1> QED BY <1>2, <1>9 DEF Inv

\* No loop writes, or counts what is counted after it.
LEMMA LoopsAreQuiet ==
  ASSUME Inv, phase \notin HeaderDone, phase' \notin HeaderDone, out' = out, UNCHANGED counts
  PROVE  ImageInv'
<1>1. CountsTrue'
  BY DEF Inv, ImageInv, CountsTrue, counts
<1> QED BY <1>1, QuietKeeps DEF Inv

\* Every step keeps all this.
LEMMA StepKeeps ==
  ASSUME MapsTrue, Inv, [Next]_vars
  PROVE  Inv'
<1>1. Inv /\ LoopInv /\ ImageInv
  BY DEF Inv
<1>2. CASE Fail
  <2>1. LoopInv'
    BY <1>1, <1>2, FailKeeps
  <2>2. phase \notin HeaderDone /\ phase' \notin HeaderDone /\ out' = out /\ UNCHANGED counts
    BY <1>2 DEF Fail, HeaderDone, Writing
  <2> QED BY <1>1, <2>1, <2>2, LoopsAreQuiet DEF Inv
<1>3. CASE AllocateRaw
  <2>1. LoopInv'
    BY <1>1, <1>3, AllocateRawKeeps
  <2>2. phase \notin HeaderDone /\ phase' \notin HeaderDone /\ out' = out /\ UNCHANGED counts
    BY <1>3 DEF AllocateRaw, Accepted, HeaderDone, Writing
  <2> QED BY <1>1, <2>1, <2>2, LoopsAreQuiet DEF Inv
<1>4. CASE StartByMap
  <2>1. LoopInv'
    BY <1>1, <1>4, StartByMapKeeps
  <2>2. phase \notin HeaderDone /\ phase' \notin HeaderDone /\ out' = out /\ UNCHANGED counts
    BY <1>4 DEF StartByMap, Accepted, HeaderDone, Writing
  <2> QED BY <1>1, <2>1, <2>2, LoopsAreQuiet DEF Inv
<1>5. CASE StartByReading
  <2>1. LoopInv'
    BY <1>1, <1>5, StartByReadingKeeps
  <2>2. phase \notin HeaderDone /\ phase' \notin HeaderDone /\ out' = out /\ UNCHANGED counts
    BY <1>5 DEF StartByReading, Accepted, HeaderDone, Writing
  <2> QED BY <1>1, <2>1, <2>2, LoopsAreQuiet DEF Inv
<1>6. ASSUME NEW idx \in 0..TotalDataClusters,
             ReadCluster(idx) \/ MapCluster(idx) \/ MapDiffCluster(idx)
      PROVE  Inv'
  <2>1. idx \in Nat
    <3>1. TotalDataClusters \in Nat
      BY <1>1, JobIs DEF LoopInv, LoopTrue
    <3> QED BY <3>1
  <2>2. LoopInv'
    BY <1>1, <1>6, <2>1, ReadClusterKeeps, MapClusterKeeps, MapDiffClusterIs
  <2>3. phase \notin HeaderDone /\ phase' \notin HeaderDone /\ out' = out /\ UNCHANGED counts
    BY <1>6 DEF ReadCluster, MapCluster, MapDiffCluster, NextCluster, HeaderDone, Writing
  <2> QED BY <1>1, <2>2, <2>3, LoopsAreQuiet DEF Inv
<1>7. CASE StartLeftover
  <2>1. LoopInv'
    BY <1>1, <1>7, StartLeftoverKeeps
  <2>2. phase \notin HeaderDone /\ phase' \notin HeaderDone /\ out' = out /\ UNCHANGED counts
    BY <1>7 DEF StartLeftover, HeaderDone, Writing
  <2> QED BY <1>1, <2>1, <2>2, LoopsAreQuiet DEF Inv
<1>8. CASE EndLoop
  <2>1. LoopInv'
    BY <1>1, <1>8, EndLoopKeeps
  <2>2. phase \notin HeaderDone /\ phase' \notin HeaderDone /\ out' = out /\ UNCHANGED counts
    BY <1>8 DEF EndLoop, HeaderDone, Writing
  <2> QED BY <1>1, <2>1, <2>2, LoopsAreQuiet DEF Inv
<1>9. CASE CountClusters
  BY <1>1, <1>9, CountClustersKeeps
<1>10. CASE GrowRefcounts
  BY <1>1, <1>10, GrowRefcountsKeeps
<1>11. CASE WriteHeader
  BY <1>1, <1>11, WriteHeaderKeeps DEF Inv
<1>12. CASE WriteRefcountTable
  BY <1>1, <1>12, WriteRefcountTableKeeps DEF Inv
<1>13. CASE WriteRefcountBlocks
  BY <1>1, <1>13, WriteRefcountBlocksKeeps DEF Inv
<1>14. CASE WriteL1Table
  BY <1>1, <1>14, WriteL1TableKeeps DEF Inv
<1>15. CASE WriteL2Tables
  BY <1>1, <1>15, WriteL2TablesKeeps DEF Inv
<1>16. CASE WriteDataClusters
  BY <1>1, <1>16, WriteDataClustersKeeps DEF Inv
<1>17. CASE UNCHANGED vars
  <2>1. UNCHANGED <<job, phase, todo, left, bitmaps, counts, out>>
    BY <1>17 DEF vars
  <2>2. UNCHANGED <<l1_bitmap, l2_bitmap, allocated_l2_tables, allocated_data_clusters>>
    BY <2>1 DEF bitmaps
  <2>3. /\ GuestClusters' = GuestClusters /\ L1Entries' = L1Entries /\ L1Tables' = L1Tables
        /\ \A idx : Settled(idx)' = Settled(idx)
    BY <2>1, <2>2, SameJob DEF Settled
  <2>4. LoopInv'
    <3>1. BitmapsTrue'
      BY <1>1, <2>2 DEF LoopInv, BitmapsTrue
    <3>2. LoopTrue'
      BY <1>1, <2>1 DEF LoopInv, LoopTrue
    <3>3. Chosen'
      <4>1. \A idx : Awaited(idx)' = Awaited(idx)
        BY <2>1, <2>3 DEF Awaited
      <4>2. \A idx : AwaitedLeft(idx)' = AwaitedLeft(idx)
        BY <2>1, <4>1 DEF AwaitedLeft
      <4> QED BY <1>1, <2>1, <2>3, <4>1, <4>2 DEF LoopInv, Chosen, Looping, Counting, Writing
    <3> QED BY <3>1, <3>2, <3>3 DEF LoopInv
  <2>5. ImageInv'
    <3>1. /\ RefcountBlockOffset' = RefcountBlockOffset
          /\ L1TableOffset' = L1TableOffset /\ L2TableOffset' = L2TableOffset
          /\ DataClustersOffset' = DataClustersOffset /\ Features' = Features
          /\ RefcountTableOffset' = RefcountTableOffset /\ DataClusters' = DataClusters
      BY <2>1, SamePlaces
    <3>2. CountsTrue'
      BY <1>1, <2>1 DEF ImageInv, CountsTrue, counts
    <3>3. LaidOut'
      BY <1>1, <2>1, <3>1 DEF ImageInv, LaidOut, IsSeq, Range, HeaderDone, Writing
    <3>4. \A n : Cluster(n)' = Cluster(n)
      BY <2>1 DEF Cluster
    <3>5. HeaderWritten'
      BY <1>1, <2>1, <2>3, <3>1, <3>4 DEF ImageInv, HeaderWritten, HeaderDone, Writing, counts
    <3>6. L1Written'
      <4>1. \A k : EntryAt(L1Place(k), k)' = EntryAt(L1Place(k), k) /\ L1Value(k)' = L1Value(k)
        BY <2>1, SamePlaces DEF EntryAt, Cluster
      <4> QED BY <1>1, <2>1, <2>3, <3>1, <4>1 DEF ImageInv, L1Written
    <3>7. L2Written'
      <4>1. \A k : EntryAt(L2Place(k), k)' = EntryAt(L2Place(k), k) /\ L2Entry(k)' = L2Entry(k)
        BY <2>1, SamePlaces DEF EntryAt, Cluster
      <4> QED BY <1>1, <2>1, <2>2, <2>3, <3>1, <4>1 DEF ImageInv, L2Written, EntriesOf
    <3>8. DataWritten'
      <4>1. \A k : Cluster(DataPlace(k))' = Cluster(DataPlace(k)) /\ OfDisk(k)' = OfDisk(k)
        BY <2>1, SamePlaces, SameJob DEF Cluster
      <4> QED BY <1>1, <2>1, <2>2, <2>3, <4>1 DEF ImageInv, DataWritten
    <3>9. RefcountTableWritten'
      <4>1. \A k : EntryAt(BlockPlace(k), k)' = EntryAt(BlockPlace(k), k) /\ BlockValue(k)' = BlockValue(k)
        BY <2>1, SamePlaces DEF EntryAt, Cluster
      <4>2. allocated_refcount_tables' = allocated_refcount_tables
        BY <2>1 DEF counts
      <4> QED BY <1>1, <2>1, <3>1, <4>1, <4>2 DEF ImageInv, RefcountTableWritten, EntriesOf, HeaderDone, Writing
    <3>10. RefcountBlocksWritten'
      <4>1. \A b, i : /\ Cluster(RefcountBlockOffset + b)' = Cluster(RefcountBlockOffset + b)
                      /\ CountValue(b, i)' = CountValue(b, i)
        BY <2>1, <3>1, SamePlaces DEF Cluster
      <4>2. allocated_refcount_blocks' = allocated_refcount_blocks
        BY <2>1 DEF counts
      <4> QED BY <1>1, <2>1, <3>1, <4>1, <4>2 DEF ImageInv, RefcountBlocksWritten
    <3> QED BY <3>2, <3>3, <3>5, <3>6, <3>7, <3>8, <3>9, <3>10 DEF ImageInv
  <2> QED BY <2>4, <2>5 DEF Inv
<1> QED BY <1>2, <1>3, <1>4, <1>5, <1>6, <1>7, <1>8, <1>9, <1>10, <1>11, <1>12, <1>13,
           <1>14, <1>15, <1>16, <1>17 DEF Next

\* The image gives the disk back (write_qcow2_content): what the maps say of
\* the disks being true, the image that is written has every cluster the same
\* as the disk, or leaves it to a base that is the same there.
THEOREM DiskIsRestored ==
  ASSUME MapsTrue
  PROVE  Spec => []Restores
<1>1. Init => Inv
  BY InitIs
<1>2. Inv /\ [Next]_vars => Inv'
  BY StepKeeps
<1>3. Inv => Restores
  BY ReaderReads DEF Inv
<1> QED BY <1>1, <1>2, <1>3, PTL DEF Spec

-----------------------------------------------------------------------------
(* Order *)

Rising(s) == \A i, k \in DOMAIN s : i < k => s[i] < s[k]

\* Intervals one after the other, the empty ones among them too.
Apart(ivs) ==
    /\ \A i \in DOMAIN ivs : ivs[i][1] <= ivs[i][2] + 1
    /\ \A i, k \in DOMAIN ivs : i < k => ivs[i][2] < ivs[k][1]

\* A larger number has no smaller quotient.
LEMMA QuotientRises ==
  ASSUME NEW a \in Nat, NEW b \in Nat, a <= b, NEW d \in Nat \ {0}
  PROVE  Quotient(a, d) <= Quotient(b, d)
<1>1. PICK p, r : p = Quotient(a, d) /\ r = Remainder(a, d)
  OBVIOUS
<1>2. PICK q, t : q = Quotient(b, d) /\ t = Remainder(b, d)
  OBVIOUS
<1>3. p \in Nat /\ r \in 0 .. (d - 1) /\ a = p * d + r
  BY <1>1, Division
<1>4. q \in Nat /\ t \in 0 .. (d - 1) /\ b = q * d + t
  BY <1>2, Division
<1>5. p <= q
  <2> SUFFICES ASSUME q + 1 <= p PROVE FALSE
    BY <1>3, <1>4
  <2>1. q + 1 \in Nat /\ (q + 1) * d = q * d + d /\ q * d \in Nat
    BY <1>4, Multiples
  <2>2. (q + 1) * d <= p * d /\ p * d \in Nat
    BY <1>3, <2>1, Multiples
  <2> QED BY <1>3, <1>4, <2>1, <2>2
<1> QED BY <1>1, <1>2, <1>5

\* More are set before one that comes later.
LEMMA BeforeRises ==
  ASSUME NEW S \in SUBSET Nat, IsFiniteSet(S), NEW x \in S, NEW y \in S, x <= y
  PROVE  Before(S, x) <= Before(S, y)
<1> DEFINE B == {k \in S : k < x}
           C == {k \in S : k < y}
<1>1. B \subseteq C /\ C \subseteq S
  <2>1. \A k \in S : k < x => k < y
    BY S \subseteq Nat
  <2> QED BY <2>1
<1>2. Before(S, x) = Cardinality(B) /\ Before(S, y) = Cardinality(C)
  BY DEF Before
<1> HIDE DEF B, C
<1>3. IsFiniteSet(C)
  BY <1>1, FS_Subset
<1>4. Cardinality(B) <= Cardinality(C)
  BY <1>1, <1>3, FS_Subset
<1> QED BY <1>2, <1>4

\* The loops over a bitmap go up.
LEMMA InOrderRises ==
  ASSUME NEW S \in SUBSET Nat, IsFiniteSet(S)
  PROVE  Rising(InOrder(S))
<1>1. PICK n, f : n = Cardinality(S) /\ f = InOrder(S)
  OBVIOUS
<1>2. /\ n \in Nat /\ DOMAIN f = 1 .. n
      /\ \A x \in S : f[Before(S, x) + 1] = x
  BY <1>1, InOrderIs
<1>3. ASSUME NEW i \in 1 .. n PROVE f[i] \in S /\ Before(S, f[i]) = i - 1
  <2>1. PICK b : b = i - 1
    OBVIOUS
  <2>2. b \in 0 .. (Cardinality(S) - 1) /\ b + 1 = i
    BY <1>1, <1>2, <2>1
  <2>3. PICK x \in S : Before(S, x) = b
    BY <2>2, BeforeReaches
  <2>4. f[i] = x
    BY <1>2, <2>2, <2>3
  <2> QED BY <2>1, <2>3, <2>4
<1>4. ASSUME NEW i \in 1 .. n, NEW k \in 1 .. n, i < k PROVE f[i] < f[k]
  <2>1. PICK x, y : x = f[i] /\ y = f[k]
    OBVIOUS
  <2>2. x \in S /\ y \in S /\ Before(S, x) = i - 1 /\ Before(S, y) = k - 1 /\ x \in Nat /\ y \in Nat
    BY <1>3, <2>1
  <2>3. ~(y <= x)
    <3>1. y <= x => Before(S, y) <= Before(S, x)
      BY <2>2, BeforeRises
    <3> QED BY <1>2, <1>4, <2>2, <3>1
  <2> QED BY <2>1, <2>2, <2>3
<1> QED BY <1>1, <1>2, <1>4 DEF Rising

\* What follows what is all below it.
LEMMA JoinedRises ==
  ASSUME NEW s \in Seq(Int), NEW t \in Seq(Int), Rising(s), Rising(t),
         \A x \in Range(s), y \in Range(t) : x < y
  PROVE  Rising(s \o t)
<1>1. PICK c : c = s \o t
  OBVIOUS
<1>2. PICK m, n : m = Len(s) /\ n = Len(t)
  OBVIOUS
<1>3. /\ m \in Nat /\ n \in Nat /\ DOMAIN s = 1 .. m /\ DOMAIN t = 1 .. n /\ DOMAIN c = 1 .. (m + n)
      /\ \A i \in 1 .. m : c[i] = s[i]
      /\ \A i \in 1 .. n : c[m + i] = t[i]
  BY <1>1, <1>2
<1>4. ASSUME NEW i \in DOMAIN c, NEW k \in DOMAIN c, i < k PROVE c[i] < c[k]
  <2>1. CASE k <= m
    BY <1>3, <1>4, <2>1 DEF Rising
  <2>2. CASE m < i
    <3>1. i - m \in 1 .. n /\ k - m \in 1 .. n /\ i - m < k - m /\ m + (i - m) = i /\ m + (k - m) = k
      <4>1. PICK x, y, z : x = i /\ y = k /\ z = m + n
        OBVIOUS
      <4>2. x \in 1 .. z /\ y \in 1 .. z /\ m \in Nat /\ n \in Nat /\ z = m + n /\ m < x /\ x < y
        BY <1>3, <1>4, <2>2, <4>1
      <4>3. x \in Int /\ y \in Int /\ x <= m + n /\ y <= m + n
        BY <4>2
      <4>4. x - m \in 1 .. n /\ y - m \in 1 .. n
        BY <4>2, <4>3
      <4>5. x - m < y - m /\ m + (x - m) = x /\ m + (y - m) = y
        BY <4>2, <4>3
      <4> QED BY <4>1, <4>4, <4>5
    <3>2. c[i] = t[i - m] /\ c[k] = t[k - m]
      BY <1>3, <3>1
    <3> QED BY <1>3, <3>1, <3>2 DEF Rising
  <2>3. CASE i <= m /\ m < k
    <3>1. i \in 1 .. m /\ k - m \in 1 .. n /\ m + (k - m) = k
      BY <1>3, <1>4, <2>3
    <3>2. c[i] = s[i] /\ c[k] = t[k - m]
      BY <1>3, <3>1
    <3> QED BY <1>3, <3>1, <3>2 DEF Range
  <2> QED BY <1>3, <2>1, <2>2, <2>3
<1> QED BY <1>1, <1>4 DEF Rising

\* Joined, sequences that follow one another go up.
LEMMA FlattenRises ==
  ASSUME NEW s \in Seq(Seq(Int)),
         \A i \in DOMAIN s : Rising(s[i]),
         \A i, k \in DOMAIN s : i < k => \A x \in Range(s[i]), y \in Range(s[k]) : x < y
  PROVE  Rising(FlattenSeq(s))
<1> DEFINE n == Len(s)
           f == CHOOSE h : h = FlatTo(h, s, n)
<1>1. n \in Nat /\ DOMAIN s = 1 .. n /\ \A i \in 1 .. n : s[i] \in Seq(Int)
  OBVIOUS
<1>2. CASE n = 0
  <2>1. s = <<>> /\ FlattenSeq(s) = s
    BY <1>2 DEF FlattenSeq
  <2>2. DOMAIN FlattenSeq(s) = {}
    BY <1>1, <1>2, <2>1
  <2> QED BY <2>2 DEF Rising
<1>3. CASE n # 0
  <2>1. FlattenSeq(s) = f[n]
    BY <1>3 DEF FlattenSeq, FlatTo
  <2>2. f = FlatTo(f, s, n)
    BY <1>1, FlattenExists
  <2> HIDE DEF f, n
  <2> DEFINE P(i) == /\ f[i] \in Seq(Int) /\ Rising(f[i])
                     /\ \A x \in Range(f[i]) : \E h \in 1 .. i : x \in Range(s[h])
             T == {i \in Nat : i + 1 <= n => P(i + 1)}
  <2>3. 0 \in T
    <3> SUFFICES ASSUME 0 + 1 <= n PROVE P(0 + 1)
      OBVIOUS
    <3>1. 1 \in 1 .. n /\ 0 + 1 = 1 /\ 1 \in 1 .. 1
      BY <1>1
    <3>2. f[1] = s[1]
      BY <2>2, <3>1 DEF FlatTo
    <3> QED BY <1>1, <3>1, <3>2
  <2>4. ASSUME NEW i \in Nat, i \in T PROVE i + 1 \in T
    <3> SUFFICES ASSUME (i + 1) + 1 <= n PROVE P((i + 1) + 1)
      OBVIOUS
    <3>1. PICK k : k = (i + 1) + 1
      OBVIOUS
    <3>2. k \in 1 .. n /\ k # 1 /\ k - 1 = i + 1 /\ i + 1 <= n /\ k - 1 \in Nat
      BY <1>1, <3>1
    <3>3. P(k - 1)
      BY <2>4, <3>2
    <3>4. f[k] = f[k - 1] \o s[k]
      BY <2>2, <3>2 DEF FlatTo
    <3>5. f[k - 1] \in Seq(Int) /\ s[k] \in Seq(Int)
      BY <1>1, <3>2, <3>3
    <3>6. f[k] \in Seq(Int) /\ Range(f[k]) = Range(f[k - 1]) \cup Range(s[k])
      BY <3>4, <3>5, RangeJoined
    <3>7. \A x \in Range(f[k - 1]), y \in Range(s[k]) : x < y
      <4> TAKE x \in Range(f[k - 1]), y \in Range(s[k])
      <4>1. PICK h \in 1 .. (k - 1) : x \in Range(s[h])
        BY <3>3
      <4>2. h \in DOMAIN s /\ k \in DOMAIN s /\ h < k
        BY <1>1, <3>2
      <4> QED BY <4>1, <4>2
    <3>8. Rising(f[k])
      BY <1>1, <3>2, <3>3, <3>4, <3>5, <3>7, JoinedRises
    <3>9. \A h : h \in 1 .. (k - 1) => h \in 1 .. k
      BY <3>2
    <3>10. k \in 1 .. k
      BY <3>2
    <3>11. P(k)
      BY <3>3, <3>6, <3>8, <3>9, <3>10
    <3> QED BY <3>1, <3>11
  <2>5. \A i \in Nat : i \in T
    <3> HIDE DEF T
    <3> QED BY <2>3, <2>4, Induction
  <2>6. P(n)
    <3>1. n - 1 \in Nat /\ (n - 1) + 1 = n
      BY <1>1, <1>3
    <3>2. n - 1 \in T
      BY <2>5, <3>1
    <3>3. P((n - 1) + 1)
      BY <1>1, <3>1, <3>2
    <3> QED BY <3>1, <3>3
  <2> QED BY <2>1, <2>6
<1> QED BY <1>2, <1>3

\* So do the clusters of intervals that are apart.
LEMMA ClustersRise ==
  ASSUME NEW ivs \in Intervals, Apart(ivs)
  PROVE  Rising(ClustersOf(ivs))
<1> DEFINE s == [i \in DOMAIN ivs |-> UpTo(ivs[i][1], ivs[i][2])]
<1>1. /\ Len(ivs) \in Nat /\ DOMAIN ivs = 1 .. Len(ivs)
      /\ \A i \in DOMAIN ivs : ivs[i][1] \in Int /\ ivs[i][2] \in Int
  BY DEF Intervals
<1>2. \A i \in DOMAIN ivs : /\ s[i] \in Seq(Int) /\ s[i] = UpTo(ivs[i][1], ivs[i][2])
                            /\ \A c \in Int : c \in Range(s[i]) <=> ivs[i][1] <= c /\ c <= ivs[i][2]
  BY <1>1, UpToIs
<1>3. ClustersOf(ivs) = FlattenSeq(s) /\ DOMAIN s = DOMAIN ivs
  BY DEF ClustersOf
<1>4. s \in [1 .. Len(ivs) -> Seq(Int)]
  BY <1>1, <1>2
<1> HIDE DEF s
<1>5. s \in Seq(Seq(Int))
  BY <1>1, <1>4, FunctionIsSeq
<1>6. ASSUME NEW i \in DOMAIN s PROVE Rising(s[i])
  <2>1. PICK l, r : l = ivs[i][1] /\ r = ivs[i][2]
    OBVIOUS
  <2>2. l \in Int /\ r \in Int /\ s[i] = [k \in 1 .. (r - l + 1) |-> l + k - 1]
    BY <1>1, <1>2, <1>3, <2>1 DEF UpTo
  <2> QED BY <2>2 DEF Rising
<1>7. ASSUME NEW i \in DOMAIN s, NEW k \in DOMAIN s, i < k,
             NEW x \in Range(s[i]), NEW y \in Range(s[k])
      PROVE  x < y
  <2>1. x \in Int /\ y \in Int
    BY <1>2, <1>3 DEF Range
  <2>2. x <= ivs[i][2] /\ ivs[k][1] <= y /\ ivs[i][2] < ivs[k][1]
    BY <1>2, <1>3, <1>7, <2>1 DEF Apart
  <2> QED BY <1>1, <1>3, <2>1, <2>2
<1> QED BY <1>3, <1>5, <1>6, <1>7, FlattenRises

\* The intervals of a map are apart, and inside the disk.
LEMMA ParseMapApart ==
  ASSUME NEW map, IsMap(map), NEW bytes \in Seq(Nat), MapInside(map, bytes)
  PROVE  /\ ParseMap(map) \in Intervals /\ Apart(ParseMap(map))
         /\ \A c \in Int : InSome(ParseMap(map), c) => c \in Nat /\ c < LastCluster(bytes)
<1> DEFINE S == {i \in DOMAIN map : map[i].data}
           data == InOrder(S)
           ends(i) == map[data[i]].start + map[data[i]].length
<1>1. PICK ivs : ivs = ParseMap(map)
  OBVIOUS
<1>2. /\ Len(map) \in Nat /\ DOMAIN map = 1 .. Len(map)
      /\ \A i \in DOMAIN map : map[i].start \in Nat /\ map[i].length \in Nat
  <2> DEFINE R == [start : Nat, length : Nat, data : BOOLEAN]
  <2>1. map \in Seq(R)
    BY DEF IsMap
  <2>2. \A r \in R : r.start \in Nat /\ r.length \in Nat
    OBVIOUS
  <2> HIDE DEF R
  <2>3. Len(map) \in Nat /\ DOMAIN map = 1 .. Len(map) /\ \A i \in DOMAIN map : map[i] \in R
    BY <2>1
  <2> QED BY <2>2, <2>3
<1>3. S \in SUBSET Nat /\ IsFiniteSet(S) /\ S \subseteq DOMAIN map
  <2>1. S \in SUBSET (1 .. Len(map))
    BY <1>2
  <2>2. IsFiniteSet(1 .. Len(map))
    BY <1>2, FS_Interval
  <2> QED BY <1>2, <2>1, <2>2, FS_Subset
<1>4. ivs = [i \in DOMAIN data |-> <<map[data[i]].start \div ClusterSize, (ends(i) \div ClusterSize) - 1>>]
  BY <1>1 DEF ParseMap
<1> HIDE DEF S
<1>5. PICK n \in Nat : DOMAIN data = 1 .. n /\ (\A i \in 1 .. n : data[i] \in DOMAIN map) /\ Rising(data)
  BY <1>3, InOrderIs, InOrderRises
<1> HIDE DEF data
<1>6. ClusterSize \in Nat \ {0}
  BY SizesAssumption
<1>7. DOMAIN ivs = 1 .. n
  BY <1>4, <1>5
<1>8. ASSUME NEW i \in 1 .. n
      PROVE  /\ map[data[i]].start \in Nat /\ ends(i) \in Nat
             /\ map[data[i]].start <= ends(i) /\ ends(i) <= Len(bytes)
             /\ ivs[i][1] = Quotient(map[data[i]].start, ClusterSize)
             /\ ivs[i][2] = Quotient(ends(i), ClusterSize) - 1
             /\ Quotient(map[data[i]].start, ClusterSize) \in Nat /\ Quotient(ends(i), ClusterSize) \in Nat
  <2>1. PICK u, v : u = map[data[i]].start /\ v = map[data[i]].length
    OBVIOUS
  <2>2. u \in Nat /\ v \in Nat /\ u + v <= Len(bytes)
    BY <1>2, <1>5, <2>1 DEF MapInside
  <2>3. PICK w : w = u + v
    OBVIOUS
  <2>4. w \in Nat /\ u <= w /\ ends(i) = w
    BY <2>1, <2>2, <2>3
  <2>5. ivs[i] = <<u \div ClusterSize, (w \div ClusterSize) - 1>>
    BY <1>4, <1>5, <2>1, <2>3
  <2>6. ivs[i][1] = Quotient(u, ClusterSize) /\ ivs[i][2] = Quotient(w, ClusterSize) - 1
    BY <2>5 DEF Quotient
  <2>7. Quotient(u, ClusterSize) \in Nat /\ Quotient(w, ClusterSize) \in Nat
    BY <1>6, <2>2, <2>4, Division
  <2> QED BY <2>1, <2>2, <2>3, <2>4, <2>6, <2>7
<1>9. ASSUME NEW i \in 1 .. n PROVE ivs[i][1] <= ivs[i][2] + 1
  <2>1. PICK u, w : u = map[data[i]].start /\ w = ends(i)
    OBVIOUS
  <2>2. u \in Nat /\ w \in Nat /\ u <= w
    BY <1>8, <2>1
  <2>3. Quotient(u, ClusterSize) <= Quotient(w, ClusterSize)
    BY <1>6, <2>2, QuotientRises
  <2> QED BY <1>8, <2>1, <2>3
<1>10. ASSUME NEW i \in 1 .. n, NEW k \in 1 .. n, i < k PROVE ivs[i][2] < ivs[k][1]
  <2>1. PICK w, u : w = ends(i) /\ u = map[data[k]].start
    OBVIOUS
  <2>2. w \in Nat /\ u \in Nat
    BY <1>8, <2>1
  <2>3. w <= u
    <3>1. data[i] \in DOMAIN map /\ data[k] \in DOMAIN map /\ data[i] < data[k]
      BY <1>5, <1>10 DEF Rising
    <3> QED BY <2>1, <3>1 DEF MapInside
  <2>4. Quotient(w, ClusterSize) <= Quotient(u, ClusterSize)
    BY <1>6, <2>2, <2>3, QuotientRises
  <2> QED BY <1>8, <2>1, <2>4
<1>11. Apart(ivs)
  BY <1>7, <1>9, <1>10 DEF Apart
<1>12. ASSUME NEW c \in Int, InSome(ivs, c) PROVE c \in Nat /\ c < LastCluster(bytes)
  <2>1. PICK i \in 1 .. n : ivs[i][1] <= c /\ c <= ivs[i][2]
    BY <1>7, <1>12 DEF InSome, Within
  <2>2. PICK w, q : w = ends(i) /\ q = Quotient(w, ClusterSize)
    OBVIOUS
  <2>3. w \in Nat /\ q \in Nat /\ w <= Len(bytes) /\ c \in Nat /\ c + 1 <= q
    BY <1>8, <2>1, <2>2
  <2>4. q * ClusterSize <= w /\ q * ClusterSize \in Nat
    <3>1. PICK r : r = Remainder(w, ClusterSize)
      OBVIOUS
    <3>2. r \in 0 .. (ClusterSize - 1) /\ w = q * ClusterSize + r
      BY <1>6, <2>2, <2>3, <3>1, Division
    <3>3. q * ClusterSize \in Nat
      BY <1>6, <2>3, Multiples
    <3> QED BY <3>2, <3>3
  <2>5. (c + 1) * ClusterSize <= q * ClusterSize /\ (c + 1) * ClusterSize = c * ClusterSize + ClusterSize
        /\ c * ClusterSize \in Nat
    <3>1. c + 1 \in Nat
      BY <2>3
    <3>2. (c + 1) * ClusterSize <= q * ClusterSize
      BY <1>6, <2>3, <3>1, Multiples
    <3> QED BY <1>6, <2>3, <3>2, Multiples
  <2>6. c * ClusterSize < Len(bytes)
    <3>1. Len(bytes) \in Nat
      OBVIOUS
    <3> QED BY <1>6, <2>3, <2>4, <2>5, <3>1
  <2>7. Len(bytes) \in Nat
    OBVIOUS
  <2>8. c < DivUp(Len(bytes), ClusterSize)
    BY <1>6, <2>3, <2>6, <2>7, Parts
  <2> QED BY <2>3, <2>8 DEF LastCluster
<1>13. ivs \in Intervals
  BY <1>1, ParseMapIs
<1> QED BY <1>1, <1>11, <1>12, <1>13

\* Of intervals that are apart, those before one that has a cluster end before
\* it and those after begin after it.
LEMMA ApartIs ==
  ASSUME NEW ivs \in Intervals, Apart(ivs), NEW j \in DOMAIN ivs, NEW c \in Int, Within(ivs[j], c)
  PROVE  \A m \in DOMAIN ivs : /\ ivs[m][1] \in Int /\ ivs[m][2] \in Int
                               /\ m < j => ivs[m][1] <= c /\ ivs[m][2] < c
                               /\ m > j => c < ivs[m][1] /\ c <= ivs[m][2]
<1> TAKE m \in DOMAIN ivs
<1>1. \A i \in DOMAIN ivs : ivs[i][1] \in Int /\ ivs[i][2] \in Int
  BY DEF Intervals
<1>2. DOMAIN ivs = 1 .. Len(ivs)
  BY DEF Intervals
<1>3. ivs[j][1] <= c /\ c <= ivs[j][2]
  BY DEF Within
<1>4. ivs[m][1] <= ivs[m][2] + 1
  BY DEF Apart
<1>5. m < j => ivs[m][2] < ivs[j][1]
  BY DEF Apart
<1>6. m > j => ivs[j][2] < ivs[m][1]
  BY <1>2 DEF Apart
<1> QED BY <1>1, <1>2, <1>3, <1>4, <1>5, <1>6

\* A round keeps the interval that has the cluster in the range.
LEMMA NarrowedHolds ==
  ASSUME NEW ivs \in Intervals, Apart(ivs), NEW j \in DOMAIN ivs, NEW c \in Int, Within(ivs[j], c),
         NEW r, InRange(ivs, r), r[1] <= j, j <= r[2]
  PROVE  Narrowed(ivs, c, r)[1] <= j /\ j <= Narrowed(ivs, c, r)[2]
<1>1. PICK l, h, m : l = r[1] /\ h = r[2] /\ m = Middle(r)
  OBVIOUS
<1>2. l \in Int /\ h \in Int /\ j \in Int /\ l <= h
  <2>1. j \in Int
    BY DEF Intervals
  <2> QED BY <1>1, <2>1 DEF InRange
<1>3. m \in DOMAIN ivs /\ m \in Int
  BY <1>1, <1>2, MiddleIs
<1>4. CASE Within(ivs[m], c)
  BY <1>1, <1>4 DEF Narrowed
<1>5. CASE ~Within(ivs[m], c)
  <2>1. m # j
    BY <1>5
  <2>2. PICK q : q = Narrowed(ivs, c, r)
    OBVIOUS
  <2>3. q = IF c < ivs[m][1] THEN <<l, m - 1>> ELSE <<m + 1, h>>
    BY <1>1, <1>2, <1>5, <2>2 DEF Narrowed
  <2>4. ivs[m][1] \in Int /\ (m < j => ivs[m][1] <= c) /\ (m > j => c < ivs[m][1])
    BY <1>3, ApartIs
  <2>5. CASE m < j
    <3>1. q[1] = m + 1 /\ q[2] = h
      BY <2>3, <2>4, <2>5
    <3> QED BY <1>1, <1>2, <1>3, <2>2, <2>5, <3>1
  <2>6. CASE m > j
    <3>1. q[1] = l /\ q[2] = m - 1
      BY <2>3, <2>4, <2>6
    <3> QED BY <1>1, <1>2, <1>3, <2>2, <2>6, <3>1
  <2> QED BY <1>2, <1>3, <2>1, <2>5, <2>6
<1> QED BY <1>4, <1>5

\* So the search finds a cluster that is there.
LEMMA SearchMisses ==
  ASSUME NEW ivs \in Intervals, Apart(ivs), NEW c \in Int, InSome(ivs, c)
  PROVE  Search(ivs, c) # 0
<1> DEFINE n == Len(ivs)
           f == CHOOSE h : h = Rounds(h, ivs, c, n)
           r == f[n]
<1>1. n \in Nat /\ DOMAIN ivs = 1 .. n
  BY DEF Intervals
<1>2. f = Rounds(f, ivs, c, n)
  <2>1. \E h : h = Rounds(h, ivs, c, n)
    <3> HIDE DEF n
    <3> QED BY <1>1, RoundsExist
  <2> HIDE DEF n
  <2> QED BY <2>1
<1>3. /\ Search(ivs, c) = IF ivs = <<>> \/ Last(ivs)[2] < c \/ ivs[1][1] > c \/ r[1] > r[2]
                          THEN 0 ELSE Middle(r)
  BY DEF Search, Rounds
<1>4. Last(ivs) = ivs[n]
  BY DEF Last
<1> HIDE DEF f, n
<1>5. PICK j \in DOMAIN ivs : Within(ivs[j], c)
  BY DEF InSome
<1> DEFINE P(k) == InRange(ivs, f[k]) /\ Closer(ivs, c, f[k], k) /\ f[k][1] <= j /\ j <= f[k][2]
           T == {k \in Nat : k <= n => P(k)}
<1>6. 0 \in T
  <2>1. f[0] = <<1, n>>
    BY <1>1, <1>2 DEF Rounds, n
  <2>2. PICK q : q = f[0]
    OBVIOUS
  <2>3. q = <<1, n>> /\ q[1] = 1 /\ q[2] = n
    BY <2>1, <2>2
  <2>4. InRange(ivs, q) /\ Closer(ivs, c, q, 0)
    BY <1>1, <2>3 DEF InRange, Closer, n
  <2>5. q[1] <= j /\ j <= q[2]
    BY <1>1, <1>5, <2>3
  <2>6. P(0)
    BY <2>2, <2>4, <2>5
  <2> QED BY <2>6
<1>7. ASSUME NEW k \in Nat, k \in T PROVE k + 1 \in T
  <2> SUFFICES ASSUME k + 1 <= n PROVE P(k + 1)
    OBVIOUS
  <2>1. P(k)
    BY <1>1, <1>7
  <2>2. f[k + 1] = Narrowed(ivs, c, f[k])
    <3>1. k + 1 \in 0 .. n /\ k + 1 # 0 /\ (k + 1) - 1 = k
      BY <1>1
    <3> QED BY <1>2, <3>1 DEF Rounds
  <2>3. PICK p : p = f[k]
    OBVIOUS
  <2>4. InRange(ivs, p) /\ Closer(ivs, c, p, k) /\ p[1] <= j /\ j <= p[2]
    BY <2>1, <2>3
  <2>5. InRange(ivs, Narrowed(ivs, c, p)) /\ Closer(ivs, c, Narrowed(ivs, c, p), k + 1)
    BY <2>4, NarrowedIs
  <2>6. Narrowed(ivs, c, p)[1] <= j /\ j <= Narrowed(ivs, c, p)[2]
    BY <1>5, <2>4, NarrowedHolds
  <2> QED BY <2>2, <2>3, <2>5, <2>6
<1>8. \A k \in Nat : k \in T
  <2> HIDE DEF T
  <2> QED BY <1>6, <1>7, Induction
<1>9. P(n)
  BY <1>1, <1>8
<1> HIDE DEF r
<1>10. ~(r[1] > r[2]) /\ Middle(r) # 0
  <2>1. InRange(ivs, r) /\ r[1] <= j /\ j <= r[2]
    BY <1>9 DEF r
  <2>2. r[1] \in Int /\ r[2] \in Int /\ j \in Int
    BY <1>1, <1>5, <2>1 DEF InRange
  <2>3. r[1] <= r[2]
    BY <2>1, <2>2
  <2>4. Middle(r) \in DOMAIN ivs
    BY <2>1, <2>3, MiddleIs
  <2> QED BY <1>1, <2>2, <2>3, <2>4
<1>11. ivs # <<>>
  BY <1>1, <1>5
<1>12. ~(ivs[n][2] < c) /\ ~(ivs[1][1] > c)
  <2>1. 1 \in DOMAIN ivs /\ n \in DOMAIN ivs /\ j \in 1 .. n
    BY <1>1, <1>5
  <2>2. ivs[j][1] <= c /\ c <= ivs[j][2]
    BY <1>5 DEF Within
  <2>3. /\ ivs[1][1] \in Int /\ ivs[n][2] \in Int
        /\ 1 < j => ivs[1][1] <= c
        /\ n > j => c <= ivs[n][2]
    BY <1>5, <2>1, ApartIs
  <2>4. 1 = j \/ 1 < j
    BY <2>1
  <2>5. n = j \/ n > j
    BY <1>1, <2>1
  <2> QED BY <2>2, <2>3, <2>4, <2>5
<1> QED BY <1>3, <1>4, <1>10, <1>11, <1>12

\* Where what stays in a sequence was before.
LEMMA RemovedFrom ==
  ASSUME NEW S, NEW s \in Seq(S), NEW at \in DOMAIN s, NEW t, t = RemoveAt(s, at)
  PROVE  \A i \in DOMAIN t : i \in Int /\ (IF i < at THEN i ELSE i + 1) \in DOMAIN s \ {at}
                             /\ t[i] = s[IF i < at THEN i ELSE i + 1]
<1>1. PICK n : n = Len(s)
  OBVIOUS
<1>2. n \in Nat /\ DOMAIN s = 1 .. n /\ at \in 1 .. n
  BY <1>1
<1>3. PICK a, b : a = SubSeq(s, 1, at - 1) /\ b = SubSeq(s, at + 1, n)
  OBVIOUS
<1>4. a \in Seq(S) /\ Len(a) = at - 1 /\ \A i \in 1 .. (at - 1) : a[i] = s[i]
  BY <1>1, <1>2, <1>3
<1>5. b \in Seq(S) /\ Len(b) = n - at /\ \A i \in 1 .. (n - at) : b[i] = s[at + i]
  BY <1>1, <1>2, <1>3
<1>6. t = a \o b
  BY <1>1, <1>3 DEF RemoveAt
<1>7. /\ DOMAIN t = 1 .. (n - 1)
      /\ \A i \in 1 .. (at - 1) : t[i] = a[i]
      /\ \A i \in 1 .. (n - at) : t[(at - 1) + i] = b[i]
  <2>1. Len(a) + Len(b) = n - 1
    BY <1>2, <1>4, <1>5
  <2>2. /\ a \o b \in Seq(S) /\ Len(a \o b) = Len(a) + Len(b)
        /\ \A i \in 1 .. Len(a) : (a \o b)[i] = a[i]
        /\ \A i \in 1 .. Len(b) : (a \o b)[Len(a) + i] = b[i]
    <3>1. a \in Seq(S) /\ b \in Seq(S)
      BY <1>4, <1>5
    <3> QED BY <3>1, JoinedIs
  <2> QED BY <1>4, <1>5, <1>6, <2>1, <2>2
<1> TAKE i \in DOMAIN t
<1>8. i \in Int /\ 1 <= i /\ i <= n - 1
  BY <1>2, <1>7
<1>9. CASE i < at
  <2>1. i \in 1 .. (at - 1) /\ i \in 1 .. n /\ i # at
    BY <1>2, <1>8, <1>9
  <2> QED BY <1>2, <1>4, <1>7, <1>8, <1>9, <2>1
<1>10. CASE ~(i < at)
  <2>1. PICK k : k = i - at + 1
    OBVIOUS
  <2>2. k \in 1 .. (n - at) /\ (at - 1) + k = i /\ at + k = i + 1 /\ i + 1 \in 1 .. n /\ i + 1 # at
    BY <1>2, <1>8, <1>10, <2>1
  <2>3. t[i] = b[k] /\ b[k] = s[i + 1]
    BY <1>5, <1>7, <2>2
  <2> QED BY <1>2, <1>8, <1>10, <2>2, <2>3
<1> QED BY <1>9, <1>10

\* The first cluster of an interval is all that is taken with it.
LEMMA TakeFirst ==
  ASSUME NEW ivs \in Intervals, Apart(ivs), NEW at \in DOMAIN ivs, NEW c \in Int,
         Within(ivs[at], c), c = ivs[at][1]
  PROVE  /\ Apart(Take(ivs, at, c))
         /\ \A x \in Int : InSome(Take(ivs, at, c), x) => InSome(ivs, x) /\ x # c
<1>1. PICK r, u : r = ivs[at][2] /\ u = Take(ivs, at, c)
  OBVIOUS
<1>2. /\ r \in Int /\ c <= r /\ DOMAIN ivs = 1 .. Len(ivs)
      /\ \A i \in DOMAIN ivs : ivs[i][1] \in Int /\ ivs[i][2] \in Int
  <2>1. \A i \in DOMAIN ivs : ivs[i][1] \in Int /\ ivs[i][2] \in Int
    BY DEF Intervals
  <2> QED BY <1>1, <2>1 DEF Within, Intervals
<1>3. \A i \in DOMAIN ivs \ {at} : ~Within(ivs[i], c)
  <2> TAKE i \in DOMAIN ivs \ {at}
  <2>1. (i < at => ivs[i][2] < c) /\ (i > at => c < ivs[i][1])
    BY ApartIs
  <2>2. i < at \/ i > at
    BY <1>2
  <2> QED BY <1>2, <2>1, <2>2 DEF Within
<1>4. CASE c = r
  <2>1. u = RemoveAt(ivs, at)
    BY <1>1, <1>4 DEF Take
  <2> DEFINE f(i) == IF i < at THEN i ELSE i + 1
  <2>2. \A i \in DOMAIN u : i \in Int /\ f(i) \in DOMAIN ivs \ {at} /\ u[i] = ivs[f(i)]
    BY <2>1, RemovedFrom DEF Intervals
  <2>3. \A i, k \in DOMAIN u : i < k => f(i) < f(k)
    BY <1>2, <2>2
  <2> HIDE DEF f
  <2>4. Apart(u)
    <3>1. \A i \in DOMAIN u : u[i][1] <= u[i][2] + 1
      BY <2>2 DEF Apart
    <3>2. \A i, k \in DOMAIN u : i < k => u[i][2] < u[k][1]
      BY <2>2, <2>3 DEF Apart
    <3> QED BY <3>1, <3>2 DEF Apart
  <2>5. \A x \in Int : InSome(u, x) => InSome(ivs, x) /\ x # c
    <3> TAKE x \in Int
    <3> HAVE InSome(u, x)
    <3>1. PICK i \in DOMAIN u : Within(u[i], x)
      BY DEF InSome
    <3>2. f(i) \in DOMAIN ivs \ {at} /\ Within(ivs[f(i)], x)
      BY <2>2, <3>1
    <3> QED BY <1>3, <3>2 DEF InSome
  <2> QED BY <1>1, <2>4, <2>5
<1>5. CASE c # r
  <2>1. PICK p : p = <<c + 1, r>>
    OBVIOUS
  <2>2. p[1] = c + 1 /\ p[2] = r
    BY <2>1
  <2>3. u = [ivs EXCEPT ![at] = p]
    BY <1>1, <1>5, <2>1 DEF Take, ReplaceAt
  <2>4. DOMAIN u = DOMAIN ivs /\ u[at] = p /\ \A i \in DOMAIN ivs \ {at} : u[i] = ivs[i]
    BY <2>3
  <2>5. /\ u[at][1] = c + 1 /\ u[at][2] = r
    BY <2>2, <2>4
  <2>6. \A i \in DOMAIN u : u[i][1] <= u[i][2] + 1
    <3> TAKE i \in DOMAIN u
    <3>1. CASE i = at
      BY <1>2, <2>5, <3>1
    <3>2. CASE i # at
      BY <2>4, <3>2 DEF Apart
    <3> QED BY <3>1, <3>2
  <2>7. \A i, k \in DOMAIN u : i < k => u[i][2] < u[k][1]
    <3> SUFFICES ASSUME NEW i \in DOMAIN u, NEW k \in DOMAIN u, i < k PROVE u[i][2] < u[k][1]
      OBVIOUS
    <3>1. ivs[i][2] < ivs[k][1] /\ ivs[i][2] \in Int /\ ivs[k][1] \in Int
      BY <1>2, <2>4 DEF Apart
    <3>2. u[i][2] = ivs[i][2]
      BY <1>1, <2>4, <2>5
    <3>3. u[k][1] = ivs[k][1] \/ (u[k][1] = c + 1 /\ ivs[k][1] = c)
      BY <2>4, <2>5
    <3> QED BY <3>1, <3>2, <3>3
  <2>8. \A x \in Int : InSome(u, x) => InSome(ivs, x) /\ x # c
    <3> TAKE x \in Int
    <3> HAVE InSome(u, x)
    <3>1. PICK i \in DOMAIN u : Within(u[i], x)
      BY DEF InSome
    <3>2. CASE i = at
      <4>1. c + 1 <= x /\ x <= r
        BY <2>5, <3>1, <3>2 DEF Within
      <4>2. Within(ivs[at], x) /\ x # c
        BY <1>1, <1>2, <4>1 DEF Within
      <4> QED BY <4>2 DEF InSome
    <3>3. CASE i # at
      <4>1. i \in DOMAIN ivs \ {at} /\ Within(ivs[i], x)
        BY <2>4, <3>1, <3>3
      <4> QED BY <1>3, <4>1 DEF InSome
    <3> QED BY <3>2, <3>3
  <2> QED BY <1>1, <2>6, <2>7, <2>8 DEF Apart
<1> QED BY <1>4, <1>5

-----------------------------------------------------------------------------
(* The clusters that are left out, and the number of those that are not *)

\* A cluster that OnlyDifferences wants left out.
Same(idx) ==
    /\ job.base # None /\ (idx + 1) * ClusterSize <= Len(Base)
    /\ Pread(job.disk, idx) = Pread(Base, idx)
    /\ ByMap => idx \in Listed(job.map[1]) /\ idx \in Listed(job.baseMap[1])

\* The clusters the image has are the disk's, each is counted once, and none
\* is the same as the base's.
BitmapsExact ==
    /\ phase = "start" => l2_bitmap = {} /\ l1_bitmap = {} /\ allocated_data_clusters = 0
    /\ l1_bitmap \subseteq 0 .. (L1Entries - 1) /\ l2_bitmap \subseteq GuestClusters
    /\ job.dataFile # "raw" => /\ allocated_data_clusters = Cardinality(l2_bitmap)
                               /\ \A idx \in l2_bitmap : ~Same(idx)

\* A loop looks at each cluster of the disk once at most.
TodoExact ==
    phase \in Looping \cup {"mapDiff"} =>
      /\ Rising(todo) /\ Range(todo) \subseteq GuestClusters /\ Range(todo) \cap l2_bitmap = {}
      /\ job.dataFile # "raw"

\* What is left of the base's clusters is what the loop has still to look at.
LeftExact ==
    /\ phase = "mapDiff" =>
         /\ Apart(left) /\ ByMap
         /\ \A x \in Int : InSome(left, x) => x \in Range(todo) /\ x < LastCluster(Base)
         /\ \A x \in Range(todo) : x \in Listed(job.baseMap[1]) => InSome(left, x)
    /\ phase = "map" => job.base = None
    /\ phase = "read" => ~ByMap
    /\ phase = "leftover" => todo = <<>>

LoopExact == BitmapsExact /\ TodoExact /\ LeftExact

LEMMA SameOfJob ==
  ASSUME job' = job
  PROVE  \A idx : Same(idx)' <=> Same(idx)
BY DEF Same, Base, ByMap

\* Such a cluster is compared equal.
LEMMA SameIs ==
  ASSUME job \in Jobs, NEW idx \in Nat, Same(idx)
  PROVE  idx < LastCluster(Base) /\ OfDisk(idx) = Pread(Base, idx)
<1>1. /\ job.base # None /\ (idx + 1) * ClusterSize <= Len(Base)
      /\ Pread(job.disk, idx) = Pread(Base, idx)
  BY DEF Same
<1>2. Base \in Seq(Nat) /\ job.disk \in Seq(Nat) /\ Len(Base) <= Len(job.disk)
  BY <1>1, JobIs
<1>3. PICK n, a : n = Len(Base) /\ a = idx * ClusterSize
  OBVIOUS
<1>4. n \in Nat /\ ClusterSize \in Nat \ {0}
  BY <1>2, <1>3, SizesAssumption
<1>5. a \in Nat /\ (idx + 1) * ClusterSize = a + ClusterSize
  BY <1>3, <1>4, Multiples
<1>6. a + ClusterSize <= n /\ a < n
  BY <1>1, <1>3, <1>4, <1>5
<1>7. idx < LastCluster(Base)
  BY <1>3, <1>4, <1>6, Parts DEF LastCluster
<1>8. Len(Pread(Base, idx)) = ClusterSize
  <2>1. (idx + 1) * ClusterSize < n \/ (idx + 1) * ClusterSize = n
    BY <1>4, <1>5, <1>6
  <2>2. Pread(Base, idx) = SubSeq(Base, a + 1, a + ClusterSize)
    BY <1>3, <1>5, <2>1 DEF Pread
  <2> QED BY <1>2, <1>3, <1>4, <1>5, <1>6, <2>2
<1>9. Pad(Pread(Base, idx)) = Pread(Base, idx)
  BY <1>2, <1>8, PreadIs, PadIs
<1> QED BY <1>1, <1>7, <1>9 DEF OfDisk

\* The first of what is left to look at, and the rest.
LEMMA HeadIs ==
  ASSUME NEW s \in Seq(Int), s # <<>>, Rising(s)
  PROVE  /\ Head(s) \in Range(s) /\ Head(s) \in Int
         /\ Tail(s) \in Seq(Int) /\ Rising(Tail(s))
         /\ \A x \in Range(Tail(s)) : x \in Range(s) /\ Head(s) < x
         /\ \A x \in Range(s) : x = Head(s) \/ x \in Range(Tail(s))
<1>1. PICK t, n : t = Tail(s) /\ n = Len(s)
  OBVIOUS
<1>2. /\ t \in Seq(Int) /\ Head(s) = s[1] /\ n \in Nat \ {0}
      /\ DOMAIN s = 1 .. n /\ DOMAIN t = 1 .. (n - 1)
      /\ \A i \in 1 .. (n - 1) : t[i] = s[i + 1]
  BY <1>1
<1>3. \A x \in Range(s) : x = Head(s) \/ x \in Range(Tail(s))
  BY RangeTail
<1>4. \A i \in DOMAIN t : i + 1 \in DOMAIN s /\ t[i] = s[i + 1] /\ 1 < i + 1
  BY <1>2
<1>5. Rising(t)
  <2>1. \A i, k \in DOMAIN t : i < k => i + 1 < k + 1
    BY <1>2
  <2> QED BY <1>4, <2>1 DEF Rising
<1>6. 1 \in DOMAIN s
  BY <1>2
<1>7. \A x \in Range(t) : x \in Range(s) /\ s[1] < x
  BY <1>4, <1>6 DEF Rising, Range
<1>8. s[1] \in Range(s) /\ s[1] \in Int
  BY <1>6 DEF Range
<1> QED BY <1>1, <1>2, <1>3, <1>5, <1>7, <1>8

\* A cluster that is new, and not the same, is counted.
LEMMA AllocateExact ==
  ASSUME BitmapsTrue, BitmapsExact, job \in Jobs, job' = job, phase' # "start",
         NEW idx \in GuestClusters, idx \notin l2_bitmap, ~Same(idx), AllocateCluster(idx)
  PROVE  BitmapsExact' /\ l2_bitmap' = l2_bitmap \cup {idx}
<1>1. PICK q : q = Quotient(idx, EntriesPerTable)
  OBVIOUS
<1>2. /\ l2_bitmap' = l2_bitmap \cup {idx}
      /\ allocated_data_clusters' = allocated_data_clusters + 1
      /\ l1_bitmap' = l1_bitmap \cup {q}
  BY <1>1 DEF AllocateCluster, Quotient
<1>3. GuestClusters' = GuestClusters /\ L1Entries' = L1Entries
  BY SameJob
<1>4. q \in 0 .. (L1Entries - 1)
  <2>1. TotalDataClusters \in Nat /\ L1Entries \in Nat /\ idx \in Nat /\ idx < TotalDataClusters
    BY JobIs DEF GuestClusters
  <2>2. PICK r : r = Remainder(idx, EntriesPerTable)
    OBVIOUS
  <2>3. q \in Nat /\ q < DivUp(TotalDataClusters, EntriesPerTable)
    BY <1>1, <2>1, <2>2, Place, SizesAssumption
  <2> QED BY <2>1, <2>3 DEF L1Entries
<1>5. Cardinality(l2_bitmap') = Cardinality(l2_bitmap) + 1
  BY <1>2, FS_AddElement DEF BitmapsTrue
<1>6. \A x : Same(x)' <=> Same(x)
  BY SameOfJob
<1>7. l1_bitmap' \subseteq 0 .. (L1Entries' - 1) /\ l2_bitmap' \subseteq GuestClusters'
  BY <1>2, <1>3, <1>4 DEF BitmapsExact
<1>8. job'.dataFile # "raw" => /\ allocated_data_clusters' = Cardinality(l2_bitmap')
                               /\ \A x \in l2_bitmap' : ~Same(x)'
  BY <1>2, <1>5, <1>6 DEF BitmapsExact
<1> QED BY <1>2, <1>7, <1>8 DEF BitmapsExact

\* As is one that is compared and differs.
LEMMA CheckExact ==
  ASSUME BitmapsTrue, BitmapsExact, job \in Jobs, job' = job, phase' # "start",
         NEW idx \in GuestClusters, idx \notin l2_bitmap, NEW other,
         Same(idx) => OfDisk(idx) = other, CheckClusterAllocate(idx, other)
  PROVE  BitmapsExact' /\ l2_bitmap' \subseteq l2_bitmap \cup {idx}
<1>1. CASE OfDisk(idx) # other
  <2>1. AllocateCluster(idx)
    BY <1>1 DEF CheckClusterAllocate, OfDisk
  <2> QED BY <1>1, <2>1, AllocateExact
<1>2. CASE OfDisk(idx) = other
  <2>1. UNCHANGED <<l1_bitmap, l2_bitmap, allocated_l2_tables, allocated_data_clusters>>
    BY <1>2 DEF CheckClusterAllocate, OfDisk, bitmaps
  <2>2. GuestClusters' = GuestClusters /\ L1Entries' = L1Entries
    BY SameJob
  <2>3. \A x : Same(x)' <=> Same(x)
    BY SameOfJob
  <2> QED BY <2>1, <2>2, <2>3 DEF BitmapsExact
<1> QED BY <1>1, <1>2

\* A step of a loop.
LEMMA LookedExact ==
  ASSUME LoopTrue, TodoExact, phase \in Looping \cup {"mapDiff"}, todo # <<>>, NextCluster,
         NEW idx, idx = Head(todo), l2_bitmap' \subseteq l2_bitmap \cup {idx}
  PROVE  /\ TodoExact'
         /\ \A x \in Int : x \in Range(todo)' <=> x \in Range(todo) /\ x # idx
<1>1. job' = job /\ phase' = phase /\ todo' = Tail(todo)
  BY DEF NextCluster
<1>2. todo \in Seq(Int) /\ Rising(todo) /\ Range(todo) \subseteq GuestClusters
      /\ Range(todo) \cap l2_bitmap = {} /\ job.dataFile # "raw"
  BY DEF LoopTrue, TodoExact
<1>3. PICK t : t = Tail(todo)
  OBVIOUS
<1>4. /\ idx \in Int /\ t \in Seq(Int) /\ Rising(t)
      /\ \A x \in Range(t) : x \in Range(todo) /\ idx < x
      /\ \A x \in Range(todo) : x = idx \/ x \in Range(t)
  BY <1>2, <1>3, HeadIs
<1>5. \A x \in Range(t) : x \in Int
  BY <1>4 DEF Range
<1>6. todo' = t
  BY <1>1, <1>3
<1>7. Rising(todo)' /\ Range(todo)' = Range(t)
  BY <1>4, <1>6 DEF Rising, Range
<1>8. GuestClusters' = GuestClusters
  BY <1>1, SameJob
<1>9. idx \notin Range(t)
  BY <1>4
<1>10. Range(t) \subseteq GuestClusters /\ Range(t) \cap l2_bitmap' = {}
  BY <1>2, <1>4, <1>9
<1>11. TodoExact'
  <2>1. (Range(todo) \subseteq GuestClusters)' /\ (Range(todo) \cap l2_bitmap = {})'
    BY <1>7, <1>8, <1>10
  <2>2. (job.dataFile # "raw")'
    BY <1>1, <1>2
  <2> QED BY <1>7, <2>1, <2>2 DEF TodoExact
<1>12. \A x \in Int : x \in Range(todo)' <=> x \in Range(todo) /\ x # idx
  BY <1>4, <1>7, <1>9
<1> QED BY <1>11, <1>12

\* The choice stays while nothing is allocated.
LEMMA BitmapsExactStay ==
  ASSUME BitmapsExact, job' = job, phase' # "start", UNCHANGED bitmaps
  PROVE  BitmapsExact'
<1>1. UNCHANGED <<l1_bitmap, l2_bitmap, allocated_l2_tables, allocated_data_clusters>>
  BY DEF bitmaps
<1>2. GuestClusters' = GuestClusters /\ L1Entries' = L1Entries
  BY SameJob
<1>3. \A x : Same(x)' <=> Same(x)
  BY SameOfJob
<1> QED BY <1>1, <1>2, <1>3 DEF BitmapsExact

\* Outside the loops there is no more to it.
LEMMA NoLoopExact ==
  ASSUME BitmapsExact', phase' \in {"failed"} \cup Counting \cup Writing
  PROVE  LoopExact'
<1>1. phase' \notin Looping \cup {"mapDiff"} /\ phase' \notin {"mapDiff", "map", "read", "leftover"}
  BY DEF Looping, Counting, Writing
<1> QED BY <1>1 DEF LoopExact, TodoExact, LeftExact, Looping

\* What the cluster that a loop looks at is.
LEMMA LookedIs ==
  ASSUME LoopTrue, TodoExact, phase \in Looping \cup {"mapDiff"}, todo # <<>>,
         NEW idx, idx = Head(todo)
  PROVE  idx \in GuestClusters /\ idx \in Nat /\ idx \notin l2_bitmap /\ job.dataFile # "raw"
         /\ idx \in Range(todo) /\ \A x \in Range(todo) : x \in Nat /\ idx <= x
<1>1. todo \in Seq(Int) /\ Rising(todo) /\ Range(todo) \subseteq GuestClusters
      /\ Range(todo) \cap l2_bitmap = {} /\ job.dataFile # "raw"
  BY DEF LoopTrue, TodoExact
<1>2. /\ idx \in Range(todo) /\ idx \in Int
      /\ \A x \in Range(Tail(todo)) : idx < x
      /\ \A x \in Range(todo) : x = idx \/ x \in Range(Tail(todo))
  BY <1>1, HeadIs
<1>3. \A x \in GuestClusters : x \in Nat
  BY DEF GuestClusters
<1>4. \A x \in Range(todo) : x \in Nat /\ idx <= x
  BY <1>1, <1>2, <1>3
<1> QED BY <1>1, <1>2, <1>3, <1>4

LEMMA ReadClusterExact ==
  ASSUME LoopInv, LoopExact, NEW idx, ReadCluster(idx)
  PROVE  LoopExact'
<1>1. /\ phase = "read" /\ todo # <<>> /\ idx = Head(todo) /\ NextCluster /\ left' = left
      /\ IF job.base # None /\ idx < LastCluster(Base)
         THEN CheckClusterAllocate(idx, Pread(Base, idx))
         ELSE CheckClusterAllocate(idx, ZeroCluster)
  BY DEF ReadCluster
<1>2. /\ phase \in Looping \cup {"mapDiff"} /\ job' = job /\ phase' = phase
      /\ LoopTrue /\ TodoExact /\ BitmapsTrue /\ BitmapsExact /\ job \in Jobs
  BY <1>1 DEF NextCluster, Looping, LoopInv, LoopExact, LoopTrue
<1>3. idx \in GuestClusters /\ idx \in Nat /\ idx \notin l2_bitmap
  BY <1>1, <1>2, LookedIs
<1>4. Same(idx) => /\ job.base # None /\ idx < LastCluster(Base)
                   /\ OfDisk(idx) = Pread(Base, idx)
  BY <1>2, <1>3, SameIs DEF Same
<1>5. BitmapsExact' /\ l2_bitmap' \subseteq l2_bitmap \cup {idx}
  <2>1. phase' # "start"
    BY <1>1, <1>2
  <2>2. CASE job.base # None /\ idx < LastCluster(Base)
    BY <1>1, <1>2, <1>3, <1>4, <2>1, <2>2, CheckExact
  <2>3. CASE ~(job.base # None /\ idx < LastCluster(Base))
    <3>1. CheckClusterAllocate(idx, ZeroCluster) /\ ~Same(idx)
      BY <1>1, <1>4, <2>3
    <3> QED BY <1>2, <1>3, <2>1, <3>1, CheckExact
  <2> QED BY <2>2, <2>3
<1>6. TodoExact'
  BY <1>1, <1>2, <1>5, LookedExact
<1>7. LeftExact'
  BY <1>1, <1>2 DEF LoopExact, LeftExact, ByMap
<1> QED BY <1>5, <1>6, <1>7 DEF LoopExact

LEMMA MapClusterExact ==
  ASSUME LoopInv, LoopExact, NEW idx, MapCluster(idx)
  PROVE  LoopExact'
<1>1. /\ phase \in {"map", "leftover"} /\ todo # <<>> /\ idx = Head(todo) /\ NextCluster
      /\ left' = left /\ AllocateCluster(idx)
  BY DEF MapCluster
<1>2. /\ phase \in Looping \cup {"mapDiff"} /\ job' = job /\ phase' = phase
      /\ LoopTrue /\ TodoExact /\ BitmapsTrue /\ BitmapsExact /\ job \in Jobs
  BY <1>1 DEF NextCluster, Looping, LoopInv, LoopExact, LoopTrue
<1>3. phase = "map" /\ job.base = None
  BY <1>1 DEF LoopExact, LeftExact
<1>4. idx \in GuestClusters /\ idx \in Nat /\ idx \notin l2_bitmap
  BY <1>1, <1>2, LookedIs
<1>5. ~Same(idx)
  BY <1>3 DEF Same
<1>6. BitmapsExact' /\ l2_bitmap' = l2_bitmap \cup {idx}
  BY <1>1, <1>2, <1>3, <1>4, <1>5, AllocateExact
<1>7. TodoExact'
  BY <1>1, <1>2, <1>6, LookedExact
<1>8. LeftExact'
  BY <1>2, <1>3 DEF LeftExact
<1> QED BY <1>6, <1>7, <1>8 DEF LoopExact

LEMMA MapDiffClusterExact ==
  ASSUME LoopInv, LoopExact, NEW idx, MapDiffCluster(idx)
  PROVE  LoopExact'
<1> DEFINE at == IF idx >= LastCluster(Base) THEN 0 ELSE Search(left, idx)
<1>1. /\ phase = "mapDiff" /\ todo # <<>> /\ idx = Head(todo) /\ NextCluster
      /\ IF at # 0 THEN left' = Take(left, at, idx) /\ CheckClusterAllocate(idx, Pread(Base, idx))
         ELSE AllocateCluster(idx) /\ left' = left
  BY DEF MapDiffCluster
<1>2. /\ phase \in Looping \cup {"mapDiff"} /\ job' = job /\ phase' = phase
      /\ LoopTrue /\ TodoExact /\ BitmapsTrue /\ BitmapsExact /\ job \in Jobs
      /\ job.base # None /\ left \in Intervals
  BY <1>1 DEF NextCluster, Looping, LoopInv, LoopExact, LoopTrue
<1>3. /\ idx \in GuestClusters /\ idx \in Nat /\ idx \notin l2_bitmap
      /\ idx \in Range(todo) /\ \A x \in Range(todo) : x \in Nat /\ idx <= x
  BY <1>1, <1>2, LookedIs
<1>4. /\ Apart(left) /\ ByMap
      /\ \A x \in Int : InSome(left, x) => x \in Range(todo) /\ x < LastCluster(Base)
      /\ \A x \in Range(todo) : x \in Listed(job.baseMap[1]) => InSome(left, x)
  BY <1>1 DEF LoopExact, LeftExact
<1>5. LastCluster(Base) \in Nat
  BY <1>2, JobIs, PreadIs
<1>6. ASSUME Same(idx) PROVE idx < LastCluster(Base) /\ OfDisk(idx) = Pread(Base, idx) /\ InSome(left, idx)
  <2>1. idx \in Listed(job.baseMap[1])
    BY <1>4, <1>6 DEF Same
  <2> QED BY <1>2, <1>3, <1>4, <1>6, <2>1, SameIs
<1>7. phase' # "start"
  BY <1>1, <1>2
<1>8. CASE at # 0
  <2>1. idx < LastCluster(Base) /\ at = Search(left, idx)
    BY <1>3, <1>5, <1>8
  <2>2. left' = Take(left, at, idx) /\ CheckClusterAllocate(idx, Pread(Base, idx))
    BY <1>1, <1>8
  <2>3. at \in DOMAIN left /\ Within(left[at], idx)
    BY <1>2, <1>3, <1>8, <2>1, SearchFinds
  <2> HIDE DEF at
  <2>4. BitmapsExact' /\ l2_bitmap' \subseteq l2_bitmap \cup {idx}
    BY <1>2, <1>3, <1>6, <1>7, <2>2, CheckExact
  <2>5. TodoExact' /\ \A x \in Int : x \in Range(todo)' <=> x \in Range(todo) /\ x # idx
    BY <1>1, <1>2, <2>4, LookedExact
  <2>6. idx = left[at][1]
    <3>1. PICK l, r : l = left[at][1] /\ r = left[at][2]
      OBVIOUS
    <3>2. l \in Int /\ r \in Int
      BY <1>2, <2>3, <3>1 DEF Intervals
    <3>3. l <= idx /\ idx <= r
      BY <2>3, <3>1 DEF Within
    <3>4. Within(left[at], l)
      BY <1>3, <3>1, <3>2, <3>3 DEF Within
    <3>5. InSome(left, l)
      BY <2>3, <3>4 DEF InSome
    <3>6. idx <= l
      BY <1>3, <1>4, <3>2, <3>5
    <3> QED BY <1>3, <3>1, <3>2, <3>3, <3>6
  <2>7. idx \in Int
    BY <1>3
  <2>8. PICK u : u = Take(left, at, idx)
    OBVIOUS
  <2>9. /\ Apart(u)
        /\ \A x \in Int : InSome(u, x) => InSome(left, x) /\ x # idx
    BY <1>2, <1>4, <2>3, <2>6, <2>7, <2>8, TakeFirst
  <2>10. \A x \in Int : x # idx /\ InSome(left, x) => InSome(u, x)
    BY <1>2, <2>3, <2>7, <2>8, TakeKeeps
  <2>11. left' = u
    BY <2>2, <2>8
  <2>12. \A x \in Int : InSome(u, x) => x \in Range(todo)' /\ x < LastCluster(Base)
    BY <1>4, <2>5, <2>9
  <2>13. \A x \in Range(todo)' : x \in Listed(job.baseMap[1]) => InSome(u, x)
    <3>1. \A x \in Range(todo)' : x \in Int
      <4>1. Range(todo)' \subseteq GuestClusters'
        BY <1>1, <1>2, <2>5 DEF TodoExact
      <4> QED BY <1>2, <4>1, SameJob DEF GuestClusters
    <3> QED BY <1>4, <2>5, <2>10, <3>1
  <2>14. LeftExact'
    <3>1. phase' = "mapDiff" /\ ByMap'
      BY <1>1, <1>2, <1>4 DEF ByMap
    <3>2. Apart(left)' /\ LastCluster(Base)' = LastCluster(Base)
      BY <1>2, <2>9, <2>11 DEF Apart, Base
    <3>3. (\A x \in Int : InSome(left, x) => x \in Range(todo) /\ x < LastCluster(Base))'
      BY <2>11, <2>12, <3>2 DEF InSome
    <3>4. (\A x \in Range(todo) : x \in Listed(job.baseMap[1]) => InSome(left, x))'
      BY <1>2, <2>11, <2>13 DEF InSome
    <3> QED BY <3>1, <3>2, <3>3, <3>4 DEF LeftExact
  <2> QED BY <2>4, <2>5, <2>14 DEF LoopExact
<1>9. CASE at = 0
  <2>1. AllocateCluster(idx) /\ left' = left
    BY <1>1, <1>9
  <2>2. ~InSome(left, idx)
    <3>1. SUFFICES ASSUME InSome(left, idx) PROVE FALSE
      OBVIOUS
    <3>2. idx \in Int /\ idx < LastCluster(Base)
      BY <1>3, <1>4, <3>1
    <3>3. at = Search(left, idx)
      BY <1>5, <3>2
    <3> HIDE DEF at
    <3> QED BY <1>2, <1>4, <1>9, <3>1, <3>2, <3>3, SearchMisses
  <2> HIDE DEF at
  <2>3. ~Same(idx)
    BY <1>6, <2>2
  <2>4. BitmapsExact' /\ l2_bitmap' = l2_bitmap \cup {idx}
    BY <1>2, <1>3, <1>7, <2>1, <2>3, AllocateExact
  <2>5. TodoExact' /\ \A x \in Int : x \in Range(todo)' <=> x \in Range(todo) /\ x # idx
    BY <1>1, <1>2, <2>4, LookedExact
  <2>6. LeftExact'
    <3>1. phase' = "mapDiff" /\ ByMap'
      BY <1>1, <1>2, <1>4 DEF ByMap
    <3>2. Apart(left)' /\ LastCluster(Base)' = LastCluster(Base)
      BY <1>2, <1>4, <2>1 DEF Apart, Base
    <3>3. (\A x \in Int : InSome(left, x) => x \in Range(todo) /\ x < LastCluster(Base))'
      <4>1. \A x \in Int : InSome(left, x) => x \in Range(todo)' /\ x < LastCluster(Base)
        BY <1>4, <2>2, <2>5
      <4> QED BY <2>1, <3>2, <4>1 DEF InSome
    <3>4. (\A x \in Range(todo) : x \in Listed(job.baseMap[1]) => InSome(left, x))'
      <4>1. \A x \in Range(todo)' : x \in Int
        <5>1. Range(todo)' \subseteq GuestClusters'
          BY <1>1, <1>2, <2>5 DEF TodoExact
        <5> QED BY <1>2, <5>1, SameJob DEF GuestClusters
      <4>2. \A x \in Range(todo)' : x \in Listed(job.baseMap[1]) => InSome(left, x)
        BY <1>4, <2>5, <4>1
      <4> QED BY <1>2, <2>1, <4>2 DEF InSome
    <3> QED BY <3>1, <3>2, <3>3, <3>4 DEF LeftExact
  <2> QED BY <2>4, <2>5, <2>6 DEF LoopExact
<1> QED BY <1>8, <1>9

LEMMA AllocateRawExact ==
  ASSUME LoopInv, AllocateRaw
  PROVE  LoopExact'
<1>1. /\ l1_bitmap' = 0 .. (L1Entries - 1) /\ l2_bitmap' = 0 .. (TotalDataClusters - 1)
      /\ phase' = "count" /\ job' = job /\ job.dataFile = "raw"
  BY DEF AllocateRaw
<1>2. GuestClusters' = GuestClusters /\ L1Entries' = L1Entries
  BY <1>1, SameJob
<1>3. BitmapsExact'
  BY <1>1, <1>2 DEF BitmapsExact, GuestClusters
<1> QED BY <1>1, <1>3, NoLoopExact DEF Counting

LEMMA FailExact ==
  ASSUME LoopExact, Fail
  PROVE  LoopExact'
<1>1. phase' = "failed" /\ job' = job /\ UNCHANGED bitmaps
  BY DEF Fail
<1>2. BitmapsExact'
  BY <1>1, BitmapsExactStay DEF LoopExact
<1> QED BY <1>1, <1>2, NoLoopExact

LEMMA EndLoopExact ==
  ASSUME LoopExact, EndLoop
  PROVE  LoopExact'
<1>1. phase' = "count" /\ job' = job /\ UNCHANGED bitmaps
  BY DEF EndLoop
<1>2. BitmapsExact'
  BY <1>1, BitmapsExactStay DEF LoopExact
<1> QED BY <1>1, <1>2, NoLoopExact DEF Counting

\* After the loops the choice stays.
LEMMA ChoiceStaysExact ==
  ASSUME LoopExact, phase' \in Counting \cup Writing, UNCHANGED <<job, bitmaps>>
  PROVE  LoopExact'
<1>1. job' = job /\ UNCHANGED bitmaps
  OBVIOUS
<1>2. phase' # "start"
  BY DEF Counting, Writing
<1>3. BitmapsExact'
  BY <1>1, <1>2, BitmapsExactStay DEF LoopExact
<1> QED BY <1>3, NoLoopExact

\* When the loop over the disk's clusters has ended none of the base's is left.
LEMMA StartLeftoverExact ==
  ASSUME LoopInv, LoopExact, StartLeftover
  PROVE  LoopExact'
<1>1. /\ phase = "mapDiff" /\ todo = <<>> /\ phase' = "leftover" /\ todo' = ClustersOf(left)
      /\ job' = job /\ UNCHANGED bitmaps /\ l2_bitmap' = l2_bitmap
  BY DEF StartLeftover, bitmaps
<1>2. left \in Intervals
  BY DEF LoopInv, LoopTrue
<1>3. PICK t : t = ClustersOf(left)
  OBVIOUS
<1>4. t \in Seq(Int) /\ \A c \in Int : c \in Range(t) <=> InSome(left, c)
  BY <1>2, <1>3, ClustersAre
<1>5. \A c \in Int : ~InSome(left, c)
  <2>1. Range(todo) = {}
    BY <1>1 DEF Range
  <2> QED BY <1>1, <2>1 DEF LoopExact, LeftExact
<1>6. t = <<>>
  <2>1. \A i \in DOMAIN t : t[i] \in Int /\ t[i] \in Range(t)
    BY <1>4 DEF Range
  <2>2. DOMAIN t = {}
    BY <1>4, <1>5, <2>1
  <2>3. Len(t) \in Nat /\ DOMAIN t = 1 .. Len(t)
    BY <1>4
  <2>4. Len(t) = 0
    BY <2>2, <2>3
  <2> QED BY <1>4, <2>4
<1>7. todo' = <<>>
  BY <1>1, <1>3, <1>6
<1>8. BitmapsExact'
  BY <1>1, BitmapsExactStay DEF LoopExact
<1>9. TodoExact'
  <2>1. Rising(todo)' /\ Range(todo)' = {}
    BY <1>7 DEF Rising, Range
  <2>2. job'.dataFile # "raw"
    BY <1>1 DEF LoopExact, TodoExact
  <2> QED BY <2>1, <2>2 DEF TodoExact
<1>10. LeftExact'
  BY <1>1, <1>7 DEF LeftExact
<1> QED BY <1>8, <1>9, <1>10 DEF LoopExact

\* Without maps the loop has every cluster once.
LEMMA StartByReadingExact ==
  ASSUME LoopInv, LoopExact, StartByReading
  PROVE  LoopExact'
<1>1. /\ phase = "start" /\ phase' = "read" /\ job' = job /\ job.dataFile # "raw" /\ ~ByMap
      /\ todo' = UpTo(0, LastCluster(job.disk) - 1)
      /\ UNCHANGED bitmaps /\ l2_bitmap' = l2_bitmap
  BY DEF StartByReading, bitmaps, Accepted
<1>2. job \in Jobs /\ job.disk \in Seq(Nat) /\ TotalDataClusters \in Nat
  <2>1. job \in Jobs
    BY DEF LoopInv, LoopTrue
  <2> QED BY <2>1, JobIs
<1>3. PICK n, m : n = Len(job.disk) /\ m = LastCluster(job.disk)
  OBVIOUS
<1>4. SectorSize \in Nat \ {0} /\ ClusterSize \in Nat \ {0} /\ n \in Nat
  BY <1>2, <1>3, SizesAssumption
<1>5. m \in Nat /\ \A k \in Nat : k < m <=> k * ClusterSize < n
  BY <1>3, <1>4, Parts DEF LastCluster
<1>6. PICK s : s = DiskSize
  OBVIOUS
<1>7. s \in Nat /\ n <= s
  <2>1. PICK q : q = DivUp(n, SectorSize)
    OBVIOUS
  <2>2. q \in Nat /\ ~(q * SectorSize < n)
    <3>1. q \in Nat
      BY <1>4, <2>1, Parts
    <3>2. ~(q < q)
      BY <3>1
    <3> QED BY <1>4, <2>1, <3>1, <3>2, Parts
  <2>3. s = SectorSize * q
    BY <1>1, <1>3, <1>6, <2>1 DEF DiskSize, AlignUp
  <2>4. SectorSize * q = q * SectorSize /\ q * SectorSize \in Nat
    BY <1>4, <2>2
  <2> QED BY <1>4, <2>2, <2>3, <2>4
<1>8. ASSUME NEW k \in Nat, k < m PROVE k \in GuestClusters
  <2>1. PICK a : a = k * ClusterSize
    OBVIOUS
  <2>2. a \in Nat /\ a < n
    BY <1>4, <1>5, <1>8, <2>1
  <2>3. a < s
    BY <1>4, <1>7, <2>2
  <2>4. k < DivUp(s, ClusterSize)
    BY <1>4, <1>7, <2>1, <2>3, Parts
  <2>5. k < TotalDataClusters
    BY <1>6, <2>4 DEF TotalDataClusters
  <2> QED BY <1>2, <2>5 DEF GuestClusters
<1>9. PICK u : u = UpTo(0, m - 1)
  OBVIOUS
<1>10. u \in Seq(Int) /\ \A c \in Int : c \in Range(u) <=> 0 <= c /\ c <= m - 1
  <2>1. 0 \in Int /\ m - 1 \in Int
    BY <1>5
  <2> QED BY <1>9, <2>1, UpToIs
<1>11. Rising(u)
  <2>1. u = [i \in 1 .. (m - 1 - 0 + 1) |-> 0 + i - 1]
    BY <1>9 DEF UpTo
  <2> QED BY <1>5, <2>1 DEF Rising
<1>12. todo' = u
  BY <1>1, <1>3, <1>9
<1>13. BitmapsExact'
  BY <1>1, BitmapsExactStay DEF LoopExact
<1>14. TodoExact'
  <2>1. Rising(todo)' /\ Range(todo)' = Range(u)
    BY <1>11, <1>12 DEF Rising, Range
  <2>2. \A c \in Range(u) : c \in GuestClusters
    <3> TAKE c \in Range(u)
    <3>1. c \in Int
      BY <1>10 DEF Range
    <3>2. c \in Nat /\ c < m
      BY <1>5, <1>10, <3>1
    <3> QED BY <1>8, <3>2
  <2>3. GuestClusters' = GuestClusters
    BY <1>1, SameJob
  <2>4. l2_bitmap' = {}
    BY <1>1 DEF LoopExact, BitmapsExact
  <2>5. (Range(todo) \subseteq GuestClusters)' /\ (Range(todo) \cap l2_bitmap = {})'
    BY <2>1, <2>2, <2>3, <2>4
  <2>6. (job.dataFile # "raw")'
    BY <1>1
  <2> QED BY <2>1, <2>5, <2>6 DEF TodoExact
<1>15. LeftExact'
  BY <1>1 DEF LeftExact, ByMap
<1> QED BY <1>13, <1>14, <1>15 DEF LoopExact

\* What a map lists, and in which order.
LEMMA ListedIs ==
  ASSUME NEW map, IsMap(map), NEW bytes \in Seq(Nat), MapInside(map, bytes), NEW t, t = ClustersOf(ParseMap(map))
  PROVE  /\ t \in Seq(Int) /\ Rising(t) /\ Listed(map) = Range(t)
         /\ ParseMap(map) \in Intervals /\ Apart(ParseMap(map))
         /\ \A c \in Int : c \in Range(t) <=> InSome(ParseMap(map), c)
         /\ \A c \in Range(t) : c \in Nat /\ c < LastCluster(bytes)
<1>1. PICK ivs : ivs = ParseMap(map)
  OBVIOUS
<1>2. ivs \in Intervals /\ Apart(ivs) /\ \A c \in Int : InSome(ivs, c) => c \in Nat /\ c < LastCluster(bytes)
  BY <1>1, ParseMapApart
<1>3. t \in Seq(Int) /\ \A c \in Int : c \in Range(t) <=> InSome(ivs, c)
  BY <1>1, <1>2, ClustersAre
<1>4. Rising(t)
  BY <1>1, <1>2, ClustersRise
<1>5. Listed(map) = Range(t)
  BY DEF Listed, Range
<1>6. \A c \in Range(t) : c \in Int
  BY <1>3 DEF Range
<1> QED BY <1>1, <1>2, <1>3, <1>4, <1>5, <1>6

\* With maps, each cluster that the disk's lists, and all the base's are among
\* them.
LEMMA StartByMapExact ==
  ASSUME MapsTrue, MapsInside, NothingDiscarded, LoopInv, LoopExact, StartByMap
  PROVE  LoopExact'
<1>1. /\ phase = "start" /\ job' = job /\ job.map # None /\ job.dataFile # "raw"
      /\ \/ job.base = None /\ phase' = "map"
         \/ /\ job.base # None /\ job.baseMap # None
            /\ phase' = "mapDiff" /\ left' = Interval(ParseMap(job.baseMap[1]))
      /\ todo' = ClustersOf(ParseMap(job.map[1]))
      /\ UNCHANGED bitmaps /\ l2_bitmap' = l2_bitmap
  BY DEF StartByMap, bitmaps, ByMap, Accepted
<1>2. job \in Jobs /\ job.disk \in Seq(Nat) /\ IsMap(job.map[1]) /\ TotalDataClusters \in Nat
  <2>1. job \in Jobs
    BY DEF LoopInv, LoopTrue
  <2> QED BY <1>1, <2>1, JobIs
<1>3. PICK t : t = ClustersOf(ParseMap(job.map[1]))
  OBVIOUS
<1>4. MapInside(job.map[1], job.disk)
  BY <1>1, <1>2 DEF MapsInside
<1>5. /\ t \in Seq(Int) /\ Rising(t) /\ Listed(job.map[1]) = Range(t)
      /\ \A c \in Range(t) : c \in Nat /\ c < LastCluster(job.disk)
  BY <1>2, <1>3, <1>4, ListedIs
<1>6. LastCluster(job.disk) = TotalDataClusters
  BY <1>1 DEF LastCluster, TotalDataClusters, DiskSize, ByMap
<1>7. Range(t) \subseteq GuestClusters
  BY <1>2, <1>5, <1>6 DEF GuestClusters
<1>8. todo' = t
  BY <1>1, <1>3
<1>9. BitmapsExact'
  <2>1. phase' # "start"
    BY <1>1
  <2> QED BY <1>1, <2>1, BitmapsExactStay DEF LoopExact
<1>10. TodoExact'
  <2>1. Rising(todo)' /\ Range(todo)' = Range(t)
    BY <1>5, <1>8 DEF Rising, Range
  <2>2. GuestClusters' = GuestClusters
    BY <1>1, SameJob
  <2>3. l2_bitmap' = {}
    BY <1>1 DEF LoopExact, BitmapsExact
  <2>4. (Range(todo) \subseteq GuestClusters)' /\ (Range(todo) \cap l2_bitmap = {})'
    BY <1>7, <2>1, <2>2, <2>3
  <2>5. (job.dataFile # "raw")'
    BY <1>1
  <2> QED BY <2>1, <2>4, <2>5 DEF TodoExact
<1>11. LeftExact'
  <2>1. CASE job.base = None /\ phase' = "map"
    BY <1>1, <2>1 DEF LeftExact
  <2>2. CASE /\ job.base # None /\ job.baseMap # None
             /\ phase' = "mapDiff" /\ left' = Interval(ParseMap(job.baseMap[1]))
    <3>1. Base \in Seq(Nat) /\ IsMap(job.baseMap[1]) /\ Base = job.base[1]
      BY <1>2, <2>2, JobIs DEF Base
    <3>2. MapTrue(job.baseMap[1], Base) /\ MapInside(job.baseMap[1], Base)
      BY <1>2, <2>2, <3>1 DEF MapsTrue, MapsInside
    <3>3. PICK ivs, b : ivs = ParseMap(job.baseMap[1]) /\ b = ClustersOf(ParseMap(job.baseMap[1]))
      OBVIOUS
    <3>4. left' = ivs
      BY <2>2, <3>2, <3>3 DEF MapTrue
    <3>5. /\ Listed(job.baseMap[1]) = Range(b) /\ Apart(ivs)
          /\ \A c \in Int : c \in Range(b) <=> InSome(ivs, c)
          /\ \A c \in Range(b) : c \in Nat /\ c < LastCluster(Base)
      BY <3>1, <3>2, <3>3, ListedIs
    <3>6. Range(b) \subseteq Range(t)
      BY <1>1, <1>2, <1>5, <2>2, <3>5 DEF NothingDiscarded
    <3>7. Apart(left)' /\ LastCluster(Base)' = LastCluster(Base) /\ ByMap'
      BY <1>1, <3>4, <3>5 DEF Apart, Base, ByMap
    <3>8. (\A x \in Int : InSome(left, x) => x \in Range(todo) /\ x < LastCluster(Base))'
      <4>1. \A x \in Int : InSome(ivs, x) => x \in Range(t) /\ x < LastCluster(Base)
        BY <3>5, <3>6
      <4> QED BY <1>8, <3>4, <3>7, <4>1 DEF InSome, Range
    <3>9. (\A x \in Range(todo) : x \in Listed(job.baseMap[1]) => InSome(left, x))'
      <4>1. \A x \in Range(t) : x \in Listed(job.baseMap[1]) => InSome(ivs, x)
        BY <1>5, <3>5
      <4> QED BY <1>1, <1>8, <3>4, <4>1 DEF InSome, Range
    <3> QED BY <2>2, <3>7, <3>8, <3>9 DEF LeftExact
  <2> QED BY <1>1, <2>1, <2>2
<1> QED BY <1>9, <1>10, <1>11 DEF LoopExact

\* The clusters but those of the refcounts.
Needed == 1 + L1Tables + allocated_l2_tables
          + (IF job.dataFile = "none" THEN allocated_data_clusters ELSE 0)

\* The count is of every cluster, and the refcount blocks and their tables have
\* room for all.
CountsExact ==
    /\ phase = "grow" =>
         /\ total_allocated_clusters = Needed
         /\ allocated_refcount_tables = DivUp(allocated_refcount_blocks, EntriesPerTable)
    /\ phase \in Writing =>
         /\ total_allocated_clusters = Needed + allocated_refcount_tables + allocated_refcount_blocks
         /\ total_allocated_clusters <= allocated_refcount_blocks * RefcountsPerBlock
         /\ allocated_refcount_blocks <= allocated_refcount_tables * EntriesPerTable

ExactInv == LoopExact /\ CountsExact

LEMMA SameNeeded ==
  ASSUME UNCHANGED <<job, bitmaps>>
  PROVE  Needed' = Needed
<1>1. L1Tables' = L1Tables
  BY SameJob
<1> QED BY <1>1 DEF Needed, bitmaps

LEMMA InitExact ==
  ASSUME Init
  PROVE  ExactInv
<1>1. phase = "start" /\ l1_bitmap = {} /\ l2_bitmap = {} /\ allocated_data_clusters = 0
  BY DEF Init
<1>2. BitmapsExact
  <2>1. Cardinality({}) = 0
    BY FS_EmptySet
  <2> QED BY <1>1, <2>1 DEF BitmapsExact
<1> QED BY <1>1, <1>2 DEF ExactInv, LoopExact, TodoExact, LeftExact, CountsExact, Looping, Writing

LEMMA CountClustersExact ==
  ASSUME ExactInv, CountClusters
  PROVE  ExactInv'
<1>1. /\ phase' = "grow" /\ UNCHANGED <<job, bitmaps>>
      /\ total_allocated_clusters' = Needed
      /\ allocated_refcount_tables' = DivUp(allocated_refcount_blocks', EntriesPerTable)
  BY DEF CountClusters, Needed
<1>2. LoopExact'
  BY <1>1, ChoiceStaysExact DEF ExactInv, Counting
<1>3. Needed' = Needed
  BY <1>1, SameNeeded
<1>4. CountsExact'
  BY <1>1, <1>3 DEF CountsExact, Writing, DivUp
<1> QED BY <1>2, <1>4 DEF ExactInv

LEMMA GrowRefcountsExact ==
  ASSUME Inv, ExactInv, GrowRefcounts
  PROVE  ExactInv'
<1> DEFINE total == total_allocated_clusters + allocated_refcount_tables + allocated_refcount_blocks
           blocks == DivUp(total, RefcountsPerBlock)
<1>1. phase = "grow" /\ UNCHANGED <<job, bitmaps>>
  BY DEF GrowRefcounts
<1>2. Needed' = Needed
  BY <1>1, SameNeeded
<1>3. /\ total_allocated_clusters = Needed
      /\ allocated_refcount_tables = DivUp(allocated_refcount_blocks, EntriesPerTable)
  BY <1>1 DEF ExactInv, CountsExact
<1>4. /\ total_allocated_clusters \in Nat /\ allocated_refcount_blocks \in Nat
      /\ allocated_refcount_tables \in Nat
      /\ RefcountsPerBlock \in Nat \ {0} /\ EntriesPerTable \in Nat \ {0}
  BY SizesAssumption DEF Inv, ImageInv, CountsTrue
<1>5. CASE blocks > allocated_refcount_blocks
  <2>1. /\ allocated_refcount_tables' = DivUp(blocks, EntriesPerTable)
        /\ allocated_refcount_blocks' = blocks
        /\ phase' = "grow" /\ total_allocated_clusters' = total_allocated_clusters
    BY <1>1, <1>5 DEF GrowRefcounts
  <2> HIDE DEF blocks
  <2>2. CountsExact'
    BY <1>2, <1>3, <2>1 DEF CountsExact, Writing, DivUp
  <2>3. LoopExact'
    BY <1>1, <2>1, ChoiceStaysExact DEF ExactInv, Counting
  <2> QED BY <2>2, <2>3 DEF ExactInv
<1>6. CASE ~(blocks > allocated_refcount_blocks)
  <2>1. /\ total_allocated_clusters' = total /\ phase' = "header"
        /\ allocated_refcount_blocks' = allocated_refcount_blocks
        /\ allocated_refcount_tables' = allocated_refcount_tables
    BY <1>1, <1>6 DEF GrowRefcounts
  <2>2. PICK n, b, t : n = total /\ b = allocated_refcount_blocks /\ t = allocated_refcount_tables
    OBVIOUS
  <2>3. n \in Nat /\ b \in Nat /\ t \in Nat /\ n = Needed + t + b
    BY <1>3, <1>4, <2>2
  <2>4. ~(b < DivUp(n, RefcountsPerBlock))
    <3>1. PICK d : d = DivUp(n, RefcountsPerBlock)
      OBVIOUS
    <3>2. d \in Nat /\ d = blocks
      BY <1>4, <2>2, <2>3, <3>1, Parts
    <3> HIDE DEF blocks
    <3> QED BY <1>6, <2>2, <2>3, <3>1, <3>2
  <2>5. n <= b * RefcountsPerBlock
    <3>1. ~(b * RefcountsPerBlock < n)
      BY <1>4, <2>3, <2>4, Parts
    <3>2. b * RefcountsPerBlock \in Nat
      BY <1>4, <2>3, Multiples
    <3> QED BY <2>3, <3>1, <3>2
  <2>6. b <= t * EntriesPerTable
    <3>1. t = DivUp(b, EntriesPerTable) /\ ~(t < t)
      BY <1>3, <2>2, <2>3
    <3>2. ~(t * EntriesPerTable < b)
      BY <1>4, <2>3, <3>1, Parts
    <3>3. t * EntriesPerTable \in Nat
      BY <1>4, <2>3, Multiples
    <3> QED BY <2>3, <3>2, <3>3
  <2> HIDE DEF total, blocks
  <2>7. CountsExact'
    <3>1. /\ total_allocated_clusters' = n /\ allocated_refcount_blocks' = b /\ allocated_refcount_tables' = t
      BY <2>1, <2>2
    <3> QED BY <1>2, <2>1, <2>3, <2>5, <2>6, <3>1 DEF CountsExact
  <2>8. LoopExact'
    BY <1>1, <2>1, ChoiceStaysExact DEF ExactInv, Writing
  <2> QED BY <2>7, <2>8 DEF ExactInv
<1> QED BY <1>5, <1>6

\* A write changes none of this, nor does any other step after the counts.
LEMMA WritesExact ==
  ASSUME ExactInv, phase \in Writing, phase' \in Writing, UNCHANGED <<job, bitmaps, counts>>
  PROVE  ExactInv'
<1>1. Needed' = Needed
  BY SameNeeded
<1>2. UNCHANGED <<total_allocated_clusters, allocated_refcount_blocks, allocated_refcount_tables>>
  BY DEF counts
<1>3. phase' # "grow"
  BY DEF Writing
<1>4. CountsExact'
  BY <1>1, <1>2, <1>3 DEF ExactInv, CountsExact
<1>5. LoopExact'
  BY ChoiceStaysExact DEF ExactInv
<1> QED BY <1>4, <1>5 DEF ExactInv

\* Every step keeps all this.
LEMMA StepKeepsExact ==
  ASSUME MapsTrue, MapsInside, NothingDiscarded, Inv, ExactInv, [Next]_vars
  PROVE  ExactInv'
<1>1. LoopInv /\ LoopExact
  BY DEF Inv, ExactInv
<1>2. ASSUME Fail \/ AllocateRaw \/ StartByMap \/ StartByReading \/ StartLeftover \/ EndLoop
      PROVE  ExactInv'
  <2>1. LoopExact'
    BY <1>1, <1>2, FailExact, AllocateRawExact, StartByMapExact, StartByReadingExact,
       StartLeftoverExact, EndLoopExact
  <2>2. phase' \notin Writing \cup {"grow"}
    BY <1>2 DEF Fail, AllocateRaw, StartByMap, StartByReading, StartLeftover, EndLoop, Writing
  <2> QED BY <2>1, <2>2 DEF ExactInv, CountsExact
<1>3. ASSUME NEW idx \in 0..TotalDataClusters,
             ReadCluster(idx) \/ MapCluster(idx) \/ MapDiffCluster(idx)
      PROVE  ExactInv'
  <2>1. LoopExact'
    BY <1>1, <1>3, ReadClusterExact, MapClusterExact, MapDiffClusterExact
  <2>2. phase' \notin Writing \cup {"grow"}
    BY <1>3 DEF ReadCluster, MapCluster, MapDiffCluster, NextCluster, Writing
  <2> QED BY <2>1, <2>2 DEF ExactInv, CountsExact
<1>4. CASE CountClusters
  BY <1>4, CountClustersExact
<1>5. CASE GrowRefcounts
  BY <1>5, GrowRefcountsExact
<1>6. ASSUME \/ WriteHeader \/ WriteRefcountTable \/ WriteRefcountBlocks
             \/ WriteL1Table \/ WriteL2Tables \/ WriteDataClusters
      PROVE  ExactInv'
  <2>1. /\ phase \in Writing /\ phase' \in Writing /\ UNCHANGED <<job, bitmaps, counts>>
    BY <1>6 DEF WriteHeader, WriteRefcountTable, WriteRefcountBlocks, WriteL1Table, WriteL2Tables,
                WriteDataClusters, Write, Writing
  <2> QED BY <2>1, WritesExact
<1>7. CASE UNCHANGED vars
  <2>1. UNCHANGED <<job, phase, todo, left, bitmaps, counts>>
    BY <1>7 DEF vars
  <2>2. UNCHANGED <<l1_bitmap, l2_bitmap, allocated_l2_tables, allocated_data_clusters>>
    BY <2>1 DEF bitmaps
  <2>3. GuestClusters' = GuestClusters /\ L1Entries' = L1Entries /\ \A x : Same(x)' <=> Same(x)
    BY <2>1, SameJob, SameOfJob
  <2>4. BitmapsExact'
    BY <1>1, <2>1, <2>2, <2>3 DEF LoopExact, BitmapsExact
  <2>5. TodoExact'
    BY <1>1, <2>1, <2>2, <2>3 DEF LoopExact, TodoExact, Rising, Range, Looping
  <2>6. LeftExact'
    <3>1. \A x : InSome(left, x)' <=> InSome(left, x)
      BY <2>1 DEF InSome
    <3>2. LastCluster(Base)' = LastCluster(Base) /\ Apart(left)' = Apart(left) /\ ByMap' = ByMap
      BY <2>1 DEF Base, Apart, ByMap
    <3>3. Range(todo)' = Range(todo)
      BY <2>1 DEF Range
    <3> QED BY <1>1, <2>1, <3>1, <3>2, <3>3 DEF LoopExact, LeftExact
  <2>7. CountsExact'
    <3>1. Needed' = Needed
      BY <2>1, SameNeeded
    <3>2. UNCHANGED <<total_allocated_clusters, allocated_refcount_blocks, allocated_refcount_tables>>
      BY <2>1 DEF counts
    <3> QED BY <2>1, <3>1, <3>2 DEF ExactInv, CountsExact, Writing
  <2> QED BY <2>4, <2>5, <2>6, <2>7 DEF ExactInv, LoopExact
<1> QED BY <1>2, <1>3, <1>4, <1>5, <1>6, <1>7 DEF Next

-----------------------------------------------------------------------------
(* The refcounts *)

\* Of the clusters of one kind, which follow one another, one is in a place.
LEMMA PlacedOnce ==
  ASSUME NEW S \in SUBSET Nat, IsFiniteSet(S), NEW off \in Nat, NEW n \in Nat,
         NEW T, T = {k \in S : off + Before(S, k) = n}
  PROVE  Cardinality(T) = IF off <= n /\ n < off + Cardinality(S) THEN 1 ELSE 0
<1>1. PICK c : c = Cardinality(S)
  OBVIOUS
<1>2. c \in Nat
  BY <1>1, FS_CardinalityType
<1>3. \A k \in S : Before(S, k) \in 0 .. (c - 1)
  BY <1>1, BeforeCounts
<1>4. CASE off <= n /\ n < off + c
  <2>1. PICK b : b = n - off
    OBVIOUS
  <2>2. b \in 0 .. (c - 1) /\ off + b = n
    BY <1>2, <1>4, <2>1
  <2>3. PICK x \in S : Before(S, x) = b
    BY <1>1, <2>2, BeforeReaches
  <2>4. \A k \in S : Before(S, k) = b => k = x
    BY <2>3, BeforeCounts
  <2>5. \A k \in S : off + Before(S, k) = n <=> Before(S, k) = b
    <3> TAKE k \in S
    <3>1. PICK a : a = Before(S, k)
      OBVIOUS
    <3>2. a \in 0 .. (c - 1)
      BY <1>3, <3>1
    <3> QED BY <1>2, <2>2, <3>1, <3>2
  <2>6. T = {x}
    BY <2>3, <2>4, <2>5
  <2> QED BY <1>1, <1>4, <2>6, FS_Singleton
<1>5. CASE ~(off <= n /\ n < off + c)
  <2>1. \A k \in S : off + Before(S, k) # n
    <3> TAKE k \in S
    <3>1. PICK a : a = Before(S, k)
      OBVIOUS
    <3>2. a \in 0 .. (c - 1)
      BY <1>3, <3>1
    <3> QED BY <1>2, <1>5, <3>1, <3>2
  <2>2. T = {}
    BY <2>1
  <2> QED BY <1>1, <1>5, <2>2, FS_EmptySet
<1> QED BY <1>4, <1>5, <1>1

\* The same of the refcount blocks.
LEMMA PlacedOnceAll ==
  ASSUME NEW m \in Nat, NEW off \in Nat, NEW n \in Nat, NEW T, T = {k \in 0 .. (m - 1) : off + k = n}
  PROVE  Cardinality(T) = IF off <= n /\ n < off + m THEN 1 ELSE 0
<1>1. CASE off <= n /\ n < off + m
  <2>1. PICK x : x = n - off
    OBVIOUS
  <2>2. x \in 0 .. (m - 1) /\ \A k \in 0 .. (m - 1) : off + k = n <=> k = x
    BY <1>1, <2>1
  <2>3. T = {x}
    BY <2>2
  <2> QED BY <1>1, <2>3, FS_Singleton
<1>2. CASE ~(off <= n /\ n < off + m)
  <2>1. \A k \in 0 .. (m - 1) : off + k # n
    BY <1>2
  <2>2. T = {}
    BY <2>1
  <2> QED BY <1>2, <2>2, FS_EmptySet
<1> QED BY <1>1, <1>2

\* What refers to a cluster, as the reader sees it.
BlocksRead == {k \in 0..(Cluster(0).refcount_tables * EntriesPerTable - 1) :
                  TableEntry(Cluster(0).refcount_table, k) # Unset}
L1sRead == {k \in 0..(L1Entries - 1) : ImgL1(k) # Unset}
L2sRead == IF job.dataFile # "none" THEN {}
           ELSE {k \in 0..(L1Entries * EntriesPerTable - 1) : ImgL2(k) # Unset}
UsesRead(n) ==
    (IF n = 0 THEN 1 ELSE 0)
    + (IF n - Cluster(0).refcount_table \in 0..(Cluster(0).refcount_tables - 1) THEN 1 ELSE 0)
    + Cardinality({k \in BlocksRead : TableEntry(Cluster(0).refcount_table, k) = n})
    + (IF n # 0 /\ n - Cluster(0).l1_table \in 0..(L1Tables - 1) THEN 1 ELSE 0)
    + Cardinality({k \in L1sRead : ImgL1(k) = n})
    + Cardinality({k \in L2sRead : ImgL2(k) = n})

\* The reader finds the refcount blocks.
LEMMA BlocksAre ==
  ASSUME Inv, ExactInv, Done
  PROVE  /\ BlocksRead = 0 .. (allocated_refcount_blocks - 1)
         /\ \A k \in EntriesOf(allocated_refcount_tables) :
               TableEntry(Cluster(0).refcount_table, k) = BlockValue(k)
         /\ \A k \in 0 .. (allocated_refcount_blocks - 1) :
               /\ k \in EntriesOf(allocated_refcount_tables)
               /\ BlockValue(k) = RefcountBlockOffset + k
<1>1. /\ LoopInv /\ ImageInv /\ CountsTrue /\ phase = "done" /\ phase \in HeaderDone /\ phase \in Writing
  BY DEF Inv, ImageInv, Done, HeaderDone, Writing
<1>2. PICK b, m, o : b = allocated_refcount_blocks /\ m = allocated_refcount_tables /\ o = RefcountBlockOffset
  OBVIOUS
<1>3. /\ b \in Nat /\ m \in Nat /\ o \in Nat /\ EntriesPerTable \in Nat \ {0}
      /\ RefcountTableOffset = 1
  BY <1>1, <1>2, OffsetsAre, SizesAssumption DEF CountsTrue
<1>4. PICK e : e = m * EntriesPerTable
  OBVIOUS
<1>5. e \in Nat /\ b <= e
  BY <1>1, <1>2, <1>3, <1>4, Multiples DEF ExactInv, CountsExact
<1>6. Cluster(0).refcount_table = 1 /\ Cluster(0).refcount_tables = m
  BY <1>1, <1>2, <1>3 DEF ImageInv, HeaderWritten
<1>7. ASSUME NEW k \in 0 .. (e - 1)
      PROVE  TableEntry(1, k) = BlockValue(k) /\ (BlockValue(k) # Unset <=> k < b)
             /\ (k < b => BlockValue(k) = o + k)
  <2>1. k \in EntriesOf(m) /\ k \in Nat
    BY <1>4, <1>5 DEF EntriesOf
  <2>2. TableEntry(1, k) = EntryAt(BlockPlace(k), k)
    BY <1>3 DEF TableEntry, EntryAt, BlockPlace, Quotient, Remainder
  <2>3. EntryAt(BlockPlace(k), k) = BlockValue(k)
    BY <1>1, <1>2, <2>1 DEF ImageInv, RefcountTableWritten
  <2>4. BlockValue(k) = IF k < b THEN o + k ELSE Unset
    BY <1>2 DEF BlockValue
  <2>5. o + k \in Nat /\ Unset \notin Nat
    BY <1>3, <2>1 DEF Unset
  <2> QED BY <2>2, <2>3, <2>4, <2>5
<1>8. EntriesOf(m) = 0 .. (e - 1)
  BY <1>4 DEF EntriesOf
<1>9. BlocksRead = {k \in 0 .. (e - 1) : TableEntry(1, k) # Unset}
  BY <1>4, <1>6 DEF BlocksRead
<1>10. BlocksRead = 0 .. (b - 1)
  <2>1. \A k \in 0 .. (b - 1) : k \in 0 .. (e - 1) /\ k < b
    BY <1>3, <1>5
  <2>2. \A k \in 0 .. (e - 1) : k < b => k \in 0 .. (b - 1)
    BY <1>3, <1>5
  <2>3. \A k \in BlocksRead : k \in 0 .. (b - 1)
    BY <1>7, <1>9, <2>2
  <2>4. \A k \in 0 .. (b - 1) : k \in BlocksRead
    BY <1>7, <1>9, <2>1
  <2> QED BY <2>3, <2>4
<1>11. \A k \in 0 .. (b - 1) : k \in EntriesOf(m) /\ BlockValue(k) = o + k
  <2>1. \A k \in 0 .. (b - 1) : k \in 0 .. (e - 1) /\ k < b
    BY <1>3, <1>5
  <2> QED BY <1>7, <1>8, <2>1
<1> QED BY <1>2, <1>6, <1>7, <1>8, <1>10, <1>11

\* The reader finds the tables of clusters that were counted.
LEMMA L1sAre ==
  ASSUME Inv, ExactInv, Done
  PROVE  L1sRead = l1_bitmap /\ \A k \in l1_bitmap : ImgL1(k) = L2TableOffset + Before(l1_bitmap, k)
<1>1. LoopInv /\ ImageInv /\ CountsTrue /\ l1_bitmap \subseteq 0 .. (L1Entries - 1)
  BY DEF Inv, ImageInv, ExactInv, LoopExact, BitmapsExact
<1>2. \A k \in 0 .. (L1Entries - 1) : ImgL1(k) = L1Value(k)
  BY <1>1, ReaderFindsTable
<1>3. \A k \in l1_bitmap : /\ L1Value(k) = L2TableOffset + Before(l1_bitmap, k)
                           /\ L1Value(k) # Unset
  <2> TAKE k \in l1_bitmap
  <2>1. L1Value(k) = L2TableOffset + Before(l1_bitmap, k)
    BY DEF L1Value
  <2>2. PICK b, o, c : b = Before(l1_bitmap, k) /\ o = L2TableOffset /\ c = Cardinality(l1_bitmap)
    OBVIOUS
  <2>3. b \in 0 .. (c - 1) /\ c \in Nat /\ o \in Nat
    BY <1>1, <2>2, BeforeCounts, OffsetsAre DEF LoopInv, BitmapsTrue
  <2>4. o + b # Unset
    BY <2>3 DEF Unset
  <2> QED BY <2>1, <2>2, <2>4
<1>4. \A k : k \notin l1_bitmap => L1Value(k) = Unset
  BY DEF L1Value
<1> QED BY <1>1, <1>2, <1>3, <1>4 DEF L1sRead

\* And the clusters.
LEMMA L2sAre ==
  ASSUME Inv, ExactInv, Done, job.dataFile = "none"
  PROVE  L2sRead = l2_bitmap /\ \A k \in l2_bitmap : ImgL2(k) = DataClustersOffset + Before(l2_bitmap, k)
<1>1. LoopInv /\ ImageInv /\ CountsTrue /\ l2_bitmap \subseteq GuestClusters
  BY DEF Inv, ImageInv, ExactInv, LoopExact, BitmapsExact
<1>2. l2_bitmap \subseteq EntriesOf(L1Entries)
  BY <1>1, GuestsAre
<1>3. L2sRead = {k \in EntriesOf(L1Entries) : ImgL2(k) # Unset}
  BY DEF L2sRead, EntriesOf
<1>4. \A k \in EntriesOf(L1Entries) :
         /\ k \in l2_bitmap => ImgL2(k) = L2Entry(k) /\ L2Entry(k) # Unset
         /\ k \notin l2_bitmap => ImgL2(k) = Unset
  BY <1>1, ReaderFinds
<1>5. \A k \in l2_bitmap : L2Entry(k) = DataClustersOffset + Before(l2_bitmap, k)
  BY DEF L2Entry
<1> QED BY <1>2, <1>3, <1>4, <1>5

\* The image is as long as was counted, and ends with its data.
LEMMA LengthIs ==
  ASSUME Inv, ExactInv, Done
  PROVE  /\ Len(out) \in Nat /\ Len(out) = total_allocated_clusters
         /\ Len(out) = DataClustersOffset + (IF job.dataFile = "none" THEN Cardinality(l2_bitmap) ELSE 0)
         /\ Cardinality(l2_bitmap) \in Nat
<1>1. /\ LoopInv /\ ImageInv /\ CountsTrue /\ phase = "done" /\ phase \in Writing
      /\ LoopExact /\ l2_bitmap \subseteq GuestClusters
  BY DEF Inv, ImageInv, Done, Writing, ExactInv, LoopExact, BitmapsExact
<1>2. PICK d : d = IF job.dataFile = "none" THEN Cardinality(l2_bitmap) ELSE 0
  OBVIOUS
<1>3. Cardinality(l2_bitmap) \in Nat /\ d \in Nat
  BY <1>1, <1>2, FS_CardinalityType DEF LoopInv, BitmapsTrue
<1>4. Len(out) = DataClustersOffset + d
  <2>1. l2_bitmap \cap GuestClusters = l2_bitmap
    BY <1>1
  <2>2. DataClusters = d
    BY <1>2, <2>1 DEF DataClusters
  <2> QED BY <1>1, <2>2 DEF ImageInv, LaidOut
<1>5. d = IF job.dataFile = "none" THEN allocated_data_clusters ELSE 0
  <2>1. job.dataFile = "none" => job.dataFile # "raw"
    OBVIOUS
  <2> QED BY <1>1, <1>2, <2>1 DEF LoopExact, BitmapsExact
<1>6. PICK w, m, b, c : w = L1Tables /\ m = allocated_refcount_tables
                        /\ b = allocated_refcount_blocks /\ c = Cardinality(l1_bitmap)
  OBVIOUS
<1>7. w \in Nat /\ m \in Nat /\ b \in Nat /\ c \in Nat
  BY <1>1, <1>6, OffsetsAre DEF CountsTrue
<1>8. DataClustersOffset = 1 + m + b + w + c
  <2>1. /\ RefcountBlockOffset = 1 + m /\ L1TableOffset = RefcountBlockOffset + b
        /\ L2TableOffset = L1TableOffset + w /\ DataClustersOffset = L2TableOffset + c
    BY <1>1, <1>6, OffsetsAre
  <2> QED BY <1>7, <2>1
<1>9. total_allocated_clusters = (1 + w + c + d) + m + b
  <2>1. Needed = 1 + w + c + d
    BY <1>1, <1>5, <1>6 DEF Needed, LoopInv, BitmapsTrue
  <2>2. total_allocated_clusters = Needed + m + b
    BY <1>1, <1>6 DEF ExactInv, CountsExact
  <2> QED BY <2>1, <2>2
<1> QED BY <1>2, <1>3, <1>4, <1>7, <1>8, <1>9

\* The header and the tables refer to each cluster of the image once.
LEMMA UsesAre ==
  ASSUME Inv, ExactInv, Done, NEW n \in Nat
  PROVE  UsesRead(n) = IF n < Len(out) THEN 1 ELSE 0
<1>1. /\ LoopInv /\ ImageInv /\ CountsTrue /\ phase \in HeaderDone
      /\ l1_bitmap \in SUBSET Nat /\ IsFiniteSet(l1_bitmap)
      /\ l2_bitmap \in SUBSET Nat /\ IsFiniteSet(l2_bitmap)
  BY DEF Inv, ImageInv, Done, HeaderDone, Writing, LoopInv, BitmapsTrue
<1>2. PICK m, b, w, c, d :
         /\ m = allocated_refcount_tables /\ b = allocated_refcount_blocks /\ w = L1Tables
         /\ c = Cardinality(l1_bitmap)
         /\ d = IF job.dataFile = "none" THEN Cardinality(l2_bitmap) ELSE 0
  OBVIOUS
<1>3. PICK o2, o3, o4, o5 : /\ o2 = RefcountBlockOffset /\ o3 = L1TableOffset
                            /\ o4 = L2TableOffset /\ o5 = DataClustersOffset
  OBVIOUS
<1>4. /\ m \in Nat /\ b \in Nat /\ w \in Nat /\ c \in Nat /\ d \in Nat
      /\ o2 = 1 + m /\ o3 = o2 + b /\ o4 = o3 + w /\ o5 = o4 + c /\ Len(out) = o5 + d
      /\ o2 \in Nat /\ o3 \in Nat /\ o4 \in Nat /\ o5 \in Nat
  BY <1>1, <1>2, <1>3, OffsetsAre, LengthIs DEF CountsTrue
<1>5. /\ Cluster(0).refcount_table = 1 /\ Cluster(0).refcount_tables = m
      /\ Cluster(0).l1_table = IF w = 0 THEN 0 ELSE o3
  BY <1>1, <1>2, <1>3, OffsetsAre DEF ImageInv, HeaderWritten
<1>6. PICK x2 : x2 = IF n - Cluster(0).refcount_table \in 0..(Cluster(0).refcount_tables - 1) THEN 1 ELSE 0
  OBVIOUS
<1>7. x2 = IF 1 <= n /\ n < o2 THEN 1 ELSE 0
  <2>1. x2 = IF n - 1 \in 0 .. (m - 1) THEN 1 ELSE 0
    BY <1>5, <1>6
  <2>2. n - 1 \in 0 .. (m - 1) <=> 1 <= n /\ n < o2
    BY <1>4
  <2> QED BY <2>1, <2>2
<1>8. PICK x3 : x3 = Cardinality({k \in BlocksRead : TableEntry(Cluster(0).refcount_table, k) = n})
  OBVIOUS
<1>9. x3 = IF o2 <= n /\ n < o3 THEN 1 ELSE 0
  <2>1. /\ BlocksRead = 0 .. (b - 1)
        /\ \A k \in 0 .. (b - 1) : TableEntry(Cluster(0).refcount_table, k) = o2 + k
    BY <1>2, <1>3, BlocksAre
  <2>2. PICK T : T = {k \in 0 .. (b - 1) : o2 + k = n}
    OBVIOUS
  <2>3. {k \in BlocksRead : TableEntry(Cluster(0).refcount_table, k) = n} = T
    BY <2>1, <2>2
  <2>4. Cardinality(T) = IF o2 <= n /\ n < o2 + b THEN 1 ELSE 0
    <3>1. b \in Nat /\ o2 \in Nat
      BY <1>4
    <3> QED BY <2>2, <3>1, PlacedOnceAll
  <2> QED BY <1>4, <1>8, <2>3, <2>4
<1>10. PICK x4 : x4 = IF n # 0 /\ n - Cluster(0).l1_table \in 0..(L1Tables - 1) THEN 1 ELSE 0
  OBVIOUS
<1>11. x4 = IF o3 <= n /\ n < o4 THEN 1 ELSE 0
  <2>1. CASE w = 0
    <3>1. L1Tables = 0
      BY <1>2, <2>1
    <3>2. x4 = 0
      BY <1>10, <3>1
    <3>3. ~(o3 <= n /\ n < o4)
      BY <1>4, <2>1
    <3> QED BY <3>2, <3>3
  <2>2. CASE w # 0
    <3>1. x4 = IF n # 0 /\ n - o3 \in 0 .. (w - 1) THEN 1 ELSE 0
      BY <1>2, <1>5, <1>10, <2>2
    <3>2. (n # 0 /\ n - o3 \in 0 .. (w - 1)) <=> (o3 <= n /\ n < o4)
      BY <1>4
    <3> QED BY <3>1, <3>2
  <2> QED BY <2>1, <2>2
<1>12. PICK x5 : x5 = Cardinality({k \in L1sRead : ImgL1(k) = n})
  OBVIOUS
<1>13. x5 = IF o4 <= n /\ n < o5 THEN 1 ELSE 0
  <2>1. L1sRead = l1_bitmap /\ \A k \in l1_bitmap : ImgL1(k) = o4 + Before(l1_bitmap, k)
    BY <1>3, L1sAre
  <2>2. PICK T : T = {k \in l1_bitmap : o4 + Before(l1_bitmap, k) = n}
    OBVIOUS
  <2>3. {k \in L1sRead : ImgL1(k) = n} = T
    BY <2>1, <2>2
  <2>4. Cardinality(T) = IF o4 <= n /\ n < o4 + Cardinality(l1_bitmap) THEN 1 ELSE 0
    BY <1>1, <1>4, <2>2, PlacedOnce
  <2> QED BY <1>2, <1>4, <1>12, <2>3, <2>4
<1>14. PICK x6 : x6 = Cardinality({k \in L2sRead : ImgL2(k) = n})
  OBVIOUS
<1>15. x6 = IF o5 <= n /\ n < o5 + d THEN 1 ELSE 0
  <2>1. CASE job.dataFile = "none"
    <3>1. L2sRead = l2_bitmap /\ \A k \in l2_bitmap : ImgL2(k) = o5 + Before(l2_bitmap, k)
      BY <1>3, <2>1, L2sAre
    <3>2. PICK T : T = {k \in l2_bitmap : o5 + Before(l2_bitmap, k) = n}
      OBVIOUS
    <3>3. {k \in L2sRead : ImgL2(k) = n} = T
      BY <3>1, <3>2
    <3>4. Cardinality(T) = IF o5 <= n /\ n < o5 + Cardinality(l2_bitmap) THEN 1 ELSE 0
      BY <1>1, <1>4, <3>2, PlacedOnce
    <3> QED BY <1>2, <1>14, <2>1, <3>3, <3>4
  <2>2. CASE job.dataFile # "none"
    <3>1. {k \in L2sRead : ImgL2(k) = n} = {}
      BY <2>2 DEF L2sRead
    <3>2. x6 = 0 /\ d = 0
      BY <1>2, <1>14, <2>2, <3>1, FS_EmptySet
    <3> QED BY <1>4, <3>2
  <2> QED BY <2>1, <2>2
<1>16. UsesRead(n) = (IF n = 0 THEN 1 ELSE 0) + x2 + x3 + x4 + x5 + x6
  BY <1>6, <1>8, <1>10, <1>12, <1>14 DEF UsesRead
<1> QED BY <1>4, <1>7, <1>9, <1>11, <1>13, <1>15, <1>16

\* And so does its refcount count it.
LEMMA RefcountsAre ==
  ASSUME Inv, ExactInv, Done, NEW n \in Nat
  PROVE  ImgRefcount(n) = IF n < Len(out) THEN 1 ELSE 0
<1>1. /\ LoopInv /\ ImageInv /\ CountsTrue /\ phase = "done" /\ phase \in HeaderDone /\ phase \in Writing
  BY DEF Inv, ImageInv, Done, HeaderDone, Writing
<1>2. PICK m, b, o, t : /\ m = allocated_refcount_tables /\ b = allocated_refcount_blocks
                        /\ o = RefcountBlockOffset /\ t = Len(out)
  OBVIOUS
<1>3. /\ m \in Nat /\ b \in Nat /\ o \in Nat /\ t \in Nat /\ t = total_allocated_clusters
      /\ EntriesPerTable \in Nat \ {0} /\ RefcountsPerBlock \in Nat \ {0}
  BY <1>1, <1>2, OffsetsAre, LengthIs, SizesAssumption DEF CountsTrue
<1>4. t <= b * RefcountsPerBlock /\ b <= m * EntriesPerTable
  BY <1>1, <1>2, <1>3 DEF ExactInv, CountsExact
<1>5. PICK q, r : q = Quotient(n, RefcountsPerBlock) /\ r = Remainder(n, RefcountsPerBlock)
  OBVIOUS
<1>6. q \in Nat /\ r \in 0 .. (RefcountsPerBlock - 1) /\ n = q * RefcountsPerBlock + r
  BY <1>3, <1>5, Division
<1>7. Cluster(0).refcount_tables = m
  BY <1>1, <1>2 DEF ImageInv, HeaderWritten
<1>8. PICK at : at = IF q < m * EntriesPerTable THEN TableEntry(Cluster(0).refcount_table, q) ELSE Unset
  OBVIOUS
<1>9. ImgRefcount(n) = IF at = Unset THEN 0 ELSE Cluster(at)[r + 1]
  BY <1>5, <1>7, <1>8 DEF ImgRefcount, Quotient, Remainder
<1>10. at = IF q < b THEN o + q ELSE Unset
  <2>1. PICK e : e = m * EntriesPerTable
    OBVIOUS
  <2>2. e \in Nat /\ b <= e
    BY <1>3, <1>4, <2>1, Multiples
  <2>3. CASE q < e
    <3>1. q \in EntriesOf(m)
      BY <1>6, <2>1, <2>2, <2>3 DEF EntriesOf
    <3>2. TableEntry(Cluster(0).refcount_table, q) = BlockValue(q)
      BY <1>2, <3>1, BlocksAre
    <3> QED BY <1>2, <1>8, <2>1, <2>3, <3>2 DEF BlockValue
  <2>4. CASE ~(q < e)
    <3>1. ~(q < b)
      BY <1>3, <1>6, <2>2, <2>4
    <3> QED BY <1>8, <2>1, <2>4, <3>1
  <2> QED BY <2>3, <2>4
<1>11. CASE q < b
  <2>1. at = o + q /\ at # Unset /\ q \in 0 .. (b - 1)
    BY <1>3, <1>6, <1>10, <1>11 DEF Unset
  <2>2. Cluster(o + q)[r + 1] = CountValue(q, r)
    BY <1>1, <1>2, <1>6, <2>1 DEF ImageInv, RefcountBlocksWritten
  <2>3. CountValue(q, r) = IF n < t THEN 1 ELSE 0
    BY <1>3, <1>6 DEF CountValue
  <2> QED BY <1>2, <1>9, <2>1, <2>2, <2>3
<1>12. CASE ~(q < b)
  <2>1. at = Unset
    BY <1>10, <1>12
  <2>2. PICK x, y : x = b * RefcountsPerBlock /\ y = q * RefcountsPerBlock
    OBVIOUS
  <2>3. x \in Nat /\ y \in Nat /\ x <= y
    <3>1. b <= q
      BY <1>3, <1>6, <1>12
    <3> QED BY <1>3, <1>6, <2>2, <3>1, Multiples
  <2>4. ~(n < t)
    BY <1>3, <1>4, <1>6, <2>2, <2>3
  <2> QED BY <1>2, <1>9, <2>1, <2>4
<1> QED BY <1>11, <1>12

\* The number of clusters is exact ("At this point we have the exact number of
\* clusters that the output image is going to use"): what the maps say being
\* true, and no disk lacking a cluster of its base, each cluster of the image
\* is referred to once and has the refcount 1, and no refcount is of a cluster
\* that is not there.
THEOREM RefcountsAreTrue ==
  ASSUME MapsTrue, MapsInside, NothingDiscarded
  PROVE  Spec => []RefcountsTrue
<1>1. Init => Inv /\ ExactInv
  BY InitIs, InitExact
<1>2. Inv /\ ExactInv /\ [Next]_vars => (Inv /\ ExactInv)'
  BY StepKeeps, StepKeepsExact
<1>3. Inv /\ ExactInv => RefcountsTrue
  <2> SUFFICES ASSUME Inv, ExactInv, Done
               PROVE  \A n \in ((0..Len(out)) \cup 0..(Cardinality(BlocksRead) * RefcountsPerBlock)) :
                         /\ ImgRefcount(n) = UsesRead(n)
                         /\ UsesRead(n) = IF n < Len(out) THEN 1 ELSE 0
    BY DEF RefcountsTrue, UsesRead, BlocksRead, L1sRead, L2sRead
  <2>1. Len(out) \in Nat
    BY LengthIs
  <2>2. PICK s : s = Cardinality(BlocksRead) * RefcountsPerBlock
    OBVIOUS
  <2>3. s \in Nat
    <3>1. PICK b : b = allocated_refcount_blocks
      OBVIOUS
    <3>2. b \in Nat
      BY <3>1 DEF Inv, ImageInv, CountsTrue
    <3>3. 0 \in Int /\ b - 1 \in Int
      BY <3>2
    <3>4. IsFiniteSet(0 .. (b - 1))
      BY <3>3, FS_Interval
    <3>5. BlocksRead = 0 .. (b - 1)
      BY <3>1, BlocksAre
    <3>6. Cardinality(BlocksRead) \in Nat
      BY <3>4, <3>5, FS_CardinalityType
    <3> QED BY <2>2, <3>6, Multiples, SizesAssumption
  <2>4. ASSUME NEW n \in ((0..Len(out)) \cup 0..s)
        PROVE  /\ ImgRefcount(n) = UsesRead(n)
               /\ UsesRead(n) = IF n < Len(out) THEN 1 ELSE 0
    <3>1. n \in Nat
      BY <2>1, <2>3
    <3> QED BY <3>1, UsesAre, RefcountsAre
  <2> QED BY <2>2, <2>4
<1> QED BY <1>1, <1>2, <1>3, PTL DEF Spec

\* "Will only export clusters that are different between the files": what the
\* maps say being true, and no disk lacking a cluster of its base, a cluster
\* that both disks have in full, and both maps list if there are maps, is left
\* out when it is the same in both.
THEOREM OnlyDifferencesExported ==
  ASSUME MapsTrue, MapsInside, NothingDiscarded
  PROVE  Spec => []OnlyDifferences
<1>1. Init => Inv /\ ExactInv
  BY InitIs, InitExact
<1>2. Inv /\ ExactInv /\ [Next]_vars => (Inv /\ ExactInv)'
  BY StepKeeps, StepKeepsExact
<1>3. Inv /\ ExactInv => OnlyDifferences
  <2> SUFFICES ASSUME Inv, ExactInv, Done, job.base # None, job.dataFile # "raw",
                      NEW idx \in GuestClusters, Same(idx)
               PROVE  ImgL2(idx) = Unset
    BY DEF OnlyDifferences, Same
  <2>1. LoopInv /\ ImageInv /\ CountsTrue /\ idx \notin l2_bitmap
    BY DEF Inv, ImageInv, ExactInv, LoopExact, BitmapsExact
  <2>2. idx \in EntriesOf(L1Entries)
    BY <2>1, GuestsAre
  <2> QED BY <2>1, <2>2, ReaderFinds
<1> QED BY <1>1, <1>2, <1>3, PTL DEF Spec
=============================================================================
