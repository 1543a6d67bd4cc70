---------------------------- MODULE CountingLemmas ----------------------------
(***************************************************************************)
(* How the number of places of a sequence or a function that hold a value  *)
(* of some set changes when one value comes, goes or changes.  The proofs  *)
(* about queues and lists of waiters count with these.  Then how induction *)
(* and recursion on the numbers follow from their being well founded, and  *)
(* the sum of a function over a finite set, and how it changes.            *)
(***************************************************************************)
EXTENDS Integers, Sequences, FiniteSets, SequencesExt, FiniteSetTheorems,
        SequenceTheorems, WellFoundedInduction, TLAPS

\* The places where f has a value of T.
Places(f, T) == {i \in DOMAIN f : f[i] \in T}

\* What is one place more, and one less.
Unit(b) == IF b THEN 1 ELSE 0

-----------------------------------------------------------------------------
(* Sequences.                                                              *)

\* The places of a sequence are finitely many, at most its length.
LEMMA PlacesFinite ==
    ASSUME NEW S, NEW s \in Seq(S), NEW T
    PROVE  /\ IsFiniteSet(Places(s, T))
           /\ Cardinality(Places(s, T)) \in Nat
           /\ Cardinality(Places(s, T)) <= Len(s)
<1>1. DOMAIN s = 1 .. Len(s) /\ Len(s) \in Nat OBVIOUS
<1>2. 1 \in Int /\ Len(s) \in Int BY <1>1
<1>3. IsFiniteSet(1 .. Len(s))
      /\ Cardinality(1 .. Len(s)) = IF 1 > Len(s) THEN 0 ELSE Len(s) - 1 + 1
  BY <1>2, FS_Interval
<1>4. Cardinality(1 .. Len(s)) = Len(s) BY <1>1, <1>3
<1>5. Places(s, T) \in SUBSET (1 .. Len(s)) BY <1>1 DEF Places
<1>6. /\ IsFiniteSet(Places(s, T))
      /\ Cardinality(Places(s, T)) <= Cardinality(1 .. Len(s))
  BY <1>3, <1>5, FS_Subset
<1> QED BY <1>4, <1>6, FS_CardinalityType

\* A sequence that ends in one more value.
LEMMA PlacesAppend ==
    ASSUME NEW S, NEW s \in Seq(S), NEW r \in Seq(S), NEW T,
           Len(r) = Len(s) + 1,
           \A i \in 1 .. Len(s) : r[i] = s[i]
    PROVE  Cardinality(Places(r, T)) =
               Cardinality(Places(s, T)) + Unit(r[Len(r)] \in T)
<1> DEFINE n == Len(s) + 1
<1>1. /\ Len(s) \in Nat /\ DOMAIN s = 1 .. Len(s)
      /\ DOMAIN r = 1 .. n /\ Len(r) = n
      /\ \A i \in DOMAIN s : r[i] = s[i]
  OBVIOUS
<1>2. DOMAIN r = DOMAIN s \cup {n} /\ n \notin DOMAIN s BY <1>1
<1>3. IsFiniteSet(Places(s, T)) /\ Cardinality(Places(s, T)) \in Nat
  BY PlacesFinite
<1> HIDE DEF n
<1>4. CASE r[n] \in T
  <2>1. Places(r, T) = Places(s, T) \cup {n} BY <1>1, <1>2, <1>4 DEF Places
  <2>2. n \notin Places(s, T) BY <1>2 DEF Places
  <2>3. Cardinality(Places(s, T) \cup {n}) = Cardinality(Places(s, T)) + 1
    BY <1>3, <2>2, FS_AddElement
  <2> QED BY <1>1, <1>4, <2>1, <2>3 DEF Unit
<1>5. CASE r[n] \notin T
  <2>1. Places(r, T) = Places(s, T) BY <1>1, <1>2, <1>5 DEF Places
  <2> QED BY <1>1, <1>3, <1>5, <2>1 DEF Unit
<1> QED BY <1>4, <1>5

\* A sequence that lost its k-th value, whatever operator took it out.
LEMMA PlacesRemove ==
    ASSUME NEW S, NEW s \in Seq(S), NEW r \in Seq(S), NEW k \in DOMAIN s, NEW T,
           Len(r) = Len(s) - 1,
           \A j \in 1 .. Len(r) : r[j] = IF j < k THEN s[j] ELSE s[j + 1]
    PROVE  Cardinality(Places(r, T)) = Cardinality(Places(s, T)) - Unit(s[k] \in T)
<1> DEFINE A == Places(s, T) \ {k}
           B == Places(r, T)
           f == [i \in A |-> IF i < k THEN i ELSE i - 1]
<1>1. /\ Len(s) \in Nat /\ Len(r) \in Nat
      /\ DOMAIN s = 1 .. Len(s) /\ DOMAIN r = 1 .. Len(r)
      /\ k \in 1 .. Len(s)
  OBVIOUS
<1>2. IsFiniteSet(Places(s, T)) /\ Cardinality(Places(s, T)) \in Nat
  BY PlacesFinite
<1>3. IsFiniteSet(A) /\ Cardinality(A) = Cardinality(Places(s, T)) - Unit(s[k] \in T)
  <2>1. k \in Places(s, T) <=> s[k] \in T BY DEF Places
  <2> QED BY <1>2, <2>1, FS_RemoveElement DEF Unit
<1>4. f \in Bijection(A, B)
  <2>1. ASSUME NEW i \in A PROVE f[i] \in B
    <3>1. i \in 1 .. Len(s) /\ i # k /\ s[i] \in T BY <1>1 DEF Places
    <3>2. CASE i < k
      <4>1. i \in 1 .. Len(r) /\ r[i] = s[i] BY <1>1, <3>1, <3>2
      <4> QED BY <1>1, <3>1, <3>2, <4>1 DEF Places
    <3>3. CASE i > k
      <4>1. i - 1 \in 1 .. Len(r) /\ ~(i - 1 < k) /\ (i - 1) + 1 = i
        BY <1>1, <3>1, <3>3
      <4>2. r[i - 1] = s[i] BY <4>1
      <4> QED BY <1>1, <3>1, <3>3, <4>1, <4>2 DEF Places
    <3> QED BY <1>1, <3>1, <3>2, <3>3
  <2>2. f \in [A -> B] BY <2>1
  <2>3. ASSUME NEW i \in A, NEW j \in A, f[i] = f[j] PROVE i = j
    <3>1. i \in Nat /\ j \in Nat /\ i # k /\ j # k /\ k \in Nat
      BY <1>1 DEF Places
    <3> QED BY <2>3, <3>1
  <2>4. ASSUME NEW j \in B PROVE \E i \in A : f[i] = j
    <3>1. j \in 1 .. Len(r) /\ r[j] \in T BY <1>1 DEF Places
    <3>2. CASE j < k
      <4>1. j \in 1 .. Len(s) /\ s[j] \in T /\ j # k BY <1>1, <3>1, <3>2
      <4>2. j \in A BY <1>1, <4>1 DEF Places
      <4> QED BY <3>2, <4>2
    <3>3. CASE ~(j < k)
      <4>1. j + 1 \in 1 .. Len(s) /\ s[j + 1] \in T /\ j + 1 # k /\ ~(j + 1 < k)
        BY <1>1, <3>1, <3>3
      <4>2. j + 1 \in A BY <1>1, <4>1 DEF Places
      <4>3. f[j + 1] = j BY <3>1, <4>1, <4>2
      <4> QED BY <4>2, <4>3
    <3> QED BY <3>2, <3>3
  <2> HIDE DEF f, A, B
  <2>5. f \in Injection(A, B) BY <2>2, <2>3 DEF Injection, IsInjective
  <2>6. f \in Surjection(A, B) BY <2>2, <2>4 DEF Surjection
  <2> QED BY <2>5, <2>6 DEF Bijection
<1>5. ExistsBijection(A, B) BY <1>4 DEF ExistsBijection
<1> HIDE DEF A, B, f
<1>6. Cardinality(B) = Cardinality(A) BY <1>3, <1>5, FS_Bijection
<1> QED BY <1>3, <1>6 DEF B

\* A sequence that lost its head.
LEMMA PlacesTail ==
    ASSUME NEW S, NEW s \in Seq(S), s # <<>>, NEW T
    PROVE  /\ Tail(s) \in Seq(S) /\ Len(Tail(s)) = Len(s) - 1
           /\ Head(s) = s[1] /\ 1 \in DOMAIN s /\ Head(s) \in S
           /\ \A j \in 1 .. Len(Tail(s)) : Tail(s)[j] = s[j + 1]
           /\ Cardinality(Places(Tail(s), T)) =
                  Cardinality(Places(s, T)) - Unit(Head(s) \in T)
<1>1. /\ Tail(s) \in Seq(S) /\ Len(Tail(s)) = Len(s) - 1
      /\ Head(s) = s[1] /\ Len(s) \in Nat /\ Len(s) >= 1
      /\ \A j \in 1 .. Len(Tail(s)) : Tail(s)[j] = s[j + 1]
  BY HeadTailProperties, EmptySeq
<1>2. 1 \in DOMAIN s /\ Head(s) \in S BY <1>1
<1> DEFINE r == Tail(s)
           k == 1
<1>3. /\ r \in Seq(S) /\ Len(r) = Len(s) - 1 /\ k \in DOMAIN s
      /\ \A j \in 1 .. Len(r) : r[j] = IF j < k THEN s[j] ELSE s[j + 1]
  BY <1>1, <1>2
<1> HIDE DEF r, k
<1>4. Cardinality(Places(r, T)) = Cardinality(Places(s, T)) - Unit(s[k] \in T)
  BY <1>3, PlacesRemove
<1> QED BY <1>1, <1>2, <1>4 DEF r, k

-----------------------------------------------------------------------------
(* Taking a value out of a sequence.                                       *)

\* A set of naturals has a least element.
LEMMA LeastElement ==
    ASSUME NEW T \in SUBSET Nat, T # {}
    PROVE  \E x \in T : \A y \in T : x <= y
<1>1. PICK x \in T : \A y \in T : <<y, x>> \notin OpToRel(<, Nat)
  BY NatLessThanWellFounded, WFMin
<1>2. ASSUME NEW y \in T PROVE x <= y
  <2>1. ~(y < x) BY <1>1 DEF OpToRel
  <2> QED BY <2>1
<1> QED BY <1>2

\* The least number of a set is in it.
LEMMA MinIsIn ==
    ASSUME NEW T \in SUBSET Nat, T # {}
    PROVE  Min(T) \in T
BY LeastElement DEF Min

\* What is left of a sequence without its k-th value.
LEMMA RemoveAtIs ==
    ASSUME NEW S, NEW s \in Seq(S), NEW k \in DOMAIN s
    PROVE  /\ RemoveAt(s, k) \in Seq(S)
           /\ Len(RemoveAt(s, k)) = Len(s) - 1
           /\ \A j \in 1 .. Len(RemoveAt(s, k)) :
                 RemoveAt(s, k)[j] = IF j < k THEN s[j] ELSE s[j + 1]
<1> DEFINE n == Len(s)
           a == SubSeq(s, 1, k - 1)
           b == SubSeq(s, k + 1, n)
<1>1. n \in Nat /\ DOMAIN s = 1 .. n /\ k \in 1 .. n /\ k \in Nat OBVIOUS
<1>2. \A i \in 1 .. n : s[i] \in S BY ElementOfSeq
<1>3. /\ a \in Seq(S) /\ Len(a) = k - 1
      /\ \A i \in 1 .. (k - 1) : a[i] = s[i]
  <2>1. 1 \in Int /\ k - 1 \in Int /\ \A i \in 1 .. (k - 1) : s[i] \in S
    BY <1>1, <1>2
  <2>2. /\ a \in Seq(S)
        /\ Len(a) = IF 1 <= k - 1 THEN k - 1 - 1 + 1 ELSE 0
        /\ \A i \in 1 .. (k - 1 - 1 + 1) : a[i] = s[1 + i - 1]
    BY <2>1, SubSeqProperties
  <2> HIDE DEF a
  <2> QED BY <1>1, <2>2
<1>4. /\ b \in Seq(S) /\ Len(b) = n - k
      /\ \A i \in 1 .. (n - k) : b[i] = s[k + i]
  <2>1. k + 1 \in Int /\ n \in Int /\ \A i \in (k + 1) .. n : s[i] \in S
    BY <1>1, <1>2
  <2>2. /\ b \in Seq(S)
        /\ Len(b) = IF k + 1 <= n THEN n - (k + 1) + 1 ELSE 0
        /\ \A i \in 1 .. (n - (k + 1) + 1) : b[i] = s[k + 1 + i - 1]
    BY <2>1, SubSeqProperties
  <2> HIDE DEF b, n
  <2>3. Len(b) = n - k BY <1>1, <2>2
  <2>4. ASSUME NEW i \in 1 .. (n - k) PROVE b[i] = s[k + i]
    <3>1. i \in 1 .. (n - (k + 1) + 1) /\ k + 1 + i - 1 = k + i BY <1>1
    <3> QED BY <2>2, <3>1
  <2> QED BY <2>2, <2>3, <2>4
<1>5. RemoveAt(s, k) = a \o b BY DEF RemoveAt
<1> HIDE DEF a, b, n
<1>6. /\ a \o b \in Seq(S)
      /\ Len(a \o b) = Len(a) + Len(b)
      /\ \A i \in 1 .. Len(a) + Len(b) :
            (a \o b)[i] = IF i <= Len(a) THEN a[i] ELSE b[i - Len(a)]
  BY <1>3, <1>4, ConcatProperties
<1>7. ASSUME NEW j \in 1 .. (n - 1)
      PROVE  (a \o b)[j] = IF j < k THEN s[j] ELSE s[j + 1]
  <2>1. (a \o b)[j] = IF j <= k - 1 THEN a[j] ELSE b[j - (k - 1)]
    BY <1>1, <1>3, <1>4, <1>6
  <2>2. CASE j < k BY <1>1, <1>3, <2>1, <2>2
  <2>3. CASE ~(j < k)
    <3>1. j - (k - 1) \in 1 .. (n - k) /\ k + (j - (k - 1)) = j + 1
      BY <1>1, <2>3
    <3>2. b[j - (k - 1)] = s[j + 1] BY <1>4, <3>1
    <3> QED BY <1>1, <2>1, <2>3, <3>2
  <2> QED BY <2>2, <2>3
<1>8. Len(a \o b) = n - 1 BY <1>1, <1>3, <1>4, <1>6
<1> QED BY <1>5, <1>6, <1>7, <1>8 DEF n

\* A value is taken out at a place where it stands, if it stands anywhere.
LEMMA RemoveFirstIs ==
    ASSUME NEW S, NEW s \in Seq(S), NEW e
    PROVE  \/ \E k \in DOMAIN s : s[k] = e /\ RemoveFirst(s, e) = RemoveAt(s, k)
           \/ (\A k \in DOMAIN s : s[k] # e) /\ RemoveFirst(s, e) = s
<1> DEFINE I == {i \in 1 .. Len(s) : s[i] = e}
<1>1. DOMAIN s = 1 .. Len(s) /\ Len(s) \in Nat OBVIOUS
<1>2. CASE I = {} BY <1>1, <1>2 DEF RemoveFirst
<1>3. CASE I # {}
  <2>1. Min(I) \in I
    <3>1. I \in SUBSET Nat BY <1>1
    <3> HIDE DEF I
    <3> QED BY <1>3, <3>1, MinIsIn
  <2>2. SelectInSeq(s, LAMBDA v : v = e) = Min(I) BY <1>3 DEF SelectInSeq
  <2>3. RemoveFirst(s, e) = RemoveAt(s, Min(I)) BY <1>3, <2>2 DEF RemoveFirst
  <2> QED BY <1>1, <2>1, <2>3
<1> QED BY <1>2, <1>3

-----------------------------------------------------------------------------
(* The values of a sequence.                                               *)

\* A sequence that ends in one more value.
LEMMA ToSetAppend ==
    ASSUME NEW S, NEW s \in Seq(S), NEW r \in Seq(S),
           Len(r) = Len(s) + 1,
           \A i \in 1 .. Len(s) : r[i] = s[i],
           NEW e, r[Len(s) + 1] = e
    PROVE  ToSet(r) = ToSet(s) \cup {e}
<1> DEFINE n == Len(s) + 1
<1>1. /\ DOMAIN s = 1 .. Len(s) /\ DOMAIN r = 1 .. n /\ r[n] = e
      /\ Len(s) \in Nat
  OBVIOUS
<1>2. DOMAIN r = DOMAIN s \cup {n} /\ n \notin DOMAIN s BY <1>1
<1>3. \A i \in DOMAIN s : r[i] = s[i] BY <1>1
<1> HIDE DEF n
<1> QED BY <1>1, <1>2, <1>3 DEF ToSet

\* It has no value twice, if the new value is new.
LEMMA InjectiveAppend ==
    ASSUME NEW S, NEW s \in Seq(S), NEW r \in Seq(S),
           Len(r) = Len(s) + 1,
           \A i \in 1 .. Len(s) : r[i] = s[i],
           NEW e, r[Len(s) + 1] = e, e \notin ToSet(s), IsInjective(s)
    PROVE  IsInjective(r)
<1> DEFINE n == Len(s) + 1
<1>1. /\ DOMAIN s = 1 .. Len(s) /\ DOMAIN r = 1 .. n /\ r[n] = e
      /\ Len(s) \in Nat
  OBVIOUS
<1>2. DOMAIN r = DOMAIN s \cup {n} /\ n \notin DOMAIN s BY <1>1
<1>3. \A i \in DOMAIN s : r[i] = s[i] BY <1>1
<1> HIDE DEF n
<1> QED BY <1>1, <1>2, <1>3 DEF IsInjective, ToSet

\* A sequence that lost its k-th value has lost it for good, if it had no value
\* twice.
LEMMA InjectiveRemove ==
    ASSUME NEW S, NEW s \in Seq(S), NEW r \in Seq(S), NEW k \in DOMAIN s,
           Len(r) = Len(s) - 1,
           \A j \in 1 .. Len(r) : r[j] = IF j < k THEN s[j] ELSE s[j + 1],
           IsInjective(s)
    PROVE  IsInjective(r) /\ ToSet(r) = ToSet(s) \ {s[k]}
<1> DEFINE up == [j \in DOMAIN r |-> IF j < k THEN j ELSE j + 1]
<1>1. /\ Len(s) \in Nat /\ Len(r) \in Nat
      /\ DOMAIN s = 1 .. Len(s) /\ DOMAIN r = 1 .. Len(r)
      /\ k \in 1 .. Len(s) /\ k \in Nat
  OBVIOUS
<1>2. ASSUME NEW j \in DOMAIN r
      PROVE  up[j] \in DOMAIN s \ {k} /\ r[j] = s[up[j]]
  <2>1. j \in 1 .. Len(r) /\ j \in Nat BY <1>1
  <2>2. CASE j < k BY <1>1, <2>1, <2>2
  <2>3. CASE ~(j < k) BY <1>1, <2>1, <2>3
  <2> QED BY <2>2, <2>3
<1>3. ASSUME NEW i \in DOMAIN s \ {k}
      PROVE  \E j \in DOMAIN r : up[j] = i
  <2>1. i \in 1 .. Len(s) /\ i \in Nat /\ i # k BY <1>1
  <2>2. CASE i < k
    <3>1. i \in DOMAIN r BY <1>1, <2>1, <2>2
    <3> QED BY <2>2, <3>1
  <2>3. CASE i > k
    <3>1. i - 1 \in DOMAIN r /\ ~(i - 1 < k) /\ i - 1 + 1 = i
      BY <1>1, <2>1, <2>3
    <3> QED BY <3>1
  <2> QED BY <1>1, <2>1, <2>2, <2>3
<1>4. ASSUME NEW i \in DOMAIN r, NEW j \in DOMAIN r, up[i] = up[j] PROVE i = j
  <2>1. i \in Nat /\ j \in Nat BY <1>1
  <2> QED BY <1>1, <1>4, <2>1
<1> HIDE DEF up
<1>5. ToSet(s) = ToSet(r) \cup {s[k]} BY <1>2, <1>3 DEF ToSet
<1>6. IsInjective(r)
  BY <1>2, <1>4 DEF IsInjective
<1>7. s[k] \notin ToSet(r)
  BY <1>2 DEF IsInjective, ToSet
<1> QED BY <1>5, <1>6, <1>7

-----------------------------------------------------------------------------
(* Functions on a finite set.                                              *)

\* The value of x changes.
LEMMA PlacesExcept ==
    ASSUME NEW D, IsFiniteSet(D), NEW f, DOMAIN f = D, NEW g, DOMAIN g = D,
           NEW x \in D, \A y \in D : y # x => g[y] = f[y], NEW T
    PROVE  /\ Cardinality(Places(f, T)) \in Nat
           /\ Cardinality(Places(g, T)) =
                  Cardinality(Places(f, T)) - Unit(f[x] \in T) + Unit(g[x] \in T)
<1> DEFINE A == Places(f, T) \ {x}
<1>1. DOMAIN f = D /\ DOMAIN g = D
  OBVIOUS
<1>2. Places(f, T) \in SUBSET D BY <1>1 DEF Places
<1>3. IsFiniteSet(Places(f, T)) /\ Cardinality(Places(f, T)) \in Nat
  BY <1>2, FS_Subset, FS_CardinalityType
<1>4. IsFiniteSet(A) /\ Cardinality(A) = Cardinality(Places(f, T)) - Unit(f[x] \in T)
  <2>1. x \in Places(f, T) <=> f[x] \in T BY <1>1 DEF Places
  <2> QED BY <1>3, <2>1, FS_RemoveElement DEF Unit
<1>5. Cardinality(A) \in Nat BY <1>4, FS_CardinalityType
<1>6. CASE g[x] \in T
  <2>1. Places(g, T) = A \cup {x} BY <1>1, <1>6 DEF Places
  <2>2. Cardinality(A \cup {x}) = Cardinality(A) + 1
    BY <1>4, FS_AddElement
  <2> QED BY <1>3, <1>4, <1>6, <2>1, <2>2 DEF Unit
<1>7. CASE g[x] \notin T
  <2>1. Places(g, T) = A BY <1>1, <1>7 DEF Places
  <2>2. Unit(g[x] \in T) = 0 BY <1>7 DEF Unit
  <2>3. Cardinality(Places(g, T)) = Cardinality(Places(f, T)) - Unit(f[x] \in T)
    BY <1>4, <2>1
  <2>4. Unit(f[x] \in T) \in Nat BY DEF Unit
  <2> HIDE DEF A
  <2> QED BY <1>3, <2>2, <2>3, <2>4
<1> QED BY <1>3, <1>6, <1>7

-----------------------------------------------------------------------------
(* Induction and recursion on the numbers.                                 *)

\* A set of numbers has a least one: what holds of a number when it holds of
\* the smaller ones holds of all, for no number can be the least exception.
LEMMA LeastNumber ==
    ASSUME NEW T, T \subseteq Nat, T # {}
    PROVE  \E n \in T : \A m \in T : n <= m
<1>1. PICK n \in T : \A m \in T : <<m, n>> \notin OpToRel(<, Nat)
  BY NatLessThanWellFounded, WFMin
<1>2. \A m \in T : ~(m < n) BY <1>1 DEF OpToRel
<1> QED BY <1>2

\* f is defined by its value for 0 and a step.
Recursive(f, a, next) == f[0] = a /\ \A n \in Nat : f[n + 1] = next[<<n, f[n]>>]

\* There is a function for every first value and step.
LEMMA RecursiveFunction ==
    ASSUME NEW S, NEW a \in S, NEW next \in [Nat \X S -> S]
    PROVE  \E f \in [Nat -> S] : Recursive(f, a, next)
<1> DEFINE Starts(h, n) == /\ h \in [0 .. n -> S] /\ h[0] = a
                           /\ \A i \in 0 .. n : i < n => h[i + 1] = next[<<i, h[i]>>]
<1>1. ASSUME NEW n \in Nat PROVE \E h : Starts(h, n)
  <2> DEFINE Bad == {m \in Nat : ~\E h : Starts(h, m)}
  <2>1. SUFFICES ASSUME Bad # {} PROVE FALSE
    OBVIOUS
  <2>2. PICK m \in Bad : \A k \in Bad : m <= k BY <2>1, LeastNumber
  <2>3. CASE m = 0
    <3>1. Starts([i \in 0 .. 0 |-> a], 0) OBVIOUS
    <3> QED BY <2>2, <2>3, <3>1
  <2>4. CASE m # 0
    <3>1. m \in Nat /\ m - 1 \in Nat /\ m - 1 + 1 = m BY <2>2, <2>4
    <3> HIDE DEF Bad
    <3>2. m - 1 \notin Bad BY <2>2, <3>1
    <3> USE DEF Bad
    <3>3. PICK h : Starts(h, m - 1) BY <3>1, <3>2
    <3> DEFINE longer == [i \in 0 .. m |-> IF i = m THEN next[<<m - 1, h[m - 1]>>] ELSE h[i]]
    <3>4. h[m - 1] \in S /\ next[<<m - 1, h[m - 1]>>] \in S BY <3>1, <3>3
    <3>5. longer \in [0 .. m -> S] BY <3>1, <3>3, <3>4
    <3>6. longer[0] = a BY <3>1, <3>3
    <3>7. ASSUME NEW i \in 0 .. m, i < m
          PROVE  longer[i + 1] = next[<<i, longer[i]>>]
      <4>1. i \in 0 .. (m - 1) /\ longer[i] = h[i] BY <3>1, <3>7
      <4>2. CASE i = m - 1 BY <3>1, <4>1, <4>2
      <4>3. CASE i < m - 1
        <5>1. h[i + 1] = next[<<i, h[i]>>] BY <3>3, <4>1, <4>3
        <5>2. longer[i + 1] = h[i + 1] BY <3>1, <4>1, <4>3
        <5> QED BY <4>1, <5>1, <5>2
      <4> QED BY <3>1, <4>1, <4>2, <4>3
    <3> HIDE DEF longer
    <3>8. Starts(longer, m) BY <3>5, <3>6, <3>7
    <3> QED BY <2>2, <3>8
  <2> QED BY <2>3, <2>4
<1>2. ASSUME NEW n \in Nat, NEW m \in Nat, NEW h, NEW g, Starts(h, n), Starts(g, m),
             NEW i \in Nat, i <= n, i <= m
      PROVE  h[i] = g[i]
  <2> DEFINE Bad == {k \in Nat : k <= n /\ k <= m /\ h[k] # g[k]}
  <2>1. SUFFICES ASSUME Bad # {} PROVE FALSE
    BY <1>2
  <2>2. PICK k \in Bad : \A j \in Bad : k <= j BY <2>1, LeastNumber
  <2>3. k # 0 BY <1>2, <2>2
  <2>4. k - 1 \in 0 .. n /\ k - 1 \in 0 .. m /\ k - 1 < n /\ k - 1 < m /\ k - 1 + 1 = k
    BY <2>2, <2>3
  <2>5. h[k - 1] = g[k - 1] BY <2>2, <2>4
  <2>6. h[k] = next[<<k - 1, h[k - 1]>>] /\ g[k] = next[<<k - 1, g[k - 1]>>] BY <1>2, <2>4
  <2> QED BY <2>2, <2>5, <2>6
<1> DEFINE Start(n) == CHOOSE h : Starts(h, n)
           f == [n \in Nat |-> Start(n)[n]]
<1>3. ASSUME NEW n \in Nat PROVE Starts(Start(n), n) BY <1>1
<1>4. ASSUME NEW n \in Nat
      PROVE  f[n] \in S /\ f[n + 1] = next[<<n, f[n]>>]
  <2>1. n + 1 \in Nat /\ n \in 0 .. (n + 1) /\ n < n + 1 /\ n <= n OBVIOUS
  <2>2. Starts(Start(n), n) /\ Starts(Start(n + 1), n + 1) BY <1>3, <2>1
  <2> HIDE DEF Start
  <2>3. Start(n + 1)[n] = Start(n)[n]
    <3> HIDE DEF Starts
    <3> QED BY <1>2, <2>1, <2>2
  <2>4. Start(n + 1)[n + 1] = next[<<n, Start(n + 1)[n]>>] BY <2>1, <2>2
  <2>5. Start(n)[n] \in S BY <2>2
  <2> QED BY <2>1, <2>3, <2>4, <2>5
<1>5. f[0] = a
  <2>1. Starts(Start(0), 0) BY <1>3
  <2> HIDE DEF Start
  <2> QED BY <2>1
<1>6. f \in [Nat -> S] BY <1>4
<1> HIDE DEF f
<1> QED BY <1>4, <1>5, <1>6 DEF Recursive

-----------------------------------------------------------------------------
(* Sequences of sequences, one after the other.                            *)

\* The indices of a longer sequence that have some property.
LEMMA IndicesMore ==
    ASSUME NEW n \in Nat, NEW A, A \subseteq 1 .. n, NEW B, B \subseteq 1 .. n + 1,
           \A i \in 1 .. n : i \in B <=> i \in A
    PROVE  /\ Cardinality(A) \in Nat
           /\ Cardinality(B) = Cardinality(A) + Unit(n + 1 \in B)
<1>1. IsFiniteSet(1 .. n)
  <2>1. 1 \in Int /\ n \in Int OBVIOUS
  <2> QED BY <2>1, FS_Interval
<1>2. IsFiniteSet(A) /\ Cardinality(A) \in Nat
  BY <1>1, FS_Subset, FS_CardinalityType
<1>3. n + 1 \notin 1 .. n /\ \A i \in 1 .. n + 1 : i = n + 1 \/ i \in 1 .. n
  OBVIOUS
<1>4. n + 1 \notin A /\ \A i \in B : i = n + 1 \/ i \in A BY <1>3
<1>5. A \subseteq B OBVIOUS
<1>6. CASE n + 1 \in B
  <2>1. B = A \cup {n + 1} /\ n + 1 \notin A BY <1>6, <1>4, <1>5
  <2>2. Cardinality(A \cup {n + 1}) = Cardinality(A) + 1 BY <1>2, <2>1, FS_AddElement
  <2> QED BY <1>2, <1>6, <2>1, <2>2 DEF Unit
<1>7. CASE n + 1 \notin B
  <2>1. B = A BY <1>7, <1>4, <1>5
  <2> QED BY <1>2, <1>7, <2>1 DEF Unit
<1> QED BY <1>6, <1>7

\* f flattens longer and longer parts of s.
Flattens(f, s) ==
    f = [i \in 1 .. Len(s) |-> IF i = 1 THEN s[i] ELSE f[i - 1] \o s[i]]

\* s and r have the first n values in common.
Alike(s, r, n) == \A i \in 1 .. n : s[i] = r[i]

\* What two sequences have in common is flattened alike.
LEMMA FlattensAgree ==
    ASSUME NEW S, NEW s \in Seq(Seq(S)), NEW r \in Seq(Seq(S)),
           NEW n \in Nat, n <= Len(s), n <= Len(r), Alike(s, r, n),
           NEW f, Flattens(f, s), NEW g, Flattens(g, r)
    PROVE  Alike(f, g, n)
<1> USE DEF Alike
<1> DEFINE Bad == {i \in 1 .. n : f[i] # g[i]}
<1>1. SUFFICES ASSUME Bad # {} PROVE FALSE
  OBVIOUS
<1>2. PICK k \in Bad : \A j \in Bad : k <= j
  <2>1. Bad \subseteq Nat OBVIOUS
  <2> HIDE DEF Bad
  <2> QED BY <1>1, <2>1, LeastNumber
<1>3. k \in 1 .. n /\ f[k] # g[k] /\ s[k] = r[k] BY <1>2
<1>4. k \in 1 .. Len(s) /\ k \in 1 .. Len(r) BY <1>3
<1>5. /\ f[k] = IF k = 1 THEN s[k] ELSE f[k - 1] \o s[k]
      /\ g[k] = IF k = 1 THEN r[k] ELSE g[k - 1] \o r[k]
  BY <1>4 DEF Flattens
<1>6. k # 1 BY <1>3, <1>5
<1>7. k - 1 \in 1 .. n /\ k - 1 < k BY <1>3, <1>6
<1>8. f[k - 1] = g[k - 1]
  <2>1. k - 1 \notin Bad
    <3>1. k \in Int BY <1>3
    <3> HIDE DEF Bad
    <3> QED BY <1>2, <1>7, <3>1
  <2> QED BY <1>7, <2>1
<1> QED BY <1>3, <1>5, <1>6, <1>8

\* FlattenSeq goes through its sequence from the first to the last.
LEMMA FlattenSeqIs ==
    ASSUME NEW S, NEW s \in Seq(Seq(S)), s # <<>>
    PROVE  \E f : /\ Flattens(f, s) /\ f \in [1 .. Len(s) -> Seq(S)]
                  /\ FlattenSeq(s) = f[Len(s)]
<1> DEFINE n == Len(s)
<1>1. n \in Nat /\ n > 0 /\ DOMAIN s = 1 .. n /\ \A i \in 1 .. n : s[i] \in Seq(S)
  OBVIOUS
<1> DEFINE next == [p \in Nat \X Seq(S) |->
                       IF p[1] + 2 \in 1 .. n THEN p[2] \o s[p[1] + 2] ELSE p[2]]
<1>2. next \in [Nat \X Seq(S) -> Seq(S)]
  <2>1. ASSUME NEW p \in Nat \X Seq(S)
        PROVE  (IF p[1] + 2 \in 1 .. n THEN p[2] \o s[p[1] + 2] ELSE p[2]) \in Seq(S)
    BY <1>1
  <2> QED BY <2>1
<1>3. s[1] \in Seq(S) BY <1>1
<1>4. PICK g \in [Nat -> Seq(S)] : Recursive(g, s[1], next)
  <2> HIDE DEF next
  <2> QED BY <1>2, <1>3, RecursiveFunction
<1> DEFINE f == [i \in 1 .. n |-> g[i - 1]]
<1>5. Flattens(f, s)
  <2>1. ASSUME NEW i \in 1 .. n
        PROVE  f[i] = IF i = 1 THEN s[i] ELSE f[i - 1] \o s[i]
    <3>1. CASE i = 1 BY <1>4, <3>1 DEF Recursive
    <3>2. CASE i # 1
      <4>1. i - 2 \in Nat /\ (i - 2) + 1 = i - 1 /\ (i - 2) + 2 = i /\ i - 1 \in 1 .. n
        BY <1>1, <3>2
      <4>2. g[i - 1] = next[<<i - 2, g[i - 2]>>] BY <1>4, <4>1 DEF Recursive
      <4>3. next[<<i - 2, g[i - 2]>>] = g[i - 2] \o s[i] BY <4>1
      <4>4. f[i - 1] = g[i - 2] BY <4>1
      <4> QED BY <3>2, <4>2, <4>3, <4>4
    <3> QED BY <3>1, <3>2
  <2> QED BY <2>1 DEF Flattens
<1>6. f \in [1 .. n -> Seq(S)]
  <2>1. \A i \in 1 .. n : i - 1 \in Nat BY <1>1
  <2> QED BY <2>1
<1> HIDE DEF f
<1> DEFINE c == CHOOSE h : h = [i \in 1 .. Len(s) |-> IF i = 1 THEN s[i] ELSE h[i - 1] \o s[i]]
<1>7. Flattens(c, s) BY <1>5 DEF Flattens
<1>8. FlattenSeq(s) = c[n] BY <1>1 DEF FlattenSeq
<1>9. c \in [1 .. n -> Seq(S)]
  <2>1. DOMAIN c = 1 .. n /\ c = [i \in 1 .. n |-> c[i]]
    <3> HIDE DEF c
    <3> QED BY <1>7 DEF Flattens
  <2> HIDE DEF c
  <2>2. \A i \in 1 .. n : c[i] = f[i]
    <3>1. Alike(s, s, n) /\ n <= Len(s) BY DEF Alike
    <3> HIDE DEF n
    <3>2. Alike(c, f, n) BY <1>1, <1>5, <1>7, <3>1, FlattensAgree
    <3> QED BY <3>2 DEF Alike
  <2> QED BY <1>6, <2>1, <2>2
<1> HIDE DEF c
<1> QED BY <1>7, <1>8, <1>9

\* One sequence more.
LEMMA FlattenMore ==
    ASSUME NEW S, NEW s \in Seq(Seq(S)), NEW r \in Seq(Seq(S)),
           Len(r) = Len(s) + 1, \A i \in 1 .. Len(s) : r[i] = s[i]
    PROVE  FlattenSeq(s) \in Seq(S) /\ FlattenSeq(r) = FlattenSeq(s) \o r[Len(r)]
<1> DEFINE n == Len(s)
<1>1. n \in Nat /\ Len(r) = n + 1 /\ n + 1 \in 1 .. Len(r) /\ r[n + 1] \in Seq(S) /\ r # <<>>
  OBVIOUS
<1>2. PICK g : Flattens(g, r) /\ FlattenSeq(r) = g[n + 1]
  BY <1>1, FlattenSeqIs
<1>3. ASSUME NEW k \in 1 .. Len(r)
      PROVE  g[k] = IF k = 1 THEN r[k] ELSE g[k - 1] \o r[k]
  BY <1>2 DEF Flattens
<1>4. g[n + 1] = IF n + 1 = 1 THEN r[n + 1] ELSE g[n + 1 - 1] \o r[n + 1]
  BY <1>1, <1>3
<1>5. CASE n = 0
  <2>1. s = <<>> /\ FlattenSeq(s) = <<>> BY <1>5 DEF FlattenSeq
  <2>2. <<>> \o r[n + 1] = r[n + 1] BY <1>1, ConcatEmptySeq
  <2>3. g[n + 1] = r[n + 1] BY <1>4, <1>5
  <2>4. <<>> \in Seq(S) OBVIOUS
  <2> HIDE DEF n
  <2> QED BY <1>1, <1>2, <2>1, <2>2, <2>3, <2>4
<1>6. CASE n # 0
  <2>1. s # <<>> /\ n \in 1 .. n /\ n + 1 # 1 /\ n + 1 - 1 = n BY <1>1, <1>6
  <2>2. PICK f : Flattens(f, s) /\ f \in [1 .. n -> Seq(S)] /\ FlattenSeq(s) = f[n]
    BY <2>1, FlattenSeqIs
  <2>3. \A i \in 1 .. n : f[i] = g[i]
    <3>1. Alike(s, r, n) BY DEF Alike
    <3>2. n <= Len(s) /\ n <= Len(r) /\ Len(s) \in Nat /\ Len(r) \in Nat BY <1>1
    <3>3. Flattens(f, s) /\ Flattens(g, r) /\ n \in Nat BY <1>1, <1>2, <2>2
    <3> HIDE DEF n
    <3>4. Alike(f, g, n) BY <3>1, <3>2, <3>3, FlattensAgree
    <3> QED BY <3>4 DEF Alike
  <2> QED BY <1>1, <1>2, <1>4, <2>1, <2>2, <2>3
<1> QED BY <1>5, <1>6

\* Three sequences in a row, however they are put together.
Associate(a, b, c) == (a \o b) \o c = a \o (b \o c)

\* Concatenation is associative.
LEMMA ThreeInARow ==
    ASSUME NEW S, NEW a \in Seq(S), NEW b \in Seq(S), NEW c \in Seq(S)
    PROVE  Associate(a, b, c)
BY ConcatAssociative, SMT DEF Associate

\* The last sequence is longer.
LEMMA FlattenLonger ==
    ASSUME NEW S, NEW s \in Seq(Seq(S)), NEW r \in Seq(Seq(S)), NEW t \in Seq(S),
           s # <<>>, Len(r) = Len(s), \A i \in 1 .. Len(s) - 1 : r[i] = s[i],
           r[Len(s)] = s[Len(s)] \o t
    PROVE  FlattenSeq(r) = FlattenSeq(s) \o t
<1> DEFINE n == Len(s)
           p == [i \in 1 .. n - 1 |-> s[i]]
<1>1. /\ n \in Nat /\ n > 0 /\ n - 1 \in Nat
      /\ p \in Seq(Seq(S)) /\ Len(p) = n - 1 /\ s[n] \in Seq(S)
      /\ \A i \in 1 .. n - 1 : p[i] = s[i] /\ p[i] = r[i]
  OBVIOUS
<1> HIDE DEF p
<1>2. FlattenSeq(p) \in Seq(S) /\ FlattenSeq(s) = FlattenSeq(p) \o s[n]
  <2>1. Len(s) = Len(p) + 1 /\ \A i \in 1 .. Len(p) : s[i] = p[i]
    <3>1. Len(p) = n - 1 /\ n \in Nat BY <1>1
    <3>2. \A i \in 1 .. n - 1 : s[i] = p[i] BY <1>1
    <3>3. n - 1 + 1 = n BY <3>1
    <3> QED BY <3>1, <3>2, <3>3
  <2>2. FlattenSeq(p) \in Seq(S) /\ FlattenSeq(s) = FlattenSeq(p) \o s[Len(s)]
    BY <1>1, <2>1, FlattenMore
  <2> QED BY <2>2
<1>3. FlattenSeq(r) = FlattenSeq(p) \o r[n]
  <2>1. Len(r) = Len(p) + 1 /\ \A i \in 1 .. Len(p) : r[i] = p[i]
    <3>1. Len(p) = n - 1 /\ n \in Nat /\ Len(r) = n BY <1>1
    <3>2. \A i \in 1 .. n - 1 : r[i] = p[i] BY <1>1
    <3>3. n - 1 + 1 = n BY <3>1
    <3> QED BY <3>1, <3>2, <3>3
  <2>2. FlattenSeq(r) = FlattenSeq(p) \o r[Len(r)] BY <1>1, <2>1, FlattenMore
  <2> QED BY <2>2
<1>4. (FlattenSeq(p) \o s[n]) \o t = FlattenSeq(p) \o (s[n] \o t)
  <2>1. FlattenSeq(p) \in Seq(S) /\ s[n] \in Seq(S) /\ t \in Seq(S) BY <1>1, <1>2
  <2> HIDE DEF n
  <2>2. Associate(FlattenSeq(p), s[n], t) BY <2>1, ThreeInARow
  <2> QED BY <2>2, Zenon DEF Associate
<1> QED BY <1>2, <1>3, <1>4
-----------------------------------------------------------------------------
(* Sums over finite sets, in whatever order they are taken.                *)

\* Of sets of subsets of a finite set one has no other below it.
LEMMA SmallestSet ==
    ASSUME NEW S, IsFiniteSet(S), NEW B, B \subseteq SUBSET S, B # {}
    PROVE  \E s \in B : IsFiniteSet(s) /\ \A t \in B : t \subseteq s => t = s
<1> DEFINE Sizes == {Cardinality(s) : s \in B}
<1>1. \A s \in B : IsFiniteSet(s) /\ Cardinality(s) \in Nat
  BY FS_Subset, FS_CardinalityType
<1>2. Sizes \subseteq Nat /\ Sizes # {} BY <1>1
<1>3. PICK k \in Sizes : \A j \in Sizes : k <= j
  <2> HIDE DEF Sizes
  <2> QED BY <1>2, LeastNumber
<1>4. PICK s \in B : k = Cardinality(s) BY <1>3
<1>5. ASSUME NEW t \in B, t \subseteq s, t # s PROVE FALSE
  <2>1. Cardinality(t) < Cardinality(s)
    BY <1>1, <1>5, FS_Subset
  <2>2. Cardinality(s) <= Cardinality(t) BY <1>3, <1>4
  <2> QED BY <1>1, <2>1, <2>2
<1> QED BY <1>1, <1>5

\* The sum of the values of f on S, as the library folds it.
SumOn(f, S) == FoldFunctionOnSet(LAMBDA a, b : a + b, 0, f, S)

\* The element that the fold takes next, and the sums it makes on its way.
OneOf(s) == CHOOSE x \in s : TRUE
Sums(h, f, S) ==
    h = [s \in SUBSET S |-> IF s = {} THEN 0 ELSE f[OneOf(s)] + h[s \ {OneOf(s)}]]

\* Whole numbers have whole sums.
LEMMA SumsAreInt ==
    ASSUME NEW S, IsFiniteSet(S), NEW f, \A x \in S : f[x] \in Int,
           NEW h, Sums(h, f, S), NEW s \in SUBSET S
    PROVE  h[s] \in Int
<1> DEFINE B == {t \in SUBSET S : h[t] \notin Int}
<1>1. SUFFICES ASSUME B # {} PROVE FALSE
  OBVIOUS
<1>2. PICK t \in B : \A r \in B : r \subseteq t => r = t
  <2>1. B \subseteq SUBSET S OBVIOUS
  <2> HIDE DEF B
  <2> QED BY <1>1, <2>1, SmallestSet
<1>3. t \in SUBSET S /\ h[t] \notin Int BY <1>2
<1>4. h[t] = IF t = {} THEN 0 ELSE f[OneOf(t)] + h[t \ {OneOf(t)}] BY <1>3 DEF Sums
<1>5. t # {} BY <1>3, <1>4
<1>6. OneOf(t) \in t BY <1>5 DEF OneOf
<1>7. t \ {OneOf(t)} \in SUBSET S /\ t \ {OneOf(t)} \subseteq t /\ t \ {OneOf(t)} # t
  BY <1>3, <1>6
<1>8. h[t \ {OneOf(t)}] \in Int
  <2>1. t \ {OneOf(t)} \notin B
    <3> HIDE DEF B
    <3> QED BY <1>2, <1>7
  <2> QED BY <1>7, <2>1
<1>9. f[OneOf(t)] \in Int BY <1>3, <1>6
<1> QED BY <1>3, <1>4, <1>5, <1>8, <1>9

\* What the fold does not say, it makes sums for.
LEMMA SumsExist ==
    ASSUME NEW S, IsFiniteSet(S), NEW f, \A x \in S : f[x] \in Int
    PROVE  \E h : Sums(h, f, S)
<1> DEFINE V == [SUBSET S -> Int]
           zero == [s \in SUBSET S |-> 0]
           more(g) == [s \in SUBSET S |-> IF s = {} THEN 0 ELSE f[OneOf(s)] + g[s \ {OneOf(s)}]]
           next == [p \in Nat \X V |-> more(p[2])]
<1>1. \A s \in SUBSET S : s # {} => OneOf(s) \in s /\ f[OneOf(s)] \in Int /\ s \ {OneOf(s)} \in SUBSET S
  BY DEF OneOf
<1>2. \A g \in V : more(g) \in V BY <1>1
<1>3. next \in [Nat \X V -> V] /\ zero \in V
  <2> HIDE DEF more, V
  <2>1. zero \in V BY DEF V
  <2> QED BY <1>2, <2>1
<1>4. PICK g \in [Nat -> V] : Recursive(g, zero, next)
  <2> HIDE DEF next, zero, V
  <2> QED BY <1>3, RecursiveFunction
<1>5. ASSUME NEW k \in Nat PROVE g[k + 1] = more(g[k])
  <2>1. g[k] \in V BY <1>4
  <2>2. g[k + 1] = next[<<k, g[k]>>] BY <1>4 DEF Recursive
  <2> HIDE DEF more, V
  <2> QED BY <2>1, <2>2
<1> DEFINE h == [s \in SUBSET S |-> g[Cardinality(s)][s]]
<1>6. ASSUME NEW s \in SUBSET S
      PROVE  h[s] = IF s = {} THEN 0 ELSE f[OneOf(s)] + h[s \ {OneOf(s)}]
  <2>1. CASE s = {}
    <3>1. Cardinality(s) = 0 BY <2>1, FS_EmptySet
    <3>2. g[0] = zero BY <1>4 DEF Recursive
    <3> QED BY <2>1, <3>1, <3>2
  <2>2. CASE s # {}
    <3> DEFINE r == s \ {OneOf(s)}
    <3>1. OneOf(s) \in s /\ r \in SUBSET S BY <1>1, <2>2
    <3>2. IsFiniteSet(s) BY FS_Subset
    <3>3. Cardinality(s) = Cardinality(r) + 1 /\ Cardinality(r) \in Nat
      <4>1. IsFiniteSet(r) /\ Cardinality(r) = Cardinality(s) - 1
        BY <3>1, <3>2, FS_RemoveElement
      <4>2. Cardinality(r) \in Nat /\ Cardinality(s) \in Nat
        BY <3>2, <4>1, FS_CardinalityType
      <4> QED BY <4>1, <4>2
    <3>4. h[r] = g[Cardinality(r)][r] BY <3>1
    <3>5. h[s] = g[Cardinality(s)][s] OBVIOUS
    <3> HIDE DEF r, h
    <3>6. g[Cardinality(s)] = more(g[Cardinality(r)]) BY <1>5, <3>3
    <3>7. more(g[Cardinality(r)])[s] = f[OneOf(s)] + g[Cardinality(r)][s \ {OneOf(s)}]
      BY <2>2
    <3> QED BY <2>2, <3>4, <3>5, <3>6, <3>7 DEF r
  <2> QED BY <2>1, <2>2
<1>7. h = [s \in SUBSET S |-> h[s]] OBVIOUS
<1> HIDE DEF h
<1>8. Sums(h, f, S) BY <1>6, <1>7 DEF Sums
<1> QED BY <1>8

\* The library folds so.
LEMMA SumOnIs ==
    ASSUME NEW S, IsFiniteSet(S), NEW f, \A x \in S : f[x] \in Int
    PROVE  \E h : Sums(h, f, S) /\ SumOn(f, S) = h[S]
<1> DEFINE h == CHOOSE g : g = [s \in SUBSET S |-> IF s = {} THEN 0
                                ELSE f[CHOOSE x \in s : TRUE] + g[s \ {CHOOSE x \in s : TRUE}]]
<1>1. \E g : g = [s \in SUBSET S |-> IF s = {} THEN 0
                    ELSE f[CHOOSE x \in s : TRUE] + g[s \ {CHOOSE x \in s : TRUE}]]
  <2>1. PICK k : Sums(k, f, S) BY SumsExist
  <2>2. k = [s \in SUBSET S |-> IF s = {} THEN 0
                ELSE f[CHOOSE x \in s : TRUE] + k[s \ {CHOOSE x \in s : TRUE}]]
    BY <2>1 DEF Sums, OneOf
  <2> QED BY <2>2
<1>2. Sums(h, f, S) BY <1>1 DEF Sums, OneOf
<1>3. SumOn(f, S) = h[S] BY DEF SumOn, FoldFunctionOnSet, MapThenFoldSet
<1> HIDE DEF h
<1> QED BY <1>2, <1>3

\* The order in which a sum is taken does not matter.
LEMMA SumsInAnyOrder ==
    ASSUME NEW S, IsFiniteSet(S), NEW f, \A x \in S : f[x] \in Int,
           NEW h, Sums(h, f, S), NEW s \in SUBSET S, NEW e \in s
    PROVE  h[s] = f[e] + h[s \ {e}]
<1> DEFINE Off(t, x) == h[t] # f[x] + h[t \ {x}]
           B == {t \in SUBSET S : \E x \in t : Off(t, x)}
<1>1. SUFFICES ASSUME B # {} PROVE FALSE
  OBVIOUS
<1>2. PICK t \in B : \A r \in B : r \subseteq t => r = t
  <2>1. B \subseteq SUBSET S OBVIOUS
  <2> HIDE DEF B
  <2> QED BY <1>1, <2>1, SmallestSet
<1>3. PICK x \in t : t \in SUBSET S /\ Off(t, x) BY <1>2
<1> DEFINE c == OneOf(t)
<1>4. h[t] = f[c] + h[t \ {c}] /\ c \in t
  <2>1. h[t] = IF t = {} THEN 0 ELSE f[OneOf(t)] + h[t \ {OneOf(t)}] BY <1>3 DEF Sums
  <2>2. t # {} BY <1>3
  <2> QED BY <2>1, <2>2 DEF OneOf
<1> HIDE DEF c
<1>5. x # c BY <1>3, <1>4
<1>6. /\ t \ {c} \in SUBSET S /\ t \ {c} \subseteq t /\ t \ {c} # t /\ x \in t \ {c}
      /\ t \ {x} \in SUBSET S /\ t \ {x} \subseteq t /\ t \ {x} # t /\ c \in t \ {x}
  BY <1>3, <1>4, <1>5
<1>7. t \ {c} \notin B /\ t \ {x} \notin B
  <2> HIDE DEF B
  <2> QED BY <1>2, <1>6
<1>8. h[t \ {c}] = f[x] + h[(t \ {c}) \ {x}] /\ h[t \ {x}] = f[c] + h[(t \ {x}) \ {c}]
  BY <1>6, <1>7
<1>9. (t \ {c}) \ {x} = (t \ {x}) \ {c} /\ (t \ {c}) \ {x} \in SUBSET S BY <1>3
<1> DEFINE w == (t \ {c}) \ {x}
<1>10. h[t] = f[c] + h[t \ {c}] /\ h[t \ {c}] = f[x] + h[w] /\ h[t \ {x}] = f[c] + h[w]
  BY <1>4, <1>8, <1>9
<1>11. h[w] \in Int /\ f[x] \in Int /\ f[c] \in Int
  <2>1. x \in S /\ c \in S BY <1>3, <1>4
  <2>2. w \in SUBSET S BY <1>9
  <2> HIDE DEF w
  <2> QED BY <2>1, <2>2, SumsAreInt
<1> HIDE DEF w
<1>12. h[t] = f[x] + h[t \ {x}] BY <1>10, <1>11
<1> QED BY <1>3, <1>12

\* Sums depend on what is summed only.
LEMMA SumsAgree ==
    ASSUME NEW S, IsFiniteSet(S), NEW f, \A x \in S : f[x] \in Int,
           NEW T, IsFiniteSet(T), NEW g, \A x \in T : g[x] \in Int,
           NEW h, Sums(h, f, S), NEW k, Sums(k, g, T),
           NEW s \in SUBSET S, s \in SUBSET T, \A x \in s : f[x] = g[x]
    PROVE  h[s] = k[s]
<1> DEFINE B == {t \in SUBSET s : h[t] # k[t]}
<1>1. SUFFICES ASSUME B # {} PROVE FALSE
  OBVIOUS
<1>2. PICK t \in B : \A r \in B : r \subseteq t => r = t
  <2>1. B \subseteq SUBSET S OBVIOUS
  <2> HIDE DEF B
  <2> QED BY <1>1, <2>1, SmallestSet
<1>3. t \in SUBSET s /\ t \in SUBSET S /\ t \in SUBSET T /\ h[t] # k[t] BY <1>2
<1>4. h[t] = IF t = {} THEN 0 ELSE f[OneOf(t)] + h[t \ {OneOf(t)}] BY <1>3 DEF Sums
<1>5. k[t] = IF t = {} THEN 0 ELSE g[OneOf(t)] + k[t \ {OneOf(t)}] BY <1>3 DEF Sums
<1>6. t # {} BY <1>3, <1>4, <1>5
<1>7. OneOf(t) \in t BY <1>6 DEF OneOf
<1>8. t \ {OneOf(t)} \in SUBSET s /\ t \ {OneOf(t)} \subseteq t /\ t \ {OneOf(t)} # t
  BY <1>3, <1>7
<1>9. t \ {OneOf(t)} \notin B
  <2> HIDE DEF B
  <2> QED BY <1>2, <1>8
<1>10. h[t \ {OneOf(t)}] = k[t \ {OneOf(t)}] BY <1>8, <1>9
<1>11. f[OneOf(t)] = g[OneOf(t)] BY <1>3, <1>7
<1> QED BY <1>3, <1>4, <1>5, <1>10, <1>11

\* A sum of nothing is zero.
LEMMA SumOfNone == ASSUME NEW f PROVE SumOn(f, {}) = 0
<1>1. IsFiniteSet({}) BY FS_EmptySet
<1>2. PICK h : Sums(h, f, {}) /\ SumOn(f, {}) = h[{}] BY <1>1, SumOnIs
<1> QED BY <1>2 DEF Sums

\* A sum of whole numbers is one.
LEMMA SumIsInt ==
    ASSUME NEW S, IsFiniteSet(S), NEW f, \A x \in S : f[x] \in Int
    PROVE  SumOn(f, S) \in Int
<1>1. PICK h : Sums(h, f, S) /\ SumOn(f, S) = h[S] BY SumOnIs
<1> QED BY <1>1, SumsAreInt

\* Equal values have equal sums.
LEMMA SumOfSame ==
    ASSUME NEW S, IsFiniteSet(S), NEW f, \A x \in S : f[x] \in Int,
           NEW g, \A x \in S : f[x] = g[x]
    PROVE  SumOn(f, S) = SumOn(g, S)
<1>1. PICK h : Sums(h, f, S) /\ SumOn(f, S) = h[S] BY SumOnIs
<1>2. PICK k : Sums(k, g, S) /\ SumOn(g, S) = k[S] BY SumOnIs
<1> QED BY <1>1, <1>2, SumsAgree

\* Any element can be taken out of a sum.
LEMMA SumLess ==
    ASSUME NEW S, IsFiniteSet(S), NEW f, \A x \in S : f[x] \in Int, NEW e \in S
    PROVE  SumOn(f, S) = f[e] + SumOn(f, S \ {e})
<1>1. PICK h : Sums(h, f, S) /\ SumOn(f, S) = h[S] BY SumOnIs
<1> DEFINE T == S \ {e}
<1>2. IsFiniteSet(T) /\ T \in SUBSET S /\ \A x \in T : f[x] \in Int BY FS_RemoveElement
<1> HIDE DEF T
<1>3. PICK k : Sums(k, f, T) /\ SumOn(f, T) = k[T] BY <1>2, SumOnIs
<1>4. h[T] = k[T] BY <1>1, <1>2, <1>3, SumsAgree
<1>5. h[S] = f[e] + h[T] BY <1>1, SumsInAnyOrder DEF T
<1> QED BY <1>1, <1>3, <1>4, <1>5 DEF T

\* And added to one.
LEMMA SumMore ==
    ASSUME NEW S, IsFiniteSet(S), NEW f, NEW e, e \notin S,
           \A x \in S \cup {e} : f[x] \in Int
    PROVE  SumOn(f, S \cup {e}) = f[e] + SumOn(f, S)
<1> DEFINE T == S \cup {e}
<1>1. IsFiniteSet(T) /\ e \in T /\ T \ {e} = S /\ \A x \in T : f[x] \in Int BY FS_AddElement
<1> HIDE DEF T
<1>2. SumOn(f, T) = f[e] + SumOn(f, T \ {e}) BY <1>1, SumLess
<1> QED BY <1>1, <1>2 DEF T

\* A sum grows with its values.
LEMMA SumsCompare ==
    ASSUME NEW S, IsFiniteSet(S), NEW f, \A x \in S : f[x] \in Int,
           NEW g, \A x \in S : g[x] \in Int /\ f[x] <= g[x]
    PROVE  SumOn(f, S) <= SumOn(g, S)
<1> DEFINE B == {t \in SUBSET S : ~(SumOn(f, t) <= SumOn(g, t))}
<1>1. SUFFICES ASSUME B # {} PROVE FALSE
  OBVIOUS
<1>2. PICK t \in B : IsFiniteSet(t) /\ \A r \in B : r \subseteq t => r = t
  <2>1. B \subseteq SUBSET S OBVIOUS
  <2> HIDE DEF B
  <2> QED BY <1>1, <2>1, SmallestSet
<1>3. t \in SUBSET S /\ ~(SumOn(f, t) <= SumOn(g, t)) BY <1>2
<1>4. t # {} BY <1>3, SumOfNone
<1>5. PICK e \in t : TRUE BY <1>4
<1>6. t \ {e} \in SUBSET S /\ t \ {e} \subseteq t /\ t \ {e} # t BY <1>3, <1>5
<1>7. t \ {e} \notin B
  <2> HIDE DEF B
  <2> QED BY <1>2, <1>6
<1>8. SumOn(f, t \ {e}) <= SumOn(g, t \ {e}) BY <1>6, <1>7
<1>9. SumOn(f, t) = f[e] + SumOn(f, t \ {e}) BY <1>2, <1>3, <1>5, SumLess
<1>10. SumOn(g, t) = g[e] + SumOn(g, t \ {e}) BY <1>2, <1>3, <1>5, SumLess
<1>11. IsFiniteSet(t \ {e}) BY <1>2, FS_RemoveElement
<1>12. SumOn(f, t \ {e}) \in Int /\ SumOn(g, t \ {e}) \in Int BY <1>6, <1>11, SumIsInt
<1>13. f[e] \in Int /\ g[e] \in Int /\ f[e] <= g[e] BY <1>3, <1>5
<1> QED BY <1>3, <1>8, <1>9, <1>10, <1>12, <1>13

\* Natural numbers have a natural sum.
LEMMA SumIsNat ==
    ASSUME NEW S, IsFiniteSet(S), NEW f, \A x \in S : f[x] \in Nat
    PROVE  SumOn(f, S) \in Nat
<1> DEFINE z == [x \in S |-> 0]
           B == {t \in SUBSET S : SumOn(z, t) # 0}
<1>1. SumOn(z, S) = 0
  <2>1. SUFFICES ASSUME B # {} PROVE FALSE
    OBVIOUS
  <2>2. PICK t \in B : IsFiniteSet(t) /\ \A r \in B : r \subseteq t => r = t
    <3>1. B \subseteq SUBSET S OBVIOUS
    <3> HIDE DEF B
    <3> QED BY <2>1, <3>1, SmallestSet
  <2>3. t \in SUBSET S /\ SumOn(z, t) # 0 BY <2>2
  <2>4. t # {} BY <2>3, SumOfNone
  <2>5. PICK e \in t : TRUE BY <2>4
  <2>6. t \ {e} \in SUBSET S /\ t \ {e} \subseteq t /\ t \ {e} # t BY <2>3, <2>5
  <2>7. t \ {e} \notin B
    <3> HIDE DEF B
    <3> QED BY <2>2, <2>6
  <2>8. SumOn(z, t \ {e}) = 0 BY <2>6, <2>7
  <2>9. \A x \in t : z[x] = 0 /\ z[x] \in Int BY <2>3
  <2> HIDE DEF z
  <2>10. SumOn(z, t) = z[e] + SumOn(z, t \ {e}) BY <2>2, <2>5, <2>9, SumLess
  <2> QED BY <2>3, <2>5, <2>8, <2>9, <2>10
<1>2. \A x \in S : z[x] \in Int /\ f[x] \in Int /\ z[x] <= f[x] OBVIOUS
<1> HIDE DEF z
<1>3. SumOn(z, S) <= SumOn(f, S) BY <1>2, SumsCompare
<1>4. SumOn(f, S) \in Int BY <1>2, SumIsInt
<1> QED BY <1>1, <1>3, <1>4

\* Sums over sets that have nothing in common add up.
LEMMA SumOfUnion ==
    ASSUME NEW S, IsFiniteSet(S), NEW T, IsFiniteSet(T), S \cap T = {},
           NEW f, \A x \in S \cup T : f[x] \in Int
    PROVE  SumOn(f, S \cup T) = SumOn(f, S) + SumOn(f, T)
<1> DEFINE B == {t \in SUBSET T : SumOn(f, S \cup t) # SumOn(f, S) + SumOn(f, t)}
<1>1. SUFFICES ASSUME B # {} PROVE FALSE
  OBVIOUS
<1>2. PICK t \in B : IsFiniteSet(t) /\ \A r \in B : r \subseteq t => r = t
  <2>1. B \subseteq SUBSET T OBVIOUS
  <2> HIDE DEF B
  <2> QED BY <1>1, <2>1, SmallestSet
<1>3. t \in SUBSET T /\ SumOn(f, S \cup t) # SumOn(f, S) + SumOn(f, t) BY <1>2
<1>4. SumOn(f, S) \in Int BY SumIsInt
<1>5. t # {}
  <2>1. SUFFICES ASSUME t = {} PROVE FALSE
    OBVIOUS
  <2>2. S \cup t = S /\ SumOn(f, t) = 0 BY <2>1, SumOfNone
  <2>3. SumOn(f, S \cup t) = SumOn(f, S) BY <2>2, Zenon
  <2> HIDE DEF B
  <2> QED BY <1>3, <1>4, <2>2, <2>3
<1>6. PICK e \in t : TRUE BY <1>5
<1> DEFINE r == t \ {e}
<1>7. r \in SUBSET T /\ r \subseteq t /\ r # t /\ IsFiniteSet(r)
  BY <1>2, <1>3, <1>6, FS_RemoveElement
<1>8. r \notin B
  <2> HIDE DEF B, r
  <2> QED BY <1>2, <1>7
<1>9. SumOn(f, S \cup r) = SumOn(f, S) + SumOn(f, r) BY <1>7, <1>8
<1>10. SumOn(f, t) = f[e] + SumOn(f, r) BY <1>2, <1>3, <1>6, SumLess
<1>11. SumOn(f, S \cup t) = f[e] + SumOn(f, S \cup r)
  <2> DEFINE U == S \cup t
  <2>1. IsFiniteSet(U) /\ e \in U /\ U \ {e} = S \cup r /\ \A x \in U : f[x] \in Int
    BY <1>2, <1>3, <1>6, FS_Union
  <2> HIDE DEF U, r
  <2>2. SumOn(f, U) = f[e] + SumOn(f, U \ {e}) BY <2>1, SumLess
  <2> QED BY <2>1, <2>2 DEF U
<1>12. f[e] \in Int BY <1>3, <1>6
<1>13. SumOn(f, r) \in Int BY <1>7, SumIsInt
<1> HIDE DEF r
<1> QED BY <1>3, <1>4, <1>9, <1>10, <1>11, <1>12, <1>13

==============================================================================
