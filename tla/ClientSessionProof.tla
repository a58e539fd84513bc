-------------------------- MODULE ClientSessionProof --------------------------
(***************************************************************************)
(* Proofs about ClientSession, for any number of senders, whatever they    *)
(* send, and for any number of requests.                                   *)
(***************************************************************************)
EXTENDS ClientSession, SequenceTheorems, FunctionTheorems, FiniteSetTheorems,
        WellFoundedInduction, TLAPS

-----------------------------------------------------------------------------
(* Recursion and induction, in a form without operators as parameters.     *)

LEMMA Least ==
    ASSUME NEW T \in SUBSET Nat, T # {}
    PROVE  \E x \in T : \A y \in T : x <= y
<1>1. IsWellFoundedOn(OpToRel(<, Nat), Nat)
  BY NatLessThanWellFounded
<1>2. PICK x \in T : \A y \in T : ~(<<y, x>> \in OpToRel(<, Nat))
  BY <1>1, WFMin
<1>3. \A y \in T : x \in Nat /\ y \in Nat /\ ~(y < x)
  BY <1>2 DEF OpToRel
<1>4. \A y \in T : x <= y
  BY <1>3
<1>5. QED BY <1>2, <1>4

\* What holds of 0, and of each of the next n if of the one before, holds of all.
LEMMA UpTo ==
    ASSUME NEW n \in Nat, NEW S, 0 \in S, \A i \in 1 .. n : i - 1 \in S => i \in S
    PROVE  \A i \in 0 .. n : i \in S
<1>1. SUFFICES ASSUME (0 .. n) \ S # {} PROVE FALSE
  OBVIOUS
<1> DEFINE T == (0 .. n) \ S
<1>2. T \in SUBSET Nat
  OBVIOUS
<1>3. PICK x \in T : \A y \in T : x <= y
  <2> HIDE DEF T
  <2>1. T # {}
    BY <1>1 DEF T
  <2>2. QED BY <1>2, <2>1, Least
<1>4. x # 0 /\ x \in 1 .. n /\ x - 1 \in 0 .. n /\ ~(x <= x - 1)
  BY <1>3
<1>5. x - 1 \in S
  BY <1>3, <1>4
<1>6. QED BY <1>3, <1>4, <1>5

\* What computes each of n values from the one before, and the values.
Computes(n, V) == [(1 .. n) \X V -> V]
Values(n, V, v, F, r) ==
    r \in [0 .. n -> V] /\ r[0] = v /\ \A i \in 1 .. n : r[i] = F[<<i, r[i - 1]>>]

LEMMA Recursion ==
    ASSUME NEW n \in Nat, NEW V, NEW v \in V, NEW F \in Computes(n, V)
    PROVE  \E r : Values(n, V, v, F, r)
<1> USE DEF Computes, Values
<1> DEFINE S == {k \in 0 .. n : \E r \in [0 .. k -> V] :
                    r[0] = v /\ \A i \in 1 .. k : r[i] = F[<<i, r[i - 1]>>]}
<1>1. 0 \in S
  <2> DEFINE r == [i \in 0 .. 0 |-> v]
  <2>1. r \in [0 .. 0 -> V] /\ r[0] = v /\ \A i \in 1 .. 0 : r[i] = F[<<i, r[i - 1]>>]
    OBVIOUS
  <2> HIDE DEF r
  <2>2. 0 \in 0 .. n
    OBVIOUS
  <2>3. QED BY <2>1, <2>2
<1>2. ASSUME NEW k \in 1 .. n, k - 1 \in S PROVE k \in S
  <2>1. PICK r \in [0 .. k - 1 -> V] :
            r[0] = v /\ \A i \in 1 .. k - 1 : r[i] = F[<<i, r[i - 1]>>]
    BY <1>2
  <2> DEFINE next == F[<<k, r[k - 1]>>]
             t == [i \in 0 .. k |-> IF i = k THEN next ELSE r[i]]
  <2>2. \A i \in 0 .. k : i = k \/ i \in 0 .. k - 1
    OBVIOUS
  <2>3. r[k - 1] \in V /\ next \in V
    BY <2>1
  <2> HIDE DEF next
  <2>4. t \in [0 .. k -> V]
    BY <2>1, <2>2, <2>3
  <2>5. t[0] = v
    BY <2>1
  <2>6. ASSUME NEW i \in 1 .. k PROVE t[i] = F[<<i, t[i - 1]>>]
    <3>1. t[i - 1] = r[i - 1]
      OBVIOUS
    <3>2. CASE i = k
      <4>1. t[k] = next
        OBVIOUS
      <4> HIDE DEF t
      <4>2. QED BY <3>1, <3>2, <4>1 DEF next
    <3>3. CASE i # k
      <4>1. i \in 1 .. k - 1 /\ t[i] = r[i]
        BY <3>3
      <4>2. QED BY <2>1, <3>1, <4>1
    <3>4. QED BY <3>2, <3>3
  <2>7. k \in 0 .. n
    OBVIOUS
  <2> HIDE DEF t
  <2>8. QED BY <2>4, <2>5, <2>6, <2>7
<1> HIDE DEF S
<1>3. n \in 0 .. n /\ \A i \in 0 .. n : i \in S
  BY <1>1, <1>2, UpTo
<1>4. n \in S
  BY <1>3
<1>5. QED BY <1>4 DEF S

\* A sequence of sequences, one after the other.
LEMMA FlattenSteps ==
    ASSUME NEW T, NEW s \in Seq(Seq(T))
    PROVE  \E f \in [0 .. Len(s) -> Seq(T)] :
              /\ f[0] = <<>>
              /\ \A i \in 1 .. Len(s) : f[i] = f[i - 1] \o s[i]
              /\ FlattenSeq(s) = f[Len(s)]
<1> DEFINE n == Len(s)
           V == Seq(T)
<1>1. n \in Nat /\ <<>> \in V
      /\ \A i \in 1 .. n : s[i] \in V /\ <<>> \o s[i] = s[i] /\ \A x \in V : x \o s[i] \in V
  BY LenProperties, ElementOfSeq, EmptySeq, ConcatProperties, ConcatEmptySeq
<1> HIDE DEF V
<1>2. CASE n = 0
  <2> DEFINE f == [i \in 0 .. n |-> <<>>]
  <2>1. s = <<>>
    BY <1>2, EmptySeq
  <2>2. FlattenSeq(s) = <<>>
    BY <1>2, <2>1 DEF FlattenSeq
  <2>3. f \in [0 .. n -> V] /\ f[0] = <<>> /\ f[n] = <<>>
    BY <1>1, <1>2
  <2> HIDE DEF f
  <2>4. QED BY <1>2, <2>2, <2>3 DEF V
<1>3. CASE n # 0
  <2> DEFINE Step(q, i) == IF i = 1 THEN s[i] ELSE q[i - 1] \o s[i]
             F == [p \in (1 .. n) \X V |-> p[2] \o s[p[1]]]
             g == CHOOSE q : q = [i \in 1 .. n |-> Step(q, i)]
  <2>1. F \in Computes(n, V)
    BY <1>1 DEF Computes
  <2>2. \A i \in 1 .. n, x \in V : F[<<i, x>>] = x \o s[i]
    OBVIOUS
  <2>3. FlattenSeq(s) = g[n]
    BY <1>3 DEF FlattenSeq
  <2> HIDE DEF F, n, g
  <2>4. PICK q : q \in [0 .. n -> V] /\ q[0] = <<>> /\ \A i \in 1 .. n : q[i] = F[<<i, q[i - 1]>>]
    <3>1. \E q : Values(n, V, <<>>, F, q)
      BY <1>1, <2>1, Recursion
    <3>2. QED BY <3>1 DEF Values
  <2>5. \A i \in 1 .. n : i - 1 \in 0 .. n
    BY <1>1
  <2>6. \A i \in 1 .. n : q[i] = q[i - 1] \o s[i]
    BY <2>2, <2>4, <2>5
  <2> DEFINE h == [i \in 1 .. n |-> q[i]]
  <2>7. h = [i \in 1 .. n |-> Step(h, i)]
    <3>1. ASSUME NEW i \in 1 .. n PROVE q[i] = Step(h, i)
      <4>1. CASE i = 1
        <5>1. i - 1 = 0
          BY <4>1
        <5>2. q[i] = <<>> \o s[i]
          <6>1. q[i] = q[i - 1] \o s[i]
            BY <2>6
          <6>2. QED BY <2>4, <5>1, <6>1
        <5>3. QED BY <1>1, <4>1, <5>2
      <4>2. CASE i # 1
        <5>1. i - 1 \in 1 .. n
          BY <1>1, <4>2
        <5>2. QED BY <2>6, <4>2, <5>1
      <4>3. QED BY <4>1, <4>2
    <3>2. QED BY <3>1
  <2> HIDE DEF h
  <2>8. g = [i \in 1 .. n |-> Step(g, i)]
    BY <2>7 DEF g
  <2>9. \A i \in 1 .. n : g[i] = Step(g, i)
    BY <2>8
  <2>10. \A i \in 1 .. n : g[i] = q[i]
    <3> DEFINE S == {i \in 0 .. n : i = 0 \/ g[i] = q[i]}
    <3>1. 0 \in S
      BY <1>1
    <3>2. ASSUME NEW i \in 1 .. n, i - 1 \in S PROVE i \in S
      <4>1. CASE i = 1
        <5>1. i - 1 = 0
          BY <4>1
        <5>2. q[i] = <<>> \o s[i]
          <6>1. q[i] = q[i - 1] \o s[i]
            BY <2>6
          <6>2. QED BY <2>4, <5>1, <6>1
        <5>3. g[i] = s[i]
          BY <2>9, <4>1
        <5>4. g[i] = q[i] /\ i \in 0 .. n
          BY <1>1, <5>2, <5>3
        <5>5. QED BY <5>4
      <4>2. CASE i # 1
        <5>1. g[i - 1] = q[i - 1]
          BY <1>1, <3>2, <4>2
        <5>2. g[i] = g[i - 1] \o s[i] /\ q[i] = q[i - 1] \o s[i]
          BY <2>6, <2>9, <4>2
        <5>3. g[i] = q[i]
          BY <5>1, <5>2
        <5>4. i \in 0 .. n
          BY <1>1
        <5>5. QED BY <5>3, <5>4
      <4>3. QED BY <4>1, <4>2
    <3> HIDE DEF S
    <3>3. \A i \in 0 .. n : i \in S
      BY <1>1, <3>1, <3>2, UpTo
    <3>4. QED BY <3>3, <1>1 DEF S
  <2>11. FlattenSeq(s) = q[n]
    BY <1>1, <1>3, <2>3, <2>10
  <2>12. QED BY <2>4, <2>6, <2>11 DEF n, V
<1>4. QED BY <1>2, <1>3

LEMMA SeqSet ==
    ASSUME NEW T, NEW s \in Seq(T)
    PROVE  /\ Len(s) \in Nat /\ DOMAIN s = 1 .. Len(s)
           /\ ToSet(s) = {s[i] : i \in 1 .. Len(s)}
           /\ \A i \in 1 .. Len(s) : s[i] \in T
           /\ ToSet(s) \subseteq T
<1>1. Len(s) \in Nat /\ DOMAIN s = 1 .. Len(s) /\ \A i \in 1 .. Len(s) : s[i] \in T
  BY LenProperties, ElementOfSeq
<1>2. QED BY <1>1 DEF ToSet

LEMMA ConcatSet ==
    ASSUME NEW T, NEW s \in Seq(T), NEW t \in Seq(T)
    PROVE  /\ s \o t \in Seq(T)
           /\ ToSet(s \o t) = ToSet(s) \cup ToSet(t)
<1> DEFINE r == s \o t
           k == Len(s)
           l == Len(t)
<1>1. /\ r \in Seq(T) /\ Len(r) = k + l
      /\ \A i \in 1 .. k + l : r[i] = IF i <= k THEN s[i] ELSE t[i - k]
  BY ConcatProperties
<1>2. /\ k \in Nat /\ l \in Nat
      /\ ToSet(s) = {s[i] : i \in 1 .. k} /\ ToSet(t) = {t[i] : i \in 1 .. l}
  BY SeqSet
<1>3. ToSet(r) = {r[i] : i \in 1 .. k + l}
  BY <1>1, SeqSet
<1> HIDE DEF r, k, l
<1>4. /\ \A i \in 1 .. k : i \in 1 .. k + l /\ r[i] = s[i]
      /\ \A i \in 1 .. l : i + k \in 1 .. k + l /\ r[i + k] = t[i]
      /\ \A i \in 1 .. k + l :
            \/ i \in 1 .. k /\ r[i] = s[i]
            \/ i - k \in 1 .. l /\ r[i] = t[i - k]
  <2>1. ASSUME NEW i \in 1 .. k PROVE i \in 1 .. k + l /\ r[i] = s[i]
    <3>1. i \in 1 .. k + l /\ i <= k
      BY <1>2
    <3>2. QED BY <1>1, <3>1
  <2>2. ASSUME NEW i \in 1 .. l PROVE i + k \in 1 .. k + l /\ r[i + k] = t[i]
    <3>1. PICK j \in 1 .. k + l : j = i + k /\ ~(j <= k) /\ j - k = i
      BY <1>2
    <3>2. r[j] = t[j - k]
      BY <1>1, <3>1
    <3>3. QED BY <3>1, <3>2
  <2>3. ASSUME NEW i \in 1 .. k + l
        PROVE  \/ i \in 1 .. k /\ r[i] = s[i]
               \/ i - k \in 1 .. l /\ r[i] = t[i - k]
    <3>1. (i <= k /\ i \in 1 .. k) \/ (~(i <= k) /\ i - k \in 1 .. l)
      BY <1>2
    <3>2. r[i] = IF i <= k THEN s[i] ELSE t[i - k]
      BY <1>1
    <3>3. QED BY <3>1, <3>2
  <2>4. QED BY <2>1, <2>2, <2>3
<1>5. ToSet(r) = ToSet(s) \cup ToSet(t)
  <2>1. ASSUME NEW x \in ToSet(r) PROVE x \in ToSet(s) \cup ToSet(t)
    <3>1. PICK i \in 1 .. k + l : x = r[i]
      BY <1>3
    <3>2. \/ i \in 1 .. k /\ r[i] = s[i]
          \/ i - k \in 1 .. l /\ r[i] = t[i - k]
      BY <1>4
    <3>3. QED BY <1>2, <3>1, <3>2
  <2>2. ASSUME NEW x \in ToSet(s) PROVE x \in ToSet(r)
    <3>1. PICK i \in 1 .. k : x = s[i]
      BY <1>2
    <3>2. i \in 1 .. k + l /\ r[i] = x
      BY <1>4, <3>1
    <3>3. QED BY <1>3, <3>2
  <2>3. ASSUME NEW x \in ToSet(t) PROVE x \in ToSet(r)
    <3>1. PICK i \in 1 .. l : x = t[i]
      BY <1>2
    <3>2. i + k \in 1 .. k + l /\ r[i + k] = x
      BY <1>4, <3>1
    <3>3. QED BY <1>3, <3>2
  <2>4. QED BY <2>1, <2>2, <2>3
<1>6. QED BY <1>1, <1>5 DEF r

LEMMA ConcatThree ==
    ASSUME NEW T, NEW s \in Seq(T), NEW t \in Seq(T), NEW r \in Seq(T)
    PROVE  (s \o t) \o r = s \o (t \o r)
BY ConcatAssociative

Associative(S) == \A x, y, z \in S : (x \o y) \o z = x \o (y \o z)

LEMMA SeqAssociative ==
    ASSUME NEW T
    PROVE  Associative(Seq(T))
BY ConcatAssociative DEF Associative

LEMMA ConcatNumbers ==
    \A x, y, z \in Seq(Nat) : (x \o y) \o z = x \o (y \o z)
<1>1. Associative(Seq(Nat))
  BY SeqAssociative
<1>2. QED BY <1>1 DEF Associative

LEMMA SingleSet ==
    ASSUME NEW T, NEW x \in T
    PROVE  <<x>> \in Seq(T) /\ Len(<<x>>) = 1 /\ <<x>>[1] = x /\ ToSet(<<x>>) = {x}
<1>1. <<x>> \in Seq(T) /\ Len(<<x>>) = 1 /\ <<x>>[1] = x
  OBVIOUS
<1>2. QED BY <1>1 DEF ToSet

LEMMA PairOf ==
    ASSUME NEW T, NEW x \in T, NEW y \in T
    PROVE  <<x>> \o <<y>> = <<x, y>>
<1>1. /\ <<x, y>> \in Seq(T) /\ Len(<<x, y>>) = 2
      /\ <<x, y>>[1] = x /\ <<x, y>>[2] = y
  OBVIOUS
<1>2. PICK a \in Seq(T) : a = <<x>> /\ Len(a) = 1 /\ a[1] = x
  BY SingleSet
<1>3. PICK b \in Seq(T) : b = <<y>> /\ Len(b) = 1 /\ b[1] = y
  BY SingleSet
<1>4. /\ a \o b \in Seq(T) /\ Len(a \o b) = Len(a) + Len(b)
      /\ \A i \in 1 .. Len(a) + Len(b) : (a \o b)[i] = IF i <= Len(a) THEN a[i] ELSE b[i - Len(a)]
  BY ConcatProperties
<1>5. Len(a \o b) = 2 /\ (a \o b)[1] = x /\ (a \o b)[2] = y
  BY <1>2, <1>3, <1>4
<1>6. PICK q \in Seq(T) : q = <<x, y>> /\ Len(q) = 2 /\ q[1] = x /\ q[2] = y
  BY <1>1
<1>7. \A i \in 1 .. Len(q) : q[i] = (a \o b)[i]
  <2>1. \A i \in 1 .. Len(q) : i = 1 \/ i = 2
    BY <1>6
  <2>2. QED BY <1>5, <1>6, <2>1
<1>8. q = a \o b
  BY <1>4, <1>5, <1>6, <1>7, SeqEqual
<1>9. QED BY <1>2, <1>3, <1>6, <1>8

LEMMA EmptySet == ToSet(<<>>) = {}
BY DEF ToSet

-----------------------------------------------------------------------------
(* Sequences put together from what there is for each element of another.  *)

LEMMA FlattenSmall ==
    ASSUME NEW T, NEW x \in Seq(T)
    PROVE  FlattenSeq(<<>>) = <<>> /\ FlattenSeq(<<x>>) = x
<1>1. FlattenSeq(<<>>) = <<>>
  BY DEF FlattenSeq
<1> DEFINE s == <<x>>
<1>2. s \in Seq(Seq(T)) /\ Len(s) = 1 /\ s[1] = x
  OBVIOUS
<1> HIDE DEF s
<1>3. PICK f \in [0 .. 1 -> Seq(T)] :
        f[0] = <<>> /\ (\A i \in 1 .. 1 : f[i] = f[i - 1] \o s[i]) /\ FlattenSeq(s) = f[1]
  <2>1. s \in Seq(Seq(T))
    BY <1>2
  <2>2. PICK f \in [0 .. Len(s) -> Seq(T)] :
          /\ f[0] = <<>>
          /\ \A i \in 1 .. Len(s) : f[i] = f[i - 1] \o s[i]
          /\ FlattenSeq(s) = f[Len(s)]
    BY <2>1, FlattenSteps
  <2>3. QED BY <1>2, <2>2
<1>4. f[1] = <<>> \o x
  <2>1. 1 \in 1 .. 1 /\ 1 - 1 = 0
    OBVIOUS
  <2>2. f[1] = f[1 - 1] \o s[1]
    BY <1>3, <2>1
  <2>3. QED BY <1>2, <1>3, <2>1, <2>2
<1>5. QED BY <1>1, <1>3, <1>4, ConcatEmptySeq DEF s

LEMMA FlattenType ==
    ASSUME NEW T, NEW s \in Seq(Seq(T))
    PROVE  FlattenSeq(s) \in Seq(T)
<1>1. PICK f \in [0 .. Len(s) -> Seq(T)] : FlattenSeq(s) = f[Len(s)]
  BY FlattenSteps
<1>2. Len(s) \in 0 .. Len(s)
  BY LenProperties
<1>3. QED BY <1>1, <1>2

LEMMA FlattenConcat ==
    ASSUME NEW T, NEW s \in Seq(Seq(T)), NEW t \in Seq(Seq(T))
    PROVE  FlattenSeq(s \o t) = FlattenSeq(s) \o FlattenSeq(t)
<1> DEFINE k == Len(s)
           l == Len(t)
           r == s \o t
<1>1. k \in Nat /\ l \in Nat
  BY LenProperties
<1>2. /\ r \in Seq(Seq(T)) /\ Len(r) = k + l
      /\ \A i \in 1 .. k + l : r[i] = IF i <= k THEN s[i] ELSE t[i - k]
  BY ConcatProperties
<1>3. PICK f \in [0 .. k + l -> Seq(T)] :
        /\ f[0] = <<>> /\ \A i \in 1 .. k + l : f[i] = f[i - 1] \o r[i]
        /\ FlattenSeq(r) = f[k + l]
  <2>1. r \in Seq(Seq(T)) /\ Len(r) = k + l
    BY <1>2
  <2> HIDE DEF r, k, l
  <2>2. PICK f \in [0 .. Len(r) -> Seq(T)] :
          /\ f[0] = <<>> /\ \A i \in 1 .. Len(r) : f[i] = f[i - 1] \o r[i]
          /\ FlattenSeq(r) = f[Len(r)]
    BY <2>1, FlattenSteps
  <2>3. QED BY <2>1, <2>2
<1>4. PICK a \in [0 .. k -> Seq(T)] :
        /\ a[0] = <<>> /\ \A i \in 1 .. k : a[i] = a[i - 1] \o s[i]
        /\ FlattenSeq(s) = a[k]
  BY FlattenSteps
<1>5. PICK b \in [0 .. l -> Seq(T)] :
        /\ b[0] = <<>> /\ \A i \in 1 .. l : b[i] = b[i - 1] \o t[i]
        /\ FlattenSeq(t) = b[l]
  BY FlattenSteps
<1>6. \A i \in 1 .. l : t[i] \in Seq(T)
  BY ElementOfSeq
<1> HIDE DEF k, l, r
<1>7. f[k] = a[k]
  <2> DEFINE S == {i \in 0 .. k : f[i] = a[i]}
  <2>1. 0 \in S
    BY <1>1, <1>3, <1>4
  <2>2. ASSUME NEW i \in 1 .. k, i - 1 \in S PROVE i \in S
    <3>1. i \in 1 .. k + l /\ i <= k /\ i \in 0 .. k
      BY <1>1
    <3>2. r[i] = s[i]
      BY <1>2, <3>1
    <3>3. f[i] = f[i - 1] \o s[i]
      BY <1>3, <3>1, <3>2
    <3>4. a[i] = a[i - 1] \o s[i] /\ f[i - 1] = a[i - 1]
      BY <1>4, <2>2
    <3>5. QED BY <3>1, <3>3, <3>4
  <2> HIDE DEF S
  <2>3. \A i \in 0 .. k : i \in S
    BY <1>1, <2>1, <2>2, UpTo
  <2>4. k \in 0 .. k
    BY <1>1
  <2>5. QED BY <2>3, <2>4 DEF S
<1>8. a[k] \in Seq(T)
  BY <1>1, <1>4
<1>9. f[k + l] = a[k] \o b[l]
  <2> DEFINE S == {i \in 0 .. l : f[k + i] = a[k] \o b[i]}
  <2>1. 0 \in S
    <3>1. k + 0 = k /\ 0 \in 0 .. l
      BY <1>1
    <3>2. a[k] \o b[0] = a[k]
      BY <1>5, <1>8, ConcatEmptySeq
    <3>3. QED BY <1>7, <3>1, <3>2
  <2>2. ASSUME NEW i \in 1 .. l, i - 1 \in S PROVE i \in S
    <3>1. PICK j \in 1 .. k + l : j = k + i /\ ~(j <= k) /\ j - k = i /\ j - 1 = k + (i - 1)
      BY <1>1
    <3>2. r[j] = t[j - k]
      BY <1>2, <3>1
    <3>3. f[j] = f[j - 1] \o r[j]
      BY <1>3
    <3>4. f[j] = f[k + (i - 1)] \o t[i]
      BY <3>1, <3>2, <3>3
    <3>5. f[k + (i - 1)] = a[k] \o b[i - 1]
      BY <2>2
    <3>6. b[i] = b[i - 1] \o t[i] /\ b[i - 1] \in Seq(T) /\ i \in 0 .. l
      <4>1. i - 1 \in 0 .. l /\ i \in 0 .. l
        BY <1>1
      <4>2. QED BY <1>5, <4>1
    <3>7. f[j] = a[k] \o b[i]
      <4>1. t[i] \in Seq(T) /\ b[i - 1] \in Seq(T)
        BY <1>6, <3>6
      <4>2. Associative(Seq(T))
        BY SeqAssociative
      <4>3. (a[k] \o b[i - 1]) \o t[i] = a[k] \o (b[i - 1] \o t[i])
        BY <1>8, <4>1, <4>2 DEF Associative
      <4>4. f[j] = (a[k] \o b[i - 1]) \o t[i]
        BY <3>4, <3>5
      <4>5. QED BY <3>6, <4>3, <4>4
    <3>8. QED BY <3>1, <3>6, <3>7
  <2> HIDE DEF S
  <2>3. \A i \in 0 .. l : i \in S
    BY <1>1, <2>1, <2>2, UpTo
  <2>4. l \in 0 .. l
    BY <1>1
  <2>5. QED BY <2>3, <2>4 DEF S
<1>10. QED BY <1>3, <1>4, <1>5, <1>9 DEF r

\* For each element x of q in turn what g[x] has.
Each(q, g) == FlattenSeq([i \in DOMAIN q |-> g[q[i]]])
Gives(T, U) == [T -> Seq(U)]

\* The sequence of what g has for the elements of q.
LEMMA EachOf ==
    ASSUME NEW T, NEW U, NEW g \in Gives(T, U), NEW q \in Seq(T)
    PROVE  \E s \in Seq(Seq(U)) :
              /\ Len(s) = Len(q) /\ \A i \in 1 .. Len(q) : s[i] = g[q[i]]
              /\ Each(q, g) = FlattenSeq(s)
<1> DEFINE n == Len(q)
           s == [i \in DOMAIN q |-> g[q[i]]]
<1>1. n \in Nat /\ DOMAIN q = 1 .. n /\ \A i \in 1 .. n : q[i] \in T
  BY SeqSet
<1>2. s \in [1 .. n -> Seq(U)] /\ \A i \in 1 .. n : s[i] = g[q[i]]
  BY <1>1 DEF Gives
<1>3. Each(q, g) = FlattenSeq(s)
  BY DEF Each
<1> HIDE DEF s, n
<1>4. s \in Seq(Seq(U)) /\ Len(s) = n
  BY <1>1, <1>2, IsASeq, LenProperties
<1>5. QED BY <1>2, <1>3, <1>4 DEF n

LEMMA EachType ==
    ASSUME NEW T, NEW U, NEW g \in Gives(T, U), NEW q \in Seq(T)
    PROVE  Each(q, g) \in Seq(U)
<1>1. PICK s \in Seq(Seq(U)) : Each(q, g) = FlattenSeq(s)
  BY EachOf
<1>2. QED BY <1>1, FlattenType

LEMMA EachSmall ==
    ASSUME NEW T, NEW U, NEW g \in Gives(T, U), NEW x \in T
    PROVE  Each(<<>>, g) = <<>> /\ Each(<<x>>, g) = g[x]
<1>1. [i \in DOMAIN <<>> |-> g[<<>>[i]]] = <<>>
  OBVIOUS
<1>2. [i \in DOMAIN <<x>> |-> g[<<x>>[i]]] = <<g[x]>>
  OBVIOUS
<1>3. g[x] \in Seq(U)
  BY DEF Gives
<1>4. QED BY <1>1, <1>2, <1>3, FlattenSmall DEF Each

LEMMA EachConcat ==
    ASSUME NEW T, NEW U, NEW g \in Gives(T, U), NEW q \in Seq(T), NEW r \in Seq(T)
    PROVE  Each(q \o r, g) = Each(q, g) \o Each(r, g)
<1> DEFINE k == Len(q)
           l == Len(r)
           z == q \o r
<1>1. /\ z \in Seq(T) /\ Len(z) = k + l
      /\ \A i \in 1 .. k + l : z[i] = IF i <= k THEN q[i] ELSE r[i - k]
  BY ConcatProperties
<1>2. PICK a \in Seq(Seq(U)) :
        Len(a) = k /\ (\A i \in 1 .. k : a[i] = g[q[i]]) /\ Each(q, g) = FlattenSeq(a)
  BY EachOf
<1>3. PICK b \in Seq(Seq(U)) :
        Len(b) = l /\ (\A i \in 1 .. l : b[i] = g[r[i]]) /\ Each(r, g) = FlattenSeq(b)
  BY EachOf
<1>4. PICK c \in Seq(Seq(U)) :
        /\ Len(c) = k + l /\ \A i \in 1 .. k + l : c[i] = g[z[i]]
        /\ Each(z, g) = FlattenSeq(c)
  <2>1. \E c \in Seq(Seq(U)) :
            /\ Len(c) = Len(z) /\ \A i \in 1 .. Len(z) : c[i] = g[z[i]]
            /\ Each(z, g) = FlattenSeq(c)
    <3>1. z \in Seq(T)
      BY <1>1
    <3> HIDE DEF z
    <3>2. QED BY <3>1, EachOf
  <2>2. QED BY <1>1, <2>1
<1>5. k \in Nat /\ l \in Nat
  BY LenProperties
<1> HIDE DEF k, l, z
<1>6. /\ a \o b \in Seq(Seq(U)) /\ Len(a \o b) = k + l
      /\ \A i \in 1 .. k + l : (a \o b)[i] = IF i <= k THEN a[i] ELSE b[i - k]
  <2>1. /\ a \o b \in Seq(Seq(U)) /\ Len(a \o b) = Len(a) + Len(b)
        /\ \A i \in 1 .. Len(a) + Len(b) : (a \o b)[i] = IF i <= Len(a) THEN a[i] ELSE b[i - Len(a)]
    BY ConcatProperties
  <2>2. QED BY <1>2, <1>3, <2>1
<1>7. ASSUME NEW i \in 1 .. k + l PROVE c[i] = (a \o b)[i]
  <2>1. CASE i <= k
    <3>1. i \in 1 .. k
      BY <1>5, <2>1
    <3>2. z[i] = q[i] /\ (a \o b)[i] = a[i]
      BY <1>1, <1>6, <2>1
    <3>3. QED BY <1>2, <1>4, <3>1, <3>2
  <2>2. CASE ~(i <= k)
    <3>1. i - k \in 1 .. l
      BY <1>5, <2>2
    <3>2. z[i] = r[i - k] /\ (a \o b)[i] = b[i - k]
      BY <1>1, <1>6, <2>2
    <3>3. QED BY <1>3, <1>4, <3>1, <3>2
  <2>3. QED BY <2>1, <2>2
<1>8. c = a \o b
  <2>1. Len(c) = Len(a \o b) /\ \A i \in 1 .. Len(c) : c[i] = (a \o b)[i]
    BY <1>4, <1>6, <1>7
  <2>2. QED BY <1>6, <2>1, SeqEqual
<1>9. FlattenSeq(a \o b) = FlattenSeq(a) \o FlattenSeq(b)
  BY FlattenConcat
<1>10. QED BY <1>2, <1>3, <1>4, <1>8, <1>9 DEF z

\* What is in sequences, and what g has for the elements of q.
AllIn(s) == UNION {ToSet(s[i]) : i \in 1 .. Len(s)}
AllGiven(q, g) == UNION {ToSet(g[x]) : x \in ToSet(q)}

LEMMA FlattenAll ==
    ASSUME NEW T, NEW s \in Seq(Seq(T))
    PROVE  ToSet(FlattenSeq(s)) = AllIn(s)
<1> DEFINE n == Len(s)
           Upto(k) == UNION {ToSet(s[j]) : j \in 1 .. k}
<1>1. PICK f \in [0 .. n -> Seq(T)] :
        /\ f[0] = <<>>
        /\ \A i \in 1 .. n : f[i] = f[i - 1] \o s[i]
        /\ FlattenSeq(s) = f[n]
  BY FlattenSteps
<1>2. n \in Nat /\ \A i \in 1 .. n : s[i] \in Seq(T)
  BY LenProperties, ElementOfSeq
<1> HIDE DEF n
<1> DEFINE S == {i \in 0 .. n : ToSet(f[i]) = Upto(i)}
<1>3. 0 \in S
  <2>1. Upto(0) = {}
    OBVIOUS
  <2>2. QED BY <1>1, <1>2, <2>1, EmptySet
<1>4. ASSUME NEW i \in 1 .. n, i - 1 \in S PROVE i \in S
  <2>1. /\ i - 1 \in 0 .. n /\ f[i - 1] \in Seq(T) /\ s[i] \in Seq(T)
        /\ ToSet(f[i - 1]) = Upto(i - 1)
    BY <1>1, <1>2, <1>4
  <2>2. i \in 0 .. n /\ 1 .. i = (1 .. (i - 1)) \cup {i}
    BY <1>2
  <2>3. Upto(i) = Upto(i - 1) \cup ToSet(s[i])
    BY <2>2
  <2> HIDE DEF Upto
  <2>4. ToSet(f[i - 1] \o s[i]) = ToSet(f[i - 1]) \cup ToSet(s[i])
    BY <2>1, ConcatSet
  <2>5. f[i] = f[i - 1] \o s[i]
    BY <1>1
  <2>6. QED BY <2>1, <2>2, <2>3, <2>4, <2>5
<1> HIDE DEF S
<1>5. \A i \in 0 .. n : i \in S
  BY <1>2, <1>3, <1>4, UpTo
<1>6. n \in 0 .. n
  BY <1>2
<1>7. ToSet(f[n]) = Upto(n)
  BY <1>5, <1>6 DEF S
<1>8. Upto(n) = AllIn(s)
  BY DEF AllIn, n
<1> HIDE DEF Upto
<1>9. QED BY <1>1, <1>7, <1>8

LEMMA EachSet ==
    ASSUME NEW T, NEW U, NEW g \in Gives(T, U), NEW q \in Seq(T)
    PROVE  ToSet(Each(q, g)) = AllGiven(q, g)
<1>1. PICK s \in Seq(Seq(U)) :
        Len(s) = Len(q) /\ (\A i \in 1 .. Len(q) : s[i] = g[q[i]]) /\ Each(q, g) = FlattenSeq(s)
  BY EachOf
<1>2. ToSet(FlattenSeq(s)) = AllIn(s)
  BY FlattenAll
<1>3. ToSet(q) = {q[i] : i \in 1 .. Len(q)}
  BY SeqSet
<1>4. UNION {ToSet(s[i]) : i \in 1 .. Len(s)} = UNION {ToSet(g[x]) : x \in ToSet(q)}
  <2>1. {ToSet(s[i]) : i \in 1 .. Len(s)} = {ToSet(g[q[i]]) : i \in 1 .. Len(q)}
    BY <1>1
  <2>2. {ToSet(g[q[i]]) : i \in 1 .. Len(q)} = {ToSet(g[x]) : x \in ToSet(q)}
    BY <1>3
  <2>3. QED BY <2>1, <2>2
<1>5. QED BY <1>1, <1>2, <1>4 DEF AllIn, AllGiven

LEMMA NothingIn ==
    ASSUME NEW T, NEW q \in Seq(T), ToSet(q) = {}
    PROVE  q = <<>>
<1>1. Len(q) \in Nat /\ ToSet(q) = {q[i] : i \in 1 .. Len(q)}
  <2>1. Len(q) \in Nat
    BY LenProperties
  <2>2. QED BY <2>1, SeqSet
<1>2. Len(q) = 0
  <2>1. \A i \in 1 .. Len(q) : q[i] \in ToSet(q)
    BY <1>1
  <2>2. 1 \notin 1 .. Len(q)
    BY <2>1
  <2>3. QED BY <1>1, <2>2
<1>3. QED BY <1>2, EmptySeq

LEMMA EachNone ==
    ASSUME NEW T, NEW U, NEW g \in Gives(T, U), NEW q \in Seq(T),
           \A x \in ToSet(q) : g[x] = <<>>
    PROVE  Each(q, g) = <<>>
<1>1. ToSet(Each(q, g)) = UNION {ToSet(g[x]) : x \in ToSet(q)}
  BY EachSet DEF AllGiven
<1>2. \A x \in ToSet(q) : ToSet(g[x]) = {}
  BY EmptySet
<1>3. ToSet(Each(q, g)) = {}
  BY <1>1, <1>2
<1>4. Each(q, g) \in Seq(U)
  BY EachType
<1>5. QED BY <1>3, <1>4, NothingIn

\* One for each element of q.
LEMMA EachSingle ==
    ASSUME NEW T, NEW U, NEW g \in Gives(T, U), NEW q \in Seq(T), NEW h \in [T -> U],
           \A x \in ToSet(q) : g[x] = <<h[x]>>
    PROVE  Each(q, g) = [j \in DOMAIN q |-> h[q[j]]]
<1> DEFINE n == Len(q)
           r == [j \in DOMAIN q |-> h[q[j]]]
<1>1. n \in Nat /\ DOMAIN q = 1 .. n /\ \A i \in 1 .. n : q[i] \in T /\ q[i] \in ToSet(q)
  BY SeqSet
<1>2. PICK t \in Seq(Seq(U)) :
        Len(t) = n /\ (\A i \in 1 .. n : t[i] = g[q[i]]) /\ Each(q, g) = FlattenSeq(t)
  BY EachOf
<1>3. PICK f \in [0 .. n -> Seq(U)] :
        f[0] = <<>> /\ (\A i \in 1 .. n : f[i] = f[i - 1] \o t[i]) /\ FlattenSeq(t) = f[n]
  <2>1. PICK f \in [0 .. Len(t) -> Seq(U)] :
          /\ f[0] = <<>> /\ \A i \in 1 .. Len(t) : f[i] = f[i - 1] \o t[i]
          /\ FlattenSeq(t) = f[Len(t)]
    BY FlattenSteps
  <2>2. QED BY <1>2, <2>1
<1>4. r \in Seq(U) /\ Len(r) = n /\ \A j \in 1 .. n : r[j] = h[q[j]]
  <2>1. r \in [1 .. n -> U] /\ \A j \in 1 .. n : r[j] = h[q[j]]
    BY <1>1
  <2> HIDE DEF r, n
  <2>2. QED BY <1>1, <2>1, IsASeq, LenProperties
<1>5. \A i \in 1 .. n : t[i] = <<r[i]>> /\ r[i] \in U
  <2> HIDE DEF r, n
  <2>1. ASSUME NEW i \in 1 .. n PROVE t[i] = <<r[i]>> /\ r[i] \in U
    <3>1. q[i] \in T /\ q[i] \in ToSet(q)
      BY <1>1
    <3>2. g[q[i]] = <<h[q[i]]>> /\ h[q[i]] \in U
      BY <3>1
    <3>3. QED BY <1>2, <1>4, <3>2
  <2>2. QED BY <2>1
<1> HIDE DEF n, r
<1> DEFINE S == {i \in 0 .. n : Len(f[i]) = i /\ \A j \in 1 .. i : f[i][j] = r[j]}
<1>6. 0 \in S
  BY <1>1, <1>3, EmptySeq
<1>7. ASSUME NEW i \in 1 .. n, i - 1 \in S PROVE i \in S
  <2>1. /\ i - 1 \in 0 .. n /\ Len(f[i - 1]) = i - 1 /\ f[i - 1] \in Seq(U)
        /\ \A j \in 1 .. (i - 1) : f[i - 1][j] = r[j]
    BY <1>3, <1>7
  <2>2. t[i] = <<r[i]>> /\ r[i] \in U
    BY <1>5
  <2>3. f[i] = Append(f[i - 1], r[i])
    <3>1. f[i] = f[i - 1] \o t[i]
      BY <1>3
    <3>2. Append(f[i - 1], r[i]) = f[i - 1] \o <<r[i]>>
      BY <2>1, <2>2, AppendIsConcat
    <3>3. QED BY <2>2, <3>1, <3>2
  <2>4. /\ Len(f[i]) = (i - 1) + 1
        /\ \A j \in 1 .. (i - 1) : f[i][j] = f[i - 1][j]
        /\ f[i][(i - 1) + 1] = r[i]
    BY <2>1, <2>2, <2>3, AppendProperties
  <2>5. (i - 1) + 1 = i /\ i \in 0 .. n /\ \A j \in 1 .. i : j = i \/ j \in 1 .. (i - 1)
    BY <1>1
  <2>6. \A j \in 1 .. i : f[i][j] = r[j]
    BY <2>1, <2>4, <2>5
  <2>7. QED BY <2>4, <2>5, <2>6
<1> HIDE DEF S
<1>8. \A i \in 0 .. n : i \in S
  BY <1>1, <1>6, <1>7, UpTo
<1>9. n \in 0 .. n
  BY <1>1
<1>10. f[n] \in Seq(U) /\ Len(f[n]) = n /\ \A j \in 1 .. n : f[n][j] = r[j]
  BY <1>3, <1>8, <1>9 DEF S
<1>11. f[n] = r
  BY <1>4, <1>10, SeqEqual
<1>12. QED BY <1>2, <1>3, <1>11 DEF r

\* The elements of q that are in S.
Pick(T, S) == [x \in T |-> IF x \in S THEN <<x>> ELSE <<>>]
Sel(T, q, S) == Each(q, Pick(T, S))

LEMMA PickGives ==
    ASSUME NEW T, NEW S
    PROVE  Pick(T, S) \in Gives(T, T)
<1>1. \A x \in T : <<x>> \in Seq(T) /\ <<>> \in Seq(T)
  BY SingleSet, EmptySeq
<1>2. QED BY <1>1 DEF Pick, Gives

LEMMA SelFacts ==
    ASSUME NEW T, NEW S, NEW q \in Seq(T)
    PROVE  /\ Sel(T, q, S) \in Seq(T)
           /\ ToSet(Sel(T, q, S)) = ToSet(q) \cap S
<1>1. Sel(T, q, S) \in Seq(T)
  BY PickGives, EachType DEF Sel
<1>2. ToSet(Sel(T, q, S)) = AllGiven(q, Pick(T, S))
  BY PickGives, EachSet DEF Sel
<1>3. ToSet(q) \subseteq T
  BY SeqSet
<1>4. \A x \in T : ToSet(Pick(T, S)[x]) = IF x \in S THEN {x} ELSE {}
  BY SingleSet, EmptySet DEF Pick
<1>5. AllGiven(q, Pick(T, S)) = ToSet(q) \cap S
  <2>1. \A x \in ToSet(q) : ToSet(Pick(T, S)[x]) = IF x \in S THEN {x} ELSE {}
    BY <1>3, <1>4
  <2> DEFINE A(x) == ToSet(Pick(T, S)[x])
  <2>2. AllGiven(q, Pick(T, S)) = UNION {A(x) : x \in ToSet(q)}
    BY DEF AllGiven
  <2>3. \A x \in ToSet(q) : A(x) = IF x \in S THEN {x} ELSE {}
    BY <2>1
  <2> HIDE DEF A
  <2>4. QED BY <2>2, <2>3
<1>6. QED BY <1>1, <1>2, <1>5

LEMMA SelConcat ==
    ASSUME NEW T, NEW S, NEW q \in Seq(T), NEW r \in Seq(T)
    PROVE  Sel(T, q \o r, S) = Sel(T, q, S) \o Sel(T, r, S)
BY PickGives, EachConcat DEF Sel

LEMMA SelSmall ==
    ASSUME NEW T, NEW S, NEW x \in T
    PROVE  /\ Sel(T, <<>>, S) = <<>>
           /\ Sel(T, <<x>>, S) = IF x \in S THEN <<x>> ELSE <<>>
<1>1. Pick(T, S) \in Gives(T, T) /\ Pick(T, S)[x] = IF x \in S THEN <<x>> ELSE <<>>
  BY PickGives DEF Pick
<1>2. Each(<<>>, Pick(T, S)) = <<>> /\ Each(<<x>>, Pick(T, S)) = Pick(T, S)[x]
  BY PickGives, EachSmall
<1>3. QED BY <1>1, <1>2 DEF Sel

LEMMA SelSame ==
    ASSUME NEW T, NEW R, NEW S, NEW q \in Seq(T), ToSet(q) \cap R = ToSet(q) \cap S
    PROVE  Sel(T, q, R) = Sel(T, q, S)
<1>1. ToSet(q) \subseteq T /\ \A i \in DOMAIN q : q[i] \in ToSet(q)
  BY SeqSet DEF ToSet
<1>2. \A i \in DOMAIN q : Pick(T, R)[q[i]] = Pick(T, S)[q[i]]
  BY <1>1 DEF Pick
<1>3. [i \in DOMAIN q |-> Pick(T, R)[q[i]]] = [i \in DOMAIN q |-> Pick(T, S)[q[i]]]
  BY <1>2
<1>4. QED BY <1>3 DEF Sel, Each

LEMMA SelAll ==
    ASSUME NEW T, NEW S, NEW q \in Seq(T), ToSet(q) \subseteq S
    PROVE  Sel(T, q, S) = q
<1> DEFINE h == [x \in T |-> x]
<1>1. Pick(T, S) \in Gives(T, T) /\ h \in [T -> T]
  BY PickGives
<1>2. ToSet(q) \subseteq T /\ DOMAIN q = 1 .. Len(q) /\ \A j \in 1 .. Len(q) : q[j] \in T
  BY SeqSet
<1>3. \A x \in ToSet(q) : Pick(T, S)[x] = <<h[x]>>
  BY <1>2 DEF Pick
<1>4. Each(q, Pick(T, S)) = [j \in DOMAIN q |-> h[q[j]]]
  <2> HIDE DEF h
  <2>1. QED BY <1>1, <1>3, EachSingle
<1>5. [j \in DOMAIN q |-> h[q[j]]] = [j \in DOMAIN q |-> q[j]]
  BY <1>2
<1>6. [j \in DOMAIN q |-> q[j]] = q
  OBVIOUS
<1>7. QED BY <1>4, <1>5, <1>6 DEF Sel

\* A sequence before, at and after a place.
LEMMA SplitAt ==
    ASSUME NEW T, NEW q \in Seq(T), NEW i \in 1 .. Len(q)
    PROVE  /\ SubSeq(q, 1, i - 1) \in Seq(T) /\ SubSeq(q, i + 1, Len(q)) \in Seq(T)
           /\ Len(SubSeq(q, 1, i - 1)) = i - 1 /\ Len(SubSeq(q, i + 1, Len(q))) = Len(q) - i
           /\ \A j \in 1 .. (i - 1) : SubSeq(q, 1, i - 1)[j] = q[j]
           /\ \A j \in 1 .. (Len(q) - i) : SubSeq(q, i + 1, Len(q))[j] = q[i + j]
<1> DEFINE n == Len(q)
           a == SubSeq(q, 1, i - 1)
           b == SubSeq(q, i + 1, n)
<1>1. n \in Nat /\ \A j \in 1 .. n : q[j] \in T
  BY SeqSet
<1> HIDE DEF n
<1>2. i \in 1 .. n
  BY DEF n
<1>3. 1 \in Int /\ i - 1 \in Int /\ i + 1 \in Int /\ n \in Int
  BY <1>1, <1>2
<1>4. /\ a \in Seq(T) /\ Len(a) = IF 1 <= i - 1 THEN i - 1 - 1 + 1 ELSE 0
      /\ \A j \in 1 .. i - 1 - 1 + 1 : a[j] = q[1 + j - 1]
  <2>1. \A j \in 1 .. (i - 1) : q[j] \in T
    BY <1>1, <1>2
  <2>2. QED BY <1>3, <2>1, SubSeqProperties
<1>5. /\ b \in Seq(T) /\ Len(b) = IF i + 1 <= n THEN n - (i + 1) + 1 ELSE 0
      /\ \A j \in 1 .. n - (i + 1) + 1 : b[j] = q[i + 1 + j - 1]
  <2>1. \A j \in (i + 1) .. n : q[j] \in T
    BY <1>1, <1>2
  <2>2. QED BY <1>3, <2>1, SubSeqProperties
<1> HIDE DEF a, b
<1>6. Len(a) = i - 1 /\ Len(b) = n - i
  BY <1>1, <1>2, <1>4, <1>5
<1>7. ASSUME NEW j \in 1 .. (i - 1) PROVE a[j] = q[j]
  <2>1. j \in 1 .. i - 1 - 1 + 1 /\ 1 + j - 1 = j
    BY <1>2
  <2>2. QED BY <1>4, <2>1
<1>8. ASSUME NEW j \in 1 .. (n - i) PROVE b[j] = q[i + j]
  <2>1. j \in 1 .. n - (i + 1) + 1 /\ i + 1 + j - 1 = i + j
    BY <1>1, <1>2
  <2>2. QED BY <1>5, <2>1
<1>9. QED BY <1>4, <1>5, <1>6, <1>7, <1>8 DEF a, b, n

-----------------------------------------------------------------------------
(* The packets and the messages in them.                                   *)

Messages == {p \in Packet : IsMessage(p)}
Others == {p \in Packet : IsOther(p)}
Takens == {p \in Packet : Taken(p)}

\* An SRV_ERROR that answers somebody else, and all else that is no message.
IsForeign(p) == p.kind = "error" /\ p.to = Foreign
IsOwn(p) == IsOther(p) /\ ~IsForeign(p)
Owns == {p \in Packet : IsOwn(p)}

LEMMA ThoseSel ==
    ASSUME NEW q \in Seq(Packet)
    PROVE  /\ Those(q, IsMessage) = Sel(Packet, q, Messages)
           /\ Those(q, IsOther) = Sel(Packet, q, Others)
           /\ Those(q, Taken) = Sel(Packet, q, Takens)
           /\ Those(q, IsOwn) = Sel(Packet, q, Owns)
<1>1. \A i \in DOMAIN q : q[i] \in Packet
  BY SeqSet
<1>2. \A i \in DOMAIN q :
        /\ Pick(Packet, Messages)[q[i]] = IF IsMessage(q[i]) THEN <<q[i]>> ELSE <<>>
        /\ Pick(Packet, Others)[q[i]] = IF IsOther(q[i]) THEN <<q[i]>> ELSE <<>>
        /\ Pick(Packet, Takens)[q[i]] = IF Taken(q[i]) THEN <<q[i]>> ELSE <<>>
        /\ Pick(Packet, Owns)[q[i]] = IF IsOwn(q[i]) THEN <<q[i]>> ELSE <<>>
  BY <1>1 DEF Pick, Messages, Others, Takens, Owns
<1>3. [i \in DOMAIN q |-> Pick(Packet, Messages)[q[i]]]
        = [i \in DOMAIN q |-> IF IsMessage(q[i]) THEN <<q[i]>> ELSE <<>>]
  BY <1>2
<1>4. [i \in DOMAIN q |-> Pick(Packet, Others)[q[i]]]
        = [i \in DOMAIN q |-> IF IsOther(q[i]) THEN <<q[i]>> ELSE <<>>]
  BY <1>2
<1>5. [i \in DOMAIN q |-> Pick(Packet, Takens)[q[i]]]
        = [i \in DOMAIN q |-> IF Taken(q[i]) THEN <<q[i]>> ELSE <<>>]
  BY <1>2
<1>6. Those(q, IsMessage) = Sel(Packet, q, Messages)
  BY <1>3 DEF Those, Sel, Each
<1>7. Those(q, IsOther) = Sel(Packet, q, Others)
  BY <1>4 DEF Those, Sel, Each
<1>8. Those(q, Taken) = Sel(Packet, q, Takens)
  BY <1>5 DEF Those, Sel, Each
<1>9. Those(q, IsOwn) = Sel(Packet, q, Owns)
  <2>1. [i \in DOMAIN q |-> Pick(Packet, Owns)[q[i]]]
          = [i \in DOMAIN q |-> IF IsOwn(q[i]) THEN <<q[i]>> ELSE <<>>]
    BY <1>2
  <2>2. QED BY <2>1 DEF Those, Sel, Each
<1>10. QED BY <1>6, <1>7, <1>8, <1>9

LEMMA ThoseType ==
    ASSUME NEW q \in Seq(Packet)
    PROVE  /\ Those(q, IsMessage) \in Seq(Packet)
           /\ ToSet(Those(q, IsMessage)) = {p \in ToSet(q) : IsMessage(p)}
           /\ Those(q, IsOther) \in Seq(Packet)
           /\ ToSet(Those(q, IsOther)) = {p \in ToSet(q) : IsOther(p)}
           /\ Those(q, Taken) \in Seq(Packet)
           /\ ToSet(Those(q, Taken)) = {p \in ToSet(q) : Taken(p)}
           /\ Those(q, IsOwn) \in Seq(Packet)
           /\ ToSet(Those(q, IsOwn)) = {p \in ToSet(q) : IsOwn(p)}
<1>1. ToSet(q) \subseteq Packet
  BY SeqSet
<1>2. /\ Sel(Packet, q, Messages) \in Seq(Packet)
      /\ ToSet(Sel(Packet, q, Messages)) = ToSet(q) \cap Messages
      /\ Sel(Packet, q, Others) \in Seq(Packet)
      /\ ToSet(Sel(Packet, q, Others)) = ToSet(q) \cap Others
      /\ Sel(Packet, q, Takens) \in Seq(Packet)
      /\ ToSet(Sel(Packet, q, Takens)) = ToSet(q) \cap Takens
      /\ Sel(Packet, q, Owns) \in Seq(Packet)
      /\ ToSet(Sel(Packet, q, Owns)) = ToSet(q) \cap Owns
  BY SelFacts
<1>3. /\ ToSet(q) \cap Messages = {p \in ToSet(q) : IsMessage(p)}
      /\ ToSet(q) \cap Others = {p \in ToSet(q) : IsOther(p)}
      /\ ToSet(q) \cap Takens = {p \in ToSet(q) : Taken(p)}
      /\ ToSet(q) \cap Owns = {p \in ToSet(q) : IsOwn(p)}
  BY <1>1 DEF Messages, Others, Takens, Owns
<1>4. QED BY <1>2, <1>3, ThoseSel

LEMMA ThoseConcat ==
    ASSUME NEW q \in Seq(Packet), NEW r \in Seq(Packet)
    PROVE  /\ Those(q \o r, IsMessage) = Those(q, IsMessage) \o Those(r, IsMessage)
           /\ Those(q \o r, IsOther) = Those(q, IsOther) \o Those(r, IsOther)
           /\ Those(q \o r, Taken) = Those(q, Taken) \o Those(r, Taken)
           /\ Those(q \o r, IsOwn) = Those(q, IsOwn) \o Those(r, IsOwn)
<1>1. q \o r \in Seq(Packet)
  BY ConcatProperties
<1>2. \A S : Sel(Packet, q \o r, S) = Sel(Packet, q, S) \o Sel(Packet, r, S)
  BY SelConcat
<1>3. QED BY <1>1, <1>2, ThoseSel

LEMMA ThoseSmall ==
    ASSUME NEW p \in Packet
    PROVE  /\ Those(<<>>, IsMessage) = <<>> /\ Those(<<>>, IsOther) = <<>>
           /\ Those(<<p>>, IsMessage) = IF IsMessage(p) THEN <<p>> ELSE <<>>
           /\ Those(<<p>>, IsOther) = IF IsOther(p) THEN <<p>> ELSE <<>>
           /\ Those(<<p>>, IsOwn) = IF IsOwn(p) THEN <<p>> ELSE <<>>
<1>1. <<>> \in Seq(Packet) /\ <<p>> \in Seq(Packet)
  BY EmptySeq, SingleSet
<1>2. \A S : /\ Sel(Packet, <<>>, S) = <<>>
            /\ Sel(Packet, <<p>>, S) = IF p \in S THEN <<p>> ELSE <<>>
  BY SelSmall
<1>3. (p \in Messages <=> IsMessage(p)) /\ (p \in Others <=> IsOther(p)) /\ (p \in Owns <=> IsOwn(p))
  BY DEF Messages, Others, Owns
<1>4. QED BY <1>1, <1>2, <1>3, ThoseSel

\* What is taken, when it is the same as what answers nobody else.
LEMMA TakenIsOwn ==
    ASSUME NEW q \in Seq(Packet), \A p \in ToSet(q) : Taken(p) <=> IsOwn(p)
    PROVE  Those(q, Taken) = Those(q, IsOwn)
<1>1. ToSet(q) \subseteq Packet
  BY SeqSet
<1>2. ToSet(q) \cap Takens = ToSet(q) \cap Owns
  BY <1>1 DEF Takens, Owns
<1>3. QED BY <1>2, SelSame, ThoseSel

LEMMA OwnAll ==
    ASSUME NEW q \in Seq(Packet)
    PROVE  /\ (\A p \in ToSet(q) : IsOwn(p)) => Those(q, IsOwn) = q
           /\ (\A p \in ToSet(q) : ~IsOwn(p)) => Those(q, IsOwn) = <<>>
<1>1. ToSet(q) \subseteq Packet
  BY SeqSet
<1>2. ASSUME \A p \in ToSet(q) : IsOwn(p) PROVE Those(q, IsOwn) = q
  <2>1. ToSet(q) \subseteq Owns
    BY <1>1, <1>2 DEF Owns
  <2>2. QED BY <2>1, SelAll, ThoseSel
<1>3. ASSUME \A p \in ToSet(q) : ~IsOwn(p) PROVE Those(q, IsOwn) = <<>>
  <2>1. Those(q, IsOwn) \in Seq(Packet) /\ ToSet(Those(q, IsOwn)) = {}
    BY <1>3, ThoseType
  <2>2. QED BY <2>1, NothingIn
<1>4. QED BY <1>2, <1>3

LEMMA AllOther ==
    ASSUME NEW q \in Seq(Packet), \A p \in ToSet(q) : IsOther(p)
    PROVE  Those(q, IsOther) = q /\ Those(q, IsMessage) = <<>>
<1>1. ToSet(q) \subseteq Packet
  BY SeqSet
<1>2. ToSet(q) \subseteq Others
  BY <1>1 DEF Others
<1>3. Those(q, IsOther) = q
  BY <1>2, SelAll, ThoseSel
<1>4. Those(q, IsMessage) \in Seq(Packet) /\ ToSet(Those(q, IsMessage)) = {}
  BY ThoseType DEF IsOther
<1>5. Those(q, IsMessage) = <<>>
  BY <1>4, NothingIn
<1>6. QED BY <1>3, <1>5

PacketMsgs == [p \in Packet |-> p.msgs]

LEMMA MsgsFacts ==
    /\ PacketMsgs \in Gives(Packet, Message)
    /\ \A q \in Seq(Packet) : MsgsIn(q) = Each(q, PacketMsgs)
<1>1. PacketMsgs \in Gives(Packet, Message)
  BY DEF PacketMsgs, Gives, Packet
<1>2. ASSUME NEW q \in Seq(Packet) PROVE MsgsIn(q) = Each(q, PacketMsgs)
  <2>1. \A i \in DOMAIN q : q[i] \in Packet
    BY SeqSet
  <2>2. [i \in DOMAIN q |-> PacketMsgs[q[i]]] = [i \in DOMAIN q |-> q[i].msgs]
    BY <2>1 DEF PacketMsgs
  <2>3. QED BY <2>2 DEF MsgsIn, Each
<1>3. QED BY <1>1, <1>2

LEMMA MsgsType ==
    ASSUME NEW q \in Seq(Packet)
    PROVE  MsgsIn(q) \in Seq(Message)
BY MsgsFacts, EachType

LEMMA MsgsConcat ==
    ASSUME NEW q \in Seq(Packet), NEW r \in Seq(Packet)
    PROVE  MsgsIn(q \o r) = MsgsIn(q) \o MsgsIn(r)
<1>1. q \o r \in Seq(Packet)
  BY ConcatProperties
<1>2. Each(q \o r, PacketMsgs) = Each(q, PacketMsgs) \o Each(r, PacketMsgs)
  BY MsgsFacts, EachConcat
<1>3. QED BY <1>1, <1>2, MsgsFacts

LEMMA MsgsSmall ==
    ASSUME NEW p \in Packet
    PROVE  MsgsIn(<<>>) = <<>> /\ MsgsIn(<<p>>) = p.msgs
<1>1. <<>> \in Seq(Packet) /\ <<p>> \in Seq(Packet)
  BY EmptySeq, SingleSet
<1>2. Each(<<>>, PacketMsgs) = <<>> /\ Each(<<p>>, PacketMsgs) = PacketMsgs[p]
  BY MsgsFacts, EachSmall
<1>3. QED BY <1>1, <1>2, MsgsFacts DEF PacketMsgs

LEMMA MsgsNone ==
    ASSUME NEW q \in Seq(Packet), \A p \in ToSet(q) : p.msgs = <<>>
    PROVE  MsgsIn(q) = <<>>
<1>1. \A p \in ToSet(q) : PacketMsgs[p] = <<>>
  BY SeqSet DEF PacketMsgs
<1>2. QED BY <1>1, MsgsFacts, EachNone

Own(s) == [m \in Message |-> IF m.from = s THEN <<m.n>> ELSE <<>>]

LEMMA FromFacts ==
    ASSUME NEW s
    PROVE  /\ Own(s) \in Gives(Message, Nat)
           /\ \A q \in Seq(Message) : From(s, q) = Each(q, Own(s))
<1>1. Own(s) \in Gives(Message, Nat)
  <2>1. \A m \in Message : m.n \in Nat /\ <<m.n>> \in Seq(Nat) /\ <<>> \in Seq(Nat)
    BY SingleSet, EmptySeq DEF Message
  <2>2. QED BY <2>1 DEF Own, Gives
<1>2. ASSUME NEW q \in Seq(Message) PROVE From(s, q) = Each(q, Own(s))
  <2>1. \A i \in DOMAIN q : q[i] \in Message
    BY SeqSet
  <2>2. [i \in DOMAIN q |-> Own(s)[q[i]]]
            = [i \in DOMAIN q |-> IF q[i].from = s THEN <<q[i].n>> ELSE <<>>]
    BY <2>1 DEF Own
  <2>3. QED BY <2>2 DEF From, Each
<1>3. QED BY <1>1, <1>2

LEMMA FromType ==
    ASSUME NEW s, NEW q \in Seq(Message)
    PROVE  From(s, q) \in Seq(Nat)
BY FromFacts, EachType

LEMMA FromConcat ==
    ASSUME NEW s, NEW q \in Seq(Message), NEW r \in Seq(Message)
    PROVE  From(s, q \o r) = From(s, q) \o From(s, r)
<1>1. q \o r \in Seq(Message)
  BY ConcatProperties
<1>2. Each(q \o r, Own(s)) = Each(q, Own(s)) \o Each(r, Own(s))
  BY FromFacts, EachConcat
<1>3. QED BY <1>1, <1>2, FromFacts

LEMMA FromSmall ==
    ASSUME NEW s, NEW m \in Message
    PROVE  /\ From(s, <<>>) = <<>>
           /\ From(s, <<m>>) = IF m.from = s THEN <<m.n>> ELSE <<>>
<1>1. <<>> \in Seq(Message) /\ <<m>> \in Seq(Message)
  BY EmptySeq, SingleSet
<1>2. Each(<<>>, Own(s)) = <<>> /\ Each(<<m>>, Own(s)) = Own(s)[m]
  BY FromFacts, EachSmall
<1>3. QED BY <1>1, <1>2, FromFacts DEF Own

LEMMA FromNone ==
    ASSUME NEW s, NEW q \in Seq(Message), \A m \in ToSet(q) : m.from # s
    PROVE  From(s, q) = <<>>
<1>1. \A m \in ToSet(q) : Own(s)[m] = <<>>
  BY SeqSet DEF Own
<1>2. QED BY <1>1, FromFacts, EachNone

\* All are from s.
LEMMA FromAll ==
    ASSUME NEW s, NEW q \in Seq(Message), \A m \in ToSet(q) : m.from = s
    PROVE  From(s, q) = [j \in DOMAIN q |-> q[j].n]
<1> DEFINE h == [m \in Message |-> m.n]
<1>1. From(s, q) = Each(q, Own(s)) /\ Own(s) \in Gives(Message, Nat)
  BY FromFacts
<1>2. h \in [Message -> Nat]
  BY DEF Message
<1>3. \A m \in ToSet(q) : Own(s)[m] = <<h[m]>>
  BY SeqSet DEF Own
<1>4. Each(q, Own(s)) = [j \in DOMAIN q |-> h[q[j]]]
  <2> HIDE DEF h
  <2>1. QED BY <1>1, <1>2, <1>3, EachSingle
<1>5. \A j \in DOMAIN q : h[q[j]] = q[j].n
  BY SeqSet
<1>6. [j \in DOMAIN q |-> h[q[j]]] = [j \in DOMAIN q |-> q[j].n]
  BY <1>5
<1>7. QED BY <1>1, <1>4, <1>6

\* The senders are distinct, and each has his own messages.
Good(map) ==
    /\ \A i \in DOMAIN map : \A m \in ToSet(map[i].msgs) : m.from = map[i].uin
    /\ \A i, j \in DOMAIN map : map[i].uin = map[j].uin => i = j

-----------------------------------------------------------------------------
(* The map of messages by sender.                                          *)

Content(map) == FlattenSeq([i \in DOMAIN map |-> map[i].msgs])
FiledMsgs == [e \in Filed |-> e.msgs]

LEMMA FiledType ==
    /\ \A e \in Filed : /\ e.uin \in Sender /\ e.msgs \in Seq(Message) /\ e.msgs # <<>>
                        /\ e = [uin |-> e.uin, msgs |-> e.msgs]
    /\ \A u \in Sender, q \in Seq(Message) :
            q # <<>> => [uin |-> u, msgs |-> q] \in Filed
BY DEF Filed

LEMMA ContentFacts ==
    /\ FiledMsgs \in Gives(Filed, Message)
    /\ \A map \in Seq(Filed) : Content(map) = Each(map, FiledMsgs)
<1>1. FiledMsgs \in Gives(Filed, Message)
  BY FiledType DEF FiledMsgs, Gives
<1>2. ASSUME NEW map \in Seq(Filed) PROVE Content(map) = Each(map, FiledMsgs)
  <2>1. \A i \in DOMAIN map : map[i] \in Filed
    BY SeqSet
  <2>2. [i \in DOMAIN map |-> FiledMsgs[map[i]]] = [i \in DOMAIN map |-> map[i].msgs]
    BY <2>1 DEF FiledMsgs
  <2>3. QED BY <2>2 DEF Content, Each
<1>3. QED BY <1>1, <1>2

LEMMA ContentType ==
    ASSUME NEW map \in Seq(Filed)
    PROVE  Content(map) \in Seq(Message)
BY ContentFacts, EachType

LEMMA ContentConcat ==
    ASSUME NEW map \in Seq(Filed), NEW r \in Seq(Filed)
    PROVE  Content(map \o r) = Content(map) \o Content(r)
<1>1. map \o r \in Seq(Filed)
  BY ConcatProperties
<1>2. Each(map \o r, FiledMsgs) = Each(map, FiledMsgs) \o Each(r, FiledMsgs)
  BY ContentFacts, EachConcat
<1>3. QED BY <1>1, <1>2, ContentFacts

LEMMA ContentSmall ==
    ASSUME NEW e \in Filed
    PROVE  Content(<<e>>) = e.msgs
<1>1. <<e>> \in Seq(Filed)
  BY SingleSet
<1>2. Each(<<e>>, FiledMsgs) = FiledMsgs[e]
  BY ContentFacts, EachSmall
<1>3. QED BY <1>1, <1>2, ContentFacts DEF FiledMsgs

\* Nobody in the map has messages from s.
LEMMA NothingFiled ==
    ASSUME NEW map \in Seq(Filed), NEW s,
           \A i \in 1 .. Len(map) : \A m \in ToSet(map[i].msgs) : m.from # s
    PROVE  From(s, Content(map)) = <<>>
<1>1. ToSet(Content(map)) = AllGiven(map, FiledMsgs)
  BY ContentFacts, EachSet
<1>2. ToSet(map) = {map[i] : i \in 1 .. Len(map)} /\ ToSet(map) \subseteq Filed
  BY SeqSet
<1>3. ASSUME NEW m \in ToSet(Content(map)) PROVE m.from # s
  <2>1. PICK e \in ToSet(map) : m \in ToSet(FiledMsgs[e])
    BY <1>1, <1>3 DEF AllGiven
  <2>2. PICK i \in 1 .. Len(map) : e = map[i]
    BY <1>2
  <2>3. FiledMsgs[e] = map[i].msgs
    BY <1>2, <2>2 DEF FiledMsgs
  <2>4. QED BY <2>1, <2>3
<1>4. Content(map) \in Seq(Message)
  BY ContentType
<1>5. QED BY <1>3, <1>4, FromNone

\* What a good map has from s: what it has under his name, or nothing.
LEMMA FiledNone ==
    ASSUME NEW map \in Seq(Filed), Good(map), NEW s,
           \A i \in 1 .. Len(map) : map[i].uin # s
    PROVE  From(s, Content(map)) = <<>>
<1>1. DOMAIN map = 1 .. Len(map)
  BY SeqSet
<1>2. \A i \in 1 .. Len(map) : \A m \in ToSet(map[i].msgs) : m.from # s
  BY <1>1 DEF Good
<1>3. QED BY <1>2, NothingFiled

LEMMA FiledOne ==
    ASSUME NEW map \in Seq(Filed), Good(map), NEW i \in 1 .. Len(map)
    PROVE  /\ From(map[i].uin, Content(map)) = From(map[i].uin, map[i].msgs)
           /\ From(map[i].uin, map[i].msgs) = [j \in DOMAIN map[i].msgs |-> map[i].msgs[j].n]
<1> DEFINE n == Len(map)
           s == map[i].uin
           a == SubSeq(map, 1, i - 1)
           b == SubSeq(map, i + 1, n)
           e == <<map[i]>>
<1>1. n \in Nat /\ DOMAIN map = 1 .. n /\ \A j \in 1 .. n : map[j] \in Filed
  BY SeqSet
<1>2. /\ a \in Seq(Filed) /\ b \in Seq(Filed) /\ Len(a) = i - 1 /\ Len(b) = n - i
      /\ \A j \in 1 .. (i - 1) : a[j] = map[j]
      /\ \A j \in 1 .. (n - i) : b[j] = map[i + j]
  BY SplitAt
<1>3. e \in Seq(Filed) /\ Len(e) = 1 /\ e[1] = map[i]
  BY <1>1, SingleSet
<1>4. i \in 1 .. n
  OBVIOUS
<1>5. Content(e) = map[i].msgs /\ map[i].msgs \in Seq(Message)
  BY <1>1, ContentSmall, FiledType
<1> HIDE DEF n, a, b, e
<1>6. /\ a \o e \in Seq(Filed) /\ Len(a \o e) = i
      /\ \A j \in 1 .. i : (a \o e)[j] = IF j <= i - 1 THEN a[j] ELSE e[j - (i - 1)]
  <2>1. /\ a \o e \in Seq(Filed) /\ Len(a \o e) = Len(a) + Len(e)
        /\ \A j \in 1 .. Len(a) + Len(e) : (a \o e)[j] = IF j <= Len(a) THEN a[j] ELSE e[j - Len(a)]
    BY <1>2, <1>3, ConcatProperties
  <2>2. Len(a) + Len(e) = i
    BY <1>1, <1>2, <1>3, <1>4
  <2>3. QED BY <1>2, <2>1, <2>2
<1>7. /\ (a \o e) \o b \in Seq(Filed) /\ Len((a \o e) \o b) = n
      /\ \A j \in 1 .. n : ((a \o e) \o b)[j] = IF j <= i THEN (a \o e)[j] ELSE b[j - i]
  <2>1. PICK x \in Seq(Filed) : x = a \o e
    BY <1>6
  <2>2. /\ x \o b \in Seq(Filed) /\ Len(x \o b) = Len(x) + Len(b)
        /\ \A j \in 1 .. Len(x) + Len(b) : (x \o b)[j] = IF j <= Len(x) THEN x[j] ELSE b[j - Len(x)]
    BY <1>2, ConcatProperties
  <2>3. Len(x) = i /\ Len(x) + Len(b) = n
    <3>1. Len(x) = i
      BY <1>6, <2>1
    <3>2. i + (n - i) = n
      BY <1>1, <1>4
    <3>3. QED BY <1>2, <3>1, <3>2
  <2>4. QED BY <2>1, <2>2, <2>3
<1>8. map = (a \o e) \o b
  <2>1. ASSUME NEW j \in 1 .. n PROVE map[j] = ((a \o e) \o b)[j]
    <3>1. CASE j <= i - 1
      <4>1. j \in 1 .. i /\ j <= i /\ j \in 1 .. (i - 1)
        BY <1>1, <1>4, <3>1
      <4>2. QED BY <1>2, <1>6, <1>7, <3>1, <4>1
    <3>2. CASE j = i
      <4>1. i \in 1 .. i /\ ~(i <= i - 1) /\ i - (i - 1) = 1
        BY <1>1, <1>4
      <4>2. (a \o e)[i] = map[i]
        BY <1>3, <1>6, <4>1
      <4>3. i <= i
        BY <1>4
      <4>4. QED BY <1>7, <3>2, <4>2, <4>3
    <3>3. CASE i < j
      <4>1. ~(j <= i) /\ j - i \in 1 .. (n - i) /\ i + (j - i) = j
        BY <1>1, <1>4, <3>3
      <4>2. QED BY <1>2, <1>7, <4>1
    <3>4. j <= i - 1 \/ j = i \/ i < j
      BY <1>1, <1>4
    <3>5. QED BY <3>1, <3>2, <3>3, <3>4
  <2>2. Len(map) = Len((a \o e) \o b) /\ \A j \in 1 .. Len(map) : map[j] = ((a \o e) \o b)[j]
    BY <1>7, <2>1 DEF n
  <2>3. QED BY <1>7, <2>2, SeqEqual
<1>9. \A j \in 1 .. n : \A m \in ToSet(map[j].msgs) : j # i => m.from # s
  BY <1>1, <1>4 DEF Good
<1>10. From(s, Content(a)) = <<>>
  <2>1. \A j \in 1 .. Len(a) : \A m \in ToSet(a[j].msgs) : m.from # s
    <3>1. \A j \in 1 .. (i - 1) : j \in 1 .. n /\ j # i
      BY <1>1, <1>4
    <3>2. QED BY <1>2, <1>9, <3>1
  <2>2. QED BY <1>2, <2>1, NothingFiled
<1>11. From(s, Content(b)) = <<>>
  <2>1. \A j \in 1 .. Len(b) : \A m \in ToSet(b[j].msgs) : m.from # s
    <3>1. ASSUME NEW j \in 1 .. (n - i), NEW m \in ToSet(b[j].msgs) PROVE m.from # s
      <4>1. PICK k \in 1 .. n : k = i + j /\ k # i
        BY <1>1, <1>4
      <4>2. b[j] = map[k]
        BY <1>2, <4>1
      <4>3. QED BY <1>9, <3>1, <4>1, <4>2
    <3>2. QED BY <1>2, <3>1
  <2>2. QED BY <1>2, <2>1, NothingFiled
<1>12. Content(map) = (Content(a) \o map[i].msgs) \o Content(b)
  <2>1. Content(a \o e) = Content(a) \o Content(e)
    BY <1>2, <1>3, ContentConcat
  <2>2. Content((a \o e) \o b) = Content(a \o e) \o Content(b)
    BY <1>2, <1>6, ContentConcat
  <2>3. QED BY <1>5, <1>8, <2>1, <2>2
<1>13. From(s, Content(map)) = (From(s, Content(a)) \o From(s, map[i].msgs)) \o From(s, Content(b))
  <2>1. Content(a) \in Seq(Message) /\ Content(b) \in Seq(Message)
    BY <1>2, ContentType
  <2>2. Content(a) \o map[i].msgs \in Seq(Message)
    BY <1>5, <2>1, ConcatProperties
  <2>3. From(s, Content(a) \o map[i].msgs) = From(s, Content(a)) \o From(s, map[i].msgs)
    BY <1>5, <2>1, FromConcat
  <2>4. From(s, (Content(a) \o map[i].msgs) \o Content(b))
            = From(s, Content(a) \o map[i].msgs) \o From(s, Content(b))
    BY <2>1, <2>2, FromConcat
  <2>5. QED BY <1>12, <2>3, <2>4
<1>14. From(s, map[i].msgs) \in Seq(Nat)
  BY <1>5, FromType
<1>15. From(s, Content(map)) = From(s, map[i].msgs)
  BY <1>10, <1>11, <1>13, <1>14, ConcatEmptySeq
<1>16. \A m \in ToSet(map[i].msgs) : m.from = s
  BY <1>1, <1>4 DEF Good
<1>17. From(s, map[i].msgs) = [j \in DOMAIN map[i].msgs |-> map[i].msgs[j].n]
  BY <1>5, <1>16, FromAll
<1>18. QED BY <1>15, <1>17

\* The senders of map are the first of those of new.
Grows(map, new) ==
    Len(map) <= Len(new) /\ \A i \in 1 .. Len(map) : new[i].uin = map[i].uin

LEMMA FileFacts ==
    ASSUME NEW map \in Seq(Filed), NEW m \in Message
    PROVE  /\ File(map, m) \in Seq(Filed) /\ Grows(map, File(map, m))
           /\ \A i \in 1 .. Len(map) :
                File(map, m)[i].msgs = IF map[i].uin = m.from THEN Append(map[i].msgs, m)
                                       ELSE map[i].msgs
           /\ (\E i \in 1 .. Len(map) : map[i].uin = m.from) => Len(File(map, m)) = Len(map)
           /\ (\A i \in 1 .. Len(map) : map[i].uin # m.from) =>
                /\ Len(File(map, m)) = Len(map) + 1
                /\ File(map, m)[Len(map) + 1] = [uin |-> m.from, msgs |-> <<m>>]
<1> DEFINE n == Len(map)
           at == {i \in DOMAIN map : map[i].uin = m.from}
           new == File(map, m)
           one == [uin |-> m.from, msgs |-> <<m>>]
<1>1. n \in Nat /\ DOMAIN map = 1 .. n /\ \A i \in 1 .. n : map[i] \in Filed
  BY SeqSet
<1>2. one \in Filed
  <2>1. m.from \in Sender
    BY DEF Message
  <2>2. <<m>> \in Seq(Message) /\ <<m>> # <<>>
    BY SingleSet, EmptySeq
  <2>3. QED BY <2>1, <2>2, FiledType
<1>3. CASE at = {}
  <2>1. new = Append(map, one)
    BY <1>3 DEF File
  <2>2. \A i \in 1 .. n : map[i].uin # m.from
    BY <1>1, <1>3
  <2> HIDE DEF new, one, at
  <2>3. /\ new \in Seq(Filed) /\ Len(new) = n + 1 /\ new[n + 1] = one
        /\ \A i \in 1 .. n : new[i] = map[i]
    BY <1>2, <2>1, AppendProperties
  <2>4. n <= Len(new)
    BY <1>1, <2>3
  <2>5. QED BY <1>1, <2>2, <2>3, <2>4 DEF Grows, new, one
<1>4. CASE at # {}
  <2>1. new = [i \in DOMAIN map |->
                IF i \in at THEN [map[i] EXCEPT !.msgs = Append(@, m)] ELSE map[i]]
    BY <1>4 DEF File
  <2>2. ASSUME NEW i \in 1 .. n
        PROVE  /\ new[i] \in Filed /\ new[i].uin = map[i].uin
               /\ new[i].msgs = IF map[i].uin = m.from THEN Append(map[i].msgs, m)
                                ELSE map[i].msgs
    <3>1. i \in at <=> map[i].uin = m.from
      BY <1>1
    <3>2. new[i] = IF i \in at THEN [map[i] EXCEPT !.msgs = Append(@, m)] ELSE map[i]
      BY <1>1, <2>1
    <3>3. /\ map[i].uin \in Sender /\ map[i].msgs \in Seq(Message)
          /\ map[i] = [uin |-> map[i].uin, msgs |-> map[i].msgs]
      BY <1>1, FiledType
    <3> DEFINE q == Append(map[i].msgs, m)
    <3>4. q \in Seq(Message) /\ q # <<>>
      BY <3>3, AppendProperties
    <3> HIDE DEF at, new, q
    <3>5. [map[i] EXCEPT !.msgs = q] = [uin |-> map[i].uin, msgs |-> q]
      <4> DEFINE u == map[i].uin
                 r == map[i].msgs
      <4>1. map[i] = [uin |-> u, msgs |-> r]
        BY <3>3
      <4> HIDE DEF u, r
      <4>2. [map[i] EXCEPT !.msgs = q] = [uin |-> u, msgs |-> q]
        BY <4>1
      <4>3. QED BY <4>2 DEF u
    <3>6. [map[i] EXCEPT !.msgs = Append(@, m)] = [map[i] EXCEPT !.msgs = q]
      BY DEF q
    <3>7. [uin |-> map[i].uin, msgs |-> q] \in Filed
      BY <3>3, <3>4, FiledType
    <3>8. CASE i \in at
      <4>1. new[i] = [uin |-> map[i].uin, msgs |-> q]
        BY <3>2, <3>5, <3>6, <3>8
      <4>2. QED BY <3>1, <3>7, <3>8, <4>1 DEF q
    <3>9. CASE i \notin at
      BY <1>1, <3>1, <3>2, <3>9
    <3>10. QED BY <3>8, <3>9
  <2>3. \E i \in 1 .. n : map[i].uin = m.from
    BY <1>1, <1>4
  <2>4. DOMAIN new = 1 .. n
    BY <1>1, <2>1
  <2>5. new \in [1 .. n -> Filed]
    <3>1. new = [i \in 1 .. n |-> new[i]]
      BY <1>1, <2>1
    <3> HIDE DEF new
    <3>2. QED BY <2>2, <3>1
  <2> HIDE DEF new, at, n
  <2>6. new \in Seq(Filed) /\ Len(new) = n
    BY <1>1, <2>5, IsASeq, LenProperties
  <2>7. n <= Len(new)
    BY <1>1, <2>6
  <2>8. Grows(map, new)
    BY <2>2, <2>7 DEF Grows, n
  <2>9. QED BY <2>2, <2>3, <2>6, <2>8 DEF new, n
<1>5. QED BY <1>3, <1>4

LEMMA FileGood ==
    ASSUME NEW map \in Seq(Filed), NEW m \in Message, Good(map)
    PROVE  Good(File(map, m))
<1> DEFINE n == Len(map)
           new == File(map, m)
           k == Len(new)
<1>1. n \in Nat /\ DOMAIN map = 1 .. n /\ \A i \in 1 .. n : map[i] \in Filed
  BY SeqSet
<1>2. /\ new \in Seq(Filed) /\ Grows(map, new)
      /\ \A i \in 1 .. n :
            new[i].msgs = IF map[i].uin = m.from THEN Append(map[i].msgs, m) ELSE map[i].msgs
      /\ (\E i \in 1 .. n : map[i].uin = m.from) => k = n
      /\ (\A i \in 1 .. n : map[i].uin # m.from) =>
            k = n + 1 /\ new[n + 1] = [uin |-> m.from, msgs |-> <<m>>]
  BY FileFacts
<1>3. DOMAIN new = 1 .. k
  BY <1>2, SeqSet
<1>4. \A i \in 1 .. n : new[i].uin = map[i].uin
  BY <1>2 DEF Grows
<1> HIDE DEF n, new, k
<1>5. ASSUME NEW i \in 1 .. n PROVE \A x \in ToSet(new[i].msgs) : x.from = new[i].uin
  <2>1. map[i].msgs \in Seq(Message)
    BY <1>1, FiledType
  <2>2. ToSet(Append(map[i].msgs, m)) = ToSet(map[i].msgs) \cup {m}
    <3>1. Append(map[i].msgs, m) = map[i].msgs \o <<m>>
      BY <2>1, AppendIsConcat
    <3>2. <<m>> \in Seq(Message)
      BY SingleSet
    <3>3. ToSet(map[i].msgs \o <<m>>) = ToSet(map[i].msgs) \cup ToSet(<<m>>)
      <4>1. PICK q \in Seq(Message) : q = <<m>>
        BY <3>2
      <4>2. ToSet(map[i].msgs \o q) = ToSet(map[i].msgs) \cup ToSet(q)
        BY <2>1, ConcatSet
      <4>3. QED BY <4>1, <4>2
    <3>4. ToSet(<<m>>) = {m}
      BY SingleSet
    <3>5. QED BY <3>1, <3>3, <3>4
  <2>3. \A x \in ToSet(map[i].msgs) : x.from = map[i].uin
    BY <1>1 DEF Good
  <2>4. QED BY <1>2, <1>4, <2>2, <2>3
<1>6. \A i, j \in 1 .. n : new[i].uin = new[j].uin => i = j
  BY <1>1, <1>4 DEF Good
<1>7. CASE \E i \in 1 .. n : map[i].uin = m.from
  <2>1. k = n
    BY <1>2, <1>7
  <2>2. QED BY <1>3, <1>5, <1>6, <2>1 DEF Good, new
<1>8. CASE \A i \in 1 .. n : map[i].uin # m.from
  <2>1. k = n + 1 /\ new[n + 1].uin = m.from /\ new[n + 1].msgs = <<m>>
    BY <1>2, <1>8
  <2>2. \A x \in ToSet(new[n + 1].msgs) : x.from = new[n + 1].uin
    BY <2>1, SingleSet
  <2>3. \A i \in 1 .. n : new[i].uin # new[n + 1].uin
    BY <1>4, <1>8, <2>1
  <2>4. \A i \in 1 .. k : i \in 1 .. n \/ i = n + 1
    BY <1>1, <2>1
  <2>5. \A i \in 1 .. k : \A x \in ToSet(new[i].msgs) : x.from = new[i].uin
    BY <1>5, <2>2, <2>4
  <2>6. \A i, j \in 1 .. k : new[i].uin = new[j].uin => i = j
    BY <1>6, <2>3, <2>4
  <2>7. QED BY <1>3, <2>5, <2>6 DEF Good, new
<1>9. QED BY <1>7, <1>8

\* A message is filed after the others of its sender.
LEMMA FileContent ==
    ASSUME NEW map \in Seq(Filed), NEW m \in Message, Good(map), NEW s
    PROVE  From(s, Content(File(map, m))) = From(s, Content(map)) \o From(s, <<m>>)
<1> DEFINE n == Len(map)
           new == File(map, m)
           k == Len(new)
           x == From(s, Content(map))
<1>1. n \in Nat /\ \A i \in 1 .. n : map[i] \in Filed
  BY SeqSet
<1>2. /\ new \in Seq(Filed) /\ Grows(map, new)
      /\ \A i \in 1 .. n :
            new[i].msgs = IF map[i].uin = m.from THEN Append(map[i].msgs, m) ELSE map[i].msgs
      /\ (\E i \in 1 .. n : map[i].uin = m.from) => k = n
      /\ (\A i \in 1 .. n : map[i].uin # m.from) =>
            k = n + 1 /\ new[n + 1] = [uin |-> m.from, msgs |-> <<m>>]
  BY FileFacts
<1>3. \A i \in 1 .. n : new[i].uin = map[i].uin
  BY <1>2 DEF Grows
<1>4. Good(new)
  BY FileGood
<1>5. x \in Seq(Nat)
  BY ContentType, FromType
<1>6. \A i \in 1 .. n : map[i].uin = s => x = From(s, map[i].msgs)
  BY FiledOne
<1>7. (\A i \in 1 .. n : map[i].uin # s) => x = <<>>
  BY FiledNone
<1>8. \A i \in 1 .. k : new[i].uin = s => From(s, Content(new)) = From(s, new[i].msgs)
  <2> HIDE DEF new
  <2>1. QED BY <1>2, <1>4, FiledOne
<1>9. (\A i \in 1 .. k : new[i].uin # s) => From(s, Content(new)) = <<>>
  <2> HIDE DEF new
  <2>1. QED BY <1>2, <1>4, FiledNone
<1>10. <<m>> \in Seq(Message) /\ From(s, <<m>>) = IF m.from = s THEN <<m.n>> ELSE <<>>
  BY SingleSet, FromSmall
<1>11. From(s, <<m>>) \in Seq(Nat)
  BY <1>10, FromType
<1>12. x \o <<>> = x /\ <<>> \o From(s, <<m>>) = From(s, <<m>>)
  BY <1>5, <1>11, ConcatEmptySeq
<1> HIDE DEF n, new, k, x
<1>13. CASE \E i \in 1 .. n : map[i].uin = s
  <2>1. PICK i \in 1 .. n : map[i].uin = s
    BY <1>13
  <2>2. i \in 1 .. k
    <3>1. k = n \/ k = n + 1
      BY <1>2
    <3>2. QED BY <1>1, <3>1
  <2>3. x = From(s, map[i].msgs) /\ From(s, Content(new)) = From(s, new[i].msgs)
    BY <1>3, <1>6, <1>8, <2>1, <2>2
  <2>4. CASE m.from = s
    <3>1. map[i].msgs \in Seq(Message)
      BY <1>1, FiledType
    <3>2. new[i].msgs = map[i].msgs \o <<m>>
      BY <1>2, <2>1, <2>4, <3>1, AppendIsConcat
    <3>3. From(s, map[i].msgs \o <<m>>) = From(s, map[i].msgs) \o From(s, <<m>>)
      BY <1>10, <3>1, FromConcat
    <3>4. QED BY <2>3, <3>2, <3>3 DEF x, new
  <2>5. CASE m.from # s
    <3>1. new[i].msgs = map[i].msgs
      BY <1>2, <2>1, <2>5
    <3>2. QED BY <1>10, <1>12, <2>3, <2>5, <3>1 DEF x, new
  <2>6. QED BY <2>4, <2>5
<1>14. CASE \A i \in 1 .. n : map[i].uin # s
  <2>1. x = <<>>
    BY <1>7, <1>14
  <2>2. CASE m.from = s
    <3>1. k = n + 1 /\ new[n + 1].uin = s /\ new[n + 1].msgs = <<m>>
      BY <1>2, <1>14, <2>2
    <3>2. n + 1 \in 1 .. k
      BY <1>1, <3>1
    <3>3. From(s, Content(new)) = From(s, <<m>>)
      BY <1>8, <3>1, <3>2
    <3>4. QED BY <1>12, <2>1, <3>3 DEF x, new
  <2>3. CASE m.from # s
    <3>1. \A i \in 1 .. k : new[i].uin # s
      <4>1. CASE \E i \in 1 .. n : map[i].uin = m.from
        BY <1>2, <1>3, <1>14, <4>1
      <4>2. CASE \A i \in 1 .. n : map[i].uin # m.from
        <5>1. k = n + 1 /\ new[n + 1].uin = m.from
          BY <1>2, <4>2
        <5>2. \A i \in 1 .. k : i \in 1 .. n \/ i = n + 1
          BY <1>1, <5>1
        <5>3. QED BY <1>3, <1>14, <2>3, <5>1, <5>2
      <4>3. QED BY <4>1, <4>2
    <3>2. QED BY <1>9, <1>10, <1>12, <2>1, <2>3, <3>1 DEF x, new
  <2>4. QED BY <2>2, <2>3
<1>15. QED BY <1>13, <1>14

LEMMA FileAllSteps ==
    ASSUME NEW map \in Seq(Filed), NEW msgs \in Seq(Message)
    PROVE  \E r \in [0 .. Len(msgs) -> Seq(Filed)] :
              /\ r[0] = map
              /\ \A i \in 1 .. Len(msgs) : r[i] = File(r[i - 1], msgs[i])
              /\ FileAll(map, msgs) = r[Len(msgs)]
<1> DEFINE n == Len(msgs)
           V == Seq(Filed)
           Step(q, i) == IF i = 0 THEN map ELSE File(q[i - 1], msgs[i])
           F == [p \in (1 .. n) \X V |-> File(p[2], msgs[p[1]])]
           r == CHOOSE q : q = [i \in 0 .. n |-> Step(q, i)]
<1>1. n \in Nat /\ \A i \in 1 .. n : msgs[i] \in Message
  BY LenProperties, ElementOfSeq
<1>2. \A i \in 1 .. n, x \in V : File(x, msgs[i]) \in V
  BY <1>1, FileFacts
<1> HIDE DEF V
<1>3. F \in Computes(n, V)
  BY <1>2 DEF Computes
<1>4. \A i \in 1 .. n, x \in V : F[<<i, x>>] = File(x, msgs[i])
  OBVIOUS
<1>5. FileAll(map, msgs) = r[n]
  BY DEF FileAll
<1>6. map \in V
  BY DEF V
<1> HIDE DEF F, n, r
<1>7. PICK q : q \in [0 .. n -> V] /\ q[0] = map /\ \A i \in 1 .. n : q[i] = F[<<i, q[i - 1]>>]
  <2>1. \E q : Values(n, V, map, F, q)
    BY <1>1, <1>3, <1>6, Recursion
  <2>2. QED BY <2>1 DEF Values
<1>8. \A i \in 0 .. n : q[i] = Step(q, i)
  <2>1. \A i \in 0 .. n : i = 0 \/ (i \in 1 .. n /\ i # 0 /\ i - 1 \in 0 .. n)
    BY <1>1
  <2>2. QED BY <1>4, <1>7, <2>1
<1>9. q = [i \in 0 .. n |-> Step(q, i)]
  BY <1>7, <1>8
<1>10. r = [i \in 0 .. n |-> Step(r, i)]
  BY <1>9 DEF r
<1>11. r[0] = map /\ \A i \in 1 .. n : r[i] = File(r[i - 1], msgs[i])
  <2>1. 0 \in 0 .. n /\ \A i \in 1 .. n : i \in 0 .. n /\ i # 0
    BY <1>1
  <2>2. \A i \in 0 .. n : r[i] = Step(r, i)
    BY <1>10
  <2>3. QED BY <2>1, <2>2
<1>12. r \in [0 .. n -> V]
  <2> DEFINE S == {i \in 0 .. n : r[i] \in V}
  <2>1. 0 \in S
    BY <1>1, <1>6, <1>11
  <2>2. \A i \in 1 .. n : i - 1 \in S => i \in S
    BY <1>1, <1>2, <1>11
  <2> HIDE DEF S
  <2>3. \A i \in 0 .. n : i \in S
    BY <1>1, <2>1, <2>2, UpTo
  <2>4. QED BY <1>10, <2>3 DEF S
<1>13. QED BY <1>5, <1>11, <1>12 DEF n, V

LEMMA FileAllFacts ==
    ASSUME NEW map \in Seq(Filed), NEW msgs \in Seq(Message)
    PROVE  /\ FileAll(map, msgs) \in Seq(Filed) /\ Grows(map, FileAll(map, msgs))
           /\ Good(map) => Good(FileAll(map, msgs))
<1> DEFINE n == Len(msgs)
<1>1. n \in Nat /\ \A i \in 1 .. n : msgs[i] \in Message
  BY LenProperties, ElementOfSeq
<1>2. PICK r \in [0 .. n -> Seq(Filed)] :
        r[0] = map /\ (\A i \in 1 .. n : r[i] = File(r[i - 1], msgs[i])) /\ FileAll(map, msgs) = r[n]
  BY FileAllSteps
<1> HIDE DEF n
<1>3. Len(map) \in Nat
  BY LenProperties
<1> DEFINE S == {i \in 0 .. n : Grows(map, r[i]) /\ (Good(map) => Good(r[i]))}
<1>4. 0 \in S
  BY <1>1, <1>2, <1>3 DEF Grows
<1>5. ASSUME NEW i \in 1 .. n, i - 1 \in S PROVE i \in S
  <2>1. i - 1 \in 0 .. n /\ i \in 0 .. n /\ Grows(map, r[i - 1]) /\ (Good(map) => Good(r[i - 1]))
    BY <1>1, <1>5
  <2>2. PICK x \in Seq(Filed) : x = r[i - 1]
    BY <1>2, <2>1
  <2>3. r[i] = File(x, msgs[i])
    BY <1>2, <2>2
  <2>4. File(x, msgs[i]) \in Seq(Filed) /\ Grows(x, File(x, msgs[i]))
    BY <1>1, FileFacts
  <2>5. Grows(map, File(x, msgs[i]))
    <3>1. Len(x) \in Nat /\ Len(File(x, msgs[i])) \in Nat
      BY <2>4, LenProperties
    <3>2. Len(map) <= Len(x) /\ \A j \in 1 .. Len(map) : j \in 1 .. Len(x) /\ x[j].uin = map[j].uin
      BY <1>3, <2>1, <2>2, <3>1 DEF Grows
    <3>3. \A j \in 1 .. Len(x) : File(x, msgs[i])[j].uin = x[j].uin
      BY <2>4 DEF Grows
    <3>4. Len(x) <= Len(File(x, msgs[i]))
      BY <2>4 DEF Grows
    <3>5. Len(map) <= Len(File(x, msgs[i]))
      BY <1>3, <3>1, <3>2, <3>4
    <3>6. QED BY <3>2, <3>3, <3>5 DEF Grows
  <2>6. Good(x) => Good(File(x, msgs[i]))
    BY <1>1, FileGood
  <2>7. QED BY <2>1, <2>2, <2>3, <2>5, <2>6
<1> HIDE DEF S
<1>6. \A i \in 0 .. n : i \in S
  BY <1>1, <1>4, <1>5, UpTo
<1>7. n \in 0 .. n
  BY <1>1
<1>8. QED BY <1>2, <1>6, <1>7 DEF S

\* Messages are filed after the others of their senders.
LEMMA FileAllContent ==
    ASSUME NEW map \in Seq(Filed), NEW msgs \in Seq(Message), Good(map), NEW s
    PROVE  From(s, Content(FileAll(map, msgs))) = From(s, Content(map)) \o From(s, msgs)
<1> DEFINE n == Len(msgs)
           x == From(s, Content(map))
<1>1. n \in Nat /\ \A i \in 1 .. n : msgs[i] \in Message
  BY LenProperties, ElementOfSeq
<1>2. x \in Seq(Nat)
  BY ContentType, FromType
<1>3. PICK r \in [0 .. n -> Seq(Filed)] :
        r[0] = map /\ (\A i \in 1 .. n : r[i] = File(r[i - 1], msgs[i])) /\ FileAll(map, msgs) = r[n]
  BY FileAllSteps
<1>4. Own(s) \in Gives(Message, Nat) /\ From(s, msgs) = Each(msgs, Own(s))
  BY FromFacts
<1>5. PICK t \in Seq(Seq(Nat)) :
        Len(t) = n /\ (\A i \in 1 .. n : t[i] = Own(s)[msgs[i]]) /\ From(s, msgs) = FlattenSeq(t)
  BY <1>4, EachOf
<1>6. PICK f \in [0 .. n -> Seq(Nat)] :
        f[0] = <<>> /\ (\A i \in 1 .. n : f[i] = f[i - 1] \o t[i]) /\ FlattenSeq(t) = f[n]
  <2>1. PICK f \in [0 .. Len(t) -> Seq(Nat)] :
          /\ f[0] = <<>> /\ \A i \in 1 .. Len(t) : f[i] = f[i - 1] \o t[i]
          /\ FlattenSeq(t) = f[Len(t)]
    BY FlattenSteps
  <2>2. QED BY <1>5, <2>1
<1>7. \A i \in 1 .. n : t[i] \in Seq(Nat) /\ t[i] = From(s, <<msgs[i]>>)
  <2>1. ASSUME NEW i \in 1 .. n PROVE t[i] \in Seq(Nat) /\ t[i] = From(s, <<msgs[i]>>)
    <3>1. msgs[i] \in Message
      BY <1>1
    <3>2. From(s, <<msgs[i]>>) = Own(s)[msgs[i]]
      BY <3>1, FromSmall DEF Own
    <3>3. t[i] = Own(s)[msgs[i]] /\ t[i] \in Seq(Nat)
      <4>1. i \in 1 .. Len(t)
        BY <1>5
      <4>2. t[i] \in Seq(Nat)
        BY <4>1, ElementOfSeq
      <4>3. QED BY <1>5, <4>2
    <3>4. QED BY <3>2, <3>3
  <2>2. QED BY <2>1
<1> HIDE DEF n, x
<1> DEFINE S == {i \in 0 .. n : Good(r[i]) /\ From(s, Content(r[i])) = x \o f[i]}
<1>8. 0 \in S
  <2>1. x \o f[0] = x
    BY <1>2, <1>6, ConcatEmptySeq
  <2>2. Good(r[0]) /\ From(s, Content(r[0])) = x \o f[0]
    BY <1>3, <2>1 DEF x
  <2>3. 0 \in 0 .. n
    BY <1>1
  <2>4. QED BY <2>2, <2>3
<1>9. ASSUME NEW i \in 1 .. n, i - 1 \in S PROVE i \in S
  <2>1. /\ i - 1 \in 0 .. n /\ i \in 0 .. n /\ Good(r[i - 1])
        /\ From(s, Content(r[i - 1])) = x \o f[i - 1]
    BY <1>1, <1>9
  <2>2. PICK y \in Seq(Filed) : y = r[i - 1]
    BY <1>3, <2>1
  <2>3. r[i] = File(y, msgs[i]) /\ Good(y)
    BY <1>3, <2>1, <2>2
  <2>4. Good(File(y, msgs[i]))
    BY <1>1, <2>3, FileGood
  <2>5. From(s, Content(File(y, msgs[i]))) = From(s, Content(y)) \o From(s, <<msgs[i]>>)
    BY <1>1, <2>3, FileContent
  <2>6. (x \o f[i - 1]) \o t[i] = x \o (f[i - 1] \o t[i])
    <3>1. f[i - 1] \in Seq(Nat) /\ t[i] \in Seq(Nat)
      BY <1>6, <1>7, <2>1
    <3>2. \A u, v, w \in Seq(Nat) : (u \o v) \o w = u \o (v \o w)
      BY ConcatNumbers
    <3>3. QED BY <1>2, <3>1, <3>2
  <2>7. f[i] = f[i - 1] \o t[i] /\ t[i] = From(s, <<msgs[i]>>)
    BY <1>6, <1>7
  <2>8. QED BY <2>1, <2>2, <2>3, <2>4, <2>5, <2>6, <2>7
<1> HIDE DEF S
<1>10. \A i \in 0 .. n : i \in S
  BY <1>1, <1>8, <1>9, UpTo
<1>11. n \in 0 .. n
  BY <1>1
<1>12. From(s, Content(r[n])) = x \o f[n]
  BY <1>10, <1>11 DEF S
<1>13. QED BY <1>3, <1>5, <1>6, <1>12 DEF x

\* Without the i-th sender the others keep what they have.
LEMMA UnfileFacts ==
    ASSUME NEW map \in Seq(Filed), NEW i \in 1 .. Len(map)
    PROVE  /\ Unfile(map, i) \in Seq(Filed)
           /\ Good(map) =>
                /\ Good(Unfile(map, i))
                /\ \A s : From(s, Content(Unfile(map, i))) =
                            IF s = map[i].uin THEN <<>> ELSE From(s, Content(map))
<1> DEFINE n == Len(map)
           a == SubSeq(map, 1, i - 1)
           b == SubSeq(map, i + 1, n)
           new == a \o b
           k == Len(new)
<1>1. n \in Nat /\ DOMAIN map = 1 .. n /\ \A j \in 1 .. n : map[j] \in Filed
  BY SeqSet
<1>2. /\ a \in Seq(Filed) /\ b \in Seq(Filed) /\ Len(a) = i - 1 /\ Len(b) = n - i
      /\ \A j \in 1 .. (i - 1) : a[j] = map[j]
      /\ \A j \in 1 .. (n - i) : b[j] = map[i + j]
  BY SplitAt
<1>3. Unfile(map, i) = new
  BY DEF Unfile, RemoveAt
<1>4. i \in 1 .. n
  OBVIOUS
<1>5. /\ new \in Seq(Filed) /\ k = Len(a) + Len(b)
      /\ \A j \in 1 .. Len(a) + Len(b) : new[j] = IF j <= Len(a) THEN a[j] ELSE b[j - Len(a)]
  BY <1>2, ConcatProperties
<1> HIDE DEF n, a, b, new, k
<1>6. k = n - 1
  BY <1>1, <1>2, <1>4, <1>5
<1>7. \A j \in 1 .. k : new[j] = IF j < i THEN map[j] ELSE map[j + 1]
  <2>1. ASSUME NEW j \in 1 .. k PROVE new[j] = IF j < i THEN map[j] ELSE map[j + 1]
    <3>1. new[j] = IF j <= i - 1 THEN a[j] ELSE b[j - (i - 1)]
      BY <1>2, <1>5
    <3>2. CASE j < i
      <4>1. j <= i - 1 /\ j \in 1 .. (i - 1)
        BY <1>1, <1>4, <3>2
      <4>2. QED BY <1>2, <3>1, <3>2, <4>1
    <3>3. CASE ~(j < i)
      <4>1. ~(j <= i - 1) /\ j - (i - 1) \in 1 .. (n - i) /\ i + (j - (i - 1)) = j + 1
        BY <1>1, <1>4, <1>6, <3>3
      <4>2. QED BY <1>2, <3>1, <3>3, <4>1
    <3>4. QED BY <3>2, <3>3
  <2>2. QED BY <2>1
<1>8. DOMAIN new = 1 .. k
  <2>1. DOMAIN new = 1 .. Len(new)
    BY <1>5, LenProperties
  <2>2. QED BY <2>1 DEF k
\* Where the j-th of the rest was, and where the j-th is now.
<1> DEFINE was(j) == IF j < i THEN j ELSE j + 1
           now(j) == IF j < i THEN j ELSE j - 1
<1>9. \A j \in 1 .. k : was(j) \in 1 .. n /\ was(j) # i /\ new[j] = map[was(j)]
  BY <1>1, <1>4, <1>6, <1>7
<1>10. \A j, l \in 1 .. k : was(j) = was(l) => j = l
  BY <1>1, <1>4, <1>6
<1>11. \A j \in 1 .. n : j # i => now(j) \in 1 .. k /\ was(now(j)) = j
  BY <1>1, <1>4, <1>6
<1> HIDE DEF was, now
<1>12. ASSUME Good(map) PROVE Good(new)
  <2>1. \A j \in DOMAIN new : \A m \in ToSet(new[j].msgs) : m.from = new[j].uin
    BY <1>1, <1>8, <1>9, <1>12 DEF Good
  <2>2. \A j, l \in DOMAIN new : new[j].uin = new[l].uin => j = l
    BY <1>1, <1>8, <1>9, <1>10, <1>12 DEF Good
  <2>3. QED BY <2>1, <2>2 DEF Good
<1>13. ASSUME Good(map), NEW s
       PROVE  From(s, Content(new)) = IF s = map[i].uin THEN <<>> ELSE From(s, Content(map))
  <2>1. Good(new)
    BY <1>12, <1>13
  <2>2. CASE \E j \in 1 .. n : j # i /\ map[j].uin = s
    <3>1. PICK j \in 1 .. n : j # i /\ map[j].uin = s
      BY <2>2
    <3>2. s # map[i].uin
      BY <1>1, <1>4, <1>13, <3>1 DEF Good
    <3>3. PICK l \in 1 .. k : new[l] = map[j]
      BY <1>9, <1>11, <3>1
    <3>4. From(s, Content(map)) = From(s, map[j].msgs)
      BY <1>13, <3>1, FiledOne DEF n
    <3>5. From(s, Content(new)) = From(s, new[l].msgs)
      <4>1. l \in 1 .. Len(new)
        BY DEF k
      <4>2. From(new[l].uin, Content(new)) = From(new[l].uin, new[l].msgs)
        BY <1>5, <2>1, <4>1, FiledOne
      <4>3. QED BY <3>1, <3>3, <4>2
    <3>6. QED BY <3>2, <3>3, <3>4, <3>5
  <2>3. CASE \A j \in 1 .. n : j # i => map[j].uin # s
    <3>1. \A l \in 1 .. k : new[l].uin # s
      BY <1>9, <2>3
    <3>2. From(s, Content(new)) = <<>>
      <4>1. \A l \in 1 .. Len(new) : new[l].uin # s
        BY <3>1 DEF k
      <4>2. QED BY <1>5, <2>1, <4>1, FiledNone
    <3>3. s # map[i].uin => From(s, Content(map)) = <<>>
      <4>1. s # map[i].uin => \A j \in 1 .. Len(map) : map[j].uin # s
        BY <2>3 DEF n
      <4>2. QED BY <1>13, <4>1, FiledNone
    <3>4. QED BY <3>2, <3>3
  <2>4. QED BY <2>2, <2>3
<1>14. QED BY <1>3, <1>5, <1>12, <1>13

-----------------------------------------------------------------------------
(* The invariant.                                                          *)

LIST == "CMD_CONTACT_LIST"
OFFLINE == "CMD_OFFLINE_MSG"
ADD == "CMD_ADD_CONTACT"
Coming == ToSet(net) \cup ToSet(recv_list)

\* The contact list is asked for once in a command, so that the requests for the
\* details of contacts stay within the bound.
BudgetInv ==
    /\ \A i, j \in DOMAIN todo : todo[i] = LIST /\ todo[j] = LIST => i = j
    /\ waiting.cmd = LIST => \A i \in DOMAIN todo : todo[i] # LIST
    /\ asked + Len(todo) <= MaxRequests
    /\ (waiting.cmd = LIST \/ \E i \in DOMAIN todo : todo[i] = LIST)
        => asked + Len(todo) + MaxDetails <= MaxRequests

\* The offline messages are asked for once, as the last thing of ui_login, and
\* nothing has been given up until then.
PhaseInv ==
    /\ phase = "login" =>
        /\ IF waiting.cmd = OFFLINE THEN todo = <<>>
           ELSE todo # <<>> /\ \A i \in DOMAIN todo : todo[i] = OFFLINE <=> i = Len(todo)
        /\ ~gaveUp /\ ~emptied /\ mode = "COMMAND"
        /\ msg_count = 0 /\ msg_map = <<>> /\ announced = <<>>
    /\ phase # "login" =>
        waiting.cmd # OFFLINE /\ \A i \in DOMAIN todo : todo[i] # OFFLINE
    /\ phase = "ended" => waiting = None /\ todo = <<>>

\* In ui_login nobody is added.
LoginInv ==
    phase = "login" => waiting.cmd # ADD /\ \A i \in DOMAIN todo : todo[i] # ADD

\* The reply to r: SRV_OFFLINE_MSG may come before the last packet of it, or without.
ReplyTo(r, q) ==
    \/ q = <<>>
    \/ \E p \in Packet :
        /\ q = <<p>> /\ p.to = r
        /\ p.kind = "reply" \/ (p.kind = "error" /\ r.cmd # OFFLINE)
    \/ r.cmd = OFFLINE /\ \E o \in Packet : q = <<o>> /\ o.kind = "offline"
    \/ \E o, p \in Packet :
        /\ q = <<o, p>> /\ o.kind = "offline"
        /\ p.kind = "reply" /\ p.to = r /\ r.cmd = OFFLINE

\* Until a request is given up there is one request or reply under way: as long as no
\* SRV_ERROR has come that answers somebody else, and in ui_login whatever has.
Sure == ~gaveUp /\ (accused = 0 \/ phase = "login")
OwnInv ==
    Sure =>
        /\ ~wrong /\ wait_list = <<>> /\ recv_list = <<>>
        /\ waiting = None => requests = <<>> /\ Those(net, IsOwn) = <<>>
        /\ waiting # None =>
            \/ requests = <<waiting>> /\ Those(net, IsOwn) = <<>>
            \/ requests = <<>> /\ ReplyTo(waiting, Those(net, IsOwn))
        /\ waiting.cmd = OFFLINE /\ Those(net, IsOwn) # <<>> => stored = <<>>
        /\ accused = 0 => \A p \in ToSet(net) : ~IsForeign(p)

\* Only the reply to CMD_OFFLINE_MSG has messages, and they were stored before.
BareInv ==
    /\ \A p \in Coming :
        p.kind \in {"reply", "error"} /\ p.to.cmd # OFFLINE => p.msgs = <<>>
    /\ stored # <<>> \/ phase \in {"input", "poll"} =>
        \A p \in Coming : IsOther(p) => p.msgs = <<>>
    /\ phase \in {"input", "poll"} => stored = <<>>

\* The messages of a sender are in one place.
MapInv == Good(msg_map)

\* Until messages are read the list that was seen is the beginning of that of now,
\* and has as many senders as were counted, or more.
ListInv ==
    ~emptied =>
        /\ msg_count <= Len(announced) /\ Len(announced) <= Len(msg_map)
        /\ \A i \in DOMAIN announced : announced[i] = msg_map[i].uin

-----------------------------------------------------------------------------
(* Types.                                                                  *)

TypeInv == TypeOK /\ BudgetInv

LEMMA RepliedType ==
    ASSUME NEW kind \in {"reply", "error", "offline", "message"},
           NEW r \in Asked \cup {None, Foreign}, NEW msgs \in Seq(Message)
    PROVE  Replied(kind, r, msgs) \in Packet
BY DEF Replied, Packet

\* A sequence cut in two.
LEMMA CutAt ==
    ASSUME NEW T, NEW q \in Seq(T), NEW k \in 0 .. Len(q)
    PROVE  /\ SubSeq(q, 1, k) \in Seq(T) /\ SubSeq(q, k + 1, Len(q)) \in Seq(T)
           /\ Len(SubSeq(q, 1, k)) = k
           /\ q = SubSeq(q, 1, k) \o SubSeq(q, k + 1, Len(q))
<1> DEFINE n == Len(q)
           a == SubSeq(q, 1, k)
           b == SubSeq(q, k + 1, n)
<1>1. n \in Nat /\ \A j \in 1 .. n : q[j] \in T
  BY SeqSet
<1> HIDE DEF n
<1>2. k \in 0 .. n
  BY DEF n
<1>3. 1 \in Int /\ k \in Int /\ k + 1 \in Int /\ n \in Int
  BY <1>1, <1>2
<1>4. /\ a \in Seq(T) /\ Len(a) = IF 1 <= k THEN k - 1 + 1 ELSE 0
      /\ \A j \in 1 .. k - 1 + 1 : a[j] = q[1 + j - 1]
  <2>1. \A j \in 1 .. k : q[j] \in T
    BY <1>1, <1>2
  <2>2. QED BY <1>3, <2>1, SubSeqProperties
<1>5. /\ b \in Seq(T) /\ Len(b) = IF k + 1 <= n THEN n - (k + 1) + 1 ELSE 0
      /\ \A j \in 1 .. n - (k + 1) + 1 : b[j] = q[k + 1 + j - 1]
  <2>1. \A j \in (k + 1) .. n : q[j] \in T
    BY <1>1, <1>2
  <2>2. QED BY <1>3, <2>1, SubSeqProperties
<1> HIDE DEF a, b
<1>6. Len(a) = k /\ Len(b) = n - k
  BY <1>1, <1>2, <1>4, <1>5
<1>7. ASSUME NEW j \in 1 .. k PROVE a[j] = q[j]
  <2>1. j \in 1 .. k - 1 + 1 /\ 1 + j - 1 = j
    BY <1>2
  <2>2. QED BY <1>4, <2>1
<1>8. ASSUME NEW j \in 1 .. (n - k) PROVE b[j] = q[k + j]
  <2>1. j \in 1 .. n - (k + 1) + 1 /\ k + 1 + j - 1 = k + j
    BY <1>1, <1>2
  <2>2. QED BY <1>5, <2>1
<1>9. /\ a \o b \in Seq(T) /\ Len(a \o b) = Len(a) + Len(b)
      /\ \A j \in 1 .. Len(a) + Len(b) : (a \o b)[j] = IF j <= Len(a) THEN a[j] ELSE b[j - Len(a)]
  BY <1>4, <1>5, ConcatProperties
<1>10. Len(a \o b) = n /\ \A j \in 1 .. n : (a \o b)[j] = IF j <= k THEN a[j] ELSE b[j - k]
  <2>1. k + (n - k) = n
    BY <1>1, <1>2
  <2>2. QED BY <1>6, <1>9, <2>1
<1>11. ASSUME NEW j \in 1 .. n PROVE q[j] = (a \o b)[j]
  <2>1. CASE j <= k
    <3>1. j \in 1 .. k
      BY <1>2, <2>1
    <3>2. QED BY <1>7, <1>10, <2>1, <3>1
  <2>2. CASE ~(j <= k)
    <3>1. PICK l \in 1 .. (n - k) : l = j - k /\ k + l = j
      BY <1>1, <1>2, <2>2
    <3>2. QED BY <1>8, <1>10, <2>2, <3>1
  <2>3. QED BY <2>1, <2>2
<1>12. Len(q) = Len(a \o b) /\ \A j \in 1 .. Len(q) : q[j] = (a \o b)[j]
  BY <1>10, <1>11 DEF n
<1>13. q = a \o b
  BY <1>9, <1>12, SeqEqual
<1>14. QED BY <1>4, <1>5, <1>6, <1>13 DEF a, b, n

\* What the elements of q give, when those that give nothing are left out or not.
LEMMA EachSelSame ==
    ASSUME NEW T, NEW U, NEW g \in Gives(T, U), NEW R, NEW S, NEW q \in Seq(T),
           \A x \in ToSet(q) : (x \in R <=> x \in S) \/ g[x] = <<>>
    PROVE  Each(Sel(T, q, R), g) = Each(Sel(T, q, S), g)
<1> DEFINE Same(r) == Each(Sel(T, r, R), g) = Each(Sel(T, r, S), g)
           K == {k \in Nat : \A r \in Seq(T) : ToSet(r) \subseteq ToSet(q) /\ Len(r) = k => Same(r)}
<1>1. 0 \in K
  <2>1. ASSUME NEW r \in Seq(T), Len(r) = 0 PROVE Same(r)
    <3>1. r = <<>>
      BY <2>1, EmptySeq
    <3>2. ToSet(r) \cap R = ToSet(r) \cap S
      BY <3>1, EmptySet
    <3>3. Sel(T, r, R) = Sel(T, r, S)
      BY <3>2, SelSame
    <3>4. QED BY <3>3
  <2> HIDE DEF Same
  <2>2. QED BY <2>1
<1>2. ASSUME NEW k \in Nat \ {0}, k - 1 \in K PROVE k \in K
  <2>1. ASSUME NEW r \in Seq(T), ToSet(r) \subseteq ToSet(q), Len(r) = k PROVE Same(r)
    <3>1. k - 1 \in 0 .. Len(r)
      BY <2>1
    <3>2. PICK j \in 0 .. Len(r) : j = k - 1
      BY <3>1
    <3>3. PICK a, b : a \in Seq(T) /\ b \in Seq(T) /\ Len(a) = j /\ r = a \o b
      <4>1. /\ SubSeq(r, 1, j) \in Seq(T) /\ SubSeq(r, j + 1, Len(r)) \in Seq(T)
            /\ Len(SubSeq(r, 1, j)) = j
            /\ r = SubSeq(r, 1, j) \o SubSeq(r, j + 1, Len(r))
        BY CutAt
      <4>2. QED BY <4>1
    <3>4. Len(r) = Len(a) + Len(b) /\ ToSet(r) = ToSet(a) \cup ToSet(b) /\ Len(b) \in Nat
      <4>1. a \in Seq(T) /\ b \in Seq(T)
        BY <3>3
      <4>2. Len(a \o b) = Len(a) + Len(b) /\ ToSet(a \o b) = ToSet(a) \cup ToSet(b)
        BY <4>1, ConcatProperties, ConcatSet
      <4>3. QED BY <3>3, <4>1, <4>2, LenProperties
    <3>5. Len(b) = 1
      <4>1. \A x \in Nat : k = (k - 1) + x => x = 1
        OBVIOUS
      <4>2. QED BY <2>1, <3>2, <3>3, <3>4, <4>1
    <3>6. PICK x \in T : b = <<x>>
      <4>1. b \in Seq(T)
        BY <3>3
      <4>2. \A i \in 1 .. Len(b) : b[i] \in T
        BY <4>1, SeqSet
      <4>3. b[1] \in T
        BY <3>5, <4>2
      <4>4. b = <<b[1]>>
        BY <3>5, <4>1
      <4>5. QED BY <4>3, <4>4
    <3>7. x \in ToSet(q)
      BY <2>1, <3>4, <3>6, SingleSet
    <3>8. /\ Each(Sel(T, b, R), g) = IF x \in R THEN g[x] ELSE <<>>
          /\ Each(Sel(T, b, S), g) = IF x \in S THEN g[x] ELSE <<>>
      <4>1. /\ Sel(T, b, R) = IF x \in R THEN <<x>> ELSE <<>>
            /\ Sel(T, b, S) = IF x \in S THEN <<x>> ELSE <<>>
        BY <3>6, SelSmall
      <4>2. Each(<<>>, g) = <<>> /\ Each(<<x>>, g) = g[x]
        BY EachSmall
      <4>3. QED BY <4>1, <4>2
    <3>9. Each(Sel(T, b, R), g) = Each(Sel(T, b, S), g)
      BY <3>7, <3>8
    <3>10. Each(Sel(T, a, R), g) = Each(Sel(T, a, S), g)
      <4>1. ToSet(a) \subseteq ToSet(q) /\ Len(a) = k - 1
        BY <2>1, <3>2, <3>3, <3>4
      <4>2. \A z \in Seq(T) : ToSet(z) \subseteq ToSet(q) /\ Len(z) = k - 1 => Same(z)
        <5> HIDE DEF Same
        <5>1. QED BY <1>2
      <4>3. Same(a)
        <5> HIDE DEF Same
        <5>1. QED BY <3>3, <4>1, <4>2
      <4>4. QED BY <4>3
    <3>11. /\ Sel(T, r, R) = Sel(T, a, R) \o Sel(T, b, R)
           /\ Sel(T, r, S) = Sel(T, a, S) \o Sel(T, b, S)
      <4>1. /\ Sel(T, a \o b, R) = Sel(T, a, R) \o Sel(T, b, R)
            /\ Sel(T, a \o b, S) = Sel(T, a, S) \o Sel(T, b, S)
        BY <3>3, SelConcat
      <4>2. QED BY <3>3, <4>1
    <3>12. /\ Sel(T, a, R) \in Seq(T) /\ Sel(T, b, R) \in Seq(T)
           /\ Sel(T, a, S) \in Seq(T) /\ Sel(T, b, S) \in Seq(T)
      BY <3>3, SelFacts
    <3>13. /\ Each(Sel(T, r, R), g) = Each(Sel(T, a, R), g) \o Each(Sel(T, b, R), g)
           /\ Each(Sel(T, r, S), g) = Each(Sel(T, a, S), g) \o Each(Sel(T, b, S), g)
      BY <3>11, <3>12, EachConcat
    <3>14. QED BY <3>9, <3>10, <3>13
  <2> HIDE DEF Same
  <2>2. QED BY <2>1
<1> HIDE DEF K
<1>3. Len(q) \in Nat
  BY LenProperties
<1>4. \A i \in 1 .. Len(q) : i - 1 \in K => i \in K
  BY <1>2, <1>3
<1>5. \A i \in 0 .. Len(q) : i \in K
  BY <1>1, <1>3, <1>4, UpTo
<1>6. Len(q) \in K
  BY <1>3, <1>5
<1>7. Same(q)
  <2> HIDE DEF Same
  <2>1. QED BY <1>6 DEF K
<1>8. QED BY <1>7

\* What answers somebody else has no messages.
LEMMA OwnMsgs ==
    ASSUME NEW q \in Seq(Packet), \A p \in ToSet(q) : IsForeign(p) => p.msgs = <<>>
    PROVE  MsgsIn(Those(q, IsOther)) = MsgsIn(Those(q, IsOwn))
<1>1. ToSet(q) \subseteq Packet
  BY SeqSet
<1>2. \A p \in ToSet(q) : (p \in Others <=> p \in Owns) \/ PacketMsgs[p] = <<>>
  BY <1>1 DEF Others, Owns, IsOwn, PacketMsgs
<1>3. Each(Sel(Packet, q, Others), PacketMsgs) = Each(Sel(Packet, q, Owns), PacketMsgs)
  BY <1>2, MsgsFacts, EachSelSame
<1>4. Those(q, IsOther) \in Seq(Packet) /\ Those(q, IsOwn) \in Seq(Packet)
  BY ThoseType
<1>5. QED BY <1>3, <1>4, ThoseSel, MsgsFacts

LEMMA BatchFacts ==
    ASSUME TypeOK, NEW n \in Batches
    PROVE  Batch(n) \in Seq(Packet) /\ Rest(n) \in Seq(Packet) /\ net = Batch(n) \o Rest(n)
<1>1. net \in Seq(Packet)
  BY DEF TypeOK
<1>2. Len(net) \in Nat /\ (net = <<>> => Len(net) = 0)
  BY <1>1, LenProperties
<1>3. n \in 0 .. Len(net)
  BY <1>2 DEF Batches
<1>4. QED BY <1>1, <1>3, CutAt DEF Batch, Rest

\* What an answer to r adds to the network, if anything.
AnswerTo(r, new) ==
    /\ ReplyTo(r, new)
    /\ \A p \in ToSet(new) : IsOther(p) /\ (p.kind \in {"reply", "error"} => p.to = r)
    /\ \/ MsgsIn(new) = <<>> /\ stored' = stored /\ lost' = lost
       \/ r.cmd = OFFLINE /\ MsgsIn(new) = stored /\ stored' = <<>> /\ lost' = lost
       \/ r.cmd = OFFLINE /\ stored' = <<>> /\ lost' = TRUE
    /\ r.cmd = OFFLINE /\ new # <<>> => stored' = <<>>
    /\ r.cmd # OFFLINE \/ stored = <<>> => \A p \in ToSet(new) : p.msgs = <<>>

LEMMA OfflineAnswered ==
    ASSUME TypeOK, NEW r \in Asked, r.cmd = OFFLINE, OfflineAnswer(r), stored' = <<>>, lost' = lost
    PROVE  \E new \in Seq(Packet) : net' = net \o new /\ AnswerTo(r, new)
<1> DEFINE n == Len(stored)
<1>1. net \in Seq(Packet) /\ stored \in Seq(Message) /\ n \in Nat /\ (stored = <<>> => n = 0)
  BY LenProperties DEF TypeOK
<1>2. PICK k \in 0 .. (IF stored = <<>> THEN 0 ELSE n - 1) :
        net' = (net \o (IF k = 0 THEN <<>>
                        ELSE <<Replied("offline", None, SubSeq(stored, 1, k))>>))
                   \o <<Replied("reply", r, SubSeq(stored, k + 1, n))>>
  BY DEF OfflineAnswer
<1>3. k \in 0 .. n
  <2>1. stored # <<>> => n # 0
    BY <1>1, EmptySeq
  <2>2. QED BY <1>1, <2>1
<1>4. /\ SubSeq(stored, 1, k) \in Seq(Message) /\ SubSeq(stored, k + 1, n) \in Seq(Message)
      /\ Len(SubSeq(stored, 1, k)) = k
      /\ stored = SubSeq(stored, 1, k) \o SubSeq(stored, k + 1, n)
  BY <1>1, <1>3, CutAt
<1> DEFINE o == Replied("offline", None, SubSeq(stored, 1, k))
           p == Replied("reply", r, SubSeq(stored, k + 1, n))
<1>5. o \in Packet /\ p \in Packet
  <2>1. r \in Asked \cup {None, Foreign} /\ None \in Asked \cup {None, Foreign}
    OBVIOUS
  <2>2. QED BY <1>4, <2>1, RepliedType
<1>6. /\ o.kind = "offline" /\ o.msgs = SubSeq(stored, 1, k)
      /\ p.kind = "reply" /\ p.to = r /\ p.msgs = SubSeq(stored, k + 1, n)
  BY DEF Replied
<1>7. net' = (net \o (IF k = 0 THEN <<>> ELSE <<o>>)) \o <<p>>
  BY <1>2
<1>8. stored = <<>> => k = 0
  BY <1>2
<1> HIDE DEF o, p, n
<1>9. <<o>> \in Seq(Packet) /\ <<p>> \in Seq(Packet)
  BY <1>5, SingleSet
<1>10. MsgsIn(<<o>>) = o.msgs /\ MsgsIn(<<p>>) = p.msgs
  BY <1>5, MsgsSmall
<1>11. IsOther(o) /\ IsOther(p)
  BY <1>6 DEF IsOther, IsMessage
<1>12. CASE k = 0
  <2>1. o.msgs = <<>>
    BY <1>4, <1>6, <1>12, EmptySeq
  <2>2. p.msgs = stored
    <3>1. stored = <<>> \o p.msgs
      BY <1>4, <1>6, <2>1
    <3>2. p.msgs \in Seq(Message)
      BY <1>4, <1>6
    <3>3. QED BY <3>1, <3>2, ConcatEmptySeq
  <2>3. net' = net \o <<p>>
    <3>1. net \o <<>> = net
      BY <1>1, ConcatEmptySeq
    <3>2. QED BY <1>7, <1>12, <3>1
  <2>4. ReplyTo(r, <<p>>)
    BY <1>5, <1>6 DEF ReplyTo
  <2>5. ToSet(<<p>>) = {p}
    BY <1>5, SingleSet
  <2>6. AnswerTo(r, <<p>>)
    BY <1>6, <1>10, <1>11, <2>2, <2>4, <2>5 DEF AnswerTo
  <2>7. QED BY <1>9, <2>3, <2>6
<1>13. CASE k # 0
  <2> DEFINE new == <<o>> \o <<p>>
  <2>1. new = <<o, p>>
    BY <1>5, PairOf
  <2>2. net' = net \o new
    <3>1. net' = (net \o <<o>>) \o <<p>>
      BY <1>7, <1>13
    <3>2. QED BY <1>1, <1>9, <3>1, ConcatThree
  <2>3. new \in Seq(Packet) /\ ToSet(new) = ToSet(<<o>>) \cup ToSet(<<p>>)
    <3>1. PICK x \in Seq(Packet), y \in Seq(Packet) : x = <<o>> /\ y = <<p>>
      BY <1>9
    <3>2. x \o y \in Seq(Packet) /\ ToSet(x \o y) = ToSet(x) \cup ToSet(y)
      BY ConcatSet
    <3>3. QED BY <3>1, <3>2
  <2>4. ToSet(new) = {o, p}
    <3>1. ToSet(<<o>>) = {o} /\ ToSet(<<p>>) = {p}
      BY <1>5, SingleSet
    <3>2. QED BY <2>3, <3>1
  <2>5. MsgsIn(new) = stored
    <3>1. MsgsIn(new) = MsgsIn(<<o>>) \o MsgsIn(<<p>>)
      BY <1>9, MsgsConcat
    <3>2. QED BY <1>4, <1>6, <1>10, <3>1
  <2>6. ReplyTo(r, new)
    BY <1>5, <1>6, <2>1 DEF ReplyTo
  <2> HIDE DEF new
  <2>7. AnswerTo(r, new)
    BY <1>6, <1>8, <1>11, <1>13, <2>4, <2>5, <2>6 DEF AnswerTo
  <2>8. QED BY <2>2, <2>3, <2>7
<1>14. QED BY <1>12, <1>13

\* The answer to a request, or none.
LEMMA Answered ==
    ASSUME TypeOK, NEW i \in DOMAIN requests, Answer(i)
    PROVE  /\ i \in 1 .. Len(requests) /\ requests[i] \in Asked
           /\ requests' \in Seq(Asked) /\ requests' = RemoveAt(requests, i)
           /\ \E new \in Seq(Packet) : net' = net \o new /\ AnswerTo(requests[i], new)
<1> DEFINE r == requests[i]
<1>1. i \in 1 .. Len(requests) /\ r \in Asked /\ requests \in Seq(Asked)
  BY SeqSet DEF TypeOK
<1>2. requests' = RemoveAt(requests, i)
  BY DEF Answer
<1>3. requests' \in Seq(Asked)
  <2>1. /\ SubSeq(requests, 1, i - 1) \in Seq(Asked)
        /\ SubSeq(requests, i + 1, Len(requests)) \in Seq(Asked)
    BY <1>1, SplitAt
  <2>2. QED BY <1>2, <2>1, ConcatProperties DEF RemoveAt
<1>4. net \in Seq(Packet)
  BY DEF TypeOK
<1>5. Reply(r) \/ Error(r) \/ Nothing(r)
  BY DEF Answer
<1> HIDE DEF r
<1>6. CASE r.cmd = OFFLINE /\ OfflineAnswer(r) /\ stored' = <<>> /\ lost' = lost
  BY <1>1, <1>2, <1>3, <1>6, OfflineAnswered DEF r
<1>7. CASE /\ r.cmd # OFFLINE
           /\ \E kind \in {"reply", "error"} : net' = Append(net, Replied(kind, r, <<>>))
           /\ stored' = stored /\ lost' = lost
  <2>1. PICK kind \in {"reply", "error"} : net' = Append(net, Replied(kind, r, <<>>))
    BY <1>7
  <2> DEFINE p == Replied(kind, r, <<>>)
  <2>2. p \in Packet
    <3>1. r \in Asked \cup {None, Foreign} /\ <<>> \in Seq(Message)
      BY <1>1, EmptySeq
    <3>2. kind \in {"reply", "error", "offline", "message"}
      OBVIOUS
    <3>3. QED BY <3>1, <3>2, RepliedType
  <2>3. p.kind = kind /\ p.to = r /\ p.msgs = <<>>
    BY DEF Replied
  <2> HIDE DEF p
  <2>4. net' = net \o <<p>>
    BY <1>4, <2>1, <2>2, AppendIsConcat DEF p
  <2>5. <<p>> \in Seq(Packet) /\ ToSet(<<p>>) = {p} /\ MsgsIn(<<p>>) = <<>>
    BY <2>2, <2>3, SingleSet, MsgsSmall
  <2>6. ReplyTo(r, <<p>>)
    BY <1>7, <2>2, <2>3 DEF ReplyTo
  <2>7. AnswerTo(r, <<p>>)
    BY <1>7, <2>3, <2>5, <2>6 DEF AnswerTo, IsOther, IsMessage
  <2>8. QED BY <1>1, <1>2, <1>3, <2>4, <2>5, <2>7 DEF r
<1>8. CASE Nothing(r)
  <2>1. net' = net \o <<>>
    <3>1. net' = net
      BY <1>8 DEF Nothing
    <3>2. QED BY <1>4, <3>1, ConcatEmptySeq
  <2>2. <<>> \in Seq(Packet) /\ ToSet(<<>>) = {}
    BY EmptySeq, EmptySet
  <2>3. MsgsIn(<<>>) = <<>>
    BY MsgsNone, <2>2
  <2>4. \/ stored' = stored /\ lost' = lost
        \/ r.cmd = OFFLINE /\ stored' = <<>> /\ lost' = TRUE
    <3>1. \/ stored' = stored /\ lost' = lost
          \/ r.cmd = OFFLINE /\ stored' = <<>> /\ lost' = (lost \/ stored # <<>>)
      BY <1>8 DEF Nothing, OFFLINE
    <3>2. lost \in BOOLEAN
      BY DEF TypeOK
    <3>3. CASE stored = <<>> /\ stored' = <<>> /\ lost' = (lost \/ stored # <<>>)
      BY <3>2, <3>3
    <3>4. CASE stored # <<>> /\ r.cmd = OFFLINE /\ stored' = <<>> /\ lost' = (lost \/ stored # <<>>)
      BY <3>4
    <3>5. QED BY <3>1, <3>3, <3>4
  <2>5. AnswerTo(r, <<>>)
    BY <2>2, <2>3, <2>4 DEF AnswerTo, ReplyTo
  <2>6. QED BY <1>1, <1>2, <1>3, <2>1, <2>2, <2>5 DEF r
<1>9. CASE Reply(r)
  <2>1. lost' = lost
    BY <1>9 DEF Reply
  <2>2. CASE r.cmd = OFFLINE
    BY <1>6, <1>9, <2>1, <2>2 DEF Reply, OFFLINE
  <2>3. CASE r.cmd # OFFLINE
    <3>1. net' = Append(net, Replied("reply", r, <<>>)) /\ stored' = stored
      BY <1>9, <2>3 DEF Reply, OFFLINE
    <3>2. QED BY <1>7, <2>1, <2>3, <3>1
  <2>4. QED BY <2>2, <2>3
<1>10. CASE Error(r)
  <2>1. /\ r.cmd # OFFLINE /\ net' = Append(net, Replied("error", r, <<>>))
        /\ stored' = stored /\ lost' = lost
    BY <1>10 DEF Error, OFFLINE
  <2>2. QED BY <1>7, <2>1
<1>11. QED BY <1>5, <1>8, <1>9, <1>10

\* An SRV_ERROR that answers somebody else, alone or in the reply to CMD_OFFLINE_MSG.
AccusedBy(new, own) ==
    /\ Those(new, IsOwn) = own
    /\ \A p \in ToSet(new) : IsOther(p)
    /\ \A p \in ToSet(new) : p.msgs = <<>> \/ stored # <<>>
    /\ \A p \in ToSet(new) : p.kind \in {"reply", "error"} => p.msgs = <<>>
    /\ \/ /\ own = <<>> /\ UNCHANGED <<requests, stored, lost>>
          /\ \A p \in ToSet(new) : p.msgs = <<>>
       \/ /\ \E i \in DOMAIN requests : /\ requests[i].cmd = OFFLINE
                                        /\ requests' = RemoveAt(requests, i)
          /\ \E o \in Packet : own = <<o>> /\ o.kind = "offline"
          /\ stored' = <<>> /\ lost' = TRUE

LEMMA Accused ==
    ASSUME TypeOK, ForeignError
    PROVE  /\ accused \in Nat /\ accused' = accused + 1 /\ accused' \in 0 .. MaxErrors
           /\ accused' # 0
           /\ requests' \in Seq(Asked) /\ line' = "error"
           /\ UNCHANGED <<phase, todo, waiting, lists, screen, sent, asked, gaveUp, wrong>>
           /\ \E new, own \in Seq(Packet) : net' = net \o new /\ AccusedBy(new, own)
<1>1. /\ accused' = accused + 1 /\ accused < MaxErrors /\ line' = "error"
      /\ UNCHANGED <<phase, todo, waiting, lists, screen, sent, asked, gaveUp, wrong>>
  BY DEF ForeignError
<1>2. accused \in Nat /\ accused' \in 0 .. MaxErrors /\ accused' # 0
  <2>1. MaxErrors \in Nat /\ accused \in 0 .. MaxErrors
    BY BoundAssumption DEF TypeOK
  <2>2. QED BY <1>1, <2>1
<1>3. /\ net \in Seq(Packet) /\ requests \in Seq(Asked) /\ stored \in Seq(Message)
  BY DEF TypeOK
<1> DEFINE e == Replied("error", Foreign, <<>>)
<1>4. e \in Packet /\ e.kind = "error" /\ e.to = Foreign /\ e.msgs = <<>>
  <2>1. Foreign \in Asked \cup {None, Foreign} /\ <<>> \in Seq(Message)
    BY EmptySeq
  <2>2. e \in Packet
    BY <2>1, RepliedType
  <2>3. QED BY <2>2 DEF Replied
<1> HIDE DEF e
<1>5. IsForeign(e) /\ IsOther(e) /\ ~IsOwn(e)
  BY <1>4 DEF IsForeign, IsOther, IsMessage, IsOwn
<1>6. <<e>> \in Seq(Packet) /\ ToSet(<<e>>) = {e} /\ Those(<<e>>, IsOwn) = <<>>
  BY <1>4, <1>5, SingleSet, ThoseSmall
<1>7. CASE net' = Append(net, e) /\ UNCHANGED <<requests, stored, lost>>
  <2>1. net' = net \o <<e>>
    BY <1>3, <1>4, <1>7, AppendIsConcat
  <2>2. AccusedBy(<<e>>, <<>>)
    BY <1>4, <1>5, <1>6, <1>7 DEF AccusedBy
  <2>3. <<>> \in Seq(Packet) /\ requests' \in Seq(Asked)
    BY <1>3, <1>7, EmptySeq
  <2>4. QED BY <1>1, <1>2, <1>6, <2>1, <2>2, <2>3
<1>8. CASE /\ \E i \in DOMAIN requests, k \in 1 .. Len(stored) - 1 :
                /\ requests[i].cmd = OFFLINE
                /\ requests' = RemoveAt(requests, i)
                /\ net' = net \o <<Replied("offline", None, SubSeq(stored, 1, k)), e>>
           /\ stored' = <<>> /\ lost' = TRUE
  <2>1. PICK i \in DOMAIN requests, k \in 1 .. Len(stored) - 1 :
                /\ requests[i].cmd = OFFLINE
                /\ requests' = RemoveAt(requests, i)
                /\ net' = net \o <<Replied("offline", None, SubSeq(stored, 1, k)), e>>
    BY <1>8
  <2>2. requests' \in Seq(Asked)
    <3>1. i \in 1 .. Len(requests)
      BY <1>3, LenProperties
    <3>2. /\ SubSeq(requests, 1, i - 1) \in Seq(Asked)
          /\ SubSeq(requests, i + 1, Len(requests)) \in Seq(Asked)
      BY <1>3, <3>1, SplitAt
    <3>3. QED BY <2>1, <3>2, ConcatProperties DEF RemoveAt
  <2>3. Len(stored) \in Nat /\ k \in 0 .. Len(stored) /\ stored # <<>>
    <3>1. Len(stored) \in Nat /\ Len(<<>>) = 0
      BY <1>3, LenProperties
    <3>2. k \in 0 .. Len(stored) /\ Len(stored) # 0
      BY <3>1
    <3>3. QED BY <3>1, <3>2
  <2>4. SubSeq(stored, 1, k) \in Seq(Message)
    BY <1>3, <2>3, CutAt
  <2> DEFINE o == Replied("offline", None, SubSeq(stored, 1, k))
  <2>5. o \in Packet /\ o.kind = "offline"
    <3>1. None \in Asked \cup {None, Foreign}
      OBVIOUS
    <3>2. o \in Packet
      BY <2>4, <3>1, RepliedType
    <3>3. QED BY <3>2 DEF Replied
  <2>6. net' = net \o <<o, e>>
    BY <2>1
  <2> HIDE DEF o
  <2>7. IsOther(o) /\ IsOwn(o)
    BY <2>5 DEF IsOther, IsOwn, IsMessage, IsForeign
  <2>8. <<o>> \in Seq(Packet) /\ Those(<<o>>, IsOwn) = <<o>>
    BY <2>5, <2>7, SingleSet, ThoseSmall
  <2> DEFINE new == <<o>> \o <<e>>
  <2>9. new = <<o, e>>
    BY <1>4, <2>5, PairOf
  <2>10. new \in Seq(Packet) /\ ToSet(new) = {o, e}
    <3>1. new \in Seq(Packet)
      BY <1>6, <2>8, ConcatProperties
    <3>2. ToSet(<<o, e>>) = {o, e}
      BY DEF ToSet
    <3>3. QED BY <2>9, <3>1, <3>2
  <2>11. Those(new, IsOwn) = <<o>>
    <3>1. Those(new, IsOwn) = Those(<<o>>, IsOwn) \o Those(<<e>>, IsOwn)
      BY <1>6, <2>8, ThoseConcat
    <3>2. <<o>> \o <<>> = <<o>>
      BY <2>8, ConcatEmptySeq
    <3>3. QED BY <1>6, <2>8, <3>1, <3>2
  <2>12. net' = net \o new
    BY <2>6, <2>9
  <2> HIDE DEF new
  <2>13. AccusedBy(new, <<o>>)
    BY <1>4, <1>5, <1>8, <2>1, <2>3, <2>5, <2>7, <2>10, <2>11 DEF AccusedBy
  <2>14. QED BY <1>1, <1>2, <2>2, <2>8, <2>10, <2>12, <2>13
<1>9. QED BY <1>7, <1>8 DEF ForeignError, OFFLINE, e

LEMMA ReceivedType ==
    ASSUME TypeOK, NEW n \in Batches
    PROVE  /\ recv_list \o Batch(n) \in Seq(Packet)
           /\ Found(n) \in Seq(Packet)
           /\ msg_list \o Those(recv_list \o Batch(n), IsMessage) \in Seq(Packet)
           /\ Those(recv_list \o Batch(n), IsOther) \in Seq(Packet)
<1>1. Batch(n) \in Seq(Packet)
  BY BatchFacts
<1>2. recv_list \in Seq(Packet) /\ wait_list \in Seq(Packet) /\ msg_list \in Seq(Packet)
  BY DEF TypeOK
<1>3. recv_list \o Batch(n) \in Seq(Packet)
  BY <1>1, <1>2, ConcatProperties
<1>4. /\ Those(recv_list \o Batch(n), IsMessage) \in Seq(Packet)
      /\ Those(recv_list \o Batch(n), Taken) \in Seq(Packet)
      /\ Those(recv_list \o Batch(n), IsOther) \in Seq(Packet)
  BY <1>3, ThoseType
<1>5. QED BY <1>2, <1>3, <1>4, ConcatProperties DEF Found

LEMMA TypeInit == Init => TypeInv
<1> SUFFICES ASSUME Init PROVE TypeInv
  OBVIOUS
<1>0. PICK s \in Sender : \E n \in 0 .. Len(Script[s]) :
        /\ stored = [i \in 1 .. n |-> [from |-> s, n |-> i, type |-> Script[s][i]]]
        /\ sent = [t \in Sender |-> IF t = s THEN n ELSE 0]
  BY DEF Init
<1>1. PICK n \in 0 .. Len(Script[s]) :
        /\ stored = [i \in 1 .. n |-> [from |-> s, n |-> i, type |-> Script[s][i]]]
        /\ sent = [t \in Sender |-> IF t = s THEN n ELSE 0]
  BY <1>0
<1>2. \A t \in Sender : Len(Script[t]) \in Nat /\ \A i \in 1 .. Len(Script[t]) : Script[t][i] \in Type
  BY ScriptAssumption, LenProperties, ElementOfSeq
<1>3. n \in Nat /\ \A i \in 1 .. n : i \in Nat /\ i \in 1 .. Len(Script[s])
  BY <1>2
<1>4. stored \in Seq(Message)
  <2>1. stored \in [1 .. n -> Message]
    BY <1>1, <1>2, <1>3 DEF Message
  <2>2. QED BY <1>3, <2>1, IsASeq
<1>5. sent \in [Sender -> Nat] /\ \A t \in Sender : sent[t] <= Len(Script[t])
  BY <1>1, <1>2, <1>3
<1>6. todo \in Seq(Command) /\ Len(todo) = 3 /\ DOMAIN todo = 1 .. 3
      /\ todo[1] = "CMD_LOGIN" /\ todo[2] = LIST /\ todo[3] = OFFLINE
  BY DEF Init, Command, LIST, OFFLINE
<1>7. MaxRequests \in Nat /\ MaxDetails \in Nat /\ 3 + MaxDetails <= MaxRequests
  BY BoundAssumption
<1>8. shown \in [Sender -> Seq(Nat)]
  BY EmptySeq DEF Init
<1>9. TypeOK
  <2>1. phase \in {"login"} /\ waiting = None /\ recv_list = <<>> /\ wait_list = <<>>
        /\ msg_list = <<>> /\ msg_map = <<>> /\ msg_count = 0 /\ mode = "COMMAND"
        /\ chat_uin = Nobody /\ net = <<>> /\ requests = <<>> /\ asked = 0
        /\ announced = <<>> /\ emptied = FALSE /\ gaveUp = FALSE /\ wrong = FALSE /\ lost = FALSE
        /\ line = "incomplete" /\ accused = 0
    BY DEF Init
  <2>2. <<>> \in Seq(Packet) /\ <<>> \in Seq(Filed) /\ <<>> \in Seq(Asked) /\ <<>> \in Seq(Sender)
    BY EmptySeq
  <2>3. phase \in {"login", "input", "poll", "ended"} /\ waiting \in Asked \cup {None}
        /\ mode \in {"COMMAND", "CHAT", "AUTH"} /\ chat_uin \in Sender \cup {Nobody}
        /\ asked \in 0 .. MaxRequests /\ msg_count \in Nat
        /\ line \in {"incomplete", "ok", "error"} /\ accused \in 0 .. MaxErrors
    BY <1>7, <2>1, BoundAssumption
  <2>4. {recv_list, wait_list, net} \subseteq Seq(Packet) /\ msg_list \in Seq(Packet)
        /\ msg_map \in Seq(Filed) /\ requests \in Seq(Asked) /\ announced \in Seq(Sender)
    BY <2>1, <2>2
  <2>5. {emptied, gaveUp, wrong, lost} \subseteq BOOLEAN
    BY <2>1
  <2>6. QED BY <1>4, <1>5, <1>6, <1>8, <2>3, <2>4, <2>5 DEF TypeOK
<1>10. BudgetInv
  <2>1. waiting.cmd # LIST /\ asked = 0
    BY DEF Init, None, LIST
  <2>2. \A i \in DOMAIN todo : todo[i] = LIST => i = 2
    BY <1>6 DEF LIST, OFFLINE
  <2>3. QED BY <1>6, <1>7, <2>1, <2>2 DEF BudgetInv
<1>11. QED BY <1>9, <1>10 DEF TypeInv

LEMMA AnswerType ==
    ASSUME TypeInv, NEW i \in DOMAIN requests, Answer(i)
    PROVE  TypeInv'
<1>1. requests' \in Seq(Asked)
  BY Answered DEF TypeInv
<1>2. net' \in Seq(Packet) /\ stored' \in Seq(Message) /\ lost' \in BOOLEAN
  <2>1. PICK new \in Seq(Packet) : net' = net \o new /\ AnswerTo(requests[i], new)
    BY Answered DEF TypeInv
  <2>2. net \in Seq(Packet) /\ stored \in Seq(Message) /\ lost \in BOOLEAN
    BY DEF TypeInv, TypeOK
  <2>3. net' \in Seq(Packet)
    BY <2>1, <2>2, ConcatProperties
  <2>4. stored' \in {stored, <<>>} /\ lost' \in {lost, TRUE}
    BY <2>1 DEF AnswerTo
  <2>5. QED BY <2>2, <2>3, <2>4, EmptySeq
<1>3. line' \in {"incomplete", "ok", "error"}
  <2>1. line' \in {line, "ok", "error"}
    BY DEF Answer, Reply, Error, Nothing
  <2>2. QED BY <2>1 DEF TypeInv, TypeOK
<1>4. UNCHANGED <<phase, todo, waiting, lists, screen, sent, asked, gaveUp, wrong, accused>>
  BY DEF Answer
<1>5. QED BY <1>1, <1>2, <1>3, <1>4 DEF TypeInv, TypeOK, BudgetInv, lists, screen

LEMMA AccusedType ==
    ASSUME TypeInv, ForeignError
    PROVE  TypeInv'
<1>1. /\ accused' \in 0 .. MaxErrors /\ requests' \in Seq(Asked) /\ line' = "error"
      /\ UNCHANGED <<phase, todo, waiting, lists, screen, sent, asked, gaveUp, wrong>>
  BY Accused DEF TypeInv
<1>2. net' \in Seq(Packet) /\ stored' \in Seq(Message) /\ lost' \in BOOLEAN
  <2>1. PICK new, own \in Seq(Packet) : net' = net \o new /\ AccusedBy(new, own)
    BY Accused DEF TypeInv
  <2>2. net \in Seq(Packet) /\ stored \in Seq(Message) /\ lost \in BOOLEAN
    BY DEF TypeInv, TypeOK
  <2>3. net' \in Seq(Packet)
    BY <2>1, <2>2, ConcatProperties
  <2>4. stored' \in {stored, <<>>} /\ lost' \in {lost, TRUE}
    BY <2>1 DEF AccusedBy
  <2>5. QED BY <2>2, <2>3, <2>4, EmptySeq
<1>3. QED BY <1>1, <1>2 DEF TypeInv, TypeOK, BudgetInv, lists, screen

LEMMA SendType ==
    ASSUME TypeOK, NEW s \in Sender, Send(s)
    PROVE  /\ sent[s] \in Nat /\ sent[s] + 1 <= Len(Script[s])
           /\ sent' = [sent EXCEPT ![s] = sent[s] + 1]
           /\ \/ /\ lost' = lost
                 /\ \E m \in Message :
                      /\ m.from = s /\ m.n = sent[s] + 1
                      /\ Replied("message", None, <<m>>) \in Packet
                      /\ net' = net \o <<Replied("message", None, <<m>>)>>
              \/ lost' = TRUE /\ net' = net
<1>1. sent[s] \in Nat /\ Len(Script[s]) \in Nat
      /\ \A i \in 1 .. Len(Script[s]) : Script[s][i] \in Type
  BY ScriptAssumption, LenProperties, ElementOfSeq DEF TypeOK
<1>2. sent[s] + 1 <= Len(Script[s]) /\ sent[s] + 1 \in 1 .. Len(Script[s])
  BY <1>1 DEF Send
<1> DEFINE m == [from |-> s, n |-> sent[s] + 1, type |-> Script[s][sent[s] + 1]]
           p == Replied("message", None, <<m>>)
<1>3. m \in Message /\ m.from = s /\ m.n = sent[s] + 1
  BY <1>1, <1>2 DEF Message
<1>4. \/ net' = Append(net, p) /\ lost' = lost
      \/ lost' = TRUE /\ net' = net
  BY DEF Send
<1> HIDE DEF m
<1>5. p \in Packet
  <2>1. <<m>> \in Seq(Message)
    BY <1>3, SingleSet
  <2>2. None \in Asked \cup {None, Foreign}
    OBVIOUS
  <2>3. QED BY <2>1, <2>2, RepliedType
<1>6. Append(net, p) = net \o <<p>>
  <2> HIDE DEF p
  <2>1. net \in Seq(Packet)
    BY DEF TypeOK
  <2>2. QED BY <1>5, <2>1, AppendIsConcat
<1>7. sent' = [sent EXCEPT ![s] = sent[s] + 1]
  BY DEF Send
<1>8. QED BY <1>1, <1>2, <1>3, <1>4, <1>5, <1>6, <1>7

LEMMA SendStepType ==
    ASSUME TypeInv, NEW s \in Sender, Send(s)
    PROVE  TypeInv'
<1>1. net' \in Seq(Packet) /\ lost' \in BOOLEAN
  <2>1. net \in Seq(Packet) /\ lost \in BOOLEAN
    BY DEF TypeInv, TypeOK
  <2>2. CASE lost' = TRUE /\ net' = net
    BY <2>1, <2>2
  <2>3. ASSUME NEW p \in Packet, net' = net \o <<p>>, lost' = lost
        PROVE  net' \in Seq(Packet) /\ lost' \in BOOLEAN
    <3>1. <<p>> \in Seq(Packet)
      BY SingleSet
    <3>2. QED BY <2>1, <2>3, <3>1, ConcatProperties
  <2>4. QED BY <2>2, <2>3, SendType DEF TypeInv
<1>2. sent' \in [Sender -> Nat] /\ \A t \in Sender : sent'[t] <= Len(Script[t])
  <2>1. sent[s] \in Nat /\ sent[s] + 1 <= Len(Script[s]) /\ sent' = [sent EXCEPT ![s] = sent[s] + 1]
    BY SendType DEF TypeInv
  <2>2. sent \in [Sender -> Nat] /\ \A t \in Sender : sent[t] <= Len(Script[t])
    BY DEF TypeInv, TypeOK
  <2>3. QED BY <2>1, <2>2
<1>3. UNCHANGED <<phase, todo, waiting, lists, screen, requests, stored, line, asked,
                   gaveUp, wrong, accused>>
  BY DEF Send
<1>4. QED BY <1>1, <1>2, <1>3 DEF TypeInv, TypeOK, BudgetInv, lists, screen

\* The first of what there is still to do, and the others.
LEMMA TodoFacts ==
    ASSUME TypeOK, todo # <<>>
    PROVE  /\ Len(todo) \in Nat \ {0} /\ DOMAIN todo = 1 .. Len(todo) /\ Head(todo) = todo[1]
           /\ Head(todo) \in Command
           /\ Tail(todo) \in Seq(Command) /\ Len(Tail(todo)) = Len(todo) - 1
           /\ DOMAIN Tail(todo) = 1 .. (Len(todo) - 1)
           /\ \A i \in 1 .. (Len(todo) - 1) : Tail(todo)[i] = todo[i + 1]
<1>1. todo \in Seq(Command)
  BY DEF TypeOK
<1>2. /\ Head(todo) \in Command /\ Tail(todo) \in Seq(Command) /\ Len(Tail(todo)) = Len(todo) - 1
      /\ \A i \in 1 .. Len(Tail(todo)) : Tail(todo)[i] = todo[i + 1]
  BY <1>1, HeadTailProperties
<1>3. Head(todo) = todo[1]
  BY <1>1
<1>4. Len(todo) \in Nat /\ Len(todo) # 0 /\ DOMAIN todo = 1 .. Len(todo)
      /\ DOMAIN Tail(todo) = 1 .. Len(Tail(todo))
  BY <1>1, <1>2, LenProperties, EmptySeq
<1>5. QED BY <1>2, <1>3, <1>4

LEMMA RequestType ==
    ASSUME TypeInv, request
    PROVE  TypeInv'
<1>1. TypeOK /\ BudgetInv /\ todo # <<>>
  BY DEF TypeInv, request
<1> DEFINE n == Len(todo)
           r == [cmd |-> Head(todo), id |-> asked + 1]
<1>2. /\ n \in Nat \ {0} /\ DOMAIN todo = 1 .. n /\ Head(todo) = todo[1]
      /\ Head(todo) \in Command
      /\ Tail(todo) \in Seq(Command) /\ Len(Tail(todo)) = n - 1
      /\ DOMAIN Tail(todo) = 1 .. (n - 1)
      /\ \A i \in 1 .. (n - 1) : Tail(todo)[i] = todo[i + 1]
  BY <1>1, TodoFacts
<1>3. todo' = Tail(todo) /\ asked' = asked + 1 /\ waiting' = r
      /\ requests' \in {requests, Append(requests, r)}
  BY DEF request
<1>4. MaxRequests \in Nat /\ MaxDetails \in Nat /\ asked \in Nat
  BY <1>1, BoundAssumption DEF TypeOK
<1>5. asked + n <= MaxRequests
  BY <1>1 DEF BudgetInv
<1>6. asked + 1 \in 1 .. MaxRequests
  BY <1>2, <1>4, <1>5
<1>7. r \in Asked /\ r.cmd = todo[1]
  BY <1>2, <1>6 DEF Asked
<1> HIDE DEF r, n
<1>8. requests' \in Seq(Asked)
  <2>1. requests \in Seq(Asked)
    BY <1>1 DEF TypeOK
  <2>2. Append(requests, r) \in Seq(Asked)
    BY <1>7, <2>1, AppendProperties
  <2>3. QED BY <1>3, <2>1, <2>2
<1>9. asked' \in 0 .. MaxRequests
  BY <1>3, <1>6
<1>10. UNCHANGED <<phase, lists, screen, net, stored, sent, line, history>>
  BY DEF request
<1>11. TypeOK'
  BY <1>1, <1>2, <1>3, <1>7, <1>8, <1>9, <1>10 DEF TypeOK, lists, screen, history
<1>12. \A i \in 1 .. (n - 1) : i + 1 \in DOMAIN todo /\ i + 1 # 1 /\ todo'[i] = todo[i + 1]
  BY <1>2, <1>3
<1>13. Len(todo') = n - 1 /\ DOMAIN todo' = 1 .. (n - 1) /\ 1 \in DOMAIN todo
  BY <1>2, <1>3
<1>14. \A i, j \in DOMAIN todo' : todo'[i] = LIST /\ todo'[j] = LIST => i = j
  <2>1. ASSUME NEW i \in 1 .. (n - 1), NEW j \in 1 .. (n - 1), todo[i + 1] = LIST, todo[j + 1] = LIST
        PROVE  i = j
    <3>1. i + 1 = j + 1
      BY <1>1, <1>12, <2>1 DEF BudgetInv
    <3>2. QED BY <3>1
  <2>2. QED BY <1>12, <1>13, <2>1
<1>15. waiting'.cmd = LIST => \A i \in DOMAIN todo' : todo'[i] # LIST
  BY <1>1, <1>3, <1>7, <1>12, <1>13 DEF BudgetInv
<1>16. asked' + Len(todo') = asked + n
  BY <1>2, <1>3, <1>4, <1>13
<1>17. (waiting'.cmd = LIST \/ \E i \in DOMAIN todo' : todo'[i] = LIST)
            => \E i \in DOMAIN todo : todo[i] = LIST
  BY <1>3, <1>7, <1>12, <1>13
<1>18. BudgetInv'
  BY <1>1, <1>14, <1>15, <1>16, <1>17 DEF BudgetInv, n
<1>19. QED BY <1>11, <1>18 DEF TypeInv

INFO == "CMD_CONTACT_INFO_MULTI"

\* What becomes of phase and todo when a request has failed, when it was the last
\* or others follow, and when contacts are to be asked about.
Failed == todo' = <<>> /\ phase' = IF phase = "login" THEN "ended" ELSE phase
Ended == todo' = todo /\ phase' = IF phase = "login" /\ todo = <<>> THEN "input" ELSE phase
Details == /\ waiting.cmd = LIST /\ phase' = phase
           /\ \E k \in 0 .. MaxDetails : todo' = [i \in 1 .. k |-> INFO] \o todo

LEMMA DoneFacts ==
    ASSUME NEW ok \in BOOLEAN, Done(ok)
    PROVE  waiting' = None /\ (IF ok THEN Ended ELSE Failed)
<1>1. CASE ok
  BY <1>1 DEF Done, Ended
<1>2. CASE ~ok
  BY <1>2 DEF Done, Failed
<1>3. QED BY <1>1, <1>2

LEMMA WaitForReply ==
    ASSUME TypeOK, NEW n \in Batches, wait_for_reply(n)
    PROVE  /\ waiting # None /\ waiting.cmd # OFFLINE /\ waiting' = None
           /\ Waited(n)
           /\ wait_list' \in Seq(Packet)
           /\ IF Found(n) = <<>>
              THEN Failed /\ gaveUp' = TRUE /\ wait_list' = wait_list /\ wrong' = wrong
              ELSE /\ Failed \/ Ended \/ Details
                   /\ gaveUp' = gaveUp /\ wait_list' = Tail(Found(n))
                   /\ wrong' = (wrong \/ Head(Found(n)).to # waiting)
           /\ UNCHANGED <<msg_map, screen, requests, stored, sent, line, asked, lost, accused>>
<1>1. /\ waiting # None /\ waiting.cmd # OFFLINE /\ Waited(n)
      /\ UNCHANGED <<msg_map, screen, requests, stored, sent, line, asked, lost, accused>>
  BY DEF wait_for_reply, OFFLINE
<1>2. Found(n) \in Seq(Packet) /\ wait_list \in Seq(Packet)
  BY ReceivedType DEF TypeOK
<1>3. CASE Found(n) = <<>>
  <2>1. Done(FALSE) /\ gaveUp' = TRUE /\ wait_list' = wait_list /\ wrong' = wrong
    BY <1>3 DEF wait_for_reply
  <2>2. FALSE \in BOOLEAN
    OBVIOUS
  <2>3. waiting' = None /\ Failed
    BY <2>1, <2>2, DoneFacts
  <2>4. QED BY <1>1, <1>2, <1>3, <2>1, <2>3
<1>4. CASE Found(n) # <<>>
  <2> DEFINE p == Head(Found(n))
             ok == p.kind = "reply" /\ p.to.cmd = waiting.cmd
  <2>1. /\ wait_list' = Tail(Found(n))
        /\ wrong' = (wrong \/ p.to # waiting)
        /\ IF ok /\ waiting.cmd = "CMD_CONTACT_LIST"
           THEN /\ \E k \in 0 .. MaxDetails :
                        todo' = [i \in 1 .. k |-> "CMD_CONTACT_INFO_MULTI"] \o todo
                /\ waiting' = None
                /\ UNCHANGED phase
           ELSE Done(ok)
        /\ UNCHANGED gaveUp
    BY <1>4 DEF wait_for_reply
  <2>2. Tail(Found(n)) \in Seq(Packet)
    BY <1>2, <1>4, HeadTailProperties
  <2>3. ok \in BOOLEAN
    OBVIOUS
  <2> HIDE DEF ok
  <2>4. waiting' = None /\ (Failed \/ Ended \/ Details)
    <3>1. CASE ok /\ waiting.cmd = LIST
      BY <2>1, <3>1 DEF Details, LIST, INFO
    <3>2. CASE ~(ok /\ waiting.cmd = LIST)
      <4>1. Done(ok)
        BY <2>1, <3>2 DEF LIST
      <4>2. QED BY <2>3, <4>1, DoneFacts
    <3>3. QED BY <3>1, <3>2
  <2>5. QED BY <1>1, <1>4, <2>1, <2>2, <2>4
<1>5. QED BY <1>3, <1>4

\* The details of so many contacts are asked for.
LEMMA DetailsFacts ==
    ASSUME TypeOK, NEW k \in 0 .. MaxDetails, NEW new, new = [i \in 1 .. k |-> INFO] \o todo
    PROVE  /\ new \in Seq(Command) /\ Len(new) = k + Len(todo)
           /\ \A i \in DOMAIN new :
                \/ new[i] = INFO /\ (i = Len(new) => todo = <<>>)
                \/ i - k \in DOMAIN todo /\ new[i] = todo[i - k]
<1> DEFINE a == [i \in 1 .. k |-> INFO]
           l == Len(todo)
<1>1. todo \in Seq(Command) /\ l \in Nat /\ DOMAIN todo = 1 .. l /\ (l = 0 => todo = <<>>)
  BY LenProperties, EmptySeq DEF TypeOK
<1>2. k \in Nat
  BY BoundAssumption
<1>3. a \in Seq(Command) /\ Len(a) = k /\ \A i \in 1 .. k : a[i] = INFO
  <2>1. a \in [1 .. k -> Command] /\ \A i \in 1 .. k : a[i] = INFO
    BY DEF Command, INFO
  <2> HIDE DEF a
  <2>2. QED BY <1>2, <2>1, IsASeq, LenProperties
<1>4. new = a \o todo
  OBVIOUS
<1> HIDE DEF a
<1>5. /\ a \o todo \in Seq(Command) /\ Len(a \o todo) = Len(a) + l
      /\ \A i \in 1 .. Len(a) + l : (a \o todo)[i] = IF i <= Len(a) THEN a[i] ELSE todo[i - Len(a)]
  BY <1>1, <1>3, ConcatProperties
<1>6. new \in Seq(Command) /\ Len(new) = k + l /\ DOMAIN new = 1 .. (k + l)
      /\ \A i \in 1 .. k + l : new[i] = IF i <= k THEN a[i] ELSE todo[i - k]
  <2>1. new \in Seq(Command) /\ Len(new) = k + l
        /\ \A i \in 1 .. k + l : new[i] = IF i <= k THEN a[i] ELSE todo[i - k]
    BY <1>3, <1>4, <1>5
  <2>2. QED BY <2>1, LenProperties
<1> HIDE DEF l
<1>7. ASSUME NEW i \in 1 .. (k + l)
      PROVE  \/ new[i] = INFO /\ (i = Len(new) => todo = <<>>)
             \/ i - k \in DOMAIN todo /\ new[i] = todo[i - k]
  <2>1. CASE i <= k
    <3>1. i \in 1 .. k /\ (i = k + l => l = 0)
      BY <1>1, <1>2, <2>1
    <3>2. new[i] = INFO
      BY <1>3, <1>6, <2>1, <3>1
    <3>3. QED BY <1>1, <1>6, <3>1, <3>2
  <2>2. CASE ~(i <= k)
    <3>1. i - k \in 1 .. l
      BY <1>1, <1>2, <2>2
    <3>2. QED BY <1>1, <1>6, <2>2, <3>1
  <2>3. QED BY <2>1, <2>2
<1>8. QED BY <1>6, <1>7 DEF l

LEMMA WaitForReplyType ==
    ASSUME TypeInv, NEW n \in Batches, wait_for_reply(n)
    PROVE  TypeInv'
<1>1. TypeOK /\ BudgetInv
  BY DEF TypeInv
<1>2. /\ waiting' = None /\ wait_list' \in Seq(Packet) /\ Waited(n)
      /\ Failed \/ Ended \/ Details
      /\ {gaveUp', wrong'} \subseteq BOOLEAN
      /\ UNCHANGED <<msg_map, screen, requests, stored, sent, line, asked, lost, accused>>
  <2>1. /\ waiting' = None /\ wait_list' \in Seq(Packet) /\ Waited(n)
        /\ Failed \/ Ended \/ Details
        /\ UNCHANGED <<msg_map, screen, requests, stored, sent, line, asked, lost, accused>>
    BY <1>1, WaitForReply
  <2>2. /\ gaveUp' = TRUE \/ gaveUp' = gaveUp
        /\ wrong' = wrong \/ wrong' = (wrong \/ Head(Found(n)).to # waiting)
    BY <1>1, WaitForReply
  <2>3. wrong \in BOOLEAN /\ gaveUp \in BOOLEAN
    BY <1>1 DEF TypeOK
  <2>4. wrong' \in BOOLEAN
    BY <2>2, <2>3
  <2>5. gaveUp' \in BOOLEAN
    BY <2>2, <2>3
  <2>6. QED BY <2>1, <2>4, <2>5
<1>3. net' \in Seq(Packet) /\ recv_list' = <<>> /\ msg_list' \in Seq(Packet)
  BY <1>1, <1>2, BatchFacts, ReceivedType DEF Waited
<1>4. phase' \in {"login", "input", "poll", "ended"}
  BY <1>1, <1>2 DEF TypeOK, Failed, Ended, Details
<1>5. /\ todo' \in Seq(Command)
      /\ \A i, j \in DOMAIN todo' : todo'[i] = LIST /\ todo'[j] = LIST => i = j
      /\ asked + Len(todo') <= MaxRequests
      /\ (\E i \in DOMAIN todo' : todo'[i] = LIST) => asked + Len(todo') + MaxDetails <= MaxRequests
  <2>1. todo \in Seq(Command) /\ asked \in Nat /\ asked <= MaxRequests /\ MaxRequests \in Nat
        /\ MaxDetails \in Nat /\ Len(todo) \in Nat
    BY <1>1, BoundAssumption, LenProperties DEF TypeOK
  <2>2. CASE Failed
    <3>1. todo' = <<>> /\ <<>> \in Seq(Command) /\ Len(<<>>) = 0 /\ DOMAIN <<>> = {}
      BY <2>2, EmptySeq DEF Failed
    <3>2. QED BY <2>1, <3>1
  <2>3. CASE Ended
    BY <1>1, <2>1, <2>3 DEF Ended, BudgetInv
  <2>4. CASE Details
    <3>1. PICK k \in 0 .. MaxDetails : todo' = [i \in 1 .. k |-> INFO] \o todo
      BY <2>4 DEF Details
    <3>2. /\ todo' \in Seq(Command) /\ Len(todo') = k + Len(todo)
          /\ \A i \in DOMAIN todo' :
                \/ todo'[i] = INFO /\ (i = Len(todo') => todo = <<>>)
                \/ i - k \in DOMAIN todo /\ todo'[i] = todo[i - k]
      BY <1>1, <3>1, DetailsFacts
    <3>3. \A i \in DOMAIN todo : todo[i] # LIST
      BY <1>1, <2>4 DEF Details, BudgetInv
    <3>4. \A i \in DOMAIN todo' : todo'[i] # LIST
      BY <3>2, <3>3 DEF INFO, LIST
    <3>5. asked + Len(todo) + MaxDetails <= MaxRequests
      BY <1>1, <2>4 DEF Details, BudgetInv
    <3>6. asked + (k + Len(todo)) <= MaxRequests
      BY <2>1, <3>5
    <3>7. QED BY <3>2, <3>4, <3>6
  <2>5. QED BY <1>2, <2>2, <2>3, <2>4
<1>6. TypeOK'
  <2>1. <<>> \in Seq(Packet)
    BY EmptySeq
  <2>2. QED BY <1>1, <1>2, <1>3, <1>4, <1>5, <2>1 DEF TypeOK, screen
<1>7. waiting'.cmd # LIST
  BY <1>2 DEF None, LIST
<1>8. asked' = asked
  BY <1>2
<1>9. QED BY <1>5, <1>6, <1>7, <1>8 DEF TypeInv, BudgetInv

LEMMA SendersFacts ==
    ASSUME NEW map \in Seq(Filed)
    PROVE  /\ Senders(map) \in Seq(Sender) /\ Len(Senders(map)) = Len(map)
           /\ \A i \in 1 .. Len(map) : Senders(map)[i] = map[i].uin
<1>1. Len(map) \in Nat /\ DOMAIN map = 1 .. Len(map) /\ \A i \in 1 .. Len(map) : map[i] \in Filed
  BY SeqSet
<1>2. Senders(map) \in [1 .. Len(map) -> Sender]
      /\ \A i \in 1 .. Len(map) : Senders(map)[i] = map[i].uin
  BY <1>1, FiledType DEF Senders
<1>3. QED BY <1>1, <1>2, IsASeq, LenProperties

LEMMA GetOffline ==
    ASSUME TypeOK, NEW n \in Batches, get_offline_msg(n)
    PROVE  /\ waiting.cmd = OFFLINE /\ waiting' = None /\ Waited(n) /\ wait_list' = <<>>
           /\ msg_map' \in Seq(Filed) /\ announced' \in Seq(Sender)
           /\ \/ /\ \E i \in DOMAIN Found(n) : Found(n)[i].kind = "reply"
                 /\ msg_map' = FileAll(msg_map, MsgsIn(Found(n)))
                 /\ announced' = Senders(msg_map')
                 /\ Ended /\ gaveUp' = gaveUp /\ lost' = lost
              \/ /\ Failed /\ gaveUp' = TRUE
                 /\ lost' = (lost \/ MsgsIn(Found(n)) # <<>>)
                 /\ msg_map' = msg_map /\ announced' = announced
           /\ UNCHANGED <<msg_count, mode, chat_uin, shown, emptied, requests, stored, sent,
                          line, asked, wrong, accused>>
<1>1. /\ waiting.cmd = OFFLINE /\ Waited(n) /\ wait_list' = <<>>
      /\ UNCHANGED <<msg_count, mode, chat_uin, shown, emptied, requests, stored, sent,
                   line, asked, wrong, accused>>
  BY DEF get_offline_msg, OFFLINE
<1>2. TRUE \in BOOLEAN /\ FALSE \in BOOLEAN
  OBVIOUS
<1>3. MsgsIn(Found(n)) \in Seq(Message)
  BY ReceivedType, MsgsType
<1>4. CASE \E i \in DOMAIN Found(n) : Found(n)[i].kind = "reply"
  <2>1. /\ msg_map' = FileAll(msg_map, MsgsIn(Found(n)))
        /\ announced' = Senders(msg_map')
        /\ Done(TRUE) /\ gaveUp' = gaveUp /\ lost' = lost
    BY <1>4 DEF get_offline_msg
  <2>2. msg_map' \in Seq(Filed)
    BY <1>3, <2>1, FileAllFacts DEF TypeOK
  <2>3. announced' \in Seq(Sender)
    BY <2>1, <2>2, SendersFacts
  <2>4. waiting' = None /\ Ended
    BY <1>2, <2>1, DoneFacts
  <2>5. QED BY <1>1, <1>4, <2>1, <2>2, <2>3, <2>4
<1>5. CASE ~(\E i \in DOMAIN Found(n) : Found(n)[i].kind = "reply")
  <2>1. /\ Done(FALSE) /\ gaveUp' = TRUE
        /\ lost' = (lost \/ MsgsIn(Found(n)) # <<>>)
        /\ msg_map' = msg_map /\ announced' = announced
    BY <1>5 DEF get_offline_msg
  <2>2. msg_map' \in Seq(Filed) /\ announced' \in Seq(Sender)
    BY <2>1 DEF TypeOK
  <2>3. waiting' = None /\ Failed
    BY <1>2, <2>1, DoneFacts
  <2>4. QED BY <1>1, <2>1, <2>2, <2>3
<1>6. QED BY <1>4, <1>5

LEMMA GetOfflineType ==
    ASSUME TypeInv, NEW n \in Batches, get_offline_msg(n)
    PROVE  TypeInv'
<1>1. TypeOK /\ BudgetInv
  BY DEF TypeInv
<1>2. /\ waiting' = None /\ Waited(n) /\ wait_list' = <<>>
      /\ msg_map' \in Seq(Filed) /\ announced' \in Seq(Sender)
      /\ Failed \/ Ended
      /\ UNCHANGED <<msg_count, mode, chat_uin, shown, emptied, requests, stored, sent,
                   line, asked, wrong, accused>>
  BY <1>1, GetOffline
<1>3. gaveUp' \in BOOLEAN /\ lost' \in BOOLEAN
  <2>1. gaveUp \in BOOLEAN /\ lost \in BOOLEAN
    BY <1>1 DEF TypeOK
  <2>2. gaveUp' = gaveUp \/ gaveUp' = TRUE
    BY <1>1, GetOffline
  <2>3. lost' = lost \/ lost' = (lost \/ MsgsIn(Found(n)) # <<>>)
    BY <1>1, GetOffline
  <2>4. lost' \in BOOLEAN
    BY <2>1, <2>3
  <2>5. QED BY <2>1, <2>2, <2>4
<1>4. net' \in Seq(Packet) /\ recv_list' = <<>> /\ msg_list' \in Seq(Packet)
  BY <1>1, <1>2, BatchFacts, ReceivedType DEF Waited
<1>5. phase' \in {"login", "input", "poll", "ended"}
  BY <1>1, <1>2 DEF TypeOK, Failed, Ended
<1>6. /\ todo' \in Seq(Command) /\ (todo' = todo \/ todo' = <<>>)
  BY <1>1, <1>2, EmptySeq DEF TypeOK, Failed, Ended
<1>7. TypeOK'
  <2>1. <<>> \in Seq(Packet)
    BY EmptySeq
  <2>2. QED BY <1>1, <1>2, <1>3, <1>4, <1>5, <1>6, <2>1 DEF TypeOK
<1>8. waiting'.cmd # LIST /\ asked' = asked
  BY <1>2 DEF None, LIST
<1>9. BudgetInv'
  <2>1. CASE todo' = todo
    BY <1>1, <1>8, <2>1 DEF BudgetInv
  <2>2. CASE todo' = <<>>
    <3>1. DOMAIN todo' = {} /\ Len(todo') = 0
      BY <2>2
    <3>2. asked + 0 <= MaxRequests
      BY <1>1, BoundAssumption DEF TypeOK
    <3>3. QED BY <1>8, <3>1, <3>2 DEF BudgetInv
  <2>3. QED BY <1>6, <2>1, <2>2
<1>10. QED BY <1>7, <1>9 DEF TypeInv

\* The map when what has come is filed, and the three ways to go on.
Filled(n) == FileAll(msg_map, MsgsIn(msg_list \o Those(recv_list \o Batch(n), IsMessage)))
Noticed(map) ==
    mode = "COMMAND" /\ Notice(map) /\ msg_map' = map /\ shown' = shown
Ignored(map) ==
    /\ mode # "COMMAND" /\ msg_map' = map
    /\ \A i \in DOMAIN map : ~(mode = "CHAT" /\ map[i].uin = chat_uin)
    /\ UNCHANGED <<msg_count, announced, emptied, shown>>
Chatted(map, i) ==
    /\ mode = "CHAT" /\ map[i].uin = chat_uin
    /\ shown' = [shown EXCEPT ![chat_uin] = shown[chat_uin] \o
                    [j \in DOMAIN map[i].msgs |-> map[i].msgs[j].n]]
    /\ msg_map' = Unfile(map, i)
    /\ emptied' = TRUE
    /\ UNCHANGED <<msg_count, announced>>

LEMMA SelectLoop ==
    ASSUME TypeOK, NEW n \in Batches, select_loop(n)
    PROVE  /\ phase = "poll" /\ todo = <<>> /\ waiting = None /\ phase' = "input"
           /\ net' = Rest(n) /\ recv_list' = Those(recv_list \o Batch(n), IsOther)
           /\ msg_list' = <<>>
           /\ Filled(n) \in Seq(Filed)
           /\ \/ Noticed(Filled(n))
              \/ Ignored(Filled(n))
              \/ \E i \in 1 .. Len(Filled(n)) : Chatted(Filled(n), i)
           /\ UNCHANGED <<todo, waiting, wait_list, mode, chat_uin, requests, stored, sent,
                          line, asked, history>>
<1> DEFINE map == Filled(n)
<1>1. map \in Seq(Filed)
  <2>1. MsgsIn(msg_list \o Those(recv_list \o Batch(n), IsMessage)) \in Seq(Message)
    BY ReceivedType, MsgsType
  <2>2. QED BY <2>1, FileAllFacts DEF TypeOK, Filled
<1>2. DOMAIN map = 1 .. Len(map)
  BY <1>1, LenProperties
<1> DEFINE chat == {i \in DOMAIN map : mode = "CHAT" /\ map[i].uin = chat_uin}
<1>3. \/ mode = "COMMAND" /\ Notice(map) /\ msg_map' = map /\ UNCHANGED shown
      \/ /\ mode # "COMMAND" /\ chat = {}
         /\ msg_map' = map
         /\ UNCHANGED <<msg_count, announced, emptied, shown>>
      \/ \E i \in chat :
            /\ shown' = [shown EXCEPT ![chat_uin] = @ \o
                            [j \in DOMAIN map[i].msgs |-> map[i].msgs[j].n]]
            /\ msg_map' = Unfile(map, i)
            /\ emptied' = TRUE
            /\ UNCHANGED <<msg_count, announced>>
  BY DEF select_loop, Filled
<1> HIDE DEF map
<1>4. Noticed(map) \/ Ignored(map) \/ \E i \in 1 .. Len(map) : Chatted(map, i)
  <2>1. CASE mode = "COMMAND" /\ Notice(map) /\ msg_map' = map /\ UNCHANGED shown
    BY <2>1 DEF Noticed
  <2>2. CASE /\ mode # "COMMAND" /\ chat = {}
             /\ msg_map' = map
             /\ UNCHANGED <<msg_count, announced, emptied, shown>>
    BY <2>2 DEF Ignored
  <2>3. CASE \E i \in chat :
                /\ shown' = [shown EXCEPT ![chat_uin] = @ \o
                                [j \in DOMAIN map[i].msgs |-> map[i].msgs[j].n]]
                /\ msg_map' = Unfile(map, i)
                /\ emptied' = TRUE
                /\ UNCHANGED <<msg_count, announced>>
    BY <1>2, <2>3 DEF Chatted
  <2>4. QED BY <1>3, <2>1, <2>2, <2>3
<1>5. /\ phase = "poll" /\ todo = <<>> /\ waiting = None /\ phase' = "input"
      /\ net' = Rest(n) /\ recv_list' = Those(recv_list \o Batch(n), IsOther)
      /\ msg_list' = <<>>
      /\ UNCHANGED <<todo, waiting, wait_list, mode, chat_uin, requests, stored, sent,
                   line, asked, history>>
  BY DEF select_loop
<1>6. QED BY <1>1, <1>4, <1>5 DEF map

LEMMA SelectLoopType ==
    ASSUME TypeInv, NEW n \in Batches, select_loop(n)
    PROVE  TypeInv'
<1>1. TypeOK /\ BudgetInv
  BY DEF TypeInv
<1> DEFINE map == Filled(n)
<1>2. /\ phase' = "input" /\ net' = Rest(n)
      /\ recv_list' = Those(recv_list \o Batch(n), IsOther) /\ msg_list' = <<>>
      /\ map \in Seq(Filed)
      /\ Noticed(map) \/ Ignored(map) \/ \E i \in 1 .. Len(map) : Chatted(map, i)
      /\ UNCHANGED <<todo, waiting, wait_list, mode, chat_uin, requests, stored, sent,
                   line, asked, history>>
  BY <1>1, SelectLoop
<1> HIDE DEF map
<1>3. net' \in Seq(Packet) /\ recv_list' \in Seq(Packet) /\ msg_list' \in Seq(Packet)
  BY <1>1, <1>2, BatchFacts, ReceivedType, EmptySeq
<1>4. /\ msg_map' \in Seq(Filed) /\ msg_count' \in Nat /\ announced' \in Seq(Sender)
      /\ shown' \in [Sender -> Seq(Nat)] /\ emptied' \in BOOLEAN
  <2>1. /\ msg_count \in Nat /\ announced \in Seq(Sender)
        /\ shown \in [Sender -> Seq(Nat)] /\ emptied \in BOOLEAN
    BY <1>1 DEF TypeOK
  <2>2. CASE Noticed(map)
    <3>1. Len(map) \in Nat /\ Senders(map) \in Seq(Sender)
      BY <1>2, LenProperties, SendersFacts
    <3>2. CASE Len(map) = msg_count
      BY <1>2, <2>1, <2>2, <3>2 DEF Noticed, Notice
    <3>3. CASE Len(map) # msg_count
      BY <1>2, <2>1, <2>2, <3>1, <3>3 DEF Noticed, Notice
    <3>4. QED BY <3>2, <3>3
  <2>3. CASE Ignored(map)
    BY <1>2, <2>1, <2>3 DEF Ignored
  <2>4. ASSUME NEW i \in 1 .. Len(map), Chatted(map, i)
        PROVE  /\ msg_map' \in Seq(Filed) /\ msg_count' \in Nat /\ announced' \in Seq(Sender)
               /\ shown' \in [Sender -> Seq(Nat)] /\ emptied' \in BOOLEAN
    <3>1. map[i] \in Filed /\ Unfile(map, i) \in Seq(Filed)
      BY <1>2, SeqSet, UnfileFacts
    <3>2. [j \in DOMAIN map[i].msgs |-> map[i].msgs[j].n] \in Seq(Nat)
      <4>1. PICK q \in Seq(Message) : q = map[i].msgs
        BY <3>1, FiledType
      <4>2. Len(q) \in Nat /\ DOMAIN q = 1 .. Len(q) /\ \A j \in 1 .. Len(q) : q[j] \in Message
        BY SeqSet
      <4>3. [j \in DOMAIN q |-> q[j].n] \in [1 .. Len(q) -> Nat]
        BY <4>2 DEF Message
      <4>4. [j \in DOMAIN q |-> q[j].n] \in Seq(Nat)
        BY <4>2, <4>3, IsASeq
      <4>5. QED BY <4>1, <4>4
    <3>3. \A s \in Sender : shown[s] \o [j \in DOMAIN map[i].msgs |-> map[i].msgs[j].n] \in Seq(Nat)
      BY <2>1, <3>2, ConcatProperties
    <3>4. chat_uin \in Sender
      BY <2>4, <3>1, FiledType DEF Chatted
    <3>5. shown' \in [Sender -> Seq(Nat)]
      BY <2>1, <2>4, <3>3, <3>4 DEF Chatted
    <3>6. QED BY <2>1, <2>4, <3>1, <3>5 DEF Chatted
  <2>5. QED BY <1>2, <2>2, <2>3, <2>4
<1>5. TypeOK'
  BY <1>1, <1>2, <1>3, <1>4 DEF TypeOK, history
<1>6. BudgetInv'
  BY <1>1, <1>2 DEF BudgetInv
<1>7. QED BY <1>5, <1>6 DEF TypeInv

\* The first message of a sender is shown, and was the last or was not.
Dropped(i) ==
    /\ Len(msg_map') = Len(msg_map)
    /\ \A j \in 1 .. Len(msg_map) :
        /\ msg_map'[j].uin = msg_map[j].uin
        /\ msg_map'[j].msgs = IF j = i THEN Tail(msg_map[j].msgs) ELSE msg_map[j].msgs

LEMMA ShowMessage ==
    ASSUME TypeOK, NEW i \in DOMAIN msg_map, ui_show_message(i)
    PROVE  /\ i \in 1 .. Len(msg_map) /\ msg_map[i] \in Filed
           /\ Head(msg_map[i].msgs) \in Message /\ Tail(msg_map[i].msgs) \in Seq(Message)
           /\ msg_map[i].msgs = <<Head(msg_map[i].msgs)>> \o Tail(msg_map[i].msgs)
           /\ Seen(Head(msg_map[i].msgs))
           /\ msg_map' \in Seq(Filed)
           /\ \/ emptied' = TRUE /\ msg_map' = Unfile(msg_map, i) /\ Tail(msg_map[i].msgs) = <<>>
              \/ emptied' = emptied /\ Dropped(i)
           /\ mode' \in {"COMMAND", "CHAT", "AUTH"} /\ chat_uin' \in Sender \cup {Nobody}
           /\ Input /\ UNCHANGED <<todo, msg_count, announced>>
<1> DEFINE q == msg_map[i].msgs
           m == Head(q)
           n == Len(msg_map)
<1>1. msg_map \in Seq(Filed) /\ n \in Nat /\ DOMAIN msg_map = 1 .. n
      /\ \A j \in 1 .. n : msg_map[j] \in Filed
  BY SeqSet DEF TypeOK
<1>2. i \in 1 .. n
  BY <1>1
<1>3. q \in Seq(Message) /\ q # <<>> /\ msg_map[i].uin \in Sender
      /\ msg_map[i] = [uin |-> msg_map[i].uin, msgs |-> q]
  BY <1>1, <1>2, FiledType
<1>4. /\ m \in Message /\ Tail(q) \in Seq(Message) /\ Len(Tail(q)) = Len(q) - 1
      /\ \A j \in 1 .. Len(Tail(q)) : Tail(q)[j] = q[j + 1]
  BY <1>3, HeadTailProperties
<1>5. q = <<m>> \o Tail(q)
  <2> HIDE DEF q, m
  <2>1. <<m>> \in Seq(Message) /\ Len(<<m>>) = 1 /\ <<m>>[1] = m
    BY <1>4, SingleSet
  <2>2. PICK a \in Seq(Message) : a = <<m>> /\ Len(a) = 1 /\ a[1] = m
    BY <2>1
  <2>3. PICK b \in Seq(Message) : b = Tail(q)
    BY <1>4
  <2>4. /\ a \o b \in Seq(Message) /\ Len(a \o b) = Len(a) + Len(b)
        /\ \A j \in 1 .. Len(a) + Len(b) : (a \o b)[j] = IF j <= Len(a) THEN a[j] ELSE b[j - Len(a)]
    BY ConcatProperties
  <2>5. Len(q) \in Nat /\ Len(q) # 0 /\ m = q[1]
    <3>1. Len(q) \in Nat /\ Len(q) # 0
      BY <1>3, LenProperties, EmptySeq
    <3>2. m = q[1]
      BY <1>3 DEF m
    <3>3. QED BY <3>1, <3>2
  <2>6. Len(a \o b) = Len(q)
    BY <1>4, <2>2, <2>3, <2>4, <2>5
  <2>7. ASSUME NEW j \in 1 .. Len(q) PROVE q[j] = (a \o b)[j]
    <3>1. (a \o b)[j] = IF j <= 1 THEN a[j] ELSE b[j - 1]
      BY <2>2, <2>4, <2>6
    <3>2. CASE j = 1
      BY <2>2, <2>5, <3>1, <3>2
    <3>3. CASE j # 1
      <4>1. PICK k \in 1 .. (Len(q) - 1) : k = j - 1 /\ k + 1 = j
        BY <2>5, <3>3
      <4>2. b[k] = q[k + 1]
        BY <1>4, <2>3, <4>1
      <4>3. QED BY <2>5, <3>1, <3>3, <4>1, <4>2
    <3>4. QED BY <3>2, <3>3
  <2>8. q = a \o b
    BY <1>3, <2>4, <2>6, <2>7, SeqEqual
  <2>9. QED BY <2>2, <2>3, <2>8
<1>6. Seen(m) /\ Input /\ UNCHANGED <<todo, msg_count, announced>>
  BY DEF ui_show_message
<1>7. mode' \in {"COMMAND", "CHAT", "AUTH"} /\ chat_uin' \in Sender \cup {Nobody}
  <2>1. m.from \in Sender
    BY <1>4 DEF Message
  <2>2. mode \in {"COMMAND", "CHAT", "AUTH"} /\ chat_uin \in Sender \cup {Nobody}
    BY DEF TypeOK
  <2>3. mode' = CASE m.type = "REQUEST" -> "AUTH"
                  [] m.type = "CHAT" -> "CHAT"
                  [] OTHER -> mode
    BY DEF ui_show_message
  <2>4. chat_uin' = IF m.type = "ACCEPT" THEN chat_uin ELSE m.from
    BY DEF ui_show_message
  <2> HIDE DEF m
  <2>5. QED BY <2>1, <2>2, <2>3, <2>4
<1>8. msg_map' = IF Len(q) = 1 THEN Unfile(msg_map, i) ELSE [msg_map EXCEPT ![i].msgs = Tail(@)]
  BY DEF ui_show_message
<1>9. emptied' = (emptied \/ Len(q) = 1)
  BY DEF ui_show_message
<1>10. emptied \in BOOLEAN
  BY DEF TypeOK
<1>11. CASE Len(q) = 1
  <2>1. msg_map' = Unfile(msg_map, i) /\ msg_map' \in Seq(Filed)
    BY <1>1, <1>2, <1>8, <1>11, UnfileFacts
  <2>2. emptied' = TRUE
    BY <1>9, <1>10, <1>11
  <2>3. Tail(q) = <<>>
    <3>1. PICK b \in Seq(Message) : b = Tail(q) /\ Len(b) = Len(q) - 1
      BY <1>4
    <3>2. Len(b) = 0
      BY <1>11, <3>1
    <3>3. b = <<>>
      BY <3>2, EmptySeq
    <3>4. QED BY <3>1, <3>3
  <2>4. QED BY <1>1, <1>2, <1>4, <1>5, <1>6, <1>7, <2>1, <2>2, <2>3
<1>12. CASE Len(q) # 1
  <2>1. msg_map' = [msg_map EXCEPT ![i].msgs = Tail(q)]
    BY <1>8, <1>12
  <2>2. emptied' = emptied
    BY <1>9, <1>10, <1>12
  <2>3. Tail(q) # <<>>
    <3>1. Len(q) \in Nat /\ Len(q) # 0
      BY <1>3, LenProperties, EmptySeq
    <3>2. Len(Tail(q)) # 0
      BY <1>4, <1>12, <3>1
    <3>3. QED BY <1>4, <3>2, EmptySeq
  <2> DEFINE e == [uin |-> msg_map[i].uin, msgs |-> Tail(q)]
  <2>4. e \in Filed
    BY <1>3, <1>4, <2>3, FiledType
  <2>5. [msg_map[i] EXCEPT !.msgs = Tail(q)] = e
    <3> DEFINE u == msg_map[i].uin
               t == Tail(q)
    <3>1. msg_map[i] = [uin |-> u, msgs |-> q]
      BY <1>3
    <3> HIDE DEF u, q, t
    <3>2. [msg_map[i] EXCEPT !.msgs = t] = [uin |-> u, msgs |-> t]
      BY <3>1
    <3>3. QED BY <3>2 DEF u, t
  <2>6. msg_map' = [msg_map EXCEPT ![i] = e]
    BY <1>1, <1>2, <2>1, <2>5
  <2>7. \A j \in 1 .. n : msg_map'[j] = IF j = i THEN e ELSE msg_map[j]
    BY <1>1, <2>6
  <2>8. e.uin = msg_map[i].uin /\ e.msgs = Tail(q)
    OBVIOUS
  <2> HIDE DEF e, n
  <2>9. msg_map' \in [1 .. n -> Filed]
    BY <1>1, <2>4, <2>6
  <2>10. msg_map' \in Seq(Filed) /\ Len(msg_map') = n
    BY <1>1, <2>9, IsASeq, LenProperties
  <2>11. Dropped(i)
    BY <2>7, <2>8, <2>10 DEF Dropped, n
  <2>12. QED BY <1>1, <1>2, <1>4, <1>5, <1>6, <1>7, <2>2, <2>10, <2>11 DEF n
<1>13. QED BY <1>11, <1>12

LEMMA ShowMessageType ==
    ASSUME TypeInv, NEW i \in DOMAIN msg_map, ui_show_message(i)
    PROVE  TypeInv'
<1>1. TypeOK /\ BudgetInv
  BY DEF TypeInv
<1> DEFINE m == Head(msg_map[i].msgs)
<1>2. /\ m \in Message /\ Seen(m) /\ msg_map' \in Seq(Filed)
      /\ mode' \in {"COMMAND", "CHAT", "AUTH"} /\ chat_uin' \in Sender \cup {Nobody}
      /\ Input /\ UNCHANGED <<todo, msg_count, announced>>
  BY <1>1, ShowMessage
<1>3. emptied' \in BOOLEAN
  <2>1. emptied' = TRUE \/ emptied' = emptied
    BY <1>1, ShowMessage
  <2>2. QED BY <1>1, <2>1 DEF TypeOK
<1> HIDE DEF m
<1>4. shown' \in [Sender -> Seq(Nat)]
  <2>1. shown \in [Sender -> Seq(Nat)] /\ m.n \in Nat
    BY <1>1, <1>2 DEF TypeOK, Message
  <2>2. \A s \in Sender : Append(shown[s], m.n) \in Seq(Nat)
    BY <2>1, AppendProperties
  <2>3. QED BY <1>2, <2>1, <2>2 DEF Seen
<1>5. /\ phase' = "poll" /\ UNCHANGED <<waiting, recv_list, wait_list, msg_list, servers, asked, history>>
  BY <1>2 DEF Input
<1>6. TypeOK'
  BY <1>1, <1>2, <1>3, <1>4, <1>5 DEF TypeOK, servers, history
<1>7. BudgetInv'
  BY <1>1, <1>2, <1>5 DEF BudgetInv
<1>8. QED BY <1>6, <1>7 DEF TypeInv

LEMMA CommandType ==
    ASSUME TypeInv, ui_command
    PROVE  TypeInv'
<1>1. TypeOK /\ BudgetInv
  BY DEF TypeInv
<1>2. PICK cmd \in {"CMD_SET_NICK", "CMD_ADD_CONTACT", "CMD_CONTACT_LIST"} :
        /\ todo' = <<cmd>>
        /\ asked + accused + 1 + (IF cmd = "CMD_CONTACT_LIST" THEN MaxDetails ELSE 0)
                <= MaxRequests
  BY DEF ui_command
<1>3. /\ phase' = "poll" /\ waiting = None
      /\ UNCHANGED <<waiting, recv_list, wait_list, msg_list, servers, asked, history>>
      /\ UNCHANGED <<msg_map, screen>>
  BY DEF ui_command, Input
<1>4. cmd \in Command
  BY DEF Command
<1>5. /\ todo' \in Seq(Command) /\ Len(todo') = 1 /\ DOMAIN todo' = 1 .. 1 /\ todo'[1] = cmd
  BY <1>2, <1>4
<1>6. TypeOK'
  BY <1>1, <1>3, <1>5 DEF TypeOK, servers, history, screen
<1>7. {asked, accused, MaxDetails, MaxRequests} \subseteq Nat /\ asked' = asked
  BY <1>1, <1>3, BoundAssumption DEF TypeOK
<1>8. waiting'.cmd # LIST
  BY <1>3 DEF None, LIST
<1>9. \A i \in DOMAIN todo' : i = 1
  BY <1>5
<1>10. asked' + Len(todo') <= MaxRequests
  BY <1>2, <1>5, <1>7
<1>11. (\E i \in DOMAIN todo' : todo'[i] = LIST) => asked' + Len(todo') + MaxDetails <= MaxRequests
  BY <1>2, <1>5, <1>7, <1>9 DEF LIST
<1>12. BudgetInv'
  BY <1>8, <1>9, <1>10, <1>11 DEF BudgetInv
<1>13. QED BY <1>6, <1>12 DEF TypeInv

\* The other inputs of the user.
LEMMA OtherInput ==
    ASSUME TypeOK, no_input \/ (\E s \in Sender : ui_chat(s)) \/ ui_back \/ ui_quit
    PROVE  /\ \/ phase' = "poll"
              \/ phase' = "ended" /\ waiting = None /\ todo = <<>>
           /\ mode' \in {"COMMAND", "CHAT", "AUTH"} /\ chat_uin' \in Sender \cup {Nobody}
           /\ UNCHANGED <<todo, waiting, lists, msg_count, shown, announced, emptied, servers,
                          asked, history>>
           /\ phase = "input"
<1>1. mode \in {"COMMAND", "CHAT", "AUTH"} /\ chat_uin \in Sender \cup {Nobody}
  BY DEF TypeOK
<1>2. CASE no_input
  BY <1>1, <1>2 DEF no_input, Input, screen, lists
<1>3. CASE \E s \in Sender : ui_chat(s)
  BY <1>1, <1>3 DEF ui_chat, Input, lists
<1>4. CASE ui_back
  BY <1>1, <1>4 DEF ui_back, Input, lists
<1>5. CASE ui_quit
  BY <1>1, <1>5 DEF ui_quit, screen
<1>6. QED BY <1>2, <1>3, <1>4, <1>5

LEMMA TypeStep ==
    ASSUME TypeInv, [Next]_vars
    PROVE  TypeInv'
<1>1. CASE UNCHANGED vars
  BY <1>1 DEF TypeInv, TypeOK, BudgetInv, vars, lists, screen, servers, history
<1>2. CASE \E i \in DOMAIN requests : Answer(i)
  BY <1>2, AnswerType
<1>2a. CASE ForeignError
  BY <1>2a, AccusedType
<1>3. CASE \E s \in Sender : Send(s)
  BY <1>3, SendStepType
<1>4. CASE request
  BY <1>4, RequestType
<1>5. CASE Receive
  BY <1>5, WaitForReplyType, GetOfflineType, SelectLoopType DEF Receive
<1>6. CASE ui_command
  BY <1>6, CommandType
<1>7. CASE \E i \in DOMAIN msg_map : ui_show_message(i)
  BY <1>7, ShowMessageType
<1>8. CASE no_input \/ (\E s \in Sender : ui_chat(s)) \/ ui_back \/ ui_quit
  <2>1. TypeOK /\ BudgetInv
    BY DEF TypeInv
  <2>2. /\ phase' \in {"poll", "ended"}
        /\ mode' \in {"COMMAND", "CHAT", "AUTH"} /\ chat_uin' \in Sender \cup {Nobody}
        /\ UNCHANGED <<todo, waiting, lists, msg_count, shown, announced, emptied, servers,
                       asked, history>>
    BY <1>8, <2>1, OtherInput
  <2>3. TypeOK' /\ BudgetInv'
    BY <2>1, <2>2 DEF TypeOK, BudgetInv, lists, servers, history
  <2>4. QED BY <2>3 DEF TypeInv
<1>9. QED BY <1>1, <1>2, <1>2a, <1>3, <1>4, <1>5, <1>6, <1>7, <1>8 DEF Next

\* The variables have their types, and no more requests are sent than the bound
\* allows: a command never starts what it may not finish.
THEOREM TypeCorrect == Spec => []TypeOK
<1>1. TypeInv => TypeOK
  BY DEF TypeInv
<1>2. QED BY <1>1, TypeInit, TypeStep, PTL DEF Spec

-----------------------------------------------------------------------------
(* Phases.                                                                 *)

\* What PhaseInv is about.
phased == <<phase, todo, waiting, gaveUp, emptied, mode, msg_count, msg_map, announced>>

LEMMA PhaseInit == Init => PhaseInv
<1> SUFFICES ASSUME Init PROVE PhaseInv
  OBVIOUS
<1>1. /\ todo = <<"CMD_LOGIN", "CMD_CONTACT_LIST", "CMD_OFFLINE_MSG">>
      /\ phase = "login" /\ waiting = None /\ ~gaveUp /\ ~emptied /\ mode = "COMMAND"
      /\ msg_count = 0 /\ msg_map = <<>> /\ announced = <<>>
  BY DEF Init
<1>2. waiting.cmd # OFFLINE
  BY <1>1 DEF None, OFFLINE
<1>3. todo # <<>> /\ \A i \in DOMAIN todo : todo[i] = OFFLINE <=> i = Len(todo)
  BY <1>1 DEF OFFLINE
<1>4. QED BY <1>1, <1>2, <1>3 DEF PhaseInv

LEMMA PhaseRequest ==
    ASSUME TypeOK, PhaseInv, request
    PROVE  PhaseInv'
<1>1. todo # <<>> /\ todo' = Tail(todo) /\ waiting' = [cmd |-> Head(todo), id |-> asked + 1]
      /\ waiting = None
      /\ UNCHANGED <<phase, gaveUp, emptied, mode, msg_count, msg_map, announced>>
  BY DEF request, lists, screen, history
<1> DEFINE n == Len(todo)
<1>2. /\ n \in Nat \ {0} /\ DOMAIN todo = 1 .. n /\ Head(todo) = todo[1]
      /\ Tail(todo) \in Seq(Command) /\ Len(Tail(todo)) = n - 1
      /\ DOMAIN Tail(todo) = 1 .. (n - 1)
      /\ \A i \in 1 .. (n - 1) : Tail(todo)[i] = todo[i + 1]
  BY <1>1, TodoFacts
<1>3. waiting'.cmd = todo[1] /\ 1 \in DOMAIN todo /\ waiting.cmd # OFFLINE
  BY <1>1, <1>2 DEF None, OFFLINE
<1> HIDE DEF n
<1>4. \A i \in 1 .. (n - 1) : i + 1 \in DOMAIN todo /\ todo'[i] = todo[i + 1] /\ (i = n - 1 <=> i + 1 = n)
  BY <1>1, <1>2
<1>5. CASE phase = "login"
  <2>1. \A i \in DOMAIN todo : todo[i] = OFFLINE <=> i = n
    BY <1>3, <1>5 DEF PhaseInv, n
  <2>2. CASE n = 1
    <3>1. waiting'.cmd = OFFLINE
      BY <1>3, <2>1, <2>2
    <3>2. todo' = <<>>
      <4>1. PICK q \in Seq(Command) : q = Tail(todo) /\ Len(q) = n - 1
        BY <1>2
      <4>2. Len(q) = 0
        BY <2>2, <4>1
      <4>3. QED BY <1>1, <4>1, <4>2, EmptySeq
    <3>3. QED BY <1>1, <1>5, <3>1, <3>2 DEF PhaseInv
  <2>3. CASE n # 1
    <3>1. waiting'.cmd # OFFLINE
      BY <1>3, <2>1, <2>3
    <3>2. Len(todo') = n - 1 /\ DOMAIN todo' = 1 .. (n - 1) /\ n - 1 # 0
      BY <1>1, <1>2, <2>3
    <3>3. todo' # <<>>
      BY <1>1, <1>2, <3>2, EmptySeq
    <3>4. \A i \in DOMAIN todo' : todo'[i] = OFFLINE <=> i = Len(todo')
      BY <1>4, <2>1, <3>2
    <3>5. QED BY <1>1, <1>5, <3>1, <3>3, <3>4 DEF PhaseInv
  <2>4. QED BY <2>2, <2>3
<1>6. CASE phase # "login"
  <2>1. phase # "ended"
    BY <1>1, <1>6 DEF PhaseInv
  <2>2. \A i \in DOMAIN todo : todo[i] # OFFLINE
    BY <1>6 DEF PhaseInv
  <2>3. waiting'.cmd # OFFLINE /\ \A i \in DOMAIN todo' : todo'[i] # OFFLINE
    BY <1>1, <1>2, <1>3, <1>4, <2>2
  <2>4. QED BY <1>1, <1>6, <2>1, <2>3 DEF PhaseInv
<1>7. QED BY <1>5, <1>6

LEMMA PhaseWaitForReply ==
    ASSUME TypeOK, PhaseInv, NEW n \in Batches, wait_for_reply(n)
    PROVE  PhaseInv' /\ (phase # "login" => phase' = phase) /\ phase # "ended"
           /\ (phase = "login" => phase' \in {"login", "ended"})
<1>1. /\ waiting # None /\ waiting.cmd # OFFLINE /\ waiting' = None
      /\ Failed \/ Ended \/ Details
      /\ Failed \/ gaveUp' = gaveUp
      /\ UNCHANGED <<msg_map, screen>>
  <2>1. /\ waiting # None /\ waiting.cmd # OFFLINE /\ waiting' = None
        /\ UNCHANGED <<msg_map, screen>>
    BY WaitForReply
  <2>2. CASE Found(n) = <<>>
    BY <2>1, <2>2, WaitForReply
  <2>3. CASE Found(n) # <<>>
    BY <2>1, <2>3, WaitForReply
  <2>4. QED BY <2>2, <2>3
<1>2. UNCHANGED <<emptied, mode, msg_count, msg_map, announced>>
  BY <1>1 DEF screen
<1>3. phase # "ended" /\ waiting'.cmd # OFFLINE
  BY <1>1 DEF PhaseInv, None, OFFLINE
<1>4. CASE phase = "login"
  <2>1. todo # <<>> /\ \A i \in DOMAIN todo : todo[i] = OFFLINE <=> i = Len(todo)
    BY <1>1, <1>4 DEF PhaseInv
  <2>2. CASE Failed
    <3>1. phase' = "ended" /\ todo' = <<>>
      BY <1>4, <2>2 DEF Failed
    <3>2. DOMAIN todo' = {}
      BY <3>1
    <3>3. QED BY <1>1, <1>3, <1>4, <3>1, <3>2 DEF PhaseInv
  <2>3. CASE Ended /\ ~Failed
    <3>1. phase' = "login" /\ todo' = todo /\ gaveUp' = gaveUp
      BY <1>1, <1>4, <2>1, <2>3 DEF Ended
    <3>2. QED BY <1>2, <1>3, <1>4, <2>1, <3>1 DEF PhaseInv
  <2>4. CASE Details /\ ~Failed
    <3>1. phase' = "login" /\ gaveUp' = gaveUp
      BY <1>1, <1>4, <2>4 DEF Details
    <3>2. PICK k \in 0 .. MaxDetails : todo' = [i \in 1 .. k |-> INFO] \o todo
      BY <2>4 DEF Details
    <3>3. /\ todo' \in Seq(Command) /\ Len(todo') = k + Len(todo)
          /\ \A i \in DOMAIN todo' :
                \/ todo'[i] = INFO /\ (i = Len(todo') => todo = <<>>)
                \/ i - k \in DOMAIN todo /\ todo'[i] = todo[i - k]
      BY <3>2, DetailsFacts
    <3>4. Len(todo) \in Nat /\ Len(todo) # 0 /\ k \in Nat
      BY <2>1, LenProperties, EmptySeq, BoundAssumption DEF TypeOK
    <3>5. todo' # <<>>
      BY <3>3, <3>4, EmptySeq
    <3>6. DOMAIN todo' = 1 .. (k + Len(todo))
      BY <3>3, LenProperties
    <3>7. \A i \in DOMAIN todo' : todo'[i] = OFFLINE <=> i = Len(todo')
      <4>1. ASSUME NEW i \in DOMAIN todo' PROVE todo'[i] = OFFLINE <=> i = Len(todo')
        <5>1. CASE todo'[i] = INFO /\ (i = Len(todo') => todo = <<>>)
          BY <2>1, <5>1 DEF INFO, OFFLINE
        <5>2. CASE i - k \in DOMAIN todo /\ todo'[i] = todo[i - k]
          <6>1. i - k = Len(todo) <=> i = Len(todo')
            BY <3>3, <3>4, <3>6
          <6>2. QED BY <2>1, <5>2, <6>1
        <5>3. QED BY <3>3, <5>1, <5>2
      <4>2. QED BY <4>1
    <3>8. QED BY <1>2, <1>3, <1>4, <3>1, <3>5, <3>7 DEF PhaseInv
  <2>5. QED BY <1>1, <2>2, <2>3, <2>4
<1>5. CASE phase # "login"
  <2>1. \A i \in DOMAIN todo : todo[i] # OFFLINE
    BY <1>5 DEF PhaseInv
  <2>2. phase' = phase
    BY <1>1, <1>5 DEF Failed, Ended, Details
  <2>3. \A i \in DOMAIN todo' : todo'[i] # OFFLINE
    <3>1. CASE Failed
      <4>1. DOMAIN todo' = {}
        BY <3>1 DEF Failed
      <4>2. QED BY <4>1
    <3>2. CASE Ended
      BY <2>1, <3>2 DEF Ended
    <3>3. CASE Details
      <4>1. PICK k \in 0 .. MaxDetails : todo' = [i \in 1 .. k |-> INFO] \o todo
        BY <3>3 DEF Details
      <4>2. \A i \in DOMAIN todo' :
                \/ todo'[i] = INFO /\ (i = Len(todo') => todo = <<>>)
                \/ i - k \in DOMAIN todo /\ todo'[i] = todo[i - k]
        BY <4>1, DetailsFacts
      <4>3. QED BY <2>1, <4>2 DEF INFO, OFFLINE
    <3>4. QED BY <1>1, <3>1, <3>2, <3>3
  <2>4. QED BY <1>3, <1>5, <2>2, <2>3 DEF PhaseInv
<1>6. QED BY <1>4, <1>5

\* In ui_login, with nothing left to send: the loop begins, or the client gives up.
LEMMA PhaseGetOffline ==
    ASSUME TypeOK, PhaseInv, NEW n \in Batches, get_offline_msg(n)
    PROVE  PhaseInv' /\ phase = "login" /\ phase' \in {"input", "ended"}
           /\ (Failed => phase' = "ended") /\ (Ended => phase' = "input") /\ ~gaveUp
           /\ msg_map = <<>> /\ msg_count = 0 /\ ~emptied
<1>1. waiting.cmd = OFFLINE /\ waiting' = None /\ (Failed \/ Ended)
  BY GetOffline
<1>2. phase = "login" /\ todo = <<>> /\ ~gaveUp /\ msg_map = <<>> /\ msg_count = 0 /\ ~emptied
  BY <1>1 DEF PhaseInv
<1>3. /\ phase' \in {"input", "ended"} /\ todo' = <<>>
      /\ (Failed => phase' = "ended") /\ (Ended => phase' = "input")
  BY <1>1, <1>2 DEF Failed, Ended
<1>4. waiting'.cmd # OFFLINE /\ DOMAIN todo' = {}
  BY <1>1, <1>3 DEF None, OFFLINE
<1>5. QED BY <1>1, <1>2, <1>3, <1>4 DEF PhaseInv

LEMMA PhaseStep ==
    ASSUME TypeOK, PhaseInv, [Next]_vars
    PROVE  PhaseInv'
<1>1. ASSUME UNCHANGED phased PROVE PhaseInv'
  BY <1>1 DEF phased, PhaseInv
<1>2. CASE UNCHANGED vars
  BY <1>1, <1>2 DEF vars, phased, lists, screen, history
<1>3. CASE \E i \in DOMAIN requests : Answer(i)
  BY <1>1, <1>3 DEF Answer, phased, lists, screen
<1>3a. CASE ForeignError
  BY <1>1, <1>3a DEF ForeignError, phased, lists, screen
<1>4. CASE \E s \in Sender : Send(s)
  BY <1>1, <1>4 DEF Send, phased, lists, screen
<1>5. CASE request
  BY <1>5, PhaseRequest
<1>6. CASE Receive
  <2>1. ASSUME NEW n \in Batches, select_loop(n) PROVE PhaseInv'
    <3>1. phase' = "input" /\ todo' = <<>> /\ waiting' = None
      BY <2>1, SelectLoop
    <3>2. waiting'.cmd # OFFLINE /\ DOMAIN todo' = {}
      BY <3>1 DEF None, OFFLINE
    <3>3. QED BY <3>1, <3>2 DEF PhaseInv
  <2>2. QED BY <1>6, <2>1, PhaseWaitForReply, PhaseGetOffline DEF Receive
<1>7. CASE ui_command
  <2>1. PICK cmd \in {"CMD_SET_NICK", "CMD_ADD_CONTACT", "CMD_CONTACT_LIST"} : todo' = <<cmd>>
    BY <1>7 DEF ui_command
  <2>2. phase' = "poll" /\ waiting' = None
    BY <1>7 DEF ui_command, Input
  <2>3. waiting'.cmd # OFFLINE /\ \A i \in DOMAIN todo' : todo'[i] # OFFLINE
    BY <2>1, <2>2 DEF None, OFFLINE
  <2>4. QED BY <2>2, <2>3 DEF PhaseInv
<1>8. CASE \E i \in DOMAIN msg_map : ui_show_message(i)
  <2>1. phase' = "poll" /\ waiting' = None /\ todo' = <<>>
    BY <1>8 DEF ui_show_message, Input
  <2>2. waiting'.cmd # OFFLINE /\ DOMAIN todo' = {}
    BY <2>1 DEF None, OFFLINE
  <2>3. QED BY <2>1, <2>2 DEF PhaseInv
<1>9. CASE no_input \/ (\E s \in Sender : ui_chat(s)) \/ ui_back \/ ui_quit
  <2>1. /\ \/ phase' = "poll"
           \/ phase' = "ended" /\ waiting = None /\ todo = <<>>
        /\ phase = "input" /\ UNCHANGED <<todo, waiting>>
    BY <1>9, OtherInput
  <2>2. QED BY <2>1 DEF PhaseInv
<1>10. QED BY <1>2, <1>3, <1>3a, <1>4, <1>5, <1>6, <1>7, <1>8, <1>9 DEF Next

LEMMA LoginInit == Init => LoginInv
<1> SUFFICES ASSUME Init PROVE LoginInv
  OBVIOUS
<1>1. /\ todo = <<"CMD_LOGIN", "CMD_CONTACT_LIST", "CMD_OFFLINE_MSG">>
      /\ waiting = None
  BY DEF Init
<1>2. waiting.cmd # ADD /\ \A i \in DOMAIN todo : todo[i] # ADD
  BY <1>1 DEF None, ADD
<1>3. QED BY <1>2 DEF LoginInv

LEMMA LoginStep ==
    ASSUME TypeOK, PhaseInv, LoginInv, [Next]_vars
    PROVE  LoginInv'
<1>1. ASSUME phase' = phase, todo' = todo, waiting' = waiting PROVE LoginInv'
  BY <1>1 DEF LoginInv
<1>2. CASE UNCHANGED vars
  BY <1>1, <1>2 DEF vars
<1>3. CASE \E i \in DOMAIN requests : Answer(i)
  BY <1>1, <1>3 DEF Answer
<1>4. CASE ForeignError
  BY <1>1, <1>4 DEF ForeignError
<1>5. CASE \E s \in Sender : Send(s)
  BY <1>1, <1>5 DEF Send
<1>6. CASE request
  <2>1. /\ todo # <<>> /\ todo' = Tail(todo) /\ waiting' = [cmd |-> Head(todo), id |-> asked + 1]
        /\ phase' = phase
    BY <1>6 DEF request
  <2>2. /\ DOMAIN todo = 1 .. Len(todo) /\ Len(todo) \in Nat \ {0} /\ Head(todo) = todo[1]
        /\ DOMAIN Tail(todo) = 1 .. (Len(todo) - 1)
        /\ \A i \in 1 .. (Len(todo) - 1) : Tail(todo)[i] = todo[i + 1]
    BY <2>1, TodoFacts
  <2>3. 1 \in DOMAIN todo /\ \A i \in 1 .. (Len(todo) - 1) : i + 1 \in DOMAIN todo
    BY <2>2
  <2>4. waiting'.cmd = todo[1]
    BY <2>1, <2>2
  <2>5. QED BY <2>1, <2>2, <2>3, <2>4 DEF LoginInv
<1>7. CASE Receive
  <2>1. ASSUME NEW n \in Batches, wait_for_reply(n) PROVE LoginInv'
    <3>1. waiting' = None /\ (Failed \/ Ended \/ Details)
      <4>1. CASE Found(n) = <<>>
        BY <2>1, <4>1, WaitForReply
      <4>2. CASE Found(n) # <<>>
        BY <2>1, <4>2, WaitForReply
      <4>3. QED BY <4>1, <4>2
    <3>2. waiting'.cmd # ADD
      BY <3>1 DEF None, ADD
    <3>3. phase' = "login" => phase = "login"
      BY <2>1, PhaseWaitForReply
    <3>4. CASE phase = "login"
      <4>1. \A i \in DOMAIN todo : todo[i] # ADD
        BY <3>4 DEF LoginInv
      <4>2. CASE Failed
        <5>1. DOMAIN todo' = {}
          BY <4>2 DEF Failed
        <5>2. QED BY <3>2, <5>1 DEF LoginInv
      <4>3. CASE Ended
        BY <3>2, <4>1, <4>3 DEF Ended, LoginInv
      <4>4. CASE Details
        <5>1. PICK k \in 0 .. MaxDetails : todo' = [i \in 1 .. k |-> INFO] \o todo
          BY <4>4 DEF Details
        <5>2. \A i \in DOMAIN todo' :
                \/ todo'[i] = INFO
                \/ i - k \in DOMAIN todo /\ todo'[i] = todo[i - k]
          BY <5>1, DetailsFacts
        <5>3. QED BY <3>2, <4>1, <5>2 DEF LoginInv, INFO, ADD
      <4>5. QED BY <3>1, <4>2, <4>3, <4>4
    <3>5. QED BY <3>3, <3>4 DEF LoginInv
  <2>2. ASSUME NEW n \in Batches, get_offline_msg(n) PROVE LoginInv'
    <3>1. phase' \in {"input", "ended"}
      BY <2>2, PhaseGetOffline
    <3>2. QED BY <3>1 DEF LoginInv
  <2>3. ASSUME NEW n \in Batches, select_loop(n) PROVE LoginInv'
    <3>1. phase' = "input"
      BY <2>3, SelectLoop
    <3>2. QED BY <3>1 DEF LoginInv
  <2>4. QED BY <1>7, <2>1, <2>2, <2>3 DEF Receive
<1>8. CASE ui_command \/ \E i \in DOMAIN msg_map : ui_show_message(i)
  <2>1. phase' = "poll"
    BY <1>8 DEF ui_command, ui_show_message, Input
  <2>2. QED BY <2>1 DEF LoginInv
<1>9. CASE no_input \/ (\E s \in Sender : ui_chat(s)) \/ ui_back \/ ui_quit
  <2>1. phase' \in {"poll", "ended"}
    BY <1>9, OtherInput
  <2>2. QED BY <2>1 DEF LoginInv
<1>10. QED BY <1>2, <1>3, <1>4, <1>5, <1>6, <1>7, <1>8, <1>9 DEF Next

-----------------------------------------------------------------------------
(* The list of those who have sent messages.                               *)

ListsInv == ListInv /\ ListIsCurrent

\* What they are about.
listed == <<msg_count, announced, emptied, msg_map>>

LEMMA ListInit == Init => ListsInv
<1> SUFFICES ASSUME Init PROVE ListsInv
  OBVIOUS
<1>1. msg_count = 0 /\ announced = <<>> /\ msg_map = <<>> /\ phase = "login"
  BY DEF Init
<1>2. DOMAIN announced = {} /\ Len(announced) = 0 /\ Len(msg_map) = 0
  BY <1>1
<1>3. QED BY <1>1, <1>2 DEF ListsInv, ListInv, ListIsCurrent

LEMMA ListSame ==
    ASSUME TypeOK, ListsInv, UNCHANGED listed,
           \/ phase' # "input"
           \/ phase' = phase /\ mode' = mode
    PROVE  ListsInv'
BY DEF ListsInv, ListInv, ListIsCurrent, listed, Senders

LEMMA ListSelectLoop ==
    ASSUME TypeOK, ListsInv, NEW n \in Batches, select_loop(n)
    PROVE  ListsInv'
<1> DEFINE map == Filled(n)
<1>1. map \in Seq(Filed) /\ Grows(msg_map, map)
  <2>1. MsgsIn(msg_list \o Those(recv_list \o Batch(n), IsMessage)) \in Seq(Message)
    BY ReceivedType, MsgsType
  <2>2. QED BY <2>1, FileAllFacts DEF TypeOK, Filled
<1>2. /\ mode' = mode
      /\ Noticed(map) \/ Ignored(map) \/ \E i \in 1 .. Len(map) : Chatted(map, i)
  BY SelectLoop
<1> HIDE DEF map
<1>3. /\ Len(msg_map) \in Nat /\ Len(map) \in Nat /\ msg_count \in Nat /\ Len(announced) \in Nat
      /\ DOMAIN announced = 1 .. Len(announced) /\ announced \in Seq(Sender)
      /\ Senders(map) \in Seq(Sender) /\ Len(Senders(map)) = Len(map)
      /\ \A i \in 1 .. Len(map) : Senders(map)[i] = map[i].uin
  BY <1>1, LenProperties, SendersFacts DEF TypeOK
<1>4. Len(msg_map) <= Len(map) /\ \A i \in 1 .. Len(msg_map) : map[i].uin = msg_map[i].uin
  BY <1>1 DEF Grows
<1>5. ASSUME ~emptied
      PROVE  /\ msg_count <= Len(announced) /\ Len(announced) <= Len(map)
             /\ \A i \in 1 .. Len(announced) : announced[i] = map[i].uin
  <2>1. /\ msg_count <= Len(announced) /\ Len(announced) <= Len(msg_map)
        /\ \A i \in DOMAIN announced : announced[i] = msg_map[i].uin
    BY <1>5 DEF ListsInv, ListInv
  <2>2. \A i \in 1 .. Len(announced) : i \in 1 .. Len(msg_map)
    BY <1>3, <2>1
  <2>3. QED BY <1>3, <1>4, <2>1, <2>2
<1>6. CASE Noticed(map)
  <2>1. mode = "COMMAND" /\ Notice(map) /\ msg_map' = map
    BY <1>6 DEF Noticed
  <2>2. CASE Len(map) = msg_count
    <3>1. UNCHANGED <<msg_count, announced, emptied>>
      BY <2>1, <2>2 DEF Notice
    <3>2. ListInv'
      BY <1>3, <1>5, <2>1, <3>1 DEF ListInv
    <3>3. ASSUME ~emptied PROVE announced = Senders(map)
      <4>1. /\ msg_count <= Len(announced) /\ Len(announced) <= Len(map)
            /\ \A i \in 1 .. Len(announced) : announced[i] = map[i].uin
        BY <1>5, <3>3
      <4>2. Len(announced) = Len(map)
        <5>1. Len(map) <= Len(announced) /\ Len(announced) <= Len(map)
          BY <2>2, <4>1
        <5>2. Len(map) \in Nat /\ Len(announced) \in Nat
          BY <1>3
        <5>3. QED BY <5>1, <5>2
      <4>3. Len(announced) = Len(Senders(map))
        BY <1>3, <4>2
      <4>4. \A i \in 1 .. Len(announced) : announced[i] = Senders(map)[i]
        BY <1>3, <4>1, <4>2
      <4>5. QED BY <1>3, <4>3, <4>4, SeqEqual
    <3>4. ListIsCurrent'
      BY <2>1, <3>1, <3>3 DEF ListIsCurrent
    <3>5. QED BY <3>2, <3>4 DEF ListsInv
  <2>3. CASE Len(map) # msg_count
    <3>1. msg_count' = Len(map) /\ announced' = Senders(map) /\ emptied' = FALSE
      BY <2>1, <2>3 DEF Notice
    <3>2. DOMAIN announced' = 1 .. Len(map)
      BY <1>3, <3>1, LenProperties
    <3>3. ListInv'
      BY <1>3, <2>1, <3>1, <3>2 DEF ListInv
    <3>4. ListIsCurrent'
      BY <2>1, <3>1 DEF ListIsCurrent
    <3>5. QED BY <3>3, <3>4 DEF ListsInv
  <2>4. QED BY <2>2, <2>3
<1>7. CASE Ignored(map)
  <2>1. mode' # "COMMAND" /\ msg_map' = map /\ UNCHANGED <<msg_count, announced, emptied>>
    BY <1>2, <1>7 DEF Ignored
  <2>2. ListInv'
    BY <1>3, <1>5, <2>1 DEF ListInv
  <2>3. QED BY <2>1, <2>2 DEF ListsInv, ListIsCurrent
<1>8. CASE \E i \in 1 .. Len(map) : Chatted(map, i)
  <2>1. emptied'
    BY <1>8 DEF Chatted
  <2>2. QED BY <2>1 DEF ListsInv, ListInv, ListIsCurrent
<1>9. QED BY <1>2, <1>6, <1>7, <1>8

LEMMA ListGetOffline ==
    ASSUME TypeOK, PhaseInv, ListsInv, NEW n \in Batches, get_offline_msg(n)
    PROVE  ListsInv'
<1>1. msg_count = 0 /\ msg_count' = 0
  BY PhaseGetOffline, GetOffline
<1>2. msg_map' \in Seq(Filed)
  BY GetOffline
<1>3. \/ announced' = Senders(msg_map')
      \/ Failed /\ msg_map' = msg_map /\ announced' = announced
  BY GetOffline
<1>4. CASE announced' = Senders(msg_map')
  <2>1. PICK map \in Seq(Filed) : map = msg_map'
    BY <1>2
  <2>2. /\ Senders(map) \in Seq(Sender) /\ Len(Senders(map)) = Len(map) /\ Len(map) \in Nat
        /\ \A i \in 1 .. Len(map) : Senders(map)[i] = map[i].uin
    BY SendersFacts, LenProperties
  <2>3. announced' = Senders(map) /\ DOMAIN Senders(map) = 1 .. Len(map)
    BY <1>4, <2>1, <2>2, LenProperties
  <2>4. ListInv'
    BY <1>1, <2>1, <2>2, <2>3 DEF ListInv
  <2>5. ListIsCurrent'
    BY <2>1, <2>3 DEF ListIsCurrent
  <2>6. QED BY <2>4, <2>5 DEF ListsInv
<1>5. CASE Failed /\ msg_map' = msg_map /\ announced' = announced
  <2>1. phase' = "ended"
    <3>1. Failed => phase' = "ended"
      BY PhaseGetOffline
    <3>2. QED BY <1>5, <3>1
  <2>2. emptied' = emptied
    BY GetOffline
  <2>3. UNCHANGED listed
    BY <1>1, <1>5, <2>2 DEF listed
  <2>4. QED BY <2>1, <2>3, ListSame
<1>6. QED BY <1>3, <1>4, <1>5

LEMMA ListShowMessage ==
    ASSUME TypeOK, ListsInv, NEW i \in DOMAIN msg_map, ui_show_message(i)
    PROVE  ListsInv'
<1>1. phase' = "poll" /\ UNCHANGED <<msg_count, announced>>
  BY DEF ui_show_message, Input
<1>2. emptied' = TRUE \/ (emptied' = emptied /\ Dropped(i))
  BY ShowMessage
<1>3. CASE emptied' = TRUE
  BY <1>1, <1>3 DEF ListsInv, ListInv, ListIsCurrent
<1>4. CASE emptied' = emptied /\ Dropped(i)
  <2>1. ASSUME ~emptied
        PROVE  /\ msg_count <= Len(announced) /\ Len(announced) <= Len(msg_map')
               /\ \A j \in DOMAIN announced : announced[j] = msg_map'[j].uin
    <3>1. /\ msg_count <= Len(announced) /\ Len(announced) <= Len(msg_map)
          /\ \A j \in DOMAIN announced : announced[j] = msg_map[j].uin
      BY <2>1 DEF ListsInv, ListInv
    <3>2. /\ Len(msg_map') = Len(msg_map)
          /\ \A j \in 1 .. Len(msg_map) : msg_map'[j].uin = msg_map[j].uin
      BY <1>4 DEF Dropped
    <3>3. Len(announced) \in Nat /\ Len(msg_map) \in Nat /\ DOMAIN announced = 1 .. Len(announced)
      BY LenProperties DEF TypeOK
    <3>4. \A j \in DOMAIN announced : j \in 1 .. Len(msg_map)
      BY <3>1, <3>3
    <3>5. QED BY <3>1, <3>2, <3>4
  <2>2. QED BY <1>1, <1>4, <2>1 DEF ListsInv, ListInv, ListIsCurrent
<1>5. QED BY <1>2, <1>3, <1>4

LEMMA ListStep ==
    ASSUME TypeOK, PhaseInv, ListsInv, [Next]_vars
    PROVE  ListsInv'
<1>1. CASE UNCHANGED vars
  <2>1. UNCHANGED listed /\ phase' = phase /\ mode' = mode
    BY <1>1 DEF vars, listed, lists, screen
  <2>2. QED BY <2>1, ListSame
<1>2. CASE (\E i \in DOMAIN requests : Answer(i)) \/ (\E s \in Sender : Send(s)) \/ request
        \/ ForeignError
  <2>1. UNCHANGED listed /\ phase' = phase /\ mode' = mode
    BY <1>2 DEF Answer, Send, request, ForeignError, listed, lists, screen
  <2>2. QED BY <2>1, ListSame
<1>3. CASE Receive
  <2>1. ASSUME NEW n \in Batches, wait_for_reply(n) PROVE ListsInv'
    <3>1. UNCHANGED <<msg_map, screen>>
      BY <2>1, WaitForReply
    <3>2. UNCHANGED listed /\ mode' = mode
      BY <3>1 DEF screen, listed
    <3>3. phase' # "input" \/ phase' = phase
      BY <2>1, PhaseWaitForReply
    <3>4. QED BY <3>2, <3>3, ListSame
  <2>2. QED BY <1>3, <2>1, ListGetOffline, ListSelectLoop DEF Receive
<1>4. CASE ui_command
  <2>1. UNCHANGED listed /\ phase' = "poll"
    BY <1>4 DEF ui_command, Input, screen, listed
  <2>2. QED BY <2>1, ListSame
<1>5. CASE \E i \in DOMAIN msg_map : ui_show_message(i)
  BY <1>5, ListShowMessage
<1>6. CASE no_input \/ (\E s \in Sender : ui_chat(s)) \/ ui_back \/ ui_quit
  <2>1. /\ phase' = "poll" \/ phase' = "ended"
        /\ UNCHANGED <<lists, msg_count, announced, emptied>>
    BY <1>6, OtherInput
  <2>2. UNCHANGED listed /\ phase' # "input"
    BY <2>1 DEF lists, listed
  <2>3. QED BY <2>2, ListSame
<1>7. QED BY <1>1, <1>2, <1>3, <1>4, <1>5, <1>6 DEF Next

\* At the prompt the user sees the senders whose messages are waiting, in their
\* numbers, unless he has read all messages of one of them: comparing how many
\* they are is enough (ui_show_msg_list_notice).
THEOREM ListCorrect == Spec => []ListIsCurrent
<1>1. Init => TypeInv /\ PhaseInv /\ ListsInv
  BY TypeInit, PhaseInit, ListInit
<1>2. TypeInv /\ PhaseInv /\ ListsInv /\ [Next]_vars => (TypeInv /\ PhaseInv /\ ListsInv)'
  BY TypeStep, PhaseStep, ListStep DEF TypeInv
<1>3. TypeInv /\ PhaseInv /\ ListsInv => ListIsCurrent
  BY DEF ListsInv
<1>4. QED BY <1>1, <1>2, <1>3, PTL DEF Spec

-----------------------------------------------------------------------------
(* Replies.                                                                *)

CoreInv == TypeInv /\ PhaseInv /\ LoginInv /\ OwnInv /\ BareInv

\* What has been read of what has come, and what has not.
LEMMA ReceivedCut ==
    ASSUME TypeOK, NEW n \in Batches
    PROVE  /\ recv_list \o net \in Seq(Packet) /\ ToSet(recv_list \o net) = Coming
           /\ recv_list \o net = (recv_list \o Batch(n)) \o Rest(n)
           /\ ToSet(recv_list \o Batch(n)) \subseteq Coming /\ ToSet(Rest(n)) \subseteq Coming
<1>1. Batch(n) \in Seq(Packet) /\ Rest(n) \in Seq(Packet) /\ net = Batch(n) \o Rest(n)
  BY BatchFacts
<1>2. recv_list \in Seq(Packet) /\ net \in Seq(Packet)
  BY DEF TypeOK
<1>3. recv_list \o net \in Seq(Packet) /\ ToSet(recv_list \o net) = ToSet(recv_list) \cup ToSet(net)
  BY <1>2, ConcatSet
<1>4. ToSet(recv_list \o Batch(n)) = ToSet(recv_list) \cup ToSet(Batch(n))
  BY <1>1, <1>2, ConcatSet
<1>5. ToSet(net) = ToSet(Batch(n)) \cup ToSet(Rest(n))
  BY <1>1, ConcatSet
<1>6. recv_list \o net = (recv_list \o Batch(n)) \o Rest(n)
  <2>1. PICK x \in Seq(Packet), y \in Seq(Packet), z \in Seq(Packet) :
            x = recv_list /\ y = Batch(n) /\ z = Rest(n) /\ net = y \o z
    BY <1>1, <1>2
  <2>2. (x \o y) \o z = x \o (y \o z)
    BY ConcatThree
  <2>3. QED BY <2>1, <2>2
<1>7. QED BY <1>3, <1>4, <1>5, <1>6 DEF Coming

LEMMA ReplyFacts ==
    ASSUME NEW r, NEW q, ReplyTo(r, q)
    PROVE  \A p \in ToSet(q) : \/ p.kind = "offline" /\ r.cmd = OFFLINE
                               \/ p.kind \in {"reply", "error"} /\ p.to = r
<1>1. CASE q = <<>>
  BY <1>1, EmptySet
<1>2. ASSUME NEW p \in Packet, q = <<p>>, p.to = r, p.kind \in {"reply", "error"}
      PROVE  \A x \in ToSet(q) : x.kind \in {"reply", "error"} /\ x.to = r
  <2>1. ToSet(<<p>>) = {p}
    BY SingleSet
  <2>2. QED BY <1>2, <2>1
<1>3. ASSUME NEW o \in Packet, NEW p \in Packet, q = <<o, p>>, o.kind = "offline",
             p.kind = "reply", p.to = r, r.cmd = OFFLINE
      PROVE  \A x \in ToSet(q) : \/ x.kind = "offline" /\ r.cmd = OFFLINE
                                 \/ x.kind \in {"reply", "error"} /\ x.to = r
  <2>1. ToSet(<<o, p>>) = {o, p}
    BY DEF ToSet
  <2>2. QED BY <1>3, <2>1
<1>3a. ASSUME NEW o \in Packet, q = <<o>>, o.kind = "offline", r.cmd = OFFLINE
       PROVE  \A x \in ToSet(q) : x.kind = "offline" /\ r.cmd = OFFLINE
  <2>1. ToSet(<<o>>) = {o}
    BY SingleSet
  <2>2. QED BY <1>3a, <2>1
<1>4. \/ q = <<>>
      \/ r.cmd = OFFLINE /\ \E o \in Packet : q = <<o>> /\ o.kind = "offline"
      \/ \E p \in Packet : q = <<p>> /\ p.to = r /\ p.kind \in {"reply", "error"}
      \/ \E o, p \in Packet : /\ q = <<o, p>> /\ o.kind = "offline"
                              /\ p.kind = "reply" /\ p.to = r /\ r.cmd = OFFLINE
  BY DEF ReplyTo
<1>5. QED BY <1>1, <1>2, <1>3, <1>3a, <1>4

\* What has come then, if it is no message and answers nobody else, is the reply to
\* the request in wait_for_reply.
LEMMA OwnReply ==
    ASSUME TypeOK, LoginInv, OwnInv, Sure, waiting # None
    PROVE  /\ waiting \in Asked
           /\ \A p \in Coming :
                /\ p \in Packet
                /\ Taken(p) <=> IsOwn(p)
                /\ IsOwn(p) => \/ p.kind = "offline" /\ waiting.cmd = OFFLINE
                               \/ p.kind \in {"reply", "error"} /\ p.to = waiting
<1>1. waiting \in Asked
  BY DEF TypeOK
<1>2. recv_list = <<>> /\ net \in Seq(Packet)
  BY DEF OwnInv, TypeOK
<1>3. Coming = ToSet(net)
  BY <1>2, EmptySet DEF Coming
<1>4. ToSet(net) \subseteq Packet
  BY <1>2, SeqSet
<1>5. ToSet(Those(net, IsOwn)) = {p \in ToSet(net) : IsOwn(p)}
  BY <1>2, ThoseType
<1>6. ReplyTo(waiting, Those(net, IsOwn))
  BY DEF OwnInv, ReplyTo
<1>7. \A p \in ToSet(Those(net, IsOwn)) :
            \/ p.kind = "offline" /\ waiting.cmd = OFFLINE
            \/ p.kind \in {"reply", "error"} /\ p.to = waiting
  BY <1>6, ReplyFacts
<1>8. ASSUME NEW p \in Coming
      PROVE  /\ p \in Packet
             /\ Taken(p) <=> IsOwn(p)
             /\ IsOwn(p) => \/ p.kind = "offline" /\ waiting.cmd = OFFLINE
                            \/ p.kind \in {"reply", "error"} /\ p.to = waiting
  <2>1. p \in Packet
    BY <1>3, <1>4
  <2>2. IsOwn(p) => \/ p.kind = "offline" /\ waiting.cmd = OFFLINE
                    \/ p.kind \in {"reply", "error"} /\ p.to = waiting
    BY <1>3, <1>5, <1>7
  <2>3. Taken(p) => IsOther(p)
    BY DEF Taken, IsOther, IsMessage
  <2>4. ASSUME Taken(p), IsForeign(p) PROVE FALSE
    <3>1. CASE accused = 0
      BY <1>3, <2>4, <3>1 DEF OwnInv
    <3>2. CASE phase = "login"
      <4>1. waiting.cmd # ADD
        BY <3>2 DEF LoginInv
      <4>2. p.kind = "error" /\ p.to.cmd = ADD
        BY <2>4 DEF IsForeign, Foreign, ADD
      <4>3. QED BY <2>4, <4>1, <4>2 DEF Taken
    <3>3. QED BY <3>1, <3>2 DEF Sure
  <2>5. IsOwn(p) => Taken(p)
    BY <2>2 DEF Taken, OFFLINE
  <2>6. QED BY <2>1, <2>2, <2>3, <2>4, <2>5 DEF IsOwn
<1>9. QED BY <1>1, <1>8

LEMMA OwnReceived ==
    ASSUME TypeOK, LoginInv, OwnInv, Sure, waiting # None, NEW n \in Batches
    PROVE  /\ recv_list = <<>> /\ wait_list = <<>> /\ recv_list \o Batch(n) = Batch(n)
           /\ Found(n) \in Seq(Packet) /\ Those(Rest(n), IsOwn) \in Seq(Packet)
           /\ Found(n) = Those(Batch(n), IsOwn)
           /\ Those(net, IsOwn) = Found(n) \o Those(Rest(n), IsOwn)
<1>1. recv_list = <<>> /\ wait_list = <<>>
  BY DEF OwnInv
<1>2. Batch(n) \in Seq(Packet) /\ Rest(n) \in Seq(Packet) /\ net = Batch(n) \o Rest(n)
  BY BatchFacts
<1>3. recv_list \o Batch(n) = Batch(n)
  BY <1>1, <1>2, ConcatEmptySeq
<1>4. Those(Batch(n), Taken) \in Seq(Packet) /\ Those(Rest(n), IsOwn) \in Seq(Packet)
  BY <1>2, ThoseType
<1>5. Found(n) = Those(Batch(n), Taken)
  <2>1. Found(n) = <<>> \o Those(Batch(n), Taken)
    BY <1>1, <1>3 DEF Found
  <2>2. QED BY <1>4, <2>1, ConcatEmptySeq
<1>6. \A p \in ToSet(Batch(n)) : Taken(p) <=> IsOwn(p)
  <2>1. ToSet(Batch(n)) \subseteq Coming
    BY <1>3, ReceivedCut
  <2>2. QED BY <2>1, OwnReply
<1>7. Those(Batch(n), Taken) = Those(Batch(n), IsOwn)
  BY <1>2, <1>6, TakenIsOwn
<1>8. Those(net, IsOwn) = Those(Batch(n), IsOwn) \o Those(Rest(n), IsOwn)
  BY <1>2, ThoseConcat
<1>9. QED BY <1>1, <1>3, <1>4, <1>5, <1>7, <1>8

\* Nothing comes after what is as long as the whole.
LEMMA NothingAfter ==
    ASSUME NEW T, NEW s \in Seq(T), NEW t \in Seq(T), Len(s \o t) <= Len(s)
    PROVE  t = <<>> /\ s \o t = s
<1>1. Len(s) \in Nat /\ Len(t) \in Nat
  BY LenProperties
<1>2. Len(s \o t) = Len(s) + Len(t)
  BY ConcatProperties
<1>3. Len(t) = 0
  BY <1>1, <1>2
<1>4. t = <<>>
  BY <1>3, EmptySeq
<1>5. QED BY <1>4, ConcatEmptySeq

\* The reply to another request than CMD_OFFLINE_MSG.
LEMMA OwnFound ==
    ASSUME TypeOK, LoginInv, OwnInv, Sure, waiting # None, waiting.cmd # OFFLINE,
           NEW n \in Batches, Found(n) # <<>>
    PROVE  /\ requests = <<>> /\ Those(Rest(n), IsOwn) = <<>>
           /\ Head(Found(n)).to = waiting /\ Tail(Found(n)) = <<>>
<1> DEFINE q == Those(net, IsOwn)
           rest == Those(Rest(n), IsOwn)
<1>1. Found(n) \in Seq(Packet) /\ rest \in Seq(Packet) /\ q = Found(n) \o rest
  BY OwnReceived
<1>2. \/ requests = <<waiting>> /\ q = <<>>
      \/ requests = <<>> /\ ReplyTo(waiting, q)
  BY DEF OwnInv
<1> HIDE DEF q, rest
<1>3. Len(Found(n)) \in Nat /\ Len(Found(n)) # 0 /\ Len(rest) \in Nat
  BY <1>1, LenProperties, EmptySeq
<1>4. Len(q) = Len(Found(n)) + Len(rest)
  BY <1>1, ConcatProperties
<1>5. q # <<>>
  <2>1. Len(q) # 0
    BY <1>3, <1>4
  <2>2. Len(<<>>) = 0
    OBVIOUS
  <2>3. QED BY <2>1, <2>2
<1>6. requests = <<>> /\ \E p \in Packet : q = <<p>> /\ p.to = waiting
  BY <1>2, <1>5 DEF ReplyTo
<1>7. PICK p \in Packet : q = <<p>> /\ p.to = waiting
  BY <1>6
<1>8. Len(q) = 1
  BY <1>7
<1>9. Len(Found(n)) = 1
  <2>1. \A x, y \in Nat : x # 0 /\ x + y = 1 => x = 1
    OBVIOUS
  <2>2. Len(Found(n)) + Len(rest) = 1
    BY <1>4, <1>8
  <2>3. QED BY <1>3, <2>1, <2>2
<1>10. rest = <<>> /\ Found(n) = <<p>>
  <2>1. Len(Found(n) \o rest) <= Len(Found(n))
    BY <1>1, <1>8, <1>9
  <2>2. rest = <<>> /\ Found(n) \o rest = Found(n)
    BY <1>1, <2>1, NothingAfter
  <2>3. QED BY <1>1, <1>7, <2>2
<1>11. Head(<<p>>) = p /\ Tail(<<p>>) = <<>>
  OBVIOUS
<1>12. QED BY <1>6, <1>7, <1>10, <1>11 DEF rest

\* All of the reply to CMD_OFFLINE_MSG.
LEMMA OfflineFound ==
    ASSUME TypeOK, LoginInv, OwnInv, Sure, waiting.cmd = OFFLINE,
           NEW n \in Batches, \E i \in DOMAIN Found(n) : Found(n)[i].kind = "reply"
    PROVE  /\ requests = <<>> /\ stored = <<>>
           /\ Those(Rest(n), IsOwn) = <<>> /\ Found(n) = Those(net, IsOwn)
<1> DEFINE q == Those(net, IsOwn)
           rest == Those(Rest(n), IsOwn)
<1>1. waiting # None
  BY DEF None, OFFLINE
<1>2. Found(n) \in Seq(Packet) /\ rest \in Seq(Packet) /\ q = Found(n) \o rest
  BY <1>1, OwnReceived
<1>3. \/ requests = <<waiting>> /\ q = <<>>
      \/ requests = <<>> /\ ReplyTo(waiting, q)
  BY <1>1 DEF OwnInv
<1>4. q # <<>> => stored = <<>>
  BY DEF OwnInv
<1> HIDE DEF q, rest
<1> DEFINE k == Len(Found(n))
<1>5. k \in Nat /\ Len(rest) \in Nat /\ DOMAIN Found(n) = 1 .. k
  BY <1>2, LenProperties
<1>6. PICK i \in 1 .. k : Found(n)[i].kind = "reply"
  BY <1>5
<1>7. Len(q) = k + Len(rest) /\ \A j \in 1 .. k : q[j] = Found(n)[j]
  <2>1. PICK a \in Seq(Packet) : a = Found(n)
    BY <1>2
  <2>2. /\ Len(a \o rest) = Len(a) + Len(rest)
        /\ \A j \in 1 .. Len(a) + Len(rest) : (a \o rest)[j] = IF j <= Len(a) THEN a[j] ELSE rest[j - Len(a)]
    BY <1>2, ConcatProperties
  <2>3. \A j \in 1 .. Len(a) : j \in 1 .. Len(a) + Len(rest) /\ j <= Len(a)
    BY <1>5, <2>1
  <2>4. QED BY <1>2, <2>1, <2>2, <2>3
<1> HIDE DEF k
<1>8. q # <<>>
  <2>1. Len(q) # 0
    BY <1>5, <1>6, <1>7
  <2>2. Len(<<>>) = 0
    OBVIOUS
  <2>3. QED BY <2>1, <2>2
<1>9. Len(q) <= k
  <2>1. CASE \E p \in Packet : q = <<p>>
    <3>1. Len(q) = 1
      BY <2>1
    <3>2. QED BY <1>5, <1>6, <3>1
  <2>2. CASE \E o, p \in Packet : q = <<o, p>> /\ o.kind = "offline"
    <3>1. Len(q) = 2 /\ q[1].kind = "offline"
      BY <2>2
    <3>2. i # 1
      BY <1>6, <1>7, <3>1
    <3>3. QED BY <1>5, <1>6, <3>1, <3>2
  <2>3. QED BY <1>3, <1>8, <2>1, <2>2 DEF ReplyTo
<1>10. rest = <<>> /\ Found(n) \o rest = Found(n)
  <2>1. Len(Found(n) \o rest) <= Len(Found(n))
    BY <1>2, <1>9 DEF k
  <2>2. QED BY <1>2, <2>1, NothingAfter
<1>11. QED BY <1>2, <1>3, <1>4, <1>8, <1>10 DEF q, rest

LEMMA BareInit == Init => BareInv
<1> SUFFICES ASSUME Init PROVE BareInv
  OBVIOUS
<1>1. net = <<>> /\ recv_list = <<>> /\ phase = "login"
  BY DEF Init
<1>2. Coming = {}
  BY <1>1, EmptySet DEF Coming
<1>3. QED BY <1>1, <1>2 DEF BareInv

\* No packet more, and none is newly required to be bare.
LEMMA BareFewer ==
    ASSUME BareInv, Coming' \subseteq Coming, stored' = stored,
           phase' \in {"input", "poll"} => phase \in {"input", "poll"}
    PROVE  BareInv'
BY DEF BareInv

LEMMA ForeignBare ==
    ASSUME BareInv
    PROVE  \A p \in Coming : IsForeign(p) => p.msgs = <<>>
BY DEF BareInv, IsForeign, Foreign, OFFLINE

\* What has come has no messages while another request is in wait_for_reply.
LEMMA BareWhile ==
    ASSUME TypeOK, PhaseInv, LoginInv, OwnInv, BareInv, waiting # None, waiting.cmd # OFFLINE
    PROVE  \A p \in Coming : IsOther(p) => p.msgs = <<>>
<1>1. phase \in {"login", "input", "poll"}
  BY DEF TypeOK, PhaseInv
<1>2. CASE phase = "login"
  <2>1. Sure
    BY <1>2 DEF PhaseInv, Sure
  <2>2. \A p \in Coming : IsOwn(p) => p.kind \in {"reply", "error"} /\ p.to = waiting
    BY <2>1, OwnReply
  <2>3. \A p \in Coming : IsForeign(p) => p.msgs = <<>>
    BY ForeignBare
  <2>4. QED BY <2>2, <2>3 DEF BareInv, IsOwn
<1>3. CASE phase \in {"input", "poll"}
  BY <1>3 DEF BareInv
<1>4. QED BY <1>1, <1>2, <1>3

\* What comes after a recv had come before it.
LEMMA ComingWaited ==
    ASSUME TypeOK, NEW n \in Batches, Waited(n)
    PROVE  Coming' \subseteq Coming /\ Coming' = ToSet(Rest(n))
<1>1. net' = Rest(n) /\ recv_list' = <<>>
  BY DEF Waited
<1>2. Coming' = ToSet(Rest(n))
  BY <1>1, EmptySet DEF Coming
<1>3. QED BY <1>2, ReceivedCut

LEMMA BareAnswer ==
    ASSUME TypeOK, BareInv, NEW i \in DOMAIN requests, Answer(i)
    PROVE  BareInv'
<1>1. PICK new \in Seq(Packet) : net' = net \o new /\ AnswerTo(requests[i], new)
  BY Answered
<1>2. phase' = phase /\ recv_list' = recv_list
  BY DEF Answer, lists
<1>3. Coming' = Coming \cup ToSet(new)
  <2>1. net \in Seq(Packet)
    BY DEF TypeOK
  <2>2. ToSet(net \o new) = ToSet(net) \cup ToSet(new)
    BY <2>1, ConcatSet
  <2>3. QED BY <1>1, <1>2, <2>2 DEF Coming
<1> DEFINE r == requests[i]
<1>4. /\ \A p \in ToSet(new) : p.kind \in {"reply", "error"} => p.to = r
      /\ r.cmd # OFFLINE => stored' = stored
      /\ r.cmd = OFFLINE /\ ToSet(new) # {} => stored' = <<>>
      /\ stored' = stored \/ stored' = <<>>
      /\ r.cmd # OFFLINE \/ stored = <<>> => \A p \in ToSet(new) : p.msgs = <<>>
  BY <1>1, EmptySet DEF AnswerTo
<1> HIDE DEF r
<1>5. \A p \in Coming' : p.kind \in {"reply", "error"} /\ p.to.cmd # OFFLINE => p.msgs = <<>>
  BY <1>3, <1>4 DEF BareInv
<1>6. stored' # <<>> \/ phase' \in {"input", "poll"} => \A p \in Coming' : IsOther(p) => p.msgs = <<>>
  BY <1>2, <1>3, <1>4 DEF BareInv
<1>7. phase' \in {"input", "poll"} => stored' = <<>>
  BY <1>2, <1>4 DEF BareInv
<1>8. QED BY <1>5, <1>6, <1>7 DEF BareInv

LEMMA BareAccused ==
    ASSUME TypeOK, BareInv, ForeignError
    PROVE  BareInv'
<1>1. PICK new, own \in Seq(Packet) : net' = net \o new /\ AccusedBy(new, own)
  BY Accused
<1>2. phase' = phase /\ recv_list' = recv_list
  BY Accused DEF lists
<1>3. Coming' = Coming \cup ToSet(new)
  <2>1. net \in Seq(Packet)
    BY DEF TypeOK
  <2>2. ToSet(net \o new) = ToSet(net) \cup ToSet(new)
    BY <2>1, ConcatSet
  <2>3. QED BY <1>1, <1>2, <2>2 DEF Coming
<1>4. /\ \A p \in ToSet(new) : p.kind \in {"reply", "error"} => p.msgs = <<>>
      /\ stored = <<>> => \A p \in ToSet(new) : p.msgs = <<>>
      /\ \/ stored' = <<>>
         \/ stored' = stored /\ \A p \in ToSet(new) : p.msgs = <<>>
  BY <1>1 DEF AccusedBy
<1>5. \A p \in Coming' : p.kind \in {"reply", "error"} /\ p.to.cmd # OFFLINE => p.msgs = <<>>
  BY <1>3, <1>4 DEF BareInv
<1>6. phase' \in {"input", "poll"} => stored = <<>> /\ stored' = <<>>
  BY <1>2, <1>4 DEF BareInv
<1>7. stored' # <<>> \/ phase' \in {"input", "poll"} => \A p \in Coming' : IsOther(p) => p.msgs = <<>>
  BY <1>2, <1>3, <1>4, <1>6 DEF BareInv
<1>8. QED BY <1>5, <1>6, <1>7 DEF BareInv

LEMMA BareSend ==
    ASSUME TypeOK, BareInv, NEW s \in Sender, Send(s)
    PROVE  BareInv'
<1>1. \/ net' = net
      \/ \E m \in Message :
            /\ Replied("message", None, <<m>>) \in Packet
            /\ net' = net \o <<Replied("message", None, <<m>>)>>
  BY SendType
<1>2. UNCHANGED <<phase, recv_list, stored>>
  BY DEF Send, lists
<1>3. CASE net' = net
  BY <1>2, <1>3, BareFewer DEF Coming
<1>4. ASSUME NEW p \in Packet, p.kind = "message", net' = net \o <<p>> PROVE BareInv'
  <2>1. Coming' = Coming \cup {p}
    <3>1. net \in Seq(Packet) /\ <<p>> \in Seq(Packet) /\ ToSet(<<p>>) = {p}
      BY SingleSet DEF TypeOK
    <3>2. PICK q \in Seq(Packet) : q = <<p>>
      BY <3>1
    <3>3. ToSet(net \o q) = ToSet(net) \cup ToSet(q)
      BY <3>1, ConcatSet
    <3>4. QED BY <1>2, <1>4, <3>1, <3>2, <3>3 DEF Coming
  <2>2. ~IsOther(p)
    BY <1>4 DEF IsOther, IsMessage
  <2>3. QED BY <1>2, <1>4, <2>1, <2>2 DEF BareInv
<1>5. QED BY <1>1, <1>3, <1>4 DEF Replied

LEMMA BareGetOffline ==
    ASSUME TypeOK, PhaseInv, LoginInv, OwnInv, BareInv, NEW n \in Batches, get_offline_msg(n)
    PROVE  BareInv'
<1>1. stored' = stored /\ Waited(n) /\ waiting.cmd = OFFLINE
  BY GetOffline
<1>2. Coming' \subseteq Coming /\ Coming' = ToSet(Rest(n))
  BY <1>1, ComingWaited
<1>3. Sure /\ (Failed => phase' = "ended")
  BY PhaseGetOffline DEF Sure
<1>4. CASE Failed
  <2>1. phase' = "ended"
    BY <1>3, <1>4
  <2>2. QED BY <1>1, <1>2, <2>1, BareFewer
<1>5. CASE \E i \in DOMAIN Found(n) : Found(n)[i].kind = "reply"
  <2>1. stored = <<>> /\ Those(Rest(n), IsOwn) = <<>>
    BY <1>1, <1>3, <1>5, OfflineFound
  <2>2. Rest(n) \in Seq(Packet)
    BY BatchFacts
  <2>3. {p \in ToSet(Rest(n)) : IsOwn(p)} = {}
    BY <2>1, <2>2, ThoseType, EmptySet
  <2>4. \A p \in Coming' : IsOther(p) => p.msgs = <<>>
    BY <1>2, <2>3, ForeignBare DEF IsOwn
  <2>5. \A p \in Coming' : p.kind \in {"reply", "error"} /\ p.to.cmd # OFFLINE => p.msgs = <<>>
    BY <1>2 DEF BareInv
  <2>6. QED BY <1>1, <2>1, <2>4, <2>5 DEF BareInv
<1>6. Failed \/ \E i \in DOMAIN Found(n) : Found(n)[i].kind = "reply"
  BY GetOffline
<1>7. QED BY <1>4, <1>5, <1>6

LEMMA BareStep ==
    ASSUME TypeOK, PhaseInv, LoginInv, OwnInv, BareInv, [Next]_vars
    PROVE  BareInv'
<1>1. ASSUME UNCHANGED <<phase, recv_list, net, stored>> PROVE BareInv'
  BY <1>1, BareFewer DEF Coming
<1>2. CASE UNCHANGED vars
  BY <1>1, <1>2 DEF vars, lists, servers
<1>3. CASE request
  BY <1>1, <1>3 DEF request, lists
<1>4. CASE Receive
  <2>1. ASSUME NEW n \in Batches, wait_for_reply(n) PROVE BareInv'
    <3>1. stored' = stored /\ Waited(n)
      BY <2>1, WaitForReply
    <3>2. Coming' \subseteq Coming
      BY <3>1, ComingWaited
    <3>3. phase' \in {"input", "poll"} => phase \in {"input", "poll"}
      BY <2>1, PhaseWaitForReply
    <3>4. QED BY <3>1, <3>2, <3>3, BareFewer
  <2>2. ASSUME NEW n \in Batches, select_loop(n) PROVE BareInv'
    <3>1. /\ stored' = stored /\ phase = "poll"
          /\ net' = Rest(n) /\ recv_list' = Those(recv_list \o Batch(n), IsOther)
      BY <2>2, SelectLoop
    <3>2. recv_list \o Batch(n) \in Seq(Packet)
      BY ReceivedType
    <3>3. ToSet(recv_list') \subseteq ToSet(recv_list \o Batch(n))
      BY <3>1, <3>2, ThoseType
    <3>4. Coming' \subseteq Coming
      BY <3>1, <3>3, ReceivedCut DEF Coming
    <3>5. QED BY <3>1, <3>4, BareFewer
  <2>3. QED BY <1>4, <2>1, <2>2, BareGetOffline DEF Receive
<1>5. CASE ui_command \/ \E i \in DOMAIN msg_map : ui_show_message(i)
  <2>1. phase = "input" /\ UNCHANGED <<recv_list, net, stored>>
    BY <1>5 DEF ui_command, ui_show_message, Input, servers
  <2>2. QED BY <2>1, BareFewer DEF Coming
<1>6. CASE no_input \/ (\E s \in Sender : ui_chat(s)) \/ ui_back \/ ui_quit
  <2>1. phase = "input" /\ UNCHANGED <<lists, servers>>
    BY <1>6, OtherInput
  <2>2. UNCHANGED <<recv_list, net, stored>>
    BY <2>1 DEF lists, servers
  <2>3. QED BY <2>1, <2>2, BareFewer DEF Coming
<1>7. QED BY <1>2, <1>3, <1>4, <1>5, <1>6, BareAnswer, BareAccused, BareSend DEF Next

LEMMA OwnInit == Init => OwnInv
<1> SUFFICES ASSUME Init PROVE OwnInv
  OBVIOUS
<1>1. /\ net = <<>> /\ requests = <<>> /\ waiting = None /\ wrong = FALSE
      /\ wait_list = <<>> /\ recv_list = <<>>
  BY DEF Init
<1>2. Those(<<>>, IsOwn) = <<>>
  <2>1. <<>> \in Seq(Packet) /\ \A p \in ToSet(<<>>) : IsOwn(p)
    BY EmptySeq, EmptySet
  <2>2. QED BY <2>1, OwnAll
<1>3. \A p \in ToSet(net) : ~IsForeign(p)
  BY <1>1, EmptySet
<1>4. QED BY <1>1, <1>2, <1>3 DEF OwnInv

\* What OwnInv is about.
owned == <<waiting, requests, net, stored, wait_list, recv_list, wrong, gaveUp, accused>>

LEMMA OnlyRemoved ==
    ASSUME NEW T, NEW q \in Seq(T), Len(q) = 1
    PROVE  RemoveAt(q, 1) = <<>>
<1>1. PICK z \in 1 .. Len(q) : z = 1
  OBVIOUS
<1>2. /\ SubSeq(q, 1, z - 1) \in Seq(T) /\ SubSeq(q, z + 1, Len(q)) \in Seq(T)
      /\ Len(SubSeq(q, 1, z - 1)) = z - 1 /\ Len(SubSeq(q, z + 1, Len(q))) = Len(q) - z
  BY SplitAt
<1>3. PICK a \in Seq(T) : a = SubSeq(q, 1, z - 1) /\ Len(a) = z - 1
  BY <1>2
<1>4. PICK b \in Seq(T) : b = SubSeq(q, z + 1, Len(q)) /\ Len(b) = Len(q) - z
  BY <1>2
<1>5. a = <<>> /\ b = <<>>
  BY <1>1, <1>3, <1>4, EmptySeq
<1>6. RemoveAt(q, z) = a \o b
  BY <1>3, <1>4 DEF RemoveAt
<1>7. a \o b = <<>>
  BY <1>5, ConcatEmptySeq
<1>8. QED BY <1>1, <1>6, <1>7

LEMMA OwnAnswer ==
    ASSUME TypeOK, OwnInv, NEW i \in DOMAIN requests, Answer(i)
    PROVE  OwnInv'
<1>1. UNCHANGED <<waiting, wait_list, recv_list, wrong, gaveUp, accused, phase>>
  BY DEF Answer, lists
<1>2. CASE ~Sure
  BY <1>1, <1>2 DEF OwnInv, Sure
<1>3. CASE Sure
  <2>1. i \in 1 .. Len(requests) /\ requests' = RemoveAt(requests, i)
    BY Answered
  <2>2. waiting # None /\ requests = <<waiting>> /\ Those(net, IsOwn) = <<>>
    <3>1. requests # <<>>
      BY <2>1
    <3>2. QED BY <1>3, <3>1 DEF OwnInv
  <2>3. i = 1 /\ requests[i] = waiting
    BY <2>1, <2>2
  <2>4. requests' = <<>>
    <3>1. PICK q \in Seq(Asked) : q = requests /\ Len(q) = 1
      BY <2>2 DEF TypeOK
    <3>2. 1 \in 1 .. Len(q)
      BY <3>1
    <3>3. RemoveAt(q, 1) = <<>>
      BY <3>1, OnlyRemoved
    <3>4. QED BY <2>1, <2>3, <3>1, <3>3
  <2>5. PICK new \in Seq(Packet) : net' = net \o new /\ AnswerTo(waiting, new)
    BY <2>3, Answered
  <2>6. /\ ReplyTo(waiting, new)
        /\ \A p \in ToSet(new) : IsOther(p) /\ (p.kind \in {"reply", "error"} => p.to = waiting)
        /\ (waiting.cmd = OFFLINE /\ new # <<>> => stored' = <<>>)
    BY <2>5 DEF AnswerTo
  <2>7. \A p \in ToSet(new) : ~IsForeign(p) /\ IsOwn(p)
    <3>1. waiting # Foreign
      BY <2>2 DEF TypeOK, Asked, Foreign
    <3>2. QED BY <2>6, <3>1 DEF IsForeign, IsOwn
  <2>8. Those(net', IsOwn) = new
    <3>1. net \in Seq(Packet)
      BY DEF TypeOK
    <3>2. Those(net \o new, IsOwn) = Those(net, IsOwn) \o Those(new, IsOwn)
      BY <3>1, ThoseConcat
    <3>3. Those(new, IsOwn) = new
      BY <2>7, OwnAll
    <3>4. <<>> \o new = new
      BY ConcatEmptySeq
    <3>5. QED BY <2>2, <2>5, <3>2, <3>3, <3>4
  <2>9. ReplyTo(waiting', Those(net', IsOwn))
    BY <1>1, <2>6, <2>8
  <2>10. accused' = 0 => \A p \in ToSet(net') : ~IsForeign(p)
    <3>1. net \in Seq(Packet)
      BY DEF TypeOK
    <3>2. ToSet(net') = ToSet(net) \cup ToSet(new)
      BY <2>5, <3>1, ConcatSet
    <3>3. QED BY <1>1, <1>3, <2>7, <3>2 DEF OwnInv
  <2>11. ~wrong /\ wait_list = <<>> /\ recv_list = <<>>
    BY <1>3 DEF OwnInv
  <2>12. waiting' # None /\ requests' = <<>>
    BY <1>1, <2>2, <2>4
  <2>13. waiting'.cmd = OFFLINE /\ Those(net', IsOwn) # <<>> => stored' = <<>>
    BY <1>1, <2>6, <2>8
  <2>14. QED BY <1>1, <2>9, <2>10, <2>11, <2>12, <2>13 DEF OwnInv
<1>4. QED BY <1>2, <1>3

LEMMA OwnAccused ==
    ASSUME TypeOK, OwnInv, ForeignError
    PROVE  OwnInv'
<1>1. /\ UNCHANGED <<waiting, wait_list, recv_list, wrong, gaveUp, phase>> /\ accused' # 0
  BY Accused DEF lists
<1>2. CASE ~Sure \/ phase # "login"
  <2>1. ~Sure'
    BY <1>1, <1>2 DEF Sure
  <2>2. QED BY <2>1 DEF OwnInv
<1>3. CASE Sure /\ phase = "login"
  <2>1. PICK new, own \in Seq(Packet) : net' = net \o new /\ AccusedBy(new, own)
    BY Accused
  <2>2. Those(net', IsOwn) = Those(net, IsOwn) \o own
    <3>1. net \in Seq(Packet)
      BY DEF TypeOK
    <3>2. Those(net \o new, IsOwn) = Those(net, IsOwn) \o Those(new, IsOwn)
      BY <3>1, ThoseConcat
    <3>3. QED BY <2>1, <3>2 DEF AccusedBy
  <2>3. Those(net, IsOwn) \in Seq(Packet)
    BY ThoseType DEF TypeOK
  <2>4. ~wrong /\ wait_list = <<>> /\ recv_list = <<>>
    BY <1>3 DEF OwnInv
  <2>5. CASE own = <<>> /\ UNCHANGED <<requests, stored, lost>>
    <3>1. Those(net', IsOwn) = Those(net, IsOwn)
      BY <2>2, <2>3, <2>5, ConcatEmptySeq
    <3>2. QED BY <1>1, <1>3, <2>4, <2>5, <3>1 DEF OwnInv, ReplyTo
  <2>6. ASSUME NEW i \in DOMAIN requests, requests[i].cmd = OFFLINE, requests' = RemoveAt(requests, i),
               NEW o \in Packet, own = <<o>>, o.kind = "offline", stored' = <<>>
        PROVE  OwnInv'
    <3>1. i \in 1 .. Len(requests) /\ requests \in Seq(Asked)
      BY LenProperties DEF TypeOK
    <3>2. waiting # None /\ requests = <<waiting>> /\ Those(net, IsOwn) = <<>>
      <4>1. requests # <<>>
        BY <3>1
      <4>2. QED BY <1>3, <4>1 DEF OwnInv
    <3>3. i = 1 /\ waiting.cmd = OFFLINE
      BY <2>6, <3>1, <3>2
    <3>4. requests' = <<>>
      <4>1. PICK q \in Seq(Asked) : q = requests /\ Len(q) = 1
        BY <3>1, <3>2
      <4>2. RemoveAt(q, 1) = <<>>
        BY <4>1, OnlyRemoved
      <4>3. QED BY <2>6, <3>3, <4>1, <4>2
    <3>5. Those(net', IsOwn) = <<o>>
      <4>1. <<>> \o own = own
        BY ConcatEmptySeq
      <4>2. QED BY <2>2, <2>6, <3>2, <4>1
    <3>6. ReplyTo(waiting', Those(net', IsOwn))
      BY <1>1, <2>6, <3>3, <3>5 DEF ReplyTo
    <3>7. QED BY <1>1, <2>4, <2>6, <3>2, <3>4, <3>6 DEF OwnInv
  <2>7. QED BY <2>1, <2>5, <2>6 DEF AccusedBy
<1>4. QED BY <1>2, <1>3

LEMMA OwnSend ==
    ASSUME TypeOK, OwnInv, NEW s \in Sender, Send(s)
    PROVE  OwnInv'
<1>1. UNCHANGED <<waiting, requests, stored, wait_list, recv_list, wrong, gaveUp, accused, phase>>
  BY DEF Send, lists
<1>2. CASE net' = net
  BY <1>1, <1>2 DEF OwnInv, Sure, ReplyTo
<1>3. ASSUME NEW p \in Packet, p.kind = "message", net' = net \o <<p>>
      PROVE  OwnInv'
  <2>1. ~IsOwn(p) /\ ~IsForeign(p)
    BY <1>3 DEF IsOwn, IsForeign, IsOther, IsMessage
  <2>2. net \in Seq(Packet) /\ <<p>> \in Seq(Packet) /\ ToSet(<<p>>) = {p}
    BY SingleSet DEF TypeOK
  <2>3. Those(net', IsOwn) = Those(net, IsOwn)
    <3>1. Those(net \o <<p>>, IsOwn) = Those(net, IsOwn) \o Those(<<p>>, IsOwn)
      BY <2>2, ThoseConcat
    <3>2. Those(<<p>>, IsOwn) = <<>>
      BY <2>1, ThoseSmall
    <3>3. Those(net, IsOwn) \in Seq(Packet)
      BY <2>2, ThoseType
    <3>4. QED BY <1>3, <3>1, <3>2, <3>3, ConcatEmptySeq
  <2>4. ToSet(net') = ToSet(net) \cup {p}
    <3>1. PICK q \in Seq(Packet) : q = <<p>>
      BY <2>2
    <3>2. ToSet(net \o q) = ToSet(net) \cup ToSet(q)
      BY <2>2, ConcatSet
    <3>3. QED BY <1>3, <2>2, <3>1, <3>2
  <2>5. QED BY <1>1, <2>1, <2>3, <2>4 DEF OwnInv, Sure, ReplyTo
<1>4. QED BY <1>2, <1>3, SendType DEF Replied

\* What is left of the network answers nobody else, if nothing did.
LEMMA OwnRest ==
    ASSUME TypeOK, OwnInv, Sure, NEW n \in Batches, net' = Rest(n), accused' = accused
    PROVE  accused' = 0 => \A p \in ToSet(net') : ~IsForeign(p)
<1>1. Batch(n) \in Seq(Packet) /\ Rest(n) \in Seq(Packet) /\ net = Batch(n) \o Rest(n)
  BY BatchFacts
<1>2. ToSet(net) = ToSet(Batch(n)) \cup ToSet(Rest(n))
  BY <1>1, ConcatSet
<1>3. QED BY <1>2 DEF OwnInv

LEMMA OwnRequest ==
    ASSUME TypeOK, OwnInv, request
    PROVE  OwnInv'
<1>1. /\ waiting = None
      /\ requests' = requests \/ requests' = Append(requests, waiting')
      /\ waiting' = [cmd |-> Head(todo), id |-> asked + 1]
      /\ UNCHANGED <<phase, net, stored, wait_list, recv_list, wrong, gaveUp, accused>>
  BY DEF request, lists, history
<1>2. CASE ~Sure
  BY <1>1, <1>2 DEF OwnInv, Sure
<1>3. CASE Sure
  <2>1. /\ ~wrong /\ wait_list = <<>> /\ recv_list = <<>>
        /\ requests = <<>> /\ Those(net, IsOwn) = <<>>
        /\ accused = 0 => \A p \in ToSet(net) : ~IsForeign(p)
    BY <1>1, <1>3 DEF OwnInv
  <2>2. requests' = <<waiting'>> \/ requests' = <<>>
    BY <1>1, <2>1
  <2>3. waiting' # None
    <3>1. waiting'.id = asked + 1 /\ asked \in Nat
      BY <1>1 DEF TypeOK
    <3>2. asked + 1 # 0
      BY <3>1
    <3>3. QED BY <3>1, <3>2 DEF None
  <2>4. Those(net', IsOwn) = <<>>
    BY <1>1, <2>1
  <2>5. ReplyTo(waiting', Those(net', IsOwn))
    BY <2>4 DEF ReplyTo
  <2>6. QED BY <1>1, <2>1, <2>2, <2>3, <2>4, <2>5 DEF OwnInv
<1>4. QED BY <1>2, <1>3

LEMMA OwnWaitForReply ==
    ASSUME TypeOK, PhaseInv, LoginInv, OwnInv, NEW n \in Batches, wait_for_reply(n)
    PROVE  OwnInv'
<1>1. /\ waiting # None /\ waiting.cmd # OFFLINE /\ waiting' = None /\ Waited(n)
      /\ requests' = requests /\ accused' = accused
  BY WaitForReply
<1>2. phase' = "login" => phase = "login"
  BY PhaseWaitForReply
<1>3. CASE ~Sure'
  BY <1>3 DEF OwnInv
<1>4. CASE Sure'
  <2>1. Found(n) # <<>>
    BY <1>4, WaitForReply DEF Sure
  <2>2. /\ gaveUp' = gaveUp /\ wait_list' = Tail(Found(n))
        /\ wrong' = (wrong \/ Head(Found(n)).to # waiting)
    BY <2>1, WaitForReply
  <2>3. Sure
    BY <1>1, <1>2, <1>4, <2>2 DEF Sure
  <2>4. /\ requests = <<>> /\ Those(Rest(n), IsOwn) = <<>>
        /\ Head(Found(n)).to = waiting /\ Tail(Found(n)) = <<>>
    BY <1>1, <2>1, <2>3, OwnFound
  <2>5. ~wrong
    BY <2>3 DEF OwnInv
  <2>6. net' = Rest(n) /\ recv_list' = <<>> /\ wait_list' = <<>> /\ ~wrong' /\ requests' = <<>>
    BY <1>1, <2>2, <2>4, <2>5 DEF Waited
  <2>7. accused' = 0 => \A p \in ToSet(net') : ~IsForeign(p)
    BY <1>1, <2>3, <2>6, OwnRest
  <2>8. waiting'.cmd # OFFLINE
    BY <1>1 DEF None, OFFLINE
  <2>9. QED BY <1>1, <2>4, <2>6, <2>7, <2>8 DEF OwnInv
<1>5. QED BY <1>3, <1>4

LEMMA OwnGetOffline ==
    ASSUME TypeOK, PhaseInv, LoginInv, OwnInv, NEW n \in Batches, get_offline_msg(n)
    PROVE  OwnInv'
<1>1. /\ waiting.cmd = OFFLINE /\ waiting' = None /\ Waited(n) /\ wait_list' = <<>>
      /\ requests' = requests /\ wrong' = wrong /\ accused' = accused
  BY GetOffline
<1>2. Sure
  BY PhaseGetOffline DEF Sure
<1>3. CASE ~Sure'
  BY <1>3 DEF OwnInv
<1>4. CASE Sure'
  <2>1. \E i \in DOMAIN Found(n) : Found(n)[i].kind = "reply"
    BY <1>4, GetOffline DEF Sure
  <2>2. requests = <<>> /\ Those(Rest(n), IsOwn) = <<>>
    BY <1>1, <1>2, <2>1, OfflineFound
  <2>3. net' = Rest(n) /\ recv_list' = <<>> /\ ~wrong
    BY <1>1, <1>2 DEF Waited, OwnInv
  <2>4. accused' = 0 => \A p \in ToSet(net') : ~IsForeign(p)
    BY <1>1, <1>2, <2>3, OwnRest
  <2>5. waiting'.cmd # OFFLINE
    BY <1>1 DEF None, OFFLINE
  <2>6. QED BY <1>1, <2>2, <2>3, <2>4, <2>5 DEF OwnInv
<1>5. QED BY <1>3, <1>4

LEMMA OwnSelectLoop ==
    ASSUME TypeOK, OwnInv, NEW n \in Batches, select_loop(n)
    PROVE  OwnInv'
<1>1. /\ phase = "poll" /\ phase' = "input"
      /\ waiting = None /\ net' = Rest(n)
      /\ recv_list' = Those(recv_list \o Batch(n), IsOther)
      /\ UNCHANGED <<waiting, wait_list, requests, stored>>
      /\ UNCHANGED history
  BY SelectLoop
<1>2. gaveUp' = gaveUp /\ wrong' = wrong /\ accused' = accused
  BY <1>1 DEF history
<1>3. CASE ~Sure'
  BY <1>3 DEF OwnInv
<1>4. CASE Sure'
  <2>1. Sure /\ accused = 0
    BY <1>1, <1>2, <1>4 DEF Sure
  <2>2. /\ ~wrong /\ wait_list = <<>> /\ recv_list = <<>>
        /\ requests = <<>> /\ Those(net, IsOwn) = <<>>
        /\ \A p \in ToSet(net) : ~IsForeign(p)
    BY <1>1, <2>1 DEF OwnInv
  <2>3. Batch(n) \in Seq(Packet) /\ Rest(n) \in Seq(Packet) /\ net = Batch(n) \o Rest(n)
    BY BatchFacts
  <2>4. \A p \in ToSet(net) : ~IsOther(p)
    <3>1. net \in Seq(Packet)
      BY DEF TypeOK
    <3>2. {p \in ToSet(net) : IsOwn(p)} = {}
      BY <2>2, <3>1, ThoseType, EmptySet
    <3>3. QED BY <2>2, <3>2 DEF IsOwn
  <2>5. ToSet(net) = ToSet(Batch(n)) \cup ToSet(Rest(n))
    BY <2>3, ConcatSet
  <2>6. Those(Batch(n), IsOther) = <<>>
    <3>1. Those(Batch(n), IsOther) \in Seq(Packet) /\ ToSet(Those(Batch(n), IsOther)) = {}
      BY <2>3, <2>4, <2>5, ThoseType
    <3>2. QED BY <3>1, NothingIn
  <2>7. Those(Rest(n), IsOwn) = <<>>
    BY <2>3, <2>4, <2>5, OwnAll DEF IsOwn
  <2>8. recv_list' = <<>>
    BY <1>1, <2>2, <2>3, <2>6, ConcatEmptySeq
  <2>9. accused' = 0 => \A p \in ToSet(net') : ~IsForeign(p)
    BY <1>1, <1>2, <2>1, OwnRest
  <2>10. waiting'.cmd # OFFLINE
    BY <1>1 DEF None, OFFLINE
  <2>11. QED BY <1>1, <1>2, <2>2, <2>7, <2>8, <2>9, <2>10 DEF OwnInv
<1>5. QED BY <1>3, <1>4

LEMMA OwnStep ==
    ASSUME TypeOK, PhaseInv, LoginInv, OwnInv, [Next]_vars
    PROVE  OwnInv'
<1>1. ASSUME UNCHANGED owned, phase' = "login" => phase = "login" PROVE OwnInv'
  <2>1. Sure' => Sure
    BY <1>1 DEF owned, Sure
  <2>2. QED BY <1>1, <2>1 DEF owned, OwnInv, ReplyTo
<1>2. CASE UNCHANGED vars
  BY <1>1, <1>2 DEF vars, owned, lists, servers, history
<1>3. CASE Receive
  BY <1>3, OwnWaitForReply, OwnGetOffline, OwnSelectLoop DEF Receive
<1>4. CASE ui_command \/ \E i \in DOMAIN msg_map : ui_show_message(i)
  BY <1>1, <1>4 DEF ui_command, ui_show_message, Input, servers, history, owned
<1>5. CASE no_input \/ (\E s \in Sender : ui_chat(s)) \/ ui_back \/ ui_quit
  <2>1. UNCHANGED <<waiting, lists, servers, history>> /\ phase = "input" /\ phase' \in {"poll", "ended"}
    BY <1>5, OtherInput
  <2>2. QED BY <1>1, <2>1 DEF lists, servers, history, owned
<1>6. QED BY <1>2, <1>3, <1>4, <1>5, OwnRequest, OwnAnswer, OwnAccused, OwnSend DEF Next

LEMMA CoreCorrect == Spec => []CoreInv
<1>1. Init => CoreInv
  BY TypeInit, PhaseInit, LoginInit, OwnInit, BareInit DEF CoreInv
<1>2. CoreInv /\ [Next]_vars => CoreInv'
  BY TypeStep, PhaseStep, LoginStep, OwnStep, BareStep DEF CoreInv, TypeInv
<1>3. QED BY <1>1, <1>2, PTL DEF Spec

\* A request gets the reply to itself, in whatever pieces packets come and whatever
\* comes between them: always in ui_login, and later until a request is given up or
\* an SRV_ERROR comes that answers somebody else (wait_for_reply).
THEOREM ReplyCorrect == Spec => []ReplyIsOwn
<1>1. CoreInv => ReplyIsOwn
  <2>1. ASSUME CoreInv PROVE ReplyIsOwn
    <3>1. Sure => ~wrong
      BY <2>1 DEF CoreInv, OwnInv
    <3>2. phase = "login" => Sure
      BY <2>1 DEF CoreInv, PhaseInv, Sure
    <3>3. accused > 0 \/ accused = 0
      BY <2>1, BoundAssumption DEF CoreInv, TypeInv, TypeOK
    <3>4. QED BY <3>1, <3>2, <3>3 DEF ReplyIsOwn, Sure
  <2>2. QED BY <2>1
<1>2. QED BY <1>1, CoreCorrect, PTL

-----------------------------------------------------------------------------
(* The order of messages.                                                  *)

\* Of the messages in the packets q, those from s that are replies to
\* CMD_OFFLINE_MSG, and those that have come by themselves.
OtherOf(s, q) == From(s, MsgsIn(Those(q, IsOther)))
MessageOf(s, q) == From(s, MsgsIn(Those(q, IsMessage)))

\* What s has sent and the user has not seen: filed, stored, in replies, and put
\* aside or to be read.
FiledOf(s) == From(s, Content(msg_map))
StoredOf(s) == From(s, stored)
RepliedOf(s) == OtherOf(s, recv_list \o net)
AsideOf(s) == From(s, MsgsIn(msg_list)) \o MessageOf(s, recv_list \o net)
Left(s) == ((FiledOf(s) \o StoredOf(s)) \o RepliedOf(s)) \o AsideOf(s)
Story(s) == shown[s] \o Left(s)
Numbers(n) == [i \in 1 .. n |-> i]

\* Every message is in one of these places, in order.
StoryInv == ~lost => \A s \in Sender : Story(s) = Numbers(sent[s])
OrderInv == MapInv /\ StoryInv

LEMMA PartsType ==
    ASSUME NEW s, NEW q \in Seq(Packet)
    PROVE  OtherOf(s, q) \in Seq(Nat) /\ MessageOf(s, q) \in Seq(Nat)
<1>1. Those(q, IsOther) \in Seq(Packet) /\ Those(q, IsMessage) \in Seq(Packet)
  BY ThoseType
<1>2. MsgsIn(Those(q, IsOther)) \in Seq(Message) /\ MsgsIn(Those(q, IsMessage)) \in Seq(Message)
  BY <1>1, MsgsType
<1>3. QED BY <1>2, FromType DEF OtherOf, MessageOf

LEMMA PartsConcat ==
    ASSUME NEW s, NEW q \in Seq(Packet), NEW r \in Seq(Packet)
    PROVE  /\ OtherOf(s, q \o r) = OtherOf(s, q) \o OtherOf(s, r)
           /\ MessageOf(s, q \o r) = MessageOf(s, q) \o MessageOf(s, r)
<1>1. ASSUME NEW x \in Seq(Packet), NEW y \in Seq(Packet)
      PROVE  From(s, MsgsIn(x \o y)) = From(s, MsgsIn(x)) \o From(s, MsgsIn(y))
  <2>1. MsgsIn(x) \in Seq(Message) /\ MsgsIn(y) \in Seq(Message)
    BY MsgsType
  <2>2. MsgsIn(x \o y) = MsgsIn(x) \o MsgsIn(y)
    BY MsgsConcat
  <2>3. QED BY <2>1, <2>2, FromConcat
<1>2. /\ Those(q, IsOther) \in Seq(Packet) /\ Those(r, IsOther) \in Seq(Packet)
      /\ Those(q, IsMessage) \in Seq(Packet) /\ Those(r, IsMessage) \in Seq(Packet)
  BY ThoseType
<1>3. /\ Those(q \o r, IsOther) = Those(q, IsOther) \o Those(r, IsOther)
      /\ Those(q \o r, IsMessage) = Those(q, IsMessage) \o Those(r, IsMessage)
  BY ThoseConcat
<1>4. OtherOf(s, q \o r) = OtherOf(s, q) \o OtherOf(s, r)
  BY <1>1, <1>2, <1>3 DEF OtherOf
<1>5. MessageOf(s, q \o r) = MessageOf(s, q) \o MessageOf(s, r)
  BY <1>1, <1>2, <1>3 DEF MessageOf
<1>6. QED BY <1>4, <1>5

\* Packets without such messages.
LEMMA PartsNone ==
    ASSUME NEW s, NEW q \in Seq(Packet)
    PROVE  /\ (\A p \in ToSet(q) : IsOther(p) => p.msgs = <<>>) => OtherOf(s, q) = <<>>
           /\ (\A p \in ToSet(q) : IsOther(p)) => MessageOf(s, q) = <<>>
           /\ Those(q, IsOther) = <<>> => OtherOf(s, q) = <<>>
<1>1. Those(q, IsOther) \in Seq(Packet) /\ ToSet(Those(q, IsOther)) = {p \in ToSet(q) : IsOther(p)}
  BY ThoseType
<1>2. MsgsIn(<<>>) = <<>> /\ From(s, <<>>) = <<>>
  <2>1. <<>> \in Seq(Packet) /\ <<>> \in Seq(Message) /\ ToSet(<<>>) = {}
    BY EmptySeq, EmptySet
  <2>2. QED BY <2>1, MsgsNone, FromNone
<1>3. ASSUME \A p \in ToSet(q) : IsOther(p) => p.msgs = <<>> PROVE OtherOf(s, q) = <<>>
  <2>1. \A p \in ToSet(Those(q, IsOther)) : p.msgs = <<>>
    BY <1>1, <1>3
  <2>2. MsgsIn(Those(q, IsOther)) = <<>>
    BY <1>1, <2>1, MsgsNone
  <2>3. QED BY <1>2, <2>2 DEF OtherOf
<1>4. ASSUME \A p \in ToSet(q) : IsOther(p) PROVE MessageOf(s, q) = <<>>
  <2>1. Those(q, IsMessage) = <<>>
    BY <1>4, AllOther
  <2>2. QED BY <1>2, <2>1 DEF MessageOf
<1>5. ASSUME Those(q, IsOther) = <<>> PROVE OtherOf(s, q) = <<>>
  BY <1>2, <1>5 DEF OtherOf
<1>6. QED BY <1>3, <1>4, <1>5

LEMMA StoryType ==
    ASSUME TypeOK, NEW s \in Sender
    PROVE  /\ FiledOf(s) \in Seq(Nat) /\ StoredOf(s) \in Seq(Nat) /\ RepliedOf(s) \in Seq(Nat)
           /\ From(s, MsgsIn(msg_list)) \in Seq(Nat)
           /\ MessageOf(s, recv_list \o net) \in Seq(Nat)
           /\ AsideOf(s) \in Seq(Nat) /\ Left(s) \in Seq(Nat) /\ shown[s] \in Seq(Nat)
<1>1. /\ msg_map \in Seq(Filed) /\ stored \in Seq(Message) /\ msg_list \in Seq(Packet)
      /\ recv_list \in Seq(Packet) /\ net \in Seq(Packet) /\ shown[s] \in Seq(Nat)
  BY DEF TypeOK
<1>2. recv_list \o net \in Seq(Packet)
  BY <1>1, ConcatProperties
<1>3. FiledOf(s) \in Seq(Nat)
  BY <1>1, ContentType, FromType DEF FiledOf
<1>4. StoredOf(s) \in Seq(Nat)
  BY <1>1, FromType DEF StoredOf
<1>5. RepliedOf(s) \in Seq(Nat)
  BY <1>2, PartsType DEF RepliedOf
<1>6. From(s, MsgsIn(msg_list)) \in Seq(Nat) /\ MessageOf(s, recv_list \o net) \in Seq(Nat)
  BY <1>1, <1>2, MsgsType, FromType, PartsType
<1>7. AsideOf(s) \in Seq(Nat)
  BY <1>6, ConcatProperties DEF AsideOf
<1>8. Left(s) \in Seq(Nat)
  <2>1. FiledOf(s) \o StoredOf(s) \in Seq(Nat)
    BY <1>3, <1>4, ConcatProperties
  <2>2. (FiledOf(s) \o StoredOf(s)) \o RepliedOf(s) \in Seq(Nat)
    BY <1>5, <2>1, ConcatProperties
  <2>3. QED BY <1>7, <2>2, ConcatProperties DEF Left
<1>9. QED BY <1>1, <1>3, <1>4, <1>5, <1>6, <1>7, <1>8

\* The property in these words.
LEMMA StoryKept == TypeOK /\ StoryInv => KeptInOrder
<1> SUFFICES ASSUME TypeOK, StoryInv, NEW s \in Sender, ~lost
             PROVE  shown[s] \o From(s, ((Content(msg_map) \o stored)
                        \o MsgsIn(Those(recv_list \o net, IsOther)))
                        \o MsgsIn(msg_list \o Those(recv_list \o net, IsMessage)))
                        = [i \in 1 .. sent[s] |-> i]
  BY DEF KeptInOrder, Content
<1> DEFINE o == Those(recv_list \o net, IsOther)
           m == Those(recv_list \o net, IsMessage)
<1>1. /\ Content(msg_map) \in Seq(Message) /\ stored \in Seq(Message)
      /\ msg_list \in Seq(Packet) /\ recv_list \in Seq(Packet) /\ net \in Seq(Packet)
  BY ContentType DEF TypeOK
<1>2. recv_list \o net \in Seq(Packet)
  BY <1>1, ConcatProperties
<1>3. o \in Seq(Packet) /\ m \in Seq(Packet)
  BY <1>2, ThoseType
<1>4. MsgsIn(o) \in Seq(Message) /\ MsgsIn(msg_list) \in Seq(Message) /\ MsgsIn(m) \in Seq(Message)
  BY <1>1, <1>3, MsgsType
<1>5. MsgsIn(msg_list \o m) = MsgsIn(msg_list) \o MsgsIn(m)
  BY <1>1, <1>3, MsgsConcat
<1>6. From(s, MsgsIn(msg_list \o m)) = AsideOf(s)
  BY <1>4, <1>5, FromConcat DEF AsideOf, MessageOf
<1>7. MsgsIn(msg_list \o m) \in Seq(Message)
  BY <1>4, <1>5, ConcatProperties
<1>8. From(s, MsgsIn(o)) = RepliedOf(s)
  BY DEF RepliedOf, OtherOf
<1> HIDE DEF o, m
<1>9. PICK x \in Seq(Message) : x = Content(msg_map) \o stored
  BY <1>1, ConcatProperties
<1>10. From(s, x) = FiledOf(s) \o StoredOf(s)
  BY <1>1, <1>9, FromConcat DEF FiledOf, StoredOf
<1>11. PICK y \in Seq(Message) : y = x \o MsgsIn(o)
  BY <1>4, ConcatProperties
<1>12. From(s, y) = From(s, x) \o RepliedOf(s)
  <2>1. From(s, x \o MsgsIn(o)) = From(s, x) \o From(s, MsgsIn(o))
    BY <1>4, FromConcat
  <2>2. QED BY <1>8, <1>11, <2>1
<1>13. From(s, y \o MsgsIn(msg_list \o m)) = From(s, y) \o AsideOf(s)
  <2>1. PICK z \in Seq(Message) : z = MsgsIn(msg_list \o m)
    BY <1>7
  <2>2. From(s, y \o z) = From(s, y) \o From(s, z)
    BY FromConcat
  <2>3. QED BY <1>6, <2>1, <2>2
<1>14. From(s, y \o MsgsIn(msg_list \o m)) = Left(s)
  BY <1>10, <1>12, <1>13 DEF Left
<1>15. shown[s] \o Left(s) = [i \in 1 .. sent[s] |-> i]
  BY DEF StoryInv, Story, Numbers
<1>16. QED BY <1>9, <1>11, <1>14, <1>15 DEF o, m


LEMMA OrderInit == TypeOK /\ Init => OrderInv
<1> SUFFICES ASSUME TypeOK, Init PROVE OrderInv
  OBVIOUS
<1>1. MapInv
  BY DEF Init, MapInv, Good
<1>2. ASSUME NEW s \in Sender PROVE Story(s) = Numbers(sent[s])
  <2>1. PICK t \in Sender : \E n \in 0 .. Len(Script[t]) :
            /\ stored = [i \in 1 .. n |-> [from |-> t, n |-> i, type |-> Script[t][i]]]
            /\ sent = [u \in Sender |-> IF u = t THEN n ELSE 0]
    BY DEF Init
  <2>2. PICK n \in 0 .. Len(Script[t]) :
            /\ stored = [i \in 1 .. n |-> [from |-> t, n |-> i, type |-> Script[t][i]]]
            /\ sent = [u \in Sender |-> IF u = t THEN n ELSE 0]
    BY <2>1
  <2>3. n \in Nat
    BY ScriptAssumption, LenProperties
  <2>4. stored \in Seq(Message) /\ DOMAIN stored = 1 .. n
        /\ \A i \in 1 .. n : stored[i].from = t /\ stored[i].n = i
    BY <2>2 DEF TypeOK
  <2>5. ToSet(stored) = {stored[i] : i \in 1 .. n}
    BY <2>4 DEF ToSet
  <2>6. \A m \in ToSet(stored) : m.from = t
    BY <2>4, <2>5
  <2>7. StoredOf(s) = Numbers(sent[s])
    <3>1. CASE s = t
      <4>1. From(t, stored) = [j \in DOMAIN stored |-> stored[j].n]
        BY <2>4, <2>6, FromAll
      <4>2. [j \in DOMAIN stored |-> stored[j].n] = [j \in 1 .. n |-> j]
        BY <2>4
      <4>3. sent[s] = n
        BY <2>2, <3>1
      <4>4. QED BY <3>1, <4>1, <4>2, <4>3 DEF StoredOf, Numbers
    <3>2. CASE s # t
      <4>1. From(s, stored) = <<>>
        BY <2>4, <2>6, <3>2, FromNone
      <4>2. sent[s] = 0
        BY <2>2, <3>2
      <4>3. [j \in 1 .. 0 |-> j] = <<>>
        OBVIOUS
      <4>4. QED BY <4>1, <4>2, <4>3 DEF StoredOf, Numbers
    <3>3. QED BY <3>1, <3>2
  <2>8. /\ msg_map = <<>> /\ recv_list = <<>> /\ net = <<>> /\ msg_list = <<>>
        /\ shown[s] = <<>>
    BY DEF Init
  <2>9. From(s, <<>>) = <<>> /\ MsgsIn(<<>>) = <<>>
    <3>1. <<>> \in Seq(Packet) /\ <<>> \in Seq(Message) /\ ToSet(<<>>) = {}
      BY EmptySeq, EmptySet
    <3>2. QED BY <3>1, MsgsNone, FromNone
  <2>10. FiledOf(s) = <<>>
    <3>1. PICK map \in Seq(Filed) : map = <<>> /\ Len(map) = 0 /\ DOMAIN map = {}
      <4>1. <<>> \in Seq(Filed) /\ Len(<<>>) = 0 /\ DOMAIN <<>> = {}
        OBVIOUS
      <4>2. QED BY <4>1
    <3>2. Good(map)
      BY <3>1 DEF Good
    <3>3. \A i \in 1 .. Len(map) : map[i].uin # s
      BY <3>1
    <3>4. From(s, Content(map)) = <<>>
      BY <3>2, <3>3, FiledNone
    <3>5. QED BY <2>8, <3>1, <3>4 DEF FiledOf
  <2>11. RepliedOf(s) = <<>> /\ MessageOf(s, recv_list \o net) = <<>>
    <3>1. <<>> \in Seq(Packet) /\ ToSet(<<>>) = {}
      BY EmptySeq, EmptySet
    <3>2. OtherOf(s, <<>>) = <<>> /\ MessageOf(s, <<>>) = <<>>
      BY <3>1, PartsNone
    <3>3. recv_list \o net = <<>>
      BY <2>8, ConcatEmptySeq
    <3>4. QED BY <3>2, <3>3 DEF RepliedOf
  <2>12. AsideOf(s) = <<>>
    BY <2>8, <2>9, <2>11, ConcatEmptySeq DEF AsideOf
  <2>13. StoredOf(s) \in Seq(Nat)
    BY StoryType
  <2>14. Left(s) = StoredOf(s)
    BY <2>10, <2>11, <2>12, <2>13, ConcatEmptySeq DEF Left
  <2>15. Story(s) = StoredOf(s)
    BY <2>8, <2>13, <2>14, ConcatEmptySeq DEF Story
  <2>16. QED BY <2>7, <2>15
<1>3. QED BY <1>1, <1>2 DEF OrderInv, StoryInv

\* What the order is about.
told == <<msg_map, stored, recv_list, net, msg_list, shown, sent, lost>>

LEMMA OrderSame ==
    ASSUME OrderInv, UNCHANGED told
    PROVE  OrderInv'
<1>1. MapInv'
  BY DEF OrderInv, MapInv, told
<1>2. ASSUME NEW s \in Sender PROVE Story(s)' = Story(s) /\ sent'[s] = sent[s]
  BY DEF told, Story, Left, FiledOf, StoredOf, RepliedOf, AsideOf
<1>3. QED BY <1>1, <1>2 DEF OrderInv, StoryInv, told

\* Packets that come last.
LEMMA LaterParts ==
    ASSUME TypeOK, NEW s \in Sender, NEW new \in Seq(Packet),
           net' = net \o new, recv_list' = recv_list
    PROVE  /\ RepliedOf(s)' = RepliedOf(s) \o OtherOf(s, new)
           /\ MessageOf(s, recv_list \o net)' =
                MessageOf(s, recv_list \o net) \o MessageOf(s, new)
<1>1. recv_list \in Seq(Packet) /\ net \in Seq(Packet)
  BY DEF TypeOK
<1>2. recv_list \o net \in Seq(Packet)
  BY <1>1, ConcatProperties
<1>3. recv_list' \o net' = (recv_list \o net) \o new
  <2>1. (recv_list \o net) \o new = recv_list \o (net \o new)
    BY <1>1, ConcatThree
  <2>2. QED BY <2>1
<1>4. OtherOf(s, recv_list' \o net') = OtherOf(s, recv_list \o net) \o OtherOf(s, new)
  <2>1. OtherOf(s, (recv_list \o net) \o new) = OtherOf(s, recv_list \o net) \o OtherOf(s, new)
    BY <1>2, PartsConcat
  <2>2. QED BY <1>3, <2>1
<1>5. MessageOf(s, recv_list' \o net') = MessageOf(s, recv_list \o net) \o MessageOf(s, new)
  <2>1. MessageOf(s, (recv_list \o net) \o new)
            = MessageOf(s, recv_list \o net) \o MessageOf(s, new)
    BY <1>2, PartsConcat
  <2>2. QED BY <1>3, <2>1
<1>6. MessageOf(s, recv_list \o net)' = MessageOf(s, recv_list' \o net')
  BY DEF MessageOf
<1>7. RepliedOf(s)' = OtherOf(s, recv_list' \o net')
  BY DEF RepliedOf, OtherOf
<1>8. QED BY <1>4, <1>5, <1>6, <1>7 DEF RepliedOf

LEMMA OrderAnswer ==
    ASSUME TypeOK, BareInv, OrderInv, NEW i \in DOMAIN requests, Answer(i)
    PROVE  OrderInv'
<1> DEFINE r == requests[i]
           Kept(new) == MsgsIn(new) = <<>> /\ stored' = stored
           Handed(new) == MsgsIn(new) = stored /\ stored' = <<>>
<1>1. UNCHANGED <<msg_map, recv_list, msg_list, shown, sent>>
  BY DEF Answer, lists, screen
<1>2. PICK new \in Seq(Packet) : net' = net \o new /\ AnswerTo(r, new)
  BY Answered
<1> HIDE DEF r
<1>3. \A p \in ToSet(new) : IsOther(p)
  BY <1>2 DEF AnswerTo
<1>4. ASSUME NEW s \in Sender, Kept(new) \/ Handed(new) PROVE Left(s)' = Left(s)
  <2>1. /\ FiledOf(s) \in Seq(Nat) /\ StoredOf(s) \in Seq(Nat) /\ RepliedOf(s) \in Seq(Nat)
        /\ MessageOf(s, recv_list \o net) \in Seq(Nat)
    BY StoryType
  <2>2. FiledOf(s)' = FiledOf(s)
    BY <1>1 DEF FiledOf
  <2>3. AsideOf(s)' = AsideOf(s)
    <3>1. MessageOf(s, recv_list \o net)' = MessageOf(s, recv_list \o net) \o MessageOf(s, new)
      BY <1>1, <1>2, LaterParts
    <3>2. MessageOf(s, new) = <<>>
      BY <1>3, PartsNone
    <3>3. MessageOf(s, recv_list \o net)' = MessageOf(s, recv_list \o net)
      BY <2>1, <3>1, <3>2, ConcatEmptySeq
    <3>4. QED BY <1>1, <3>3 DEF AsideOf
  <2>4. RepliedOf(s)' = RepliedOf(s) \o OtherOf(s, new)
    BY <1>1, <1>2, LaterParts
  <2>5. OtherOf(s, new) = From(s, MsgsIn(new))
    BY <1>3, AllOther DEF OtherOf
  <2>6. From(s, <<>>) = <<>>
    <3>1. <<>> \in Seq(Message) /\ ToSet(<<>>) = {}
      BY EmptySeq, EmptySet
    <3>2. QED BY <3>1, FromNone
  <2>7. CASE Handed(new)
    <3>1. MsgsIn(new) = stored /\ stored' = <<>>
      BY <2>7
    <3>2. OtherOf(s, new) = StoredOf(s)
      BY <2>5, <3>1 DEF StoredOf
    <3>3. StoredOf(s)' = <<>>
      BY <2>6, <3>1 DEF StoredOf
    <3>4. StoredOf(s) = <<>> \/ RepliedOf(s) = <<>>
      <4>1. CASE stored = <<>>
        BY <2>6, <4>1 DEF StoredOf
      <4>2. CASE stored # <<>>
        <5>1. \A p \in Coming : IsOther(p) => p.msgs = <<>>
          BY <4>2 DEF BareInv
        <5>2. recv_list \o net \in Seq(Packet) /\ ToSet(recv_list \o net) = Coming
          <6>1. recv_list \in Seq(Packet) /\ net \in Seq(Packet)
            BY DEF TypeOK
          <6>2. QED BY <6>1, ConcatSet DEF Coming
        <5>3. QED BY <5>1, <5>2, PartsNone DEF RepliedOf
      <4>3. QED BY <4>1, <4>2
    <3>5. (FiledOf(s) \o <<>>) \o (RepliedOf(s) \o StoredOf(s))
            = (FiledOf(s) \o StoredOf(s)) \o RepliedOf(s)
      <4>1. CASE StoredOf(s) = <<>>
        BY <2>1, <4>1, ConcatEmptySeq
      <4>2. CASE RepliedOf(s) = <<>>
        <5>1. /\ FiledOf(s) \o <<>> = FiledOf(s) /\ <<>> \o StoredOf(s) = StoredOf(s)
              /\ FiledOf(s) \o StoredOf(s) \in Seq(Nat)
          BY <2>1, ConcatEmptySeq, ConcatProperties
        <5>2. (FiledOf(s) \o StoredOf(s)) \o <<>> = FiledOf(s) \o StoredOf(s)
          BY <5>1, ConcatEmptySeq
        <5>3. QED BY <4>2, <5>1, <5>2
      <4>3. QED BY <3>4, <4>1, <4>2
    <3>6. QED BY <2>2, <2>3, <2>4, <3>2, <3>3, <3>5 DEF Left
  <2>8. CASE Kept(new)
    <3>1. MsgsIn(new) = <<>> /\ stored' = stored
      BY <2>8
    <3>2. RepliedOf(s)' = RepliedOf(s)
      BY <2>1, <2>4, <2>5, <2>6, <3>1, ConcatEmptySeq
    <3>3. QED BY <2>2, <2>3, <3>1, <3>2 DEF Left, StoredOf
  <2>9. QED BY <1>4, <2>7, <2>8
<1>5. MapInv'
  BY <1>1 DEF OrderInv, MapInv
<1>6. CASE lost' = TRUE
  BY <1>5, <1>6 DEF OrderInv, StoryInv
<1>7. CASE lost' = lost /\ (Kept(new) \/ Handed(new))
  <2>1. ASSUME NEW s \in Sender PROVE Story(s)' = Story(s) /\ sent'[s] = sent[s]
    BY <1>1, <1>4, <1>7 DEF Story
  <2>2. QED BY <1>5, <1>7, <2>1 DEF OrderInv, StoryInv
<1>8. QED BY <1>2, <1>6, <1>7 DEF AnswerTo

LEMMA OrderAccused ==
    ASSUME TypeOK, OrderInv, ForeignError
    PROVE  OrderInv'
<1>1. UNCHANGED <<msg_map, recv_list, msg_list, shown, sent>>
  BY Accused DEF lists, screen
<1>2. PICK new, own \in Seq(Packet) : net' = net \o new /\ AccusedBy(new, own)
  BY Accused
<1>3. MapInv'
  BY <1>1 DEF OrderInv, MapInv
<1>4. CASE lost' = TRUE
  BY <1>3, <1>4 DEF OrderInv, StoryInv
<1>5. CASE UNCHANGED <<stored, lost>> /\ \A p \in ToSet(new) : p.msgs = <<>>
  <2>1. \A p \in ToSet(new) : IsOther(p)
    BY <1>2 DEF AccusedBy
  <2>2. ASSUME NEW s \in Sender PROVE Story(s)' = Story(s) /\ sent'[s] = sent[s]
    <3>1. OtherOf(s, new) = <<>> /\ MessageOf(s, new) = <<>>
      BY <1>5, <2>1, PartsNone
    <3>2. RepliedOf(s) \in Seq(Nat) /\ MessageOf(s, recv_list \o net) \in Seq(Nat)
      BY StoryType
    <3>3. /\ RepliedOf(s)' = RepliedOf(s) \o <<>>
          /\ MessageOf(s, recv_list \o net)' = MessageOf(s, recv_list \o net) \o <<>>
      BY <1>1, <1>2, <3>1, LaterParts
    <3>4. /\ RepliedOf(s)' = RepliedOf(s)
          /\ MessageOf(s, recv_list \o net)' = MessageOf(s, recv_list \o net)
      BY <3>2, <3>3, ConcatEmptySeq
    <3>5. AsideOf(s)' = AsideOf(s)
      BY <1>1, <3>4 DEF AsideOf
    <3>6. FiledOf(s)' = FiledOf(s) /\ StoredOf(s)' = StoredOf(s)
      BY <1>1, <1>5 DEF FiledOf, StoredOf
    <3>7. QED BY <1>1, <3>4, <3>5, <3>6 DEF Story, Left
  <2>3. QED BY <1>3, <1>5, <2>2 DEF OrderInv, StoryInv
<1>6. QED BY <1>2, <1>4, <1>5 DEF AccusedBy


\* One number more.
LEMMA OneMore ==
    ASSUME NEW n \in Nat
    PROVE  Numbers(n) \in Seq(Nat) /\ Numbers(n) \o <<n + 1>> = Numbers(n + 1)
<1>1. Numbers(n) \in Seq(Nat) /\ Len(Numbers(n)) = n /\ \A i \in 1 .. n : Numbers(n)[i] = i
  BY DEF Numbers
<1>2. PICK a \in Seq(Nat) : a = Numbers(n) /\ Len(a) = n /\ \A i \in 1 .. n : a[i] = i
  BY <1>1
<1>3. PICK x \in Nat : x = n + 1
  OBVIOUS
<1>4. a \o <<x>> = [i \in 1 .. n + 1 |-> i]
  <2>1. Append(a, x) = a \o <<x>>
    BY AppendIsConcat
  <2>2. /\ Append(a, x) \in Seq(Nat) /\ Len(Append(a, x)) = n + 1
        /\ \A i \in 1 .. n : Append(a, x)[i] = a[i]
        /\ Append(a, x)[n + 1] = x
    BY <1>2, AppendProperties
  <2>3. \A i \in 1 .. n + 1 : Append(a, x)[i] = i
    <3>1. ASSUME NEW i \in 1 .. n + 1 PROVE Append(a, x)[i] = i
      <4>1. CASE i = n + 1
        BY <1>3, <2>2, <4>1
      <4>2. CASE i # n + 1
        <5>1. i \in 1 .. n
          BY <4>2
        <5>2. QED BY <1>2, <2>2, <5>1
      <4>3. QED BY <4>1, <4>2
    <3>2. QED BY <3>1
  <2>4. PICK b \in Seq(Nat) : b = Append(a, x)
    BY <2>2
  <2>5. b = [i \in 1 .. Len(b) |-> b[i]]
    BY SeqDef
  <2>6. Len(b) = n + 1 /\ \A i \in 1 .. n + 1 : b[i] = i
    BY <2>2, <2>3, <2>4
  <2>7. QED BY <2>1, <2>4, <2>5, <2>6
<1>5. QED BY <1>1, <1>2, <1>3, <1>4 DEF Numbers

LEMMA OrderSend ==
    ASSUME TypeOK, OrderInv, NEW t \in Sender, Send(t)
    PROVE  OrderInv'
<1>1. UNCHANGED <<msg_map, stored, recv_list, msg_list, shown>>
  BY DEF Send, lists, screen
<1>2. MapInv'
  BY <1>1 DEF OrderInv, MapInv
<1>3. CASE lost' = TRUE
  BY <1>2, <1>3 DEF OrderInv, StoryInv
<1>4. SUFFICES ASSUME lost' # TRUE PROVE OrderInv'
  BY <1>3
<1>5. sent[t] \in Nat /\ sent' = [sent EXCEPT ![t] = sent[t] + 1]
  BY SendType
<1>6. PICK m \in Message :
        /\ lost' = lost
        /\ m.from = t /\ m.n = sent[t] + 1
        /\ Replied("message", None, <<m>>) \in Packet
        /\ net' = net \o <<Replied("message", None, <<m>>)>>
  BY <1>4, SendType
<1>7. PICK p \in Packet : p = Replied("message", None, <<m>>)
  BY <1>6
<1>8. IsMessage(p) /\ ~IsOther(p) /\ p.msgs = <<m>>
  BY <1>7 DEF Replied, IsMessage, IsOther
<1>9. <<p>> \in Seq(Packet) /\ ToSet(<<p>>) = {p} /\ net' = net \o <<p>>
  BY <1>6, <1>7, SingleSet
<1>10. ASSUME NEW s \in Sender
      PROVE  Story(s)' = Story(s) \o (IF s = t THEN <<sent[t] + 1>> ELSE <<>>)
  <2> DEFINE more == IF s = t THEN <<sent[t] + 1>> ELSE <<>>
  <2>1. OtherOf(s, <<p>>) = <<>>
    <3>1. \A x \in ToSet(<<p>>) : IsOther(x) => x.msgs = <<>>
      BY <1>8, <1>9
    <3>2. QED BY <1>9, <3>1, PartsNone
  <2>2. MessageOf(s, <<p>>) = more
    <3>1. Those(<<p>>, IsMessage) = <<p>>
      BY <1>8, ThoseSmall
    <3>2. MsgsIn(<<p>>) = <<m>>
      BY <1>8, MsgsSmall
    <3>3. From(s, <<m>>) = more
      BY <1>6, FromSmall
    <3>4. QED BY <3>1, <3>2, <3>3 DEF MessageOf
  <2>3. more \in Seq(Nat)
    BY <1>5, EmptySeq, SingleSet
  <2> HIDE DEF more
  <2>4. /\ FiledOf(s) \in Seq(Nat) /\ StoredOf(s) \in Seq(Nat) /\ RepliedOf(s) \in Seq(Nat)
        /\ From(s, MsgsIn(msg_list)) \in Seq(Nat)
        /\ MessageOf(s, recv_list \o net) \in Seq(Nat)
        /\ AsideOf(s) \in Seq(Nat) /\ Left(s) \in Seq(Nat) /\ shown[s] \in Seq(Nat)
    BY StoryType
  <2>5. FiledOf(s)' = FiledOf(s) /\ StoredOf(s)' = StoredOf(s)
    BY <1>1 DEF FiledOf, StoredOf
  <2>6. RepliedOf(s)' = RepliedOf(s)
    <3>1. RepliedOf(s)' = RepliedOf(s) \o OtherOf(s, <<p>>)
      BY <1>1, <1>9, LaterParts
    <3>2. QED BY <2>1, <2>4, <3>1, ConcatEmptySeq
  <2>7. AsideOf(s)' = AsideOf(s) \o more
    <3>1. MessageOf(s, recv_list \o net)' = MessageOf(s, recv_list \o net) \o more
      <4>1. MessageOf(s, recv_list \o net)'
                = MessageOf(s, recv_list \o net) \o MessageOf(s, <<p>>)
        BY <1>1, <1>9, LaterParts
      <4>2. QED BY <2>2, <4>1
    <3>2. AsideOf(s)' = From(s, MsgsIn(msg_list)) \o (MessageOf(s, recv_list \o net) \o more)
      BY <1>1, <3>1 DEF AsideOf
    <3>3. PICK y \in Seq(Nat), z \in Seq(Nat) :
            y = From(s, MsgsIn(msg_list)) /\ z = MessageOf(s, recv_list \o net)
      BY <2>4
    <3>4. (y \o z) \o more = y \o (z \o more)
      BY <2>3, ConcatNumbers
    <3>5. QED BY <3>2, <3>3, <3>4 DEF AsideOf
  <2>8. PICK x \in Seq(Nat) : x = (FiledOf(s) \o StoredOf(s)) \o RepliedOf(s)
    <3>1. FiledOf(s) \o StoredOf(s) \in Seq(Nat)
      BY <2>4, ConcatProperties
    <3>2. QED BY <2>4, <3>1, ConcatProperties
  <2>9. Left(s) = x \o AsideOf(s) /\ Left(s)' = x \o (AsideOf(s) \o more)
    BY <2>5, <2>6, <2>7, <2>8 DEF Left
  <2>10. Left(s)' = Left(s) \o more
    <3>1. PICK z \in Seq(Nat) : z = AsideOf(s)
      BY <2>4
    <3>2. (x \o z) \o more = x \o (z \o more)
      BY <2>3, ConcatNumbers
    <3>3. QED BY <2>9, <3>1, <3>2
  <2>11. Story(s)' = shown[s] \o (Left(s) \o more)
    BY <1>1, <2>10 DEF Story
  <2>12. Story(s)' = Story(s) \o more
    <3>1. PICK y \in Seq(Nat), z \in Seq(Nat) : y = shown[s] /\ z = Left(s)
      BY <2>4
    <3>2. (y \o z) \o more = y \o (z \o more)
      BY <2>3, ConcatNumbers
    <3>3. QED BY <2>11, <3>1, <3>2 DEF Story
  <2>13. QED BY <2>12 DEF more
<1>11. ASSUME NEW s \in Sender, ~lost PROVE Story(s)' = Numbers(sent'[s])
  <2>1. Story(s) = Numbers(sent[s]) /\ sent[s] \in Nat
    BY <1>11 DEF OrderInv, StoryInv, TypeOK
  <2>2. CASE s = t
    <3>1. Story(s)' = Numbers(sent[t]) \o <<sent[t] + 1>>
      BY <1>10, <2>1, <2>2
    <3>2. sent'[s] = sent[t] + 1
      BY <1>5, <2>2 DEF TypeOK
    <3>3. Numbers(sent[t]) \o <<sent[t] + 1>> = Numbers(sent[t] + 1)
      BY <1>5, OneMore
    <3>4. QED BY <3>1, <3>2, <3>3
  <2>3. CASE s # t
    <3>1. Story(s)' = Numbers(sent[s]) \o <<>>
      BY <1>10, <2>1, <2>3
    <3>2. sent'[s] = sent[s]
      BY <1>5, <2>3 DEF TypeOK
    <3>3. Numbers(sent[s]) \in Seq(Nat)
      BY <2>1, OneMore
    <3>4. QED BY <3>1, <3>2, <3>3, ConcatEmptySeq
  <2>4. QED BY <2>2, <2>3
<1>12. QED BY <1>2, <1>6, <1>11 DEF OrderInv, StoryInv


\* What wait_for_reply puts aside stays the same with what is still to be read.
LEMMA AsideWaited ==
    ASSUME TypeOK, NEW n \in Batches, Waited(n), NEW s \in Sender
    PROVE  AsideOf(s)' = AsideOf(s)
<1> DEFINE b == recv_list \o Batch(n)
<1>1. /\ msg_list \in Seq(Packet) /\ Batch(n) \in Seq(Packet) /\ Rest(n) \in Seq(Packet)
      /\ recv_list \in Seq(Packet)
  BY BatchFacts DEF TypeOK
<1>2. b \in Seq(Packet)
  BY <1>1, ConcatProperties
<1>3. Those(b, IsMessage) \in Seq(Packet)
  BY <1>2, ThoseType
<1>4. /\ net' = Rest(n) /\ recv_list' = <<>>
      /\ msg_list' = msg_list \o Those(b, IsMessage)
  BY DEF Waited
<1>5. recv_list \o net = b \o Rest(n)
  BY ReceivedCut
<1> HIDE DEF b
<1>6. MsgsIn(msg_list) \in Seq(Message) /\ MsgsIn(Those(b, IsMessage)) \in Seq(Message)
  BY <1>1, <1>3, MsgsType
<1>7. From(s, MsgsIn(msg_list')) = From(s, MsgsIn(msg_list)) \o MessageOf(s, b)
  <2>1. MsgsIn(msg_list') = MsgsIn(msg_list) \o MsgsIn(Those(b, IsMessage))
    BY <1>1, <1>3, <1>4, MsgsConcat
  <2>2. QED BY <1>6, <2>1, FromConcat DEF MessageOf
<1>8. recv_list' \o net' = Rest(n)
  BY <1>1, <1>4, ConcatEmptySeq
<1>9. AsideOf(s)' = From(s, MsgsIn(msg_list')) \o MessageOf(s, recv_list' \o net')
  BY DEF AsideOf, MessageOf
<1>10. PICK x \in Seq(Nat), y \in Seq(Nat), z \in Seq(Nat) :
        x = From(s, MsgsIn(msg_list)) /\ y = MessageOf(s, b) /\ z = MessageOf(s, Rest(n))
  BY <1>1, <1>2, <1>6, FromType, PartsType
<1>11. AsideOf(s)' = (x \o y) \o z
  BY <1>7, <1>8, <1>9, <1>10
<1>12. MessageOf(s, recv_list \o net) = y \o z
  <2>1. MessageOf(s, b \o Rest(n)) = MessageOf(s, b) \o MessageOf(s, Rest(n))
    BY <1>1, <1>2, PartsConcat
  <2>2. QED BY <1>5, <1>10, <2>1
<1>13. AsideOf(s) = x \o (y \o z)
  BY <1>10, <1>12 DEF AsideOf
<1>14. QED BY <1>11, <1>13, ConcatNumbers

LEMMA OrderWaitForReply ==
    ASSUME TypeOK, PhaseInv, LoginInv, OwnInv, BareInv, OrderInv, NEW n \in Batches, wait_for_reply(n)
    PROVE  OrderInv'
<1>1. /\ waiting # None /\ waiting.cmd # OFFLINE /\ Waited(n)
      /\ UNCHANGED <<msg_map, screen, stored, sent, lost>>
  BY WaitForReply
<1>2. UNCHANGED <<msg_map, shown, stored, sent, lost>>
  BY <1>1 DEF screen
<1>3. \A p \in Coming : IsOther(p) => p.msgs = <<>>
  BY <1>1, BareWhile
<1>4. /\ recv_list \o net \in Seq(Packet) /\ ToSet(recv_list \o net) = Coming
      /\ ToSet(Rest(n)) \subseteq Coming /\ Rest(n) \in Seq(Packet)
  BY ReceivedCut, BatchFacts
<1>5. recv_list' \o net' = Rest(n)
  BY <1>1, <1>4, ConcatEmptySeq DEF Waited
<1>6. ASSUME NEW s \in Sender PROVE Story(s)' = Story(s)
  <2>1. RepliedOf(s) = <<>>
    BY <1>3, <1>4, PartsNone DEF RepliedOf
  <2>2. RepliedOf(s)' = <<>>
    <3>1. OtherOf(s, Rest(n)) = <<>>
      BY <1>3, <1>4, PartsNone
    <3>2. RepliedOf(s)' = OtherOf(s, recv_list' \o net')
      BY DEF RepliedOf, OtherOf
    <3>3. QED BY <1>5, <3>1, <3>2
  <2>3. AsideOf(s)' = AsideOf(s)
    BY <1>1, AsideWaited
  <2>4. FiledOf(s)' = FiledOf(s) /\ StoredOf(s)' = StoredOf(s) /\ shown'[s] = shown[s]
    BY <1>2 DEF FiledOf, StoredOf
  <2>5. Left(s)' = Left(s)
    BY <2>1, <2>2, <2>3, <2>4 DEF Left
  <2>6. QED BY <2>4, <2>5 DEF Story
<1>7. MapInv'
  BY <1>2 DEF OrderInv, MapInv
<1>8. QED BY <1>2, <1>6, <1>7 DEF OrderInv, StoryInv

LEMMA OrderGetOffline ==
    ASSUME TypeOK, PhaseInv, LoginInv, OwnInv, BareInv, OrderInv, NEW n \in Batches, get_offline_msg(n)
    PROVE  OrderInv'
<1>1. /\ waiting.cmd = OFFLINE /\ waiting' = None /\ Waited(n)
      /\ UNCHANGED <<shown, stored, sent>>
  BY GetOffline
<1>2. Sure /\ waiting # None
  BY <1>1, PhaseGetOffline DEF None, OFFLINE, Sure
<1>3. /\ recv_list = <<>>
      /\ Found(n) \in Seq(Packet) /\ Those(Rest(n), IsOther) \in Seq(Packet)
      /\ MsgsIn(Those(net, IsOther)) = MsgsIn(Found(n)) \o MsgsIn(Those(Rest(n), IsOther))
  <2>1. /\ recv_list = <<>> /\ Found(n) \in Seq(Packet)
        /\ Found(n) = Those(Batch(n), IsOwn) /\ recv_list \o Batch(n) = Batch(n)
    BY <1>2, OwnReceived
  <2>2. Batch(n) \in Seq(Packet) /\ Rest(n) \in Seq(Packet) /\ net = Batch(n) \o Rest(n)
    BY BatchFacts
  <2>3. Those(net, IsOther) = Those(Batch(n), IsOther) \o Those(Rest(n), IsOther)
    BY <2>2, ThoseConcat
  <2>4. Those(Batch(n), IsOther) \in Seq(Packet) /\ Those(Rest(n), IsOther) \in Seq(Packet)
    BY <2>2, ThoseType
  <2>5. MsgsIn(Those(Batch(n), IsOther)) = MsgsIn(Found(n))
    <3>1. \A p \in ToSet(Batch(n)) : IsForeign(p) => p.msgs = <<>>
      BY <2>1, ReceivedCut, ForeignBare
    <3>2. QED BY <2>1, <2>2, <3>1, OwnMsgs
  <2>6. MsgsIn(Those(net, IsOther)) = MsgsIn(Those(Batch(n), IsOther)) \o MsgsIn(Those(Rest(n), IsOther))
    BY <2>3, <2>4, MsgsConcat
  <2>7. QED BY <2>1, <2>4, <2>5, <2>6
<1>4. net \in Seq(Packet) /\ Rest(n) \in Seq(Packet) /\ msg_map \in Seq(Filed)
  BY BatchFacts DEF TypeOK
<1>5. recv_list \o net = net /\ recv_list' \o net' = Rest(n)
  BY <1>1, <1>3, <1>4, ConcatEmptySeq DEF Waited
<1>6. MsgsIn(Found(n)) \in Seq(Message) /\ MsgsIn(Those(Rest(n), IsOther)) \in Seq(Message)
  BY <1>3, MsgsType
<1>7. ASSUME NEW s \in Sender
      PROVE  /\ RepliedOf(s) = From(s, MsgsIn(Found(n))) \o RepliedOf(s)'
             /\ RepliedOf(s)' = OtherOf(s, Rest(n))
             /\ From(s, MsgsIn(Found(n))) \in Seq(Nat) /\ RepliedOf(s)' \in Seq(Nat)
  <2>1. RepliedOf(s)' = OtherOf(s, recv_list' \o net')
    BY DEF RepliedOf, OtherOf
  <2>2. RepliedOf(s)' = OtherOf(s, Rest(n))
    BY <1>5, <2>1
  <2>3. From(s, MsgsIn(Those(net, IsOther)))
            = From(s, MsgsIn(Found(n))) \o From(s, MsgsIn(Those(Rest(n), IsOther)))
    BY <1>3, <1>6, FromConcat
  <2>4. RepliedOf(s) = From(s, MsgsIn(Found(n))) \o RepliedOf(s)'
    BY <1>5, <2>2, <2>3 DEF RepliedOf, OtherOf
  <2>5. From(s, MsgsIn(Found(n))) \in Seq(Nat)
    BY <1>6, FromType
  <2>6. OtherOf(s, Rest(n)) \in Seq(Nat)
    BY <1>4, PartsType
  <2>7. QED BY <2>2, <2>4, <2>5, <2>6
<1>8. ASSUME NEW s \in Sender
      PROVE  AsideOf(s)' = AsideOf(s) /\ StoredOf(s)' = StoredOf(s) /\ shown'[s] = shown[s]
  <2>1. AsideOf(s)' = AsideOf(s)
    BY <1>1, AsideWaited
  <2>2. QED BY <1>1, <2>1 DEF StoredOf
<1>9. CASE /\ \E i \in DOMAIN Found(n) : Found(n)[i].kind = "reply"
           /\ msg_map' = FileAll(msg_map, MsgsIn(Found(n)))
           /\ lost' = lost
  <2>1. stored = <<>> /\ \A p \in ToSet(Rest(n)) : IsOther(p) => p.msgs = <<>>
    <3>1. stored = <<>> /\ Those(Rest(n), IsOwn) = <<>>
      BY <1>1, <1>2, <1>9, OfflineFound
    <3>2. {p \in ToSet(Rest(n)) : IsOwn(p)} = {}
      BY <1>4, <3>1, ThoseType, EmptySet
    <3>3. \A p \in ToSet(Rest(n)) : IsForeign(p) => p.msgs = <<>>
      BY ReceivedCut, ForeignBare
    <3>4. QED BY <3>1, <3>2, <3>3 DEF IsOwn
  <2>2. MapInv'
    BY <1>4, <1>6, <1>9, FileAllFacts DEF OrderInv, MapInv
  <2>3. ASSUME NEW s \in Sender PROVE Story(s)' = Story(s)
    <3>1. RepliedOf(s)' = <<>>
      BY <1>4, <1>7, <2>1, PartsNone
    <3>2. PICK r \in Seq(Nat) : r = From(s, MsgsIn(Found(n)))
      BY <1>7
    <3>3. RepliedOf(s) = r
      BY <1>7, <3>1, <3>2, ConcatEmptySeq
    <3>4. FiledOf(s)' = FiledOf(s) \o r
      BY <1>4, <1>6, <1>9, <3>2, FileAllContent DEF FiledOf, OrderInv, MapInv
    <3>5. StoredOf(s) = <<>>
      <4>1. <<>> \in Seq(Message) /\ ToSet(<<>>) = {}
        BY EmptySeq, EmptySet
      <4>2. QED BY <2>1, <4>1, FromNone DEF StoredOf
    <3>6. PICK f \in Seq(Nat) : f = FiledOf(s)
      BY StoryType
    <3>7. f \o r \in Seq(Nat)
      BY ConcatProperties
    <3>8. ((f \o r) \o <<>>) \o <<>> = (f \o <<>>) \o r
      BY <3>7, ConcatEmptySeq
    <3>9. Left(s) = ((f \o <<>>) \o r) \o AsideOf(s)
      BY <3>3, <3>5, <3>6 DEF Left
    <3>10. Left(s)' = (((f \o r) \o <<>>) \o <<>>) \o AsideOf(s)
      BY <1>8, <3>1, <3>4, <3>5, <3>6 DEF Left
    <3>11. Left(s)' = Left(s)
      BY <3>8, <3>9, <3>10
    <3>12. QED BY <1>8, <3>11 DEF Story
  <2>4. QED BY <1>1, <1>9, <2>2, <2>3 DEF OrderInv, StoryInv
<1>10. CASE lost' = (lost \/ MsgsIn(Found(n)) # <<>>) /\ msg_map' = msg_map
  <2>1. MapInv'
    BY <1>10 DEF OrderInv, MapInv
  <2>2. ASSUME ~lost', NEW s \in Sender PROVE Story(s)' = Story(s)
    <3>1. MsgsIn(Found(n)) = <<>>
      BY <1>10, <2>2
    <3>2. From(s, MsgsIn(Found(n))) = <<>>
      <4>1. <<>> \in Seq(Message) /\ ToSet(<<>>) = {}
        BY EmptySeq, EmptySet
      <4>2. QED BY <3>1, <4>1, FromNone
    <3>3. RepliedOf(s)' = RepliedOf(s)
      <4>1. PICK r \in Seq(Nat) : r = RepliedOf(s)'
        BY <1>7
      <4>2. <<>> \o r = r
        BY ConcatEmptySeq
      <4>3. QED BY <1>7, <3>2, <4>1, <4>2
    <3>4. FiledOf(s)' = FiledOf(s)
      BY <1>10 DEF FiledOf
    <3>5. QED BY <1>8, <3>3, <3>4 DEF Left, Story
  <2>3. ~lost' => ~lost
    BY <1>10
  <2>4. QED BY <1>1, <2>1, <2>2, <2>3 DEF OrderInv, StoryInv
<1>11. QED BY <1>9, <1>10, GetOffline


\* The last of four, put after the others.
Paired(f, x, y, z) == f \o (x \o (y \o z)) = (f \o (x \o y)) \o z

LEMMA PairUp ==
    ASSUME NEW f, NEW x, NEW y, NEW z
    PROVE  {f, x, y, z} \subseteq Seq(Nat) => Paired(f, x, y, z)
<1>1. SUFFICES ASSUME {f, x, y, z} \subseteq Seq(Nat)
               PROVE  Paired(f, x, y, z)
  OBVIOUS
<1>2. x \in Seq(Nat) /\ y \in Seq(Nat) /\ z \in Seq(Nat)
  BY <1>1
<1>3. f \in Seq(Nat) /\ z \in Seq(Nat)
  BY <1>1
<1>4. (x \o y) \o z = x \o (y \o z) /\ x \o y \in Seq(Nat)
  BY <1>2, ConcatNumbers, ConcatProperties
<1>5. PICK w : w \in Seq(Nat) /\ w = x \o y
  BY <1>4
<1>6. (f \o w) \o z = f \o (w \o z)
  BY <1>3, <1>5, ConcatNumbers
<1>7. QED BY <1>4, <1>5, <1>6 DEF Paired

LEMMA OrderSelectLoop ==
    ASSUME TypeOK, BareInv, OrderInv, NEW n \in Batches, select_loop(n)
    PROVE  OrderInv'
<1> DEFINE b == recv_list \o Batch(n)
           map == Filled(n)
<1>1. /\ phase = "poll"
      /\ net' = Rest(n) /\ recv_list' = Those(b, IsOther)
      /\ msg_list' = <<>>
      /\ map \in Seq(Filed)
      /\ \/ Noticed(map)
         \/ Ignored(map)
         \/ \E i \in 1 .. Len(map) : Chatted(map, i)
      /\ UNCHANGED <<stored, sent>> /\ UNCHANGED history
  BY SelectLoop
<1>2. lost' = lost
  BY <1>1 DEF history
<1>3. /\ msg_list \in Seq(Packet) /\ Rest(n) \in Seq(Packet)
      /\ b \in Seq(Packet) /\ recv_list \o net = b \o Rest(n)
      /\ recv_list \o net \in Seq(Packet) /\ ToSet(recv_list \o net) = Coming
      /\ ToSet(b) \subseteq Coming /\ ToSet(Rest(n)) \subseteq Coming
      /\ msg_map \in Seq(Filed)
  BY BatchFacts, ReceivedCut, ReceivedType DEF TypeOK
<1>4. /\ Those(b, IsMessage) \in Seq(Packet) /\ Those(b, IsOther) \in Seq(Packet)
      /\ ToSet(Those(b, IsOther)) = {p \in ToSet(b) : IsOther(p)}
  BY <1>3, ThoseType
<1>5. stored = <<>> /\ \A p \in Coming : IsOther(p) => p.msgs = <<>>
  BY <1>1 DEF BareInv
<1>6. Good(msg_map)
  BY DEF OrderInv, MapInv
<1>7. map = FileAll(msg_map, MsgsIn(msg_list \o Those(b, IsMessage)))
  BY DEF Filled
<1> HIDE DEF b, map
<1>8. MsgsIn(msg_list) \in Seq(Message) /\ MsgsIn(Those(b, IsMessage)) \in Seq(Message)
  BY <1>3, <1>4, MsgsType
<1>9. /\ MsgsIn(msg_list \o Those(b, IsMessage))
            = MsgsIn(msg_list) \o MsgsIn(Those(b, IsMessage))
      /\ MsgsIn(msg_list \o Those(b, IsMessage)) \in Seq(Message)
  <2>1. MsgsIn(msg_list \o Those(b, IsMessage))
            = MsgsIn(msg_list) \o MsgsIn(Those(b, IsMessage))
    BY <1>3, <1>4, MsgsConcat
  <2>2. MsgsIn(msg_list) \o MsgsIn(Those(b, IsMessage)) \in Seq(Message)
    BY <1>8, ConcatProperties
  <2>3. QED BY <2>1, <2>2
<1>10. Good(map)
  BY <1>3, <1>6, <1>7, <1>9, FileAllFacts
<1>11. ASSUME NEW s
       PROVE  From(s, Content(map))
                = From(s, Content(msg_map)) \o (From(s, MsgsIn(msg_list)) \o MessageOf(s, b))
  <2>1. From(s, Content(map)) = From(s, Content(msg_map))
            \o From(s, MsgsIn(msg_list \o Those(b, IsMessage)))
    BY <1>3, <1>6, <1>7, <1>9, FileAllContent
  <2>2. From(s, MsgsIn(msg_list \o Those(b, IsMessage)))
            = From(s, MsgsIn(msg_list)) \o MessageOf(s, b)
    BY <1>8, <1>9, FromConcat DEF MessageOf
  <2>3. QED BY <2>1, <2>2
\* What is filed and what is to be read, after and before.
<1>12. ASSUME NEW s \in Sender
       PROVE  /\ Left(s) = From(s, Content(map)) \o MessageOf(s, Rest(n))
              /\ Left(s)' = FiledOf(s)' \o MessageOf(s, Rest(n))
              /\ From(s, Content(map)) \in Seq(Nat) /\ MessageOf(s, Rest(n)) \in Seq(Nat)
  <2>1. From(s, <<>>) = <<>> /\ MsgsIn(<<>>) = <<>>
    <3>1. <<>> \in Seq(Packet) /\ <<>> \in Seq(Message) /\ ToSet(<<>>) = {}
      BY EmptySeq, EmptySet
    <3>2. QED BY <3>1, MsgsNone, FromNone
  <2>2. StoredOf(s) = <<>> /\ StoredOf(s)' = <<>>
    BY <1>1, <1>5, <2>1 DEF StoredOf
  <2>3. RepliedOf(s) = <<>>
    BY <1>3, <1>5, PartsNone DEF RepliedOf
  <2>4. recv_list' \o net' \in Seq(Packet) /\ ToSet(recv_list' \o net') \subseteq Coming
    <3>1. PICK o \in Seq(Packet) : o = Those(b, IsOther) /\ ToSet(o) \subseteq Coming
      BY <1>3, <1>4
    <3>2. PICK r \in Seq(Packet) : r = Rest(n) /\ ToSet(r) \subseteq Coming
      BY <1>3
    <3>3. o \o r \in Seq(Packet) /\ ToSet(o \o r) = ToSet(o) \cup ToSet(r)
      BY ConcatSet
    <3>4. QED BY <1>1, <3>1, <3>2, <3>3
  <2>5. RepliedOf(s)' = <<>>
    <3>1. OtherOf(s, recv_list' \o net') = <<>>
      BY <1>5, <2>4, PartsNone
    <3>2. RepliedOf(s)' = OtherOf(s, recv_list' \o net')
      BY DEF RepliedOf, OtherOf
    <3>3. QED BY <3>1, <3>2
  <2>6. PICK f \in Seq(Nat), x \in Seq(Nat), y \in Seq(Nat), z \in Seq(Nat) :
            /\ f = FiledOf(s) /\ x = From(s, MsgsIn(msg_list))
            /\ y = MessageOf(s, b) /\ z = MessageOf(s, Rest(n))
    BY <1>3, StoryType, PartsType
  <2>7. MessageOf(s, recv_list \o net) = y \o z
    <3>1. MessageOf(s, b \o Rest(n)) = MessageOf(s, b) \o MessageOf(s, Rest(n))
      BY <1>3, PartsConcat
    <3>2. QED BY <1>3, <2>6, <3>1
  <2>8. AsideOf(s) = x \o (y \o z)
    BY <2>6, <2>7 DEF AsideOf
  <2>9. Left(s) = f \o (x \o (y \o z))
    <3>1. (f \o <<>>) \o <<>> = f
      BY ConcatEmptySeq
    <3>2. QED BY <2>2, <2>3, <2>6, <2>8, <3>1 DEF Left
  <2>10. From(s, Content(map)) = f \o (x \o y)
    BY <1>11, <2>6 DEF FiledOf
  <2>11. x \o y \in Seq(Nat) /\ f \o (x \o y) \in Seq(Nat)
    BY ConcatProperties
  <2>12. f \o (x \o (y \o z)) = (f \o (x \o y)) \o z
    <3>1. {f, x, y, z} \subseteq Seq(Nat)
      OBVIOUS
    <3>2. Paired(f, x, y, z)
      BY <3>1, PairUp
    <3>3. QED BY <3>2 DEF Paired
  <2>14. Left(s) = From(s, Content(map)) \o z
    BY <2>9, <2>10, <2>12
  <2>15. AsideOf(s)' = z
    <3>1. AsideOf(s)' = From(s, MsgsIn(msg_list')) \o MessageOf(s, recv_list' \o net')
      BY DEF AsideOf, MessageOf
    <3>2. MessageOf(s, recv_list' \o net')
            = MessageOf(s, Those(b, IsOther)) \o MessageOf(s, Rest(n))
      BY <1>1, <1>3, <1>4, PartsConcat
    <3>3. MessageOf(s, Those(b, IsOther)) = <<>>
      BY <1>4, PartsNone
    <3>4. <<>> \o (<<>> \o z) = z
      BY ConcatEmptySeq
    <3>5. QED BY <1>1, <2>1, <2>6, <3>1, <3>2, <3>3, <3>4
  <2>16. FiledOf(s)' \in Seq(Nat)
    <3>1. msg_map' \in Seq(Filed)
      <4>1. \A i \in 1 .. Len(map) : Unfile(map, i) \in Seq(Filed)
        BY <1>1, UnfileFacts
      <4>2. QED BY <1>1, <4>1 DEF Noticed, Ignored, Chatted
    <3>2. From(s, Content(msg_map')) \in Seq(Nat)
      BY <3>1, ContentType, FromType
    <3>3. QED BY <3>2 DEF FiledOf, From, Content
  <2>17. Left(s)' = FiledOf(s)' \o z
    <3>1. PICK g \in Seq(Nat) : g = FiledOf(s)'
      BY <2>16
    <3>2. Left(s)' = ((g \o <<>>) \o <<>>) \o z
      BY <2>2, <2>5, <2>15, <3>1 DEF Left
    <3>3. (g \o <<>>) \o <<>> = g
      BY ConcatEmptySeq
    <3>4. QED BY <3>1, <3>2, <3>3
  <2>18. From(s, Content(map)) \in Seq(Nat)
    BY <2>10, <2>11
  <2>19. QED BY <2>6, <2>14, <2>17, <2>18
<1>13. CASE msg_map' = map /\ shown' = shown
  <2>1. MapInv'
    BY <1>10, <1>13 DEF MapInv
  <2>2. ASSUME NEW s \in Sender PROVE Story(s)' = Story(s)
    <3>1. FiledOf(s)' = From(s, Content(map))
      BY <1>13 DEF FiledOf
    <3>2. Left(s)' = Left(s)
      BY <1>12, <3>1
    <3>3. QED BY <1>13, <3>2 DEF Story
  <2>3. QED BY <1>1, <1>2, <2>1, <2>2 DEF OrderInv, StoryInv
<1>14. ASSUME NEW i \in 1 .. Len(map), Chatted(map, i)
       PROVE  OrderInv'
  <2> DEFINE u == map[i].uin
  <2>1. /\ u = chat_uin /\ msg_map' = Unfile(map, i)
        /\ shown' = [shown EXCEPT ![chat_uin] = shown[chat_uin] \o
                        [j \in DOMAIN map[i].msgs |-> map[i].msgs[j].n]]
    BY <1>14 DEF Chatted
  <2>2. /\ From(u, Content(map)) = From(u, map[i].msgs)
        /\ From(u, map[i].msgs) = [j \in DOMAIN map[i].msgs |-> map[i].msgs[j].n]
    BY <1>1, <1>10, FiledOne
  <2> HIDE DEF u
  <2>3. /\ Good(msg_map')
        /\ \A s : From(s, Content(msg_map')) = IF s = u THEN <<>> ELSE From(s, Content(map))
    BY <1>1, <1>10, <2>1, UnfileFacts DEF u
  <2>4. MapInv'
    BY <2>3 DEF MapInv
  <2>5. ASSUME NEW s \in Sender PROVE Story(s)' = Story(s)
    <3>1. FiledOf(s)' = IF s = u THEN <<>> ELSE From(s, Content(map))
      BY <2>3 DEF FiledOf
    <3>2. PICK c \in Seq(Nat), z \in Seq(Nat) :
            c = From(s, Content(map)) /\ z = MessageOf(s, Rest(n))
      BY <1>12
    <3>3. PICK h \in Seq(Nat) : h = shown[s]
      BY StoryType
    <3>4. Left(s) = c \o z /\ Left(s)' = FiledOf(s)' \o z
      BY <1>12, <3>2
    <3>5. CASE s = u
      <4>1. shown'[s] = h \o c
        <5>1. shown'[s] = shown[s] \o [j \in DOMAIN map[i].msgs |-> map[i].msgs[j].n]
          BY <2>1, <3>5 DEF TypeOK
        <5>2. QED BY <2>2, <3>2, <3>3, <3>5, <5>1
      <4>2. FiledOf(s)' = <<>>
        BY <3>1, <3>5
      <4>3. <<>> \o z = z
        BY ConcatEmptySeq
      <4>4. Left(s)' = z
        BY <3>4, <4>2, <4>3
      <4>5. (h \o c) \o z = h \o (c \o z)
        BY ConcatNumbers
      <4>6. QED BY <3>3, <3>4, <4>1, <4>4, <4>5 DEF Story
    <3>6. CASE s # u
      <4>1. shown'[s] = shown[s]
        BY <2>1, <3>6 DEF TypeOK
      <4>2. FiledOf(s)' = c
        BY <3>1, <3>2, <3>6
      <4>3. QED BY <3>4, <4>1, <4>2 DEF Story
    <3>7. QED BY <3>5, <3>6
  <2>6. QED BY <1>1, <1>2, <2>4, <2>5 DEF OrderInv, StoryInv
<1>15. CASE Noticed(map) \/ Ignored(map)
  <2>1. msg_map' = map /\ shown' = shown
    BY <1>15 DEF Noticed, Ignored
  <2>2. QED BY <1>13, <2>1
<1>16. QED BY <1>1, <1>14, <1>15


\* What goes from the front of the one to the end of the other.
Regrouped(h, e, r, st, o, a) ==
    (h \o e) \o (((r \o st) \o o) \o a) = h \o ((((e \o r) \o st) \o o) \o a)

LEMMA Regroup ==
    ASSUME NEW h, NEW e, NEW r, NEW st, NEW o, NEW a
    PROVE  {h, e, r, st, o, a} \subseteq Seq(Nat) => Regrouped(h, e, r, st, o, a)
<1>1. SUFFICES ASSUME {h, e, r, st, o, a} \subseteq Seq(Nat)
               PROVE  Regrouped(h, e, r, st, o, a)
  OBVIOUS
<1>2. h \in Seq(Nat) /\ e \in Seq(Nat)
  BY <1>1
<1>3. e \in Seq(Nat) /\ r \in Seq(Nat) /\ st \in Seq(Nat)
  BY <1>1
<1>4. o \in Seq(Nat)
  BY <1>1
<1>5. a \in Seq(Nat)
  BY <1>1
<1>6. (e \o r) \o st = e \o (r \o st) /\ r \o st \in Seq(Nat)
  BY <1>3, ConcatNumbers, ConcatProperties
<1>7. PICK x : x \in Seq(Nat) /\ x = r \o st
  BY <1>6
<1>8. (e \o x) \o o = e \o (x \o o) /\ x \o o \in Seq(Nat)
  BY <1>2, <1>4, <1>7, ConcatNumbers, ConcatProperties
<1>9. PICK y : y \in Seq(Nat) /\ y = x \o o
  BY <1>8
<1>10. (e \o y) \o a = e \o (y \o a) /\ y \o a \in Seq(Nat)
  BY <1>2, <1>5, <1>9, ConcatNumbers, ConcatProperties
<1>11. PICK z : z \in Seq(Nat) /\ z = y \o a
  BY <1>10
<1>12. (h \o e) \o z = h \o (e \o z)
  BY <1>2, <1>11, ConcatNumbers
<1>13. QED BY <1>6, <1>7, <1>8, <1>9, <1>10, <1>11, <1>12 DEF Regrouped

LEMMA OrderShowMessage ==
    ASSUME TypeOK, OrderInv, NEW i \in DOMAIN msg_map, ui_show_message(i)
    PROVE  OrderInv'
<1> DEFINE m == Head(msg_map[i].msgs)
           rest == Tail(msg_map[i].msgs)
           u == msg_map[i].uin
<1>1. /\ i \in 1 .. Len(msg_map) /\ msg_map[i] \in Filed
      /\ m \in Message /\ rest \in Seq(Message) /\ msg_map[i].msgs = <<m>> \o rest
      /\ Seen(m) /\ msg_map' \in Seq(Filed)
      /\ \/ msg_map' = Unfile(msg_map, i) /\ rest = <<>>
         \/ Dropped(i)
      /\ Input
  BY ShowMessage
<1>2. UNCHANGED <<stored, recv_list, net, msg_list, sent, lost>>
  BY <1>1 DEF Input, servers, history
<1>3. Good(msg_map) /\ msg_map \in Seq(Filed)
  BY DEF OrderInv, MapInv, TypeOK
<1>4. shown' = [shown EXCEPT ![m.from] = Append(shown[m.from], m.n)]
  BY <1>1 DEF Seen
<1>5. /\ From(u, Content(msg_map)) = From(u, msg_map[i].msgs)
  BY <1>1, <1>3, FiledOne
<1> HIDE DEF m, rest
<1>6. <<m>> \in Seq(Message) /\ ToSet(<<m>>) = {m}
  BY <1>1, SingleSet
<1>7. ToSet(msg_map[i].msgs) = {m} \cup ToSet(rest)
  <2>1. ToSet(<<m>> \o rest) = ToSet(<<m>>) \cup ToSet(rest)
    <3>1. PICK x \in Seq(Message), y \in Seq(Message) : x = <<m>> /\ y = rest
      BY <1>1, <1>6
    <3>2. ToSet(x \o y) = ToSet(x) \cup ToSet(y)
      BY ConcatSet
    <3>3. QED BY <3>1, <3>2
  <2>2. QED BY <1>1, <1>6, <2>1
<1>8. m.from = u /\ \A x \in ToSet(rest) : x.from = u
  <2>1. \A x \in ToSet(msg_map[i].msgs) : x.from = u
    BY <1>1, <1>3 DEF Good
  <2>2. QED BY <1>7, <2>1
<1>9. u \in Sender /\ m.n \in Nat
  BY <1>1, <1>8 DEF Message
<1>10. From(u, Content(msg_map)) = <<m.n>> \o From(u, rest)
  <2>1. From(u, <<m>> \o rest) = From(u, <<m>>) \o From(u, rest)
    BY <1>1, <1>6, FromConcat
  <2>2. From(u, <<m>>) = <<m.n>>
    BY <1>1, <1>8, FromSmall
  <2>3. QED BY <1>1, <1>5, <2>1, <2>2
<1> HIDE DEF u
\* The map without the message.
<1>11. /\ Good(msg_map')
       /\ From(u, Content(msg_map')) = From(u, rest)
       /\ \A s : s # u => From(s, Content(msg_map')) = From(s, Content(msg_map))
  <2>1. CASE msg_map' = Unfile(msg_map, i) /\ rest = <<>>
    <3>1. /\ Good(msg_map')
          /\ \A s : From(s, Content(msg_map')) =
                        IF s = u THEN <<>> ELSE From(s, Content(msg_map))
      BY <1>1, <1>3, <2>1, UnfileFacts DEF u
    <3>2. From(u, rest) = <<>>
      <4>1. <<>> \in Seq(Message) /\ ToSet(<<>>) = {}
        BY EmptySeq, EmptySet
      <4>2. QED BY <2>1, <4>1, FromNone
    <3>3. QED BY <3>1, <3>2
  <2>2. CASE Dropped(i)
    <3>1. PICK new \in Seq(Filed) : new = msg_map'
      BY <1>1
    <3>2. PICK map \in Seq(Filed) : map = msg_map
      BY <1>3
    <3>3. /\ Len(new) = Len(map) /\ DOMAIN new = 1 .. Len(map) /\ DOMAIN map = 1 .. Len(map)
          /\ i \in 1 .. Len(map) /\ map[i].uin = u
          /\ \A j \in 1 .. Len(map) :
                /\ new[j].uin = map[j].uin
                /\ new[j].msgs = IF j = i THEN rest ELSE map[j].msgs
      BY <1>1, <2>2, <3>1, <3>2 DEF Dropped, rest, u
    <3>4. Good(map)
      BY <1>3, <3>2
    <3>5. Good(new)
      <4>1. ASSUME NEW j \in DOMAIN new, NEW x \in ToSet(new[j].msgs)
            PROVE  x.from = new[j].uin
        <5>1. CASE j = i
          BY <1>8, <3>3, <4>1, <5>1
        <5>2. CASE j # i
          <6>1. x \in ToSet(map[j].msgs) /\ j \in DOMAIN map
            BY <3>3, <4>1, <5>2
          <6>2. x.from = map[j].uin
            BY <3>4, <6>1 DEF Good
          <6>3. QED BY <3>3, <6>2
        <5>3. QED BY <5>1, <5>2
      <4>2. ASSUME NEW j \in DOMAIN new, NEW k \in DOMAIN new, new[j].uin = new[k].uin
            PROVE  j = k
        BY <3>3, <3>4, <4>2 DEF Good
      <4>3. QED BY <4>1, <4>2 DEF Good
    <3>6. From(u, Content(new)) = From(u, rest)
      <4>1. From(new[i].uin, Content(new)) = From(new[i].uin, new[i].msgs)
        BY <3>3, <3>5, FiledOne
      <4>2. QED BY <3>3, <4>1
    <3>7. ASSUME NEW s, s # u PROVE From(s, Content(new)) = From(s, Content(map))
      <4>1. CASE \A j \in 1 .. Len(map) : map[j].uin # s
        <5>1. \A j \in 1 .. Len(new) : new[j].uin # s
          BY <3>3, <4>1
        <5>2. From(s, Content(new)) = <<>> /\ From(s, Content(map)) = <<>>
          BY <3>4, <3>5, <4>1, <5>1, FiledNone
        <5>3. QED BY <5>2
      <4>2. CASE \E j \in 1 .. Len(map) : map[j].uin = s
        <5>1. PICK j \in 1 .. Len(map) : map[j].uin = s
          BY <4>2
        <5>2. j # i /\ j \in 1 .. Len(new) /\ new[j].uin = s /\ new[j].msgs = map[j].msgs
          BY <3>3, <3>7, <5>1
        <5>3. From(new[j].uin, Content(new)) = From(new[j].uin, new[j].msgs)
          BY <3>5, <5>2, FiledOne
        <5>4. From(map[j].uin, Content(map)) = From(map[j].uin, map[j].msgs)
          BY <3>4, <5>1, FiledOne
        <5>5. QED BY <5>1, <5>2, <5>3, <5>4
      <4>3. QED BY <4>1, <4>2
    <3>8. QED BY <3>1, <3>2, <3>5, <3>6, <3>7
  <2>3. QED BY <1>1, <2>1, <2>2
<1>12. MapInv'
  BY <1>11 DEF MapInv
<1>13. ASSUME NEW s \in Sender PROVE Story(s)' = Story(s)
  <2>1. RepliedOf(s)' = RepliedOf(s) /\ StoredOf(s)' = StoredOf(s) /\ AsideOf(s)' = AsideOf(s)
    BY <1>2 DEF RepliedOf, StoredOf, AsideOf
  <2>2. FiledOf(s)' = From(s, Content(msg_map')) /\ FiledOf(s) = From(s, Content(msg_map))
    BY DEF FiledOf, From, Content
  <2>3. CASE s # u
    <3>1. shown'[s] = shown[s]
      BY <1>4, <1>8, <2>3 DEF TypeOK
    <3>2. FiledOf(s)' = FiledOf(s)
      BY <1>11, <2>2, <2>3
    <3>3. QED BY <2>1, <3>1, <3>2 DEF Story, Left
  <2>4. CASE s = u
    <3>1. PICK h, st, o, a :
            /\ {h, st, o, a} \subseteq Seq(Nat)
            /\ h = shown[s] /\ st = StoredOf(s) /\ o = RepliedOf(s) /\ a = AsideOf(s)
      BY StoryType
    <3>2. PICK r : r \in Seq(Nat) /\ r = From(u, rest)
      BY <1>1, FromType
    <3>3. PICK e : e \in Seq(Nat) /\ e = <<m.n>>
      BY <1>9, SingleSet
    <3>4. FiledOf(s)' = r /\ FiledOf(s) = e \o r
      BY <1>10, <1>11, <2>2, <2>4, <3>2, <3>3
    <3>5. shown'[s] = h \o e
      <4>1. shown'[s] = Append(h, m.n)
        BY <1>4, <1>8, <2>4, <3>1 DEF TypeOK
      <4>2. Append(h, m.n) = h \o <<m.n>>
        <5>1. h \in Seq(Nat)
          BY <3>1
        <5>2. QED BY <1>9, <5>1, AppendIsConcat
      <4>3. QED BY <3>3, <4>1, <4>2
    <3>6. Story(s) = h \o ((((e \o r) \o st) \o o) \o a)
      BY <3>1, <3>4 DEF Story, Left
    <3>7. Story(s)' = (h \o e) \o (((r \o st) \o o) \o a)
      BY <2>1, <3>1, <3>4, <3>5 DEF Story, Left
    <3>8. {h, e, r, st, o, a} \subseteq Seq(Nat)
      BY <3>1, <3>2, <3>3
    <3>9. Regrouped(h, e, r, st, o, a)
      BY <3>8, Regroup
    <3>10. QED BY <3>6, <3>7, <3>9 DEF Regrouped
  <2>5. QED BY <2>3, <2>4
<1>14. QED BY <1>2, <1>12, <1>13 DEF OrderInv, StoryInv

LEMMA OrderStep ==
    ASSUME TypeOK, PhaseInv, LoginInv, OwnInv, BareInv, OrderInv, [Next]_vars
    PROVE  OrderInv'
<1>1. CASE UNCHANGED vars
  BY <1>1, OrderSame DEF vars, lists, screen, servers, history, told
<1>2. CASE request
  BY <1>2, OrderSame DEF request, lists, screen, history, told
<1>3. CASE Receive
  BY <1>3, OrderWaitForReply, OrderGetOffline, OrderSelectLoop DEF Receive
<1>4. CASE ui_command
  BY <1>4, OrderSame DEF ui_command, Input, screen, servers, history, told
<1>5. CASE \E i \in DOMAIN msg_map : ui_show_message(i)
  BY <1>5, OrderShowMessage
<1>6. CASE no_input \/ (\E s \in Sender : ui_chat(s)) \/ ui_back \/ ui_quit
  <2>1. UNCHANGED <<lists, shown, servers, history>>
    BY <1>6, OtherInput
  <2>2. QED BY <2>1, OrderSame DEF lists, servers, history, told
<1>7. QED BY <1>1, <1>2, <1>3, <1>4, <1>5, <1>6, OrderAnswer, OrderAccused, OrderSend DEF Next

\* Every message of a user is shown, filed or still to be read exactly once and in
\* the order in which he sent them, whatever requests come between (wait_for_reply,
\* get_offline_msg, read_online_message, ui_show_message), unless messages
\* were dropped after an SRV_ERROR, or offline messages were freed.
THEOREM OrderCorrect == Spec => []KeptInOrder
<1>1. Init => CoreInv /\ OrderInv
  BY TypeInit, PhaseInit, LoginInit, OwnInit, BareInit, OrderInit DEF CoreInv, TypeInv
<1>2. (CoreInv /\ OrderInv) /\ [Next]_vars => (CoreInv /\ OrderInv)'
  BY TypeStep, PhaseStep, LoginStep, OwnStep, BareStep, OrderStep DEF CoreInv, TypeInv
<1>3. CoreInv /\ OrderInv => KeptInOrder
  BY StoryKept DEF CoreInv, TypeInv, OrderInv
<1>4. QED BY <1>1, <1>2, <1>3, PTL DEF Spec

=============================================================================
