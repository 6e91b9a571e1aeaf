---------------------------- MODULE SequenceLemmas ----------------------------
(***************************************************************************)
(* What pushing, replacing, popping and reversing do to a sequence, in the *)
(* form in which the proofs about the interpreter's stacks need it.        *)
(***************************************************************************)
EXTENDS Integers, Sequences, SequencesExt, SequenceTheorems, NaturalsInduction,
        WellFoundedInduction, TLAPS

\* The last element of a nonempty stack.
LEMMA LastOfSeq ==
    ASSUME NEW S, NEW s \in Seq(S), s # <<>>
    PROVE  /\ Len(s) \in Nat /\ Len(s) >= 1 /\ Len(s) \in 1 .. Len(s)
           /\ Last(s) = s[Len(s)] /\ s[Len(s)] \in S /\ s[1] \in S
BY EmptySeq, LenProperties DEF Last

\* All but the last.
LEMMA FrontOfSeq ==
    ASSUME NEW S, NEW s \in Seq(S), s # <<>>
    PROVE  /\ Front(s) \in Seq(S)
           /\ Len(Front(s)) = Len(s) - 1
           /\ \A i \in 1 .. Len(s) - 1 : Front(s)[i] = s[i]
           /\ Front(s) = <<>> <=> Len(s) = 1
<1>1. Len(s) \in Nat /\ Len(s) >= 1
  BY LastOfSeq
<1> DEFINE m == Len(s) - 1
<1>2. m \in Nat /\ \A i \in 1 .. m : s[i] \in S
  BY <1>1, ElementOfSeq
<1>3. /\ SubSeq(s, 1, m) \in Seq(S)
      /\ Len(SubSeq(s, 1, m)) = m
      /\ \A i \in 1 .. m : SubSeq(s, 1, m)[i] = s[i]
  <2> HIDE DEF m
  <2>1. m \in Int /\ 1 \in Int
    BY <1>2
  <2>2. /\ SubSeq(s, 1, m) \in Seq(S)
        /\ Len(SubSeq(s, 1, m)) = IF 1 <= m THEN m - 1 + 1 ELSE 0
        /\ \A i \in 1 .. m - 1 + 1 : SubSeq(s, 1, m)[i] = s[1 + i - 1]
    BY <1>2, <2>1, SubSeqProperties
  <2> QED BY <1>2, <2>2
<1>4. Front(s) = SubSeq(s, 1, m)
  BY DEF Front
<1> HIDE DEF m
<1>5. Front(s) \in Seq(S) /\ Len(Front(s)) = m /\ \A i \in 1 .. m : Front(s)[i] = s[i]
  BY <1>3, <1>4
<1>6. Front(s) = <<>> <=> m = 0
  BY <1>5, EmptySeq
<1> QED BY <1>1, <1>5, <1>6 DEF m

\* One more.
LEMMA AppendToSeq ==
    ASSUME NEW S, NEW s \in Seq(S), NEW e \in S
    PROVE  /\ Append(s, e) \in Seq(S)
           /\ Len(Append(s, e)) = Len(s) + 1
           /\ Append(s, e) # <<>>
           /\ \A i \in 1 .. Len(s) : Append(s, e)[i] = s[i]
           /\ Append(s, e)[Len(s) + 1] = e
           /\ Front(Append(s, e)) = s
           /\ Last(Append(s, e)) = e
<1>1. /\ Append(s, e) \in Seq(S)
      /\ Len(Append(s, e)) = Len(s) + 1
      /\ Append(s, e) # <<>>
      /\ \A i \in 1 .. Len(s) : Append(s, e)[i] = s[i]
      /\ Append(s, e)[Len(s) + 1] = e
  OBVIOUS
<1>2. Last(Append(s, e)) = e
  BY <1>1 DEF Last
<1>3. Front(Append(s, e)) = s
  <2> DEFINE t == Append(s, e)
  <2>1. Len(s) \in Nat
    OBVIOUS
  <2>2. /\ Front(t) \in Seq(S) /\ Len(Front(t)) = Len(s)
        /\ \A i \in 1 .. Len(s) : Front(t)[i] = s[i]
    <3>1. t \in Seq(S) /\ t # <<>> /\ Len(t) - 1 = Len(s)
          /\ \A i \in 1 .. Len(s) : t[i] = s[i]
      BY <1>1, <2>1
    <3> HIDE DEF t
    <3>2. /\ Front(t) \in Seq(S) /\ Len(Front(t)) = Len(t) - 1
          /\ \A i \in 1 .. Len(t) - 1 : Front(t)[i] = t[i]
      BY <3>1, FrontOfSeq
    <3> QED BY <3>1, <3>2
  <2> HIDE DEF t
  <2>3. Front(t) = s
    BY <2>2, SeqEqual
  <2> QED BY <2>3 DEF t
<1> QED BY <1>1, <1>2, <1>3

\* In the other order.
LEMMA ReverseOfSeq ==
    ASSUME NEW S, NEW s \in Seq(S)
    PROVE  /\ Reverse(s) \in Seq(S)
           /\ Len(Reverse(s)) = Len(s)
           /\ \A i \in 1 .. Len(s) : Reverse(s)[i] = s[Len(s) - i + 1]
<1>1. Len(s) \in Nat
  OBVIOUS
<1>2. \A i \in 1 .. Len(s) : Len(s) - i + 1 \in 1 .. Len(s) /\ s[Len(s) - i + 1] \in S
  <2> TAKE i \in 1 .. Len(s)
  <2>1. Len(s) - i + 1 \in 1 .. Len(s)
    BY <1>1
  <2> QED BY <2>1, ElementOfSeq
<1> DEFINE n == Len(s)
           r == [i \in 1 .. n |-> s[n - i + 1]]
<1>3. Reverse(s) = r
  BY DEF Reverse
<1>4. r \in Seq(S) /\ Len(r) = n
  <2>1. \A i \in 1 .. n : s[n - i + 1] \in S
    BY <1>2
  <2>2. n \in Nat
    BY <1>1
  <2> HIDE DEF n
  <2>3. r \in [1 .. n -> S]
    BY <2>1
  <2> HIDE DEF r
  <2>4. r \in Seq(S) /\ DOMAIN r = 1 .. n
    BY <2>2, <2>3
  <2>5. Len(r) \in Nat /\ DOMAIN r = 1 .. Len(r)
    BY <2>4
  <2> QED BY <2>2, <2>4, <2>5
<1> QED BY <1>1, <1>3, <1>4

\* A slice.
LEMMA SliceOfSeq ==
    ASSUME NEW S, NEW s \in Seq(S), NEW m \in Nat, NEW n \in Nat, m <= n, n <= Len(s)
    PROVE  /\ SubSeq(s, m + 1, n) \in Seq(S) /\ Len(SubSeq(s, m + 1, n)) = n - m
           /\ \A i \in 1 .. n - m : SubSeq(s, m + 1, n)[i] = s[m + i]
<1> DEFINE t == SubSeq(s, m + 1, n)
<1>1. \A i \in m + 1 .. n : s[i] \in S
  BY ElementOfSeq
<1>2. /\ t \in Seq(S) /\ Len(t) = IF m + 1 <= n THEN n - (m + 1) + 1 ELSE 0
      /\ \A i \in 1 .. n - (m + 1) + 1 : t[i] = s[(m + 1) + i - 1]
  BY <1>1, SubSeqProperties
<1> HIDE DEF t
<1>3. Len(t) = n - m
  BY <1>2
<1>4. ASSUME NEW i \in 1 .. n - m PROVE t[i] = s[m + i]
  <2>1. i \in 1 .. n - (m + 1) + 1 /\ (m + 1) + i - 1 = m + i
    OBVIOUS
  <2> QED BY <1>2, <2>1
<1> QED BY <1>2, <1>3, <1>4 DEF t

\* The first elements.
LEMMA FirstOfSeq ==
    ASSUME NEW S, NEW s \in Seq(S), NEW m \in Nat, m <= Len(s)
    PROVE  /\ SubSeq(s, 1, m) \in Seq(S) /\ Len(SubSeq(s, 1, m)) = m
           /\ \A i \in 1 .. m : SubSeq(s, 1, m)[i] = s[i]
<1> DEFINE t == SubSeq(s, 1, m)
<1>1. \A i \in 1 .. m : s[i] \in S
  BY ElementOfSeq
<1>2. /\ t \in Seq(S) /\ Len(t) = IF 1 <= m THEN m - 1 + 1 ELSE 0
      /\ \A i \in 1 .. m - 1 + 1 : t[i] = s[1 + i - 1]
  BY <1>1, SubSeqProperties
<1> HIDE DEF t
<1>3. Len(t) = m /\ \A i \in 1 .. m : t[i] = s[i]
  BY <1>2
<1> QED BY <1>2, <1>3 DEF t

\* The rest.
LEMMA RestOfSeq ==
    ASSUME NEW S, NEW s \in Seq(S), NEW m \in Nat, m <= Len(s)
    PROVE  /\ SubSeq(s, m + 1, Len(s)) \in Seq(S)
           /\ Len(SubSeq(s, m + 1, Len(s))) = Len(s) - m
           /\ \A i \in 1 .. Len(s) - m : SubSeq(s, m + 1, Len(s))[i] = s[m + i]
<1> DEFINE n == Len(s)
<1>1. n \in Nat /\ m <= n /\ n <= Len(s)
  BY LenProperties
<1> HIDE DEF n
<1>2. /\ SubSeq(s, m + 1, n) \in Seq(S) /\ Len(SubSeq(s, m + 1, n)) = n - m
      /\ \A i \in 1 .. n - m : SubSeq(s, m + 1, n)[i] = s[m + i]
  BY <1>1, SliceOfSeq
<1> QED BY <1>2 DEF n

\* The same element throughout.
LEMMA SameThroughout ==
    ASSUME NEW S, NEW v \in S, NEW n \in Nat
    PROVE  /\ [i \in 1 .. n |-> v] \in Seq(S) /\ Len([i \in 1 .. n |-> v]) = n
<1> DEFINE t == [i \in 1 .. n |-> v]
<1>1. t \in [1 .. n -> S] /\ DOMAIN t = 1 .. n
  OBVIOUS
<1> HIDE DEF t
<1>2. t \in Seq(S)
  BY <1>1
<1>3. Len(t) \in Nat /\ DOMAIN t = 1 .. Len(t)
  BY <1>2
<1>4. Len(t) = n
  BY <1>1, <1>3
<1> QED BY <1>2, <1>4 DEF t

\* A nonempty set of indices has a largest element and a smallest.
LEMMA Extremes ==
    ASSUME NEW N \in Nat, NEW T, T \subseteq 1..N, T # {}
    PROVE  /\ \E i \in T : \A j \in T : j <= i
           /\ \E i \in T : \A j \in T : i <= j
<1> DEFINE R == OpToRel(<, Nat)
<1>1. IsWellFoundedOn(R, Nat)
  BY NatLessThanWellFounded
<1>2. \A i, j \in Nat : <<i, j>> \in R <=> i < j
  BY DEF OpToRel
<1> HIDE DEF R
<1>0. \A i \in T : i \in Nat /\ i <= N
  OBVIOUS
<1>3. \E i \in T : \A j \in T : i <= j
  <2>1. T \subseteq Nat
    BY <1>0
  <2>2. PICK i \in T : \A j \in T : ~ (<<j, i>> \in R)
    BY <1>1, <2>1, WFMin
  <2>3. ASSUME NEW j \in T PROVE i <= j
    <3>1. i \in Nat /\ j \in Nat
      BY <1>0
    <3>2. ~ (j < i)
      BY <1>2, <2>2, <3>1
    <3> QED BY <3>1, <3>2
  <2> QED BY <2>3
<1>4. \E i \in T : \A j \in T : j <= i
  <2> DEFINE D == {N - i : i \in T}
  <2>1. ASSUME NEW i \in T PROVE N - i \in Nat
    BY <1>0
  <2>2. D \subseteq Nat /\ D # {}
    BY <2>1
  <2>3. PICK d \in D : \A e \in D : ~ (<<e, d>> \in R)
    <3> HIDE DEF D
    <3> QED BY <1>1, <2>2, WFMin
  <2>4. PICK i \in T : d = N - i
    OBVIOUS
  <2>5. ASSUME NEW j \in T PROVE j <= i
    <3>1. N - j \in D /\ N - j \in Nat /\ d \in Nat
      BY <2>1, <2>4
    <3>2. ~ (N - j < d)
      BY <1>2, <2>3, <3>1
    <3>3. i \in Nat /\ j \in Nat
      BY <1>0
    <3> QED BY <2>4, <3>2, <3>3
  <2> QED BY <2>5
<1> QED BY <1>3, <1>4

\* Induction up to n, for the members of a set.
LEMMA CountUp ==
    ASSUME NEW n \in Nat, NEW T, 0 \in T, \A i \in 1 .. n : i - 1 \in T => i \in T
    PROVE  \A i \in 0 .. n : i \in T
<1> DEFINE B == {i \in 1 .. n : i \notin T}
<1>1. SUFFICES ASSUME B # {} PROVE FALSE
  <2>1. \A i \in 0 .. n : i = 0 \/ i \in 1 .. n
    OBVIOUS
  <2> QED BY <2>1
<1>2. PICK i \in B : \A j \in B : i <= j
  <2>1. B \subseteq 1 .. n
    OBVIOUS
  <2> HIDE DEF B
  <2> QED BY <1>1, <2>1, Extremes
<1>3. i \in 1 .. n /\ i \notin T
  OBVIOUS
<1>4. i - 1 \notin B
  <2>1. i \in Nat /\ ~ (i <= i - 1)
    BY <1>3
  <2> HIDE DEF B
  <2> QED BY <1>2, <2>1
<1>5. i - 1 = 0 \/ i - 1 \in 1 .. n
  BY <1>3
<1>6. i - 1 \in T
  BY <1>4, <1>5
<1> QED BY <1>3, <1>6

\* What n steps within X lead through; each step depends on its number.
Steps(F, n, X) == F \in [1 .. n -> [X -> X]]
Path(r, F, n, x, X) ==
    r \in [0 .. n -> X] /\ r[0] = x /\ \A i \in 1 .. n : r[i] = F[i][r[i - 1]]
LEMMA Unrolled ==
    ASSUME NEW n \in Nat, NEW X, NEW x \in X, NEW F, Steps(F, n, X)
    PROVE  \E r : Path(r, F, n, x, X)
<1>0. F \in [1 .. n -> [X -> X]]
  BY DEF Steps
<1> DEFINE Goes(m, r) == r[0] = x /\ \A i \in 1 .. m : r[i] = F[i][r[i - 1]]
           T == {m \in 0 .. n : \E r \in [0 .. m -> X] : Goes(m, r)}
<1>1. 0 \in T
  <2> DEFINE r == [i \in 0 .. 0 |-> x]
  <2>1. r \in [0 .. 0 -> X] /\ r[0] = x /\ 1 .. 0 = {}
    OBVIOUS
  <2> HIDE DEF r
  <2>2. Goes(0, r)
    BY <2>1
  <2>3. \E t \in [0 .. 0 -> X] : Goes(0, t)
    BY <2>1, <2>2
  <2> QED BY <2>3
<1>2. ASSUME NEW m \in 1 .. n, m - 1 \in T PROVE m \in T
  <2>1. PICK r \in [0 .. m - 1 -> X] : Goes(m - 1, r)
    BY <1>2
  <2>2. m \in Nat /\ m - 1 \in 0 .. m - 1 /\ m \in 0 .. n
    OBVIOUS
  <2> DEFINE s == [i \in 0 .. m |-> IF i = m THEN F[m][r[m - 1]] ELSE r[i]]
  <2>3. r[m - 1] \in X /\ F[m][r[m - 1]] \in X
    BY <1>0, <2>1, <2>2
  <2>4. \A i \in 0 .. m : i # m => i \in 0 .. m - 1
    OBVIOUS
  <2>5. s \in [0 .. m -> X]
    BY <2>1, <2>3, <2>4
  <2>6. s[m] = F[m][r[m - 1]] /\ \A i \in 0 .. m - 1 : s[i] = r[i]
    <3>1. \A i \in 0 .. m - 1 : i \in 0 .. m /\ i # m
      OBVIOUS
    <3>2. m \in 0 .. m
      OBVIOUS
    <3> QED BY <3>1, <3>2
  <2> HIDE DEF s
  <2>7. s[0] = x
    BY <2>1, <2>6, <2>2
  <2>8. ASSUME NEW i \in 1 .. m PROVE s[i] = F[i][s[i - 1]]
    <3>1. i - 1 \in 0 .. m - 1 /\ s[i - 1] = r[i - 1]
      BY <2>6
    <3>2. CASE i = m
      BY <2>6, <3>1, <3>2
    <3>3. CASE i # m
      <4>1. i \in 1 .. m - 1 /\ i \in 0 .. m - 1
        BY <3>3
      <4> QED BY <2>1, <2>6, <3>1, <4>1
    <3> QED BY <3>2, <3>3
  <2> QED BY <2>2, <2>5, <2>7, <2>8
<1>3. n \in T
  <2> HIDE DEF T
  <2>1. n \in 0 .. n
    OBVIOUS
  <2> QED BY <1>1, <1>2, <2>1, CountUp
<1> QED BY <1>3 DEF Path
===============================================================================
