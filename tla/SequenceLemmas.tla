--------------------------- MODULE SequenceLemmas ---------------------------
(***************************************************************************)
(* What the proofs of several modules need of sequences, of induction and  *)
(* of functions that are defined by recursion.  Induction is stated for a  *)
(* set of numbers, because the provers do not instantiate an operator.     *)
(***************************************************************************)
EXTENDS Integers, SequencesExt, FiniteSets, TLAPS, FiniteSetTheorems, SequenceTheorems

LEMMA FrontFacts ==
    ASSUME NEW S, NEW s \in Seq(S), s # <<>>
    PROVE  /\ Front(s) \in Seq(S) /\ Len(s) \in Nat \ {0} /\ Len(Front(s)) = Len(s) - 1
           /\ \A i \in 1..Len(s) - 1 : Front(s)[i] = s[i]
           /\ Last(s) = s[Len(s)] /\ Last(s) \in S
<1>1. Len(s) \in Nat \ {0} /\ \A i \in 1..Len(s) : s[i] \in S
  BY EmptySeq
<1>2. /\ SubSeq(s, 1, Len(s) - 1) \in Seq(S) /\ Len(SubSeq(s, 1, Len(s) - 1)) = Len(s) - 1
      /\ \A i \in 1..Len(s) - 1 : SubSeq(s, 1, Len(s) - 1)[i] = s[i]
  <2>1. PICK k : k = Len(s) - 1
    OBVIOUS
  <2>2. k \in Int /\ k >= 0 /\ \A i \in 1..k : s[i] \in S
    BY <1>1, <2>1
  <2>3. /\ SubSeq(s, 1, k) \in Seq(S) /\ Len(SubSeq(s, 1, k)) = IF 1 <= k THEN k - 1 + 1 ELSE 0
        /\ \A i \in 1..k - 1 + 1 : SubSeq(s, 1, k)[i] = s[1 + i - 1]
    BY <2>2, SubSeqProperties
  <2>4. Len(SubSeq(s, 1, k)) = k
    BY <2>2, <2>3
  <2>5. ASSUME NEW i \in 1..k PROVE SubSeq(s, 1, k)[i] = s[i]
    <3>1. i \in 1..k - 1 + 1 /\ 1 + i - 1 = i
      BY <2>2
    <3>2. SubSeq(s, 1, k)[i] = s[1 + i - 1]
      BY <2>3, <3>1
    <3>. QED
      BY <3>1, <3>2
  <2>. QED
    BY <2>1, <2>3, <2>4, <2>5
<1>. QED
  BY <1>1, <1>2 DEF Front, Last

LEMMA TailFacts ==
    ASSUME NEW S, NEW s \in Seq(S), s # <<>>
    PROVE  /\ Tail(s) \in Seq(S) /\ Len(s) \in Nat \ {0} /\ Len(Tail(s)) = Len(s) - 1
           /\ \A i \in 1..Len(s) - 1 : Tail(s)[i] = s[i + 1]
           /\ Head(s) = s[1] /\ Head(s) \in S
<1>1. Len(s) \in Nat \ {0} /\ \A i \in 1..Len(s) : s[i] \in S
  BY EmptySeq
<1>2. /\ Tail(s) \in Seq(S) /\ Len(Tail(s)) = Len(s) - 1
      /\ \A i \in 1..Len(s) - 1 : Tail(s)[i] = s[i + 1]
  BY <1>1
<1>. QED
  BY <1>1, <1>2

LEMMA JoinFacts ==
    ASSUME NEW S, NEW s \in Seq(S), NEW t \in Seq(S)
    PROVE  /\ s \o t \in Seq(S) /\ Len(s \o t) = Len(s) + Len(t)
           /\ \A i \in 1..Len(s) : (s \o t)[i] = s[i]
           /\ \A i \in 1..Len(t) : (s \o t)[Len(s) + i] = t[i]
<1>1. /\ s \o t \in Seq(S) /\ Len(s \o t) = Len(s) + Len(t)
      /\ \A i \in 1..Len(s) + Len(t) : (s \o t)[i] = IF i <= Len(s) THEN s[i] ELSE t[i - Len(s)]
  BY ConcatProperties
<1>2. Len(s) \in Nat /\ Len(t) \in Nat
  OBVIOUS
<1>. QED
  BY <1>1, <1>2

LEMMA LeastNatural ==
    ASSUME NEW S \in SUBSET Nat, S # {}
    PROVE  \E m \in S : \A n \in S : m <= n
<1>1. PICK R : R = {ss \in Nat \X Nat : ss[1] < ss[2]}
  OBVIOUS
<1>2. IsWellFoundedOn(R, Nat)
  BY <1>1, NatLessThanWellFounded DEF OpToRel
<1>3. PICK x \in S : \A y \in S : ~ (<<y, x>> \in R)
  BY <1>2, WFMin
<1>4. ASSUME NEW y \in S PROVE x <= y
  <2>1. x \in Nat /\ y \in Nat /\ <<y, x>> \in Nat \X Nat /\ ~(<<y, x>> \in R)
    BY <1>3
  <2>2. ~(<<y, x>>[1] < <<y, x>>[2])
    BY <1>1, <2>1
  <2>. QED
    BY <2>1, <2>2
<1>. QED
  BY <1>4

(* As many nodes as places, when no node has two. *)
LEMMA RangeCount ==
    ASSUME NEW S, NEW s \in Seq(S), \A i, j \in 1..Len(s) : s[i] = s[j] => i = j
    PROVE  LET R == {s[i] : i \in 1..Len(s)} IN IsFiniteSet(R) /\ Cardinality(R) = Len(s)
<1>. DEFINE R == {s[i] : i \in 1..Len(s)}
<1>1. Len(s) \in Nat /\ DOMAIN s = 1..Len(s)
  OBVIOUS
<1>2. PICK f : f = [i \in 1..Len(s) |-> s[i]]
  OBVIOUS
<1>3. f \in Bijection(1..Len(s), R)
  BY <1>2 DEF Bijection, Injection, Surjection, IsInjective
<1>4. ExistsBijection(1..Len(s), R)
  BY <1>3 DEF ExistsBijection
<1>5. Cardinality(R) = Len(s) /\ IsFiniteSet(R)
  BY <1>1, <1>4, FS_CountingElements, FS_NatBijection
<1>. QED
  BY <1>5

LEMMA Induction ==
    ASSUME NEW n \in Nat, NEW S, 0 \in S, \A i \in 1..n : i - 1 \in S => i \in S
    PROVE  0..n \subseteq S
<1>. SUFFICES ASSUME \E i \in 0..n : i \notin S PROVE FALSE
  OBVIOUS
<1>1. PICK R : R = {i \in 0..n : i \notin S}
  OBVIOUS
<1>2. PICK m \in R : \A i \in R : m <= i
  <2>1. R # {} /\ R \in SUBSET Nat
    BY <1>1
  <2>. QED
    BY <2>1, LeastNatural
<1>3. m \in 1..n /\ m - 1 \in 0..n /\ m \notin S /\ ~(m <= m - 1)
  BY <1>1, <1>2
<1>4. m - 1 \notin R
  BY <1>2, <1>3
<1>. QED
  BY <1>1, <1>3, <1>4

LEMMA SequenceInduction ==
    ASSUME NEW C, NEW S, <<>> \in S,
           \A t \in Seq(C), c \in C : t \in S => Append(t, c) \in S
    PROVE  Seq(C) \subseteq S
<1>. SUFFICES ASSUME NEW t \in Seq(C) PROVE t \in S
  OBVIOUS
<1>. DEFINE n == Len(t)
            R == {i \in 0..n : SubSeq(t, 1, i) \in S}
<1>1. n \in Nat
  OBVIOUS
<1>2. 0 \in R
  <2>1. SubSeq(t, 1, 0) = <<>>
    BY SubSeqEmpty
  <2>2. 0 \in 0..n
    BY <1>1
  <2>. QED
    BY <2>1, <2>2
<1>3. ASSUME NEW i \in 1..n, i - 1 \in R PROVE i \in R
  <2>1. PICK s : s = SubSeq(t, 1, i - 1)
    OBVIOUS
  <2>2. s \in Seq(C) /\ s \in S /\ t[i] \in C
    BY <1>1, <1>3, <2>1
  <2>3. SubSeq(t, 1, i) = Append(s, t[i])
    BY <1>1, <2>1
  <2>4. Append(s, t[i]) \in S
    BY <2>2
  <2>5. i \in 0..n
    BY <1>1
  <2>. QED
    BY <2>3, <2>4, <2>5
<1>. HIDE DEF R
<1>4. 0..n \subseteq R
  BY <1>1, <1>2, <1>3, Induction
<1>5. SubSeq(t, 1, n) \in S
  BY <1>1, <1>4 DEF R
<1>6. SubSeq(t, 1, n) = t
  BY SubSeqFull
<1>. QED
  BY <1>5, <1>6

(* A function that is given at 0, and at i by its value at i - 1. *)
Follows(f, n, v, step) == f[0] = v /\ \A i \in 1..n : f[i] = step[<<i, f[i - 1]>>]

Steps(n, V, step) == \A i \in 1..n, x \in V : step[<<i, x>>] \in V

LEMMA RecursionExists ==
    ASSUME NEW n \in Nat, NEW V, NEW v \in V, NEW step, Steps(n, V, step)
    PROVE  \E f \in [0..n -> V] : Follows(f, n, v, step)
<1>. DEFINE Upto(m) == {f \in [0..m -> V] : Follows(f, m, v, step)}
            S == {m \in 0..n : Upto(m) # {}}
<1>1. 0 \in S
  <2>1. PICK f : f = [i \in 0..0 |-> v]
    OBVIOUS
  <2>2. f \in Upto(0)
    BY <2>1 DEF Follows
  <2>. QED
    BY <2>2
<1>2. ASSUME NEW m \in 1..n, m - 1 \in S PROVE m \in S
  <2>1. PICK f : f \in Upto(m - 1)
    BY <1>2
  <2>2. /\ f \in [0..m - 1 -> V] /\ f[0] = v
        /\ \A i \in 1..m - 1 : f[i] = step[<<i, f[i - 1]>>]
    BY <2>1 DEF Follows
  <2>3. PICK g : g = [i \in 0..m |-> IF i = m THEN step[<<m, f[m - 1]>>] ELSE f[i]]
    OBVIOUS
  <2>4. f[m - 1] \in V /\ step[<<m, f[m - 1]>>] \in V
    BY <2>2 DEF Steps
  <2>5. g \in [0..m -> V] /\ g[0] = v
    <3>1. ASSUME NEW i \in 0..m PROVE (IF i = m THEN step[<<m, f[m - 1]>>] ELSE f[i]) \in V
      BY <2>2, <2>4
    <3>2. g \in [0..m -> V]
      BY <2>3, <3>1
    <3>3. 0 \in 0..m /\ 0 # m
      OBVIOUS
    <3>. QED
      BY <2>2, <2>3, <3>2, <3>3
  <2>6. ASSUME NEW i \in 1..m PROVE g[i] = step[<<i, g[i - 1]>>]
    <3>1. g[i - 1] = f[i - 1] /\ i - 1 \in 0..m - 1
      BY <2>3
    <3>2. CASE i = m
      <4>1. g[i] = step[<<m, f[m - 1]>>] /\ <<i, g[i - 1]>> = <<m, f[m - 1]>>
        BY <2>3, <3>1, <3>2
      <4>. QED
        BY <4>1
    <3>3. CASE i # m
      <4>1. i \in 1..m - 1 /\ g[i] = f[i]
        BY <2>3, <3>3
      <4>. QED
        BY <2>2, <3>1, <4>1
    <3>. QED
      BY <3>2, <3>3
  <2>7. g \in Upto(m)
    BY <2>5, <2>6 DEF Follows
  <2>. QED
    BY <2>7
<1>3. n \in 0..n
  OBVIOUS
<1>. HIDE DEF S
<1>4. 0..n \subseteq S
  BY <1>1, <1>2, Induction
<1>5. n \in S
  BY <1>3, <1>4
<1>. QED
  BY <1>5 DEF S, Follows

(* From the end of a text to its beginning. *)
LEMMA BackwardInduction ==
    ASSUME NEW n \in Nat, NEW S,
           \A i \in Nat : (i > n \/ \A j \in Nat : j > i => j \in S) => i \in S
    PROVE  Nat \subseteq S
<1>. SUFFICES ASSUME NEW i \in Nat, i \notin S PROVE FALSE
  OBVIOUS
<1>1. PICK R : R = {k \in 0..n : n - k \notin S}
  OBVIOUS
<1>2. PICK k \in R : \A m \in R : k <= m
  <2>1. n - i \in 0..n /\ n - (n - i) = i
    OBVIOUS
  <2>2. n - i \in R /\ R \in SUBSET Nat
    BY <1>1, <2>1
  <2>. QED
    BY <2>2, LeastNatural
<1>3. k \in 0..n /\ n - k \in Nat /\ n - k \notin S
  BY <1>1, <1>2
<1>4. ASSUME NEW j \in Nat, j > n - k PROVE j \in S
  <2>1. CASE j > n
    BY <2>1
  <2>2. CASE j <= n
    <3>1. n - j \in 0..n /\ n - (n - j) = j /\ ~(k <= n - j)
      BY <1>3, <1>4, <2>2
    <3>2. n - j \notin R
      BY <1>2, <3>1
    <3>. QED
      BY <1>1, <3>1, <3>2
  <2>. QED
    BY <2>1, <2>2
<1>. QED
  BY <1>3, <1>4

(* A function that is given behind n, and at i by its values behind i. *)
LooksAhead(F, n, V) ==
    \A i \in Nat, f \in [Nat -> V] :
        /\ F[<<i, f>>] \in V
        /\ \A g \in [Nat -> V] :
                (i > n \/ \A j \in Nat : j > i => f[j] = g[j]) => F[<<i, f>>] = F[<<i, g>>]

LEMMA BackwardRecursionExists ==
    ASSUME NEW n \in Nat, NEW V, NEW v \in V, NEW F, LooksAhead(F, n, V)
    PROVE  \E f \in [Nat -> V] : \A i \in Nat : f[i] = F[<<i, f>>]
<1>. DEFINE W == [Nat -> V]
            Right(f, m) == \A i \in Nat : i > m => f[i] = F[<<i, f>>]
            S == {k \in 0..n + 1 : \E f \in W : Right(f, n - k)}
<1>1. 0 \in S
  <2>1. PICK f : f = [i \in Nat |-> v]
    OBVIOUS
  <2>2. PICK g : g = [i \in Nat |-> F[<<i, f>>]]
    OBVIOUS
  <2>3. f \in W
    BY <2>1
  <2>4. ASSUME NEW i \in Nat PROVE F[<<i, f>>] \in V
    BY <2>3, <2>4 DEF LooksAhead
  <2>5. g \in W
    BY <2>2, <2>4
  <2>6. ASSUME NEW i \in Nat, i > n PROVE g[i] = F[<<i, g>>]
    BY <2>2, <2>3, <2>5, <2>6 DEF LooksAhead
  <2>7. n - 0 = n /\ 0 \in 0..n + 1
    OBVIOUS
  <2>. QED
    BY <2>5, <2>6, <2>7
<1>2. ASSUME NEW k \in 1..n + 1, k - 1 \in S PROVE k \in S
  <2>1. PICK f \in W : Right(f, n - (k - 1))
    BY <1>2
  <2>2. PICK g : g = [i \in Nat |-> F[<<i, f>>]]
    OBVIOUS
  <2>3. ASSUME NEW i \in Nat PROVE F[<<i, f>>] \in V
    BY <2>1, <2>3 DEF LooksAhead
  <2>4. g \in W
    BY <2>2, <2>3
  <2>5. ASSUME NEW i \in Nat, i > n - k PROVE g[i] = F[<<i, g>>]
    <3>1. ASSUME NEW j \in Nat, j > i PROVE f[j] = g[j]
      <4>1. j > n - (k - 1)
        BY <2>5, <3>1
      <4>. QED
        BY <2>1, <2>2, <4>1
    <3>2. F[<<i, f>>] = F[<<i, g>>]
      BY <2>1, <2>4, <3>1 DEF LooksAhead
    <3>. QED
      BY <2>2, <3>2
  <2>6. Right(g, n - k) /\ k \in 0..n + 1
    BY <2>5
  <2>. QED
    BY <2>4, <2>6
<1>. HIDE DEF S
<1>3. 0..n + 1 \subseteq S
  BY <1>1, <1>2, Induction
<1>4. n + 1 \in 0..n + 1
  OBVIOUS
<1>5. PICK f \in W : Right(f, n - (n + 1))
  BY <1>3, <1>4 DEF S
<1>6. ASSUME NEW i \in Nat PROVE i > n - (n + 1)
  BY <1>6
<1>. QED
  BY <1>5, <1>6
=============================================================================
