---------------------------- MODULE SqlTextProofs ----------------------------
(***************************************************************************)
(* The language server's copy of a text of any length, after any messages  *)
(* of its editor, and the tokens of a text of any length.                  *)
(***************************************************************************)
EXTENDS SqlText, SequenceLemmas

-----------------------------------------------------------------------------
(* Lines, character by character.                                          *)

SomeLines(C) == {lines \in Seq(Seq(C)) : Len(lines) > 0}

LinesAndOneMore(n, lines, c, new) ==
    /\ \A k \in 1..n - 1 : new[k] = lines[k]
    /\ c = "\n" => Len(new) = n + 1 /\ new[n] = lines[n] /\ new[n + 1] = <<>>
    /\ c # "\n" => Len(new) = n /\ new[n] = Append(lines[n], c)

LEMMA ExtendedFacts ==
    ASSUME NEW C, NEW lines \in SomeLines(C), NEW c \in C
    PROVE  /\ Len(lines) \in Nat \ {0} /\ lines[Len(lines)] \in Seq(C)
           /\ Extended(lines, c) \in SomeLines(C)
           /\ LinesAndOneMore(Len(lines), lines, c, Extended(lines, c))
<1>1. PICK n, new : n = Len(lines) /\ new = Extended(lines, c)
  OBVIOUS
<1>2. n \in Nat \ {0} /\ lines \in Seq(Seq(C)) /\ lines[n] \in Seq(C)
  BY <1>1, ElementOfSeq DEF SomeLines
<1>3. new \in SomeLines(C) /\ LinesAndOneMore(n, lines, c, new)
  <2>1. CASE c = "\n"
    <3>1. new = Append(lines, <<>>) /\ <<>> \in Seq(C)
      BY <1>1, <2>1 DEF Extended
    <3>2. /\ new \in Seq(Seq(C)) /\ Len(new) = n + 1
          /\ \A k \in 1..n : new[k] = lines[k]
          /\ new[n + 1] = <<>>
      BY <1>1, <1>2, <3>1, AppendProperties
    <3>3. new \in SomeLines(C)
      BY <1>2, <3>2 DEF SomeLines
    <3>4. \A k \in 1..n - 1 : new[k] = lines[k]
      BY <1>2, <3>2
    <3>5. new[n] = lines[n]
      BY <1>2, <3>2
    <3>. QED
      BY <2>1, <3>2, <3>3, <3>4, <3>5 DEF LinesAndOneMore
  <2>2. CASE c # "\n"
    <3>1. PICK line, D : line = Append(lines[n], c) /\ D = Seq(C)
      OBVIOUS
    <3>2. lines \in Seq(D) /\ line \in D /\ n \in 1..Len(lines)
      BY <1>1, <1>2, <3>1, AppendProperties
    <3>3. new = [lines EXCEPT ![n] = line]
      BY <1>1, <1>2, <2>2, <3>1 DEF Extended
    <3>4. /\ [lines EXCEPT ![n] = line] \in Seq(D) /\ Len([lines EXCEPT ![n] = line]) = Len(lines)
          /\ \A k \in 1..Len(lines) : [lines EXCEPT ![n] = line][k] = IF k = n THEN line ELSE lines[k]
      BY <3>2, ExceptSeq
    <3>5. /\ new \in Seq(D) /\ Len(new) = n
          /\ \A k \in 1..n : new[k] = IF k = n THEN line ELSE lines[k]
      BY <1>1, <3>3, <3>4
    <3>6. new \in SomeLines(C)
      BY <1>2, <3>1, <3>5 DEF SomeLines
    <3>7. ASSUME NEW k \in 1..n - 1 PROVE new[k] = lines[k]
      <4>1. k \in 1..n /\ k # n
        BY <1>2
      <4>. QED
        BY <3>5, <4>1
    <3>8. new[n] = Append(lines[n], c)
      <4>1. n \in 1..n
        BY <1>2
      <4>2. new[n] = line
        BY <3>5, <4>1
      <4>. QED
        BY <3>1, <4>2
    <3>. QED
      BY <2>2, <3>5, <3>6, <3>7, <3>8 DEF LinesAndOneMore
  <2>. QED
    BY <2>1, <2>2
<1>. QED
  BY <1>1, <1>2, <1>3

LEMMA LinesRecursion ==
    ASSUME NEW C, NEW t \in Seq(C)
    PROVE  \E f \in [0..Len(t) -> SomeLines(C)] :
              /\ f[0] = <<<<>>>> /\ \A i \in 1..Len(t) : f[i] = Extended(f[i - 1], t[i])
              /\ Lines(t) = f[Len(t)]
<1>. DEFINE n == Len(t)
            V == SomeLines(C)
            Is(f) == f = [i \in 0..n |-> IF i = 0 THEN <<<<>>>> ELSE Extended(f[i - 1], t[i])]
<1>1. n \in Nat /\ \A i \in 1..n : t[i] \in C
  OBVIOUS
<1>2. <<<<>>>> \in V
  BY DEF SomeLines
<1>3. PICK step : step = [p \in (1..n) \X V |-> Extended(p[2], t[p[1]])]
  OBVIOUS
<1>4. ASSUME NEW i \in 1..n, NEW x \in V PROVE step[<<i, x>>] = Extended(x, t[i]) /\ step[<<i, x>>] \in V
  BY <1>1, <1>3, ExtendedFacts
<1>5. PICK g \in [0..n -> V] : g[0] = <<<<>>>> /\ \A i \in 1..n : g[i] = step[<<i, g[i - 1]>>]
  <2>1. PICK W, v : W = V /\ v = <<<<>>>>
    OBVIOUS
  <2>2. v \in W /\ Steps(n, W, step)
    BY <1>2, <1>4, <2>1 DEF Steps
  <2>3. \E g \in [0..n -> W] : Follows(g, n, v, step)
    BY <1>1, <2>2, RecursionExists
  <2>. QED
    BY <2>1, <2>3 DEF Follows
<1>6. ASSUME NEW i \in 1..n PROVE g[i] = Extended(g[i - 1], t[i])
  <2>1. i - 1 \in 0..n
    BY <1>1
  <2>2. PICK x \in V : x = g[i - 1]
    BY <2>1
  <2>3. g[i] = step[<<i, x>>]
    BY <1>5, <2>2
  <2>4. step[<<i, x>>] = Extended(x, t[i])
    BY <1>4
  <2>. QED
    BY <2>2, <2>3, <2>4
<1>7. Is(g)
  <2>1. ASSUME NEW i \in 0..n PROVE g[i] = IF i = 0 THEN <<<<>>>> ELSE Extended(g[i - 1], t[i])
    <3>1. i = 0 \/ i \in 1..n
      BY <1>1
    <3>. QED
      BY <1>5, <1>6, <3>1
  <2>2. DOMAIN g = 0..n /\ g = [i \in 0..n |-> g[i]]
    BY <1>5
  <2>. QED
    BY <2>1, <2>2
<1>8. PICK f : f = CHOOSE h : Is(h)
  OBVIOUS
<1>9. Is(f)
  BY <1>7, <1>8
<1>10. f[0] = <<<<>>>> /\ \A i \in 1..n : f[i] = Extended(f[i - 1], t[i])
  <2>1. f[0] = <<<<>>>>
    BY <1>1, <1>9
  <2>2. ASSUME NEW i \in 1..n PROVE f[i] = Extended(f[i - 1], t[i])
    <3>1. i \in 0..n /\ i # 0
      BY <1>1
    <3>. QED
      BY <1>9, <3>1
  <2>. QED
    BY <2>1, <2>2
<1>11. ASSUME NEW i \in 0..n PROVE f[i] = g[i]
  <2>. DEFINE S == {j \in 0..n : f[j] = g[j]}
  <2>1. 0 \in S
    <3>1. 0 \in 0..n
      BY <1>1
    <3>. QED
      BY <1>5, <1>10, <3>1
  <2>2. ASSUME NEW j \in 1..n, j - 1 \in S PROVE j \in S
    BY <1>6, <1>10, <2>2
  <2>. HIDE DEF S
  <2>3. 0..n \subseteq S
    BY <1>1, <2>1, <2>2, Induction
  <2>. QED
    BY <2>3 DEF S
<1>12. f = [i \in 0..n |-> f[i]]
  BY <1>9
<1>13. f \in [0..n -> V]
  BY <1>5, <1>11, <1>12
<1>14. Lines(t) = f[n]
  BY <1>8 DEF Lines
<1>. QED
  BY <1>10, <1>13, <1>14

LEMMA NoText == Lines(<<>>) = <<<<>>>>
<1>1. PICK f : f[0] = <<<<>>>> /\ Lines(<<>>) = f[Len(<<>>)]
  <2>1. PICK C : C = {}
    OBVIOUS
  <2>2. <<>> \in Seq(C)
    OBVIOUS
  <2>. QED
    BY <2>2, LinesRecursion
<1>. QED
  BY <1>1

LEMMA LinesType ==
    ASSUME NEW C, NEW t \in Seq(C)
    PROVE  Lines(t) \in SomeLines(C)
<1>1. PICK f \in [0..Len(t) -> SomeLines(C)] : Lines(t) = f[Len(t)]
  BY LinesRecursion
<1>2. Len(t) \in 0..Len(t)
  OBVIOUS
<1>. QED
  BY <1>1, <1>2

LEMMA OneMore ==
    ASSUME NEW C, NEW t \in Seq(C), NEW c \in C
    PROVE  Lines(t) \in SomeLines(C) /\ Lines(Append(t, c)) = Extended(Lines(t), c)
<1>. DEFINE n == Len(t)
<1>1. PICK u : u = Append(t, c)
  OBVIOUS
<1>2. /\ u \in Seq(C) /\ Len(u) = n + 1 /\ u[n + 1] = c
      /\ \A i \in 1..n : u[i] = t[i]
  BY <1>1, AppendProperties
<1>3. n \in Nat
  OBVIOUS
<1>4. PICK f \in [0..n -> SomeLines(C)] :
          /\ f[0] = <<<<>>>> /\ \A i \in 1..n : f[i] = Extended(f[i - 1], t[i])
          /\ Lines(t) = f[n]
  BY LinesRecursion
<1>5. PICK g \in [0..Len(u) -> SomeLines(C)] :
          /\ g[0] = <<<<>>>> /\ \A i \in 1..Len(u) : g[i] = Extended(g[i - 1], u[i])
          /\ Lines(u) = g[Len(u)]
  BY <1>2, LinesRecursion
<1>6. g[n] = f[n]
  <2>. DEFINE S == {i \in 0..n : g[i] = f[i]}
  <2>1. 0 \in S
    <3>1. 0 \in 0..n
      BY <1>3
    <3>. QED
      BY <1>4, <1>5, <3>1
  <2>2. ASSUME NEW i \in 1..n, i - 1 \in S PROVE i \in S
    <3>1. i \in 1..Len(u) /\ u[i] = t[i] /\ g[i - 1] = f[i - 1]
      BY <1>2, <1>3, <2>2
    <3>. QED
      BY <1>3, <1>4, <1>5, <3>1
  <2>. HIDE DEF S
  <2>3. 0..n \subseteq S
    BY <1>3, <2>1, <2>2, Induction
  <2>. QED
    BY <1>3, <2>3 DEF S
<1>7. Lines(u) = Extended(g[n], c)
  <2>1. n + 1 \in 1..Len(u) /\ Len(u) = n + 1 /\ n + 1 - 1 = n
    BY <1>2, <1>3
  <2>2. g[n + 1] = Extended(g[n + 1 - 1], u[n + 1]) /\ Lines(u) = g[n + 1]
    BY <1>5, <2>1
  <2>. QED
    BY <1>2, <2>1, <2>2
<1>. QED
  BY <1>1, <1>3, <1>4, <1>6, <1>7

-----------------------------------------------------------------------------
(* Where lines begin.                                                      *)

LEMMA LineStartRecursion ==
    ASSUME NEW C, NEW lines \in Seq(Seq(C)), NEW k \in 0..Len(lines)
    PROVE  \E f \in [0..k -> Nat] :
              /\ f[0] = 0 /\ \A j \in 1..k : f[j] = f[j - 1] + Len(lines[j]) + 1
              /\ LineStart(lines, k) = f[k]
<1>. DEFINE Is(f) == f = [j \in 0..k |-> IF j = 0 THEN 0 ELSE f[j - 1] + Len(lines[j]) + 1]
<1>1. k \in Nat /\ \A j \in 1..k : lines[j] \in Seq(C) /\ Len(lines[j]) \in Nat
  OBVIOUS
<1>2. PICK step : step = [p \in (1..k) \X Nat |-> p[2] + Len(lines[p[1]]) + 1]
  OBVIOUS
<1>3. ASSUME NEW j \in 1..k, NEW x \in Nat
      PROVE  step[<<j, x>>] = x + Len(lines[j]) + 1 /\ step[<<j, x>>] \in Nat
  BY <1>1, <1>2
<1>4. PICK g \in [0..k -> Nat] : Follows(g, k, 0, step)
  <2>1. Steps(k, Nat, step)
    BY <1>3 DEF Steps
  <2>. QED
    BY <1>1, <2>1, RecursionExists
<1>5. g[0] = 0 /\ \A j \in 1..k : g[j] = g[j - 1] + Len(lines[j]) + 1
  <2>1. g[0] = 0 /\ \A j \in 1..k : g[j] = step[<<j, g[j - 1]>>]
    BY <1>4 DEF Follows
  <2>2. ASSUME NEW j \in 1..k PROVE g[j - 1] \in Nat
    <3>1. j - 1 \in 0..k
      BY <1>1
    <3>. QED
      BY <3>1
  <2>. QED
    BY <1>3, <2>1, <2>2
<1>6. Is(g)
  BY <1>5
<1>7. PICK f : f = CHOOSE h : Is(h)
  OBVIOUS
<1>8. Is(f)
  BY <1>6, <1>7
<1>9. f[0] = 0 /\ \A j \in 1..k : f[j] = f[j - 1] + Len(lines[j]) + 1
  <2>1. 0 \in 0..k
    BY <1>1
  <2>2. f[0] = 0
    BY <1>8, <2>1
  <2>3. ASSUME NEW j \in 1..k PROVE f[j] = f[j - 1] + Len(lines[j]) + 1
    <3>1. j \in 0..k /\ j # 0
      BY <1>1
    <3>. QED
      BY <1>8, <3>1
  <2>. QED
    BY <2>2, <2>3
<1>10. ASSUME NEW j \in 0..k PROVE f[j] = g[j]
  <2>. DEFINE S == {i \in 0..k : f[i] = g[i]}
  <2>1. 0 \in S
    <3>1. 0 \in 0..k
      BY <1>1
    <3>. QED
      BY <1>5, <1>9, <3>1
  <2>2. ASSUME NEW i \in 1..k, i - 1 \in S PROVE i \in S
    BY <1>5, <1>9, <2>2
  <2>. HIDE DEF S
  <2>3. 0..k \subseteq S
    BY <1>1, <2>1, <2>2, Induction
  <2>. QED
    BY <2>3 DEF S
<1>11. f \in [0..k -> Nat]
  <2>1. f = [j \in 0..k |-> f[j]]
    BY <1>8
  <2>. QED
    BY <1>10, <2>1
<1>12. LineStart(lines, k) = f[k]
  BY <1>7 DEF LineStart
<1>. QED
  BY <1>9, <1>11, <1>12

LEMMA NextLineStart ==
    ASSUME NEW C, NEW lines \in Seq(Seq(C)), NEW k \in 0..Len(lines)
    PROVE  /\ LineStart(lines, k) \in Nat
           /\ k = 0 => LineStart(lines, k) = 0
           /\ k # 0 => LineStart(lines, k) = LineStart(lines, k - 1) + Len(lines[k]) + 1
<1>1. k \in Nat
  OBVIOUS
<1>2. PICK f \in [0..k -> Nat] :
          /\ f[0] = 0 /\ \A j \in 1..k : f[j] = f[j - 1] + Len(lines[j]) + 1
          /\ LineStart(lines, k) = f[k]
  BY LineStartRecursion
<1>3. ASSUME k # 0 PROVE LineStart(lines, k) = LineStart(lines, k - 1) + Len(lines[k]) + 1
  <2>1. PICK m : m = k - 1
    OBVIOUS
  <2>2. m \in Nat /\ m \in 0..Len(lines) /\ k \in 1..k /\ 1..m \subseteq 1..k
    BY <1>1, <1>3, <2>1
  <2>3. PICK g \in [0..m -> Nat] :
            /\ g[0] = 0 /\ \A j \in 1..m : g[j] = g[j - 1] + Len(lines[j]) + 1
            /\ LineStart(lines, m) = g[m]
    BY <2>2, LineStartRecursion
  <2>4. f[m] = g[m]
    <3>. DEFINE S == {i \in 0..m : f[i] = g[i]}
    <3>1. 0 \in S
      <4>1. 0 \in 0..m
        BY <2>2
      <4>. QED
        BY <1>2, <2>3, <4>1
    <3>2. ASSUME NEW i \in 1..m, i - 1 \in S PROVE i \in S
      <4>1. i \in 1..k /\ i \in 0..m
        <5>1. i \in 1..k
          BY <2>2
        <5>2. i \in 0..m
          BY <2>2
        <5>. QED
          BY <5>1, <5>2
      <4>2. f[i - 1] = g[i - 1]
        BY <3>2
      <4>. QED
        BY <1>2, <2>3, <4>1, <4>2
    <3>. HIDE DEF S
    <3>3. 0..m \subseteq S
      BY <2>2, <3>1, <3>2, Induction
    <3>. QED
      BY <2>2, <3>3 DEF S
  <2>. QED
    BY <1>2, <2>1, <2>2, <2>3, <2>4
<1>4. f[k] \in Nat
  BY <1>1, <1>2
<1>. QED
  BY <1>2, <1>3, <1>4

LEMMA SameLineStart ==
    ASSUME NEW C, NEW lines \in Seq(Seq(C)), NEW new \in Seq(Seq(C)),
           NEW k \in Nat, k <= Len(lines), k <= Len(new), \A j \in 1..k : new[j] = lines[j]
    PROVE  LineStart(new, k) = LineStart(lines, k)
<1>. DEFINE S == {j \in 0..k : LineStart(new, j) = LineStart(lines, j)}
<1>1. 0 \in S
  <2>1. 0 \in 0..k /\ 0 \in 0..Len(lines) /\ 0 \in 0..Len(new)
    OBVIOUS
  <2>2. LineStart(new, 0) = 0 /\ LineStart(lines, 0) = 0
    BY <2>1, NextLineStart
  <2>. QED
    BY <2>1, <2>2
<1>2. ASSUME NEW j \in 1..k, j - 1 \in S PROVE j \in S
  <2>1. j \in 0..k /\ j \in 0..Len(lines) /\ j \in 0..Len(new) /\ j # 0
    OBVIOUS
  <2>2. /\ LineStart(new, j) = LineStart(new, j - 1) + Len(new[j]) + 1
        /\ LineStart(lines, j) = LineStart(lines, j - 1) + Len(lines[j]) + 1
    BY <2>1, NextLineStart
  <2>3. new[j] = lines[j] /\ LineStart(new, j - 1) = LineStart(lines, j - 1)
    BY <1>2
  <2>. QED
    BY <2>1, <2>2, <2>3
<1>. HIDE DEF S
<1>3. 0..k \subseteq S
  BY <1>1, <1>2, Induction
<1>. QED
  BY <1>3 DEF S

(* The last line ends where the text does. *)
EndsWithText(t) ==
    LineStart(Lines(t), Len(Lines(t)) - 1) + Len(Lines(t)[Len(Lines(t))]) = Len(t)

LEMMA LinesMakeTheText ==
    ASSUME NEW C, NEW text0 \in Seq(C)
    PROVE  EndsWithText(text0)
<1>. DEFINE S == {t \in Seq(C) : EndsWithText(t)}
<1>1. <<>> \in S
  <2>1. PICK lines : lines = <<<<>>>>
    OBVIOUS
  <2>2. lines \in Seq(Seq(C)) /\ Len(lines) = 1 /\ lines[1] = <<>> /\ 0 \in 0..Len(lines)
    BY <2>1
  <2>3. LineStart(lines, 0) = 0
    BY <2>2, NextLineStart
  <2>4. Lines(<<>>) = lines
    BY <2>1, NoText
  <2>5. LineStart(lines, Len(lines) - 1) + Len(lines[Len(lines)]) = Len(<<>>) /\ <<>> \in Seq(C)
    BY <2>2, <2>3
  <2>. QED
    BY <2>4, <2>5 DEF EndsWithText
<1>2. ASSUME NEW t \in Seq(C), NEW c \in C, t \in S PROVE Append(t, c) \in S
  <2>1. PICK lines, new, n : lines = Lines(t) /\ new = Extended(lines, c) /\ n = Len(lines)
    OBVIOUS
  <2>2. lines \in SomeLines(C) /\ Lines(Append(t, c)) = new
    BY <2>1, OneMore
  <2>31. n \in Nat \ {0} /\ lines[n] \in Seq(C) /\ new \in SomeLines(C) /\ LinesAndOneMore(n, lines, c, new)
    BY <2>1, <2>2, ExtendedFacts
  <2>3. /\ \A k \in 1..n - 1 : new[k] = lines[k]
        /\ c = "\n" => Len(new) = n + 1 /\ new[n] = lines[n] /\ new[n + 1] = <<>>
        /\ c # "\n" => Len(new) = n /\ new[n] = Append(lines[n], c)
    BY <2>31 DEF LinesAndOneMore
  <2>4. /\ lines \in Seq(Seq(C)) /\ new \in Seq(Seq(C))
        /\ n - 1 \in Nat /\ n - 1 \in 0..Len(lines) /\ n - 1 \in 0..Len(new) /\ n - 1 <= Len(new) /\ n - 1 <= Len(lines)
    <3>1. lines \in Seq(Seq(C)) /\ new \in Seq(Seq(C))
      BY <2>2, <2>31 DEF SomeLines
    <3>2. Len(lines) = n /\ Len(new) \in {n, n + 1} /\ n \in Nat \ {0}
      BY <2>1, <2>3, <2>31
    <3>. QED
      BY <3>1, <3>2
  <2>5. LineStart(new, n - 1) = LineStart(lines, n - 1) /\ LineStart(lines, n - 1) \in Nat
    BY <2>31, <2>3, <2>4, SameLineStart, NextLineStart
  <2>6. LineStart(lines, n - 1) + Len(lines[n]) = Len(t)
    BY <1>2, <2>1 DEF EndsWithText
  <2>7. Append(t, c) \in Seq(C) /\ Len(Append(t, c)) = Len(t) + 1 /\ Len(t) \in Nat /\ Len(lines[n]) \in Nat
    BY <2>31, <2>4, AppendProperties
  <2>8. CASE c = "\n"
    <3>1. n \in 0..Len(new) /\ n # 0 /\ Len(new) - 1 = n
      BY <2>31, <2>3, <2>8
    <3>2. LineStart(new, n) = LineStart(new, n - 1) + Len(new[n]) + 1
      BY <2>31, <2>4, <3>1, NextLineStart
    <3>3. Len(new[Len(new)]) = 0
      BY <2>31, <2>3, <2>8
    <3>4. LineStart(new, Len(new) - 1) + Len(new[Len(new)]) = Len(t) + 1
      BY <2>31, <2>3, <2>5, <2>6, <2>7, <2>8, <3>1, <3>2, <3>3
    <3>. QED
      BY <2>2, <2>7, <3>4 DEF EndsWithText
  <2>9. CASE c # "\n"
    <3>1. Len(new[n]) = Len(lines[n]) + 1
      BY <2>31, <2>3, <2>4, <2>9, AppendProperties
    <3>2. LineStart(new, Len(new) - 1) + Len(new[Len(new)]) = Len(t) + 1
      <4>1. LineStart(new, Len(new) - 1) = LineStart(lines, n - 1) /\ Len(new[Len(new)]) = Len(lines[n]) + 1
        BY <2>3, <2>5, <2>9, <3>1
      <4>. QED
        BY <2>5, <2>6, <2>7, <4>1
    <3>. QED
      BY <2>2, <2>7, <3>2 DEF EndsWithText
  <2>. QED
    BY <2>8, <2>9
<1>. HIDE DEF S
<1>3. Seq(C) \subseteq S
  BY <1>1, <1>2, SequenceInduction
<1>. QED
  BY <1>3 DEF S

(* The lines of a text that goes on: the last one of the first part may, too. *)
Begin(lines, all) ==
    /\ Len(lines) <= Len(all)
    /\ \A k \in 1..Len(lines) - 1 : all[k] = lines[k]
    /\ Len(lines[Len(lines)]) <= Len(all[Len(lines)])

LEMMA BeginsExtended ==
    ASSUME NEW C, NEW lines \in SomeLines(C), NEW all \in SomeLines(C), Begin(lines, all), NEW c \in C
    PROVE  Begin(lines, Extended(all, c))
<1>1. PICK n, m, new : n = Len(lines) /\ m = Len(all) /\ new = Extended(all, c)
  OBVIOUS
<1>2. /\ m \in Nat \ {0} /\ all[m] \in Seq(C) /\ new \in SomeLines(C)
      /\ \A k \in 1..m - 1 : new[k] = all[k]
      /\ c = "\n" => Len(new) = m + 1 /\ new[m] = all[m] /\ new[m + 1] = <<>>
      /\ c # "\n" => Len(new) = m /\ new[m] = Append(all[m], c)
  <2>1. m \in Nat \ {0} /\ all[m] \in Seq(C) /\ new \in SomeLines(C) /\ LinesAndOneMore(m, all, c, new)
    BY <1>1, ExtendedFacts
  <2>. QED
    BY <2>1 DEF LinesAndOneMore
<1>3. n \in Nat \ {0} /\ n <= m /\ lines[n] \in Seq(C)
  BY <1>1, ElementOfSeq, ExtendedFacts DEF SomeLines, Begin
<1>4. \A k \in 1..n - 1 : new[k] = lines[k]
  <2>1. ASSUME NEW k \in 1..n - 1 PROVE new[k] = lines[k]
    <3>1. k \in 1..m - 1 /\ all[k] = lines[k]
      BY <1>1, <1>2, <1>3 DEF Begin
    <3>. QED
      BY <1>2, <3>1
  <2>. QED
    BY <2>1
<1>5. n <= Len(new)
  BY <1>2, <1>3
<1>6. Len(lines[n]) <= Len(new[n])
  <2>1. Len(lines[n]) <= Len(all[n])
    BY <1>1 DEF Begin
  <2>2. CASE n # m \/ c = "\n"
    <3>1. new[n] = all[n]
      BY <1>2, <1>3, <2>2
    <3>. QED
      BY <2>1, <3>1
  <2>3. CASE n = m /\ c # "\n"
    <3>1. Len(new[n]) = Len(all[n]) + 1 /\ Len(all[n]) \in Nat /\ Len(lines[n]) \in Nat
      BY <1>2, <1>3, <2>3, AppendProperties
    <3>. QED
      BY <2>1, <3>1
  <2>. QED
    BY <2>2, <2>3
<1>. QED
  BY <1>1, <1>4, <1>5, <1>6 DEF Begin

LEMMA FrontBegins ==
    ASSUME NEW C, NEW s \in Seq(C), NEW rest \in Seq(C)
    PROVE  Begin(Lines(s), Lines(s \o rest))
<1>. DEFINE S == {u \in Seq(C) : Lines(s \o u) \in SomeLines(C) /\ Begin(Lines(s), Lines(s \o u))}
<1>1. PICK lines : lines = Lines(s)
  OBVIOUS
<1>2. lines \in SomeLines(C)
  BY <1>1, LinesRecursion
<1>3. <<>> \in S
  <2>1. s \o <<>> = s /\ <<>> \in Seq(C)
    OBVIOUS
  <2>2. Len(lines) <= Len(lines) /\ Len(lines[Len(lines)]) <= Len(lines[Len(lines)])
    <3>1. Len(lines) \in Nat /\ lines[Len(lines)] \in Seq(C)
      BY <1>2, ElementOfSeq DEF SomeLines
    <3>. QED
      BY <3>1
  <2>3. Begin(lines, lines)
    BY <2>2 DEF Begin
  <2>. QED
    BY <1>1, <1>2, <2>1, <2>3
<1>4. ASSUME NEW u \in Seq(C), NEW c \in C, u \in S PROVE Append(u, c) \in S
  <2>1. PICK v : v = s \o u
    OBVIOUS
  <2>2. v \in Seq(C) /\ s \o Append(u, c) = Append(v, c) /\ Append(u, c) \in Seq(C)
    BY <2>1
  <2>3. PICK all : all = Lines(v)
    OBVIOUS
  <2>4. all \in SomeLines(C) /\ Begin(lines, all)
    BY <1>1, <1>4, <2>1, <2>3
  <2>5. Lines(Append(v, c)) = Extended(all, c)
    BY <2>2, <2>3, OneMore
  <2>6. Extended(all, c) \in SomeLines(C) /\ Begin(lines, Extended(all, c))
    BY <1>2, <2>4, BeginsExtended, ExtendedFacts
  <2>. QED
    BY <1>1, <2>2, <2>5, <2>6
<1>. HIDE DEF S
<1>5. Seq(C) \subseteq S
  BY <1>3, <1>4, SequenceInduction
<1>. QED
  BY <1>5 DEF S

-----------------------------------------------------------------------------
(* What the editor calls a place is this place for the server.             *)

LEMMA MinOfTwo ==
    ASSUME NEW a \in Int, NEW b \in Int, a <= b
    PROVE  Min({a, b}) = a
<1>1. \A y \in {a, b} : a <= y
  OBVIOUS
<1>2. \A x \in {a, b} : (\A y \in {a, b} : x <= y) => x = a
  OBVIOUS
<1>. QED
  BY <1>1, <1>2 DEF Min

LEMMA CutFacts ==
    ASSUME NEW C, NEW t \in Seq(C), NEW i \in 1..Len(t) + 1
    PROVE  /\ Slice(t, 1, i) \in Seq(C) /\ Len(Slice(t, 1, i)) = i - 1
           /\ Slice(t, i, Len(t) + 1) \in Seq(C) /\ Len(Slice(t, i, Len(t) + 1)) = Len(t) + 1 - i
           /\ t = Slice(t, 1, i) \o Slice(t, i, Len(t) + 1)
<1>1. PICK n, k : n = Len(t) /\ k = i - 1
  OBVIOUS
<1>2. n \in Nat /\ k \in 0..n /\ i = k + 1 /\ n + 1 - 1 = n
  BY <1>1
<1>3. SubSeq(t, 1, k) \in Seq(C) /\ Len(SubSeq(t, 1, k)) = k
  BY <1>1, <1>2
<1>4. SubSeq(t, k + 1, n) \in Seq(C) /\ Len(SubSeq(t, k + 1, n)) = n - k
  BY <1>1, <1>2
<1>5. SubSeq(t, 1, k) \o SubSeq(t, k + 1, n) = SubSeq(t, 1, n)
  <2>1. 1 \in 1..Len(t) + 1 /\ k \in 1 - 1..Len(t) /\ n \in k..Len(t)
    BY <1>1, <1>2
  <2>. QED
    BY <2>1, ConcatAdjacentSubSeq
<1>6. SubSeq(t, 1, n) = t
  BY <1>1, SubSeqFull
<1>7. Slice(t, 1, i) = SubSeq(t, 1, k)
  BY <1>1 DEF Slice
<1>8. Slice(t, i, Len(t) + 1) = SubSeq(t, k + 1, n)
  BY <1>1, <1>2 DEF Slice
<1>9. k = i - 1 /\ n - k = Len(t) + 1 - i
  BY <1>1, <1>2
<1>. QED
  BY <1>3, <1>4, <1>5, <1>6, <1>7, <1>8, <1>9

LEMMA UnitsFacts ==
    ASSUME NEW C, NEW line \in Seq(C)
    PROVE  Units(line) \in 0..Len(line) /\ (Units(line) = Len(line) <=> "tail" \notin ToSet(line))
<1>1. PICK n, S : n = Len(line) /\ S = {j \in 1..n : line[j] # "tail"}
  OBVIOUS
<1>2. n \in Nat /\ S \subseteq 1..n /\ DOMAIN line = 1..n
  BY <1>1
<1>3. IsFiniteSet(1..n) /\ Cardinality(1..n) = n
  BY <1>2, FS_Interval
<1>4. IsFiniteSet(S) /\ Cardinality(S) <= n /\ (n = Cardinality(S) => 1..n = S)
  BY <1>2, <1>3, FS_Subset
<1>5. Cardinality(S) \in Nat
  BY <1>4, FS_CardinalityType
<1>6. Units(line) = Cardinality(S)
  BY <1>1, <1>2 DEF Units
<1>7. "tail" \notin ToSet(line) <=> S = 1..n
  BY <1>1, <1>2 DEF ToSet
<1>8. Cardinality(S) \in 0..n /\ (S = 1..n <=> Cardinality(S) = n)
  <2>1. PICK m : m = Cardinality(S)
    OBVIOUS
  <2>2. m \in Nat /\ m <= n
    BY <1>4, <1>5, <2>1
  <2>3. m \in 0..n
    BY <1>2, <2>2
  <2>. QED
    BY <1>3, <1>4, <2>1, <2>3
<1>9. Units(line) \in 0..Len(line)
  BY <1>1, <1>6, <1>8
<1>10. Units(line) = Len(line) <=> Cardinality(S) = n
  BY <1>1, <1>6
<1>. QED
  BY <1>7, <1>8, <1>9, <1>10

(* The line and the byte in it of a place. *)
LineOf(t, i) == Len(LinesTo(t, i))

ByteOf(t, i) == Len(Last(LinesTo(t, i)))

LEMMA PlaceFacts ==
    ASSUME NEW C, NEW t \in Seq(C), NEW i \in 1..Len(t) + 1
    PROVE  /\ LineOf(t, i) \in 1..Len(Lines(t)) /\ Lines(t) \in Seq(Seq(C)) /\ Len(Lines(t)) \in Nat \ {0}
           /\ Last(LinesTo(t, i)) \in Seq(C)
           /\ ByteOf(t, i) \in 0..Len(Lines(t)[LineOf(t, i)])
           /\ LineStart(Lines(t), LineOf(t, i) - 1) + ByteOf(t, i) = i - 1
<1>1. PICK s, rest : s = Slice(t, 1, i) /\ rest = Slice(t, i, Len(t) + 1)
  OBVIOUS
<1>2. s \in Seq(C) /\ rest \in Seq(C) /\ Len(s) = i - 1 /\ t = s \o rest
  BY <1>1, CutFacts
<1>3. PICK lines, all, n : lines = Lines(s) /\ all = Lines(t) /\ n = Len(lines)
  OBVIOUS
<1>4. lines \in SomeLines(C) /\ all \in SomeLines(C) /\ Begin(lines, all)
  <2>1. lines \in SomeLines(C)
    BY <1>2, <1>3, LinesType
  <2>2. all \in SomeLines(C)
    BY <1>3, LinesType
  <2>3. Begin(Lines(s), Lines(s \o rest))
    BY <1>2, FrontBegins
  <2>. QED
    BY <1>2, <1>3, <2>1, <2>2, <2>3
<1>5. /\ lines \in Seq(Seq(C)) /\ all \in Seq(Seq(C)) /\ n \in Nat \ {0} /\ n <= Len(all) /\ Len(all) \in Nat
      /\ \A k \in 1..n - 1 : all[k] = lines[k]
      /\ Len(lines[n]) <= Len(all[n])
  BY <1>3, <1>4 DEF SomeLines, Begin
<1>6. lines[n] \in Seq(C) /\ Len(lines[n]) \in Nat /\ Len(all[n]) \in Nat
  <2>1. n \in 1..Len(lines) /\ n \in 1..Len(all)
    BY <1>3, <1>5
  <2>2. lines[n] \in Seq(C) /\ all[n] \in Seq(C)
    BY <1>5, <2>1, ElementOfSeq
  <2>. QED
    BY <2>2
<1>7. LineStart(all, n - 1) = LineStart(lines, n - 1)
  <2>1. n - 1 \in Nat /\ n - 1 <= Len(lines) /\ n - 1 <= Len(all)
    BY <1>3, <1>5
  <2>. QED
    BY <1>5, <2>1, SameLineStart
<1>8. LineStart(lines, n - 1) + Len(lines[n]) = i - 1
  BY <1>2, <1>3, LinesMakeTheText DEF EndsWithText
<1>9. LinesTo(t, i) = lines /\ Last(lines) = lines[n]
  BY <1>1, <1>3 DEF LinesTo, Last
<1>10. LineOf(t, i) = n /\ ByteOf(t, i) = Len(lines[n])
  BY <1>3, <1>9 DEF LineOf, ByteOf
<1>11. n \in 1..Len(all) /\ Len(lines[n]) \in 0..Len(all[n])
  BY <1>5, <1>6
<1>. QED
  BY <1>3, <1>5, <1>6, <1>7, <1>8, <1>9, <1>10, <1>11

(* A place of a line, whatever the position has for a character. *)
LEMMA OffsetInLine ==
    ASSUME NEW C, NEW lines \in Seq(Seq(C)), NEW n \in 1..Len(lines), NEW c \in Nat
    PROVE  \E b \in 0..Len(lines[n]) :
              /\ positionToOffset(lines, Position(n - 1, c)) = LineStart(lines, n - 1) + b
              /\ c <= Len(lines[n]) => b = c
<1>1. PICK pos, b : pos = Position(n - 1, c) /\ b = Min({c, Len(lines[n])})
  OBVIOUS
<1>2. pos.line = n - 1 /\ pos.character = c
  BY <1>1 DEF Position
<1>3. Len(lines) \in Nat /\ lines[n] \in Seq(C) /\ Len(lines[n]) \in Nat
  <2>1. lines[n] \in Seq(C)
    BY ElementOfSeq
  <2>. QED
    BY <2>1
<1>4. n - 1 \in Int /\ n - 1 <= Len(lines) /\ n - 1 < Len(lines) /\ n - 1 + 1 = n
  BY <1>3
<1>5. Min({n - 1, Len(lines)}) = n - 1
  BY <1>3, <1>4, MinOfTwo
<1>6. b \in 0..Len(lines[n]) /\ (c <= Len(lines[n]) => b = c)
  <2>1. CASE c <= Len(lines[n])
    <3>1. c \in Int /\ Len(lines[n]) \in Int
      BY <1>3
    <3>2. Min({c, Len(lines[n])}) = c
      BY <2>1, <3>1, MinOfTwo
    <3>3. b = c
      BY <1>1, <3>2
    <3>. QED
      BY <1>3, <2>1, <3>3
  <2>2. CASE Len(lines[n]) <= c
    <3>1. {c, Len(lines[n])} = {Len(lines[n]), c}
      OBVIOUS
    <3>2. b = Len(lines[n])
      BY <1>1, <1>3, <2>2, <3>1, MinOfTwo
    <3>. QED
      BY <1>3, <2>2, <3>2
  <2>. QED
    BY <1>3, <2>1, <2>2
<1>7. positionToOffset(lines, pos) = LineStart(lines, n - 1) + b
  BY <1>1, <1>2, <1>4, <1>5 DEF positionToOffset
<1>. QED
  BY <1>1, <1>6, <1>7

(* The place of a byte of the line of a place. *)
LEMMA PositionIsOffset ==
    ASSUME NEW C, NEW t \in Seq(C), NEW i \in 1..Len(t) + 1, NEW c \in 0..ByteOf(t, i)
    PROVE  positionToOffset(Lines(t), Position(LineOf(t, i) - 1, c)) = i - 1 - (ByteOf(t, i) - c)
<1>1. PICK lines, n, byte : lines = Lines(t) /\ n = LineOf(t, i) /\ byte = ByteOf(t, i)
  OBVIOUS
<1>2. /\ n \in 1..Len(lines) /\ lines \in Seq(Seq(C)) /\ byte \in 0..Len(lines[n])
      /\ LineStart(lines, n - 1) + byte = i - 1
  BY <1>1, PlaceFacts
<1>3. Len(lines[n]) \in Nat /\ c \in Nat /\ c <= byte /\ c <= Len(lines[n]) /\ LineStart(lines, n - 1) \in Nat
  <2>1. lines[n] \in Seq(C) /\ Len(lines) \in Nat
    BY <1>2, ElementOfSeq
  <2>2. Len(lines[n]) \in Nat /\ c \in Nat /\ c <= byte
    BY <1>1, <1>2, <2>1
  <2>3. n - 1 \in 0..Len(lines)
    BY <1>2, <2>1
  <2>. QED
    BY <1>2, <2>2, <2>3, NextLineStart
<1>4. positionToOffset(lines, Position(n - 1, c)) = LineStart(lines, n - 1) + c
  <2>1. PICK b \in 0..Len(lines[n]) :
            /\ positionToOffset(lines, Position(n - 1, c)) = LineStart(lines, n - 1) + b
            /\ c <= Len(lines[n]) => b = c
    BY <1>2, <1>3, OffsetInLine
  <2>. QED
    BY <1>3, <2>1
<1>. QED
  BY <1>1, <1>2, <1>3, <1>4

LEMMA PositionFacts ==
    ASSUME NEW C, NEW t \in Seq(C), NEW i \in 1..Len(t) + 1
    PROVE  \E c \in 0..ByteOf(t, i) :
              /\ PositionOf(t, i) = Position(LineOf(t, i) - 1, c)
              /\ BytePosition(t, i) = Position(LineOf(t, i) - 1, ByteOf(t, i))
              /\ c = ByteOf(t, i) <=> "tail" \notin ToSet(Last(LinesTo(t, i)))
              /\ c = ByteOf(t, i) <=> IsNarrow(t, i)
<1>1. PICK line, c : line = Last(LinesTo(t, i)) /\ c = Units(line)
  OBVIOUS
<1>2. line \in Seq(C)
  BY <1>1, PlaceFacts
<1>3. c \in 0..Len(line) /\ (c = Len(line) <=> "tail" \notin ToSet(line))
  BY <1>1, <1>2, UnitsFacts
<1>4. ByteOf(t, i) = Len(line)
  BY <1>1 DEF ByteOf
<1>5. PositionOf(t, i) = Position(LineOf(t, i) - 1, c) /\ BytePosition(t, i) = Position(LineOf(t, i) - 1, Len(line))
  BY <1>1 DEF PositionOf, BytePosition, LineOf
<1>6. c = Len(line) <=> IsNarrow(t, i)
  BY <1>5 DEF IsNarrow, Position
<1>. QED
  BY <1>1, <1>3, <1>4, <1>5, <1>6

-----------------------------------------------------------------------------
(* Texts of as many lines.                                                 *)

LEMMA LinesOfBoth ==
    ASSUME NEW C, NEW a \in Seq(C), NEW b \in Seq(C)
    PROVE  Len(Lines(a \o b)) + 1 = Len(Lines(a)) + Len(Lines(b))
<1>. DEFINE Holds(u) == Len(Lines(a \o u)) + 1 = Len(Lines(a)) + Len(Lines(u))
            S == {u \in Seq(C) : Holds(u)}
<1>1. <<>> \in S
  <2>1. a \o <<>> = a /\ <<>> \in Seq(C)
    OBVIOUS
  <2>2. PICK lines, one : lines = Lines(a) /\ one = <<<<>>>>
    OBVIOUS
  <2>3. Len(one) = 1 /\ Lines(<<>>) = one
    BY <2>2, NoText
  <2>. QED
    BY <2>1, <2>3
<1>2. ASSUME NEW u \in Seq(C), NEW c \in C, u \in S PROVE Append(u, c) \in S
  <2>1. PICK v, lines, all : v = a \o u /\ lines = Lines(u) /\ all = Lines(v)
    OBVIOUS
  <2>2. v \in Seq(C) /\ a \o Append(u, c) = Append(v, c) /\ Append(u, c) \in Seq(C)
    BY <2>1
  <2>3. /\ lines \in SomeLines(C) /\ Lines(Append(u, c)) = Extended(lines, c)
        /\ all \in SomeLines(C) /\ Lines(Append(v, c)) = Extended(all, c)
    BY <2>1, <2>2, OneMore
  <2>4. /\ Len(lines) \in Nat \ {0} /\ Len(all) \in Nat \ {0}
        /\ LinesAndOneMore(Len(lines), lines, c, Extended(lines, c))
        /\ LinesAndOneMore(Len(all), all, c, Extended(all, c))
    BY <2>3, ExtendedFacts
  <2>5. /\ Len(Extended(lines, c)) = Len(lines) + (IF c = "\n" THEN 1 ELSE 0)
        /\ Len(Extended(all, c)) = Len(all) + (IF c = "\n" THEN 1 ELSE 0)
    BY <2>4 DEF LinesAndOneMore
  <2>6. Len(all) + 1 = Len(Lines(a)) + Len(lines)
    BY <1>2, <2>1
  <2>7. Len(Lines(a)) \in Nat
    BY LinesType DEF SomeLines
  <2>8. Len(Extended(all, c)) + 1 = Len(Lines(a)) + Len(Extended(lines, c))
    BY <2>4, <2>5, <2>6, <2>7
  <2>. QED
    BY <2>2, <2>3, <2>8
<1>. HIDE DEF S
<1>3. Seq(C) \subseteq S
  BY <1>1, <1>2, SequenceInduction
<1>. QED
  BY <1>3 DEF S

LEMMA LaterLines ==
    ASSUME NEW C, NEW lines \in Seq(Seq(C)), NEW k \in 0..Len(lines), NEW m \in 0..Len(lines), k < m
    PROVE  /\ LineStart(lines, k) \in Nat /\ LineStart(lines, m) \in Nat /\ Len(lines[k + 1]) \in Nat
           /\ LineStart(lines, k) + Len(lines[k + 1]) < LineStart(lines, m)
<1>. DEFINE S == {j \in 0..Len(lines) : k < j => LineStart(lines, k) + Len(lines[k + 1]) < LineStart(lines, j)}
<1>1. Len(lines) \in Nat /\ k + 1 \in 1..Len(lines)
  OBVIOUS
<1>2. lines[k + 1] \in Seq(C) /\ Len(lines[k + 1]) \in Nat
  BY <1>1, ElementOfSeq
<1>3. \A j \in 0..Len(lines) : LineStart(lines, j) \in Nat
  BY NextLineStart
<1>4. 0 \in S
  BY <1>1
<1>5. ASSUME NEW j \in 1..Len(lines), j - 1 \in S PROVE j \in S
  <2>1. j \in 0..Len(lines) /\ j - 1 \in 0..Len(lines) /\ j # 0
    BY <1>1
  <2>2. lines[j] \in Seq(C) /\ Len(lines[j]) \in Nat
    BY ElementOfSeq
  <2>3. LineStart(lines, j) = LineStart(lines, j - 1) + Len(lines[j]) + 1
    BY <2>1, NextLineStart
  <2>4. CASE k < j - 1
    <3>1. LineStart(lines, k) + Len(lines[k + 1]) < LineStart(lines, j - 1)
      BY <1>5, <2>4
    <3>2. LineStart(lines, k) \in Nat /\ LineStart(lines, j - 1) \in Nat
      BY <1>3, <2>1
    <3>3. PICK a, p, n : a = LineStart(lines, k) + Len(lines[k + 1]) /\ p = LineStart(lines, j - 1) /\ n = Len(lines[j])
      OBVIOUS
    <3>4. a \in Nat /\ p \in Nat /\ n \in Nat /\ a < p /\ LineStart(lines, j) = p + n + 1
      <4>1. a \in Nat
        <5>1. LineStart(lines, k) + Len(lines[k + 1]) \in Nat
          BY <1>2, <3>2
        <5>. QED
          BY <3>3, <5>1
      <4>2. p \in Nat /\ n \in Nat
        BY <2>2, <3>2, <3>3
      <4>3. a < p
        BY <3>1, <3>3
      <4>4. LineStart(lines, j) = p + n + 1
        BY <2>3, <3>3
      <4>. QED
        BY <4>1, <4>2, <4>3, <4>4
    <3>5. a < LineStart(lines, j)
      <4>1. a < p + n + 1
        BY <3>4
      <4>. QED
        BY <3>4, <4>1
    <3>. QED
      BY <2>1, <3>3, <3>5
  <2>5. CASE k = j - 1
    <3>1. k + 1 = j
      BY <1>1, <2>5
    <3>. QED
      BY <1>2, <1>3, <2>1, <2>3, <2>5, <3>1
  <2>6. CASE k >= j
    BY <1>1, <2>1, <2>6
  <2>. QED
    BY <1>1, <2>4, <2>5, <2>6
<1>. HIDE DEF S
<1>6. 0..Len(lines) \subseteq S
  BY <1>1, <1>4, <1>5, Induction
<1>. QED
  BY <1>2, <1>3, <1>6 DEF S

(* The line of an offset. *)
LEMMA OffsetIsInItsLine ==
    ASSUME NEW C, NEW t \in Seq(C), NEW n \in 1..Len(Lines(t)), NEW b \in 0..Len(Lines(t)[n]),
           NEW offset, offset = LineStart(Lines(t), n - 1) + b
    PROVE  offset \in 0..Len(t) /\ LineOf(t, offset + 1) = n
<1>1. PICK lines, l : lines = Lines(t) /\ l = Len(lines)
  OBVIOUS
<1>2. lines \in SomeLines(C)
  BY <1>1, LinesType
<1>3. lines \in Seq(Seq(C)) /\ l \in Nat \ {0}
  BY <1>1, <1>2 DEF SomeLines
<1>4. \A k \in 1..l : Len(lines[k]) \in Nat
  <2>1. ASSUME NEW k \in 1..l PROVE Len(lines[k]) \in Nat
    <3>1. lines[k] \in Seq(C)
      BY <1>1, <1>3, ElementOfSeq
    <3>. QED
      BY <3>1
  <2>. QED
    BY <2>1
<1>5. n \in 1..l /\ n - 1 \in 0..l /\ b \in Nat /\ b <= Len(lines[n]) /\ n - 1 + 1 = n
  BY <1>1, <1>3, <1>4
<1>6. LineStart(lines, n - 1) \in Nat /\ offset \in Nat
  <2>1. LineStart(lines, n - 1) \in Nat
    BY <1>1, <1>3, <1>5, NextLineStart
  <2>. QED
    BY <1>1, <1>5, <2>1
<1>7. LineStart(lines, l - 1) + Len(lines[l]) = Len(t)
  BY <1>1, LinesMakeTheText DEF EndsWithText
<1>8. ASSUME NEW k \in 1..l, NEW m \in 1..l, k < m
      PROVE  LineStart(lines, k - 1) \in Nat /\ LineStart(lines, k - 1) + Len(lines[k]) < LineStart(lines, m - 1)
  <2>1. k - 1 \in 0..l /\ m - 1 \in 0..l /\ k - 1 < m - 1 /\ k - 1 + 1 = k
    BY <1>3, <1>8
  <2>. QED
    BY <1>1, <1>3, <2>1, LaterLines
<1>9. LineStart(lines, l - 1) \in Nat
  <2>1. l - 1 \in 0..l
    BY <1>3
  <2>. QED
    BY <1>1, <1>3, <2>1, NextLineStart
<1>10. offset <= Len(t)
  <2>1. CASE n = l
    BY <1>1, <1>4, <1>5, <1>6, <1>7, <2>1
  <2>2. CASE n # l
    <3>1. l \in 1..l /\ n < l
      BY <1>3, <1>5, <2>2
    <3>2. LineStart(lines, n - 1) + Len(lines[n]) < LineStart(lines, l - 1)
      BY <1>5, <1>8, <3>1
    <3>3. Len(lines[l]) \in Nat /\ Len(lines[n]) \in Nat
      BY <1>4, <1>5, <3>1
    <3>. QED
      BY <1>1, <1>5, <1>6, <1>7, <1>9, <3>2, <3>3
  <2>. QED
    BY <2>1, <2>2
<1>11. offset + 1 \in 1..Len(t) + 1 /\ offset + 1 - 1 = offset
  BY <1>6, <1>10
<1>12. PICK m, c : m = LineOf(t, offset + 1) /\ c = ByteOf(t, offset + 1)
  OBVIOUS
<1>13. /\ m \in 1..l /\ c \in 0..Len(lines[m])
       /\ LineStart(lines, m - 1) + c = offset
  BY <1>1, <1>11, <1>12, PlaceFacts
<1>14. LineStart(lines, m - 1) \in Nat /\ Len(lines[m]) \in Nat /\ Len(lines[n]) \in Nat /\ c \in Nat /\ c <= Len(lines[m])
  <2>1. m - 1 \in 0..l
    BY <1>3, <1>13
  <2>. QED
    BY <1>1, <1>3, <1>4, <1>5, <1>13, <2>1, NextLineStart
<1>15. ~(m < n)
  <2>. SUFFICES ASSUME m < n PROVE FALSE
    OBVIOUS
  <2>1. LineStart(lines, m - 1) + Len(lines[m]) < LineStart(lines, n - 1)
    BY <1>5, <1>8, <1>13
  <2>. QED
    BY <1>1, <1>5, <1>6, <1>13, <1>14, <2>1
<1>16. ~(n < m)
  <2>. SUFFICES ASSUME n < m PROVE FALSE
    OBVIOUS
  <2>1. LineStart(lines, n - 1) + Len(lines[n]) < LineStart(lines, m - 1)
    BY <1>5, <1>8, <1>13
  <2>. QED
    BY <1>1, <1>5, <1>6, <1>13, <1>14, <2>1
<1>. QED
  BY <1>3, <1>5, <1>6, <1>10, <1>12, <1>13, <1>15, <1>16

(* Where the server takes the position of a place to be, in a text of as   *)
(* many lines: in the same line.                                           *)
LEMMA ServersPlace ==
    ASSUME NEW C, NEW t \in Seq(C), NEW x \in Seq(C), Len(Lines(x)) = Len(Lines(t)), NEW i \in 1..Len(t) + 1,
           NEW offset, offset = positionToOffset(Lines(x), PositionOf(t, i))
    PROVE  offset \in 0..Len(x) /\ LineOf(x, offset + 1) = LineOf(t, i) /\ (x = t /\ IsNarrow(t, i) => offset = i - 1)
<1>1. PICK n, byte, lines : n = LineOf(t, i) /\ byte = ByteOf(t, i) /\ lines = Lines(x)
  OBVIOUS
<1>2. n \in 1..Len(lines) /\ byte \in Nat
  <2>1. n \in 1..Len(Lines(t)) /\ ByteOf(t, i) \in 0..Len(Lines(t)[n]) /\ Lines(t) \in Seq(Seq(C))
    BY <1>1, PlaceFacts
  <2>. QED
    BY <1>1, <2>1
<1>3. PICK c \in 0..byte : PositionOf(t, i) = Position(n - 1, c) /\ (c = byte <=> IsNarrow(t, i))
  BY <1>1, PositionFacts
<1>4. lines \in Seq(Seq(C)) /\ c \in Nat
  BY <1>1, <1>2, <1>3, LinesType DEF SomeLines
<1>5. PICK b \in 0..Len(lines[n]) : positionToOffset(lines, Position(n - 1, c)) = LineStart(lines, n - 1) + b
  <2>1. \E b \in 0..Len(lines[n]) :
            /\ positionToOffset(lines, Position(n - 1, c)) = LineStart(lines, n - 1) + b
            /\ c <= Len(lines[n]) => b = c
    BY <1>2, <1>4, OffsetInLine
  <2>. QED
    BY <2>1
<1>6. offset \in 0..Len(x) /\ LineOf(x, offset + 1) = n
  <2>1. offset = LineStart(Lines(x), n - 1) + b
    BY <1>1, <1>3, <1>5
  <2>2. n \in 1..Len(Lines(x)) /\ b \in 0..Len(Lines(x)[n])
    BY <1>1, <1>2, <1>5
  <2>. QED
    BY <2>1, <2>2, OffsetIsInItsLine
<1>7. ASSUME x = t, IsNarrow(t, i) PROVE offset = i - 1
  <2>1. c = byte
    BY <1>3, <1>7
  <2>2. positionToOffset(Lines(t), Position(n - 1, byte)) = i - 1 - (byte - byte)
    BY <1>1, <1>2, <1>3, <2>1, PositionIsOffset
  <2>. QED
    BY <1>2, <1>3, <1>7, <2>1, <2>2
<1>. QED
  BY <1>1, <1>6, <1>7

-----------------------------------------------------------------------------
(* The messages of the editor.                                             *)

LEMMA ReplaceType ==
    ASSUME NEW C, NEW t \in Seq(C), NEW s \in Seq(C), NEW from \in 1..Len(t) + 1, NEW to \in 1..Len(t) + 1
    PROVE  Replace(t, from, to, s) \in Seq(C)
<1>1. PICK a, b : a = Slice(t, 1, from) /\ b = Slice(t, to, Len(t) + 1)
  OBVIOUS
<1>2. a \in Seq(C) /\ b \in Seq(C)
  BY <1>1, CutFacts
<1>3. a \o s \in Seq(C)
  BY <1>2, ConcatProperties
<1>4. (a \o s) \o b \in Seq(C)
  BY <1>2, <1>3, ConcatProperties
<1>. QED
  BY <1>1, <1>4 DEF Replace

LEMMA OneChange ==
    ASSUME NEW d, NEW change
    PROVE  Update(d, <<change>>) = Document(Applied(d.content, d.lines, change))
<1>1. PICK changes, once : changes = <<change>> /\ once = Document(Applied(d.content, d.lines, change))
  OBVIOUS
<1>. DEFINE Is(f) == f = [k \in 0..Len(changes) |->
                          IF k = 0 THEN d ELSE Document(Applied(f[k - 1].content, f[k - 1].lines, changes[k]))]
<1>2. Len(changes) = 1 /\ changes[1] = change
  BY <1>1
<1>3. PICK g : g = [k \in 0..1 |-> IF k = 0 THEN d ELSE once]
  OBVIOUS
<1>4. Is(g)
  <2>1. g[0] = d
    BY <1>3
  <2>2. ASSUME NEW k \in 0..1
        PROVE  (IF k = 0 THEN d ELSE once) =
               (IF k = 0 THEN d ELSE Document(Applied(g[k - 1].content, g[k - 1].lines, changes[k])))
    <3>1. CASE k = 0
      BY <3>1
    <3>2. CASE k = 1
      <4>1. k - 1 = 0 /\ g[k - 1] = d /\ changes[k] = change
        BY <1>2, <2>1, <3>2
      <4>. QED
        BY <1>1, <4>1
    <3>. QED
      BY <3>1, <3>2
  <2>. QED
    BY <1>2, <1>3, <2>2
<1>5. PICK f : f = CHOOSE h : Is(h)
  OBVIOUS
<1>6. Is(f)
  BY <1>4, <1>5
<1>7. f[0] = d
  BY <1>2, <1>6
<1>8. f[1] = once
  <2>1. f[1] = Document(Applied(f[1 - 1].content, f[1 - 1].lines, changes[1]))
    BY <1>2, <1>6
  <2>. QED
    BY <1>1, <1>2, <1>7, <2>1
<1>9. Update(d, changes) = f[Len(changes)]
  BY <1>5 DEF Update
<1>. QED
  BY <1>1, <1>2, <1>8, <1>9

LEMMA TwoChanges ==
    ASSUME NEW d, NEW c1, NEW c2, NEW once, once = Document(Applied(d.content, d.lines, c1))
    PROVE  Update(d, <<c1, c2>>) = Document(Applied(once.content, once.lines, c2))
<1>1. PICK changes, twice : changes = <<c1, c2>> /\ twice = Document(Applied(once.content, once.lines, c2))
  OBVIOUS
<1>. DEFINE Is(f) == f = [k \in 0..Len(changes) |->
                          IF k = 0 THEN d ELSE Document(Applied(f[k - 1].content, f[k - 1].lines, changes[k]))]
<1>2. Len(changes) = 2 /\ changes[1] = c1 /\ changes[2] = c2
  BY <1>1
<1>3. PICK g : g = [k \in 0..2 |-> IF k = 0 THEN d ELSE IF k = 1 THEN once ELSE twice]
  OBVIOUS
<1>4. Is(g)
  <2>1. g[0] = d /\ g[1] = once
    BY <1>3
  <2>2. ASSUME NEW k \in 0..2
        PROVE  (IF k = 0 THEN d ELSE IF k = 1 THEN once ELSE twice) =
               (IF k = 0 THEN d ELSE Document(Applied(g[k - 1].content, g[k - 1].lines, changes[k])))
    <3>1. CASE k = 0
      BY <3>1
    <3>2. CASE k = 1
      <4>1. k - 1 = 0 /\ g[k - 1] = d /\ changes[k] = c1
        BY <1>2, <2>1, <3>2
      <4>. QED
        BY <3>2, <4>1
    <3>3. CASE k = 2
      <4>1. k - 1 = 1 /\ g[k - 1] = once /\ changes[k] = c2
        BY <1>2, <2>1, <3>3
      <4>. QED
        BY <1>1, <3>3, <4>1
    <3>. QED
      BY <3>1, <3>2, <3>3
  <2>. QED
    BY <1>2, <1>3, <2>2
<1>5. PICK f : f = CHOOSE h : Is(h)
  OBVIOUS
<1>6. Is(f)
  BY <1>4, <1>5
<1>7. f[0] = d
  BY <1>2, <1>6
<1>8. f[1] = once
  <2>1. f[1] = Document(Applied(f[1 - 1].content, f[1 - 1].lines, changes[1]))
    BY <1>2, <1>6
  <2>. QED
    BY <1>2, <1>7, <2>1
<1>9. f[2] = twice
  <2>1. f[2] = Document(Applied(f[2 - 1].content, f[2 - 1].lines, changes[2]))
    BY <1>2, <1>6
  <2>. QED
    BY <1>1, <1>2, <1>8, <2>1
<1>10. Update(d, changes) = f[Len(changes)]
  BY <1>5 DEF Update
<1>. QED
  BY <1>1, <1>2, <1>9, <1>10

-----------------------------------------------------------------------------
(* What the formatter answers is a text.                                   *)

LEMMA TrimLeftType ==
    ASSUME NEW C, NEW line \in Seq(C)
    PROVE  TrimLeft(line) \in Seq(C)
<1>1. PICK n, S : n = Len(line) /\ S = {j \in 1..n : line[j] \notin Space} \cup {n + 1}
  OBVIOUS
<1>2. n \in Nat /\ S \in SUBSET Nat /\ S \subseteq 1..n + 1 /\ S # {}
  BY <1>1
<1>3. \E m \in S : \A k \in S : m <= k
  BY <1>2, LeastNatural
<1>4. Min(S) \in S
  BY <1>3 DEF Min
<1>5. PICK m : m = Min(S)
  OBVIOUS
<1>6. m \in 1..Len(line) + 1 /\ m - 1 + 1 = m
  BY <1>1, <1>2, <1>4, <1>5
<1>7. TrimLeft(line) = Slice(line, m, Len(line) + 1)
  BY <1>1, <1>5, <1>6 DEF TrimLeft, Margin, FirstOther
<1>. QED
  BY <1>6, <1>7, CutFacts

LEMMA ReverseType ==
    ASSUME NEW C, NEW line \in Seq(C)
    PROVE  Reverse(line) \in Seq(C)
<1>1. Len(line) \in Nat /\ \A i \in 1..Len(line) : line[Len(line) - i + 1] \in C
  OBVIOUS
<1>. QED
  BY <1>1 DEF Reverse

LEMMA TrimSpaceType ==
    ASSUME NEW C, NEW line \in Seq(C)
    PROVE  TrimSpace(line) \in Seq(C)
<1>1. PICK back : back = TrimLeft(Reverse(line))
  OBVIOUS
<1>2. back \in Seq(C)
  BY <1>1, ReverseType, TrimLeftType
<1>3. Reverse(back) \in Seq(C)
  BY <1>2, ReverseType
<1>. QED
  BY <1>1, <1>3, TrimLeftType DEF TrimSpace, TrimRight

Margins == [currentIndent : Seq(Characters), text : Seq(Characters)]

LEMMA WithLineType ==
    ASSUME NEW before \in Margins, NEW line \in Seq(Characters)
    PROVE  WithLine(before, line) \in Margins
<1>1. PICK T, trimmed, indent, end :
          /\ T = Seq(Characters) /\ trimmed = TrimSpace(line)
          /\ indent = IF Moves(trimmed) = <<"keep">> THEN before.currentIndent ELSE Moves(trimmed)
          /\ end = IF before.text = <<>> THEN <<>> ELSE <<"\n">>
  OBVIOUS
<1>2. <<"\n">> \in T /\ <<"\t">> \in T /\ <<>> \in T
  <2>1. "\n" \in Characters /\ "\t" \in Characters
    BY DEF Characters, Blank
  <2>. QED
    BY <1>1, <2>1
<1>3. trimmed \in T /\ before.text \in T /\ before.currentIndent \in T /\ end \in T
  BY <1>1, <1>2, TrimSpaceType DEF Margins
<1>4. indent \in T
  <2>1. Moves(trimmed) \in {<<>>, <<"\t">>, <<"keep">>}
    BY DEF Moves
  <2>. QED
    BY <1>1, <1>2, <1>3, <2>1
<1>5. ((before.text \o end) \o indent) \o trimmed \in T
  <2>1. before.text \o end \in T
    BY <1>1, <1>3, ConcatProperties
  <2>2. (before.text \o end) \o indent \in T
    BY <1>1, <1>4, <2>1, ConcatProperties
  <2>. QED
    BY <1>1, <1>3, <2>2, ConcatProperties
<1>6. [currentIndent |-> indent, text |-> before.text \o end \o indent \o trimmed] \in Margins
  BY <1>1, <1>4, <1>5 DEF Margins
<1>. QED
  BY <1>1, <1>6 DEF WithLine

LEMMA FormatType ==
    ASSUME NEW t \in Seq(Characters), NEW final \in BOOLEAN
    PROVE  formatSQL(t, final) \in Seq(Characters)
<1>. DEFINE lines == Lines(t)
            n == Len(lines)
            v == [currentIndent |-> <<>>, text |-> <<>>]
            Is(f) == f = [k \in 0..n |-> IF k = 0 THEN v ELSE WithLine(f[k - 1], lines[k])]
<1>1. lines \in Seq(Seq(Characters)) /\ n \in Nat
  BY LinesType DEF SomeLines
<1>2. v \in Margins
  <2>1. <<>> \in Seq(Characters)
    OBVIOUS
  <2>. QED
    BY <2>1 DEF Margins
<1>3. ASSUME NEW k \in 1..n, NEW before \in Margins PROVE WithLine(before, lines[k]) \in Margins
  <2>1. lines[k] \in Seq(Characters)
    BY <1>1
  <2>. QED
    BY <2>1, WithLineType
<1>4. PICK step : step = [p \in (1..n) \X Margins |-> WithLine(p[2], lines[p[1]])]
  OBVIOUS
<1>5. ASSUME NEW k \in 1..n, NEW before \in Margins
      PROVE  step[<<k, before>>] = WithLine(before, lines[k]) /\ step[<<k, before>>] \in Margins
  BY <1>3, <1>4
<1>6. PICK g \in [0..n -> Margins] : g[0] = v /\ \A k \in 1..n : g[k] = WithLine(g[k - 1], lines[k])
  <2>1. Steps(n, Margins, step)
    BY <1>5 DEF Steps
  <2>2. PICK g \in [0..n -> Margins] : Follows(g, n, v, step)
    BY <1>1, <1>2, <2>1, RecursionExists
  <2>3. g[0] = v /\ \A k \in 1..n : g[k] = step[<<k, g[k - 1]>>]
    BY <2>2 DEF Follows
  <2>4. ASSUME NEW k \in 1..n PROVE g[k] = WithLine(g[k - 1], lines[k])
    <3>1. g[k - 1] \in Margins
      <4>1. k - 1 \in 0..n
        BY <1>1
      <4>. QED
        BY <4>1
    <3>. QED
      BY <1>5, <2>3, <3>1
  <2>. QED
    BY <2>3, <2>4
<1>7. Is(g)
  BY <1>6
<1>8. PICK f : f = CHOOSE h : Is(h)
  OBVIOUS
<1>9. Is(f)
  BY <1>7, <1>8
<1>10. f[n] \in Margins
  <2>. DEFINE S == {k \in 0..n : f[k] \in Margins}
  <2>1. 0 \in S
    <3>1. 0 \in 0..n
      BY <1>1
    <3>. QED
      BY <1>2, <1>9, <3>1
  <2>2. ASSUME NEW k \in 1..n, k - 1 \in S PROVE k \in S
    <3>1. k \in 0..n /\ k # 0
      BY <1>1
    <3>2. f[k] = WithLine(f[k - 1], lines[k]) /\ f[k - 1] \in Margins
      BY <1>9, <2>2, <3>1
    <3>. QED
      BY <1>3, <3>1, <3>2
  <2>. HIDE DEF S
  <2>3. 0..n \subseteq S
    BY <1>1, <2>1, <2>2, Induction
  <2>. QED
    BY <1>1, <2>3 DEF S
<1>11. PICK formatted : formatted = f[n].text
  OBVIOUS
<1>12. formatted \in Seq(Characters) /\ Append(formatted, "\n") \in Seq(Characters)
  <2>1. "\n" \in Characters
    BY DEF Characters, Blank
  <2>2. formatted \in Seq(Characters)
    BY <1>10, <1>11 DEF Margins
  <2>. QED
    BY <2>1, <2>2, AppendProperties
<1>13. formatSQL(t, final) =
          IF final /\ (formatted = <<>> \/ Last(formatted) # "\n") THEN Append(formatted, "\n") ELSE formatted
  BY <1>8, <1>11 DEF formatSQL
<1>. QED
  BY <1>12, <1>13

-----------------------------------------------------------------------------
(* The copy of the server.                                                 *)

LEMMA LinesReplaced ==
    ASSUME NEW C, NEW x \in Seq(C), NEW s \in Seq(C), NEW from \in 1..Len(x) + 1, NEW to \in 1..Len(x) + 1
    PROVE  /\ Len(Lines(Replace(x, from, to, s))) = LineOf(x, from) + Len(Lines(s)) + Len(Lines(x)) - LineOf(x, to) - 1
           /\ LineOf(x, from) \in Nat /\ LineOf(x, to) \in Nat /\ Len(Lines(s)) \in Nat /\ Len(Lines(x)) \in Nat
<1>1. PICK a, b, front : a = Slice(x, 1, from) /\ b = Slice(x, to, Len(x) + 1) /\ front = Slice(x, 1, to)
  OBVIOUS
<1>2. a \in Seq(C) /\ b \in Seq(C) /\ front \in Seq(C) /\ x = front \o b
  BY <1>1, CutFacts
<1>3. a \o s \in Seq(C)
  BY <1>2, ConcatProperties
<1>4. /\ Len(Lines((a \o s) \o b)) + 1 = Len(Lines(a \o s)) + Len(Lines(b))
      /\ Len(Lines(a \o s)) + 1 = Len(Lines(a)) + Len(Lines(s))
      /\ Len(Lines(front \o b)) + 1 = Len(Lines(front)) + Len(Lines(b))
  BY <1>2, <1>3, LinesOfBoth
<1>5. \A u \in Seq(C) : Len(Lines(u)) \in Nat
  BY LinesType DEF SomeLines
<1>6. LineOf(x, from) = Len(Lines(a)) /\ LineOf(x, to) = Len(Lines(front)) /\ Replace(x, from, to, s) = (a \o s) \o b
  BY <1>1 DEF LineOf, LinesTo, Replace
<1>7. (a \o s) \o b \in Seq(C)
  BY <1>2, <1>3, ConcatProperties
<1>8. PICK A, B, F, S, X, AS, All :
         /\ A = Len(Lines(a)) /\ B = Len(Lines(b)) /\ F = Len(Lines(front)) /\ S = Len(Lines(s)) /\ X = Len(Lines(x))
         /\ AS = Len(Lines(a \o s)) /\ All = Len(Lines((a \o s) \o b))
  OBVIOUS
<1>9. A \in Nat /\ B \in Nat /\ F \in Nat /\ S \in Nat /\ X \in Nat /\ AS \in Nat /\ All \in Nat
  BY <1>2, <1>3, <1>5, <1>7, <1>8
<1>10. All + 1 = AS + B /\ AS + 1 = A + S /\ X + 1 = F + B
  BY <1>2, <1>4, <1>8
<1>11. All = A + S + X - F - 1
  BY <1>9, <1>10
<1>. QED
  BY <1>6, <1>8, <1>9, <1>11

(* The copy x of the text t: of as many lines, and the same text as long   *)
(* as every change was narrow.                                             *)
CopyOf(C, x, t, exact) ==
    /\ x \in Seq(C) /\ t \in Seq(C)
    /\ Len(Lines(x)) = Len(Lines(t))
    /\ exact => x = t

LEMMA EditReceived ==
    ASSUME NEW C, NEW x, NEW t, NEW exact, CopyOf(C, x, t, exact), NEW s \in Seq(C),
           NEW from \in 1..Len(t) + 1, NEW to \in 1..Len(t) + 1
    PROVE  CopyOf(C, Applied(x, Lines(x), Change(t, from, to, s)), Replace(t, from, to, s),
                    exact /\ BothNarrow(t, from, to))
<1>1. PICK change, start, end :
          /\ change = Change(t, from, to, s)
          /\ start = positionToOffset(Lines(x), PositionOf(t, from))
          /\ end = positionToOffset(Lines(x), PositionOf(t, to))
  OBVIOUS
<1>2. x \in Seq(C) /\ t \in Seq(C) /\ Len(Lines(x)) = Len(Lines(t)) /\ (exact => x = t)
  BY DEF CopyOf
<1>3. start \in 0..Len(x) /\ LineOf(x, start + 1) = LineOf(t, from) /\ (x = t /\ IsNarrow(t, from) => start = from - 1)
  BY <1>1, <1>2, ServersPlace
<1>4. end \in 0..Len(x) /\ LineOf(x, end + 1) = LineOf(t, to) /\ (x = t /\ IsNarrow(t, to) => end = to - 1)
  BY <1>1, <1>2, ServersPlace
<1>5. start + 1 \in 1..Len(x) + 1 /\ end + 1 \in 1..Len(x) + 1 /\ Min({end, Len(x)}) = end
  <2>1. Len(x) \in Nat
    BY <1>2
  <2>2. end \in Int /\ Len(x) \in Int /\ end <= Len(x)
    BY <1>4, <2>1
  <2>3. Min({end, Len(x)}) = end
    BY <2>2, MinOfTwo
  <2>. QED
    BY <1>3, <1>4, <2>1, <2>3
<1>6. Applied(x, Lines(x), change) = Replace(x, start + 1, end + 1, s)
  <2>1. ~change.full /\ change.start = PositionOf(t, from) /\ change.end = PositionOf(t, to) /\ change.text = s
    BY <1>1 DEF Change
  <2>. QED
    BY <1>1, <1>5, <2>1 DEF Applied, applyChange
<1>7. Replace(x, start + 1, end + 1, s) \in Seq(C) /\ Replace(t, from, to, s) \in Seq(C)
  BY <1>2, <1>5, ReplaceType
<1>8. Len(Lines(Replace(x, start + 1, end + 1, s))) = Len(Lines(Replace(t, from, to, s)))
  <2>1. Len(Lines(Replace(t, from, to, s))) = LineOf(t, from) + Len(Lines(s)) + Len(Lines(t)) - LineOf(t, to) - 1
    BY <1>2, LinesReplaced
  <2>2. Len(Lines(Replace(x, start + 1, end + 1, s))) =
            LineOf(x, start + 1) + Len(Lines(s)) + Len(Lines(x)) - LineOf(x, end + 1) - 1
    BY <1>2, <1>5, LinesReplaced
  <2>. QED
    BY <1>2, <1>3, <1>4, <2>1, <2>2
<1>9. ASSUME exact, BothNarrow(t, from, to) PROVE Replace(x, start + 1, end + 1, s) = Replace(t, from, to, s)
  <2>1. x = t /\ start = from - 1 /\ end = to - 1
    BY <1>2, <1>3, <1>4, <1>9 DEF BothNarrow
  <2>2. start + 1 = from /\ end + 1 = to
    BY <2>1
  <2>. QED
    BY <2>1, <2>2
<1>. QED
  BY <1>1, <1>6, <1>7, <1>8, <1>9 DEF CopyOf

(* A stretch behind the text. *)
LEMMA TypedBehind ==
    ASSUME NEW C, NEW t \in Seq(C), NEW s \in Seq(C)
    PROVE  Replace(t, Len(t) + 1, Len(t) + 1, s) = t \o s
<1>1. PICK n, cut : n = Len(t) /\ cut = SubSeq(t, n + 1, n)
  OBVIOUS
<1>2. n \in Nat /\ cut = <<>> /\ SubSeq(t, 1, n) = t
  <2>1. n \in Nat
    BY <1>1
  <2>. QED
    BY <1>1, <2>1, SubSeqEmpty, SubSeqFull
<1>3. Slice(t, 1, n + 1) = t /\ Slice(t, n + 1, n + 1) = <<>>
  BY <1>1, <1>2 DEF Slice
<1>4. Replace(t, n + 1, n + 1, s) = (t \o s) \o <<>>
  BY <1>1, <1>3 DEF Replace
<1>5. t \o s \in Seq(C)
  BY ConcatProperties
<1>. QED
  BY <1>1, <1>4, <1>5, ConcatEmptySeq

-----------------------------------------------------------------------------
(* The invariant: the text and its copy are of characters and of as many   *)
(* lines, so that a change has its places in both.                         *)

EditorInv ==
    /\ profile \in Profiles
    /\ CopyOf(Characters, doc.content, text, narrow)
    /\ doc = Document(doc.content)

LEMMA CopyIsText ==
    ASSUME EditorInv
    PROVE  /\ text \in Seq(Characters) /\ doc.content \in Seq(Characters)
           /\ doc.lines = Lines(doc.content)
<1>1. doc = Document(doc.content)
  BY DEF EditorInv
<1>2. doc.lines = Lines(doc.content)
  BY <1>1 DEF Document
<1>. QED
  BY <1>2 DEF EditorInv, CopyOf

LEMMA EncodedType ==
    ASSUME NEW c \in Characters
    PROVE  Encoded(c) \in Seq(Characters)
<1>1. {"wide2", "wide4", "low", "tail"} \subseteq Characters
  BY DEF Characters, identifierChars, wide, continuation
<1>2. <<"wide2", "tail">> \in Seq(Characters)
  BY <1>1
<1>3. <<"wide4", "low", "tail", "tail">> \in Seq(Characters)
  BY <1>1
<1>4. <<c>> \in Seq(Characters)
  OBVIOUS
<1>. QED
  BY <1>2, <1>3, <1>4 DEF Encoded

LEMMA TextsOfTheProfile ==
    ASSUME EditorInv
    PROVE  profile.characters \subseteq Characters /\ profile.length \in Nat /\ Texts \subseteq Seq(Characters)
<1>1. profile.characters \subseteq Characters /\ profile.length \in Nat
  BY ProfilesAssumption DEF EditorInv, ProfilesAssumption
<1>2. ASSUME NEW s \in Texts PROVE s \in Seq(Characters)
  <2>1. s = <<>> \/ \E c \in Characters : s = Encoded(c)
    BY <1>1, <1>2 DEF Texts
  <2>2. CASE s = <<>>
    BY <2>2
  <2>3. ASSUME NEW c \in Characters, s = Encoded(c) PROVE s \in Seq(Characters)
    BY <2>3, EncodedType
  <2>. QED
    BY <2>1, <2>2, <2>3
<1>. QED
  BY <1>1, <1>2

LEMMA EditorStarts == Init => EditorInv
<1>. SUFFICES ASSUME Init PROVE EditorInv
  OBVIOUS
<1>1. profile.begins \in Seq(Characters)
  BY ProfilesAssumption DEF Init, ProfilesAssumption
<1>2. doc.content = text /\ doc = Document(text)
  BY DEF Init, Document
<1>. QED
  BY <1>1, <1>2 DEF Init, EditorInv, CopyOf

(* What is left to show of a message. *)
LEMMA MessageFollowed ==
    ASSUME EditorInv, NEW content, NEW new, doc' = Document(content), text' = new, profile' = profile,
           CopyOf(Characters, content, new, narrow')
    PROVE  EditorInv'
<1>1. doc'.content = content
  BY DEF Document
<1>. QED
  BY <1>1 DEF EditorInv

LEMMA OneEditFollowed ==
    ASSUME EditorInv, NEW from \in 1..Len(text) + 1, NEW to \in 1..Len(text) + 1, NEW s \in Seq(Characters),
           Changed(Replace(text, from, to, s), <<Change(text, from, to, s)>>),
           narrow' = (narrow /\ BothNarrow(text, from, to))
    PROVE  EditorInv'
<1>1. PICK x, t, new, content :
          /\ x = doc.content /\ t = text /\ new = Replace(t, from, to, s)
          /\ content = Applied(x, Lines(x), Change(t, from, to, s))
  OBVIOUS
<1>2. CopyOf(Characters, x, t, narrow) /\ doc.lines = Lines(x)
  BY <1>1, CopyIsText DEF EditorInv
<1>3. CopyOf(Characters, content, new, narrow /\ BothNarrow(t, from, to))
  BY <1>1, <1>2, EditReceived
<1>4. doc' = Document(content)
  BY <1>1, <1>2, OneChange DEF Changed
<1>5. text' = new /\ profile' = profile
  BY <1>1 DEF Changed
<1>6. CopyOf(Characters, content, new, narrow')
  BY <1>1, <1>3
<1>. QED
  BY <1>4, <1>5, <1>6, MessageFollowed

LEMMA TypeFollows ==
    ASSUME EditorInv, NEW c \in profile.characters, Type(c)
    PROVE  EditorInv'
<1>1. PICK s, end : s = Encoded(c) /\ end = Len(text) + 1
  OBVIOUS
<1>2. text \in Seq(Characters) /\ s \in Seq(Characters)
  BY <1>1, CopyIsText, TextsOfTheProfile, EncodedType
<1>3. end \in 1..Len(text) + 1
  BY <1>1, <1>2
<1>4. Replace(text, end, end, s) = text \o s
  BY <1>1, <1>2, TypedBehind
<1>5. Changed(Replace(text, end, end, s), <<Change(text, end, end, s)>>)
  BY <1>1, <1>4 DEF Type
<1>6. narrow' = (narrow /\ BothNarrow(text, end, end))
  BY <1>1 DEF Type, BothNarrow
<1>. QED
  BY <1>2, <1>3, <1>5, <1>6, OneEditFollowed

LEMMA EditTwiceFollows ==
    ASSUME EditorInv, NEW a \in Stretches(Len(text)), NEW b \in Stretches(profile.length),
           NEW s \in Texts, NEW s2 \in Texts, EditTwice(a[1], a[2], s, b[1], b[2], s2)
    PROVE  EditorInv'
<1>1. PICK x, t, from, to, from2, to2, once, twice, c1, c2 :
          /\ x = doc.content /\ t = text /\ from = a[1] /\ to = a[2] /\ from2 = b[1] /\ to2 = b[2]
          /\ once = Replace(t, from, to, s) /\ twice = Replace(once, from2, to2, s2)
          /\ c1 = Change(t, from, to, s) /\ c2 = Change(once, from2, to2, s2)
  OBVIOUS
<1>2. /\ t \in Seq(Characters) /\ profile.length \in Nat
      /\ s \in Seq(Characters) /\ s2 \in Seq(Characters)
      /\ CopyOf(Characters, x, t, narrow) /\ doc.lines = Lines(x)
  BY <1>1, CopyIsText, TextsOfTheProfile DEF EditorInv
<1>3. from \in 1..Len(t) + 1 /\ to \in 1..Len(t) + 1
  BY <1>1 DEF Stretches
<1>4. once \in Seq(Characters)
  BY <1>1, <1>2, <1>3, ReplaceType
<1>5. /\ to2 <= Len(once) + 1
      /\ text' = twice /\ doc' = Update(doc, <<c1, c2>>) /\ profile' = profile
      /\ narrow' = (narrow /\ BothNarrow(t, from, to) /\ BothNarrow(once, from2, to2))
  BY <1>1 DEF EditTwice, Changed
<1>6. from2 \in 1..Len(once) + 1 /\ to2 \in 1..Len(once) + 1
  <2>1. from2 \in 1..profile.length + 1 /\ to2 \in 1..profile.length + 1 /\ from2 <= to2
    BY <1>1 DEF Stretches
  <2>2. Len(once) \in Nat
    BY <1>4
  <2>. QED
    BY <1>2, <1>5, <2>1, <2>2
<1>7. PICK y, z : y = Applied(x, Lines(x), c1) /\ z = Applied(y, Lines(y), c2)
  OBVIOUS
<1>8. CopyOf(Characters, y, once, narrow /\ BothNarrow(t, from, to))
  BY <1>1, <1>2, <1>3, <1>7, EditReceived
<1>9. CopyOf(Characters, z, twice, (narrow /\ BothNarrow(t, from, to)) /\ BothNarrow(once, from2, to2))
  <2>1. PICK exact : exact = (narrow /\ BothNarrow(t, from, to))
    OBVIOUS
  <2>2. CopyOf(Characters, y, once, exact)
    BY <1>8, <2>1
  <2>3. CopyOf(Characters, z, twice, exact /\ BothNarrow(once, from2, to2))
    BY <1>1, <1>2, <1>6, <1>7, <2>2, EditReceived
  <2>. QED
    BY <2>1, <2>3
<1>10. doc' = Document(z)
  <2>1. PICK half : half = Document(y)
    OBVIOUS
  <2>2. half.content = y /\ half.lines = Lines(y)
    BY <2>1 DEF Document
  <2>3. half = Document(Applied(doc.content, doc.lines, c1))
    BY <1>1, <1>2, <1>7, <2>1
  <2>4. Update(doc, <<c1, c2>>) = Document(Applied(half.content, half.lines, c2))
    BY <2>3, TwoChanges
  <2>. QED
    BY <1>5, <1>7, <2>2, <2>4
<1>11. CopyOf(Characters, z, twice, narrow')
  BY <1>5, <1>9 DEF CopyOf
<1>. QED
  BY <1>5, <1>10, <1>11, MessageFollowed

LEMMA PasteFollows ==
    ASSUME EditorInv, NEW s \in Texts, Paste(s)
    PROVE  EditorInv'
<1>1. s \in Seq(Characters)
  BY TextsOfTheProfile
<1>2. text' = s /\ doc' = Update(doc, <<[full |-> TRUE, text |-> s]>>) /\ profile' = profile
  BY DEF Paste, Changed
<1>3. PICK change : change = [full |-> TRUE, text |-> s]
  OBVIOUS
<1>4. Applied(doc.content, doc.lines, change) = s
  BY <1>3 DEF Applied
<1>5. doc' = Document(s)
  BY <1>2, <1>3, <1>4, OneChange
<1>6. CopyOf(Characters, s, s, narrow')
  BY <1>1 DEF CopyOf
<1>. QED
  BY <1>2, <1>5, <1>6, MessageFollowed

LEMMA GreatestOf ==
    ASSUME NEW n \in Nat, NEW S, S \subseteq 1..n, S # {}
    PROVE  Max(S) \in S
<1>1. PICK R : R = {n - i : i \in S}
  OBVIOUS
<1>2. R \subseteq Nat /\ R # {}
  <2>1. \A i \in S : n - i \in Nat
    OBVIOUS
  <2>. QED
    BY <1>1, <2>1
<1>3. PICK m \in R : \A j \in R : m <= j
  BY <1>2, LeastNatural
<1>4. PICK x \in S : m = n - x
  BY <1>1, <1>3
<1>5. \A y \in S : x >= y
  BY <1>1, <1>3, <1>4
<1>. QED
  BY <1>5 DEF Max

(* Whatever the position, the editor has a place for it. *)
LEMMA PlaceType ==
    ASSUME NEW C, NEW t \in Seq(C), NEW line \in Nat, NEW character \in Nat
    PROVE  PlaceOf(t, Position(line, character)) \in 1..Len(t) + 1
<1>1. PICK n, pos, S : n = Len(t) + 1 /\ pos = Position(line, character) /\ S = {i \in 1..n : NotAfter(PositionOf(t, i), pos)}
  OBVIOUS
<1>2. n \in Nat /\ 1 \in 1..n /\ 1 - 1 = 0
  BY <1>1
<1>3. PositionOf(t, 1) = Position(0, 0)
  <2>1. Slice(t, 1, 1) = <<>>
    BY SubSeqEmpty DEF Slice
  <2>2. PICK lines, none : lines = <<none>> /\ none = <<>>
    OBVIOUS
  <2>3. Len(lines) - 1 = 0 /\ Last(lines) = none
    BY <2>2 DEF Last
  <2>4. LinesTo(t, 1) = lines
    BY <2>1, <2>2, NoText DEF LinesTo
  <2>5. Units(none) = 0
    <3>1. none \in Seq({}) /\ Len(none) = 0
      BY <2>2
    <3>2. Units(none) \in 0..Len(none)
      BY <3>1, UnitsFacts
    <3>. QED
      BY <3>1, <3>2
  <2>. QED
    BY <2>3, <2>4, <2>5 DEF PositionOf
<1>4. 1 \in S
  <2>1. NotAfter(Position(0, 0), pos)
    BY <1>1 DEF NotAfter, Position
  <2>. QED
    BY <1>1, <1>2, <1>3, <2>1
<1>5. Max(S) \in S
  BY <1>1, <1>2, <1>4, GreatestOf
<1>. QED
  BY <1>1, <1>5 DEF PlaceOf

LEMMA FormatFollows ==
    ASSUME EditorInv, NEW formatted \in Seq(Characters), Format(formatted)
    PROVE  EditorInv'
<1>1. PICK t, edit : t = text /\ edit = handleFormatting(doc.content, formatted)[1]
  OBVIOUS
<1>2. t \in Seq(Characters) /\ doc.content = t /\ formatted # t
  BY <1>1, CopyIsText DEF Format
<1>3. Lines(t) \in Seq(Seq(Characters)) /\ Len(Lines(t)) \in Nat \ {0}
  BY <1>2, LinesType DEF SomeLines
<1>4. PICK line, character : line = Len(Lines(t)) - 1 /\ character = Len(Last(Lines(t)))
  OBVIOUS
<1>5. line \in Nat /\ character \in Nat
  <2>1. Lines(t)[Len(Lines(t))] \in Seq(Characters)
    BY <1>3, ElementOfSeq
  <2>. QED
    BY <1>3, <1>4, <2>1 DEF Last
<1>6. edit.text = formatted /\ edit.start = Position(0, 0) /\ edit.end = Position(line, character)
  BY <1>1, <1>2, <1>4 DEF handleFormatting
<1>7. PICK from, to : from = PlaceOf(t, edit.start) /\ to = PlaceOf(t, edit.end)
  OBVIOUS
<1>8. from \in 1..Len(t) + 1 /\ to \in 1..Len(t) + 1
  BY <1>2, <1>5, <1>6, <1>7, PlaceType
<1>9. /\ Changed(Replace(t, from, to, formatted), <<Change(t, from, to, formatted)>>)
      /\ narrow' = (narrow /\ BothNarrow(t, from, to))
  BY <1>1, <1>6, <1>7 DEF Format
<1>. QED
  BY <1>1, <1>8, <1>9, OneEditFollowed

LEMMA EditorStep == EditorInv /\ [Next]_vars => EditorInv'
<1>. SUFFICES ASSUME EditorInv, [Next]_vars PROVE EditorInv'
  OBVIOUS
<1>1. ASSUME NEW c \in profile.characters, Type(c) PROVE EditorInv'
  BY <1>1, TypeFollows
<1>2. ASSUME Edit PROVE EditorInv'
  <2>1. ASSUME NEW a \in Stretches(Len(text)), NEW b \in Stretches(profile.length),
               NEW s \in Texts, NEW s2 \in Texts, EditTwice(a[1], a[2], s, b[1], b[2], s2)
        PROVE  EditorInv'
    BY <2>1, EditTwiceFollows
  <2>2. ASSUME NEW s \in Texts, Paste(s) PROVE EditorInv'
    BY <2>2, PasteFollows
  <2>3. ASSUME NEW final \in BOOLEAN, Format(formatSQL(doc.content, final)) PROVE EditorInv'
    BY <2>3, CopyIsText, FormatType, FormatFollows
  <2>4. ASSUME NEW s \in Texts, Format(s) PROVE EditorInv'
    BY <2>4, TextsOfTheProfile, FormatFollows
  <2>. QED
    BY <1>2, <2>1, <2>2, <2>3, <2>4 DEF Edit
<1>3. ASSUME NEW asked, NEW new, Parse(asked, new) PROVE EditorInv'
  BY <1>3 DEF Parse, EditorInv
<1>4. CASE UNCHANGED vars
  BY <1>4 DEF vars, EditorInv
<1>. QED
  BY <1>1, <1>2, <1>3, <1>4 DEF Next

(* Of a text of any length, after any number of messages - characters      *)
(* typed, two changes at once, a whole text, the answer to a request to    *)
(* format - the server's copy is what the editor shows, as long as no      *)
(* change was behind a letter of several bytes on its line; and whatever   *)
(* the changes, it has as many lines, so that none is out of its range     *)
(* (documents.go:192, 289, 309, handler.go:759).                           *)
THEOREM ServerFollows == Spec => []ServerFollowsTheEditor
<1>1. EditorInv => ServerFollowsTheEditor
  BY CopyIsText DEF EditorInv, CopyOf, ServerFollowsTheEditor
<1>. QED
  BY <1>1, EditorStarts, EditorStep, PTL DEF Spec

(* What positionToOffset makes of a position that counts bytes is the      *)
(* offset of its place, in every text and at every place of it; of one     *)
(* that counts the units of UTF-16, as editors do, it makes that only if   *)
(* no letter of several bytes is before the place on its line, and an      *)
(* earlier one otherwise (documents.go:309).                               *)
THEOREM PositionsAgree ==
    \A t \in Seq(Characters) : \A i \in 1..Len(t) + 1 :
        LET offset == positionToOffset(Lines(t), PositionOf(t, i))
        IN  /\ positionToOffset(Lines(t), BytePosition(t, i)) = i - 1
            /\ offset <= i - 1
            /\ offset = i - 1 <=> "tail" \notin ToSet(Last(LinesTo(t, i)))
<1>. SUFFICES ASSUME NEW t \in Seq(Characters), NEW i \in 1..Len(t) + 1
              PROVE  /\ positionToOffset(Lines(t), BytePosition(t, i)) = i - 1
                     /\ positionToOffset(Lines(t), PositionOf(t, i)) <= i - 1
                     /\ positionToOffset(Lines(t), PositionOf(t, i)) = i - 1
                            <=> "tail" \notin ToSet(Last(LinesTo(t, i)))
  OBVIOUS
<1>1. PICK byte, n : byte = ByteOf(t, i) /\ n = LineOf(t, i)
  OBVIOUS
<1>2. PICK c \in 0..byte :
          /\ PositionOf(t, i) = Position(n - 1, c) /\ BytePosition(t, i) = Position(n - 1, byte)
          /\ c = byte <=> "tail" \notin ToSet(Last(LinesTo(t, i)))
  BY <1>1, PositionFacts
<1>3. byte \in Nat
  BY <1>1, PlaceFacts DEF ByteOf
<1>4. /\ positionToOffset(Lines(t), Position(n - 1, c)) = i - 1 - (byte - c)
      /\ positionToOffset(Lines(t), Position(n - 1, byte)) = i - 1 - (byte - byte)
  BY <1>1, <1>2, <1>3, PositionIsOffset
<1>5. i \in Int /\ c \in Int /\ c <= byte
  BY <1>2, <1>3
<1>. QED
  BY <1>2, <1>3, <1>4, <1>5

-----------------------------------------------------------------------------
(* Where the readers of a token end. First, the first place from i on.     *)

LEMMA LeastPlace ==
    ASSUME NEW n \in Nat, NEW i \in Nat, NEW X \in SUBSET (i..n)
    PROVE  /\ Min(X \cup {n + 1}) = n + 1 \/ (Min(X \cup {n + 1}) \in i..n /\ Min(X \cup {n + 1}) \in X)
           /\ \A x \in X : Min(X \cup {n + 1}) <= x
<1>1. PICK Y : Y = X \cup {n + 1}
  OBVIOUS
<1>2. Y # {} /\ Y \in SUBSET Nat
  BY <1>1
<1>3. PICK m \in Y : \A y \in Y : m <= y
  BY <1>2, LeastNatural
<1>4. Min(Y) \in Y /\ \A y \in Y : Min(Y) <= y
  BY <1>3 DEF Min
<1>. QED
  BY <1>1, <1>4

Text == Seq(Characters)

LEMMA FirstOtherFacts ==
    ASSUME NEW t \in Text, NEW i \in 1..Len(t) + 1, NEW S
    PROVE  /\ FirstOther(t, i, S) \in i..Len(t) + 1
           /\ \A j \in i..FirstOther(t, i, S) - 1 : t[j] \in S
           /\ FirstOther(t, i, S) <= Len(t) => t[FirstOther(t, i, S)] \notin S
<1>1. PICK n, X : n = Len(t) /\ X = {j \in i..n : t[j] \notin S}
  OBVIOUS
<1>2. n \in Nat /\ i \in Nat /\ X \in SUBSET (i..n)
  BY <1>1 DEF Text
<1>3. PICK m : m = Min(X \cup {n + 1})
  OBVIOUS
<1>4. (m = n + 1 \/ (m \in i..n /\ m \in X)) /\ \A x \in X : m <= x
  BY <1>2, <1>3, LeastPlace
<1>5. m = FirstOther(t, i, S)
  BY <1>1, <1>3 DEF FirstOther
<1>6. m \in i..n + 1
  BY <1>1, <1>2, <1>4
<1>7. ASSUME NEW j \in i..m - 1 PROVE t[j] \in S
  <2>1. j \in i..n /\ ~(m <= j)
    BY <1>2, <1>6
  <2>2. j \notin X
    BY <1>4, <2>1
  <2>. QED
    BY <1>1, <2>1, <2>2
<1>8. m <= n => t[m] \notin S
  BY <1>1, <1>2, <1>4
<1>. QED
  BY <1>1, <1>5, <1>6, <1>7, <1>8

LEMMA FirstOfFacts ==
    ASSUME NEW t \in Text, NEW i \in 0..Len(t) + 1, NEW S
    PROVE  FirstOf(t, i, S) \in i..Len(t) + 1
<1>1. PICK n, X : n = Len(t) /\ X = {j \in i..n : t[j] \in S}
  OBVIOUS
<1>2. n \in Nat /\ i \in Nat /\ X \in SUBSET (i..n)
  BY <1>1 DEF Text
<1>3. PICK m : m = Min(X \cup {n + 1})
  OBVIOUS
<1>4. m = n + 1 \/ (m \in i..n /\ m \in X)
  BY <1>2, <1>3, LeastPlace
<1>5. m = FirstOf(t, i, S)
  BY <1>1, <1>3 DEF FirstOf
<1>. QED
  BY <1>1, <1>2, <1>4, <1>5

(* Behind the end of the text or there where s is found whole.             *)
LEMMA FirstAtFacts ==
    ASSUME NEW t \in Text, NEW i \in Nat, NEW s
    PROVE  \/ FirstAt(t, i, s) = Len(t) + 1
           \/ FirstAt(t, i, s) \in i..Len(t) /\ LooksAt(t, FirstAt(t, i, s), s)
<1>1. PICK n, X : n = Len(t) /\ X = {j \in i..n : LooksAt(t, j, s)}
  OBVIOUS
<1>2. n \in Nat /\ i \in Nat /\ X \in SUBSET (i..n)
  BY <1>1 DEF Text
<1>3. PICK m : m = Min(X \cup {n + 1})
  OBVIOUS
<1>4. m = n + 1 \/ (m \in i..n /\ m \in X)
  BY <1>2, <1>3, LeastPlace
<1>5. m = FirstAt(t, i, s)
  BY <1>1, <1>3 DEF FirstAt
<1>. QED
  BY <1>1, <1>2, <1>4, <1>5

LEMMA AtFacts ==
    ASSUME NEW t \in Text, NEW i \in Nat
    PROVE  /\ i \in 1..Len(t) => At(t, i) = t[i] /\ At(t, i) \in Characters
           /\ i \notin 1..Len(t) => At(t, i) = ""
           /\ "" \notin Characters
<1>1. DOMAIN t = 1..Len(t) /\ \A j \in 1..Len(t) : t[j] \in Characters
  BY DEF Text
<1>2. "" \notin Characters
  BY DEF Characters, identifierChars, letters, keywords, Digits, wide, continuation, Blank, marks
<1>. QED
  BY <1>1, <1>2 DEF At

(* A character of some kind is a place in the text.                        *)
LEMMA SomethingAt ==
    ASSUME NEW t \in Text, NEW i \in Nat, At(t, i) # ""
    PROVE  i \in 1..Len(t) /\ At(t, i) = t[i]
  BY AtFacts

-----------------------------------------------------------------------------
(* A token from i on ends behind i, at the latest with the text.           *)

Kinds == {"quoted", "backtick", "bracket", "triple", "string", "$", "dollar", "national", "compound", "word", "number",
          "operator", "placeholder"}

ReadFrom(n, i, token) ==
    token = Error \/ \E kind \in Kinds, to \in i + 1..n + 1 : token = Token(kind, i, to)

ClosesFrom(n, i, to) == to = 0 \/ to \in i + 1..n + 1

SomeQuote(how) == how.q # ""

ClosesBehind(n, j, close) == j > n \/ \A k \in Nat : k > j => ClosesFrom(n, k, close[k])

LEMMA ClosingFacts ==
    ASSUME NEW t \in Text, NEW how, NEW j \in Nat, NEW close,
           SomeQuote(how), ClosesBehind(Len(t), j, close)
    PROVE  ClosesFrom(Len(t), j, Closing(t, how, j, close))
<1>1. PICK n, c, d : n = Len(t) /\ c = At(t, j) /\ d = At(t, j + 1)
  OBVIOUS
<1>2. n \in Nat
  BY <1>1 DEF Text
<1>3. CASE c = ""
  BY <1>1, <1>3 DEF Closing, ClosesFrom, SomeQuote
<1>4. CASE c # ""
  <2>1. j \in 1..n
    BY <1>1, <1>4, AtFacts
  <2>2. ClosesFrom(n, j, close[j + 1])
    <3>1. ClosesFrom(n, j + 1, close[j + 1])
      BY <1>1, <2>1 DEF ClosesBehind
    <3>. QED
      BY <1>2, <2>1, <3>1 DEF ClosesFrom
  <2>3. ClosesFrom(n, j, close[j + 2])
    <3>1. ClosesFrom(n, j + 2, close[j + 2])
      BY <1>1, <2>1 DEF ClosesBehind
    <3>. QED
      BY <1>2, <2>1, <3>1 DEF ClosesFrom
  <2>4. ClosesFrom(n, j, j + 1) /\ ClosesFrom(n, j, 0)
    BY <1>2, <2>1 DEF ClosesFrom
  <2>5. Closing(t, how, j, close) \in {close[j + 1], close[j + 2], j + 1, 0}
    BY DEF Closing
  <2>. QED
    BY <1>1, <2>2, <2>3, <2>4, <2>5
<1>. QED
  BY <1>3, <1>4

(* The places where what is open may close are the values of one function. *)
LEMMA CloseRecursion ==
    ASSUME NEW t \in Text, NEW how, SomeQuote(how)
    PROVE  \E f : /\ \A j \in Nat : f[j] = Closing(t, how, j, f)
                  /\ \A j \in Nat : Close(t, j, how) = f[j]
<1>. DEFINE n == Len(t)
            V == [Nat -> Nat]
            Is(f) == f = [j \in Nat |-> Closing(t, how, j, f)]
<1>1. n \in Nat
  BY DEF Text
<1>2. PICK F : F = [p \in Nat \X V |-> Closing(t, how, p[1], p[2])]
  OBVIOUS
<1>3. ASSUME NEW i \in Nat, NEW f \in V PROVE F[<<i, f>>] = Closing(t, how, i, f)
  BY <1>2
<1>4. ASSUME NEW i \in Nat, NEW f \in V PROVE F[<<i, f>>] \in Nat
  <2>1. Closing(t, how, i, f) \in {f[i + 1], f[i + 2], i + 1, 0}
    BY DEF Closing
  <2>2. i + 1 \in Nat /\ i + 2 \in Nat
    OBVIOUS
  <2>. QED
    BY <1>3, <2>1, <2>2
<1>5. ASSUME NEW i \in Nat, NEW f \in V, NEW g \in V, i > n \/ \A j \in Nat : j > i => f[j] = g[j]
      PROVE  F[<<i, f>>] = F[<<i, g>>]
  <2>1. CASE i > n
    <3>1. At(t, i) = ""
      <4>1. i \notin 1..n
        BY <2>1, <1>1
      <4>. QED
        BY <4>1, AtFacts
    <3>2. ASSUME NEW h PROVE Closing(t, how, i, h) = 0
      BY <3>1 DEF Closing, SomeQuote
    <3>. QED
      BY <1>3, <3>2
  <2>2. CASE \A j \in Nat : j > i => f[j] = g[j]
    <3>1. f[i + 1] = g[i + 1] /\ f[i + 2] = g[i + 2]
      BY <2>2
    <3>2. Closing(t, how, i, f) = Closing(t, how, i, g)
      BY <3>1 DEF Closing
    <3>. QED
      BY <1>3, <3>2
  <2>. QED
    BY <1>5, <2>1, <2>2
<1>6. LooksAhead(F, n, Nat)
  BY <1>4, <1>5 DEF LooksAhead
<1>7. PICK g \in V : \A j \in Nat : g[j] = F[<<j, g>>]
  <2>1. PICK W, v : W = Nat /\ v = 0
    OBVIOUS
  <2>2. v \in W /\ LooksAhead(F, n, W)
    BY <1>6, <2>1
  <2>3. \E g \in [Nat -> W] : \A j \in Nat : g[j] = F[<<j, g>>]
    BY <1>1, <2>2, BackwardRecursionExists
  <2>. QED
    BY <2>1, <2>3
<1>8. Is(g)
  <2>1. g = [j \in Nat |-> g[j]]
    OBVIOUS
  <2>2. ASSUME NEW j \in Nat PROVE g[j] = Closing(t, how, j, g)
    BY <1>3, <1>7
  <2>. QED
    BY <2>1, <2>2
<1>9. PICK f : f = CHOOSE h : Is(h)
  OBVIOUS
<1>10. Is(f)
  BY <1>8, <1>9
<1>11. ASSUME NEW j \in Nat PROVE f[j] = Closing(t, how, j, f)
  BY <1>10
<1>12. ASSUME NEW j \in Nat PROVE Close(t, j, how) = f[j]
  BY <1>9 DEF Close
<1>. QED
  BY <1>11, <1>12

LEMMA CloseFacts ==
    ASSUME NEW t \in Text, NEW how, SomeQuote(how), NEW i \in Nat
    PROVE  ClosesFrom(Len(t), i, Close(t, i, how))
<1>1. PICK f : /\ \A j \in Nat : f[j] = Closing(t, how, j, f)
               /\ \A j \in Nat : Close(t, j, how) = f[j]
  BY CloseRecursion
<1>. DEFINE S == {j \in Nat : ClosesFrom(Len(t), j, f[j])}
<1>2. ASSUME NEW j \in Nat, j > Len(t) \/ \A k \in Nat : k > j => k \in S PROVE j \in S
  <2>1. ClosesBehind(Len(t), j, f)
    BY <1>2 DEF ClosesBehind
  <2>2. ClosesFrom(Len(t), j, Closing(t, how, j, f))
    BY <2>1, ClosingFacts
  <2>. QED
    BY <1>1, <2>2
<1>3. Len(t) \in Nat
  BY DEF Text
<1>. HIDE DEF S
<1>4. Nat \subseteq S
  BY <1>2, <1>3, BackwardInduction
<1>5. ClosesFrom(Len(t), i, f[i])
  BY <1>4 DEF S
<1>. QED
  BY <1>1, <1>5

LEMMA ClosedFacts ==
    ASSUME NEW t \in Text, NEW i \in 1..Len(t), NEW kind \in Kinds, NEW how, SomeQuote(how)
    PROVE  ReadFrom(Len(t), i, Closed(t, kind, i, how))
<1>1. PICK n, to : n = Len(t) /\ to = Close(t, i + 1, how)
  OBVIOUS
<1>2. n \in Nat /\ i \in 1..n /\ i + 1 \in Nat
  BY <1>1 DEF Text
<1>3. ClosesFrom(n, i + 1, to)
  BY <1>1, <1>2, CloseFacts
<1>4. Closed(t, kind, i, how) = IF to = 0 THEN Error ELSE Token(kind, i, to)
  BY <1>1 DEF Closed
<1>5. CASE to = 0
  BY <1>1, <1>4, <1>5 DEF ReadFrom
<1>6. CASE to # 0
  <2>1. to \in i + 1..n + 1
    BY <1>2, <1>3, <1>6 DEF ClosesFrom
  <2>. QED
    BY <1>1, <1>4, <1>6, <2>1 DEF ReadFrom
<1>. QED
  BY <1>5, <1>6

LEMMA QuotesFacts ==
    ASSUME NEW q, q # "", NEW doubled, NEW escaped, NEW oneLine
    PROVE  SomeQuote(Quoted(q, doubled, escaped, oneLine))
<1>1. Quoted(q, doubled, escaped, oneLine).q = q
  BY DEF Quoted
<1>. QED
  BY <1>1 DEF SomeQuote

(* The end of a token is behind its beginning and in the text.             *)
LEMMA TokenFacts ==
    ASSUME NEW n, NEW i, NEW kind \in Kinds, NEW to \in i + 1..n + 1
    PROVE  ReadFrom(n, i, Token(kind, i, to))
  BY DEF ReadFrom

LEMMA NoTokenFacts ==
    ASSUME NEW n, NEW i
    PROVE  ReadFrom(n, i, Error)
  BY DEF ReadFrom

LEMMA KindFacts ==
    {"quoted", "backtick", "bracket", "triple", "string", "$", "dollar", "national", "compound", "word", "number",
     "operator", "placeholder"} \subseteq Kinds
  BY DEF Kinds

LEMMA ReadQuoted ==
    ASSUME NEW t \in Text, NEW i \in 1..Len(t)
    PROVE  /\ ReadFrom(Len(t), i, readQuotedIdentifier(t, i))
           /\ ReadFrom(Len(t), i, readBacktickIdentifier(t, i))
           /\ ReadFrom(Len(t), i, readBracketIdentifier(t, i))
<1>1. /\ SomeQuote(Quoted("\"", TRUE, {}, TRUE)) /\ SomeQuote(Quoted("bt", TRUE, {}, FALSE))
      /\ SomeQuote(Quoted("]", FALSE, {}, FALSE))
  BY QuotesFacts
<1>2. ReadFrom(Len(t), i, readQuotedIdentifier(t, i))
  BY <1>1, KindFacts, ClosedFacts DEF readQuotedIdentifier
<1>3. ReadFrom(Len(t), i, readBacktickIdentifier(t, i))
  BY <1>1, KindFacts, ClosedFacts DEF readBacktickIdentifier
<1>4. ReadFrom(Len(t), i, readBracketIdentifier(t, i))
  BY <1>1, KindFacts, ClosedFacts DEF readBracketIdentifier
<1>. QED
  BY <1>2, <1>3, <1>4

LEMMA ReadString ==
    ASSUME NEW t \in Text, NEW i \in 1..Len(t), NEW d
    PROVE  ReadFrom(Len(t), i, readQuotedString(t, i, d))
<1>1. PICK n, close : n = Len(t) /\ close = FirstAt(t, i + 3, triple)
  OBVIOUS
<1>2. n \in Nat /\ i \in 1..n /\ i + 3 \in Nat
  BY <1>1 DEF Text
<1>3. ReadFrom(n, i, readTripleQuotedString(t, i))
  <2>1. readTripleQuotedString(t, i) = IF close > n THEN Error ELSE Token("triple", i, close + 3)
    BY <1>1 DEF readTripleQuotedString
  <2>2. CASE close > n
    BY <2>1, <2>2, NoTokenFacts
  <2>3. CASE ~(close > n)
    <3>1. close \in i + 3..n /\ LooksAt(t, close, triple)
      BY <1>1, <1>2, <2>3, FirstAtFacts
    <3>2. Len(triple) = 3
      BY DEF triple
    <3>3. close + 3 \in i + 1..n + 1
      BY <1>1, <1>2, <3>1, <3>2 DEF LooksAt
    <3>. QED
      BY <2>1, <2>3, <3>3, KindFacts, TokenFacts
  <2>. QED
    BY <2>2, <2>3
<1>4. ReadFrom(n, i, Closed(t, "string", i, Quoted("'", TRUE, escapes(d), FALSE)))
  BY <1>1, KindFacts, QuotesFacts, ClosedFacts
<1>. QED
  BY <1>1, <1>3, <1>4 DEF readQuotedString

LEMMA AfterFacts ==
    ASSUME NEW t \in Text, NEW i \in 1..Len(t) + 1
    PROVE  /\ AfterWord(t, i) \in i..Len(t) + 1 /\ AfterDigits(t, i) \in i..Len(t) + 1
           /\ skipWhitespace(t, i) \in i..Len(t) + 1
           /\ isIdentifierStart(At(t, i)) => AfterWord(t, i) \in i + 1..Len(t) + 1
           /\ At(t, i) \in Digits => AfterDigits(t, i) \in i + 1..Len(t) + 1
<1>1. PICK n, a, b : n = Len(t) /\ a = AfterWord(t, i) /\ b = AfterDigits(t, i)
  OBVIOUS
<1>2. n \in Nat /\ i \in 1..n + 1 /\ i \in Nat
  BY <1>1 DEF Text
<1>3. a \in i..n + 1 /\ (a <= n => t[a] \notin identifierChars)
  BY <1>1, FirstOtherFacts DEF AfterWord
<1>4. b \in i..n + 1 /\ (b <= n => t[b] \notin Digits)
  BY <1>1, FirstOtherFacts DEF AfterDigits
<1>5. skipWhitespace(t, i) \in i..Len(t) + 1
  BY FirstOtherFacts DEF skipWhitespace
<1>6. ASSUME isIdentifierStart(At(t, i)) PROVE a # i
  <2>1. At(t, i) # "" /\ At(t, i) \in identifierChars
    BY <1>6 DEF isIdentifierStart, identifierChars, letters, keywords, wide
  <2>2. i \in 1..n /\ t[i] \in identifierChars
    BY <1>1, <1>2, <2>1, SomethingAt
  <2>. QED
    BY <1>3, <2>2
<1>7. ASSUME At(t, i) \in Digits PROVE b # i
  <2>1. At(t, i) # ""
    BY <1>7 DEF Digits
  <2>2. i \in 1..n /\ t[i] \in Digits
    BY <1>1, <1>2, <1>7, <2>1, SomethingAt
  <2>. QED
    BY <1>4, <2>2
<1>8. a # i => a \in i + 1..n + 1
  BY <1>2, <1>3
<1>9. b # i => b \in i + 1..n + 1
  BY <1>2, <1>4
<1>. QED
  BY <1>1, <1>3, <1>4, <1>5, <1>6, <1>7, <1>8, <1>9

LEMMA ReadAs ==
    ASSUME NEW n \in Nat, NEW i \in 1..n, NEW j \in i..n, NEW kind \in Kinds, NEW token, ReadFrom(n, j, token)
    PROVE  ReadFrom(n, i, As(kind, i, token))
<1>1. CASE token = Error
  <2>1. ~token.ok
    BY <1>1 DEF Error
  <2>. QED
    BY <2>1, NoTokenFacts DEF As
<1>2. CASE token # Error
  <2>1. PICK k \in Kinds, to \in j + 1..n + 1 : token = Token(k, j, to)
    BY <1>2 DEF ReadFrom
  <2>2. token.ok /\ token.to = to
    BY <2>1 DEF Token
  <2>3. to \in i + 1..n + 1
    OBVIOUS
  <2>. QED
    BY <2>2, <2>3, TokenFacts DEF As
<1>. QED
  BY <1>1, <1>2

LEMMA ReadWord ==
    ASSUME NEW t \in Text, NEW i \in 1..Len(t), isIdentifierStart(At(t, i)), NEW d
    PROVE  ReadFrom(Len(t), i, readIdentifier(t, i, d))
<1>1. PICK n, to, next, after :
          n = Len(t) /\ to = AfterWord(t, i) /\ next = skipWhitespace(t, to) /\ after = AfterWord(t, next)
  OBVIOUS
<1>2. n \in Nat /\ i \in 1..n /\ i \in 1..n + 1
  BY <1>1 DEF Text
<1>3. to \in i + 1..n + 1 /\ to \in 1..n + 1
  BY <1>1, <1>2, AfterFacts
<1>4. next \in to..n + 1 /\ next \in 1..n + 1
  BY <1>1, <1>2, <1>3, AfterFacts
<1>5. after \in next..n + 1
  BY <1>1, <1>4, AfterFacts
<1>6. after \in i + 1..n + 1
  BY <1>2, <1>3, <1>4, <1>5
<1>7. readIdentifier(t, i, d) =
          CASE d = "sqlserver" /\ Slice(t, i, to) = <<"n">> /\ At(t, to) = "'" ->
                As("national", i, readQuotedString(t, to, d))
            [] <<Slice(t, i, to), Slice(t, next, after)>> \in compoundKeywordTypes -> Token("compound", i, after)
            [] OTHER -> Token("word", i, to)
  BY <1>1 DEF readIdentifier
<1>8. CASE At(t, to) = "'"
  <2>1. to \in 1..n /\ to \in i..n
    <3>1. to \in Nat /\ At(t, to) # ""
      BY <1>2, <1>3, <1>8
    <3>2. to \in 1..n
      BY <1>1, <3>1, SomethingAt
    <3>. QED
      BY <1>3, <3>2
  <2>2. ReadFrom(n, to, readQuotedString(t, to, d))
    BY <1>1, <2>1, ReadString
  <2>3. ReadFrom(n, i, As("national", i, readQuotedString(t, to, d)))
    BY <1>2, <2>1, <2>2, KindFacts, ReadAs
  <2>4. ReadFrom(n, i, Token("compound", i, after)) /\ ReadFrom(n, i, Token("word", i, to))
    BY <1>3, <1>6, KindFacts, TokenFacts
  <2>. QED
    BY <1>1, <1>7, <2>3, <2>4
<1>9. CASE At(t, to) # "'"
  <2>1. readIdentifier(t, i, d) \in {Token("compound", i, after), Token("word", i, to)}
    BY <1>7, <1>9
  <2>2. ReadFrom(n, i, Token("compound", i, after)) /\ ReadFrom(n, i, Token("word", i, to))
    BY <1>3, <1>6, KindFacts, TokenFacts
  <2>. QED
    BY <1>1, <2>1, <2>2
<1>. QED
  BY <1>8, <1>9

LEMMA ReadDigits ==
    ASSUME NEW t \in Text, NEW i \in 1..Len(t), At(t, i) \in Digits
    PROVE  ReadFrom(Len(t), i, readNumber(t, i))
<1>1. PICK n, whole, point : n = Len(t) /\ whole = AfterDigits(t, i) /\ point = (At(t, whole) = ".")
  OBVIOUS
<1>2. PICK fraction : fraction = IF point THEN AfterDigits(t, whole + 1) ELSE whole
  OBVIOUS
<1>3. PICK exponent, digits :
          /\ exponent = (At(t, fraction) = "e")
          /\ digits = IF At(t, fraction + 1) \in {"+", "-"} THEN fraction + 2 ELSE fraction + 1
  OBVIOUS
<1>4. n \in Nat /\ i \in 1..n /\ i \in 1..n + 1
  BY <1>1 DEF Text
<1>5. whole \in i + 1..n + 1
  BY <1>1, <1>4, AfterFacts
<1>6. fraction \in i + 1..n + 1
  <2>1. CASE point
    <3>1. whole \in Nat /\ At(t, whole) # ""
      <4>1. At(t, whole) = "."
        BY <1>1, <2>1, Zenon
      <4>2. whole \in Nat
        BY <1>4, <1>5
      <4>. QED
        BY <4>1, <4>2
    <3>2. whole \in 1..n
      BY <1>1, <3>1, SomethingAt
    <3>3. whole + 1 \in 1..n + 1
      BY <1>4, <3>2
    <3>4. AfterDigits(t, whole + 1) \in whole + 1..n + 1
      BY <1>1, <3>3, AfterFacts
    <3>. QED
      BY <1>2, <1>4, <1>5, <2>1, <3>4
  <2>2. CASE ~point
    BY <1>2, <1>5, <2>2
  <2>. QED
    BY <2>1, <2>2
<1>7. ASSUME exponent, At(t, digits) \in Digits PROVE AfterDigits(t, digits) \in i + 1..n + 1
  <2>1. digits \in i + 1..n + 3
    BY <1>3, <1>4, <1>6
  <2>2. digits \in Nat /\ At(t, digits) # ""
    BY <1>4, <1>7, <2>1 DEF Digits
  <2>3. digits \in 1..n
    BY <1>1, <2>2, SomethingAt
  <2>4. digits \in 1..n + 1
    BY <1>4, <2>3
  <2>5. AfterDigits(t, digits) \in digits..n + 1
    BY <1>1, <2>4, AfterFacts
  <2>. QED
    BY <1>4, <2>1, <2>5
<1>8. readNumber(t, i) =
          IF (point /\ At(t, whole + 1) \notin Digits) \/ (exponent /\ At(t, digits) \notin Digits) THEN Error
          ELSE Token("number", i, IF exponent THEN AfterDigits(t, digits) ELSE fraction)
  BY <1>1, <1>2, <1>3 DEF readNumber
<1>9. CASE readNumber(t, i) = Error
  BY <1>9, NoTokenFacts
<1>10. CASE readNumber(t, i) # Error
  <2>1. PICK to : to = IF exponent THEN AfterDigits(t, digits) ELSE fraction
    OBVIOUS
  <2>2. to \in i + 1..n + 1 /\ readNumber(t, i) = Token("number", i, to)
    BY <1>6, <1>7, <1>8, <1>10, <2>1
  <2>. QED
    BY <1>1, <2>2, KindFacts, TokenFacts
<1>. QED
  BY <1>9, <1>10

LEMMA ReadDollar ==
    ASSUME NEW t \in Text, NEW i \in 1..Len(t)
    PROVE  ReadFrom(Len(t), i, readDollar(t, i))
<1>1. PICK n, name :
          n = Len(t) /\ name = IF isIdentifierStart(At(t, i + 1)) THEN AfterWord(t, i + 1) ELSE i + 1
  OBVIOUS
<1>2. PICK tag : tag = Slice(t, i, name + 1)
  OBVIOUS
<1>3. PICK close : close = FirstAt(t, name + 1, tag)
  OBVIOUS
<1>4. n \in Nat /\ i \in 1..n /\ i + 1 \in 1..n + 1
  BY <1>1 DEF Text
<1>5. name \in i + 1..n + 1
  <2>1. AfterWord(t, i + 1) \in i + 1..n + 1
    BY <1>1, <1>4, AfterFacts
  <2>2. i + 1 \in i + 1..n + 1
    BY <1>4
  <2>. QED
    BY <1>1, <2>1, <2>2
<1>6. readDollar(t, i) =
          CASE At(t, i + 1) \in Digits -> Token("$", i, AfterDigits(t, i + 1))
            [] At(t, i + 1) \notin Digits /\ At(t, name) # "$" -> Token("$", i, name)
            [] OTHER -> IF close > n THEN Error ELSE Token("dollar", i, close + Len(tag))
  BY <1>1, <1>2, <1>3 DEF readDollar
<1>7. CASE At(t, i + 1) \in Digits
  <2>1. AfterDigits(t, i + 1) \in i + 1..n + 1
    BY <1>1, <1>4, AfterFacts
  <2>2. readDollar(t, i) = Token("$", i, AfterDigits(t, i + 1))
    BY <1>6, <1>7
  <2>. QED
    BY <1>1, <2>1, <2>2, KindFacts, TokenFacts
<1>8. CASE At(t, i + 1) \notin Digits /\ At(t, name) # "$"
  <2>1. readDollar(t, i) = Token("$", i, name)
    BY <1>6, <1>8
  <2>. QED
    BY <1>1, <1>5, <2>1, KindFacts, TokenFacts
<1>9. CASE At(t, i + 1) \notin Digits /\ At(t, name) = "$"
  <2>1. readDollar(t, i) = IF close > n THEN Error ELSE Token("dollar", i, close + Len(tag))
    BY <1>6, <1>9
  <2>2. CASE close > n
    BY <2>1, <2>2, NoTokenFacts
  <2>3. CASE ~(close > n)
    <3>1. name \in Nat /\ At(t, name) # ""
      BY <1>4, <1>5, <1>9
    <3>2. name \in 1..n
      BY <1>1, <3>1, SomethingAt
    <3>3. Len(tag) \in Nat
      <4>1. PICK m : m = name + 1 - 1
        OBVIOUS
      <4>2. m \in Nat /\ m <= n /\ tag = SubSeq(t, i, m)
        BY <1>2, <3>2, <4>1 DEF Slice
      <4>3. tag \in Seq(Characters)
        BY <1>1, <1>4, <4>2 DEF Text
      <4>. QED
        BY <4>3
    <3>4. name + 1 \in Nat
      BY <3>2
    <3>5. close \in name + 1..n /\ LooksAt(t, close, tag)
      BY <1>1, <1>3, <1>4, <2>3, <3>4, FirstAtFacts
    <3>6. close + Len(tag) - 1 <= n
      BY <1>1, <3>5 DEF LooksAt
    <3>7. close + Len(tag) \in i + 1..n + 1
      BY <1>4, <1>5, <3>3, <3>5, <3>6
    <3>. QED
      BY <1>1, <2>1, <2>3, <3>7, KindFacts, TokenFacts
  <2>. QED
    BY <2>2, <2>3
<1>. QED
  BY <1>7, <1>8, <1>9

LEMMA OperatorLengths == \A o \in operators : Len(o) \in {2, 3}
  BY DEF operators

LEMMA ReadOperator ==
    ASSUME NEW t \in Text, NEW i \in 1..Len(t)
    PROVE  ReadFrom(Len(t), i, readOperator(t, i))
<1>1. PICK n, lengths : n = Len(t) /\ lengths = {1} \cup {Len(o) : o \in {p \in operators : LooksAt(t, i, p)}}
  OBVIOUS
<1>2. n \in Nat /\ i \in 1..n
  BY <1>1 DEF Text
<1>3. ASSUME NEW m \in lengths PROVE m \in 1..3 /\ i + m \in i + 1..n + 1
  <2>1. CASE m = 1
    BY <1>2, <2>1
  <2>2. CASE m # 1
    <3>1. PICK o \in operators : LooksAt(t, i, o) /\ m = Len(o)
      BY <1>1, <2>2
    <3>2. m \in {2, 3}
      BY <3>1, OperatorLengths
    <3>3. i + m - 1 <= n
      BY <1>1, <3>1 DEF LooksAt
    <3>. QED
      BY <1>2, <3>2, <3>3
  <2>. QED
    BY <2>1, <2>2
<1>4. 1 \in lengths
  BY <1>1
<1>5. \E x \in lengths : \A m \in lengths : m <= x
  <2>1. CASE 3 \in lengths
    BY <1>3, <2>1
  <2>2. CASE 3 \notin lengths /\ 2 \in lengths
    BY <1>3, <2>2
  <2>3. CASE 3 \notin lengths /\ 2 \notin lengths
    BY <1>3, <1>4, <2>3
  <2>. QED
    BY <2>1, <2>2, <2>3
<1>6. PICK m : m = CHOOSE x \in lengths : \A y \in lengths : y <= x
  OBVIOUS
<1>7. m \in lengths
  BY <1>5, <1>6
<1>8. i + m \in i + 1..n + 1
  BY <1>3, <1>7
<1>9. readOperator(t, i) = Token("operator", i, i + m)
  BY <1>1, <1>6 DEF readOperator
<1>. QED
  BY <1>1, <1>8, <1>9, KindFacts, TokenFacts

LEMMA ReadSigil ==
    ASSUME NEW t \in Text, NEW i \in 1..Len(t), NEW d
    PROVE  ReadFrom(Len(t), i, readSigil(t, i, d))
<1>1. PICK n, name : n = Len(t) /\ name = IF At(t, i + 1) = t[i] THEN i + 2 ELSE i + 1
  OBVIOUS
<1>2. n \in Nat /\ i \in 1..n
  BY <1>1 DEF Text
<1>3. name \in i + 1..n + 1
  <2>1. CASE At(t, i + 1) = t[i]
    <3>1. i \in Nat /\ i + 1 \in Nat
      BY <1>2
    <3>2. At(t, i) = t[i] /\ At(t, i) # ""
      BY <1>1, <1>2, <3>1, AtFacts
    <3>3. i + 1 \in 1..n
      BY <1>1, <2>1, <3>1, <3>2, SomethingAt
    <3>. QED
      BY <1>1, <1>2, <2>1, <3>3
  <2>2. CASE At(t, i + 1) # t[i]
    BY <1>1, <1>2, <2>2
  <2>. QED
    BY <2>1, <2>2
<1>4. PICK word, to : word = readIdentifier(t, name, d) /\ to = AfterWord(t, name)
  OBVIOUS
<1>5. ASSUME isIdentifierStart(At(t, name))
      PROVE  /\ ReadFrom(n, i, As("placeholder", i, word)) /\ ReadFrom(n, i, As("word", i, word))
             /\ ReadFrom(n, i, Token("word", i, to))
  <2>1. name \in Nat /\ At(t, name) # ""
    <3>1. At(t, name) # ""
      BY <1>5 DEF isIdentifierStart, letters, keywords, wide
    <3>2. name \in Nat
      BY <1>2, <1>3
    <3>. QED
      BY <3>1, <3>2
  <2>2. name \in 1..n /\ name \in i..n /\ name \in 1..n + 1
    <3>1. name \in 1..n
      BY <1>1, <2>1, SomethingAt
    <3>. QED
      BY <1>2, <1>3, <3>1
  <2>3. ReadFrom(n, name, word)
    BY <1>1, <1>4, <1>5, <2>2, ReadWord
  <2>4. ReadFrom(n, i, As("placeholder", i, word)) /\ ReadFrom(n, i, As("word", i, word))
    BY <1>2, <2>2, <2>3, KindFacts, ReadAs
  <2>5. to \in i + 1..n + 1
    <3>1. to \in name..n + 1
      BY <1>1, <1>4, <2>2, AfterFacts
    <3>. QED
      BY <1>2, <1>3, <3>1
  <2>. QED
    BY <2>4, <2>5, KindFacts, TokenFacts
<1>6. ReadFrom(n, i, Token("operator", i, name)) /\ ReadFrom(n, i, readOperator(t, i))
  BY <1>1, <1>3, KindFacts, TokenFacts, ReadOperator
<1>7. readSigil(t, i, d) =
          CASE t[i] = "@" /\ name = i + 1 /\ isIdentifierStart(At(t, name)) -> As("placeholder", i, word)
            [] t[i] = "@" /\ name = i + 2 /\ isIdentifierStart(At(t, name)) /\ d = "sqlserver" -> As("word", i, word)
            [] t[i] = "#" /\ d = "sqlserver" ->
                  IF isIdentifierStart(At(t, name)) THEN Token("word", i, to) ELSE Token("operator", i, name)
            [] OTHER -> readOperator(t, i)
  BY <1>1, <1>4 DEF readSigil
<1>8. PICK token : token = readSigil(t, i, d)
  OBVIOUS
<1>9. CASE isIdentifierStart(At(t, name))
  <2>1. token \in {As("placeholder", i, word), As("word", i, word), Token("word", i, to), readOperator(t, i)}
    BY <1>7, <1>8, <1>9
  <2>. QED
    BY <1>1, <1>5, <1>6, <1>8, <1>9, <2>1
<1>10. CASE ~isIdentifierStart(At(t, name))
  <2>1. token \in {Token("operator", i, name), readOperator(t, i)}
    BY <1>7, <1>8, <1>10
  <2>. QED
    BY <1>1, <1>6, <1>8, <2>1
<1>. QED
  BY <1>9, <1>10

-----------------------------------------------------------------------------
(* What is passed over on the way to a token.                              *)

LEMMA CommentFacts ==
    ASSUME NEW t \in Text, NEW i \in 0..Len(t)
    PROVE  /\ AfterLine(t, i) \in i + 1..Len(t) + 1
           /\ AfterBlock(t, i) = 0 \/ AfterBlock(t, i) \in i + 1..Len(t) + 1
<1>1. PICK n, f, close : n = Len(t) /\ f = FirstOf(t, i, {"\n"}) /\ close = FirstAt(t, i + 2, <<"*", "/">>)
  OBVIOUS
<1>2. n \in Nat /\ i \in 0..n /\ i \in 0..n + 1 /\ i + 2 \in Nat
  BY <1>1 DEF Text
<1>3. f \in i..n + 1
  BY <1>1, <1>2, FirstOfFacts
<1>4. AfterLine(t, i) \in i + 1..n + 1
  <2>1. PICK X : X = {f + 1, n + 1}
    OBVIOUS
  <2>2. \E m \in X : \A x \in X : m <= x
    BY <1>2, <1>3, <2>1
  <2>3. Min(X) \in X /\ \A x \in X : Min(X) <= x
    BY <2>2 DEF Min
  <2>4. AfterLine(t, i) = Min(X)
    BY <1>1, <2>1 DEF AfterLine
  <2>. QED
    BY <1>2, <1>3, <2>1, <2>3, <2>4
<1>5. AfterBlock(t, i) = 0 \/ AfterBlock(t, i) \in i + 1..n + 1
  <2>1. AfterBlock(t, i) = IF close > n THEN 0 ELSE close + 2
    BY <1>1 DEF AfterBlock
  <2>2. ASSUME ~(close > n) PROVE close + 2 \in i + 1..n + 1
    <3>1. close \in i + 2..n /\ LooksAt(t, close, <<"*", "/">>)
      BY <1>1, <1>2, <2>2, FirstAtFacts
    <3>2. Len(<<"*", "/">>) = 2
      OBVIOUS
    <3>3. close + 2 - 1 <= n
      BY <1>1, <3>1, <3>2 DEF LooksAt
    <3>. QED
      BY <1>2, <3>1, <3>3
  <2>. QED
    BY <2>1, <2>2
<1>. QED
  BY <1>1, <1>4, <1>5

Comment(t, i) == LooksAt(t, i, lineComment) \/ LooksAt(t, i, blockComment)

EndOfText(n) == Token("EOF", n + 1, n + 1)

\* Between p and q is a comment, and blanks behind it.
Passes(t, p, q) ==
    \/ LooksAt(t, p, lineComment) /\ q = skipWhitespace(t, AfterLine(t, p))
    \/ LooksAt(t, p, blockComment) /\ AfterBlock(t, p) # 0 /\ q = skipWhitespace(t, AfterBlock(t, p))

\* From i to j there are comments and blanks behind them only, or nothing.
OnlyComments(t, i, j) ==
    \A S \in SUBSET Nat : (i \in S /\ \A p \in S, q \in Nat : Passes(t, p, q) => q \in S) => j \in S

LEMMA NoComment == \A t, i : OnlyComments(t, i, i)
  BY DEF OnlyComments

LEMMA OneMoreComment ==
    ASSUME NEW t, NEW i \in Nat, NEW m \in Nat, NEW j, Passes(t, i, m), OnlyComments(t, m, j)
    PROVE  OnlyComments(t, i, j)
<1>. SUFFICES ASSUME NEW S \in SUBSET Nat, i \in S, \A p \in S, q \in Nat : Passes(t, p, q) => q \in S
     PROVE  j \in S
  BY DEF OnlyComments
<1>1. m \in S
  OBVIOUS
<1>. QED
  BY <1>1 DEF OnlyComments

\* An error, the end of the text or a token, behind comments.
FoundFrom(t, i, token) ==
    \/ token = Error
    \/ token = EndOfText(Len(t)) /\ (i = 0 \/ OnlyComments(t, i, Len(t) + 1))
    \/ \E j \in i..Len(t) : j # 0 /\ OnlyComments(t, i, j) /\ ReadFrom(Len(t), j, token)

\* What is read at i.
ReadAt(t, d, i, token) ==
    \/ isIdentifierStart(At(t, i)) /\ token = readIdentifier(t, i, d)
    \/ At(t, i) \in Digits /\ token = readNumber(t, i)
    \/ token \in {readQuotedIdentifier(t, i), readBacktickIdentifier(t, i), readBracketIdentifier(t, i)}
    \/ token \in {readQuotedString(t, i, d), readDollar(t, i), readSigil(t, i, d), readOperator(t, i)}

StepCases(t, d, i, next, token) ==
    \/ At(t, i) = "" /\ token = EndOfText(Len(t))
    \/ LooksAt(t, i, lineComment) /\ token = next[skipWhitespace(t, AfterLine(t, i))]
    \/ LooksAt(t, i, blockComment) /\ AfterBlock(t, i) # 0 /\ token = next[skipWhitespace(t, AfterBlock(t, i))]
    \/ token = Error
    \/ At(t, i) # "" /\ ReadAt(t, d, i, token)

\* The same with names for the characters, which the provers then take as values.
Chosen(t, d, i, next, c, none, double, back, single, dollar, bracket, sigils, server) ==
    CASE c = none -> Token("EOF", Len(t) + 1, Len(t) + 1)
      [] LooksAt(t, i, lineComment) -> next[skipWhitespace(t, AfterLine(t, i))]
      [] LooksAt(t, i, blockComment) ->
            IF AfterBlock(t, i) = 0 THEN Error ELSE next[skipWhitespace(t, AfterBlock(t, i))]
      [] isIdentifierStart(c) -> readIdentifier(t, i, d)
      [] c \in Digits -> readNumber(t, i)
      [] c = double -> readQuotedIdentifier(t, i)
      [] c = back -> readBacktickIdentifier(t, i)
      [] c = single -> readQuotedString(t, i, d)
      [] c = dollar -> readDollar(t, i)
      [] c = bracket /\ d = server -> readBracketIdentifier(t, i)
      [] c \in sigils -> readSigil(t, i, d)
      [] c \in marks -> readOperator(t, i)
      [] OTHER -> Error

ChosenCases(t, d, i, next, c, none, double, back, single, dollar, bracket, sigils, token) ==
    \/ c = none /\ token = EndOfText(Len(t))
    \/ LooksAt(t, i, lineComment) /\ token = next[skipWhitespace(t, AfterLine(t, i))]
    \/ LooksAt(t, i, blockComment) /\ AfterBlock(t, i) # 0 /\ token = next[skipWhitespace(t, AfterBlock(t, i))]
    \/ token = Error
    \/ isIdentifierStart(c) /\ token = readIdentifier(t, i, d)
    \/ c \in Digits /\ token = readNumber(t, i)
    \/ c = double /\ token = readQuotedIdentifier(t, i)
    \/ c = back /\ token = readBacktickIdentifier(t, i)
    \/ c = single /\ token = readQuotedString(t, i, d)
    \/ c = dollar /\ token = readDollar(t, i)
    \/ c = bracket /\ token = readBracketIdentifier(t, i)
    \/ c \in sigils /\ token = readSigil(t, i, d)
    \/ c \in marks /\ token = readOperator(t, i)

LEMMA EveryChoice ==
    ASSUME NEW t, NEW d, NEW i, NEW next, NEW c, NEW none, NEW double, NEW back, NEW single, NEW dollar,
           NEW bracket, NEW sigils, NEW server
    PROVE  ChosenCases(t, d, i, next, c, none, double, back, single, dollar, bracket, sigils,
                       Chosen(t, d, i, next, c, none, double, back, single, dollar, bracket, sigils, server))
<1>1. PICK end, token : /\ end = EndOfText(Len(t))
                        /\ token = Chosen(t, d, i, next, c, none, double, back, single, dollar, bracket, sigils, server)
  OBVIOUS
<1>2. PICK line, block, behind :
          line = next[skipWhitespace(t, AfterLine(t, i))] /\ block = AfterBlock(t, i)
          /\ behind = IF block = 0 THEN Error ELSE next[skipWhitespace(t, block)]
  OBVIOUS
<1>3. token = CASE c = none -> end
                [] LooksAt(t, i, lineComment) -> line
                [] LooksAt(t, i, blockComment) -> behind
                [] isIdentifierStart(c) -> readIdentifier(t, i, d)
                [] c \in Digits -> readNumber(t, i)
                [] c = double -> readQuotedIdentifier(t, i)
                [] c = back -> readBacktickIdentifier(t, i)
                [] c = single -> readQuotedString(t, i, d)
                [] c = dollar -> readDollar(t, i)
                [] c = bracket /\ d = server -> readBracketIdentifier(t, i)
                [] c \in sigils -> readSigil(t, i, d)
                [] c \in marks -> readOperator(t, i)
                [] OTHER -> Error
  BY <1>1, <1>2 DEF Chosen, EndOfText
<1>4. \/ c = none /\ token = end
      \/ LooksAt(t, i, lineComment) /\ token = line
      \/ LooksAt(t, i, blockComment) /\ token = behind
      \/ token = Error
      \/ isIdentifierStart(c) /\ token = readIdentifier(t, i, d)
      \/ c \in Digits /\ token = readNumber(t, i)
      \/ c = double /\ token = readQuotedIdentifier(t, i)
      \/ c = back /\ token = readBacktickIdentifier(t, i)
      \/ c = single /\ token = readQuotedString(t, i, d)
      \/ c = dollar /\ token = readDollar(t, i)
      \/ c = bracket /\ token = readBracketIdentifier(t, i)
      \/ c \in sigils /\ token = readSigil(t, i, d)
      \/ c \in marks /\ token = readOperator(t, i)
  BY <1>3
<1>. QED
  BY <1>1, <1>2, <1>4 DEF ChosenCases

LEMMA TokenAtCases ==
    ASSUME NEW t, NEW d, NEW i, NEW next
    PROVE  StepCases(t, d, i, next, TokenAt(t, d, i, next))
<1>1. PICK c, token : c = At(t, i) /\ token = TokenAt(t, d, i, next)
  OBVIOUS
<1>2. TokenAt(t, d, i, next) =
          Chosen(t, d, i, next, At(t, i), "", "\"", "bt", "'", "$", "[", {"@", "#"}, "sqlserver")
  BY DEF TokenAt, Chosen
<1>3. ChosenCases(t, d, i, next, c, "", "\"", "bt", "'", "$", "[", {"@", "#"}, token)
  BY <1>1, <1>2, EveryChoice
<1>4. /\ isIdentifierStart(c) => c # ""
      /\ c \in Digits => c # ""
      /\ c \in {"@", "#"} => c # ""
      /\ c \in marks => c # ""
  BY DEF isIdentifierStart, letters, wide, keywords, Digits, marks
<1>. QED
  BY <1>1, <1>3, <1>4 DEF ChosenCases, StepCases, ReadAt

LEMMA ReadAtFacts ==
    ASSUME NEW t \in Text, NEW d, NEW i \in 1..Len(t), NEW token, ReadAt(t, d, i, token)
    PROVE  ReadFrom(Len(t), i, token)
<1>1. isIdentifierStart(At(t, i)) => ReadFrom(Len(t), i, readIdentifier(t, i, d))
  BY ReadWord
<1>2. At(t, i) \in Digits => ReadFrom(Len(t), i, readNumber(t, i))
  BY ReadDigits
<1>3. /\ ReadFrom(Len(t), i, readQuotedIdentifier(t, i)) /\ ReadFrom(Len(t), i, readBacktickIdentifier(t, i))
      /\ ReadFrom(Len(t), i, readBracketIdentifier(t, i))
  BY ReadQuoted
<1>4. /\ ReadFrom(Len(t), i, readQuotedString(t, i, d)) /\ ReadFrom(Len(t), i, readDollar(t, i))
      /\ ReadFrom(Len(t), i, readSigil(t, i, d)) /\ ReadFrom(Len(t), i, readOperator(t, i))
  BY ReadString, ReadDollar, ReadSigil, ReadOperator
<1>. QED
  BY <1>1, <1>2, <1>3, <1>4 DEF ReadAt

(* Where the search goes on behind a comment.                              *)
LEMMA PassedFacts ==
    ASSUME NEW t \in Text, NEW i \in Nat
    PROVE  /\ Comment(t, i) => i \in 0..Len(t)
           /\ i \in 0..Len(t) => skipWhitespace(t, AfterLine(t, i)) \in i + 1..Len(t) + 1
           /\ i \in 0..Len(t) /\ AfterBlock(t, i) # 0 => skipWhitespace(t, AfterBlock(t, i)) \in i + 1..Len(t) + 1
<1>1. PICK n, a, b : n = Len(t) /\ a = AfterLine(t, i) /\ b = AfterBlock(t, i)
  OBVIOUS
<1>2. n \in Nat /\ i \in Nat
  BY <1>1 DEF Text
<1>3. ASSUME Comment(t, i) PROVE i \in 0..n
  <2>1. Len(lineComment) = 2 /\ Len(blockComment) = 2
    BY DEF lineComment, blockComment
  <2>2. i + 2 - 1 <= n
    BY <1>1, <1>3, <2>1 DEF Comment, LooksAt
  <2>. QED
    BY <1>2, <2>2
<1>4. ASSUME i \in 0..n, NEW m \in i + 1..n + 1 PROVE skipWhitespace(t, m) \in i + 1..n + 1
  <2>1. m \in 1..n + 1
    BY <1>2
  <2>2. skipWhitespace(t, m) \in m..n + 1
    BY <1>1, <2>1, AfterFacts
  <2>. QED
    BY <1>2, <2>2
<1>5. ASSUME i \in 0..n PROVE a \in i + 1..n + 1 /\ (b = 0 \/ b \in i + 1..n + 1)
  BY <1>1, <1>5, CommentFacts
<1>6. i \in 0..n => skipWhitespace(t, a) \in i + 1..n + 1
  BY <1>4, <1>5
<1>7. i \in 0..n /\ b # 0 => skipWhitespace(t, b) \in i + 1..n + 1
  BY <1>4, <1>5
<1>. QED
  BY <1>1, <1>3, <1>6, <1>7

(* The search depends on itself only behind a comment.                     *)
LEMMA EqualTokenAt ==
    ASSUME NEW t, NEW d, NEW i, NEW f, NEW g,
           LooksAt(t, i, lineComment) => f[skipWhitespace(t, AfterLine(t, i))] = g[skipWhitespace(t, AfterLine(t, i))],
           LooksAt(t, i, blockComment) /\ AfterBlock(t, i) # 0 =>
              f[skipWhitespace(t, AfterBlock(t, i))] = g[skipWhitespace(t, AfterBlock(t, i))]
    PROVE  TokenAt(t, d, i, f) = TokenAt(t, d, i, g)
<1>1. CASE LooksAt(t, i, lineComment) /\ LooksAt(t, i, blockComment)
  BY <1>1 DEF TokenAt
<1>2. CASE LooksAt(t, i, lineComment) /\ ~LooksAt(t, i, blockComment)
  BY <1>2 DEF TokenAt
<1>3. CASE ~LooksAt(t, i, lineComment) /\ LooksAt(t, i, blockComment)
  BY <1>3 DEF TokenAt
<1>4. CASE ~LooksAt(t, i, lineComment) /\ ~LooksAt(t, i, blockComment)
  BY <1>4 DEF TokenAt
<1>. QED
  BY <1>1, <1>2, <1>3, <1>4

TokensWithin(n) == [ok : BOOLEAN, kind : Kinds \cup {"EOF", "error"}, from : 0..n + 1, to : 0..n + 1]

LEMMA FoundFacts ==
    ASSUME NEW n \in Nat
    PROVE  /\ Error \in TokensWithin(n) /\ EndOfText(n) \in TokensWithin(n)
           /\ \A i \in 1..n : \A token : ReadFrom(n, i, token) => token \in TokensWithin(n)
<1>1. Error \in TokensWithin(n)
  BY DEF TokensWithin, Error
<1>2. ASSUME NEW kind \in Kinds \cup {"EOF"}, NEW a \in 0..n + 1, NEW b \in 0..n + 1 PROVE Token(kind, a, b) \in TokensWithin(n)
  BY DEF TokensWithin, Token
<1>3. EndOfText(n) \in TokensWithin(n)
  <2>1. n + 1 \in 0..n + 1 /\ "EOF" \in Kinds \cup {"EOF"}
    OBVIOUS
  <2>. QED
    BY <1>2, <2>1 DEF EndOfText
<1>4. ASSUME NEW i \in 1..n, NEW token, ReadFrom(n, i, token) PROVE token \in TokensWithin(n)
  <2>1. CASE token = Error
    BY <1>1, <2>1
  <2>2. CASE token # Error
    <3>1. PICK kind \in Kinds, to \in i + 1..n + 1 : token = Token(kind, i, to)
      BY <1>4, <2>2 DEF ReadFrom
    <3>2. i \in 0..n + 1 /\ to \in 0..n + 1 /\ kind \in Kinds \cup {"EOF"}
      OBVIOUS
    <3>. QED
      BY <1>2, <3>1, <3>2
  <2>. QED
    BY <2>1, <2>2
<1>. QED
  BY <1>1, <1>3, <1>4

LEMMA TokenAtType ==
    ASSUME NEW t \in Text, NEW d, NEW i \in Nat, NEW next \in [Nat -> TokensWithin(Len(t))]
    PROVE  TokenAt(t, d, i, next) \in TokensWithin(Len(t))
<1>1. PICK n, token : n = Len(t) /\ token = TokenAt(t, d, i, next)
  OBVIOUS
<1>2. n \in Nat /\ 0..n + 1 \subseteq Nat
  BY <1>1 DEF Text
<1>3. StepCases(t, d, i, next, token)
  BY <1>1, TokenAtCases
<1>4. CASE token = EndOfText(n) \/ token = Error
  BY <1>1, <1>2, <1>4, FoundFacts
<1>5. ASSUME NEW m \in i + 1..n + 1, token = next[m] PROVE token \in TokensWithin(n)
  BY <1>1, <1>2, <1>5
<1>6. CASE LooksAt(t, i, lineComment) /\ token = next[skipWhitespace(t, AfterLine(t, i))]
  BY <1>1, <1>5, <1>6, PassedFacts DEF Comment
<1>7. CASE LooksAt(t, i, blockComment) /\ AfterBlock(t, i) # 0 /\ token = next[skipWhitespace(t, AfterBlock(t, i))]
  BY <1>1, <1>5, <1>7, PassedFacts DEF Comment
<1>8. CASE At(t, i) # "" /\ ReadAt(t, d, i, token)
  <2>1. i \in 1..n
    BY <1>1, <1>8, SomethingAt
  <2>2. ReadFrom(n, i, token)
    BY <1>1, <1>8, <2>1, ReadAtFacts
  <2>. QED
    BY <1>1, <1>2, <2>1, <2>2, FoundFacts
<1>. QED
  BY <1>1, <1>3, <1>4, <1>6, <1>7, <1>8 DEF StepCases

LEMMA NextRecursion ==
    ASSUME NEW t \in Text, NEW d
    PROVE  \E f : /\ \A i \in Nat : f[i] = TokenAt(t, d, i, f)
                  /\ \A i \in Nat : nextToken(t, i, d) = f[i]
<1>. DEFINE n == Len(t)
            V == TokensWithin(n)
            Is(f) == f = [i \in Nat |-> TokenAt(t, d, i, f)]
<1>1. n \in Nat
  BY DEF Text
<1>2. PICK F : F = [p \in Nat \X [Nat -> V] |-> TokenAt(t, d, p[1], p[2])]
  OBVIOUS
<1>3. ASSUME NEW i \in Nat, NEW f \in [Nat -> V] PROVE F[<<i, f>>] = TokenAt(t, d, i, f)
  BY <1>2
<1>4. ASSUME NEW i \in Nat, NEW f \in [Nat -> V] PROVE F[<<i, f>>] \in V
  BY <1>3, TokenAtType
<1>5. ASSUME NEW i \in Nat, NEW f \in [Nat -> V], NEW g \in [Nat -> V], i > n \/ \A j \in Nat : j > i => f[j] = g[j]
      PROVE  F[<<i, f>>] = F[<<i, g>>]
  <2>1. ASSUME Comment(t, i), NEW m \in i + 1..n + 1 PROVE f[m] = g[m]
    <3>1. i \in 0..n
      BY <2>1, PassedFacts
    <3>2. m \in Nat /\ m > i /\ ~(i > n)
      BY <1>1, <3>1
    <3>. QED
      BY <1>5, <3>2
  <2>2. LooksAt(t, i, lineComment) => f[skipWhitespace(t, AfterLine(t, i))] = g[skipWhitespace(t, AfterLine(t, i))]
    BY <2>1, PassedFacts DEF Comment
  <2>3. LooksAt(t, i, blockComment) /\ AfterBlock(t, i) # 0 =>
            f[skipWhitespace(t, AfterBlock(t, i))] = g[skipWhitespace(t, AfterBlock(t, i))]
    BY <2>1, PassedFacts DEF Comment
  <2>4. TokenAt(t, d, i, f) = TokenAt(t, d, i, g)
    BY <2>2, <2>3, EqualTokenAt
  <2>. QED
    BY <1>3, <2>4
<1>6. LooksAhead(F, n, V)
  BY <1>4, <1>5 DEF LooksAhead
<1>7. PICK g \in [Nat -> V] : \A i \in Nat : g[i] = F[<<i, g>>]
  <2>1. PICK W, v : W = V /\ v = Error
    OBVIOUS
  <2>2. v \in W /\ LooksAhead(F, n, W)
    BY <1>1, <1>6, <2>1, FoundFacts
  <2>3. \E g \in [Nat -> W] : \A i \in Nat : g[i] = F[<<i, g>>]
    BY <1>1, <2>2, BackwardRecursionExists
  <2>. QED
    BY <2>1, <2>3
<1>8. Is(g)
  <2>1. g = [i \in Nat |-> g[i]]
    OBVIOUS
  <2>2. ASSUME NEW i \in Nat PROVE g[i] = TokenAt(t, d, i, g)
    BY <1>3, <1>7
  <2>. QED
    BY <2>1, <2>2
<1>9. PICK f : f = CHOOSE h : Is(h)
  OBVIOUS
<1>10. Is(f)
  BY <1>8, <1>9
<1>11. ASSUME NEW i \in Nat PROVE f[i] = TokenAt(t, d, i, f)
  BY <1>10
<1>12. ASSUME NEW i \in Nat PROVE nextToken(t, i, d) = f[i]
  BY <1>9 DEF nextToken
<1>. QED
  BY <1>11, <1>12

LEMMA NextTokenFacts ==
    ASSUME NEW t \in Text, NEW d, NEW i \in 0..Len(t) + 1
    PROVE  FoundFrom(t, i, nextToken(t, i, d))
<1>1. PICK f : /\ \A j \in Nat : f[j] = TokenAt(t, d, j, f)
               /\ \A j \in Nat : nextToken(t, j, d) = f[j]
  BY NextRecursion
<1>2. PICK n : n = Len(t) /\ n \in Nat
  BY DEF Text
<1>. DEFINE S == {j \in Nat : j \in 0..n + 1 => FoundFrom(t, j, f[j])}
<1>3. ASSUME NEW j \in Nat, j > n \/ \A k \in Nat : k > j => k \in S PROVE j \in S
  <2>. SUFFICES ASSUME j \in 0..n + 1 PROVE FoundFrom(t, j, f[j])
    OBVIOUS
  <2>1. StepCases(t, d, j, f, f[j])
    BY <1>1, <1>2, TokenAtCases
  <2>2. CASE At(t, j) = "" /\ f[j] = EndOfText(n)
    <3>1. j \in 1..n => At(t, j) # ""
      BY <1>2, AtFacts
    <3>2. j \notin 1..n
      BY <2>2, <3>1
    <3>3. n \in Nat /\ j \in 0..n + 1
      BY <1>2
    <3>4. j = 0 \/ j = n + 1
      BY <3>2, <3>3
    <3>. QED
      BY <1>2, <2>2, <3>4, NoComment DEF FoundFrom
  <2>3. CASE f[j] = Error
    BY <2>3 DEF FoundFrom
  <2>5. ASSUME Comment(t, j), NEW m \in j + 1..n + 1, Passes(t, j, m), f[j] = f[m] PROVE FoundFrom(t, j, f[j])
    <3>1. j \in 0..n
      BY <1>2, <2>5, PassedFacts
    <3>2. m \in 0..n + 1 /\ m \in Nat /\ m > j /\ ~(j > n)
      BY <1>2, <3>1
    <3>3. FoundFrom(t, m, f[m])
      BY <1>3, <3>2
    <3>4. CASE f[m] = Error
      BY <2>5, <3>4 DEF FoundFrom
    <3>5. CASE f[m] = EndOfText(n) /\ (m = 0 \/ OnlyComments(t, m, n + 1))
      <4>1. OnlyComments(t, m, n + 1)
        BY <3>1, <3>2, <3>5
      <4>2. OnlyComments(t, j, n + 1)
        BY <2>5, <3>2, <4>1, OneMoreComment
      <4>. QED
        BY <1>2, <2>5, <3>5, <4>2 DEF FoundFrom
    <3>6. CASE \E k \in m..n : k # 0 /\ OnlyComments(t, m, k) /\ ReadFrom(n, k, f[m])
      <4>1. PICK k \in m..n : k # 0 /\ OnlyComments(t, m, k) /\ ReadFrom(n, k, f[m])
        BY <3>6
      <4>2. k \in j..n
        BY <1>2, <3>1, <3>2
      <4>3. OnlyComments(t, j, k)
        BY <2>5, <3>2, <4>1, OneMoreComment
      <4>4. ReadFrom(n, k, f[j])
        BY <2>5, <4>1
      <4>. QED
        BY <1>2, <4>1, <4>2, <4>3, <4>4 DEF FoundFrom
    <3>. QED
      BY <1>2, <3>3, <3>4, <3>5, <3>6 DEF FoundFrom
  <2>6. ASSUME LooksAt(t, j, lineComment), f[j] = f[skipWhitespace(t, AfterLine(t, j))] PROVE FoundFrom(t, j, f[j])
    <3>1. PICK m : m = skipWhitespace(t, AfterLine(t, j))
      OBVIOUS
    <3>2. Comment(t, j) /\ Passes(t, j, m)
      BY <2>6, <3>1 DEF Comment, Passes
    <3>3. m \in j + 1..n + 1
      BY <1>2, <3>1, <3>2, PassedFacts
    <3>. QED
      BY <2>5, <2>6, <3>1, <3>2, <3>3
  <2>7. ASSUME LooksAt(t, j, blockComment), AfterBlock(t, j) # 0, f[j] = f[skipWhitespace(t, AfterBlock(t, j))]
        PROVE  FoundFrom(t, j, f[j])
    <3>1. PICK m : m = skipWhitespace(t, AfterBlock(t, j))
      OBVIOUS
    <3>2. Comment(t, j) /\ Passes(t, j, m)
      BY <2>7, <3>1 DEF Comment, Passes
    <3>3. m \in j + 1..n + 1
      BY <1>2, <2>7, <3>1, <3>2, PassedFacts
    <3>. QED
      BY <2>5, <2>7, <3>1, <3>2, <3>3
  <2>8. CASE At(t, j) # "" /\ ReadAt(t, d, j, f[j])
    <3>1. j \in 1..n
      BY <1>1, <1>2, <2>8, SomethingAt
    <3>2. ReadFrom(n, j, f[j])
      BY <1>1, <1>2, <2>8, <3>1, ReadAtFacts
    <3>3. j \in j..n /\ j # 0
      BY <1>2, <3>1
    <3>. QED
      BY <1>2, <3>2, <3>3, NoComment DEF FoundFrom
  <2>. QED
    BY <1>1, <1>2, <2>1, <2>2, <2>3, <2>6, <2>7, <2>8 DEF StepCases
<1>. HIDE DEF S
<1>4. Nat \subseteq S
  BY <1>2, <1>3, BackwardInduction
<1>5. i \in Nat /\ i \in 0..n + 1
  BY <1>1, <1>2
<1>6. FoundFrom(t, i, f[i])
  BY <1>4, <1>5 DEF S
<1>. QED
  BY <1>1, <1>2, <1>5, <1>6

-----------------------------------------------------------------------------
(* The tokens of a text.                                                   *)

\* One token and the place where the tokenizer began to look for it.
Placed(t, token) ==
    /\ token.ok /\ 1 <= token.start /\ token.start <= token.from /\ token.from <= token.to /\ token.to <= Len(t) + 1
    /\ IF token.kind = "EOF" THEN token.from = Len(t) + 1 ELSE token.from < token.to
    /\ OnlyComments(t, token.start, token.from)

\* Between two of them are blanks only.
Adjacent(t, a, b) == a.to <= b.start /\ \A m \in a.to..b.start - 1 : t[m] \in Blank

TokensInOrder(t, s) ==
    /\ \A k \in 1..Len(s) : Placed(t, s[k])
    /\ \A k \in 1..Len(s) - 1 : Adjacent(t, s[k], s[k + 1])
    /\ Len(s) > 0 /\ s[Len(s)].kind = "EOF"
    /\ \A m \in 1..s[1].start - 1 : t[m] \in Blank

LEMMA NextTokenPlaced ==
    ASSUME NEW t \in Text, NEW d, NEW i \in 0..Len(t), nextToken(t, i, d).ok
    PROVE  /\ nextToken(t, i, d).to \in i + 1..Len(t) + 1
           /\ i # 0 => Placed(t, Started(i, nextToken(t, i, d)))
<1>1. PICK n, token : n = Len(t) /\ n \in Nat /\ token = nextToken(t, i, d)
  BY DEF Text
<1>2. PICK x : x = Started(i, token)
  OBVIOUS
<1>3. /\ x.start = i /\ x.ok = token.ok /\ x.kind = token.kind /\ x.from = token.from /\ x.to = token.to
  BY <1>2 DEF Started
<1>4. i \in 0..n /\ i \in 0..n + 1
  BY <1>1
<1>5. FoundFrom(t, i, token)
  BY <1>1, <1>4, NextTokenFacts
<1>6. token # Error
  BY <1>1 DEF Error
<1>7. CASE token = EndOfText(n) /\ (i = 0 \/ OnlyComments(t, i, n + 1))
  <2>1. token.ok /\ token.kind = "EOF" /\ token.from = n + 1 /\ token.to = n + 1
    BY <1>7 DEF EndOfText, Token
  <2>2. token.to \in i + 1..n + 1
    BY <1>1, <1>4, <2>1
  <2>3. i # 0 => Placed(t, x)
    BY <1>1, <1>3, <1>4, <1>7, <2>1 DEF Placed
  <2>. QED
    BY <1>1, <1>2, <2>2, <2>3
<1>8. CASE \E j \in i..n : j # 0 /\ OnlyComments(t, i, j) /\ ReadFrom(n, j, token)
  <2>1. PICK j \in i..n : j # 0 /\ OnlyComments(t, i, j) /\ ReadFrom(n, j, token)
    BY <1>8
  <2>2. PICK kind \in Kinds, to \in j + 1..n + 1 : token = Token(kind, j, to)
    BY <1>6, <2>1 DEF ReadFrom
  <2>3. token.ok /\ token.kind = kind /\ token.from = j /\ token.to = to
    BY <2>2 DEF Token
  <2>4. kind # "EOF"
    BY DEF Kinds
  <2>5. token.to \in i + 1..n + 1
    BY <1>1, <1>4, <2>1, <2>3
  <2>6. i # 0 => Placed(t, x)
    BY <1>1, <1>3, <1>4, <2>1, <2>3, <2>4 DEF Placed
  <2>. QED
    BY <1>1, <1>2, <2>5, <2>6
<1>. QED
  BY <1>1, <1>5, <1>6, <1>7, <1>8 DEF FoundFrom

LEMMA FollowedBehind ==
    ASSUME NEW t \in Text, NEW d, NEW i \in 0..Len(t), nextToken(t, i, d).ok
    PROVE  LET to == nextToken(t, i, d).to
               j  == skipWhitespace(t, to)
           IN  /\ to \in i + 1..Len(t) + 1 /\ j \in to..Len(t) + 1 /\ j \in 1..Len(t) + 1 /\ j \in Nat /\ j > i
               /\ \A m \in to..j - 1 : t[m] \in Blank
<1>1. PICK n, to : n = Len(t) /\ n \in Nat /\ to = nextToken(t, i, d).to
  BY DEF Text
<1>2. PICK j : j = skipWhitespace(t, to)
  OBVIOUS
<1>3. to \in i + 1..n + 1
  BY <1>1, NextTokenPlaced
<1>4. to \in 1..n + 1 /\ i \in 0..n
  BY <1>1, <1>3
<1>5. j \in to..n + 1 /\ \A m \in to..j - 1 : t[m] \in Blank
  BY <1>1, <1>2, <1>4, FirstOtherFacts DEF skipWhitespace
<1>6. j \in 1..n + 1 /\ j \in Nat /\ j > i
  BY <1>1, <1>3, <1>4, <1>5
<1>. QED
  BY <1>1, <1>2, <1>3, <1>5, <1>6

TokensStep(t, d, i, tokens) == IF i > Len(t) THEN <<>> ELSE Followed(t, i, nextToken(t, i, d), tokens)

StartedTokens(t, d) == {Started(i, nextToken(t, i, d)) : i \in Nat}

LEMMA TokensRecursion ==
    ASSUME NEW t \in Text, NEW d
    PROVE  \E f : /\ \A i \in Nat : f[i] = TokensStep(t, d, i, f)
                  /\ \A i \in Nat : f[i] \in Seq(StartedTokens(t, d))
                  /\ \A i \in Nat : tokensFrom(t, i, d) = f[i]
<1>. DEFINE n == Len(t)
            V == Seq(StartedTokens(t, d))
            Is(f) == f = [i \in Nat |-> TokensStep(t, d, i, f)]
<1>1. n \in Nat /\ <<>> \in V
  BY DEF Text
<1>2. PICK F : F = [p \in Nat \X [Nat -> V] |-> TokensStep(t, d, p[1], p[2])]
  OBVIOUS
<1>3. ASSUME NEW i \in Nat, NEW f \in [Nat -> V] PROVE F[<<i, f>>] = TokensStep(t, d, i, f)
  BY <1>2
<1>4. ASSUME NEW i \in Nat, NEW f, \A j \in Nat : j > i => f[j] \in V PROVE TokensStep(t, d, i, f) \in V
  <2>1. PICK token : token = nextToken(t, i, d)
    OBVIOUS
  <2>2. PICK r : r = IF token.ok THEN f[skipWhitespace(t, token.to)] ELSE <<>>
    OBVIOUS
  <2>3. CASE i > n
    BY <1>1, <2>3 DEF TokensStep
  <2>4. CASE ~(i > n)
    <3>1. r \in V
      <4>1. CASE token.ok
        <5>1. i \in 0..n
          BY <1>1, <2>4
        <5>2. skipWhitespace(t, token.to) \in Nat /\ skipWhitespace(t, token.to) > i
          BY <2>1, <4>1, <5>1, FollowedBehind
        <5>. QED
          BY <1>4, <2>2, <4>1, <5>2
      <4>2. CASE ~token.ok
        BY <1>1, <2>2, <4>2
      <4>. QED
        BY <4>1, <4>2
    <3>2. PICK x : x = Started(i, token)
      OBVIOUS
    <3>3. x \in StartedTokens(t, d)
      BY <2>1, <3>2 DEF StartedTokens
    <3>4. <<x>> \in V
      BY <3>3
    <3>5. <<x>> \o r \in V
      BY <3>1, <3>4, JoinFacts
    <3>6. TokensStep(t, d, i, f) = <<x>> \o r
      BY <2>1, <2>2, <2>4, <3>2 DEF TokensStep, Followed
    <3>. QED
      BY <3>5, <3>6
  <2>. QED
    BY <2>3, <2>4
<1>5. ASSUME NEW i \in Nat, NEW f \in [Nat -> V], NEW g \in [Nat -> V], i > n \/ \A j \in Nat : j > i => f[j] = g[j]
      PROVE  F[<<i, f>>] = F[<<i, g>>]
  <2>1. CASE i > n
    BY <1>3, <2>1 DEF TokensStep
  <2>2. CASE ~(i > n)
    <3>1. PICK token : token = nextToken(t, i, d)
      OBVIOUS
    <3>2. ASSUME token.ok PROVE f[skipWhitespace(t, token.to)] = g[skipWhitespace(t, token.to)]
      <4>1. i \in 0..n
        BY <1>1, <2>2
      <4>2. skipWhitespace(t, token.to) \in Nat /\ skipWhitespace(t, token.to) > i
        BY <3>1, <3>2, <4>1, FollowedBehind
      <4>. QED
        BY <1>5, <2>2, <4>2
    <3>3. Followed(t, i, token, f) = Followed(t, i, token, g)
      <4>1. CASE token.ok
        BY <3>2, <4>1 DEF Followed
      <4>2. CASE ~token.ok
        BY <4>2 DEF Followed
      <4>. QED
        BY <4>1, <4>2
    <3>. QED
      BY <1>3, <2>2, <3>1, <3>3 DEF TokensStep
  <2>. QED
    BY <2>1, <2>2
<1>6. LooksAhead(F, n, V)
  <2>1. ASSUME NEW i \in Nat, NEW f \in [Nat -> V] PROVE F[<<i, f>>] \in V
    BY <1>3, <1>4
  <2>. QED
    BY <1>5, <2>1 DEF LooksAhead
<1>7. PICK g \in [Nat -> V] : \A i \in Nat : g[i] = F[<<i, g>>]
  <2>1. PICK W, v : W = V /\ v = <<>>
    OBVIOUS
  <2>2. v \in W /\ LooksAhead(F, n, W)
    BY <1>1, <1>6, <2>1
  <2>3. \E g \in [Nat -> W] : \A i \in Nat : g[i] = F[<<i, g>>]
    BY <1>1, <2>2, BackwardRecursionExists
  <2>. QED
    BY <2>1, <2>3
<1>8. Is(g)
  <2>1. g = [i \in Nat |-> g[i]]
    OBVIOUS
  <2>2. ASSUME NEW i \in Nat PROVE g[i] = TokensStep(t, d, i, g)
    BY <1>3, <1>7
  <2>. QED
    BY <2>1, <2>2
<1>9. PICK f : f = CHOOSE h : Is(h)
  OBVIOUS
<1>10. Is(f)
  BY <1>8, <1>9
<1>11. ASSUME NEW i \in Nat PROVE f[i] = TokensStep(t, d, i, f)
  BY <1>10
<1>12. ASSUME NEW i \in Nat PROVE f[i] \in V
  <2>. DEFINE S == {j \in Nat : f[j] \in V}
  <2>1. ASSUME NEW j \in Nat, j > n \/ \A k \in Nat : k > j => k \in S PROVE j \in S
    <3>1. CASE j > n
      BY <1>1, <1>11, <3>1 DEF TokensStep
    <3>2. CASE \A k \in Nat : k > j => k \in S
      BY <1>4, <1>11, <3>2
    <3>. QED
      BY <2>1, <3>1, <3>2
  <2>. HIDE DEF S
  <2>2. Nat \subseteq S
    BY <1>1, <2>1, BackwardInduction
  <2>. QED
    BY <2>2 DEF S
<1>13. ASSUME NEW i \in Nat PROVE tokensFrom(t, i, d) = f[i]
  BY <1>9 DEF tokensFrom, TokensStep
<1>. QED
  BY <1>11, <1>12, <1>13

AllOk(s) == \A k \in 1..Len(s) : s[k].ok

\* The tokens from i on, with what is between them and behind the last.
InOrderFrom(t, i, s) ==
    /\ IF i > Len(t) THEN Len(s) = 0 ELSE Len(s) > 0 /\ s[1].start = i
    /\ AllOk(s) =>
          /\ \A k \in 1..Len(s) : Placed(t, s[k])
          /\ \A k \in 1..Len(s) - 1 : Adjacent(t, s[k], s[k + 1])
          /\ Len(s) > 0 => s[Len(s)].to \in 1..Len(t) + 1 /\ \A m \in s[Len(s)].to..Len(t) : t[m] \in Blank

LEMMA TextLength ==
    ASSUME NEW t \in Text
    PROVE  Len(t) \in Nat
  BY DEF Text

LEMMA OneMoreToken ==
    ASSUME NEW t \in Text, NEW E, NEW x \in E, NEW r \in Seq(E), NEW j \in 1..Len(t) + 1,
           x.ok => Placed(t, x), InOrderFrom(t, j, r), j \in x.to..Len(t) + 1, x.to \in 1..Len(t) + 1,
           \A m \in x.to..j - 1 : t[m] \in Blank, x.start \in 1..Len(t)
    PROVE  InOrderFrom(t, x.start, <<x>> \o r)
<1>1. PICK n, s : n = Len(t) /\ n \in Nat /\ s = <<x>> \o r
  BY TextLength
<1>2. PICK l : l = Len(r) /\ l \in Nat
  OBVIOUS
<1>3. <<x>> \in Seq(E) /\ Len(<<x>>) = 1 /\ <<x>>[1] = x
  OBVIOUS
<1>4. /\ Len(s) = 1 + l /\ s[1] = x
      /\ \A k \in 1..l : s[1 + k] = r[k]
  <2>1. /\ s \in Seq(E) /\ Len(s) = Len(<<x>>) + Len(r)
        /\ \A k \in 1..Len(<<x>>) : s[k] = <<x>>[k]
        /\ \A k \in 1..Len(r) : s[Len(<<x>>) + k] = r[k]
    BY <1>1, <1>3, JoinFacts
  <2>2. 1 \in 1..Len(<<x>>)
    BY <1>3
  <2>. QED
    BY <1>2, <1>3, <2>1, <2>2
<1>5. ASSUME NEW k \in 1..1 + l, k # 1 PROVE k - 1 \in 1..l /\ s[k] = r[k - 1]
  <2>1. k - 1 \in 1..l /\ 1 + (k - 1) = k
    BY <1>2, <1>5
  <2>. QED
    BY <1>4, <2>1
<1>6. IF x.start > n THEN Len(s) = 0 ELSE Len(s) > 0 /\ s[1].start = x.start
  BY <1>1, <1>2, <1>4
<1>7. ASSUME AllOk(s)
      PROVE  /\ \A k \in 1..1 + l : Placed(t, s[k])
             /\ \A k \in 1..l : Adjacent(t, s[k], s[k + 1])
             /\ s[1 + l].to \in 1..n + 1 /\ \A m \in s[1 + l].to..n : t[m] \in Blank
  <2>1. ASSUME NEW k \in 1..1 + l PROVE s[k].ok
    BY <1>4, <1>7 DEF AllOk
  <2>2. AllOk(r)
    <3>1. ASSUME NEW k \in 1..l PROVE r[k].ok
      <4>1. 1 + k \in 1..1 + l
        BY <1>2
      <4>. QED
        BY <1>4, <2>1, <4>1
    <3>. QED
      BY <1>2, <3>1 DEF AllOk
  <2>3. x.ok
    <3>1. 1 \in 1..1 + l
      BY <1>2
    <3>. QED
      BY <1>4, <2>1, <3>1
  <2>4. /\ \A k \in 1..l : Placed(t, r[k])
        /\ \A k \in 1..l - 1 : Adjacent(t, r[k], r[k + 1])
        /\ l > 0 => r[l].to \in 1..n + 1 /\ \A m \in r[l].to..n : t[m] \in Blank
    BY <1>1, <1>2, <2>2 DEF InOrderFrom
  <2>5. ASSUME NEW k \in 1..1 + l PROVE Placed(t, s[k])
    <3>1. CASE k = 1
      BY <1>4, <2>3, <3>1
    <3>2. CASE k # 1
      BY <1>5, <2>4, <3>2
    <3>. QED
      BY <3>1, <3>2
  <2>6. ASSUME NEW k \in 1..l PROVE Adjacent(t, s[k], s[k + 1])
    <3>1. s[k + 1] = r[k]
      BY <1>2, <1>4
    <3>2. CASE k = 1
      <4>1. j <= n
        BY <1>1, <1>2, <3>2 DEF InOrderFrom
      <4>2. r[1].start = j
        BY <1>1, <4>1 DEF InOrderFrom
      <4>3. Adjacent(t, x, r[1])
        BY <1>1, <4>2 DEF Adjacent
      <4>. QED
        BY <1>4, <3>1, <3>2, <4>3
    <3>3. CASE k # 1
      <4>1. k \in 1..1 + l /\ k - 1 \in 1..l - 1 /\ k - 1 + 1 = k
        BY <1>2, <3>3
      <4>2. s[k] = r[k - 1]
        BY <1>5, <3>3, <4>1
      <4>3. Adjacent(t, r[k - 1], r[k])
        BY <2>4, <4>1
      <4>. QED
        BY <3>1, <4>2, <4>3
    <3>. QED
      BY <3>2, <3>3
  <2>7. s[1 + l].to \in 1..n + 1 /\ \A m \in s[1 + l].to..n : t[m] \in Blank
    <3>1. CASE l = 0
      <4>1. j > n
        BY <1>1, <1>2, <3>1 DEF InOrderFrom
      <4>2. j - 1 = n
        BY <1>1, <4>1
      <4>3. s[1 + l] = x
        BY <1>4, <3>1
      <4>. QED
        BY <1>1, <4>2, <4>3
    <3>2. CASE l # 0
      <4>1. l \in 1..l /\ l > 0
        BY <1>2, <3>2
      <4>2. s[1 + l] = r[l]
        BY <1>4, <4>1
      <4>. QED
        BY <2>4, <4>1, <4>2
    <3>. QED
      BY <3>1, <3>2
  <2>. QED
    BY <2>5, <2>6, <2>7
<1>8. PICK m : m = Len(s) /\ m = 1 + l /\ m - 1 = l /\ m > 0
  BY <1>2, <1>4
<1>9. ASSUME AllOk(s)
      PROVE  /\ \A k \in 1..Len(s) : Placed(t, s[k])
             /\ \A k \in 1..Len(s) - 1 : Adjacent(t, s[k], s[k + 1])
             /\ s[Len(s)].to \in 1..Len(t) + 1 /\ \A k \in s[Len(s)].to..Len(t) : t[k] \in Blank
  BY <1>1, <1>7, <1>8, <1>9
<1>10. IF x.start > Len(t) THEN Len(s) = 0 ELSE Len(s) > 0 /\ s[1].start = x.start
  BY <1>1, <1>6
<1>11. InOrderFrom(t, x.start, s)
  BY <1>9, <1>10 DEF InOrderFrom
<1>. QED
  BY <1>1, <1>11

LEMMA NoTokensInOrder ==
    ASSUME NEW t \in Text, NEW i, i > Len(t), NEW s, s = <<>>
    PROVE  InOrderFrom(t, i, s)
<1>1. Len(s) = 0
  OBVIOUS
<1>2. 1..Len(s) = {} /\ 1..Len(s) - 1 = {}
  BY <1>1
<1>. QED
  BY <1>1, <1>2 DEF InOrderFrom

LEMMA TokensFromFacts ==
    ASSUME NEW t \in Text, NEW d, NEW i \in 1..Len(t) + 1
    PROVE  InOrderFrom(t, i, tokensFrom(t, i, d)) /\ tokensFrom(t, i, d) \in Seq(StartedTokens(t, d))
<1>1. PICK f : /\ \A j \in Nat : f[j] = TokensStep(t, d, j, f)
               /\ \A j \in Nat : f[j] \in Seq(StartedTokens(t, d))
               /\ \A j \in Nat : tokensFrom(t, j, d) = f[j]
  BY TokensRecursion
<1>2. PICK n, E : n = Len(t) /\ n \in Nat /\ E = StartedTokens(t, d)
  BY TextLength
<1>. DEFINE S == {j \in Nat : j \in 1..n + 1 => InOrderFrom(t, j, f[j])}
<1>3. ASSUME NEW j \in Nat, j > n \/ \A k \in Nat : k > j => k \in S PROVE j \in S
  <2>. SUFFICES ASSUME j \in 1..n + 1 PROVE InOrderFrom(t, j, f[j])
    OBVIOUS
  <2>1. CASE j > n
    <3>1. f[j] = <<>>
      BY <1>1, <1>2, <2>1 DEF TokensStep
    <3>. QED
      BY <1>2, <2>1, <3>1, NoTokensInOrder
  <2>2. CASE ~(j > n)
    <3>1. PICK token, x : token = nextToken(t, j, d) /\ x = Started(j, token)
      OBVIOUS
    <3>2. x.start = j /\ x.ok = token.ok /\ x.to = token.to
      BY <3>1 DEF Started
    <3>3. j \in 0..n /\ j \in 1..n /\ j # 0
      BY <1>2, <2>2
    <3>4. x \in E
      BY <1>2, <3>1 DEF StartedTokens
    <3>5. f[j] = Followed(t, j, token, f)
      BY <1>1, <1>2, <2>2, <3>1 DEF TokensStep
    <3>6. CASE token.ok
      <4>1. PICK m : m = skipWhitespace(t, token.to)
        OBVIOUS
      <4>2. /\ token.to \in j + 1..n + 1 /\ m \in token.to..n + 1 /\ m \in 1..n + 1 /\ m \in Nat /\ m > j
            /\ \A k \in token.to..m - 1 : t[k] \in Blank
        BY <1>2, <3>1, <3>3, <3>6, <4>1, FollowedBehind
      <4>3. PICK r : r = f[m] /\ r \in Seq(E)
        BY <1>1, <1>2, <4>2
      <4>4. InOrderFrom(t, m, r)
        BY <1>3, <2>2, <4>2, <4>3
      <4>5. f[j] = <<x>> \o r
        BY <3>1, <3>5, <3>6, <4>1, <4>3 DEF Followed
      <4>6. Placed(t, x)
        BY <1>2, <3>1, <3>3, <3>6, NextTokenPlaced
      <4>7. x.to \in 1..n + 1 /\ m \in x.to..n + 1 /\ (\A k \in x.to..m - 1 : t[k] \in Blank) /\ x.start \in 1..n
        BY <1>2, <3>2, <3>3, <4>2
      <4>8. InOrderFrom(t, x.start, <<x>> \o r)
        BY <1>2, <3>4, <4>2, <4>3, <4>4, <4>6, <4>7, OneMoreToken
      <4>. QED
        BY <3>2, <4>5, <4>8
    <3>7. CASE ~token.ok
      <4>1. f[j] = <<x>> \o <<>>
        BY <3>1, <3>5, <3>7 DEF Followed
      <4>2. PICK s : s = f[j] /\ s = <<x>>
        <5>1. PICK s : s = <<x>>
          OBVIOUS
        <5>2. s \in Seq(E)
          BY <3>4, <5>1
        <5>3. s \o <<>> = s
          BY <5>2, ConcatEmptySeq
        <5>. QED
          BY <4>1, <5>1, <5>3
      <4>3. Len(s) = 1 /\ s[1] = x
        BY <4>2
      <4>4. ~AllOk(s)
        <5>1. 1 \in 1..Len(s)
          BY <4>3
        <5>. QED
          BY <3>2, <3>7, <4>3, <5>1 DEF AllOk
      <4>5. IF j > Len(t) THEN Len(s) = 0 ELSE Len(s) > 0 /\ s[1].start = j
        BY <1>2, <2>2, <3>2, <4>3
      <4>. QED
        BY <4>2, <4>4, <4>5 DEF InOrderFrom
    <3>. QED
      BY <3>6, <3>7
  <2>. QED
    BY <2>1, <2>2
<1>. HIDE DEF S
<1>4. Nat \subseteq S
  BY <1>2, <1>3, BackwardInduction
<1>5. i \in Nat /\ i \in 1..n + 1
  BY <1>2
<1>6. InOrderFrom(t, i, f[i])
  BY <1>4, <1>5 DEF S
<1>. QED
  BY <1>1, <1>5, <1>6

LEMMA AppendedFacts ==
    ASSUME NEW t \in Text, NEW E, NEW s \in Seq(E), NEW i \in 1..Len(t) + 1, InOrderFrom(t, i, s), AllOk(s),
           \A m \in 1..i - 1 : t[m] \in Blank
    PROVE  TokensInOrder(t, Append(s, Started(Len(t) + 1, EndOfText(Len(t)))))
<1>1. PICK n, l : n = Len(t) /\ n \in Nat /\ l = Len(s) /\ l \in Nat
  <2>1. Len(t) \in Nat
    BY TextLength
  <2>2. Len(s) \in Nat
    OBVIOUS
  <2>. QED
    BY <2>1, <2>2
<1>2. PICK x : x = Started(n + 1, EndOfText(n))
  OBVIOUS
<1>3. x.start = n + 1 /\ x.ok = TRUE /\ x.kind = "EOF" /\ x.from = n + 1 /\ x.to = n + 1
  BY <1>2 DEF Started, EndOfText, Token
<1>4. PICK r : r = Append(s, x)
  OBVIOUS
<1>5. Len(r) = l + 1 /\ r[l + 1] = x /\ \A k \in 1..l : r[k] = s[k]
  <2>1. PICK G : G = E \cup {x}
    OBVIOUS
  <2>2. s \in Seq(G) /\ x \in G
    <3>1. ASSUME NEW k \in 1..l PROVE s[k] \in G
      BY <1>1, <2>1
    <3>. QED
      BY <1>1, <2>1, <3>1
  <2>. QED
    BY <1>1, <1>4, <2>2, AppendProperties
<1>6. /\ \A k \in 1..l : Placed(t, s[k])
      /\ \A k \in 1..l - 1 : Adjacent(t, s[k], s[k + 1])
      /\ l > 0 => s[l].to \in 1..n + 1 /\ \A m \in s[l].to..n : t[m] \in Blank
  BY <1>1 DEF InOrderFrom
<1>7. Placed(t, x)
  BY <1>1, <1>3, NoComment DEF Placed
<1>8. ASSUME NEW k \in 1..l + 1 PROVE Placed(t, r[k])
  <2>1. k \in 1..l \/ k = l + 1
    BY <1>1
  <2>. QED
    BY <1>5, <1>6, <1>7, <2>1
<1>9. ASSUME NEW k \in 1..l PROVE Adjacent(t, r[k], r[k + 1])
  <2>1. CASE k = l
    <3>1. r[k] = s[l] /\ r[k + 1] = x
      BY <1>5, <2>1
    <3>2. l > 0
      BY <1>1
    <3>3. Adjacent(t, s[l], x)
      <4>1. s[l].to <= x.start
        BY <1>1, <1>3, <1>6, <3>2
      <4>2. x.start - 1 = n
        BY <1>1, <1>3
      <4>. QED
        BY <1>6, <3>2, <4>1, <4>2 DEF Adjacent
    <3>. QED
      BY <3>1, <3>3
  <2>2. CASE k # l
    <3>1. k \in 1..l - 1 /\ k + 1 \in 1..l
      BY <1>1, <2>2
    <3>. QED
      BY <1>5, <1>6, <3>1
  <2>. QED
    BY <2>1, <2>2
<1>10. \A m \in 1..r[1].start - 1 : t[m] \in Blank
  <2>1. r[1].start = i
    <3>1. CASE l = 0
      <4>1. i = n + 1
        BY <1>1, <3>1 DEF InOrderFrom
      <4>. QED
        BY <1>3, <1>5, <3>1, <4>1
    <3>2. CASE l # 0
      <4>1. 1 \in 1..l
        BY <1>1, <3>2
      <4>2. s[1].start = i
        BY <1>1, <3>2 DEF InOrderFrom
      <4>. QED
        BY <1>5, <4>1, <4>2
    <3>. QED
      BY <3>1, <3>2
  <2>. QED
    BY <2>1
<1>11. PICK m : m = Len(r) /\ m = l + 1 /\ m - 1 = l /\ m > 0
  BY <1>1, <1>5
<1>12. TokensInOrder(t, r)
  BY <1>3, <1>5, <1>8, <1>9, <1>10, <1>11 DEF TokensInOrder
<1>. QED
  BY <1>1, <1>2, <1>4, <1>12

(* Whatever the text and the dialect, when no Error is met: every token is *)
(* of at least one character, nothing but blanks and comments is between   *)
(* two of them, in front of the first and behind the last, and the last is *)
(* the end of the text: the loop always advances, and no character is left *)
(* out or read twice (tokenizer.go:447).                                   *)
THEOREM TokensCoverTheText ==
    \A t \in Seq(Characters) : \A d : Tokenize(t, d).ok => TokensInOrder(t, Tokenize(t, d).tokens)
<1>. SUFFICES ASSUME NEW t \in Text, NEW d, Tokenize(t, d).ok PROVE TokensInOrder(t, Tokenize(t, d).tokens)
  BY DEF Text
<1>1. PICK n, i, s : n = Len(t) /\ n \in Nat /\ i = skipWhitespace(t, 1) /\ s = tokensFrom(t, i, d)
  BY TextLength
<1>2. i \in 1..n + 1 /\ \A m \in 1..i - 1 : t[m] \in Blank
  <2>1. 1 \in 1..n + 1
    BY <1>1
  <2>. QED
    BY <1>1, <2>1, FirstOtherFacts DEF skipWhitespace
<1>3. InOrderFrom(t, i, s) /\ s \in Seq(StartedTokens(t, d))
  BY <1>1, <1>2, TokensFromFacts
<1>4. Tokenize(t, d) = IF \E k \in DOMAIN s : ~s[k].ok THEN [ok |-> FALSE, tokens |-> <<>>]
                       ELSE [ok |-> TRUE, tokens |-> Append(s, Started(n + 1, EndOfText(n)))]
  BY <1>1 DEF Tokenize, EndOfText
<1>5. DOMAIN s = 1..Len(s)
  BY <1>3
<1>6. ~(\E k \in DOMAIN s : ~s[k].ok)
  <2>. SUFFICES ASSUME \E k \in DOMAIN s : ~s[k].ok PROVE FALSE
    OBVIOUS
  <2>1. Tokenize(t, d) = [ok |-> FALSE, tokens |-> <<>>]
    BY <1>4
  <2>. QED
    BY <2>1
<1>7. Tokenize(t, d).tokens = Append(s, Started(n + 1, EndOfText(n)))
  BY <1>4, <1>6
<1>8. AllOk(s)
  BY <1>5, <1>6 DEF AllOk
<1>. QED
  BY <1>1, <1>2, <1>3, <1>7, <1>8, AppendedFacts
=============================================================================
