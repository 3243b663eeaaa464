---------------------------- MODULE AstPoolProofs ----------------------------
(***************************************************************************)
(* What the release guard guarantees for any number of nodes, goroutines   *)
(* and broken contracts: a node whose reset leaves its guard alone is      *)
(* never in its pool twice.                                                *)
(***************************************************************************)
EXTENDS AstPool, TLAPS, FiniteSetTheorems

(* Work of a release on n that has won n's guard. *)
Holds(g, i, n) ==
    i \in DOMAIN stack[g] /\ stack[g][i].node = n /\ stack[g][i].todo # "visit"

(* A node is in its pool, being taken from it or being reset in at most one
   place, and as long as it is anywhere there its guard is closed. *)
Guarded(n) ==
    /\ pool[n] <= 1
    /\ pool[n] = 1 => released[n]
    /\ \A g \in Goroutines : taking[g] = n => released[n] /\ pool[n] = 0
    /\ \A g, h \in Goroutines : taking[g] = n /\ taking[h] = n => g = h
    /\ \A g \in Goroutines, i \in Nat : Holds(g, i, n) =>
         /\ released[n] /\ pool[n] = 0
         /\ \A h \in Goroutines : taking[h] # n
         /\ stack[g][i].todo = "reset"
    /\ \A g, h \in Goroutines, i, j \in Nat :
         Holds(g, i, n) /\ Holds(h, j, n) => g = h /\ i = j

IInv == TypeOK /\ \A n \in Nodes \ Wiped : Guarded(n)

-----------------------------------------------------------------------------

LEMMA PopType ==
    ASSUME NEW s \in Seq(Entry), s # <<>>
    PROVE  /\ Top(s) \in Entry /\ Rest(s) \in Seq(Entry)
           /\ Len(s) \in Nat \ {0} /\ Top(s) = s[Len(s)]
           /\ DOMAIN Rest(s) = 1..Len(s) - 1 /\ DOMAIN s = 1..Len(s)
           /\ \A i \in 1..Len(s) - 1 : Rest(s)[i] = s[i]
BY DEF Top, Rest

LEMMA VisitsType ==
    ASSUME NEW s \in Seq(Entry), NEW ns \in Seq(Nodes)
    PROVE  /\ s \o VisitAll(ns) \in Seq(Entry)
           /\ \A i \in DOMAIN s : i \in DOMAIN (s \o VisitAll(ns)) /\ (s \o VisitAll(ns))[i] = s[i]
           /\ \A i \in DOMAIN (s \o VisitAll(ns)) :
                i \in DOMAIN s \/ (s \o VisitAll(ns))[i].todo = "visit"
<1>1. \A n \in Nodes : Visit(n) \in Entry /\ Visit(n).todo = "visit"
  BY DEF Visit, Entry
<1>2. Len(ns) \in Nat /\ DOMAIN ns = 1..Len(ns) /\ \A i \in 1..Len(ns) : ns[i] \in Nodes
  OBVIOUS
<1>3. /\ VisitAll(ns) \in [1..Len(ns) -> Entry]
      /\ \A i \in 1..Len(ns) : VisitAll(ns)[i].todo = "visit"
  BY <1>1, <1>2 DEF VisitAll
<1>4. VisitAll(ns) \in Seq(Entry) /\ DOMAIN VisitAll(ns) = 1..Len(ns)
  BY <1>2, <1>3
<1>. DEFINE v == VisitAll(ns)
<1>. HIDE DEF v
<1>5. v \in Seq(Entry) /\ \A i \in DOMAIN v : v[i].todo = "visit"
  BY <1>3, <1>4 DEF v
<1>6. /\ s \o v \in Seq(Entry)
      /\ \A i \in DOMAIN s : i \in DOMAIN (s \o v) /\ (s \o v)[i] = s[i]
      /\ \A i \in DOMAIN (s \o v) : i \in DOMAIN s \/ (s \o v)[i].todo = "visit"
  BY <1>5
<1>. QED
  BY <1>6 DEF v

LEMMA PushType ==
    ASSUME NEW s \in Seq(Entry), NEW e \in Entry
    PROVE  /\ Append(s, e) \in Seq(Entry)
           /\ Len(s) \in Nat /\ DOMAIN s = 1..Len(s)
           /\ DOMAIN Append(s, e) = 1..Len(s) + 1
           /\ \A i \in DOMAIN s : Append(s, e)[i] = s[i]
           /\ Append(s, e)[Len(s) + 1] = e
OBVIOUS

(* The walk of a goroutine: its top, and what is below it. *)
LEMMA PopWalk ==
    ASSUME TypeOK, NEW g \in Goroutines, stack[g] # <<>>
    PROVE  \E k \in Nat, n \in Nodes, r \in Seq(Entry) :
             /\ r = Rest(stack[g]) /\ n = Top(stack[g]).node
             /\ k \in DOMAIN stack[g] /\ stack[g][k] = Top(stack[g])
             /\ \A i \in DOMAIN r : i \in DOMAIN stack[g] /\ i # k /\ stack[g][i] = r[i]
<1>1. PICK o \in Seq(Entry) : o = stack[g] /\ o # <<>>
  BY DEF TypeOK
<1>2. /\ Top(o) \in Entry /\ Rest(o) \in Seq(Entry) /\ Len(o) \in Nat \ {0}
      /\ Top(o) = o[Len(o)] /\ DOMAIN Rest(o) = 1..Len(o) - 1 /\ DOMAIN o = 1..Len(o)
      /\ \A i \in 1..Len(o) - 1 : Rest(o)[i] = o[i]
  BY <1>1, PopType
<1>3. PICK k \in Nat \ {0} : k = Len(o)
  BY <1>2
<1>4. PICK r \in Seq(Entry) : r = Rest(o)
  BY <1>2
<1>5. PICK n \in Nodes : n = Top(o).node
  BY <1>2 DEF Entry
<1>6. k \in DOMAIN o /\ o[k] = Top(o)
  BY <1>2, <1>3
<1>7. \A i \in DOMAIN r : i \in DOMAIN o /\ i # k /\ o[i] = r[i]
  BY <1>2, <1>3, <1>4
<1>. QED
  BY <1>1, <1>4, <1>5, <1>6, <1>7

(* A step preserves the guard of a node it does not touch. *)
LEMMA GuardedElsewhere ==
    ASSUME NEW n \in Nodes, Guarded(n),
           pool'[n] = pool[n], released'[n] = released[n],
           \A g \in Goroutines : taking'[g] = n => taking[g] = n,
           \A g \in Goroutines, i \in Nat :
              Holds(g, i, n)' => Holds(g, i, n) /\ stack'[g][i] = stack[g][i]
    PROVE  Guarded(n)'
BY DEF Guarded

(* Init is guarded. *)
LEMMA InitIInv == Init => IInv
BY NodeAssumption DEF Init, IInv, TypeOK, Guarded, Holds, Entry

(* Steps that move no node between pool, taking and the release walks. *)
LEMMA ClaimsUnchanged ==
    ASSUME IInv, UNCHANGED <<pool, released, taking, stack>>
    PROVE  \A n \in Nodes \ Wiped : Guarded(n)'
BY DEF IInv, Guarded, Holds

(* A release walk that drops or gains only visits. *)
LEMMA VisitsChange ==
    ASSUME IInv, NEW g \in Goroutines,
           UNCHANGED <<pool, released, taking>>,
           NEW s \in Seq(Entry), stack' = [stack EXCEPT ![g] = s],
           \A i \in DOMAIN s : s[i].todo # "visit" => i \in DOMAIN stack[g] /\ stack[g][i] = s[i]
    PROVE  \A n \in Nodes \ Wiped : Guarded(n)'
<1>1. \A h \in Goroutines, i \in Nat, n \in Nodes :
        Holds(h, i, n)' => Holds(h, i, n) /\ stack'[h][i] = stack[h][i]
  BY DEF IInv, TypeOK, Holds
<1>. QED
  BY <1>1 DEF IInv, Guarded

LEMMA ReleaseIInv ==
    ASSUME IInv, NEW g \in Goroutines, NEW n \in Nodes, Release(g, n)
    PROVE  IInv'
<1>1. <<Visit(n)>> \in Seq(Entry) /\ \A i \in DOMAIN <<Visit(n)>> : <<Visit(n)>>[i].todo = "visit"
  BY DEF Visit, Entry
<1>2. PICK s \in Seq(Entry) : s = <<Visit(n)>>
  BY <1>1
<1>3. \A m \in Nodes \ Wiped : Guarded(m)'
  BY <1>1, <1>2, VisitsChange DEF Release
<1>4. TypeOK'
  BY <1>1 DEF IInv, TypeOK, Release
<1>. QED
  BY <1>3, <1>4 DEF IInv

LEMMA RefuseIInv ==
    ASSUME IInv, NEW g \in Goroutines, Refuse(g)
    PROVE  IInv'
<1>1. PICK k \in Nat, n \in Nodes, r \in Seq(Entry) :
        /\ r = Rest(stack[g]) /\ n = Top(stack[g]).node
        /\ k \in DOMAIN stack[g] /\ stack[g][k] = Top(stack[g])
        /\ \A i \in DOMAIN r : i \in DOMAIN stack[g] /\ i # k /\ stack[g][i] = r[i]
  BY PopWalk DEF IInv, Refuse, Next2Do
<1>2. stack' = [stack EXCEPT ![g] = r] /\ UNCHANGED <<pool, released, taking>>
  BY <1>1 DEF Refuse
<1>3. \A i \in DOMAIN r : r[i].todo # "visit" => i \in DOMAIN stack[g] /\ stack[g][i] = r[i]
  BY <1>1
<1>4. \A m \in Nodes \ Wiped : Guarded(m)'
  BY <1>2, <1>3, VisitsChange
<1>5. TypeOK'
  BY <1>2, NodeAssumption DEF IInv, TypeOK, Refuse
<1>. QED
  BY <1>4, <1>5 DEF IInv

(* An expression that wins its guard was nowhere, and is then in its pool. *)
LEMMA PoolExpressionIInv ==
    ASSUME IInv, NEW g \in Goroutines, PoolExpression(g)
    PROVE  IInv'
<1>1. PICK k \in Nat, n \in Nodes, r \in Seq(Entry) :
        /\ r = Rest(stack[g]) /\ n = Top(stack[g]).node
        /\ k \in DOMAIN stack[g] /\ stack[g][k] = Top(stack[g])
        /\ \A i \in DOMAIN r : i \in DOMAIN stack[g] /\ i # k /\ stack[g][i] = r[i]
  BY PopWalk DEF IInv, PoolExpression, Next2Do
<1>2. children[n] \in Seq(Nodes)
  BY DEF IInv, TypeOK
<1>3. PICK s \in Seq(Entry) : s = r \o VisitAll(children[n])
  BY <1>2, VisitsType
<1>4. \A i \in DOMAIN s : s[i].todo # "visit" => i \in DOMAIN stack[g] /\ stack[g][i] = s[i]
  BY <1>1, <1>2, <1>3, VisitsType
<1>5. /\ stack' = [stack EXCEPT ![g] = s] /\ ~released[n]
      /\ released' = [released EXCEPT ![n] = TRUE] /\ pool' = [pool EXCEPT ![n] = @ + 1]
      /\ taking' = taking
  BY <1>1, <1>3 DEF PoolExpression
<1>6. \A h \in Goroutines, i \in Nat, m \in Nodes :
        Holds(h, i, m)' => Holds(h, i, m) /\ stack'[h][i] = stack[h][i]
  BY <1>4, <1>5 DEF IInv, TypeOK, Holds
<1>7. ASSUME NEW m \in Nodes \ Wiped PROVE Guarded(m)'
  <2>1. Guarded(m) /\ pool[m] \in Nat /\ released[m] \in BOOLEAN
    BY DEF IInv, TypeOK
  <2>2. CASE m # n
    <3>1. pool'[m] = pool[m] /\ released'[m] = released[m]
      BY <2>2, <1>5 DEF IInv, TypeOK
    <3>2. \A h \in Goroutines : taking'[h] = m => taking[h] = m
      BY <2>2, <1>5 DEF IInv, TypeOK
    <3>3. \A h \in Goroutines, i \in Nat :
            Holds(h, i, m)' => Holds(h, i, m) /\ stack'[h][i] = stack[h][i]
      BY <2>2, <1>6
    <3>. QED
      BY <2>1, <3>1, <3>2, <3>3, GuardedElsewhere
  <2>3. CASE m = n
    BY <2>1, <2>3, <1>5, <1>6 DEF Guarded, IInv, TypeOK
  <2>. QED
    BY <2>2, <2>3
<1>8. TypeOK'
  <2>1. children' = [children EXCEPT ![n] = <<>>] /\ <<>> \in Seq(Nodes)
    BY <1>1 DEF PoolExpression
  <2>2. /\ pool' \in [Nodes -> Nat] /\ stack' \in [Goroutines -> Seq(Entry)]
        /\ children' \in [Nodes -> Seq(Nodes)]
    BY <1>5, <2>1 DEF IInv, TypeOK
  <2>3. released' \in [Nodes -> BOOLEAN]
    BY <1>5 DEF IInv, TypeOK
  <2>. QED
    BY <2>2, <2>3 DEF IInv, TypeOK, PoolExpression
<1>. QED
  BY <1>7, <1>8 DEF IInv

(* A statement that wins its guard was nowhere, and is then being reset. *)
LEMMA ReleaseChildrenIInv ==
    ASSUME IInv, NEW g \in Goroutines, ReleaseChildren(g)
    PROVE  IInv'
<1>1. PICK k \in Nat, n \in Nodes, r \in Seq(Entry) :
        /\ r = Rest(stack[g]) /\ n = Top(stack[g]).node
        /\ k \in DOMAIN stack[g] /\ stack[g][k] = Top(stack[g])
        /\ \A i \in DOMAIN r : i \in DOMAIN stack[g] /\ i # k /\ stack[g][i] = r[i]
  BY PopWalk DEF IInv, ReleaseChildren, Next2Do
<1>2. children[n] \in Seq(Nodes) /\ ToReset(n) \in Entry
      /\ ToReset(n).node = n /\ ToReset(n).todo = "reset"
  BY DEF IInv, TypeOK, ToReset, Entry
<1>3. PICK q \in Seq(Entry) : q = Append(r, ToReset(n))
  BY <1>2, PushType
<1>4. PICK s \in Seq(Entry) : s = q \o VisitAll(children[n])
  BY <1>2, VisitsType
<1>5. \A i \in DOMAIN q : \/ i \in DOMAIN r /\ q[i] = r[i]
                          \/ i = Len(r) + 1 /\ q[i] = ToReset(n)
  BY <1>2, <1>3, PushType
<1>6. \A i \in DOMAIN r : i \in DOMAIN stack[g] /\ r[i] = stack[g][i]
  BY <1>1
<1>7. \A i \in DOMAIN s : s[i].todo # "visit" =>
         \/ i \in DOMAIN stack[g] /\ stack[g][i] = s[i]
         \/ i = Len(r) + 1 /\ s[i] = ToReset(n)
  BY <1>2, <1>4, <1>5, <1>6, VisitsType
<1>8. /\ stack' = [stack EXCEPT ![g] = s] /\ ~released[n]
       /\ released' = [released EXCEPT ![n] = TRUE] /\ pool' = pool
       /\ taking' = taking
  BY <1>1, <1>3, <1>4 DEF ReleaseChildren
<1>9. \A h \in Goroutines, i \in Nat, m \in Nodes : Holds(h, i, m)' =>
          \/ Holds(h, i, m) /\ stack'[h][i] = stack[h][i]
          \/ h = g /\ i = Len(r) + 1 /\ m = n /\ stack'[h][i].todo = "reset"
  BY <1>2, <1>7, <1>8 DEF IInv, TypeOK, Holds
<1>10. ASSUME NEW m \in Nodes \ Wiped PROVE Guarded(m)'
  <2>1. Guarded(m) /\ pool[m] \in Nat /\ released[m] \in BOOLEAN
    BY DEF IInv, TypeOK
  <2>2. CASE m # n
    <3>1. pool'[m] = pool[m] /\ released'[m] = released[m]
      BY <2>2, <1>8 DEF IInv, TypeOK
    <3>2. \A h \in Goroutines : taking'[h] = m => taking[h] = m
      BY <2>2, <1>8 DEF IInv, TypeOK
    <3>3. \A h \in Goroutines, i \in Nat :
            Holds(h, i, m)' => Holds(h, i, m) /\ stack'[h][i] = stack[h][i]
      BY <2>2, <1>9
    <3>. QED
      BY <2>1, <3>1, <3>2, <3>3, GuardedElsewhere
  <2>3. CASE m = n
    <3>1. /\ pool[n] = 0 /\ \A h \in Goroutines : taking[h] # n
          /\ \A h \in Goroutines, i \in Nat : ~Holds(h, i, n)
      BY <2>1, <2>3, <1>8 DEF Guarded
    <3>2. \A h \in Goroutines, i \in Nat : Holds(h, i, n)' =>
             h = g /\ i = Len(r) + 1 /\ stack'[h][i].todo = "reset"
      BY <3>1, <1>9
    <3>. QED
      BY <2>3, <3>1, <3>2, <1>8 DEF Guarded, IInv, TypeOK
  <2>. QED
    BY <2>2, <2>3
<1>11. TypeOK'
  <2>1. children' = [children EXCEPT ![n] = <<>>] /\ <<>> \in Seq(Nodes)
    BY <1>1 DEF ReleaseChildren
  <2>2. /\ pool' \in [Nodes -> Nat] /\ stack' \in [Goroutines -> Seq(Entry)]
        /\ children' \in [Nodes -> Seq(Nodes)]
    BY <1>8, <2>1 DEF IInv, TypeOK
  <2>3. released' \in [Nodes -> BOOLEAN]
    BY <1>8 DEF IInv, TypeOK
  <2>. QED
    BY <2>2, <2>3 DEF IInv, TypeOK, ReleaseChildren
<1>. QED
  BY <1>10, <1>11 DEF IInv

(* The end of a typed Put gives up its only claim for a place in the pool. *)
LEMMA PoolStatementIInv ==
    ASSUME IInv, NEW g \in Goroutines, PoolStatement(g)
    PROVE  IInv'
<1>1. PICK k \in Nat, n \in Nodes, r \in Seq(Entry) :
        /\ r = Rest(stack[g]) /\ n = Top(stack[g]).node
        /\ k \in DOMAIN stack[g] /\ stack[g][k] = Top(stack[g])
        /\ \A i \in DOMAIN r : i \in DOMAIN stack[g] /\ i # k /\ stack[g][i] = r[i]
  BY PopWalk DEF IInv, PoolStatement, Next2Do
<1>2. Holds(g, k, n)
  BY <1>1 DEF PoolStatement, Next2Do, Holds
<1>3. /\ stack' = [stack EXCEPT ![g] = r] /\ pool' = [pool EXCEPT ![n] = @ + 1]
      /\ released' = released /\ taking' = taking
  BY <1>1 DEF PoolStatement
<1>4. \A h \in Goroutines, i \in Nat, m \in Nodes : Holds(h, i, m)' =>
         Holds(h, i, m) /\ stack'[h][i] = stack[h][i] /\ (h # g \/ i # k)
  BY <1>1, <1>3 DEF IInv, TypeOK, Holds
<1>5. ASSUME NEW m \in Nodes \ Wiped PROVE Guarded(m)'
  <2>1. Guarded(m) /\ pool[m] \in Nat /\ released[m] \in BOOLEAN
    BY DEF IInv, TypeOK
  <2>2. CASE m # n
    <3>1. pool'[m] = pool[m] /\ released'[m] = released[m]
      BY <2>2, <1>3 DEF IInv, TypeOK
    <3>2. \A h \in Goroutines : taking'[h] = m => taking[h] = m
      BY <2>2, <1>3 DEF IInv, TypeOK
    <3>3. \A h \in Goroutines, i \in Nat :
            Holds(h, i, m)' => Holds(h, i, m) /\ stack'[h][i] = stack[h][i]
      BY <2>2, <1>4
    <3>. QED
      BY <2>1, <3>1, <3>2, <3>3, GuardedElsewhere
  <2>3. CASE m = n
    <3>1. /\ pool[n] = 0 /\ released[n] /\ \A h \in Goroutines : taking[h] # n
          /\ \A h \in Goroutines, i \in Nat : Holds(h, i, n) => h = g /\ i = k
      BY <2>1, <2>3, <1>2 DEF Guarded
    <3>2. \A h \in Goroutines, i \in Nat : ~Holds(h, i, n)'
      BY <3>1, <1>4
    <3>. QED
      BY <2>1, <2>3, <3>1, <3>2, <1>3 DEF Guarded, IInv, TypeOK
  <2>. QED
    BY <2>2, <2>3
<1>6. TypeOK'
  <2>1. pool' \in [Nodes -> Nat]
    BY <1>3 DEF IInv, TypeOK
  <2>2. stack' \in [Goroutines -> Seq(Entry)]
    BY <1>3 DEF IInv, TypeOK
  <2>. QED
    BY <2>1, <2>2 DEF IInv, TypeOK, PoolStatement
<1>. QED
  BY <1>5, <1>6 DEF IInv

(* The whole-struct reset only concerns the nodes it is not proved about. *)
LEMMA WipeStatementIInv ==
    ASSUME IInv, NEW g \in Goroutines, WipeStatement(g)
    PROVE  IInv'
<1>1. PICK k \in Nat, n \in Nodes, r \in Seq(Entry) :
        /\ r = Rest(stack[g]) /\ n = Top(stack[g]).node
        /\ k \in DOMAIN stack[g] /\ stack[g][k] = Top(stack[g])
        /\ \A i \in DOMAIN r : i \in DOMAIN stack[g] /\ i # k /\ stack[g][i] = r[i]
  BY PopWalk DEF IInv, WipeStatement, Next2Do
<1>2. ToMark(n) \in Entry /\ ToMark(n).node = n
  BY DEF ToMark, Entry
<1>3. PICK s \in Seq(Entry) : s = Append(r, ToMark(n))
  BY <1>2, PushType
<1>4. \A i \in DOMAIN s : \/ i \in DOMAIN stack[g] /\ s[i] = stack[g][i]
                          \/ s[i].node = n
  BY <1>1, <1>2, <1>3, PushType
<1>5. /\ stack' = [stack EXCEPT ![g] = s] /\ pool' = pool /\ taking' = taking
      /\ released' = [released EXCEPT ![n] = FALSE] /\ n \in Wiped
  BY <1>1, <1>3 DEF WipeStatement
<1>6. \A h \in Goroutines, i \in Nat, m \in Nodes \ Wiped : Holds(h, i, m)' =>
         Holds(h, i, m) /\ stack'[h][i] = stack[h][i]
  BY <1>4, <1>5 DEF IInv, TypeOK, Holds
<1>7. \A m \in Nodes \ Wiped : Guarded(m)'
  BY <1>5, <1>6 DEF IInv, TypeOK, Guarded
<1>8. TypeOK'
  <2>1. released' \in [Nodes -> BOOLEAN]
    BY <1>5 DEF IInv, TypeOK
  <2>2. stack' \in [Goroutines -> Seq(Entry)]
    BY <1>5 DEF IInv, TypeOK
  <2>. QED
    BY <2>1, <2>2 DEF IInv, TypeOK, WipeStatement
<1>. QED
  BY <1>7, <1>8 DEF IInv

LEMMA PoolWipedIInv ==
    ASSUME IInv, NEW g \in Goroutines, PoolWiped(g)
    PROVE  IInv'
<1>1. PICK k \in Nat, n \in Nodes, r \in Seq(Entry) :
        /\ r = Rest(stack[g]) /\ n = Top(stack[g]).node
        /\ k \in DOMAIN stack[g] /\ stack[g][k] = Top(stack[g])
        /\ \A i \in DOMAIN r : i \in DOMAIN stack[g] /\ i # k /\ stack[g][i] = r[i]
  BY PopWalk DEF IInv, PoolWiped, Next2Do
<1>2. Holds(g, k, n) /\ stack[g][k].todo = "mark"
  BY <1>1 DEF PoolWiped, Next2Do, Holds
<1>3. n \in Wiped
  BY <1>2 DEF IInv, Guarded
<1>4. /\ stack' = [stack EXCEPT ![g] = r] /\ pool' = [pool EXCEPT ![n] = @ + 1]
      /\ released' = [released EXCEPT ![n] = TRUE] /\ taking' = taking
  BY <1>1 DEF PoolWiped
<1>5. \A h \in Goroutines, i \in Nat, m \in Nodes : Holds(h, i, m)' =>
         Holds(h, i, m) /\ stack'[h][i] = stack[h][i]
  BY <1>1, <1>4 DEF IInv, TypeOK, Holds
<1>6. \A m \in Nodes \ Wiped : Guarded(m)'
  BY <1>3, <1>4, <1>5 DEF IInv, TypeOK, Guarded
<1>7. TypeOK'
  <2>1. pool' \in [Nodes -> Nat] /\ released' \in [Nodes -> BOOLEAN]
    BY <1>4 DEF IInv, TypeOK
  <2>2. stack' \in [Goroutines -> Seq(Entry)]
    BY <1>4 DEF IInv, TypeOK
  <2>. QED
    BY <2>1, <2>2 DEF IInv, TypeOK, PoolWiped
<1>. QED
  BY <1>6, <1>7 DEF IInv

LEMMA TakeFromPoolIInv ==
    ASSUME IInv, NEW g \in Goroutines, NEW n \in Nodes, TakeFromPool(g, n)
    PROVE  IInv'
<1>1. /\ pool[n] > 0 /\ pool' = [pool EXCEPT ![n] = @ - 1] /\ stack' = stack
      /\ taking' = [taking EXCEPT ![g] = n] /\ released' = released
      /\ taking[g] = NoNode
  BY DEF TakeFromPool, Idle
<1>2. \A h \in Goroutines, i \in Nat, m \in Nodes : Holds(h, i, m)' <=> Holds(h, i, m)
  BY <1>1 DEF Holds
<1>3. ASSUME NEW m \in Nodes \ Wiped PROVE Guarded(m)'
  <2>1. Guarded(m) /\ pool[m] \in Nat /\ released[m] \in BOOLEAN
    BY DEF IInv, TypeOK
  <2>2. CASE m # n
    <3>1. pool'[m] = pool[m] /\ released'[m] = released[m]
      BY <2>2, <1>1 DEF IInv, TypeOK
    <3>2. \A h \in Goroutines : taking'[h] = m => taking[h] = m
      BY <2>2, <1>1 DEF IInv, TypeOK
    <3>3. \A h \in Goroutines, i \in Nat :
            Holds(h, i, m)' => Holds(h, i, m) /\ stack'[h][i] = stack[h][i]
      BY <2>2, <1>2, <1>1
    <3>. QED
      BY <2>1, <3>1, <3>2, <3>3, GuardedElsewhere
  <2>3. CASE m = n
    <3>1. /\ pool[n] = 1 /\ released[n] /\ \A h \in Goroutines : taking[h] # n
          /\ \A h \in Goroutines, i \in Nat : ~Holds(h, i, n)
      BY <2>1, <2>3, <1>1 DEF Guarded
    <3>. QED
      BY <2>1, <2>3, <3>1, <1>1, <1>2 DEF Guarded, IInv, TypeOK
  <2>. QED
    BY <2>2, <2>3
<1>4. TypeOK'
  BY <1>1 DEF IInv, TypeOK, TakeFromPool
<1>. QED
  BY <1>3, <1>4 DEF IInv

(* Re-arming opens the guard of a node that is then nowhere else. *)
LEMMA ReArmIInv ==
    ASSUME IInv, NEW g \in Goroutines, ReArm(g)
    PROVE  IInv'
<1>1. PICK n \in Nodes : n = taking[g]
  BY DEF IInv, TypeOK, ReArm
<1>2. /\ released' = [released EXCEPT ![n] = FALSE] /\ stack' = stack /\ pool' = pool
      /\ taking' = [taking EXCEPT ![g] = NoNode]
  BY <1>1 DEF ReArm
<1>3. \A h \in Goroutines, i \in Nat, m \in Nodes : Holds(h, i, m)' <=> Holds(h, i, m)
  BY <1>2 DEF Holds
<1>4. ASSUME NEW m \in Nodes \ Wiped PROVE Guarded(m)'
  <2>1. Guarded(m) /\ pool[m] \in Nat /\ released[m] \in BOOLEAN /\ m # NoNode
    BY NodeAssumption DEF IInv, TypeOK
  <2>2. CASE m # n
    <3>1. pool'[m] = pool[m] /\ released'[m] = released[m]
      BY <2>2, <1>2 DEF IInv, TypeOK
    <3>2. \A h \in Goroutines : taking'[h] = m => taking[h] = m
      BY <2>1, <2>2, <1>2 DEF IInv, TypeOK
    <3>3. \A h \in Goroutines, i \in Nat :
            Holds(h, i, m)' => Holds(h, i, m) /\ stack'[h][i] = stack[h][i]
      BY <2>2, <1>3, <1>2
    <3>. QED
      BY <2>1, <3>1, <3>2, <3>3, GuardedElsewhere
  <2>3. CASE m = n
    <3>1. /\ pool[n] = 0 /\ \A h \in Goroutines : taking[h] = n => h = g
          /\ \A h \in Goroutines, i \in Nat : ~Holds(h, i, n)
      BY <2>1, <2>3, <1>1 DEF Guarded
    <3>2. \A h \in Goroutines : taking'[h] # n
      BY <3>1, <1>2, <2>1, <2>3 DEF IInv, TypeOK
    <3>. QED
      BY <2>3, <3>1, <3>2, <1>2, <1>3 DEF Guarded
  <2>. QED
    BY <2>2, <2>3
<1>5. TypeOK'
  BY <1>1, <1>2 DEF IInv, TypeOK, ReArm
<1>. QED
  BY <1>4, <1>5 DEF IInv

(* The building steps only touch roots and child pointers. *)
LEMMA BuildIInv ==
    ASSUME IInv, NEW g \in Goroutines,
           \/ \E n \in Nodes : Allocate(g, n)
           \/ \E p, c \in Nodes : Attach(g, p, c) \/ AttachAndKeep(g, p, c)
           \/ \E h \in Goroutines, n \in Nodes : Alias(g, h, n)
    PROVE  IInv'
<1>1. CASE \E n \in Nodes : Allocate(g, n)
  BY <1>1, ClaimsUnchanged DEF Allocate, IInv, TypeOK
<1>2. CASE \E p, c \in Nodes : Attach(g, p, c) \/ AttachAndKeep(g, p, c)
  <2>1. PICK p \in Nodes, c \in Nodes : Attach(g, p, c) \/ AttachAndKeep(g, p, c)
    BY <1>2
  <2>2. PICK cs \in Seq(Nodes) : cs = children[p]
    BY DEF IInv, TypeOK
  <2>3. Append(cs, c) \in Seq(Nodes)
    OBVIOUS
  <2>4. PICK q \in Seq(Nodes) : q = Append(children[p], c)
    BY <2>2, <2>3
  <2>5. /\ children' = [children EXCEPT ![p] = q]
        /\ UNCHANGED <<fresh, pool, released, taking, stack, refused>>
    BY <2>1, <2>4 DEF Attach, AttachAndKeep
  <2>6. /\ roots' \in {roots, [roots EXCEPT ![g] = @ \ {c}]}
        /\ aliases' = aliases \/ (aliases < MaxAliases /\ aliases' = aliases + 1)
    BY <2>1 DEF Attach, AttachAndKeep
  <2>7. children' \in [Nodes -> Seq(Nodes)]
    BY <2>5 DEF IInv, TypeOK
  <2>8. roots' \in [Goroutines -> SUBSET Nodes]
    BY <2>6 DEF IInv, TypeOK
  <2>9. TypeOK'
    BY <2>5, <2>6, <2>7, <2>8, NodeAssumption DEF IInv, TypeOK
  <2>. QED
    BY <2>5, <2>9, ClaimsUnchanged DEF IInv
<1>3. CASE \E h \in Goroutines, n \in Nodes : Alias(g, h, n)
  <2>1. TypeOK'
    BY <1>3, NodeAssumption DEF Alias, IInv, TypeOK
  <2>. QED
    BY <1>3, <2>1, ClaimsUnchanged DEF Alias, IInv
<1>. QED
  BY <1>1, <1>2, <1>3

LEMMA NextIInv == IInv /\ [Next]_vars => IInv'
<1>1. ASSUME IInv, Next PROVE IInv'
  BY <1>1, BuildIInv, TakeFromPoolIInv, ReArmIInv, ReleaseIInv, RefuseIInv, PoolExpressionIInv,
     ReleaseChildrenIInv, PoolStatementIInv, WipeStatementIInv, PoolWipedIInv
     DEF Next, ReleaseStep
<1>2. ASSUME IInv, UNCHANGED vars PROVE IInv'
  BY <1>2, ClaimsUnchanged DEF vars, IInv, TypeOK
<1>. QED
  BY <1>1, <1>2

LEMMA Invariance == Spec => []IInv
BY InitIInv, NextIInv, PTL DEF Spec

-----------------------------------------------------------------------------

(* Type correctness of nodes, pools and release walks. *)
THEOREM TypeCorrect == Spec => []TypeOK
<1>1. IInv => TypeOK
  BY DEF IInv
<1>. QED
  BY <1>1, Invariance, PTL

(* guardRelease: however many goroutines release a node they share, and
   however often the pool re-issues it, it is in its pool at most once and
   reads as released there, unless its reset wipes the guard. *)
THEOREM GuardedNodesPooledOnce ==
    Spec => [](\A n \in Nodes \ Wiped : pool[n] <= 1 /\ (pool[n] > 0 => released[n]))
<1>1. IInv => \A n \in Nodes \ Wiped : pool[n] <= 1 /\ (pool[n] > 0 => released[n])
  BY DEF IInv, TypeOK, Guarded
<1>. QED
  BY <1>1, Invariance, PTL

-----------------------------------------------------------------------------
(* Where the nodes of a pooled tree are, for any number of nodes and       *)
(* goroutines: no release loses a node, and as long as callers keep the    *)
(* single-owner contract each node has one owner or is in its pool.        *)

(* The places of a node, as Places has them: what refers to it, and where. *)
At(n, kind, a, i) ==
    \/ kind = "root" /\ a \in Goroutines /\ i = 0 /\ n \in roots[a]
    \/ kind = "taken" /\ a \in Goroutines /\ i = 0 /\ taking[a] = n
    \/ kind = "child" /\ a \in Nodes /\ i \in DOMAIN children[a] /\ children[a][i] = n
    \/ kind = "stack" /\ a \in Goroutines /\ i \in DOMAIN stack[a] /\ stack[a][i].node = n

Nowhere(n) == \A kind, a, i : ~At(n, kind, a, i)

Unshared(n) ==
    \A kind1, a1, i1, kind2, a2, i2 :
        At(n, kind1, a1, i1) /\ At(n, kind2, a2, i2) => kind1 = kind2 /\ a1 = a2 /\ i1 = i2

(* Under the contract: one owner, or the pool, where the node reads as
   released. *)
Owned(n) ==
    /\ Unshared(n)
    /\ n \in fresh \/ pool[n] > 0 => Nowhere(n)
    /\ pool[n] <= 1
    /\ pool[n] > 0 => released[n]

(* A closed guard has a reason: the node is in its pool, on its way out of it,
   or on its way into it. *)
ClosedForAReason(n) ==
    released[n] =>
        \/ pool[n] > 0
        \/ \E g \in Goroutines : taking[g] = n
        \/ \E g \in Goroutines, i \in Nat : Holds(g, i, n)

Located(n) ==
    /\ n \in fresh => pool[n] = 0 /\ Nowhere(n)
    /\ n \in fresh \/ pool[n] > 0 \/ ~Nowhere(n)
    /\ ClosedForAReason(n)

Contract == aliases = 0 => refused = 0 /\ \A n \in Nodes : Owned(n)

OwnInv == IInv /\ Contract /\ \A n \in Nodes : Located(n)

-----------------------------------------------------------------------------
(* Places *)

(* The four kinds of places. *)
RootPlaces(n) == {<<"root", g>> : g \in {h \in Goroutines : n \in roots[h]}}
TakenPlaces(n) == {<<"taken", g>> : g \in {h \in Goroutines : taking[h] = n}}
ChildPlaces(n, p) == {<<"child", p, i>> : i \in {j \in DOMAIN children[p] : children[p][j] = n}}
StackPlaces(n, g) == {<<"stack", g, i>> : i \in {j \in DOMAIN stack[g] : stack[g][j].node = n}}

LEMMA PlacesByKind ==
    ASSUME NEW n, NEW x
    PROVE  x \in Places(n) <=>
               \/ x \in RootPlaces(n)
               \/ x \in TakenPlaces(n)
               \/ \E p \in Nodes : x \in ChildPlaces(n, p)
               \/ \E g \in Goroutines : x \in StackPlaces(n, g)
<1>. DEFINE C == UNION {ChildPlaces(n, p) : p \in Nodes}
            S == UNION {StackPlaces(n, g) : g \in Goroutines}
<1>1. Places(n) = RootPlaces(n) \cup TakenPlaces(n) \cup C \cup S
  BY DEF Places, RootPlaces, TakenPlaces, ChildPlaces, StackPlaces
<1>2. x \in C <=> \E p \in Nodes : x \in ChildPlaces(n, p)
  OBVIOUS
<1>3. x \in S <=> \E g \in Goroutines : x \in StackPlaces(n, g)
  OBVIOUS
<1>. HIDE DEF C, S
<1>. QED
  BY <1>1, <1>2, <1>3

LEMMA PlaceIsAt ==
    ASSUME NEW n \in Nodes, NEW x \in Places(n)
    PROVE  \/ \E g \in Goroutines : x = <<"root", g>> /\ At(n, "root", g, 0)
           \/ \E g \in Goroutines : x = <<"taken", g>> /\ At(n, "taken", g, 0)
           \/ \E p \in Nodes : \E i \in DOMAIN children[p] :
                 x = <<"child", p, i>> /\ At(n, "child", p, i)
           \/ \E g \in Goroutines : \E i \in DOMAIN stack[g] :
                 x = <<"stack", g, i>> /\ At(n, "stack", g, i)
<1>1. CASE x \in RootPlaces(n)
  BY <1>1 DEF RootPlaces, At
<1>2. CASE x \in TakenPlaces(n)
  BY <1>2 DEF TakenPlaces, At
<1>3. ASSUME NEW p \in Nodes, x \in ChildPlaces(n, p)
      PROVE  \E i \in DOMAIN children[p] : x = <<"child", p, i>> /\ At(n, "child", p, i)
  BY <1>3 DEF ChildPlaces, At
<1>4. ASSUME NEW g \in Goroutines, x \in StackPlaces(n, g)
      PROVE  \E i \in DOMAIN stack[g] : x = <<"stack", g, i>> /\ At(n, "stack", g, i)
  BY <1>4 DEF StackPlaces, At
<1>5. \/ x \in RootPlaces(n) \/ x \in TakenPlaces(n)
      \/ \E p \in Nodes : x \in ChildPlaces(n, p)
      \/ \E g \in Goroutines : x \in StackPlaces(n, g)
  BY PlacesByKind
<1>. QED
  BY <1>1, <1>2, <1>3, <1>4, <1>5, Zenon

LEMMA AtIsPlace ==
    ASSUME NEW n \in Nodes, ~Nowhere(n)
    PROVE  Places(n) # {}
<1>1. PICK kind, a, i : At(n, kind, a, i)
  BY DEF Nowhere
<1>2. CASE kind = "root" /\ a \in Goroutines /\ n \in roots[a]
  <2>1. <<"root", a>> \in Places(n)
    BY <1>2 DEF Places
  <2>. QED
    BY <2>1
<1>3. CASE kind = "taken" /\ a \in Goroutines /\ taking[a] = n
  <2>1. <<"taken", a>> \in Places(n)
    BY <1>3 DEF Places
  <2>. QED
    BY <2>1
<1>4. CASE kind = "child" /\ a \in Nodes /\ i \in DOMAIN children[a] /\ children[a][i] = n
  <2>1. <<"child", a, i>> \in ChildPlaces(n, a)
    BY <1>4 DEF ChildPlaces
  <2>. QED
    BY <1>4, <2>1, PlacesByKind
<1>5. CASE kind = "stack" /\ a \in Goroutines /\ i \in DOMAIN stack[a] /\ stack[a][i].node = n
  <2>1. <<"stack", a, i>> \in StackPlaces(n, a)
    BY <1>5 DEF StackPlaces
  <2>. QED
    BY <1>5, <2>1, PlacesByKind
<1>. QED
  BY <1>1, <1>2, <1>3, <1>4, <1>5 DEF At

(* Counting the places of a node. *)
LEMMA NowhereCount ==
    ASSUME NEW n \in Nodes, Nowhere(n)
    PROVE  Places(n) = {} /\ Cardinality(Places(n)) = 0
<1>1. \A x \in Places(n) : FALSE
  BY PlaceIsAt DEF Nowhere
<1>2. Places(n) = {}
  BY <1>1
<1>. QED
  BY <1>2, FS_EmptySet

LEMMA UnsharedCount ==
    ASSUME NEW n \in Nodes, Unshared(n), ~Nowhere(n)
    PROVE  Cardinality(Places(n)) = 1
<1>1. PICK x : x \in Places(n)
  BY AtIsPlace
<1>2. ASSUME NEW y \in Places(n) PROVE y = x
  <2>1. PICK k1, a1, i1 :
          At(n, k1, a1, i1) /\ x = (IF k1 \in {"root", "taken"} THEN <<k1, a1>> ELSE <<k1, a1, i1>>)
    BY <1>1, PlaceIsAt
  <2>2. PICK k2, a2, i2 :
          At(n, k2, a2, i2) /\ y = (IF k2 \in {"root", "taken"} THEN <<k2, a2>> ELSE <<k2, a2, i2>>)
    BY PlaceIsAt
  <2>. QED
    BY <2>1, <2>2 DEF Unshared
<1>3. Places(n) = {x}
  BY <1>1, <1>2
<1>. QED
  BY <1>3, FS_Singleton

LEMMA OwnInvAccountsForNodes == OwnInv => NodesAccountedFor
<1>1. SUFFICES ASSUME OwnInv PROVE SingleOwner /\ RefusalsAreAliases /\ NoNodeLost
  BY DEF NodesAccountedFor
<1>2. RefusalsAreAliases
  BY <1>1 DEF OwnInv, Contract, RefusalsAreAliases
<1>3. NoNodeLost
  BY <1>1, AtIsPlace DEF OwnInv, Located, NoNodeLost
<1>4. SingleOwner
  BY <1>1, NowhereCount, UnsharedCount DEF OwnInv, Contract, Owned, Located, SingleOwner
<1>. QED
  BY <1>2, <1>3, <1>4

-----------------------------------------------------------------------------
(* How places change *)

(* A node that gains no place, and whose pool and guard are as before, is owned
   as before. *)
LEMMA OwnedElsewhere ==
    ASSUME NEW n \in Nodes, Owned(n),
           \A kind, a, i : At(n, kind, a, i)' => At(n, kind, a, i),
           n \in fresh' => n \in fresh, pool'[n] = pool[n], released'[n] = released[n]
    PROVE  Owned(n)'
BY DEF Owned, Unshared, Nowhere

(* ...and is still somewhere when it loses none either. *)
LEMMA LocatedElsewhere ==
    ASSUME NEW n \in Nodes, Located(n),
           n \in fresh' <=> n \in fresh, pool'[n] = pool[n], released'[n] = released[n],
           Nowhere(n)' => Nowhere(n), n \in fresh' => (Nowhere(n) => Nowhere(n)'),
           \A g \in Goroutines : taking[g] = n => taking'[g] = n,
           \A g \in Goroutines, i \in Nat : Holds(g, i, n) => Holds(g, i, n)'
    PROVE  Located(n)'
BY DEF Located, ClosedForAReason

(* A node that moves from its only place to another keeps a single owner, and
   one that leaves it for its pool has none. *)
LEMMA OwnedMoves ==
    ASSUME NEW n \in Nodes, Owned(n), pool[n] \in Nat, ~Nowhere(n), Unshared(n)',
           n \in fresh' => n \in fresh,
           \/ pool'[n] = pool[n]
           \/ pool'[n] = pool[n] + 1 /\ released'[n] /\ Nowhere(n)'
    PROVE  Owned(n)'
<1>1. pool[n] = 0 /\ n \notin fresh
  BY DEF Owned
<1>. QED
  BY <1>1 DEF Owned

(* Steps that change no place but those of a goroutine's walk above a position
   b, to which the children of n move. *)
LEMMA UnsharedDescends ==
    ASSUME NEW m \in Nodes, Unshared(m), NEW n, NEW g, NEW b \in Nat,
           \A kind, a, i : At(m, kind, a, i)' =>
               \/ At(m, kind, a, i) /\ ~(kind = "child" /\ a = n)
               \/ kind = "stack" /\ a = g /\ \E j \in Nat : i = b + j /\ At(m, "child", n, j)
    PROVE  Unshared(m)'
<1>1. ASSUME NEW k1, NEW a1, NEW i1, NEW k2, NEW a2, NEW i2,
             At(m, k1, a1, i1)', At(m, k2, a2, i2)'
      PROVE  k1 = k2 /\ a1 = a2 /\ i1 = i2
  <2>1. CASE /\ At(m, k1, a1, i1) /\ ~(k1 = "child" /\ a1 = n)
             /\ At(m, k2, a2, i2) /\ ~(k2 = "child" /\ a2 = n)
    BY <2>1 DEF Unshared
  <2>2. ASSUME NEW k, NEW a, NEW i, NEW j \in Nat,
               At(m, k, a, i) /\ ~(k = "child" /\ a = n), At(m, "child", n, j)
        PROVE  FALSE
    BY <2>2 DEF Unshared
  <2>3. ASSUME NEW j1 \in Nat, NEW j2 \in Nat, At(m, "child", n, j1), At(m, "child", n, j2)
        PROVE  j1 = j2
    BY <2>3 DEF Unshared
  <2>. QED
    BY <1>1, <2>1, <2>2, <2>3
<1>. QED
  BY <1>1 DEF Unshared

-----------------------------------------------------------------------------
(* Building trees *)

LEMMA AliasesCount ==
    ASSUME OwnInv, NEW g \in Goroutines
    PROVE  /\ aliases \in Nat
           /\ \A h \in Goroutines, n \in Nodes : Alias(g, h, n) => aliases' # 0
           /\ \A p, c \in Nodes : AttachAndKeep(g, p, c) => aliases' # 0
BY NodeAssumption DEF OwnInv, IInv, TypeOK, Alias, AttachAndKeep

LEMMA OwnAllocate ==
    ASSUME OwnInv, NEW g \in Goroutines, NEW n \in Nodes, Allocate(g, n)
    PROVE  Contract' /\ \A m \in Nodes : Located(m)'
<1>1. /\ n \in fresh /\ fresh' = fresh \ {n} /\ roots' = [roots EXCEPT ![g] = @ \cup {n}]
      /\ UNCHANGED <<pool, released, children, taking, stack, aliases, refused>>
  BY DEF Allocate
<1>2. \A m, kind, a, i : At(m, kind, a, i)' <=>
          At(m, kind, a, i) \/ (m = n /\ kind = "root" /\ a = g /\ i = 0)
  BY <1>1 DEF At, OwnInv, IInv, TypeOK
<1>3. \A h \in Goroutines, i \in Nat, m \in Nodes : Holds(h, i, m)' <=> Holds(h, i, m)
  BY <1>1 DEF Holds
<1>4. ASSUME NEW m \in Nodes PROVE Located(m)'
  <2>1. Located(m)
    BY DEF OwnInv
  <2>2. CASE m # n
    <3>1. Nowhere(m)' => Nowhere(m)
      BY <1>2 DEF Nowhere
    <3>2. Nowhere(m) => Nowhere(m)'
      BY <1>2, <2>2 DEF Nowhere
    <3>. QED
      BY <1>1, <1>3, <2>1, <2>2, <3>1, <3>2, LocatedElsewhere
  <2>3. CASE m = n
    <3>1. ~Nowhere(n)'
      BY <1>2 DEF Nowhere
    <3>. QED
      BY <1>1, <1>3, <2>1, <2>3, <3>1 DEF Located, ClosedForAReason
  <2>. QED
    BY <2>2, <2>3
<1>5. ASSUME NEW m \in Nodes, aliases = 0 PROVE Owned(m)'
  <2>1. Owned(m) /\ Located(m)
    BY <1>5 DEF OwnInv, Contract
  <2>2. CASE m # n
    BY <1>1, <1>2, <2>1, <2>2, OwnedElsewhere
  <2>3. CASE m = n
    <3>1. Nowhere(n) /\ pool[n] = 0
      BY <1>1, <2>1, <2>3 DEF Owned, Located
    <3>. QED
      BY <1>1, <1>2, <2>1, <2>3, <3>1 DEF Owned, Unshared, Nowhere
  <2>. QED
    BY <2>2, <2>3
<1>. QED
  BY <1>1, <1>4, <1>5 DEF OwnInv, Contract

LEMMA AttachPlaces ==
    ASSUME OwnInv, NEW p \in Nodes, NEW c \in Nodes, taking' = taking, stack' = stack,
           children' = [children EXCEPT ![p] = Append(@, c)]
    PROVE  \E l : /\ At(c, "child", p, l)'
                 /\ \A m, kind, a, i : kind # "root" =>
                       (At(m, kind, a, i)' <=>
                          \/ At(m, kind, a, i)
                          \/ m = c /\ kind = "child" /\ a = p /\ i = l)
<1>1. PICK cs \in Seq(Nodes) : cs = children[p]
  BY DEF OwnInv, IInv, TypeOK
<1>2. PICK l \in Nat : l = Len(cs) + 1
  OBVIOUS
<1>3. /\ children'[p] = Append(cs, c) /\ \A q \in Nodes : q # p => children'[q] = children[q]
  BY <1>1 DEF OwnInv, IInv, TypeOK
<1>4. /\ l \in DOMAIN Append(cs, c) /\ Append(cs, c)[l] = c
      /\ \A m, i : i \in DOMAIN Append(cs, c) /\ Append(cs, c)[i] = m <=>
             \/ i \in DOMAIN cs /\ cs[i] = m
             \/ i = l /\ m = c
  BY <1>2
<1>5. At(c, "child", p, l)'
  BY <1>3, <1>4 DEF At
<1>6. ASSUME NEW m, NEW kind, NEW a, NEW i, kind # "root"
      PROVE  At(m, kind, a, i)' <=> At(m, kind, a, i) \/ (m = c /\ kind = "child" /\ a = p /\ i = l)
  <2>1. CASE kind = "child" /\ a = p
    <3>1. At(m, kind, a, i) <=> i \in DOMAIN cs /\ cs[i] = m
      BY <1>1, <2>1 DEF At
    <3>2. PICK q : q = Append(cs, c)
      OBVIOUS
    <3>3. At(m, kind, a, i)' <=> i \in DOMAIN q /\ q[i] = m
      BY <1>3, <2>1, <3>2 DEF At
    <3>. QED
      BY <1>4, <2>1, <3>1, <3>2, <3>3
  <2>2. CASE kind = "child" /\ a # p
    BY <1>3, <2>2 DEF At
  <2>3. CASE kind # "child"
    BY <1>6, <2>3 DEF At
  <2>. QED
    BY <2>1, <2>2, <2>3
<1>. QED
  BY <1>5, <1>6

(* Attaching moves a node from the roots of its owner to a tree; keeping a
   reference, or handing one on, breaks the contract. *)
LEMMA OwnBuild ==
    ASSUME OwnInv, NEW g \in Goroutines,
           \/ \E p, c \in Nodes : Attach(g, p, c) \/ AttachAndKeep(g, p, c)
           \/ \E h \in Goroutines, n \in Nodes : Alias(g, h, n)
    PROVE  Contract' /\ \A m \in Nodes : Located(m)'
<1>1. UNCHANGED <<fresh, pool, released, taking, stack, refused>>
  BY DEF Attach, AttachAndKeep, Alias
<1>2. \A h \in Goroutines, i \in Nat, m \in Nodes : Holds(h, i, m)' <=> Holds(h, i, m)
  BY <1>1 DEF Holds
<1>3. ASSUME \A m \in Nodes : (Nowhere(m)' => Nowhere(m)) /\ (Nowhere(m) => Nowhere(m)')
      PROVE  \A m \in Nodes : Located(m)'
  BY <1>1, <1>2, <1>3, LocatedElsewhere DEF OwnInv
<1>4. ASSUME NEW p \in Nodes, NEW c \in Nodes, Attach(g, p, c)
      PROVE  children' = [children EXCEPT ![p] = Append(@, c)]
  BY <1>4 DEF Attach
<1>5. ASSUME NEW p \in Nodes, NEW c \in Nodes, AttachAndKeep(g, p, c)
      PROVE  children' = [children EXCEPT ![p] = Append(@, c)]
  BY <1>5 DEF AttachAndKeep
<1>6. ASSUME NEW p \in Nodes, NEW c \in Nodes, Attach(g, p, c)
      PROVE  Contract' /\ \A m \in Nodes : Located(m)'
  <2>1. c \in roots[g] /\ roots' = [roots EXCEPT ![g] = @ \ {c}] /\ aliases' = aliases
    BY <1>6 DEF Attach
  <2>2. \A m, a, i : At(m, "root", a, i)' <=> At(m, "root", a, i) /\ ~(m = c /\ a = g)
    BY <2>1 DEF At, OwnInv, IInv, TypeOK
  <2>3. At(c, "root", g, 0)
    BY <2>1 DEF At
  <2>7. PICK l : /\ At(c, "child", p, l)'
                 /\ \A m, kind, a, i : kind # "root" =>
                       (At(m, kind, a, i)' <=>
                          \/ At(m, kind, a, i)
                          \/ m = c /\ kind = "child" /\ a = p /\ i = l)
    BY <1>1, <1>4, <1>6, AttachPlaces
  <2>4. ASSUME NEW m, NEW kind, NEW a, NEW i, At(m, kind, a, i)'
        PROVE  \/ m = c /\ kind = "child" /\ a = p /\ i = l
               \/ At(m, kind, a, i) /\ ~(m = c /\ kind = "root" /\ a = g /\ i = 0)
    <3>1. CASE kind = "root"
      BY <2>2, <2>4, <3>1
    <3>2. CASE kind # "root"
      BY <2>7, <2>4, <3>2
    <3>. QED
      BY <3>1, <3>2
  <2>5. ASSUME NEW m \in Nodes PROVE (Nowhere(m)' => Nowhere(m)) /\ (Nowhere(m) => Nowhere(m)')
    <3>1. Nowhere(m)' => Nowhere(m)
      BY <2>2, <2>7 DEF Nowhere
    <3>2. Nowhere(m) => Nowhere(m)'
      BY <2>3, <2>4 DEF Nowhere
    <3>. QED
      BY <3>1, <3>2
  <2>6. ASSUME NEW m \in Nodes, aliases = 0 PROVE Owned(m)'
    <3>1. Owned(m) /\ pool[m] \in Nat
      BY <2>6 DEF OwnInv, Contract, IInv, TypeOK
    <3>2. CASE m # c
      BY <1>1, <2>4, <3>1, <3>2, OwnedElsewhere
    <3>3. CASE m = c
      <4>1. \A kind, a, i : At(m, kind, a, i)' =>
                \/ kind = "child" /\ a = p /\ i = l
                \/ At(m, kind, a, i) /\ ~(kind = "root" /\ a = g /\ i = 0)
        BY <2>4, <3>3
      <4>2. ~Nowhere(m) /\ Unshared(m)'
        BY <2>3, <3>1, <3>3, <4>1 DEF Owned, Unshared, Nowhere
      <4>3. (m \in fresh' => m \in fresh) /\ pool'[m] = pool[m]
        BY <1>1
      <4>. QED
        BY <3>1, <4>1, <4>2, <4>3, OwnedMoves
    <3>. QED
      BY <3>2, <3>3
  <2>. QED
    BY <1>1, <1>3, <2>1, <2>5, <2>6 DEF OwnInv, Contract
<1>7. ASSUME NEW p \in Nodes, NEW c \in Nodes, AttachAndKeep(g, p, c)
      PROVE  Contract' /\ \A m \in Nodes : Located(m)'
  <2>1. roots' = roots
    BY <1>7 DEF AttachAndKeep
  <2>2. \A m, a, i : At(m, "root", a, i)' <=> At(m, "root", a, i)
    BY <2>1 DEF At
  <2>3. \A m, kind, a, i : kind # "root" =>
            (At(m, kind, a, i) => At(m, kind, a, i)') /\ (At(m, kind, a, i)' => m = c \/ At(m, kind, a, i))
    BY <1>1, <1>5, <1>7, AttachPlaces
  <2>4. ASSUME NEW m \in Nodes PROVE (Nowhere(m)' => Nowhere(m)) /\ (Nowhere(m) => Nowhere(m)')
    <3>1. Nowhere(m)' => Nowhere(m)
      BY <2>2, <2>3 DEF Nowhere
    <3>2. At(c, "root", g, 0)
      BY <1>7 DEF AttachAndKeep, At
    <3>3. Nowhere(m) => Nowhere(m)'
      BY <2>2, <2>3, <3>2 DEF Nowhere
    <3>. QED
      BY <3>1, <3>3
  <2>. QED
    BY <1>3, <1>7, <2>4, AliasesCount DEF Contract
<1>8. ASSUME NEW h \in Goroutines, NEW n \in Nodes, Alias(g, h, n)
      PROVE  Contract' /\ \A m \in Nodes : Located(m)'
  <2>1. roots' = [roots EXCEPT ![h] = @ \cup {n}] /\ children' = children
    BY <1>8 DEF Alias
  <2>2. \A m, kind, a, i : At(m, kind, a, i) => At(m, kind, a, i)'
    BY <1>1, <2>1 DEF At, OwnInv, IInv, TypeOK
  <2>3. \A m, kind, a, i : At(m, kind, a, i)' => At(m, kind, a, i) \/ m = n
    BY <1>1, <2>1 DEF At, OwnInv, IInv, TypeOK
  <2>4. At(n, "root", g, 0)
    BY <1>8 DEF Alias, At
  <2>5. ASSUME NEW m \in Nodes PROVE (Nowhere(m)' => Nowhere(m)) /\ (Nowhere(m) => Nowhere(m)')
    BY <2>2, <2>3, <2>4 DEF Nowhere
  <2>. QED
    BY <1>3, <1>8, <2>5, AliasesCount DEF Contract
<1>. QED
  BY <1>6, <1>7, <1>8

-----------------------------------------------------------------------------
(* Out of the pool *)

LEMMA OwnTakeFromPool ==
    ASSUME OwnInv, NEW g \in Goroutines, NEW n \in Nodes, TakeFromPool(g, n)
    PROVE  Contract' /\ \A m \in Nodes : Located(m)'
<1>1. /\ pool[n] > 0 /\ pool' = [pool EXCEPT ![n] = @ - 1] /\ taking[g] = NoNode
      /\ taking' = [taking EXCEPT ![g] = n] /\ pool[n] \in Nat /\ pool'[n] = pool[n] - 1
      /\ UNCHANGED <<fresh, released, children, roots, stack, aliases, refused>>
  BY DEF TakeFromPool, Idle, OwnInv, IInv, TypeOK
<1>2. \A m \in Nodes : \A kind, a, i : At(m, kind, a, i)' <=>
          At(m, kind, a, i) \/ (m = n /\ kind = "taken" /\ a = g /\ i = 0)
  BY <1>1, NodeAssumption DEF At, OwnInv, IInv, TypeOK
<1>3. \A h \in Goroutines, i \in Nat, m \in Nodes : Holds(h, i, m)' <=> Holds(h, i, m)
  BY <1>1 DEF Holds
<1>4. \A m \in Nodes, h \in Goroutines : taking[h] = m => taking'[h] = m
  BY <1>1, NodeAssumption DEF OwnInv, IInv, TypeOK
<1>5. \A m \in Nodes : m # n => pool'[m] = pool[m]
  BY <1>1 DEF OwnInv, IInv, TypeOK
<1>6. ASSUME NEW m \in Nodes PROVE Located(m)'
  <2>1. Located(m)
    BY DEF OwnInv
  <2>2. CASE m # n
    <3>1. Nowhere(m)' => Nowhere(m)
      BY <1>2 DEF Nowhere
    <3>2. Nowhere(m) => Nowhere(m)'
      BY <1>2, <2>2 DEF Nowhere
    <3>. QED
      BY <1>1, <1>3, <1>4, <1>5, <2>1, <2>2, <3>1, <3>2, LocatedElsewhere
  <2>3. CASE m = n
    <3>1. ~Nowhere(n)' /\ taking'[g] = n
      BY <1>1, <1>2 DEF Nowhere, OwnInv, IInv, TypeOK
    <3>. QED
      BY <1>1, <2>1, <2>3, <3>1 DEF Located, ClosedForAReason
  <2>. QED
    BY <2>2, <2>3
<1>7. ASSUME NEW m \in Nodes, aliases = 0 PROVE Owned(m)'
  <2>1. Owned(m) /\ Located(m)
    BY <1>7 DEF OwnInv, Contract
  <2>2. CASE m # n
    BY <1>1, <1>2, <1>5, <2>1, <2>2, OwnedElsewhere
  <2>3. CASE m = n
    <3>1. Nowhere(n) /\ pool'[n] = 0 /\ n \notin fresh
      BY <1>1, <2>1, <2>3 DEF Owned, Located
    <3>. QED
      BY <1>1, <1>2, <2>1, <2>3, <3>1 DEF Owned, Unshared, Nowhere
  <2>. QED
    BY <2>2, <2>3
<1>. QED
  BY <1>1, <1>6, <1>7 DEF OwnInv, Contract

LEMMA OwnReArm ==
    ASSUME OwnInv, NEW g \in Goroutines, ReArm(g)
    PROVE  Contract' /\ \A m \in Nodes : Located(m)'
<1>1. PICK n \in Nodes : n = taking[g]
  BY DEF OwnInv, IInv, TypeOK, ReArm
<1>2. /\ released' = [released EXCEPT ![n] = FALSE]
      /\ roots' = [roots EXCEPT ![g] = @ \cup {n}]
      /\ taking' = [taking EXCEPT ![g] = NoNode]
      /\ UNCHANGED <<fresh, pool, children, stack, aliases, refused>>
  BY <1>1 DEF ReArm
<1>3. ASSUME NEW m \in Nodes, NEW kind, NEW a, NEW i
      PROVE  At(m, kind, a, i)' <=>
                \/ m = n /\ kind = "root" /\ a = g /\ i = 0
                \/ At(m, kind, a, i) /\ ~(m = n /\ kind = "taken" /\ a = g)
  <2>1. CASE kind = "root"
    BY <1>2, <2>1 DEF At, OwnInv, IInv, TypeOK
  <2>2. CASE kind = "taken"
    BY <1>1, <1>2, <2>2, NodeAssumption DEF At, OwnInv, IInv, TypeOK
  <2>3. CASE kind # "root" /\ kind # "taken"
    BY <1>2, <2>3 DEF At
  <2>. QED
    BY <2>1, <2>2, <2>3
<1>4. \A h \in Goroutines, i \in Nat, m \in Nodes : Holds(h, i, m)' <=> Holds(h, i, m)
  BY <1>2 DEF Holds
<1>5. \A m \in Nodes : m # n => /\ released'[m] = released[m]
                               /\ \A h \in Goroutines : taking[h] = m => taking'[h] = m
  BY <1>1, <1>2 DEF OwnInv, IInv, TypeOK
<1>6. ~released'[n] /\ ~Nowhere(n)'
  BY <1>2, <1>3 DEF Nowhere, OwnInv, IInv, TypeOK
<1>7. ASSUME NEW m \in Nodes PROVE Located(m)'
  <2>1. Located(m)
    BY DEF OwnInv
  <2>2. CASE m # n
    <3>1. Nowhere(m)' => Nowhere(m)
      BY <1>3, <2>2 DEF Nowhere
    <3>2. Nowhere(m) => Nowhere(m)'
      BY <1>3, <2>2 DEF Nowhere
    <3>. QED
      BY <1>2, <1>4, <1>5, <2>1, <2>2, <3>1, <3>2, LocatedElsewhere
  <2>3. CASE m = n
    <3>1. At(n, "taken", g, 0)
      BY <1>1 DEF At
    <3>2. n \notin fresh
      BY <2>1, <2>3, <3>1 DEF Located, Nowhere
    <3>. QED
      BY <1>2, <1>6, <2>1, <2>3, <3>2 DEF Located, ClosedForAReason
  <2>. QED
    BY <2>2, <2>3
<1>8. ASSUME NEW m \in Nodes, aliases = 0 PROVE Owned(m)'
  <2>1. Owned(m) /\ pool[m] \in Nat
    BY <1>8 DEF OwnInv, Contract, IInv, TypeOK
  <2>2. CASE m # n
    BY <1>2, <1>3, <1>5, <2>1, <2>2, OwnedElsewhere
  <2>3. CASE m = n
    <3>1. At(n, "taken", g, 0)
      BY <1>1 DEF At
    <3>2. \A kind, a, i : At(n, kind, a, i) => kind = "taken" /\ a = g
      BY <2>1, <2>3, <3>1 DEF Owned, Unshared
    <3>3. Unshared(n)' /\ ~Nowhere(n)
      BY <1>3, <3>1, <3>2 DEF Unshared, Nowhere
    <3>. QED
      BY <1>2, <2>1, <2>3, <3>3, OwnedMoves
  <2>. QED
    BY <2>2, <2>3
<1>. QED
  BY <1>2, <1>7, <1>8 DEF OwnInv, Contract

-----------------------------------------------------------------------------
(* Releasing a tree *)

LEMMA OwnRelease ==
    ASSUME OwnInv, NEW g \in Goroutines, NEW n \in Nodes, Release(g, n)
    PROVE  Contract' /\ \A m \in Nodes : Located(m)'
<1>1. /\ n \in roots[g] /\ stack[g] = <<>> /\ roots' = [roots EXCEPT ![g] = @ \ {n}]
      /\ stack' = [stack EXCEPT ![g] = <<Visit(n)>>]
      /\ UNCHANGED <<fresh, pool, released, children, taking, aliases, refused>>
  BY DEF Release, Idle
<1>2. DOMAIN <<Visit(n)>> = {1} /\ <<Visit(n)>>[1].node = n /\ DOMAIN stack[g] = {}
  BY <1>1 DEF Visit
<1>3. ASSUME NEW m \in Nodes, NEW kind, NEW a, NEW i
      PROVE  At(m, kind, a, i)' <=>
                \/ m = n /\ kind = "stack" /\ a = g /\ i = 1
                \/ At(m, kind, a, i) /\ ~(m = n /\ kind = "root" /\ a = g)
  <2>1. CASE kind = "root"
    BY <1>1, <2>1 DEF At, OwnInv, IInv, TypeOK
  <2>2. CASE kind = "stack" /\ a = g
    BY <1>1, <1>2, <2>2 DEF At, OwnInv, IInv, TypeOK
  <2>3. CASE kind = "stack" /\ a # g
    BY <1>1, <2>3 DEF At, OwnInv, IInv, TypeOK
  <2>4. CASE kind # "root" /\ kind # "stack"
    BY <1>1, <2>4 DEF At
  <2>. QED
    BY <2>1, <2>2, <2>3, <2>4
<1>4. \A h \in Goroutines, i \in Nat, m \in Nodes : Holds(h, i, m) => Holds(h, i, m)'
  BY <1>1, <1>2 DEF Holds, OwnInv, IInv, TypeOK
<1>5. ASSUME NEW m \in Nodes PROVE Located(m)'
  <2>1. Located(m)
    BY DEF OwnInv
  <2>2. Nowhere(m)' => Nowhere(m)
    BY <1>3 DEF Nowhere
  <2>3. At(n, "root", g, 0)
    BY <1>1 DEF At
  <2>4. Nowhere(m) => Nowhere(m)'
    BY <1>3, <2>3 DEF Nowhere
  <2>. QED
    BY <1>1, <1>4, <2>1, <2>2, <2>4, LocatedElsewhere
<1>6. ASSUME NEW m \in Nodes, aliases = 0 PROVE Owned(m)'
  <2>1. Owned(m) /\ pool[m] \in Nat
    BY <1>6 DEF OwnInv, Contract, IInv, TypeOK
  <2>2. CASE m # n
    BY <1>1, <1>3, <2>1, <2>2, OwnedElsewhere
  <2>3. CASE m = n
    <3>1. At(n, "root", g, 0)
      BY <1>1 DEF At
    <3>2. \A kind, a, i : At(n, kind, a, i) => kind = "root" /\ a = g
      BY <2>1, <2>3, <3>1 DEF Owned, Unshared
    <3>3. Unshared(n)' /\ ~Nowhere(n)
      BY <1>3, <3>1, <3>2 DEF Unshared, Nowhere
    <3>. QED
      BY <1>1, <2>1, <2>3, <3>3, OwnedMoves
  <2>. QED
    BY <2>2, <2>3
<1>. QED
  BY <1>1, <1>5, <1>6 DEF OwnInv, Contract

(* The top entry of the walk of g, at k, and what is below it. *)
TopIs(g, k, n, r) ==
    /\ k \in Nat /\ k > 0 /\ n \in Nodes /\ r \in Seq(Entry)
    /\ r = Rest(stack[g]) /\ n = Top(stack[g]).node
    /\ stack[g][k] = Top(stack[g])
    /\ Len(r) = k - 1 /\ DOMAIN stack[g] = 1..k /\ DOMAIN r = 1..k - 1
    /\ \A i \in DOMAIN r : stack[g][i] = r[i]

LEMMA WalkTop ==
    ASSUME OwnInv, NEW g \in Goroutines, stack[g] # <<>>
    PROVE  \E k, n, r : TopIs(g, k, n, r)
<1>1. PICK o \in Seq(Entry) : o = stack[g] /\ o # <<>>
  BY DEF OwnInv, IInv, TypeOK
<1>2. /\ Top(o) \in Entry /\ Rest(o) \in Seq(Entry) /\ Len(o) \in Nat \ {0}
      /\ Top(o) = o[Len(o)] /\ DOMAIN Rest(o) = 1..Len(o) - 1 /\ DOMAIN o = 1..Len(o)
      /\ \A i \in 1..Len(o) - 1 : Rest(o)[i] = o[i]
  BY <1>1, PopType
<1>3. PICK k \in Nat \ {0} : k = Len(o)
  BY <1>2
<1>4. PICK r \in Seq(Entry) : r = Rest(o)
  BY <1>2
<1>5. PICK n \in Nodes : n = Top(o).node
  BY <1>2 DEF Entry
<1>6. Len(r) = k - 1 /\ DOMAIN r = 1..k - 1
  <2>1. Len(r) \in Nat /\ DOMAIN r = 1..Len(r)
    OBVIOUS
  <2>2. DOMAIN r = 1..k - 1
    BY <1>2, <1>3, <1>4
  <2>. QED
    BY <2>1, <2>2
<1>7. o[k] = Top(o) /\ DOMAIN o = 1..k
  BY <1>2, <1>3
<1>8. \A i \in DOMAIN r : o[i] = r[i]
  BY <1>2, <1>3, <1>4
<1>9. TopIs(g, k, n, r)
  BY <1>1, <1>3, <1>4, <1>5, <1>6, <1>7, <1>8 DEF TopIs
<1>. QED
  BY <1>9

(* A step that pops the top entry of a walk moves no other node. *)
LEMMA PopPlaces ==
    ASSUME OwnInv, NEW g \in Goroutines, NEW k, NEW n, NEW r, TopIs(g, k, n, r),
           stack' = [stack EXCEPT ![g] = r], roots' = roots, taking' = taking, children' = children
    PROVE  /\ \A m, kind, a, i : At(m, kind, a, i)' <=>
                 At(m, kind, a, i) /\ ~(kind = "stack" /\ a = g /\ i = k)
           /\ \A h \in Goroutines, i \in Nat, m \in Nodes : Holds(h, i, m)' <=>
                 Holds(h, i, m) /\ ~(h = g /\ i = k)
<1>1. \A h \in Goroutines : stack'[h] = IF h = g THEN r ELSE stack[h]
  BY DEF OwnInv, IInv, TypeOK
<1>2. /\ \A i : i \in DOMAIN r <=> i \in DOMAIN stack[g] /\ i # k
      /\ \A i \in DOMAIN r : stack[g][i] = r[i]
  BY DEF TopIs
<1>3. ASSUME NEW m, NEW kind, NEW a, NEW i
      PROVE  At(m, kind, a, i)' <=> At(m, kind, a, i) /\ ~(kind = "stack" /\ a = g /\ i = k)
  <2>1. CASE kind = "stack" /\ a = g
    BY <1>1, <1>2, <2>1 DEF At
  <2>2. CASE ~(kind = "stack" /\ a = g)
    BY <1>1, <2>2 DEF At
  <2>. QED
    BY <2>1, <2>2
<1>4. \A h \in Goroutines, i \in Nat, m \in Nodes : Holds(h, i, m)' <=>
          Holds(h, i, m) /\ ~(h = g /\ i = k)
  BY <1>1, <1>2 DEF Holds
<1>. QED
  BY <1>3, <1>4

LEMMA TopPlace ==
    ASSUME NEW g \in Goroutines, NEW k, NEW n, NEW r, TopIs(g, k, n, r)
    PROVE  /\ At(n, "stack", g, k) /\ k \in Nat /\ n \in Nodes
           /\ \A m : m # n => ~At(m, "stack", g, k)
BY DEF At, TopIs

(* A refused node is in its pool or being released already, so that forgetting
   this visit does not lose it; under the contract no visit is refused. *)
LEMMA OwnRefuse ==
    ASSUME OwnInv, NEW g \in Goroutines, Refuse(g)
    PROVE  Contract' /\ \A m \in Nodes : Located(m)'
<1>1. PICK k, n, r : TopIs(g, k, n, r)
  BY WalkTop DEF Refuse, Next2Do
<1>2. /\ stack' = [stack EXCEPT ![g] = r] /\ released[n] /\ stack[g][k].todo = "visit"
      /\ UNCHANGED <<fresh, pool, released, children, roots, taking, aliases>>
  BY <1>1 DEF Refuse, Next2Do, TopIs
<1>3. /\ \A m, kind, a, i : At(m, kind, a, i)' <=>
            At(m, kind, a, i) /\ ~(kind = "stack" /\ a = g /\ i = k)
      /\ \A h \in Goroutines, i \in Nat, m \in Nodes : Holds(h, i, m)' <=>
            Holds(h, i, m) /\ ~(h = g /\ i = k)
  BY <1>1, <1>2, PopPlaces
<1>4. \A m \in Nodes : ~Holds(g, k, m)
  BY <1>2 DEF Holds
<1>5. At(n, "stack", g, k) /\ n \in Nodes /\ \A m : m # n => ~At(m, "stack", g, k)
  BY <1>1, TopPlace
<1>6. \/ pool[n] > 0
      \/ \E h \in Goroutines : taking[h] = n
      \/ \E h \in Goroutines, i \in Nat : Holds(h, i, n)
  BY <1>2, <1>5 DEF OwnInv, Located, ClosedForAReason
<1>7. pool[n] > 0 \/ \E kind, a, i : At(n, kind, a, i) /\ ~(kind = "stack" /\ a = g /\ i = k)
  <2>1. ASSUME NEW h \in Goroutines, taking[h] = n PROVE At(n, "taken", h, 0)
    BY <2>1 DEF At
  <2>2. ASSUME NEW h \in Goroutines, NEW i \in Nat, Holds(h, i, n)
        PROVE  At(n, "stack", h, i) /\ ~(h = g /\ i = k)
    BY <1>4, <1>5, <2>2 DEF At, Holds
  <2>. QED
    BY <1>6, <2>1, <2>2
<1>8. ASSUME NEW m \in Nodes PROVE Located(m)'
  <2>1. Located(m) /\ ClosedForAReason(m)'
    BY <1>2, <1>3, <1>4 DEF OwnInv, Located, ClosedForAReason
  <2>2. m \in fresh' \/ pool'[m] > 0 \/ ~Nowhere(m)'
    BY <1>2, <1>3, <1>5, <1>7, <2>1 DEF Located, Nowhere
  <2>3. Nowhere(m) => Nowhere(m)'
    BY <1>3 DEF Nowhere
  <2>. QED
    BY <1>2, <2>1, <2>2, <2>3 DEF Located
<1>9. aliases # 0
  <2>1. SUFFICES ASSUME Owned(n) PROVE FALSE
    BY <1>5 DEF OwnInv, Contract
  <2>2. ~(pool[n] > 0)
    BY <1>5, <2>1 DEF Owned, Nowhere
  <2>. QED
    BY <1>5, <1>7, <2>1, <2>2 DEF Owned, Unshared
<1>. QED
  BY <1>2, <1>8, <1>9 DEF Contract

(* The end of a release: the top entry of a walk goes to the pool. *)
LEMMA OwnPoolTop ==
    ASSUME OwnInv, NEW g \in Goroutines, NEW k, NEW n, NEW r, TopIs(g, k, n, r),
           stack' = [stack EXCEPT ![g] = r], pool' = [pool EXCEPT ![n] = @ + 1],
           released' = released \/ released' = [released EXCEPT ![n] = TRUE],
           aliases = 0 => released'[n],
           UNCHANGED <<fresh, children, roots, taking, aliases, refused>>
    PROVE  Contract' /\ \A m \in Nodes : Located(m)'
<1>1. /\ \A m, kind, a, i : At(m, kind, a, i)' <=>
            At(m, kind, a, i) /\ ~(kind = "stack" /\ a = g /\ i = k)
      /\ \A h \in Goroutines, i \in Nat, m \in Nodes : Holds(h, i, m)' <=>
            Holds(h, i, m) /\ ~(h = g /\ i = k)
  BY PopPlaces
<1>2. At(n, "stack", g, k) /\ n \in Nodes /\ \A m : m # n => ~At(m, "stack", g, k)
  BY TopPlace
<1>3. \A m \in Nodes : m # n => ~Holds(g, k, m)
  BY DEF TopIs, Holds
<1>4. /\ pool[n] \in Nat /\ pool'[n] = pool[n] + 1
      /\ \A m \in Nodes : m # n => pool'[m] = pool[m] /\ released'[m] = released[m]
  BY <1>2 DEF OwnInv, IInv, TypeOK
<1>5. ASSUME NEW m \in Nodes PROVE Located(m)'
  <2>1. Located(m)
    BY DEF OwnInv
  <2>2. CASE m # n
    <3>1. \A kind, a, i : At(m, kind, a, i)' <=> At(m, kind, a, i)
      BY <1>1, <1>2, <2>2
    <3>2. Nowhere(m)' => Nowhere(m)
      BY <3>1 DEF Nowhere
    <3>3. Nowhere(m) => Nowhere(m)'
      BY <3>1 DEF Nowhere
    <3>4. \A h \in Goroutines, i \in Nat : Holds(h, i, m) => Holds(h, i, m)'
      BY <1>1, <1>3, <2>2
    <3>. QED
      BY <1>4, <2>1, <2>2, <3>2, <3>3, <3>4, LocatedElsewhere
  <2>3. CASE m = n
    <3>1. n \notin fresh
      BY <1>2, <2>1, <2>3 DEF Located, Nowhere
    <3>. QED
      BY <1>4, <2>3, <3>1 DEF Located, ClosedForAReason
  <2>. QED
    BY <2>2, <2>3
<1>6. ASSUME NEW m \in Nodes, aliases = 0 PROVE Owned(m)'
  <2>1. Owned(m)
    BY <1>6 DEF OwnInv, Contract
  <2>2. CASE m # n
    BY <1>1, <1>4, <2>1, <2>2, OwnedElsewhere
  <2>3. CASE m = n
    <3>1. \A kind, a, i : At(n, kind, a, i) => kind = "stack" /\ a = g /\ i = k
      BY <1>2, <2>1, <2>3 DEF Owned, Unshared
    <3>2. Nowhere(n)' /\ Unshared(n)' /\ ~Nowhere(n)
      BY <1>1, <1>2, <3>1 DEF Nowhere, Unshared
    <3>. QED
      BY <1>4, <1>6, <2>1, <2>3, <3>2, OwnedMoves
  <2>. QED
    BY <2>2, <2>3
<1>. QED
  BY <1>5, <1>6 DEF OwnInv, Contract

LEMMA OwnPoolStatement ==
    ASSUME OwnInv, NEW g \in Goroutines, PoolStatement(g)
    PROVE  Contract' /\ \A m \in Nodes : Located(m)'
<1>1. PICK k, n, r : TopIs(g, k, n, r)
  BY WalkTop DEF PoolStatement, Next2Do
<1>2. /\ stack' = [stack EXCEPT ![g] = r] /\ pool' = [pool EXCEPT ![n] = @ + 1]
      /\ n \notin Wiped /\ stack[g][k].todo = "reset"
      /\ UNCHANGED <<fresh, released, children, roots, taking, aliases, refused>>
  BY <1>1 DEF PoolStatement, Next2Do, TopIs
<1>3. Holds(g, k, n) /\ k \in Nat /\ n \in Nodes
  BY <1>1, <1>2 DEF Holds, TopIs
<1>4. released'[n]
  BY <1>2, <1>3 DEF OwnInv, IInv, Guarded
<1>. QED
  BY <1>1, <1>2, <1>4, OwnPoolTop

LEMMA OwnPoolWiped ==
    ASSUME OwnInv, NEW g \in Goroutines, PoolWiped(g)
    PROVE  Contract' /\ \A m \in Nodes : Located(m)'
<1>1. PICK k, n, r : TopIs(g, k, n, r)
  BY WalkTop DEF PoolWiped, Next2Do
<1>2. /\ stack' = [stack EXCEPT ![g] = r] /\ pool' = [pool EXCEPT ![n] = @ + 1]
      /\ released' = [released EXCEPT ![n] = TRUE] /\ n \in Nodes
      /\ UNCHANGED <<fresh, children, roots, taking, aliases, refused>>
  BY <1>1 DEF PoolWiped, TopIs
<1>3. released'[n]
  BY <1>2 DEF OwnInv, IInv, TypeOK
<1>. QED
  BY <1>1, <1>2, <1>3, OwnPoolTop

(* The whole-struct reset leaves the node where it is. *)
LEMMA OwnWipeStatement ==
    ASSUME OwnInv, NEW g \in Goroutines, WipeStatement(g)
    PROVE  Contract' /\ \A m \in Nodes : Located(m)'
<1>1. PICK k, n, r : TopIs(g, k, n, r)
  BY WalkTop DEF WipeStatement, Next2Do
<1>2. ToMark(n) \in Entry /\ ToMark(n).node = n /\ ToMark(n).todo # "visit"
  BY <1>1 DEF ToMark, Entry, TopIs
<1>3. PICK s \in Seq(Entry) : s = Append(r, ToMark(n))
  BY <1>1, <1>2, PushType DEF TopIs
<1>4. DOMAIN s = 1..k /\ s[k] = ToMark(n) /\ \A i \in 1..k - 1 : s[i] = stack[g][i]
  <2>1. /\ DOMAIN Append(r, ToMark(n)) = 1..Len(r) + 1 /\ Append(r, ToMark(n))[Len(r) + 1] = ToMark(n)
        /\ \A i \in DOMAIN r : Append(r, ToMark(n))[i] = r[i]
    BY <1>1, <1>2, PushType DEF TopIs
  <2>2. Len(r) + 1 = k /\ DOMAIN r = 1..k - 1 /\ \A i \in DOMAIN r : stack[g][i] = r[i]
    BY <1>1 DEF TopIs
  <2>. QED
    BY <1>3, <2>1, <2>2
<1>5. /\ stack' = [stack EXCEPT ![g] = s] /\ released' = [released EXCEPT ![n] = FALSE]
      /\ n \in Nodes /\ k \in Nat /\ k > 0 /\ DOMAIN stack[g] = 1..k /\ stack[g][k].node = n
      /\ UNCHANGED <<fresh, pool, children, roots, taking, aliases, refused>>
  BY <1>1, <1>3 DEF WipeStatement, TopIs
<1>6. \A h \in Goroutines : stack'[h] = IF h = g THEN s ELSE stack[h]
  BY <1>5 DEF OwnInv, IInv, TypeOK
<1>7. \A i \in 1..k : s[i].node = stack[g][i].node /\ (i # k => s[i] = stack[g][i])
  BY <1>2, <1>4, <1>5
<1>8. ASSUME NEW m, NEW kind, NEW a, NEW i PROVE At(m, kind, a, i)' <=> At(m, kind, a, i)
  <2>1. CASE kind = "stack" /\ a = g
    BY <1>4, <1>5, <1>6, <1>7, <2>1 DEF At
  <2>2. CASE ~(kind = "stack" /\ a = g)
    BY <1>5, <1>6, <2>2 DEF At
  <2>. QED
    BY <2>1, <2>2
<1>9. ASSUME NEW m \in Nodes, m # n, NEW h \in Goroutines, NEW i \in Nat, Holds(h, i, m)
      PROVE  Holds(h, i, m)'
  BY <1>4, <1>5, <1>6, <1>7, <1>9 DEF Holds
<1>10. /\ \A m \in Nodes : m # n => released'[m] = released[m]
       /\ ~released'[n]
  BY <1>5 DEF OwnInv, IInv, TypeOK
<1>11. ASSUME NEW m \in Nodes PROVE Located(m)'
  <2>1. Located(m)
    BY DEF OwnInv
  <2>2. Nowhere(m)' => Nowhere(m)
    BY <1>8 DEF Nowhere
  <2>3. Nowhere(m) => Nowhere(m)'
    BY <1>8 DEF Nowhere
  <2>4. CASE m # n
    BY <1>5, <1>9, <1>10, <2>1, <2>2, <2>3, <2>4, LocatedElsewhere
  <2>5. CASE m = n
    BY <1>5, <1>10, <2>1, <2>2, <2>3, <2>5 DEF Located, ClosedForAReason
  <2>. QED
    BY <2>4, <2>5
<1>12. ASSUME NEW m \in Nodes, aliases = 0 PROVE Owned(m)'
  <2>1. Owned(m)
    BY <1>12 DEF OwnInv, Contract
  <2>2. CASE m # n
    BY <1>5, <1>8, <1>10, <2>1, <2>2, OwnedElsewhere
  <2>3. CASE m = n
    <3>1. At(n, "stack", g, k)
      BY <1>5 DEF At
    <3>2. ~(pool[n] > 0) /\ n \notin fresh /\ Unshared(n)
      BY <2>1, <2>3, <3>1 DEF Owned, Nowhere
    <3>3. Unshared(n)'
      BY <1>8, <3>2 DEF Unshared
    <3>. QED
      BY <1>5, <2>1, <2>3, <3>2, <3>3 DEF Owned
  <2>. QED
    BY <2>2, <2>3
<1>. QED
  BY <1>5, <1>11, <1>12 DEF OwnInv, Contract

(* A walk of length b to which visits of some nodes are added. *)
WithVisits(q, ns, b, s) ==
    /\ \A i : i \in DOMAIN s <=> i \in DOMAIN q \/ \E j \in Nat : i = b + j /\ j \in DOMAIN ns
    /\ \A j \in Nat : b + j \in DOMAIN q => j \notin DOMAIN ns
    /\ \A i \in DOMAIN q : s[i] = q[i]
    /\ \A j \in DOMAIN ns : s[b + j] = Visit(ns[j])

LEMMA VisitsPlaces ==
    ASSUME NEW q \in Seq(Entry), NEW ns \in Seq(Nodes), NEW b \in Nat, b = Len(q)
    PROVE  WithVisits(q, ns, b, q \o VisitAll(ns))
<1>1. PICK l \in Nat : l = Len(ns) /\ DOMAIN ns = 1..l /\ \A j \in 1..l : ns[j] \in Nodes
  OBVIOUS
<1>2. \A n \in Nodes : Visit(n) \in Entry
  BY DEF Visit, Entry
<1>3. PICK v : v = VisitAll(ns)
  OBVIOUS
<1>4. v \in [1..l -> Entry] /\ \A j \in 1..l : v[j] = Visit(ns[j])
  BY <1>1, <1>2, <1>3 DEF VisitAll
<1>5. v \in Seq(Entry) /\ Len(v) = l
  BY <1>4
<1>6. /\ DOMAIN (q \o v) = 1..b + l /\ DOMAIN q = 1..b
      /\ \A i \in 1..b : (q \o v)[i] = q[i]
      /\ \A i \in 1..l : (q \o v)[b + i] = v[i]
  BY <1>5
<1>7. ASSUME NEW i \in 1..b + l PROVE i \in 1..b \/ \E j \in Nat : i = b + j /\ j \in 1..l
  <2>1. CASE i \in 1..b
    BY <2>1
  <2>2. CASE i \notin 1..b
    <3>1. i - b \in Nat /\ i = b + (i - b) /\ i - b \in 1..l
      BY <2>2
    <3>. QED
      BY <3>1
  <2>. QED
    BY <2>1, <2>2
<1>8. ASSUME NEW i, i \in 1..b \/ \E j \in Nat : i = b + j /\ j \in 1..l PROVE i \in 1..b + l
  <2>1. CASE i \in 1..b
    BY <2>1
  <2>2. CASE \E j \in Nat : i = b + j /\ j \in 1..l
    BY <2>2
  <2>. QED
    BY <1>8, <2>1, <2>2
<1>9. \A j \in Nat : b + j \in 1..b => j \notin 1..l
  OBVIOUS
<1>10. \A i : i \in DOMAIN (q \o v) <=> i \in DOMAIN q \/ \E j \in Nat : i = b + j /\ j \in DOMAIN ns
  <2>1. \A i : i \in 1..b + l <=> i \in 1..b \/ \E j \in Nat : i = b + j /\ j \in 1..l
    BY <1>7, <1>8
  <2>. QED
    BY <1>1, <1>6, <2>1
<1>11. \A j \in Nat : b + j \in DOMAIN q => j \notin DOMAIN ns
  BY <1>1, <1>6, <1>9
<1>12. /\ \A i \in DOMAIN q : (q \o v)[i] = q[i]
       /\ \A j \in DOMAIN ns : (q \o v)[b + j] = Visit(ns[j])
  BY <1>1, <1>4, <1>6
<1>. QED
  BY <1>3, <1>10, <1>11, <1>12 DEF WithVisits

(* The start of a release: the children of n become visits above a walk q of
   length b. *)
Descends(g, n, q, b) ==
    /\ q \in Seq(Entry) /\ b \in Nat /\ b = Len(q)
    /\ stack' = [stack EXCEPT ![g] = q \o VisitAll(children[n])]
    /\ children' = [children EXCEPT ![n] = <<>>] /\ roots' = roots /\ taking' = taking

AtAfterDescent(g, n, q, b, m, kind, a, i) ==
    \/ At(m, kind, a, i) /\ ~(kind = "child" /\ a = n) /\ ~(kind = "stack" /\ a = g)
    \/ kind = "stack" /\ a = g /\ i \in DOMAIN q /\ q[i].node = m
    \/ kind = "stack" /\ a = g /\ \E j \in Nat : i = b + j /\ At(m, "child", n, j)

LEMMA DescendPlaces ==
    ASSUME OwnInv, NEW g \in Goroutines, NEW n \in Nodes, NEW q, NEW b, Descends(g, n, q, b)
    PROVE  /\ \A m, kind, a, i : At(m, kind, a, i)' <=> AtAfterDescent(g, n, q, b, m, kind, a, i)
           /\ \A h \in Goroutines, i \in Nat, m \in Nodes : h # g /\ Holds(h, i, m) => Holds(h, i, m)'
           /\ \A i \in DOMAIN q : q[i].todo # "visit" => Holds(g, i, q[i].node)'
<1>0. q \in Seq(Entry) /\ b \in Nat /\ b = Len(q)
  BY DEF Descends
<1>1. PICK ns \in Seq(Nodes) : ns = children[n]
  BY DEF OwnInv, IInv, TypeOK
<1>2. PICK s : s = q \o VisitAll(ns)
  OBVIOUS
<1>3. /\ \A i : i \in DOMAIN s <=> i \in DOMAIN q \/ \E j \in Nat : i = b + j /\ j \in DOMAIN ns
      /\ \A j \in Nat : b + j \in DOMAIN q => j \notin DOMAIN ns
      /\ \A i \in DOMAIN q : s[i] = q[i]
      /\ \A j \in DOMAIN ns : s[b + j] = Visit(ns[j])
  <2>1. WithVisits(q, ns, b, q \o VisitAll(ns))
    BY <1>0, <1>1, VisitsPlaces
  <2>2. WithVisits(q, ns, b, s)
    BY <1>2, <2>1
  <2>. QED
    BY <2>2 DEF WithVisits
<1>4. \A j \in DOMAIN ns : j \in Nat /\ s[b + j].node = ns[j]
  <2>1. \A j \in DOMAIN ns : j \in Nat
    BY <1>1
  <2>2. ASSUME NEW j \in DOMAIN ns PROVE s[b + j].node = ns[j]
    <3>1. s[b + j] = Visit(ns[j])
      BY <1>3
    <3>. QED
      BY <3>1 DEF Visit
  <2>. QED
    BY <2>1, <2>2
<1>5. /\ \A h \in Goroutines : stack'[h] = IF h = g THEN s ELSE stack[h]
      /\ \A p \in Nodes : children'[p] = IF p = n THEN <<>> ELSE children[p]
      /\ roots' = roots /\ taking' = taking
  BY <1>1, <1>2 DEF OwnInv, IInv, TypeOK, Descends
<1>6. ASSUME NEW m, NEW kind, NEW a, NEW i
      PROVE  At(m, kind, a, i)' <=> AtAfterDescent(g, n, q, b, m, kind, a, i)
  <2>1. CASE kind = "stack" /\ a = g
    <3>1. At(m, kind, a, i)' <=> i \in DOMAIN s /\ s[i].node = m
      BY <1>5, <2>1 DEF At
    <3>2. \A j : At(m, "child", n, j) <=> j \in DOMAIN ns /\ ns[j] = m
      BY <1>1 DEF At
    <3>3. AtAfterDescent(g, n, q, b, m, kind, a, i) <=>
            \/ i \in DOMAIN q /\ q[i].node = m
            \/ \E j \in Nat : i = b + j /\ j \in DOMAIN ns /\ ns[j] = m
      BY <2>1, <3>2 DEF AtAfterDescent
    <3>4. ASSUME i \in DOMAIN s, s[i].node = m
          PROVE  \/ i \in DOMAIN q /\ q[i].node = m
                 \/ \E j \in Nat : i = b + j /\ j \in DOMAIN ns /\ ns[j] = m
      BY <1>3, <1>4, <3>4
    <3>5. CASE i \in DOMAIN q /\ q[i].node = m
      BY <1>3, <3>1, <3>3, <3>5
    <3>6. ASSUME NEW j \in Nat, i = b + j, j \in DOMAIN ns, ns[j] = m
          PROVE  i \in DOMAIN s /\ s[i].node = m
      BY <1>3, <1>4, <3>6
    <3>. QED
      BY <3>1, <3>3, <3>4, <3>5, <3>6
  <2>2. CASE kind = "child" /\ a = n
    BY <1>5, <2>2 DEF At, AtAfterDescent
  <2>3. CASE ~(kind = "stack" /\ a = g) /\ ~(kind = "child" /\ a = n)
    BY <1>5, <2>3 DEF At, AtAfterDescent
  <2>. QED
    BY <2>1, <2>2, <2>3
<1>7. \A h \in Goroutines, i \in Nat, m \in Nodes : h # g /\ Holds(h, i, m) => Holds(h, i, m)'
  BY <1>5 DEF Holds
<1>8. ASSUME NEW i \in DOMAIN q, q[i].todo # "visit" PROVE Holds(g, i, q[i].node)'
  <2>1. PICK c : c = q[i].node
    OBVIOUS
  <2>2. Holds(g, i, c)'
    BY <1>3, <1>5, <1>8, <2>1 DEF Holds
  <2>. QED
    BY <2>1, <2>2
<1>. QED
  BY <1>6, <1>7, <1>8

(* An expression goes to its pool and its children become visits. *)
LEMMA OwnPoolExpression ==
    ASSUME OwnInv, NEW g \in Goroutines, PoolExpression(g)
    PROVE  Contract' /\ \A m \in Nodes : Located(m)'
<1>1. PICK k, n, r : TopIs(g, k, n, r)
  BY WalkTop DEF PoolExpression, Next2Do
<1>2. /\ k \in Nat /\ k > 0 /\ n \in Nodes /\ r \in Seq(Entry) /\ Len(r) = k - 1
      /\ stack' = [stack EXCEPT ![g] = r \o VisitAll(children[n])]
      /\ released' = [released EXCEPT ![n] = TRUE]
      /\ children' = [children EXCEPT ![n] = <<>>]
      /\ pool' = [pool EXCEPT ![n] = @ + 1] /\ stack[g][k].todo = "visit"
      /\ UNCHANGED <<fresh, roots, taking, aliases, refused>>
  BY <1>1 DEF PoolExpression, Next2Do, TopIs
<1>3. PICK b \in Nat : b = Len(r)
  BY <1>2
<1>4. Descends(g, n, r, b)
  BY <1>2, <1>3 DEF Descends
<1>5. \A m, i : i \in DOMAIN r /\ r[i].node = m <=> At(m, "stack", g, i) /\ i # k
  BY <1>1 DEF At, TopIs
<1>6. At(n, "stack", g, k) /\ \A m : m # n => ~At(m, "stack", g, k)
  BY <1>1, TopPlace
<1>7. ASSUME NEW h \in Goroutines, NEW i \in Nat, NEW m \in Nodes, Holds(h, i, m)
      PROVE  Holds(h, i, m)'
  <2>1. CASE h # g
    BY <1>2, <1>4, <1>7, <2>1, DescendPlaces
  <2>2. CASE h = g
    <3>1. stack[g][k].todo = "visit"
      BY <1>2
    <3>2. i # k /\ i \in DOMAIN stack[g] /\ stack[g][i].node = m /\ stack[g][i].todo # "visit"
      BY <1>7, <2>2, <3>1 DEF Holds
    <3>3. i \in DOMAIN r /\ r[i] = stack[g][i]
      BY <1>1, <3>2 DEF TopIs
    <3>4. Holds(g, i, r[i].node)'
      BY <1>2, <1>4, <3>2, <3>3, DescendPlaces
    <3>. QED
      BY <2>2, <3>2, <3>3, <3>4
  <2>. QED
    BY <2>1, <2>2
<1>8. ASSUME NEW m, NEW kind, NEW a, NEW i
      PROVE  At(m, kind, a, i)' <=>
          \/ At(m, kind, a, i) /\ ~(kind = "child" /\ a = n) /\ ~(kind = "stack" /\ a = g /\ i = k)
          \/ kind = "stack" /\ a = g /\ \E j \in Nat : i = b + j /\ At(m, "child", n, j)
  <2>1. At(m, kind, a, i)' <=> AtAfterDescent(g, n, r, b, m, kind, a, i)
    BY <1>2, <1>4, DescendPlaces
  <2>2. CASE kind = "stack" /\ a = g
    <3>1. i \in DOMAIN r /\ r[i].node = m <=> At(m, "stack", g, i) /\ i # k
      BY <1>5
    <3>. QED
      BY <2>1, <2>2, <3>1 DEF AtAfterDescent
  <2>3. CASE ~(kind = "stack" /\ a = g)
    BY <2>1, <2>3 DEF AtAfterDescent
  <2>. QED
    BY <2>2, <2>3
<1>9. /\ pool[n] \in Nat /\ pool'[n] = pool[n] + 1 /\ released'[n]
      /\ \A m \in Nodes : m # n => pool'[m] = pool[m] /\ released'[m] = released[m]
  BY <1>2 DEF OwnInv, IInv, TypeOK
<1>10. \A m, j : At(m, "child", n, j) => j \in Nat
  BY <1>2 DEF At, OwnInv, IInv, TypeOK
<1>11. ASSUME NEW m \in Nodes PROVE Located(m)'
  <2>1. Located(m)
    BY DEF OwnInv
  <2>2. CASE m # n
    <3>1. ASSUME NEW kind, NEW a, NEW i, At(m, kind, a, i) PROVE ~Nowhere(m)'
      <4>1. CASE kind = "child" /\ a = n
        <5>1. i \in Nat /\ At(m, "child", n, i)
          BY <1>10, <3>1, <4>1
        <5>2. \E i2 : At(m, "stack", g, i2)'
          BY <1>8, <5>1
        <5>. QED
          BY <5>2 DEF Nowhere
      <4>2. CASE ~(kind = "child" /\ a = n)
        BY <1>6, <1>8, <2>2, <3>1, <4>2 DEF Nowhere
      <4>. QED
        BY <4>1, <4>2
    <3>2. Nowhere(m)' => Nowhere(m)
      BY <3>1 DEF Nowhere
    <3>3. Nowhere(m) => Nowhere(m)'
      BY <1>8 DEF Nowhere
    <3>. QED
      BY <1>2, <1>7, <1>9, <2>1, <2>2, <3>2, <3>3, LocatedElsewhere
  <2>3. CASE m = n
    <3>1. n \notin fresh
      BY <1>6, <2>1, <2>3 DEF Located, Nowhere
    <3>. QED
      BY <1>2, <1>9, <2>3, <3>1 DEF Located, ClosedForAReason
  <2>. QED
    BY <2>2, <2>3
<1>12. ASSUME NEW m \in Nodes, aliases = 0 PROVE Owned(m)'
  <2>1. Owned(m)
    BY <1>12 DEF OwnInv, Contract
  <2>2. Unshared(m)'
    BY <1>8, <2>1, UnsharedDescends DEF Owned
  <2>3. CASE m # n
    <3>1. Nowhere(m) => Nowhere(m)'
      BY <1>8 DEF Nowhere
    <3>. QED
      BY <1>2, <1>9, <2>1, <2>2, <2>3, <3>1 DEF Owned
  <2>4. CASE m = n
    <3>1. \A kind, a, i : At(n, kind, a, i) => kind = "stack" /\ a = g /\ i = k
      BY <1>6, <2>1, <2>4 DEF Owned, Unshared
    <3>2. Nowhere(n)' /\ ~Nowhere(n)
      BY <1>6, <1>8, <3>1 DEF Nowhere
    <3>. QED
      BY <1>2, <1>9, <2>1, <2>2, <2>4, <3>2, OwnedMoves
  <2>. QED
    BY <2>3, <2>4
<1>. QED
  BY <1>2, <1>11, <1>12 DEF OwnInv, Contract

(* A typed Put closes the guard of its node and descends to its children. *)
LEMMA OwnReleaseChildren ==
    ASSUME OwnInv, NEW g \in Goroutines, ReleaseChildren(g)
    PROVE  Contract' /\ \A m \in Nodes : Located(m)'
<1>1. PICK k, n, r : TopIs(g, k, n, r)
  BY WalkTop DEF ReleaseChildren, Next2Do
<1>2. ToReset(n) \in Entry /\ ToReset(n).node = n /\ ToReset(n).todo # "visit"
  BY <1>1 DEF ToReset, Entry, TopIs
<1>3. PICK q \in Seq(Entry) : q = Append(r, ToReset(n))
  BY <1>1, <1>2, PushType DEF TopIs
<1>4. /\ DOMAIN q = 1..k /\ Len(q) = k /\ q[k].node = n /\ q[k].todo # "visit"
      /\ \A i \in 1..k - 1 : q[i] = stack[g][i]
  <2>1. /\ DOMAIN Append(r, ToReset(n)) = 1..Len(r) + 1 /\ Append(r, ToReset(n))[Len(r) + 1] = ToReset(n)
        /\ \A i \in DOMAIN r : Append(r, ToReset(n))[i] = r[i]
    BY <1>1, <1>2, PushType DEF TopIs
  <2>2. Len(r) + 1 = k /\ DOMAIN r = 1..k - 1 /\ \A i \in DOMAIN r : stack[g][i] = r[i]
    BY <1>1 DEF TopIs
  <2>3. k \in Nat /\ Len(Append(r, ToReset(n))) = k
    BY <1>1, <1>2 DEF TopIs
  <2>. QED
    BY <1>2, <1>3, <2>1, <2>2, <2>3
<1>5. /\ k \in Nat /\ k > 0 /\ n \in Nodes /\ DOMAIN stack[g] = 1..k
      /\ stack[g][k].node = n /\ stack[g][k].todo = "visit" /\ ~released[n]
      /\ stack' = [stack EXCEPT ![g] = q \o VisitAll(children[n])]
      /\ released' = [released EXCEPT ![n] = TRUE]
      /\ children' = [children EXCEPT ![n] = <<>>]
      /\ UNCHANGED <<fresh, pool, roots, taking, aliases, refused>>
  BY <1>1, <1>3 DEF ReleaseChildren, Next2Do, TopIs
<1>6. Descends(g, n, q, k)
  BY <1>3, <1>4, <1>5 DEF Descends
<1>7. Holds(g, k, n)'
  <2>1. Holds(g, k, q[k].node)'
    BY <1>4, <1>5, <1>6, DescendPlaces
  <2>. QED
    BY <1>4, <2>1
<1>8. ASSUME NEW h \in Goroutines, NEW i \in Nat, NEW m \in Nodes, Holds(h, i, m)
      PROVE  Holds(h, i, m)'
  <2>1. CASE h # g
    BY <1>5, <1>6, <1>8, <2>1, DescendPlaces
  <2>2. CASE h = g
    <3>1. i \in DOMAIN q /\ q[i].node = m /\ q[i].todo # "visit"
      <4>1. i \in 1..k /\ stack[g][i].node = m /\ stack[g][i].todo # "visit"
        BY <1>5, <1>8, <2>2 DEF Holds
      <4>2. i # k
        BY <1>5, <4>1
      <4>3. i \in 1..k - 1
        BY <1>5, <4>1, <4>2
      <4>. QED
        BY <1>4, <4>1, <4>3
    <3>2. Holds(g, i, q[i].node)'
      BY <1>5, <1>6, <3>1, DescendPlaces
    <3>. QED
      BY <2>2, <3>1, <3>2
  <2>. QED
    BY <2>1, <2>2
<1>9. ASSUME NEW m, NEW kind, NEW a, NEW i
      PROVE  At(m, kind, a, i)' <=>
          \/ At(m, kind, a, i) /\ ~(kind = "child" /\ a = n)
          \/ kind = "stack" /\ a = g /\ \E j \in Nat : i = k + j /\ At(m, "child", n, j)
  <2>1. At(m, kind, a, i)' <=> AtAfterDescent(g, n, q, k, m, kind, a, i)
    BY <1>5, <1>6, DescendPlaces
  <2>2. i \in DOMAIN q /\ q[i].node = m <=> At(m, "stack", g, i)
    BY <1>4, <1>5 DEF At
  <2>. QED
    BY <2>1, <2>2 DEF AtAfterDescent
<1>10. released'[n] /\ \A m \in Nodes : m # n => released'[m] = released[m]
  BY <1>5 DEF OwnInv, IInv, TypeOK
<1>11. \A m, j : At(m, "child", n, j) => j \in Nat
  BY <1>5 DEF At, OwnInv, IInv, TypeOK
<1>12. ASSUME NEW m, ~Nowhere(m) PROVE ~Nowhere(m)'
  <2>1. PICK kind, a, i : At(m, kind, a, i)
    BY <1>12 DEF Nowhere
  <2>2. CASE kind = "child" /\ a = n
    <3>1. i \in Nat /\ At(m, "child", n, i)
      BY <1>11, <2>1, <2>2
    <3>2. \E i2 : At(m, "stack", g, i2)'
      BY <1>9, <3>1
    <3>. QED
      BY <3>2 DEF Nowhere
  <2>3. CASE ~(kind = "child" /\ a = n)
    BY <1>9, <2>1, <2>3 DEF Nowhere
  <2>. QED
    BY <2>2, <2>3
<1>13. ASSUME NEW m, Nowhere(m) PROVE Nowhere(m)'
  BY <1>9, <1>13 DEF Nowhere
<1>14. ASSUME NEW m \in Nodes PROVE Located(m)'
  <2>1. Located(m)
    BY DEF OwnInv
  <2>2. CASE m # n
    BY <1>5, <1>8, <1>10, <1>12, <1>13, <2>1, <2>2, LocatedElsewhere
  <2>3. CASE m = n
    <3>1. ClosedForAReason(n)'
      BY <1>5, <1>7 DEF ClosedForAReason
    <3>. QED
      BY <1>5, <1>12, <1>13, <2>1, <2>3, <3>1 DEF Located
  <2>. QED
    BY <2>2, <2>3
<1>15. ASSUME NEW m \in Nodes, aliases = 0 PROVE Owned(m)'
  <2>1. Owned(m)
    BY <1>15 DEF OwnInv, Contract
  <2>2. Unshared(m)'
    BY <1>9, <1>5, <2>1, UnsharedDescends DEF Owned
  <2>. QED
    BY <1>5, <1>10, <1>13, <2>1, <2>2 DEF Owned
<1>. QED
  BY <1>5, <1>14, <1>15 DEF OwnInv, Contract

-----------------------------------------------------------------------------
(* The invariant *)

LEMMA InitOwnInv == Init => OwnInv
<1>1. SUFFICES ASSUME Init PROVE OwnInv
  OBVIOUS
<1>2. IInv
  BY <1>1, InitIInv
<1>3. ASSUME NEW n \in Nodes PROVE Nowhere(n)
  BY NodeAssumption, <1>1, <1>3 DEF Init, Nowhere, At
<1>4. ASSUME NEW n \in Nodes PROVE Located(n) /\ Owned(n)
  BY <1>1, <1>3, <1>4 DEF Init, Located, Owned, ClosedForAReason, Unshared, Nowhere
<1>. QED
  BY <1>1, <1>2, <1>4 DEF Init, OwnInv, Contract

(* A step of vars that changes nothing. *)
LEMMA OwnStutter == ASSUME OwnInv, UNCHANGED vars PROVE Contract' /\ \A m \in Nodes : Located(m)'
<1>1. \A m, kind, a, i : At(m, kind, a, i)' <=> At(m, kind, a, i)
  BY DEF At, vars
<1>2. \A h, i, m : Holds(h, i, m)' <=> Holds(h, i, m)
  BY DEF Holds, vars
<1>3. \A m : Nowhere(m)' <=> Nowhere(m)
  BY <1>1 DEF Nowhere
<1>4. \A m : Unshared(m)' <=> Unshared(m)
  BY <1>1 DEF Unshared
<1>. QED
  BY <1>2, <1>3, <1>4 DEF vars, OwnInv, Contract, Located, Owned, ClosedForAReason

LEMMA NextOwnInv == OwnInv /\ [Next]_vars => OwnInv'
<1>1. SUFFICES ASSUME OwnInv, [Next]_vars PROVE OwnInv'
  OBVIOUS
<1>2. IInv'
  BY <1>1, NextIInv DEF OwnInv
<1>3. ASSUME Next PROVE Contract' /\ \A m \in Nodes : Located(m)'
  BY <1>1, <1>3, OwnBuild, OwnAllocate, OwnTakeFromPool, OwnReArm, OwnRelease, OwnRefuse,
     OwnPoolExpression, OwnReleaseChildren, OwnPoolStatement, OwnWipeStatement, OwnPoolWiped
     DEF Next, ReleaseStep
<1>. QED
  BY <1>1, <1>2, <1>3, OwnStutter DEF OwnInv

LEMMA OwnInvariance == Spec => []OwnInv
BY InitOwnInv, NextOwnInv, PTL DEF Spec

-----------------------------------------------------------------------------

(* The single-owner contract and the release protocol together: as long as
   callers keep the contract every node that was ever allocated has exactly one
   owner or lies, once, in its pool, and no release is refused; and even when
   they break it, no release forgets a node. *)
THEOREM NodesAlwaysAccountedFor == Spec => []NodesAccountedFor
BY OwnInvariance, OwnInvAccountsForNodes, PTL

(* What guardRelease is for, whether or not resets wipe the guard of some
   nodes: a node is in its pool at most once and reads as released there.
   For the nodes that are wiped this takes the contract. *)
THEOREM GuardAlwaysHolds == Spec => []GuardHolds
<1>1. OwnInv => GuardHolds
  BY DEF OwnInv, IInv, TypeOK, Guarded, Contract, Owned, GuardHolds, PooledReadsReleased, NeverPooledTwice
<1>. QED
  BY <1>1, OwnInvariance, PTL

-----------------------------------------------------------------------------
(* The life of a node, as NodeLifecycle has it.                            *)

LEMMA WonOfNothing == Won(<<>>) = {}
BY DEF Won

LEMMA WonOfOne ==
    ASSUME NEW s \in Seq(Entry), NEW e \in Entry
    PROVE  Won(Append(s, e)) = Won(s) \cup (IF e.todo = "visit" THEN {} ELSE {e.node})
<1>1. PICK l, t : l = Len(s) /\ t = Append(s, e)
  OBVIOUS
<1>2. /\ l \in Nat /\ DOMAIN s = 1..l /\ DOMAIN t = 1..l + 1
      /\ t[l + 1] = e /\ \A i \in 1..l : t[i] = s[i]
  BY <1>1, PushType
<1>3. \A i \in 1..l + 1 : i = l + 1 \/ i \in 1..l
  BY <1>2
<1>4. l + 1 \in 1..l + 1 /\ \A i \in 1..l : i \in 1..l + 1
  BY <1>2
<1>5. \A x : x \in Won(t) <=> x \in Won(s) \/ (e.todo # "visit" /\ x = e.node)
  BY <1>2, <1>3, <1>4 DEF Won
<1>. QED
  BY <1>1, <1>5

LEMMA WonOfRest ==
    ASSUME NEW s \in Seq(Entry), s # <<>>
    PROVE  Won(s) = Won(Rest(s)) \cup (IF Top(s).todo = "visit" THEN {} ELSE {Top(s).node})
<1>1. PICK l, r, e : l = Len(s) /\ r = Rest(s) /\ e = Top(s)
  OBVIOUS
<1>2. /\ l \in Nat /\ l # 0 /\ e = s[l] /\ DOMAIN r = 1..l - 1 /\ DOMAIN s = 1..l
      /\ \A i \in 1..l - 1 : r[i] = s[i]
  BY <1>1, PopType
<1>3. \A i \in 1..l : i = l \/ i \in 1..l - 1
  BY <1>2
<1>4. l \in 1..l /\ \A i \in 1..l - 1 : i \in 1..l
  BY <1>2
<1>5. \A x : x \in Won(s) <=> x \in Won(r) \/ (e.todo # "visit" /\ x = e.node)
  BY <1>2, <1>3, <1>4 DEF Won
<1>. QED
  BY <1>1, <1>5

LEMMA WonOfVisits ==
    ASSUME NEW s \in Seq(Entry), NEW ns \in Seq(Nodes)
    PROVE  Won(s \o VisitAll(ns)) = Won(s)
<1>1. PICK t : t = s \o VisitAll(ns)
  OBVIOUS
<1>2. /\ \A i \in DOMAIN s : i \in DOMAIN t /\ t[i] = s[i]
      /\ \A i \in DOMAIN t : i \in DOMAIN s \/ t[i].todo = "visit"
  BY <1>1, VisitsType
<1>3. \A x : x \in Won(t) <=> x \in Won(s)
  BY <1>2 DEF Won
<1>. QED
  BY <1>1, <1>3

(* The top of a walk. *)
LEMMA TopOfWalk ==
    ASSUME OwnInv, NEW g \in Goroutines, stack[g] # <<>>
    PROVE  \E k \in Nat, n \in Nodes, r \in Seq(Entry), todo \in {"visit", "reset", "mark"} :
               /\ r = Rest(stack[g]) /\ n = Top(stack[g]).node /\ todo = Top(stack[g]).todo
               /\ k \in DOMAIN stack[g] /\ stack[g][k].node = n /\ stack[g][k].todo = todo
               /\ \A i \in DOMAIN r : i \in DOMAIN stack[g] /\ i # k /\ stack[g][i] = r[i]
               /\ Won(stack[g]) = Won(r) \cup (IF todo = "visit" THEN {} ELSE {n})
<1>1. PICK k \in Nat, n \in Nodes, r \in Seq(Entry) :
        /\ r = Rest(stack[g]) /\ n = Top(stack[g]).node
        /\ k \in DOMAIN stack[g] /\ stack[g][k] = Top(stack[g])
        /\ \A i \in DOMAIN r : i \in DOMAIN stack[g] /\ i # k /\ stack[g][i] = r[i]
  BY PopWalk DEF OwnInv, IInv
<1>2. stack[g] \in Seq(Entry)
  BY DEF OwnInv, IInv, TypeOK
<1>3. PICK todo \in {"visit", "reset", "mark"} : todo = Top(stack[g]).todo
  <2>1. PICK s : s = stack[g]
    OBVIOUS
  <2>2. s \in Seq(Entry) /\ s[k] \in Entry /\ s[k] = Top(stack[g])
    BY <1>1, <1>2, <2>1
  <2>. QED
    BY <2>2 DEF Entry
<1>4. Won(stack[g]) = Won(r) \cup (IF todo = "visit" THEN {} ELSE {n})
  BY <1>1, <1>2, <1>3, WonOfRest
<1>. QED
  BY <1>1, <1>3, <1>4

(* What the guard, or the contract, says of a node. *)
LEMMA GuardOrContract ==
    ASSUME OwnInv, NEW n \in Guardable
    PROVE  n \in Nodes /\ (Guarded(n) \/ Owned(n)) /\ Located(n)
<1>1. CASE MaxAliases = 0
  <2>1. aliases = 0
    BY <1>1 DEF OwnInv, IInv, TypeOK
  <2>. QED
    BY <1>1, <2>1 DEF Guardable, OwnInv, Contract
<1>2. CASE MaxAliases # 0
  BY <1>2 DEF Guardable, OwnInv, IInv
<1>. QED
  BY <1>1, <1>2

(* A node whose guard a release wins was nowhere in its pool, nowhere got from
   it and won by nobody. *)
LEMMA WinnerIsAlone ==
    ASSUME OwnInv, NEW n \in Guardable, ~released[n],
           NEW g \in Goroutines, NEW k \in Nat, At(n, "stack", g, k), stack[g][k].todo = "visit"
    PROVE  /\ n \notin fresh /\ pool[n] = 0
           /\ \A h \in Goroutines : taking[h] # n /\ n \notin Won(stack[h])
<1>1. n \in Nodes /\ (Guarded(n) \/ Owned(n)) /\ Located(n) /\ pool[n] \in Nat
  BY GuardOrContract DEF OwnInv, IInv, TypeOK
<1>2. n \notin fresh
  BY <1>1 DEF Located, Nowhere
<1>3. pool[n] = 0
  <2>1. CASE Guarded(n)
    BY <1>1, <2>1 DEF Guarded
  <2>2. CASE Owned(n)
    BY <1>1, <2>2 DEF Owned, Nowhere
  <2>. QED
    BY <1>1, <2>1, <2>2
<1>4. ASSUME NEW h \in Goroutines PROVE taking[h] # n
  <2>1. CASE Guarded(n)
    BY <2>1 DEF Guarded
  <2>2. CASE Owned(n)
    <3>1. ~At(n, "taken", h, 0)
      BY <2>2 DEF Owned, Unshared
    <3>. QED
      BY <3>1 DEF At
  <2>. QED
    BY <1>1, <2>1, <2>2
<1>5. ASSUME NEW h \in Goroutines, n \in Won(stack[h]) PROVE FALSE
  <2>1. PICK i : i \in DOMAIN stack[h] /\ stack[h][i].todo # "visit" /\ stack[h][i].node = n
    BY <1>5 DEF Won
  <2>2. Holds(h, i, n) /\ At(n, "stack", h, i) /\ i \in Nat
    BY <2>1 DEF Holds, At, OwnInv, IInv, TypeOK
  <2>3. CASE Guarded(n)
    BY <2>2, <2>3 DEF Guarded
  <2>4. CASE Owned(n)
    BY <2>1, <2>2, <2>4 DEF Owned, Unshared
  <2>. QED
    BY <1>1, <2>3, <2>4
<1>. QED
  BY <1>2, <1>3, <1>4, <1>5

(* A node that is about to be pooled is in no pool, and its winner has won it
   once. *)
LEMMA WonOnce ==
    ASSUME OwnInv, NEW n \in Guardable, NEW g \in Goroutines, NEW k \in Nat, Holds(g, k, n)
    PROVE  pool[n] = 0 /\ \A i \in Nat : Holds(g, i, n) => i = k
<1>1. n \in Nodes /\ (Guarded(n) \/ Owned(n)) /\ pool[n] \in Nat
  BY GuardOrContract DEF OwnInv, IInv, TypeOK
<1>2. CASE Guarded(n)
  BY <1>2 DEF Guarded
<1>3. CASE Owned(n)
  <2>1. At(n, "stack", g, k)
    BY DEF Holds, At
  <2>2. pool[n] = 0
    BY <1>1, <1>3, <2>1 DEF Owned, Nowhere
  <2>3. ASSUME NEW i \in Nat, Holds(g, i, n) PROVE i = k
    <3>1. At(n, "stack", g, i)
      BY <2>3 DEF Holds, At
    <3>. QED
      BY <1>3, <2>1, <3>1 DEF Owned, Unshared
  <2>. QED
    BY <2>2, <2>3
<1>. QED
  BY <1>1, <1>2, <1>3

Taken == [g \in Goroutines |-> {n \in Guardable : n = taking[g]}]

WonOf == [g \in Goroutines |-> Won(stack[g]) \cap Guardable]

Pooled == [n \in Guardable |-> pool[n]]

LEMMA LifeIs ==
    /\ Lifecycle!vars = <<fresh \cap Guardable, Pooled, Taken, WonOf>>
    /\ (Lifecycle!vars)' = <<fresh' \cap Guardable, Pooled', Taken', WonOf'>>
BY DEF Lifecycle!vars, Taken, WonOf, Pooled, Guardable

LEMMA LifeStarts == Init => Lifecycle!Init
<1>. SUFFICES ASSUME Init PROVE Lifecycle!Init
  OBVIOUS
<1>1. \A n \in Guardable : n \in Nodes /\ n # NoNode
  BY NodeAssumption DEF Guardable
<1>2. \A g \in Goroutines : {n \in Guardable : n = taking[g]} = {} /\ Won(stack[g]) = {}
  BY <1>1, WonOfNothing DEF Init
<1>3. fresh \cap Guardable = Guardable
  BY <1>1 DEF Init
<1>4. [n \in Guardable |-> pool[n]] = [n \in Guardable |-> 0]
  BY <1>1 DEF Init
<1>. QED
  BY <1>2, <1>3, <1>4 DEF Lifecycle!Init

(* A step that changes nothing of it. *)
LEMMA LifeStutters ==
    ASSUME UNCHANGED <<fresh, pool, taking>>, WonOf' = WonOf
    PROVE  UNCHANGED Lifecycle!vars
BY LifeIs DEF Taken, Pooled

LEMMA LifeAllocate ==
    ASSUME OwnInv, NEW g \in Goroutines, NEW n \in Nodes, Allocate(g, n)
    PROVE  [Lifecycle!Next]_(Lifecycle!vars)
<1>1. n \in fresh /\ fresh' = fresh \ {n} /\ UNCHANGED <<pool, taking, stack>>
  BY DEF Allocate
<1>2. WonOf' = WonOf /\ Taken' = Taken /\ Pooled' = Pooled
  BY <1>1 DEF WonOf, Taken, Pooled
<1>3. CASE n \in Guardable
  <2>1. Lifecycle!Allocate(n)
    BY <1>1, <1>2, <1>3 DEF Lifecycle!Allocate, WonOf, Taken, Pooled
  <2>. QED
    BY <1>3, <2>1 DEF Lifecycle!Next
<1>4. CASE n \notin Guardable
  <2>1. fresh' \cap Guardable = fresh \cap Guardable
    BY <1>1, <1>4
  <2>. QED
    BY <1>2, <2>1, LifeIs
<1>. QED
  BY <1>3, <1>4

LEMMA LifeTakeFromPool ==
    ASSUME OwnInv, NEW g \in Goroutines, NEW n \in Nodes, TakeFromPool(g, n)
    PROVE  [Lifecycle!Next]_(Lifecycle!vars)
<1>1. /\ taking[g] = NoNode /\ pool[n] > 0 /\ pool[n] \in Nat
      /\ pool' = [pool EXCEPT ![n] = @ - 1] /\ taking' = [taking EXCEPT ![g] = n]
      /\ UNCHANGED <<fresh, stack>>
  BY DEF TakeFromPool, Idle, OwnInv, IInv, TypeOK
<1>2. WonOf' = WonOf
  BY <1>1 DEF WonOf
<1>3. \A m \in Guardable : m \in Nodes /\ m # NoNode
  BY NodeAssumption DEF Guardable
<1>4. pool \in [Nodes -> Nat] /\ taking \in [Goroutines -> Nodes \cup {NoNode}]
  BY DEF OwnInv, IInv, TypeOK
<1>5. CASE n \in Guardable
  <2>1. pool[n] = 1
    BY <1>1, <1>5, GuardOrContract DEF Guarded, Owned
  <2>2. Pooled' = [Pooled EXCEPT ![n] = 0]
    <3>1. \A m \in Guardable : pool'[m] = IF m = n THEN 0 ELSE pool[m]
      BY <1>1, <1>3, <1>4, <2>1
    <3>2. Pooled' = [m \in Guardable |-> IF m = n THEN 0 ELSE pool[m]]
      BY <3>1 DEF Pooled
    <3>. QED
      BY <1>5, <3>2 DEF Pooled
  <2>3. Taken[g] = {}
    BY <1>1, <1>3 DEF Taken
  <2>4. Taken' = [Taken EXCEPT ![g] = {n}]
    BY <1>1, <1>4, <1>5 DEF Taken
  <2>5. Lifecycle!Get(g, n)
    BY <1>1, <1>2, <1>5, <2>1, <2>2, <2>3, <2>4 DEF Lifecycle!Get, WonOf, Taken, Pooled
  <2>. QED
    BY <1>5, <2>5 DEF Lifecycle!Next
<1>6. CASE n \notin Guardable
  <2>1. Pooled' = Pooled
    BY <1>1, <1>3, <1>4, <1>6 DEF Pooled
  <2>2. Taken' = Taken
    BY <1>1, <1>3, <1>4, <1>6 DEF Taken
  <2>. QED
    BY <1>1, <1>2, <2>1, <2>2, LifeIs
<1>. QED
  BY <1>5, <1>6

LEMMA LifeReArm ==
    ASSUME OwnInv, NEW g \in Goroutines, ReArm(g)
    PROVE  [Lifecycle!Next]_(Lifecycle!vars)
<1>1. taking' = [taking EXCEPT ![g] = NoNode] /\ UNCHANGED <<fresh, pool, stack>>
  BY DEF ReArm
<1>2. WonOf' = WonOf /\ Pooled' = Pooled
  BY <1>1 DEF WonOf, Pooled
<1>3. \A m \in Guardable : m \in Nodes /\ m # NoNode
  BY NodeAssumption DEF Guardable
<1>4. taking \in [Goroutines -> Nodes \cup {NoNode}]
  BY DEF OwnInv, IInv, TypeOK
<1>5. Taken' = [Taken EXCEPT ![g] = {}]
  BY <1>1, <1>3, <1>4 DEF Taken
<1>6. CASE Taken[g] # {}
  <2>1. Lifecycle!Ready(g)
    BY <1>1, <1>2, <1>5, <1>6 DEF Lifecycle!Ready, WonOf, Taken, Pooled
  <2>. QED
    BY <2>1 DEF Lifecycle!Next
<1>7. CASE Taken[g] = {}
  <2>1. Taken' = Taken
    BY <1>5, <1>7 DEF Taken
  <2>. QED
    BY <1>1, <1>2, <2>1, LifeIs
<1>. QED
  BY <1>6, <1>7

(* A walk that gains or loses visits only. *)
LEMMA LifeVisits ==
    ASSUME OwnInv, NEW g \in Goroutines, NEW s, stack' = [stack EXCEPT ![g] = s], Won(s) = Won(stack[g])
    PROVE  WonOf' = WonOf
<1>1. \A h \in Goroutines : Won(stack'[h]) = Won(stack[h])
  BY DEF OwnInv, IInv, TypeOK
<1>. QED
  BY <1>1 DEF WonOf

LEMMA LifeRelease ==
    ASSUME OwnInv, NEW g \in Goroutines, NEW n \in Nodes, Release(g, n)
    PROVE  [Lifecycle!Next]_(Lifecycle!vars)
<1>1. /\ stack[g] = <<>> /\ stack' = [stack EXCEPT ![g] = <<Visit(n)>>]
      /\ UNCHANGED <<fresh, pool, taking>>
  BY DEF Release, Idle
<1>2. Won(<<Visit(n)>>) = {}
  BY DEF Won, Visit
<1>. QED
  BY <1>1, <1>2, WonOfNothing, LifeVisits, LifeStutters

LEMMA LifeRefuse ==
    ASSUME OwnInv, NEW g \in Goroutines, Refuse(g)
    PROVE  [Lifecycle!Next]_(Lifecycle!vars)
<1>1. stack[g] # <<>> /\ Top(stack[g]).todo = "visit"
  BY DEF Refuse, Next2Do
<1>2. Won(Rest(stack[g])) = Won(stack[g])
  BY <1>1, TopOfWalk
<1>3. stack' = [stack EXCEPT ![g] = Rest(stack[g])] /\ UNCHANGED <<fresh, pool, taking>>
  BY DEF Refuse
<1>. QED
  BY <1>2, <1>3, LifeVisits, LifeStutters

LEMMA LifeBuild ==
    ASSUME UNCHANGED <<fresh, pool, taking, stack>>
    PROVE  UNCHANGED Lifecycle!vars
BY LifeStutters DEF WonOf

(* An expression whose guard is won is pooled at once. *)
LEMMA LifePoolExpression ==
    ASSUME OwnInv, NEW g \in Goroutines, PoolExpression(g)
    PROVE  [Lifecycle!Next]_(Lifecycle!vars)
<1>1. stack[g] # <<>> /\ Top(stack[g]).todo = "visit"
  BY DEF PoolExpression, Next2Do
<1>2. PICK k \in Nat, n \in Nodes, r \in Seq(Entry), todo \in {"visit", "reset", "mark"} :
          /\ r = Rest(stack[g]) /\ n = Top(stack[g]).node /\ todo = Top(stack[g]).todo
          /\ k \in DOMAIN stack[g] /\ stack[g][k].node = n /\ stack[g][k].todo = todo
          /\ \A i \in DOMAIN r : i \in DOMAIN stack[g] /\ i # k /\ stack[g][i] = r[i]
          /\ Won(stack[g]) = Won(r) \cup (IF todo = "visit" THEN {} ELSE {n})
  BY <1>1, TopOfWalk
<1>3. PICK ns \in Seq(Nodes) : ns = children[n]
  BY DEF OwnInv, IInv, TypeOK
<1>4. /\ ~released[n] /\ stack' = [stack EXCEPT ![g] = r \o VisitAll(ns)]
      /\ pool' = [pool EXCEPT ![n] = @ + 1] /\ UNCHANGED <<fresh, taking>>
  BY <1>2, <1>3 DEF PoolExpression
<1>5. WonOf' = WonOf
  <2>1. Won(r \o VisitAll(ns)) = Won(stack[g])
    BY <1>1, <1>2, WonOfVisits
  <2>. QED
    BY <1>4, <2>1, LifeVisits
<1>6. Taken' = Taken
  BY <1>4 DEF Taken
<1>7. \A m \in Guardable : m \in Nodes
  BY DEF Guardable
<1>8. pool \in [Nodes -> Nat]
  BY DEF OwnInv, IInv, TypeOK
<1>9. CASE n \in Guardable
  <2>1. At(n, "stack", g, k)
    BY <1>2 DEF At
  <2>2. /\ n \notin fresh /\ pool[n] = 0
        /\ \A h \in Goroutines : taking[h] # n /\ n \notin Won(stack[h])
    BY <1>1, <1>2, <1>4, <1>9, <2>1, WinnerIsAlone
  <2>3. Pooled' = [Pooled EXCEPT ![n] = 1]
    <3>1. \A m \in Guardable : pool'[m] = IF m = n THEN 1 ELSE pool[m]
      BY <1>4, <1>7, <1>8, <2>2
    <3>2. Pooled' = [m \in Guardable |-> IF m = n THEN 1 ELSE pool[m]]
      BY <3>1 DEF Pooled
    <3>. QED
      BY <1>9, <3>2 DEF Pooled
  <2>4. Lifecycle!Live(n)
    BY <1>9, <2>2 DEF Lifecycle!Live
  <2>5. Lifecycle!ClosePooled(n)
    BY <1>4, <1>5, <1>6, <2>3, <2>4 DEF Lifecycle!ClosePooled, WonOf, Taken, Pooled
  <2>. QED
    BY <1>9, <2>5 DEF Lifecycle!Next
<1>10. CASE n \notin Guardable
  <2>1. \A m \in Guardable : pool'[m] = pool[m]
    BY <1>4, <1>7, <1>8, <1>10
  <2>2. Pooled' = Pooled
    BY <2>1 DEF Pooled
  <2>. QED
    BY <1>4, <1>5, <1>6, <2>2, LifeIs
<1>. QED
  BY <1>9, <1>10

(* A typed Put that wins the guard has a node more to pool. *)
LEMMA LifeReleaseChildren ==
    ASSUME OwnInv, NEW g \in Goroutines, ReleaseChildren(g)
    PROVE  [Lifecycle!Next]_(Lifecycle!vars)
<1>1. stack[g] # <<>> /\ Top(stack[g]).todo = "visit"
  BY DEF ReleaseChildren, Next2Do
<1>2. PICK k \in Nat, n \in Nodes, r \in Seq(Entry), todo \in {"visit", "reset", "mark"} :
          /\ r = Rest(stack[g]) /\ n = Top(stack[g]).node /\ todo = Top(stack[g]).todo
          /\ k \in DOMAIN stack[g] /\ stack[g][k].node = n /\ stack[g][k].todo = todo
          /\ \A i \in DOMAIN r : i \in DOMAIN stack[g] /\ i # k /\ stack[g][i] = r[i]
          /\ Won(stack[g]) = Won(r) \cup (IF todo = "visit" THEN {} ELSE {n})
  BY <1>1, TopOfWalk
<1>3. PICK ns \in Seq(Nodes) : ns = children[n]
  BY DEF OwnInv, IInv, TypeOK
<1>4. PICK e \in Entry : e = ToReset(n) /\ e.node = n /\ e.todo = "reset"
  <2>1. ToReset(n) \in Entry /\ ToReset(n).node = n /\ ToReset(n).todo = "reset"
    BY DEF ToReset, Entry
  <2>. QED
    BY <2>1
<1>5. PICK s : s = Append(r, e) \o VisitAll(ns)
  OBVIOUS
<1>6. /\ ~released[n] /\ stack' = [stack EXCEPT ![g] = s] /\ UNCHANGED <<fresh, pool, taking>>
  BY <1>2, <1>3, <1>4, <1>5 DEF ReleaseChildren
<1>7. Won(s) = Won(stack[g]) \cup {n}
  <2>1. Append(r, e) \in Seq(Entry) /\ Won(Append(r, e)) = Won(r) \cup {n}
    BY <1>4, WonOfOne, PushType
  <2>2. Won(s) = Won(Append(r, e))
    BY <1>5, <2>1, WonOfVisits
  <2>. QED
    BY <1>1, <1>2, <2>1, <2>2
<1>8. Taken' = Taken /\ Pooled' = Pooled
  BY <1>6 DEF Taken, Pooled
<1>9. \A h \in Goroutines : Won(stack'[h]) = IF h = g THEN Won(stack[g]) \cup {n} ELSE Won(stack[h])
  BY <1>6, <1>7 DEF OwnInv, IInv, TypeOK
<1>10. CASE n \in Guardable
  <2>1. At(n, "stack", g, k)
    BY <1>2 DEF At
  <2>2. /\ n \notin fresh /\ pool[n] = 0
        /\ \A h \in Goroutines : taking[h] # n /\ n \notin Won(stack[h])
    BY <1>1, <1>2, <1>6, <1>10, <2>1, WinnerIsAlone
  <2>3. WonOf' = [WonOf EXCEPT ![g] = @ \cup {n}]
    BY <1>9, <1>10 DEF WonOf
  <2>4. Lifecycle!Live(n)
    BY <1>10, <2>2 DEF Lifecycle!Live
  <2>5. Lifecycle!Close(g, n)
    BY <1>6, <1>8, <2>3, <2>4 DEF Lifecycle!Close, WonOf, Taken, Pooled
  <2>. QED
    BY <1>10, <2>5 DEF Lifecycle!Next
<1>11. CASE n \notin Guardable
  <2>1. \A h \in Goroutines : Won(stack'[h]) \cap Guardable = Won(stack[h]) \cap Guardable
    BY <1>9, <1>11
  <2>2. WonOf' = WonOf
    BY <2>1 DEF WonOf
  <2>. QED
    BY <1>6, <2>2, LifeStutters
<1>. QED
  BY <1>10, <1>11

(* The whole-struct reset keeps the node among those to pool. *)
LEMMA LifeWipe ==
    ASSUME OwnInv, NEW g \in Goroutines, WipeStatement(g)
    PROVE  [Lifecycle!Next]_(Lifecycle!vars)
<1>1. stack[g] # <<>> /\ Top(stack[g]).todo = "reset"
  BY DEF WipeStatement, Next2Do
<1>2. PICK k \in Nat, n \in Nodes, r \in Seq(Entry), todo \in {"visit", "reset", "mark"} :
          /\ r = Rest(stack[g]) /\ n = Top(stack[g]).node /\ todo = Top(stack[g]).todo
          /\ k \in DOMAIN stack[g] /\ stack[g][k].node = n /\ stack[g][k].todo = todo
          /\ \A i \in DOMAIN r : i \in DOMAIN stack[g] /\ i # k /\ stack[g][i] = r[i]
          /\ Won(stack[g]) = Won(r) \cup (IF todo = "visit" THEN {} ELSE {n})
  BY <1>1, TopOfWalk
<1>3. PICK e \in Entry : e = ToMark(n) /\ e.node = n /\ e.todo = "mark"
  <2>1. ToMark(n) \in Entry /\ ToMark(n).node = n /\ ToMark(n).todo = "mark"
    BY DEF ToMark, Entry
  <2>. QED
    BY <2>1
<1>4. stack' = [stack EXCEPT ![g] = Append(r, e)] /\ UNCHANGED <<fresh, pool, taking>>
  BY <1>2, <1>3 DEF WipeStatement
<1>5. Won(Append(r, e)) = Won(stack[g])
  BY <1>1, <1>2, <1>3, WonOfOne
<1>. QED
  BY <1>4, <1>5, LifeVisits, LifeStutters

(* The winner pools its node. *)
LEMMA LifePut ==
    ASSUME OwnInv, NEW g \in Goroutines, PoolStatement(g) \/ PoolWiped(g)
    PROVE  [Lifecycle!Next]_(Lifecycle!vars)
<1>1. stack[g] # <<>> /\ Top(stack[g]).todo # "visit"
  BY DEF PoolStatement, PoolWiped, Next2Do
<1>2. PICK k \in Nat, n \in Nodes, r \in Seq(Entry), todo \in {"visit", "reset", "mark"} :
          /\ r = Rest(stack[g]) /\ n = Top(stack[g]).node /\ todo = Top(stack[g]).todo
          /\ k \in DOMAIN stack[g] /\ stack[g][k].node = n /\ stack[g][k].todo = todo
          /\ \A i \in DOMAIN r : i \in DOMAIN stack[g] /\ i # k /\ stack[g][i] = r[i]
          /\ Won(stack[g]) = Won(r) \cup (IF todo = "visit" THEN {} ELSE {n})
  BY <1>1, TopOfWalk
<1>3. /\ stack' = [stack EXCEPT ![g] = r] /\ pool' = [pool EXCEPT ![n] = @ + 1]
      /\ UNCHANGED <<fresh, taking>>
  BY <1>2 DEF PoolStatement, PoolWiped
<1>4. Won(stack[g]) = Won(r) \cup {n}
  BY <1>1, <1>2
<1>5. \A h \in Goroutines : stack'[h] = IF h = g THEN r ELSE stack[h]
  BY <1>3 DEF OwnInv, IInv, TypeOK
<1>6. Taken' = Taken
  BY <1>3 DEF Taken
<1>7. \A m \in Guardable : m \in Nodes
  BY DEF Guardable
<1>8. pool \in [Nodes -> Nat]
  BY DEF OwnInv, IInv, TypeOK
<1>9. CASE n \in Guardable
  <2>1. Holds(g, k, n)
    BY <1>1, <1>2 DEF Holds
  <2>2. pool[n] = 0 /\ \A i \in Nat : Holds(g, i, n) => i = k
    BY <1>9, <2>1, WonOnce
  <2>3. n \notin Won(r)
    <3>1. SUFFICES ASSUME NEW i \in DOMAIN r, r[i].todo # "visit", r[i].node = n PROVE FALSE
      BY DEF Won
    <3>2. Holds(g, i, n) /\ i # k /\ i \in Nat
      BY <1>2, <3>1 DEF Holds
    <3>. QED
      BY <2>2, <3>2
  <2>4. Won(r) = Won(stack[g]) \ {n}
    BY <1>4, <2>3
  <2>5. WonOf' = [WonOf EXCEPT ![g] = @ \ {n}]
    <3>1. \A h \in Goroutines : Won(stack'[h]) = IF h = g THEN Won(stack[g]) \ {n} ELSE Won(stack[h])
      BY <1>5, <2>4
    <3>. QED
      BY <3>1 DEF WonOf
  <2>6. Pooled' = [Pooled EXCEPT ![n] = 1]
    <3>1. \A m \in Guardable : pool'[m] = IF m = n THEN 1 ELSE pool[m]
      BY <1>3, <1>7, <1>8, <2>2
    <3>2. Pooled' = [m \in Guardable |-> IF m = n THEN 1 ELSE pool[m]]
      BY <3>1 DEF Pooled
    <3>. QED
      BY <1>9, <3>2 DEF Pooled
  <2>7. n \in WonOf[g] /\ Pooled[n] = 0
    BY <1>4, <1>9, <2>2 DEF WonOf, Pooled
  <2>8. Lifecycle!Put(g, n)
    BY <1>3, <1>6, <2>5, <2>6, <2>7 DEF Lifecycle!Put, WonOf, Taken, Pooled
  <2>. QED
    BY <1>9, <2>8 DEF Lifecycle!Next
<1>10. CASE n \notin Guardable
  <2>1. \A m \in Guardable : pool'[m] = pool[m]
    BY <1>3, <1>7, <1>8, <1>10
  <2>2. Pooled' = Pooled
    BY <2>1 DEF Pooled
  <2>3. \A h \in Goroutines : Won(stack'[h]) \cap Guardable = Won(stack[h]) \cap Guardable
    BY <1>4, <1>5, <1>10
  <2>4. WonOf' = WonOf
    BY <2>3 DEF WonOf
  <2>. QED
    BY <1>3, <1>6, <2>2, <2>4, LifeIs
<1>. QED
  BY <1>9, <1>10

LEMMA LifeStep == OwnInv /\ [Next]_vars => [Lifecycle!Next]_(Lifecycle!vars)
<1>1. ASSUME OwnInv, NEW g \in Goroutines, NEW p \in Nodes, NEW c \in Nodes, Attach(g, p, c) \/ AttachAndKeep(g, p, c)
      PROVE  UNCHANGED Lifecycle!vars
  BY <1>1, LifeBuild DEF Attach, AttachAndKeep
<1>2. ASSUME OwnInv, NEW g \in Goroutines, NEW h \in Goroutines, NEW n \in Nodes, Alias(g, h, n)
      PROVE  UNCHANGED Lifecycle!vars
  BY <1>2, LifeBuild DEF Alias
<1>3. ASSUME OwnInv, NEW g \in Goroutines, ReleaseStep(g)
      PROVE  [Lifecycle!Next]_(Lifecycle!vars)
  BY <1>3, LifeRefuse, LifePoolExpression, LifeReleaseChildren, LifePut, LifeWipe DEF ReleaseStep
<1>4. ASSUME UNCHANGED vars PROVE UNCHANGED Lifecycle!vars
  BY <1>4, LifeBuild DEF vars
<1>. QED
  BY <1>1, <1>2, <1>3, <1>4, LifeAllocate, LifeTakeFromPool, LifeRelease, LifeReArm DEF Next

(* The pools, the guard and the releases of any number of goroutines, which
   share nodes as they like, implement the life of a node: between two
   releases that pool it one Get has made it ready, and no two goroutines get
   it or pool it. *)
THEOREM PoolsImplementTheLifecycle == Spec => ImplementsLifecycle
BY InitOwnInv, NextOwnInv, LifeStarts, LifeStep, PTL DEF Spec, ImplementsLifecycle, Lifecycle!Spec
=============================================================================
