--------------------------- MODULE AstDrainProofs ---------------------------
(***************************************************************************)
(* The release of an expression tree, for any tree, any cap of the work    *)
(* queue and any depth of the drain: every node is released once, within   *)
(* the documented depth, and the overflow is counted as it should be.      *)
(***************************************************************************)
EXTENDS AstDrain, SequenceLemmas

Queue(i) == calls[i].workQueue
InQueue(m) == \E i \in 1..Len(calls) : \E a \in 1..Len(Queue(i)) : Queue(i)[a] = m

ChildOf(m, n) == m \in Nodes /\ n \in Nodes /\ Before(n) < m /\ m <= lastChild[n]

(* Queued at one time or another: the root, and the children of what is released. *)
Reached(m) == m = 1 \/ \E n \in released : ChildOf(m, n)

TreeOK == size \in 1..MaxNodes /\ lastChild \in Trees(size) /\ released \subseteq Nodes /\ leaks \in Nat

(* A call drains when it has met the cap, and only the last call does not drain. *)
CallsOK ==
    /\ calls \in Seq([workQueue : Seq(Nodes), processed : 0..MaxWorkQueueSize, draining : BOOLEAN])
    /\ \A i \in 1..Len(calls) :
         /\ i < Len(calls) => calls[i].draining
         /\ calls[i].draining => calls[i].processed = MaxWorkQueueSize
         /\ calls[i].processed = 0 => Len(Queue(i)) = 1

ReachedOK == \A m \in Nodes : (m \in released \/ InQueue(m)) => Reached(m)

(* Nothing is lost but where the drain is cut off. *)
SpreadOK ==
    leaks = 0 \/ size <= MaxWorkQueueSize * (MaxCleanupDepth + 1) =>
        \A m \in Nodes : Reached(m) => m \in released \/ InQueue(m)

(* What the calls have popped. *)
CountOK ==
    calls # <<>> =>
        Cardinality(released) >= MaxWorkQueueSize * (Len(calls) - 1) + calls[Len(calls)].processed

(* Before the first overflow there is one call. *)
FirstOK ==
    leaks = 0 =>
        /\ Len(calls) <= 1 /\ Cardinality(released) <= MaxWorkQueueSize
        /\ \A i \in 1..Len(calls) : ~calls[i].draining /\ calls[i].processed = Cardinality(released)

(* S are the nodes that were counted as left over, T those the first call popped. *)
LeftOver(S, T) ==
    /\ S \subseteq Nodes /\ T \subseteq released /\ S \cap T = {} /\ Cardinality(S) = leaks
    /\ leaks > 0 => Cardinality(T) = MaxWorkQueueSize
    /\ \A m \in S : Reached(m)
    /\ \A i \in 1..Len(calls) : ~calls[i].draining /\ calls[i].processed > 0 =>
         \A a \in 1..Len(Queue(i)) : Queue(i)[a] \notin S

LeaksOK == \E S, T \in SUBSET Nodes : LeftOver(S, T)

DrainInv ==
    TreeOK /\ CallsOK /\ ReleasedAtMostOnce /\ ReachedOK /\ SpreadOK /\ CountOK /\ FirstOK /\ LeaksOK

-----------------------------------------------------------------------------
(* The tree *)

LEMMA TreeFacts ==
    ASSUME TreeOK
    PROVE  /\ size \in Nat \ {0} /\ Nodes = 1..size /\ 1 \in Nodes
           /\ MaxWorkQueueSize \in Nat \ {0} /\ MaxCleanupDepth \in Nat
           /\ IsFiniteSet(Nodes) /\ Cardinality(Nodes) = size
           /\ IsFiniteSet(released) /\ Cardinality(released) \in Nat /\ Cardinality(released) <= size
           /\ \A n \in Nodes : /\ lastChild[n] \in Nodes /\ Before(n) \in Nodes
                               /\ n <= Before(n) /\ Before(n) <= lastChild[n]
<1>1. size \in Nat \ {0} /\ Nodes = 1..size /\ 1 \in Nodes
  BY SizeAssumption DEF TreeOK, Nodes
<1>2. IsFiniteSet(Nodes) /\ Cardinality(Nodes) = size
  BY <1>1, FS_Interval
<1>3. IsFiniteSet(released) /\ Cardinality(released) \in Nat /\ Cardinality(released) <= size
  BY <1>2, FS_Subset, FS_CardinalityType DEF TreeOK
<1>4. /\ lastChild \in [Nodes -> Nodes]
      /\ \A n \in Nodes : n < size => n < lastChild[n]
      /\ \A m, n \in Nodes : m <= n => lastChild[m] <= lastChild[n]
  BY <1>1 DEF TreeOK, Trees
<1>5. ASSUME NEW n \in Nodes
      PROVE  lastChild[n] \in Nodes /\ Before(n) \in Nodes /\ n <= Before(n) /\ Before(n) <= lastChild[n]
  <2>1. CASE n = 1
    BY <1>1, <1>4, <2>1 DEF Before
  <2>2. CASE n # 1
    <3>1. n - 1 \in Nodes /\ n - 1 < size /\ n - 1 <= n /\ Before(n) = lastChild[n - 1]
      BY <1>1, <2>2 DEF Before
    <3>2. n - 1 < lastChild[n - 1] /\ lastChild[n - 1] <= lastChild[n] /\ lastChild[n - 1] \in Nodes /\ lastChild[n] \in Nodes
      BY <1>4, <3>1
    <3>. QED
      BY <1>1, <3>1, <3>2
  <2>. QED
    BY <2>1, <2>2
<1>. QED
  BY <1>1, <1>2, <1>3, <1>5, SizeAssumption

LEMMA OneParent ==
    ASSUME TreeOK, NEW m, NEW n, ChildOf(m, n)
    PROVE  m \in Nodes /\ n \in Nodes /\ n < m /\ m # 1 /\ \A k : ChildOf(m, k) => k = n
<1>1. m \in Nodes /\ n \in Nodes /\ Before(n) < m /\ m <= lastChild[n] /\ Nodes = 1..size /\ size \in Nat
  BY TreeFacts DEF ChildOf
<1>2. n < m /\ m # 1
  BY <1>1, TreeFacts
<1>3. ASSUME NEW k, ChildOf(m, k) PROVE k = n
  <2>1. k \in Nodes /\ Before(k) < m /\ m <= lastChild[k]
    BY <1>3 DEF ChildOf
  <2>2. \A x, y \in Nodes : x < y => lastChild[x] <= Before(y)
    <3>1. SUFFICES ASSUME NEW x \in Nodes, NEW y \in Nodes, x < y PROVE lastChild[x] <= Before(y)
      OBVIOUS
    <3>2. y # 1 /\ x <= y - 1 /\ y - 1 \in 1..size /\ x \in 1..size
      BY <1>1, <3>1
    <3>3. lastChild[x] <= lastChild[y - 1]
      BY <3>2 DEF TreeOK, Trees
    <3>. QED
      BY <3>2, <3>3 DEF Before
  <2>3. /\ lastChild[n] \in Nat /\ lastChild[k] \in Nat /\ Before(n) \in Nat /\ Before(k) \in Nat
        /\ k \in Nat /\ n \in Nat /\ m \in Nat
    <3>1. /\ lastChild[n] \in Nodes /\ Before(n) \in Nodes
          /\ lastChild[k] \in Nodes /\ Before(k) \in Nodes
      BY <1>1, <2>1, TreeFacts
    <3>. QED
      BY <1>1, <2>1, <3>1
  <2>4. ~(k < n)
    BY <1>1, <2>1, <2>2, <2>3
  <2>5. ~(n < k)
    BY <1>1, <2>1, <2>2, <2>3
  <2>. QED
    BY <2>3, <2>4, <2>5
<1>. QED
  BY <1>1, <1>2, <1>3

LEMMA HasParent ==
    ASSUME TreeOK, NEW m \in Nodes, m # 1
    PROVE  \E n \in Nodes : ChildOf(m, n)
<1>1. Nodes = 1..size /\ size \in Nat /\ \A n \in Nodes : lastChild[n] \in Nodes
  BY TreeFacts
<1>. DEFINE S == {n \in Nodes : m <= lastChild[n]}
<1>2. m - 1 \in S
  <2>1. m - 1 \in 1..size /\ m - 1 < size
    BY <1>1
  <2>2. m - 1 < lastChild[m - 1]
    BY <2>1 DEF TreeOK, Trees
  <2>. QED
    BY <1>1, <2>1, <2>2
<1>3. PICK n \in S : \A k \in S : n <= k
  <2>1. S \in SUBSET Nat /\ S # {}
    BY <1>1, <1>2
  <2>. QED
    BY <2>1, LeastNatural
<1>4. Before(n) < m
  <2>1. CASE n = 1
    BY <1>1, <2>1 DEF Before
  <2>2. CASE n # 1
    <3>1. n - 1 \in Nodes /\ n - 1 \notin S
      BY <1>1, <1>3, <2>2
    <3>2. ~(m <= lastChild[n - 1]) /\ lastChild[n - 1] \in Nat /\ m \in Nat
      BY <1>1, <3>1
    <3>. QED
      BY <2>2, <3>2 DEF Before
  <2>. QED
    BY <2>1, <2>2
<1>. QED
  BY <1>3, <1>4 DEF ChildOf

(* What holds the root and the children of its members is the tree. *)
LEMMA TreeIsConnected ==
    ASSUME TreeOK, 1 \in released, \A n \in released : \A m \in Nodes : ChildOf(m, n) => m \in released
    PROVE  released = Nodes
<1>1. Nodes = 1..size /\ size \in Nat /\ released \subseteq Nodes
  BY TreeFacts DEF TreeOK
<1>2. SUFFICES ASSUME Nodes \ released # {} PROVE FALSE
  BY <1>1
<1>3. PICK m \in Nodes \ released : \A k \in Nodes \ released : m <= k
  <2>1. Nodes \ released \in SUBSET Nat
    BY <1>1
  <2>. QED
    BY <1>2, <2>1, LeastNatural
<1>4. PICK n \in Nodes : ChildOf(m, n)
  BY <1>3, HasParent
<1>5. n < m /\ m \in Nat /\ n \in Nat
  BY <1>1, <1>4, OneParent
<1>6. n \in released
  BY <1>3, <1>5
<1>. QED
  BY <1>3, <1>4, <1>6

LEMMA ChildrenFacts ==
    ASSUME TreeOK, NEW n \in Nodes
    PROVE  /\ Children(n) \in Seq(Nodes) /\ Len(Children(n)) = lastChild[n] - Before(n)
           /\ lastChild[n] - Before(n) \in Nat
           /\ \A i \in 1..lastChild[n] - Before(n) : Children(n)[i] = Before(n) + i /\ ChildOf(Before(n) + i, n)
<1>1. /\ lastChild[n] \in Nodes /\ Before(n) \in Nodes /\ Before(n) <= lastChild[n]
      /\ Nodes = 1..size /\ size \in Nat
  BY TreeFacts
<1>2. PICK k : k = lastChild[n] - Before(n)
  OBVIOUS
<1>3. k \in Nat /\ \A i \in 1..k : Before(n) + i \in Nodes /\ Before(n) < Before(n) + i /\ Before(n) + i <= lastChild[n]
  BY <1>1, <1>2
<1>4. Children(n) = [i \in 1..k |-> Before(n) + i]
  BY <1>2 DEF Children
<1>5. Children(n) \in Seq(Nodes) /\ Len(Children(n)) = k /\ \A i \in 1..k : Children(n)[i] = Before(n) + i
  <2>1. PICK e : e = [i \in 1..k |-> Before(n) + i]
    OBVIOUS
  <2>2. e \in Seq(Nodes) /\ Len(e) = k /\ \A i \in 1..k : e[i] = Before(n) + i
    BY <1>3, <2>1
  <2>. QED
    BY <1>4, <2>1, <2>2
<1>6. \A i \in 1..k : ChildOf(Before(n) + i, n)
  BY <1>3 DEF ChildOf
<1>. QED
  BY <1>2, <1>3, <1>5, <1>6

LEMMA SameTree ==
    ASSUME UNCHANGED <<size, lastChild>>
    PROVE  /\ Nodes' = Nodes /\ \A n : Before(n)' = Before(n)
           /\ \A m, n : ChildOf(m, n)' <=> ChildOf(m, n)
           /\ Trees(size)' = Trees(size)
BY DEF Nodes, Before, ChildOf, Trees

-----------------------------------------------------------------------------
(* What a state of the invariant looks like *)

CallType == [workQueue : Seq(Nodes), processed : 0..MaxWorkQueueSize, draining : BOOLEAN]

LEMMA CallFacts ==
    ASSUME DrainInv
    PROVE  /\ calls \in Seq(CallType) /\ Len(calls) \in Nat
           /\ \A i \in 1..Len(calls) :
                /\ calls[i] \in CallType /\ Queue(i) \in Seq(Nodes) /\ Len(Queue(i)) \in Nat
                /\ calls[i].processed \in Nat /\ calls[i].processed <= MaxWorkQueueSize
                /\ i < Len(calls) => calls[i].draining
                /\ calls[i].draining => calls[i].processed = MaxWorkQueueSize
                /\ calls[i].processed = 0 => Len(Queue(i)) = 1
           /\ \A m : InQueue(m) => m \in Nodes /\ m \notin released
           /\ TreeOK
<1>1. calls \in Seq(CallType) /\ TreeOK /\ MaxWorkQueueSize \in Nat \ {0}
  BY SizeAssumption DEF DrainInv, CallsOK, CallType
<1>2. Len(calls) \in Nat /\ \A i \in 1..Len(calls) : calls[i] \in CallType
  BY <1>1
<1>3. ASSUME NEW i \in 1..Len(calls)
      PROVE  /\ Queue(i) \in Seq(Nodes) /\ Len(Queue(i)) \in Nat
             /\ calls[i].processed \in Nat /\ calls[i].processed <= MaxWorkQueueSize
  BY <1>1, <1>2 DEF CallType, Queue
<1>4. \A i \in 1..Len(calls) :
        /\ i < Len(calls) => calls[i].draining
        /\ calls[i].draining => calls[i].processed = MaxWorkQueueSize
        /\ calls[i].processed = 0 => Len(Queue(i)) = 1
  BY DEF DrainInv, CallsOK
<1>5. ASSUME NEW m, InQueue(m) PROVE m \in Nodes /\ m \notin released
  <2>0. PICK i \in 1..Len(calls) : \E a \in 1..Len(Queue(i)) : Queue(i)[a] = m
    BY <1>5 DEF InQueue
  <2>1. PICK a \in 1..Len(Queue(i)) : Queue(i)[a] = m
    BY <2>0
  <2>2. m \in Nodes
    BY <1>3, <2>1
  <2>3. i \in DOMAIN calls /\ a \in DOMAIN calls[i].workQueue /\ calls[i].workQueue[a] = m
    BY <1>1, <1>3, <2>1 DEF Queue
  <2>. QED
    BY <2>2, <2>3 DEF DrainInv, ReleasedAtMostOnce
<1>. QED
  BY <1>1, <1>2, <1>3, <1>4, <1>5

(* Two places with one node are the same place. *)
LEMMA OnePlace ==
    ASSUME DrainInv, NEW i \in 1..Len(calls), NEW j \in 1..Len(calls),
           NEW a \in 1..Len(Queue(i)), NEW b \in 1..Len(Queue(j)), Queue(i)[a] = Queue(j)[b]
    PROVE  i = j /\ a = b
<1>1. /\ i \in DOMAIN calls /\ a \in DOMAIN calls[i].workQueue
      /\ j \in DOMAIN calls /\ b \in DOMAIN calls[j].workQueue
      /\ calls[i].workQueue[a] = calls[j].workQueue[b]
  BY CallFacts DEF Queue
<1>. QED
  BY <1>1 DEF DrainInv, ReleasedAtMostOnce

(* ReleasedAtMostOnce is about places. *)
LEMMA PlacesSuffice ==
    ASSUME calls' \in Seq(CallType'),
           \A i \in 1..Len(calls') : \A a \in 1..Len(Queue(i)') : Queue(i)'[a] \notin released',
           \A i, j \in 1..Len(calls') : \A a \in 1..Len(Queue(i)'), b \in 1..Len(Queue(j)') :
               Queue(i)'[a] = Queue(j)'[b] => i = j /\ a = b
    PROVE  ReleasedAtMostOnce'
<1>1. DOMAIN calls' = 1..Len(calls') /\ \A i \in 1..Len(calls') : calls'[i] \in CallType'
  OBVIOUS
<1>2. \A i \in 1..Len(calls') : Queue(i)' = calls'[i].workQueue /\ DOMAIN Queue(i)' = 1..Len(Queue(i)')
  BY <1>1 DEF CallType, Queue
<1>3. ASSUME NEW i \in DOMAIN calls', NEW j \in DOMAIN calls',
             NEW a \in DOMAIN calls'[i].workQueue, NEW b \in DOMAIN calls'[j].workQueue
      PROVE  /\ calls'[i].workQueue[a] \notin released'
             /\ calls'[i].workQueue[a] = calls'[j].workQueue[b] => i = j /\ a = b
  <2>1. /\ i \in 1..Len(calls') /\ a \in 1..Len(Queue(i)') /\ calls'[i].workQueue[a] = Queue(i)'[a]
        /\ j \in 1..Len(calls') /\ b \in 1..Len(Queue(j)') /\ calls'[j].workQueue[b] = Queue(j)'[b]
    BY <1>1, <1>2
  <2>. QED
    BY <2>1
<1>. QED
  BY <1>3 DEF ReleasedAtMostOnce

(* Steps that only move nodes from queue to queue. *)
LEMMA QueuesShift ==
    ASSUME DrainInv, UNCHANGED <<size, lastChild, released>>, leaks' \in Nat,
           \A m : InQueue(m)' <=> InQueue(m),
           leaks' = 0 => leaks = 0
    PROVE  TreeOK' /\ ReachedOK' /\ SpreadOK'
<1>1. Nodes' = Nodes /\ (\A m, n : ChildOf(m, n)' <=> ChildOf(m, n)) /\ Trees(size)' = Trees(size)
  BY SameTree
<1>2. released' = released /\ size' = size /\ lastChild' = lastChild
  OBVIOUS
<1>3. \A m : Reached(m)' <=> Reached(m)
  BY <1>1, <1>2 DEF Reached
<1>4. TreeOK'
  BY <1>1, <1>2 DEF DrainInv, TreeOK
<1>5. ReachedOK'
  BY <1>1, <1>2, <1>3 DEF DrainInv, ReachedOK
<1>6. SpreadOK'
  BY <1>1, <1>2, <1>3 DEF DrainInv, SpreadOK
<1>. QED
  BY <1>4, <1>5, <1>6

LEMMA Product == \A w \in Nat : \A k \in Nat : w * k \in Nat /\ w * (k + 1) = w * k + w
OBVIOUS

(* The last call returns. *)
LEMMA CallReturns ==
    ASSUME DrainInv, calls # <<>>, calls' = Front(calls), UNCHANGED <<size, released>>
    PROVE  /\ Len(calls') = Len(calls) - 1 /\ Len(calls) \in Nat \ {0}
           /\ \A i \in 1..Len(calls) - 1 : calls'[i] = calls[i] /\ Queue(i)' = Queue(i)
           /\ calls' \in Seq(CallType') /\ CallsOK' /\ CountOK' /\ ReleasedAtMostOnce'
           /\ \A i \in 1..Len(calls') : calls'[i].draining
<1>1. calls \in Seq(CallType) /\ Nodes' = Nodes /\ CallType' = CallType
  BY CallFacts DEF Nodes, CallType
<1>2. /\ Len(calls') = Len(calls) - 1 /\ Len(calls) \in Nat \ {0} /\ calls' \in Seq(CallType)
      /\ \A i \in 1..Len(calls) - 1 : calls'[i] = calls[i]
  BY <1>1, FrontFacts
<1>3. \A i \in 1..Len(calls) - 1 : Queue(i)' = Queue(i)
  BY <1>2 DEF Queue
<1>4. ASSUME NEW i \in 1..Len(calls')
      PROVE  /\ i \in 1..Len(calls) /\ i < Len(calls) /\ calls'[i] = calls[i] /\ Queue(i)' = Queue(i)
             /\ calls'[i].draining /\ calls'[i].processed = MaxWorkQueueSize
  BY <1>2, <1>3, CallFacts
<1>5. CallsOK'
  <2>1. MaxWorkQueueSize # 0
    BY SizeAssumption
  <2>2. ASSUME NEW i \in 1..Len(calls')
        PROVE  /\ i < Len(calls') => calls'[i].draining
               /\ calls'[i].draining => calls'[i].processed = MaxWorkQueueSize
               /\ calls'[i].processed = 0 => Len(Queue(i)') = 1
    BY <1>4, <2>1
  <2>. QED
    BY <1>1, <1>2, <2>2 DEF CallsOK, CallType
<1>6. CountOK'
  <2>1. SUFFICES ASSUME calls' # <<>>
                 PROVE  Cardinality(released') >= MaxWorkQueueSize * (Len(calls') - 1) + calls'[Len(calls')].processed
    BY DEF CountOK
  <2>2. Len(calls') \in Nat \ {0}
    BY <1>1, <1>2, <2>1, EmptySeq
  <2>3. calls'[Len(calls')].processed = MaxWorkQueueSize
    BY <1>4, <2>2
  <2>4. PICK k : k = Len(calls') - 1
    OBVIOUS
  <2>5. k \in Nat /\ Len(calls) - 1 = k + 1
    BY <1>2, <2>2, <2>4
  <2>6. Cardinality(released) >= MaxWorkQueueSize * (k + 1) + calls[Len(calls)].processed
    BY <2>5 DEF DrainInv, CountOK
  <2>7. /\ MaxWorkQueueSize \in Nat /\ Cardinality(released) \in Nat /\ calls[Len(calls)].processed \in Nat
    BY <1>2, CallFacts, TreeFacts
  <2>8. /\ MaxWorkQueueSize * k \in Nat /\ MaxWorkQueueSize * (k + 1) = MaxWorkQueueSize * k + MaxWorkQueueSize
    BY <2>5, <2>7, Product
  <2>9. Cardinality(released) >= MaxWorkQueueSize * k + MaxWorkQueueSize
    BY <2>6, <2>7, <2>8
  <2>. QED
    BY <2>3, <2>4, <2>9
<1>7. ReleasedAtMostOnce'
  <2>1. ASSUME NEW i \in 1..Len(calls'), NEW a \in 1..Len(Queue(i)')
        PROVE  Queue(i)'[a] \notin released'
    <3>1. i \in 1..Len(calls) /\ a \in 1..Len(Queue(i)) /\ Queue(i)'[a] = Queue(i)[a]
      BY <1>4
    <3>2. InQueue(Queue(i)[a])
      BY <3>1 DEF InQueue
    <3>. QED
      BY <3>1, <3>2, CallFacts
  <2>2. ASSUME NEW i \in 1..Len(calls'), NEW j \in 1..Len(calls'),
               NEW a \in 1..Len(Queue(i)'), NEW b \in 1..Len(Queue(j)'), Queue(i)'[a] = Queue(j)'[b]
        PROVE  i = j /\ a = b
    <3>1. /\ i \in 1..Len(calls) /\ a \in 1..Len(Queue(i)) /\ Queue(i)'[a] = Queue(i)[a]
          /\ j \in 1..Len(calls) /\ b \in 1..Len(Queue(j)) /\ Queue(j)'[b] = Queue(j)[b]
      BY <1>4
    <3>2. Queue(i)[a] = Queue(j)[b]
      BY <2>2, <3>1
    <3>. QED
      BY <3>1, <3>2, OnePlace
  <2>3. \A i, j \in 1..Len(calls') : \A a \in 1..Len(Queue(i)'), b \in 1..Len(Queue(j)') :
            Queue(i)'[a] = Queue(j)'[b] => i = j /\ a = b
    BY <2>2
  <2>4. \A i \in 1..Len(calls') : \A a \in 1..Len(Queue(i)') : Queue(i)'[a] \notin released'
    BY <2>1
  <2>. QED
    BY <1>1, <1>2, <2>3, <2>4, PlacesSuffice
<1>. QED
  BY <1>1, <1>2, <1>3, <1>4, <1>5, <1>6, <1>7

LEMMA ReturnInv == ASSUME DrainInv, Return PROVE DrainInv'
<1>1. /\ calls # <<>> /\ Current.workQueue = <<>> /\ calls' = Front(calls)
      /\ UNCHANGED <<size, lastChild, released, leaks>>
  BY DEF Return
<1>2. /\ Len(calls') = Len(calls) - 1 /\ Len(calls) \in Nat \ {0}
      /\ \A i \in 1..Len(calls) - 1 : calls'[i] = calls[i] /\ Queue(i)' = Queue(i)
      /\ CallsOK' /\ CountOK' /\ ReleasedAtMostOnce' /\ \A i \in 1..Len(calls') : calls'[i].draining
  BY <1>1, CallReturns
<1>3. Len(Queue(Len(calls))) = 0
  BY <1>1 DEF Queue, Current
<1>4. \A m : InQueue(m)' <=> InQueue(m)
  <2>1. ASSUME NEW m, InQueue(m)' PROVE InQueue(m)
    BY <1>2, <2>1 DEF InQueue
  <2>2. ASSUME NEW m, InQueue(m) PROVE InQueue(m)'
    <3>0. PICK i \in 1..Len(calls) : \E a \in 1..Len(Queue(i)) : Queue(i)[a] = m
      BY <2>2 DEF InQueue
    <3>1. PICK a \in 1..Len(Queue(i)) : Queue(i)[a] = m
      BY <3>0
    <3>2. i # Len(calls)
      BY <1>3, <3>1
    <3>3. i \in 1..Len(calls') /\ Queue(i)' = Queue(i)
      BY <1>2, <3>2
    <3>. QED
      BY <3>1, <3>3 DEF InQueue
  <2>. QED
    BY <2>1, <2>2
<1>5. TreeOK' /\ ReachedOK' /\ SpreadOK'
  <2>1. leaks' \in Nat /\ leaks' = leaks
    BY <1>1 DEF DrainInv, TreeOK
  <2>. QED
    BY <1>1, <1>4, <2>1, QueuesShift
<1>6. FirstOK'
  BY <1>1, <1>2 DEF DrainInv, FirstOK
<1>7. LeaksOK'
  <2>1. PICK S \in SUBSET Nodes, T \in SUBSET Nodes : LeftOver(S, T)
    BY DEF DrainInv, LeaksOK
  <2>2. Nodes' = Nodes /\ \A m \in S : Reached(m)'
    BY <1>1, <2>1, SameTree DEF LeftOver, Reached
  <2>3. LeftOver(S, T)'
    BY <1>1, <1>2, <2>1, <2>2 DEF LeftOver
  <2>. QED
    BY <2>2, <2>3 DEF LeaksOK
<1>. QED
  BY <1>2, <1>5, <1>6, <1>7 DEF DrainInv

LEMMA CallHandsOver ==
    ASSUME NEW r \in CallType, NEW q \in Seq(Nodes), q = Tail(r.workQueue), NEW c, c = [r EXCEPT !.workQueue = Tail(@)]
    PROVE  c \in CallType /\ c.workQueue = q /\ c.processed = r.processed /\ c.draining = r.draining
<1>1. c = [r EXCEPT !.workQueue = q]
  OBVIOUS
<1>2. c \in CallType /\ c.workQueue = q /\ c.processed = r.processed
  BY <1>1 DEF CallType
<1>3. c.draining = r.draining
  BY <1>1 DEF CallType
<1>. QED
  BY <1>2, <1>3

LEMMA CallDrains ==
    ASSUME NEW r \in CallType, NEW c, c = [r EXCEPT !.draining = TRUE]
    PROVE  c \in CallType /\ c.workQueue = r.workQueue /\ c.processed = r.processed /\ c.draining
<1>1. c \in CallType /\ c.workQueue = r.workQueue /\ c.processed = r.processed
  BY DEF CallType
<1>2. c.draining
  BY DEF CallType
<1>. QED
  BY <1>1, <1>2

(* The drain hands a node to a call of its own: it is the first and only one there. *)
LEMMA DrainStepInv == ASSUME DrainInv, Drain PROVE DrainInv'
<1>0. PICK L : L = Len(calls)
  OBVIOUS
<1>1. /\ calls # <<>> /\ Current.draining /\ Current.workQueue # <<>> /\ Current = calls[L] /\ L = Len(calls)
      /\ calls' = Append(WithCurrent([Current EXCEPT !.workQueue = Tail(@)]), NewCall(Head(Current.workQueue)))
      /\ UNCHANGED <<size, lastChild, released, leaks>>
  BY <1>0 DEF Drain, Draining, Current
<1>2. calls \in Seq(CallType) /\ Nodes' = Nodes /\ CallType' = CallType /\ TreeOK
  BY <1>1, CallFacts DEF Nodes, CallType
<1>3. L \in Nat \ {0} /\ L \in 1..L
  BY <1>1, <1>2, EmptySeq
<1>4. PICK q : q = Queue(L)
  OBVIOUS
<1>5. /\ q \in Seq(Nodes) /\ Len(q) \in Nat \ {0} /\ Tail(q) \in Seq(Nodes) /\ Len(Tail(q)) = Len(q) - 1
      /\ \A a \in 1..Len(q) - 1 : Tail(q)[a] = q[a + 1]
      /\ Head(q) = q[1] /\ Head(q) \in Nodes
  <2>1. q \in Seq(Nodes) /\ q # <<>>
    BY <1>1, <1>3, <1>4, CallFacts DEF Queue
  <2>. QED
    BY <2>1, TailFacts
<1>6. PICK c, d : /\ c = [Current EXCEPT !.workQueue = Tail(@)]
                  /\ d = [workQueue |-> <<q[1]>>, processed |-> 0, draining |-> FALSE]
  OBVIOUS
<1>c. c \in CallType /\ c.workQueue = Tail(q) /\ c.processed = MaxWorkQueueSize /\ c.draining
  <2>1. Current \in CallType /\ Current.workQueue = q /\ Current.processed = MaxWorkQueueSize
    BY <1>1, <1>3, <1>4, CallFacts DEF Queue
  <2>2. PICK t : t = Tail(q)
    OBVIOUS
  <2>3. t \in Seq(Nodes) /\ t = Tail(Current.workQueue) /\ Current.draining
    BY <1>1, <1>5, <2>1, <2>2
  <2>4. c \in CallType /\ c.workQueue = t /\ c.processed = Current.processed /\ c.draining = Current.draining
    BY <1>6, <2>1, <2>3, CallHandsOver
  <2>. QED
    BY <2>1, <2>2, <2>3, <2>4
<1>7. calls' = Append([calls EXCEPT ![L] = c], d) /\ d \in CallType
  <2>1. Current.workQueue = q
    BY <1>1, <1>4 DEF Queue
  <2>2. <<q[1]>> \in Seq(Nodes)
    BY <1>5
  <2>3. d = NewCall(Head(Current.workQueue))
    BY <1>5, <1>6, <2>1 DEF NewCall
  <2>4. d \in CallType
    BY <1>6, <2>2, SizeAssumption DEF CallType
  <2>. QED
    BY <1>1, <1>6, <2>3, <2>4 DEF WithCurrent
<1>8. /\ calls' \in Seq(CallType) /\ Len(calls') = L + 1 /\ calls'[L] = c /\ calls'[L + 1] = d
      /\ \A i \in 1..L - 1 : calls'[i] = calls[i]
  <2>1. PICK e : e = [calls EXCEPT ![L] = c]
    OBVIOUS
  <2>2. e \in Seq(CallType) /\ Len(e) = L /\ e[L] = c /\ \A i \in 1..L - 1 : e[i] = calls[i]
    BY <1>1, <1>2, <1>3, <1>c, <2>1, ExceptSeq
  <2>3. /\ Append(e, d) \in Seq(CallType) /\ Len(Append(e, d)) = L + 1 /\ Append(e, d)[L + 1] = d
        /\ \A i \in 1..L : Append(e, d)[i] = e[i]
    BY <1>3, <1>7, <2>2, AppendProperties
  <2>. QED
    BY <1>3, <1>7, <2>1, <2>2, <2>3
<1>9. /\ \A i \in 1..L - 1 : Queue(i)' = Queue(i)
      /\ Queue(L)' = Tail(q) /\ Queue(L + 1)' = <<q[1]>> /\ Len(Queue(L + 1)') = 1 /\ Queue(L + 1)'[1] = q[1]
  BY <1>6, <1>c, <1>8 DEF Queue
<1>. DEFINE From(i, j, a, b) == /\ j \in 1..L /\ b \in 1..Len(Queue(j)) /\ Queue(i)'[a] = Queue(j)[b]
                                /\ \/ i < L /\ j = i /\ b = a
                                   \/ i = L /\ j = L /\ b = a + 1
                                   \/ i = L + 1 /\ j = L /\ a = 1 /\ b = 1
<1>10. ASSUME NEW i \in 1..Len(calls'), NEW a \in 1..Len(Queue(i)') PROVE \E j, b : From(i, j, a, b)
  <2>1. CASE i < L
    <3>1. i \in 1..L /\ i \in 1..L - 1
      BY <1>3, <1>8, <2>1
    <3>2. From(i, i, a, a)
      BY <1>9, <2>1, <3>1
    <3>. QED
      BY <3>2
  <2>2. CASE i = L
    <3>1. a + 1 \in 1..Len(q) /\ Queue(L)'[a] = q[a + 1]
      BY <1>5, <1>9, <2>2
    <3>2. From(i, L, a, a + 1)
      BY <1>3, <1>4, <2>2, <3>1
    <3>. QED
      BY <3>2
  <2>3. CASE i = L + 1
    <3>0. Queue(i)' = Queue(L + 1)'
      BY <2>3
    <3>4. Len(Queue(i)') = 1
      BY <1>9, <3>0
    <3>1. a = 1 /\ 1 \in 1..Len(q)
      BY <1>5, <3>4
    <3>2. From(i, L, a, 1)
      BY <1>3, <1>4, <1>9, <2>3, <3>1
    <3>. QED
      BY <3>2
  <2>. QED
    BY <1>3, <1>8, <2>1, <2>2, <2>3
<1>11. ReleasedAtMostOnce'
  <2>1. ASSUME NEW i \in 1..Len(calls'), NEW a \in 1..Len(Queue(i)') PROVE Queue(i)'[a] \notin released
    <3>1. PICK j, b : From(i, j, a, b)
      BY <1>10
    <3>2. InQueue(Queue(j)[b])
      BY <1>0, <3>1 DEF InQueue
    <3>. QED
      BY <3>1, <3>2, CallFacts
  <2>2. ASSUME NEW i \in 1..Len(calls'), NEW j \in 1..Len(calls'),
               NEW a \in 1..Len(Queue(i)'), NEW b \in 1..Len(Queue(j)'), Queue(i)'[a] = Queue(j)'[b]
        PROVE  i = j /\ a = b
    <3>1. PICK k, u : From(i, k, a, u)
      BY <1>10
    <3>2. PICK l, v : From(j, l, b, v)
      BY <1>10
    <3>3. Queue(k)[u] = Queue(l)[v]
      BY <2>2, <3>1, <3>2
    <3>4. k = l /\ u = v
      BY <1>0, <3>1, <3>2, <3>3, OnePlace
    <3>5. i \in Nat /\ j \in Nat /\ a \in Nat /\ b \in Nat /\ a > 0 /\ b > 0 /\ L \in Nat
      <4>1. i \in Nat /\ j \in Nat
        BY <1>3, <1>8
      <4>2. a \in Nat /\ a > 0 /\ b \in Nat /\ b > 0
        OBVIOUS
      <4>. QED
        BY <1>3, <4>1, <4>2
    <3>. QED
      BY <3>1, <3>2, <3>4, <3>5
  <2>3. \A i, j \in 1..Len(calls') : \A a \in 1..Len(Queue(i)'), b \in 1..Len(Queue(j)') :
            Queue(i)'[a] = Queue(j)'[b] => i = j /\ a = b
    BY <2>2
  <2>4. \A i \in 1..Len(calls') : \A a \in 1..Len(Queue(i)') : Queue(i)'[a] \notin released'
    BY <1>1, <2>1
  <2>. QED
    BY <1>2, <1>8, <2>3, <2>4, PlacesSuffice
<1>12. \A m : InQueue(m)' <=> InQueue(m)
  <2>1. ASSUME NEW m, InQueue(m)' PROVE InQueue(m)
    <3>1. PICK i \in 1..Len(calls') : \E a \in 1..Len(Queue(i)') : Queue(i)'[a] = m
      BY <2>1 DEF InQueue
    <3>2. PICK a \in 1..Len(Queue(i)') : Queue(i)'[a] = m
      BY <3>1
    <3>3. PICK j, b : From(i, j, a, b)
      BY <1>10
    <3>. QED
      BY <1>0, <3>2, <3>3 DEF InQueue
  <2>2. ASSUME NEW m, InQueue(m) PROVE InQueue(m)'
    <3>1. PICK j \in 1..L : \E b \in 1..Len(Queue(j)) : Queue(j)[b] = m
      BY <1>0, <2>2 DEF InQueue
    <3>2. PICK b \in 1..Len(Queue(j)) : Queue(j)[b] = m
      BY <3>1
    <3>3. CASE j # L
      <4>1. j \in 1..L - 1 /\ j \in 1..Len(calls')
        BY <1>3, <1>8, <3>3
      <4>2. Queue(j)' = Queue(j)
        BY <1>9, <4>1
      <4>. QED
        BY <3>2, <4>1, <4>2 DEF InQueue
    <3>4. CASE j = L /\ b = 1
      <4>1. L + 1 \in 1..Len(calls') /\ 1 \in 1..Len(Queue(L + 1)') /\ Queue(L + 1)'[1] = m
        BY <1>3, <1>4, <1>8, <1>9, <3>2, <3>4
      <4>. QED
        BY <4>1 DEF InQueue
    <3>5. CASE j = L /\ b # 1
      <4>1. b \in 1..Len(q) /\ q[b] = m
        BY <1>4, <3>2, <3>5
      <4>2. L \in 1..Len(calls') /\ b - 1 \in 1..Len(q) - 1 /\ (b - 1) + 1 = b
        BY <1>3, <1>5, <1>8, <3>5, <4>1
      <4>3. b - 1 \in 1..Len(Queue(L)') /\ Queue(L)'[b - 1] = m
        BY <1>5, <1>9, <4>1, <4>2
      <4>. QED
        BY <4>2, <4>3 DEF InQueue
    <3>. QED
      BY <3>3, <3>4, <3>5
  <2>. QED
    BY <2>1, <2>2
<1>13. TreeOK' /\ ReachedOK' /\ SpreadOK'
  <2>1. leaks' \in Nat /\ leaks' = leaks
    BY <1>1, <1>2 DEF TreeOK
  <2>. QED
    BY <1>1, <1>12, <2>1, QueuesShift
<1>14. CallsOK'
  <2>1. ASSUME NEW i \in 1..Len(calls')
        PROVE  /\ i < Len(calls') => calls'[i].draining
               /\ calls'[i].draining => calls'[i].processed = MaxWorkQueueSize
               /\ calls'[i].processed = 0 => Len(Queue(i)') = 1
    <3>1. CASE i < L
      <4>1. i \in 1..L - 1 /\ i \in 1..L
        BY <1>3, <1>8, <3>1
      <4>2. calls'[i] = calls[i] /\ Queue(i)' = Queue(i)
        BY <1>8, <1>9, <4>1
      <4>. QED
        BY <1>0, <3>1, <4>1, <4>2, CallFacts
    <3>2. CASE i = L
      BY <1>c, <1>8, <3>2, SizeAssumption
    <3>3. CASE i = L + 1
      <4>0. Queue(i)' = Queue(L + 1)' /\ calls'[i] = d
        BY <1>8, <3>3
      <4>1. calls'[i].draining = FALSE /\ Len(Queue(i)') = 1 /\ ~(i < Len(calls'))
        BY <1>3, <1>6, <1>8, <1>9, <3>3, <4>0
      <4>. QED
        BY <4>1
    <3>. QED
      BY <1>3, <1>8, <3>1, <3>2, <3>3
  <2>. QED
    BY <1>2, <1>8, <2>1 DEF CallsOK, CallType
<1>15. CountOK'
  <2>1. PICK k : k = L - 1
    OBVIOUS
  <2>2. k \in Nat /\ L = k + 1 /\ Len(calls') - 1 = k + 1
    BY <1>3, <1>8, <2>1
  <2>3. Cardinality(released) >= MaxWorkQueueSize * k + MaxWorkQueueSize
    BY <1>1, <1>3, <2>1, CallFacts DEF DrainInv, CountOK
  <2>4. MaxWorkQueueSize * k \in Nat /\ MaxWorkQueueSize * (k + 1) = MaxWorkQueueSize * k + MaxWorkQueueSize
    BY <1>2, <2>2, Product, TreeFacts
  <2>5. calls'[Len(calls')].processed = 0
    BY <1>6, <1>8
  <2>6. Cardinality(released) >= MaxWorkQueueSize * (k + 1) + 0
    BY <1>2, <2>3, <2>4, TreeFacts
  <2>. QED
    BY <1>1, <2>2, <2>5, <2>6 DEF CountOK
<1>16. FirstOK'
  BY <1>1, <1>3 DEF DrainInv, FirstOK
<1>17. LeaksOK'
  <2>1. PICK S \in SUBSET Nodes, T \in SUBSET Nodes : LeftOver(S, T)
    BY DEF DrainInv, LeaksOK
  <2>2. \A m \in S : Reached(m)'
    BY <1>1, <2>1, SameTree DEF LeftOver, Reached
  <2>3. \A i \in 1..Len(calls') : calls'[i].draining \/ calls'[i].processed = 0
    <3>1. ASSUME NEW i \in 1..Len(calls') PROVE calls'[i].draining \/ calls'[i].processed = 0
      <4>1. CASE i < Len(calls')
        BY <1>14, <4>1 DEF CallsOK
      <4>2. CASE i = Len(calls')
        BY <1>6, <1>8, <4>2
      <4>. QED
        BY <1>3, <1>8, <4>1, <4>2
    <3>. QED
      BY <3>1
  <2>4. ASSUME NEW i \in 1..Len(calls'), ~calls'[i].draining, calls'[i].processed > 0 PROVE FALSE
    BY <2>3, <2>4
  <2>5. LeftOver(S, T)'
    BY <1>1, <1>2, <2>1, <2>2, <2>4 DEF LeftOver
  <2>. QED
    BY <1>2, <2>5 DEF LeaksOK
<1>. QED
  BY <1>11, <1>13, <1>14, <1>15, <1>16, <1>17 DEF DrainInv

(* The nodes left over are counted for the first time: until then they were only
   queued, and the first call has not popped them. *)
LEMMA LeftOverCounted ==
    ASSUME DrainInv, calls # <<>>, ~calls[Len(calls)].draining,
           calls[Len(calls)].processed = MaxWorkQueueSize, Queue(Len(calls)) # <<>>,
           UNCHANGED <<size, lastChild, released>>, leaks' = leaks + Len(Queue(Len(calls))),
           \A i \in 1..Len(calls') : calls'[i].draining
    PROVE  LeaksOK' /\ leaks' \in Nat /\ leaks' > 0
<1>0. PICK L : L = Len(calls)
  OBVIOUS
<1>1. TreeOK /\ Nodes' = Nodes /\ L \in 1..Len(calls) /\ (\A m : Reached(m) => Reached(m)')
  <2>1. Len(calls) \in Nat \ {0} /\ TreeOK
    BY CallFacts, EmptySeq
  <2>. QED
    BY <1>0, <2>1, SameTree DEF Reached
<1>2. PICK q : q = Queue(L)
  OBVIOUS
<1>3. q \in Seq(Nodes) /\ Len(q) \in Nat \ {0} /\ \A a \in 1..Len(q) : q[a] \in Nodes /\ InQueue(q[a])
  <2>1. q \in Seq(Nodes) /\ q # <<>>
    BY <1>0, <1>1, <1>2, CallFacts
  <2>2. \A a \in 1..Len(q) : q[a] \in Nodes /\ InQueue(q[a])
    BY <1>0, <1>1, <1>2, <2>1 DEF InQueue
  <2>. QED
    BY <2>1, <2>2, EmptySeq
<1>. DEFINE R == {q[a] : a \in 1..Len(q)}
<1>4. IsFiniteSet(R) /\ Cardinality(R) = Len(q) /\ R \subseteq Nodes
  <2>1. \A a, b \in 1..Len(q) : q[a] = q[b] => a = b
    BY <1>0, <1>1, <1>2, OnePlace
  <2>. QED
    BY <1>3, <2>1, RangeCount
<1>5. \A m \in R : m \notin released /\ Reached(m) /\ m \in Nodes
  BY <1>3, CallFacts DEF DrainInv, ReachedOK
<1>6. PICK S \in SUBSET Nodes, T \in SUBSET Nodes : LeftOver(S, T)
  BY DEF DrainInv, LeaksOK
<1>7. S \cap R = {}
  <2>1. MaxWorkQueueSize > 0
    BY <1>1, TreeFacts
  <2>2. \A a \in 1..Len(q) : q[a] \notin S
    BY <1>0, <1>1, <1>2, <1>6, <2>1 DEF LeftOver
  <2>. QED
    BY <2>2
<1>8. leaks \in Nat /\ Cardinality(S) = leaks /\ IsFiniteSet(S)
  <2>1. IsFiniteSet(S)
    BY <1>1, TreeFacts, FS_Subset
  <2>. QED
    BY <1>1, <1>6, <2>1 DEF LeftOver, TreeOK
<1>9. Cardinality(S \cup R) = leaks' /\ leaks' \in Nat /\ leaks' > 0
  <2>. HIDE DEF R
  <2>0. Cardinality(S \cap R) = 0
    BY <1>7, FS_EmptySet
  <2>1. Cardinality(S \cup R) = Cardinality(S) + Cardinality(R) - Cardinality(S \cap R)
    BY <1>4, <1>8, FS_Union
  <2>2. leaks' = leaks + Len(q)
    BY <1>0, <1>2
  <2>. QED
    BY <1>3, <1>4, <1>8, <2>0, <2>1, <2>2
<1>10. \E U \in SUBSET Nodes : U \subseteq released /\ (S \cup R) \cap U = {} /\ Cardinality(U) = MaxWorkQueueSize
  <2>1. CASE leaks > 0
    <3>1. T \subseteq released /\ S \cap T = {} /\ Cardinality(T) = MaxWorkQueueSize
      BY <1>6, <2>1 DEF LeftOver
    <3>2. (S \cup R) \cap T = {}
      BY <1>5, <3>1
    <3>. QED
      BY <1>6, <3>1, <3>2
  <2>2. CASE leaks = 0
    <3>1. S = {}
      BY <1>8, <2>2, FS_EmptySet
    <3>2. Cardinality(released) = MaxWorkQueueSize
      BY <1>0, <1>1, <2>2 DEF DrainInv, FirstOK
    <3>3. (S \cup R) \cap released = {} /\ released \in SUBSET Nodes
      BY <1>1, <1>5, <3>1 DEF TreeOK
    <3>. QED
      BY <3>2, <3>3
  <2>. QED
    BY <1>8, <2>1, <2>2
<1>11. PICK U \in SUBSET Nodes : U \subseteq released /\ (S \cup R) \cap U = {} /\ Cardinality(U) = MaxWorkQueueSize
  BY <1>10
<1>12. PICK V : V = S \cup R
  OBVIOUS
<1>13. V \in SUBSET Nodes /\ (\A m \in V : Reached(m)') /\ V \cap U = {} /\ Cardinality(V) = leaks'
  <2>1. \A m \in S : Reached(m)
    BY <1>6 DEF LeftOver
  <2>2. \A m \in V : Reached(m)
    BY <1>5, <1>12, <2>1
  <2>. QED
    BY <1>1, <1>4, <1>9, <1>11, <1>12, <2>2
<1>14. LeftOver(V, U)'
  <2>1. \A i \in 1..Len(calls') : ~calls'[i].draining /\ calls'[i].processed > 0 =>
            \A a \in 1..Len(Queue(i)') : Queue(i)'[a] \notin V
    OBVIOUS
  <2>2. released' = released
    OBVIOUS
  <2>. QED
    BY <1>1, <1>11, <1>13, <2>1, <2>2 DEF LeftOver
<1>. QED
  BY <1>1, <1>9, <1>13, <1>14 DEF LeaksOK

LEMMA OverflowInv == ASSUME DrainInv, Overflow PROVE DrainInv'
<1>0. PICK L : L = Len(calls)
  OBVIOUS
<1>1. /\ calls # <<>> /\ ~Current.draining /\ Current.workQueue # <<>> /\ Current = calls[L]
      /\ Current.processed = MaxWorkQueueSize /\ L = Len(calls)
      /\ leaks' = leaks + Len(Current.workQueue)
      /\ calls' = IF L - 1 < MaxCleanupDepth THEN WithCurrent([Current EXCEPT !.draining = TRUE]) ELSE Front(calls)
      /\ UNCHANGED <<size, lastChild, released>>
  BY <1>0 DEF Overflow, Working, Current, Depth
<1>2. calls \in Seq(CallType) /\ Nodes' = Nodes /\ CallType' = CallType /\ TreeOK
  BY <1>1, CallFacts DEF Nodes, CallType
<1>3. L \in Nat \ {0} /\ L \in 1..L /\ calls[L] \in CallType /\ Current.workQueue = Queue(L)
  BY <1>1, <1>2, EmptySeq DEF Queue
<1>4. CASE L - 1 < MaxCleanupDepth
  <2>1. PICK c : c = [Current EXCEPT !.draining = TRUE]
    OBVIOUS
  <2>2. c \in CallType /\ c.workQueue = Queue(L) /\ c.processed = MaxWorkQueueSize /\ c.draining
    BY <1>1, <1>3, <2>1, CallDrains
  <2>3. /\ calls' \in Seq(CallType) /\ Len(calls') = L /\ calls'[L] = c
        /\ \A i \in 1..L : i # L => calls'[i] = calls[i]
    <3>1. calls' = [calls EXCEPT ![L] = c]
      BY <1>1, <1>4, <2>1 DEF WithCurrent
    <3>2. PICK e : e = [calls EXCEPT ![L] = c]
      OBVIOUS
    <3>3. e \in Seq(CallType) /\ Len(e) = L /\ \A i \in 1..L : e[i] = IF i = L THEN c ELSE calls[i]
      BY <1>1, <1>2, <1>3, <2>2, <3>2, ExceptSeq
    <3>. QED
      BY <1>3, <3>1, <3>2, <3>3
  <2>4. \A i \in 1..L : Queue(i)' = Queue(i)
    BY <2>2, <2>3 DEF Queue
  <2>5. ASSUME NEW i \in 1..L PROVE calls'[i].draining /\ calls'[i].processed = MaxWorkQueueSize
    <3>1. CASE i = L
      BY <2>2, <2>3, <3>1
    <3>2. CASE i # L
      <4>1. i < Len(calls) /\ i \in 1..Len(calls)
        BY <1>0, <1>3, <3>2
      <4>. QED
        BY <2>3, <3>2, <4>1, CallFacts
    <3>. QED
      BY <3>1, <3>2
  <2>6. \A i \in 1..Len(calls') : calls'[i].draining
    BY <2>3, <2>5
  <2>7. LeaksOK' /\ leaks' \in Nat /\ leaks' > 0
    BY <1>0, <1>1, <1>3, <2>6, LeftOverCounted
  <2>8. \A m : InQueue(m)' <=> InQueue(m)
    BY <1>0, <2>3, <2>4 DEF InQueue
  <2>9. TreeOK' /\ ReachedOK' /\ SpreadOK'
    BY <1>1, <2>7, <2>8, QueuesShift
  <2>10. CallsOK'
    <3>1. MaxWorkQueueSize # 0
      BY SizeAssumption
    <3>. QED
      BY <1>2, <2>3, <2>5, <3>1 DEF CallsOK, CallType
  <2>11. CountOK'
    <3>1. Cardinality(released) >= MaxWorkQueueSize * (L - 1) + MaxWorkQueueSize
      BY <1>1 DEF DrainInv, CountOK
    <3>. QED
      BY <1>1, <2>2, <2>3, <3>1 DEF CountOK
  <2>12. FirstOK'
    BY <2>7 DEF FirstOK
  <2>13. ReleasedAtMostOnce'
    <3>1. \A i \in 1..Len(calls') : \A a \in 1..Len(Queue(i)') : Queue(i)'[a] \notin released'
      <4>1. ASSUME NEW i \in 1..Len(calls'), NEW a \in 1..Len(Queue(i)') PROVE Queue(i)'[a] \notin released'
        <5>1. InQueue(Queue(i)[a]) /\ Queue(i)'[a] = Queue(i)[a]
          BY <1>0, <2>3, <2>4 DEF InQueue
        <5>. QED
          BY <1>1, <5>1, CallFacts
      <4>. QED
        BY <4>1
    <3>2. ASSUME NEW i \in 1..Len(calls'), NEW j \in 1..Len(calls'),
                 NEW a \in 1..Len(Queue(i)'), NEW b \in 1..Len(Queue(j)'), Queue(i)'[a] = Queue(j)'[b]
          PROVE  i = j /\ a = b
      <4>1. /\ i \in 1..Len(calls) /\ j \in 1..Len(calls) /\ a \in 1..Len(Queue(i)) /\ b \in 1..Len(Queue(j))
            /\ Queue(i)[a] = Queue(j)[b]
        BY <1>0, <2>3, <2>4, <3>2
      <4>. QED
        BY <4>1, OnePlace
    <3>3. \A i, j \in 1..Len(calls') : \A a \in 1..Len(Queue(i)'), b \in 1..Len(Queue(j)') :
              Queue(i)'[a] = Queue(j)'[b] => i = j /\ a = b
      BY <3>2
    <3>. QED
      BY <1>2, <2>3, <3>1, <3>3, PlacesSuffice
  <2>. QED
    BY <2>7, <2>9, <2>10, <2>11, <2>12, <2>13 DEF DrainInv
<1>5. CASE ~(L - 1 < MaxCleanupDepth)
  <2>1. calls' = Front(calls)
    BY <1>1, <1>5
  <2>2. /\ Len(calls') = Len(calls) - 1
        /\ \A i \in 1..Len(calls) - 1 : calls'[i] = calls[i] /\ Queue(i)' = Queue(i)
        /\ CallsOK' /\ CountOK' /\ ReleasedAtMostOnce' /\ \A i \in 1..Len(calls') : calls'[i].draining
    BY <1>1, <2>1, CallReturns
  <2>3. LeaksOK' /\ leaks' \in Nat /\ leaks' > 0
    BY <1>0, <1>1, <1>3, <2>2, LeftOverCounted
  <2>4. \A m : InQueue(m)' => InQueue(m)
    BY <1>0, <1>3, <2>2 DEF InQueue
  <2>5. /\ \A m : Reached(m)' <=> Reached(m)
        /\ TreeOK'
    <3>1. Nodes' = Nodes /\ (\A m, n : ChildOf(m, n)' <=> ChildOf(m, n)) /\ Trees(size)' = Trees(size)
      BY <1>1, SameTree
    <3>. QED
      BY <1>1, <1>2, <2>3, <3>1 DEF Reached, TreeOK
  <2>6. ReachedOK'
    BY <1>1, <1>2, <2>4, <2>5 DEF DrainInv, ReachedOK
  <2>7. size > MaxWorkQueueSize * (MaxCleanupDepth + 1)
    <3>1. PICK k : k = L - 1
      OBVIOUS
    <3>2. k \in Nat /\ MaxCleanupDepth \in Nat /\ k >= MaxCleanupDepth /\ MaxWorkQueueSize \in Nat \ {0}
      BY <1>2, <1>3, <1>5, <3>1, TreeFacts
    <3>3. Cardinality(released) >= MaxWorkQueueSize * k + MaxWorkQueueSize
      BY <1>1, <3>1 DEF DrainInv, CountOK
    <3>4. MaxWorkQueueSize * k >= MaxWorkQueueSize * MaxCleanupDepth
      <4>1. PICK e : e = k - MaxCleanupDepth
        OBVIOUS
      <4>2. e \in Nat /\ k = MaxCleanupDepth + e
        BY <3>2, <4>1
      <4>3. MaxWorkQueueSize * (MaxCleanupDepth + e) = MaxWorkQueueSize * MaxCleanupDepth + MaxWorkQueueSize * e
        BY <3>2, <4>2
      <4>4. MaxWorkQueueSize * e \in Nat /\ MaxWorkQueueSize * MaxCleanupDepth \in Nat
        BY <3>2, <4>2, Product
      <4>. QED
        BY <4>2, <4>3, <4>4
    <3>5. /\ MaxWorkQueueSize * (MaxCleanupDepth + 1) = MaxWorkQueueSize * MaxCleanupDepth + MaxWorkQueueSize
          /\ MaxWorkQueueSize * MaxCleanupDepth \in Nat /\ MaxWorkQueueSize * k \in Nat
      BY <3>2, Product
    <3>6. Cardinality(released) < size
      <4>1. Queue(L)[1] \in Nodes /\ Queue(L)[1] \notin released
        <5>1. Len(Queue(L)) \in Nat \ {0}
          BY <1>0, <1>1, <1>3, CallFacts, EmptySeq
        <5>2. InQueue(Queue(L)[1])
          BY <1>0, <1>3, <5>1 DEF InQueue
        <5>. QED
          BY <5>2, CallFacts
      <4>2. released # Nodes /\ released \in SUBSET Nodes
        BY <1>2, <4>1 DEF TreeOK
      <4>3. /\ Cardinality(released) <= Cardinality(Nodes) /\ Cardinality(released) # Cardinality(Nodes)
            /\ Cardinality(Nodes) = size /\ size \in Nat /\ Cardinality(released) \in Nat
        BY <1>2, <4>2, TreeFacts, FS_Subset
      <4>. QED
        BY <4>3
    <3>7. Cardinality(released) \in Nat /\ size \in Nat
      BY <1>2, TreeFacts
    <3>. QED
      BY <3>2, <3>3, <3>4, <3>5, <3>6, <3>7
  <2>8. SpreadOK'
    <3>1. size' = size /\ size \in Nat /\ MaxWorkQueueSize * (MaxCleanupDepth + 1) \in Nat
      BY <1>1, <1>2, TreeFacts, Product
    <3>. QED
      BY <2>3, <2>7, <3>1 DEF SpreadOK
  <2>9. FirstOK'
    BY <2>3 DEF FirstOK
  <2>. QED
    BY <2>2, <2>3, <2>5, <2>6, <2>8, <2>9 DEF DrainInv
<1>. QED
  BY <1>4, <1>5

(* The children of a node that was not released are new to the queues. *)
LEMMA ChildrenAreNew ==
    ASSUME DrainInv, NEW n, n \notin released, NEW m, ChildOf(m, n)
    PROVE  m \in Nodes /\ m # n /\ ~Reached(m) /\ m \notin released /\ ~InQueue(m)
<1>1. TreeOK
  BY DEF DrainInv
<1>2. m \in Nodes /\ n \in Nodes /\ n < m /\ m # 1 /\ \A k : ChildOf(m, k) => k = n
  BY <1>1, OneParent
<1>3. ~Reached(m)
  BY <1>2 DEF Reached
<1>4. m # n
  <2>1. n \in Nat /\ m \in Nat
    BY <1>1, <1>2, TreeFacts
  <2>. QED
    BY <1>2, <2>1
<1>5. m \notin released /\ ~InQueue(m)
  BY <1>2, <1>3 DEF DrainInv, ReachedOK
<1>. QED
  BY <1>2, <1>3, <1>4, <1>5

LEMMA PopInv == ASSUME DrainInv, Pop PROVE DrainInv'
<1>0. PICK L : L = Len(calls)
  OBVIOUS
<1>q. PICK q : q = Queue(L)
  OBVIOUS
<1>n. PICK n : n = Last(q)
  OBVIOUS
<1>1. /\ calls # <<>> /\ ~Current.draining /\ q # <<>> /\ Current = calls[L]
      /\ Current.processed < MaxWorkQueueSize
      /\ calls' = WithCurrent([Current EXCEPT !.workQueue = Front(q) \o Children(n), !.processed = @ + 1])
      /\ released' = released \cup {n}
      /\ UNCHANGED <<size, lastChild, leaks>>
  BY <1>0, <1>q, <1>n DEF Pop, Working, Current, Queue
<1>2. calls \in Seq(CallType) /\ Nodes' = Nodes /\ CallType' = CallType /\ TreeOK
  BY <1>1, CallFacts DEF Nodes, CallType
<1>3. L \in Nat \ {0} /\ L \in 1..L /\ L = Len(calls) /\ calls[L] \in CallType
  BY <1>0, <1>1, <1>2, EmptySeq
<1>4. /\ q \in Seq(Nodes) /\ Len(q) \in Nat \ {0} /\ Front(q) \in Seq(Nodes) /\ Len(Front(q)) = Len(q) - 1
      /\ \A a \in 1..Len(q) - 1 : Front(q)[a] = q[a]
      /\ n = q[Len(q)] /\ n \in Nodes
  <2>1. q \in Seq(Nodes)
    BY <1>3, <1>q, CallFacts
  <2>. QED
    BY <1>1, <1>n, <2>1, FrontFacts
<1>5. n \notin released /\ InQueue(n)
  <2>1. InQueue(n)
    BY <1>3, <1>4, <1>q DEF InQueue
  <2>. QED
    BY <2>1, CallFacts
<1>6. PICK k : k = lastChild[n] - Before(n)
  OBVIOUS
<1>7. /\ Children(n) \in Seq(Nodes) /\ Len(Children(n)) = k /\ k \in Nat
      /\ \A a \in 1..k : Children(n)[a] = Before(n) + a /\ ChildOf(Before(n) + a, n)
  BY <1>2, <1>4, <1>6, ChildrenFacts
<1>8. PICK r : r = Front(q) \o Children(n)
  OBVIOUS
<1>9. /\ r \in Seq(Nodes) /\ Len(r) = Len(q) - 1 + k
      /\ \A a \in 1..Len(q) - 1 : r[a] = q[a]
      /\ \A a \in 1..k : r[Len(q) - 1 + a] = Before(n) + a
  <2>1. PICK s, t : s = Front(q) /\ t = Children(n)
    OBVIOUS
  <2>2. s \in Seq(Nodes) /\ t \in Seq(Nodes) /\ r = s \o t
    BY <1>4, <1>7, <1>8, <2>1
  <2>3. Len(s) = Len(q) - 1 /\ Len(t) = k
    BY <1>4, <1>7, <2>1
  <2>4. /\ \A a \in 1..Len(q) - 1 : s[a] = q[a]
        /\ \A a \in 1..k : t[a] = Before(n) + a
    BY <1>4, <1>7, <2>1
  <2>5. /\ r \in Seq(Nodes) /\ Len(r) = Len(s) + Len(t)
        /\ \A a \in 1..Len(s) : r[a] = s[a]
        /\ \A a \in 1..Len(t) : r[Len(s) + a] = t[a]
    BY <2>2, JoinFacts
  <2>. QED
    BY <2>3, <2>4, <2>5
<1>10. PICK c : c = [Current EXCEPT !.workQueue = r, !.processed = @ + 1]
  OBVIOUS
<1>11. /\ c \in CallType /\ c.workQueue = r /\ c.processed = Current.processed + 1 /\ ~c.draining
       /\ Current.processed \in Nat
  <2>1. Current \in CallType /\ Current.processed \in Nat
    BY <1>1, <1>3, CallFacts
  <2>2. PICK d : d = Current
    OBVIOUS
  <2>3. d \in CallType /\ r \in Seq(Nodes) /\ d.processed < MaxWorkQueueSize
    BY <1>1, <1>9, <2>1, <2>2
  <2>4. PICK p : p = d.processed + 1
    OBVIOUS
  <2>5. c = [d EXCEPT !.workQueue = r, !.processed = p]
    BY <1>10, <2>2, <2>4
  <2>6. c \in CallType /\ c.workQueue = r /\ c.processed = p /\ c.draining = d.draining
    <3>1. p \in 0..MaxWorkQueueSize
      BY <2>3, <2>4, SizeAssumption DEF CallType
    <3>2. c \in CallType
      BY <2>3, <2>5, <3>1 DEF CallType
    <3>3. c.workQueue = r /\ c.processed = p
      BY <2>3, <2>5 DEF CallType
    <3>4. c.draining = d.draining
      BY <2>3, <2>5 DEF CallType
    <3>. QED
      BY <3>2, <3>3, <3>4
  <2>. QED
    BY <1>1, <2>1, <2>2, <2>4, <2>6
<1>12. /\ calls' \in Seq(CallType) /\ Len(calls') = L /\ calls'[L] = c
       /\ \A i \in 1..L : i # L => calls'[i] = calls[i]
  <2>1. calls' = [calls EXCEPT ![L] = c]
    BY <1>0, <1>1, <1>8, <1>10 DEF WithCurrent
  <2>2. PICK e : e = [calls EXCEPT ![L] = c]
    OBVIOUS
  <2>3. e \in Seq(CallType) /\ Len(e) = L /\ \A i \in 1..L : e[i] = IF i = L THEN c ELSE calls[i]
    BY <1>2, <1>3, <1>11, <2>2, ExceptSeq
  <2>. QED
    BY <1>3, <2>1, <2>2, <2>3
<1>13. Queue(L)' = r /\ \A i \in 1..L : i # L => Queue(i)' = Queue(i)
  BY <1>11, <1>12 DEF Queue
<1>. DEFINE Old(i, a, m) == /\ i \in 1..L /\ a \in 1..Len(Queue(i)) /\ Queue(i)[a] = m /\ m # n
            New(i, a, m) == /\ i = L /\ a \in Nat /\ m = Before(n) + (a - (Len(q) - 1)) /\ ChildOf(m, n)
<1>14. ASSUME NEW i \in 1..L, NEW a \in 1..Len(Queue(i)), Queue(i)[a] = n PROVE i = L /\ a = Len(q)
  <2>1. L \in 1..Len(calls) /\ Len(q) \in 1..Len(Queue(L)) /\ Queue(L)[Len(q)] = n
    BY <1>3, <1>4, <1>q
  <2>. QED
    BY <1>3, <1>14, <2>1, OnePlace
<1>15. ASSUME NEW i \in 1..Len(calls'), NEW a \in 1..Len(Queue(i)'), NEW m, m = Queue(i)'[a]
       PROVE  Old(i, a, m) \/ New(i, a, m)
  <2>1. CASE i # L
    <3>1. i \in 1..L /\ Queue(i)' = Queue(i)
      BY <1>12, <1>13, <2>1
    <3>2. a \in 1..Len(Queue(i)) /\ Queue(i)[a] = m
      BY <1>15, <3>1
    <3>3. m # n
      BY <1>14, <2>1, <3>1, <3>2
    <3>. QED
      BY <3>1, <3>2, <3>3
  <2>2. CASE i = L
    <3>1. Queue(i)' = r
      BY <1>13, <2>2
    <3>2. a \in 1..Len(q) - 1 + k /\ m = r[a]
      BY <1>9, <1>15, <3>1
    <3>3. CASE a <= Len(q) - 1
      <4>1. a \in 1..Len(q) - 1 /\ a \in 1..Len(q) /\ a # Len(q)
        BY <1>4, <3>2, <3>3
      <4>2. r[a] = q[a] /\ q[a] = m
        BY <1>9, <3>2, <4>1
      <4>3. L \in 1..L /\ a \in 1..Len(Queue(L)) /\ Queue(L)[a] = m
        BY <1>3, <1>q, <4>1, <4>2
      <4>4. m # n
        BY <1>14, <4>1, <4>3
      <4>. QED
        BY <2>2, <4>3, <4>4
    <3>4. CASE ~(a <= Len(q) - 1)
      <4>1. PICK b : b = a - (Len(q) - 1)
        OBVIOUS
      <4>2. b \in 1..k /\ a = Len(q) - 1 + b /\ a \in Nat
        BY <1>4, <1>7, <3>2, <3>4, <4>1
      <4>3. m = Before(n) + b /\ ChildOf(Before(n) + b, n)
        BY <1>7, <1>9, <3>2, <4>2
      <4>. QED
        BY <2>2, <4>1, <4>2, <4>3
    <3>. QED
      BY <3>3, <3>4
  <2>. QED
    BY <2>1, <2>2
<1>16. ReleasedAtMostOnce'
  <2>1. ASSUME NEW i \in 1..Len(calls'), NEW a \in 1..Len(Queue(i)') PROVE Queue(i)'[a] \notin released'
    <3>1. PICK m : m = Queue(i)'[a]
      OBVIOUS
    <3>2. CASE Old(i, a, m)
      <4>1. InQueue(m)
        BY <1>3, <3>2 DEF InQueue
      <4>2. m \notin released
        BY <4>1, CallFacts
      <4>. QED
        BY <1>1, <3>1, <3>2, <4>2
    <3>3. CASE New(i, a, m)
      <4>1. m # n /\ m \notin released
        BY <1>5, <3>3, ChildrenAreNew
      <4>. QED
        BY <1>1, <3>1, <4>1
    <3>. QED
      BY <1>15, <3>1, <3>2, <3>3
  <2>2. ASSUME NEW i \in 1..Len(calls'), NEW j \in 1..Len(calls'),
               NEW a \in 1..Len(Queue(i)'), NEW b \in 1..Len(Queue(j)'), Queue(i)'[a] = Queue(j)'[b]
        PROVE  i = j /\ a = b
    <3>1. PICK m : m = Queue(i)'[a]
      OBVIOUS
    <3>2. m = Queue(j)'[b]
      BY <2>2, <3>1
    <3>3. CASE Old(i, a, m) /\ Old(j, b, m)
      <4>1. /\ i \in 1..Len(calls) /\ j \in 1..Len(calls) /\ a \in 1..Len(Queue(i)) /\ b \in 1..Len(Queue(j))
            /\ Queue(i)[a] = Queue(j)[b]
        BY <1>3, <3>3
      <4>. QED
        BY <4>1, OnePlace
    <3>4. CASE New(i, a, m) /\ New(j, b, m)
      <4>1. Before(n) \in Nat /\ Len(q) \in Nat /\ a \in Nat /\ b \in Nat
        <5>1. Before(n) \in Nat
          <6>1. Before(n) \in Nodes /\ Nodes = 1..size
            BY <1>2, <1>4, TreeFacts
          <6>. QED
            BY <6>1
        <5>2. a \in Nat /\ b \in Nat
          BY <3>4
        <5>. QED
          BY <1>4, <5>1, <5>2
      <4>2. Before(n) + (a - (Len(q) - 1)) = Before(n) + (b - (Len(q) - 1)) /\ i = j
        BY <3>4
      <4>. QED
        BY <4>1, <4>2
    <3>5. ASSUME NEW x, NEW u, NEW y, NEW v, Old(x, u, m), New(y, v, m) PROVE FALSE
      <4>1. InQueue(m)
        BY <1>3, <3>5 DEF InQueue
      <4>2. ~InQueue(m)
        BY <1>5, <3>5, ChildrenAreNew
      <4>. QED
        BY <4>1, <4>2
    <3>6. Old(i, a, m) \/ New(i, a, m)
      BY <1>15, <3>1
    <3>7. Old(j, b, m) \/ New(j, b, m)
      BY <1>15, <3>2
    <3>. QED
      BY <3>3, <3>4, <3>5, <3>6, <3>7
  <2>3. \A i, j \in 1..Len(calls') : \A a \in 1..Len(Queue(i)'), b \in 1..Len(Queue(j)') :
            Queue(i)'[a] = Queue(j)'[b] => i = j /\ a = b
    BY <2>2
  <2>4. \A i \in 1..Len(calls') : \A a \in 1..Len(Queue(i)') : Queue(i)'[a] \notin released'
    BY <2>1
  <2>. QED
    BY <1>2, <1>12, <2>3, <2>4, PlacesSuffice
<1>17. \A m : InQueue(m)' => (InQueue(m) \/ ChildOf(m, n))
  <2>1. ASSUME NEW m, InQueue(m)' PROVE InQueue(m) \/ ChildOf(m, n)
    <3>1. PICK i \in 1..Len(calls') : \E a \in 1..Len(Queue(i)') : Queue(i)'[a] = m
      BY <2>1 DEF InQueue
    <3>2. PICK a \in 1..Len(Queue(i)') : Queue(i)'[a] = m
      BY <3>1
    <3>3. Old(i, a, m) \/ New(i, a, m)
      BY <1>15, <3>2
    <3>. QED
      BY <1>3, <3>3 DEF InQueue
  <2>. QED
    BY <2>1
<1>18. ASSUME NEW m, InQueue(m), m # n PROVE InQueue(m)'
  <2>1. PICK i \in 1..Len(calls) : \E a \in 1..Len(Queue(i)) : Queue(i)[a] = m
    BY <1>18 DEF InQueue
  <2>2. PICK a \in 1..Len(Queue(i)) : Queue(i)[a] = m
    BY <2>1
  <2>3. CASE i # L
    <3>1. i \in 1..Len(calls') /\ Queue(i)' = Queue(i)
      BY <1>3, <1>12, <1>13, <2>3
    <3>. QED
      BY <2>2, <3>1 DEF InQueue
  <2>4. CASE i = L
    <3>1. a \in 1..Len(q) /\ q[a] = m /\ a # Len(q)
      BY <1>4, <1>18, <1>q, <2>2, <2>4
    <3>2. a \in 1..Len(q) - 1 /\ a \in 1..Len(r)
      BY <1>4, <1>7, <1>9, <3>1
    <3>3. L \in 1..Len(calls') /\ a \in 1..Len(Queue(L)') /\ Queue(L)'[a] = m
      BY <1>3, <1>9, <1>12, <1>13, <3>1, <3>2
    <3>. QED
      BY <3>3 DEF InQueue
  <2>. QED
    BY <2>3, <2>4
<1>19. ASSUME NEW m, ChildOf(m, n) PROVE InQueue(m)'
  <2>1. PICK b : b = m - Before(n)
    OBVIOUS
  <2>2. b \in 1..k /\ m = Before(n) + b
    <3>1. m \in Nat /\ Before(n) \in Nat /\ lastChild[n] \in Nat /\ Before(n) < m /\ m <= lastChild[n]
      BY <1>2, <1>19, TreeFacts DEF ChildOf
    <3>. QED
      BY <1>6, <2>1, <3>1
  <2>3. r[Len(q) - 1 + b] = m /\ Len(q) - 1 + b \in 1..Len(r)
    BY <1>4, <1>7, <1>9, <2>2
  <2>4. L \in 1..Len(calls') /\ Len(q) - 1 + b \in 1..Len(Queue(L)') /\ Queue(L)'[Len(q) - 1 + b] = m
    BY <1>3, <1>12, <1>13, <2>3
  <2>. QED
    BY <2>4 DEF InQueue
<1>20. /\ \A m, x : ChildOf(m, x)' <=> ChildOf(m, x)
       /\ \A m : Reached(m)' <=> (Reached(m) \/ ChildOf(m, n))
  <2>1. /\ \A m, x : ChildOf(m, x)' <=> ChildOf(m, x)
    BY <1>1, SameTree
  <2>. QED
    BY <1>1, <2>1 DEF Reached
<1>21. TreeOK'
  BY <1>1, <1>2, <1>4, SameTree DEF TreeOK
<1>22. ReachedOK'
  <2>1. Reached(n)
    BY <1>4, <1>5 DEF DrainInv, ReachedOK
  <2>2. ASSUME NEW m \in Nodes, m \in released' \/ InQueue(m)' PROVE Reached(m)'
    BY <1>1, <1>17, <1>20, <2>1, <2>2 DEF DrainInv, ReachedOK
  <2>. QED
    BY <1>2, <2>2 DEF ReachedOK
<1>23. SpreadOK'
  <2>1. ASSUME leaks = 0 \/ size <= MaxWorkQueueSize * (MaxCleanupDepth + 1), NEW m \in Nodes, Reached(m)'
        PROVE  m \in released' \/ InQueue(m)'
    <3>1. CASE ChildOf(m, n)
      BY <1>19, <3>1
    <3>2. CASE Reached(m)
      <4>1. m \in released \/ InQueue(m)
        BY <2>1, <3>2 DEF DrainInv, SpreadOK
      <4>. QED
        BY <1>1, <1>18, <4>1
    <3>. QED
      BY <1>20, <2>1, <3>1, <3>2
  <2>2. leaks' = leaks /\ size' = size
    BY <1>1
  <2>. QED
    BY <1>2, <2>1, <2>2 DEF SpreadOK
<1>24. Cardinality(released') = Cardinality(released) + 1 /\ Cardinality(released) \in Nat
  <2>1. IsFiniteSet(released) /\ Cardinality(released) \in Nat
    BY <1>2, TreeFacts
  <2>. QED
    BY <1>1, <1>5, <2>1, FS_AddElement
<1>25. CallsOK'
  <2>1. ASSUME NEW i \in 1..Len(calls')
        PROVE  /\ i < Len(calls') => calls'[i].draining
               /\ calls'[i].draining => calls'[i].processed = MaxWorkQueueSize
               /\ calls'[i].processed = 0 => Len(Queue(i)') = 1
    <3>1. CASE i # L
      <4>1. i \in 1..Len(calls) /\ calls'[i] = calls[i] /\ Queue(i)' = Queue(i) /\ i < Len(calls)
        BY <1>3, <1>12, <1>13, <3>1
      <4>. QED
        BY <1>12, <4>1, CallFacts
    <3>2. CASE i = L
      <4>1. calls'[i] = c /\ c.processed # 0
        BY <1>11, <1>12, <3>2
      <4>2. ~(i < Len(calls'))
        BY <1>3, <1>12, <3>2
      <4>. QED
        BY <1>11, <4>1, <4>2
    <3>. QED
      BY <3>1, <3>2
  <2>. QED
    BY <1>2, <1>12, <2>1 DEF CallsOK, CallType
<1>26. CountOK'
  <2>1. Cardinality(released) >= MaxWorkQueueSize * (L - 1) + Current.processed
    BY <1>1, <1>3 DEF DrainInv, CountOK
  <2>2. MaxWorkQueueSize * (L - 1) \in Nat
    <3>1. L - 1 \in Nat /\ MaxWorkQueueSize \in Nat
      BY <1>3, SizeAssumption
    <3>. QED
      BY <3>1, Product
  <2>3. Cardinality(released') >= MaxWorkQueueSize * (L - 1) + c.processed
    BY <1>11, <1>24, <2>1, <2>2
  <2>. QED
    BY <1>12, <2>3 DEF CountOK
<1>27. FirstOK'
  <2>1. SUFFICES ASSUME leaks' = 0
                 PROVE  /\ Len(calls') <= 1 /\ Cardinality(released') <= MaxWorkQueueSize
                        /\ \A i \in 1..Len(calls') : ~calls'[i].draining /\ calls'[i].processed = Cardinality(released')
    BY DEF FirstOK
  <2>2. L <= 1 /\ Current.processed = Cardinality(released)
    BY <1>1, <1>3, <2>1 DEF DrainInv, FirstOK
  <2>3. \A i \in 1..Len(calls') : i = L
    BY <1>3, <1>12, <2>2
  <2>4. Cardinality(released') <= MaxWorkQueueSize
    BY <1>1, <1>24, <2>2, SizeAssumption
  <2>. QED
    BY <1>11, <1>12, <1>24, <2>2, <2>3, <2>4
<1>28. LeaksOK'
  <2>1. PICK S \in SUBSET Nodes, T \in SUBSET Nodes : LeftOver(S, T)
    BY DEF DrainInv, LeaksOK
  <2>2. \A m \in S : Reached(m) /\ Reached(m)'
    BY <1>20, <2>1 DEF LeftOver
  <2>3. ASSUME NEW i \in 1..Len(calls'), ~calls'[i].draining, NEW a \in 1..Len(Queue(i)')
        PROVE  Queue(i)'[a] \notin S
    <3>1. PICK m : m = Queue(i)'[a]
      OBVIOUS
    <3>2. i = L
      <4>1. ~(i < Len(calls'))
        BY <1>25, <2>3 DEF CallsOK
      <4>. QED
        BY <1>3, <1>12, <4>1
    <3>3. CASE Old(i, a, m)
      <4>1. ~calls[L].draining /\ a \in 1..Len(Queue(L)) /\ Queue(L)[a] = m /\ m # n
        BY <1>1, <3>2, <3>3
      <4>2. calls[L].processed > 0
        <5>1. Len(Queue(L)) # 1
          <6>1. a # Len(q) /\ a \in 1..Len(q)
            BY <1>4, <1>q, <4>1
          <6>. QED
            BY <1>4, <1>q, <6>1
        <5>2. L \in 1..Len(calls) /\ calls[L].processed \in Nat /\ calls[L].processed # 0
          BY <1>3, <5>1, CallFacts
        <5>. QED
          BY <5>2
      <4>. QED
        BY <1>3, <2>1, <3>1, <4>1, <4>2 DEF LeftOver
    <3>4. CASE New(i, a, m)
      <4>1. ~Reached(m)
        BY <1>5, <3>4, ChildrenAreNew
      <4>. QED
        BY <2>2, <3>1, <4>1
    <3>. QED
      BY <1>15, <3>1, <3>3, <3>4
  <2>4. LeftOver(S, T)'
    <3>1. \A i \in 1..Len(calls') : ~calls'[i].draining /\ calls'[i].processed > 0 =>
            \A a \in 1..Len(Queue(i)') : Queue(i)'[a] \notin S
      BY <2>3
    <3>2. S \subseteq Nodes /\ T \subseteq released' /\ S \cap T = {} /\ Cardinality(S) = leaks'
      BY <1>1, <2>1 DEF LeftOver
    <3>3. leaks' > 0 => Cardinality(T) = MaxWorkQueueSize
      BY <1>1, <2>1 DEF LeftOver
    <3>. QED
      BY <1>2, <2>2, <3>1, <3>2, <3>3 DEF LeftOver
  <2>. QED
    BY <1>2, <2>4 DEF LeaksOK
<1>. QED
  BY <1>16, <1>21, <1>22, <1>23, <1>25, <1>26, <1>27, <1>28 DEF DrainInv

LEMMA InitDrain == Init => DrainInv
<1>1. SUFFICES ASSUME Init PROVE DrainInv
  OBVIOUS
<1>2. /\ size \in 1..MaxNodes /\ lastChild \in Trees(size) /\ calls = <<NewCall(1)>> /\ released = {} /\ leaks = 0
  BY <1>1 DEF Init
<1>3. TreeOK
  BY <1>2 DEF TreeOK
<1>4. PICK c : c = [workQueue |-> <<1>>, processed |-> 0, draining |-> FALSE]
  OBVIOUS
<1>5. 1 \in Nodes /\ <<1>> \in Seq(Nodes) /\ c \in CallType /\ MaxWorkQueueSize \in Nat \ {0}
  <2>1. 1 \in Nodes /\ MaxWorkQueueSize \in Nat \ {0}
    BY <1>3, TreeFacts
  <2>2. <<1>> \in Seq(Nodes)
    BY <2>1
  <2>. QED
    BY <1>4, <2>1, <2>2 DEF CallType
<1>6. calls = <<c>> /\ Len(calls) = 1 /\ calls[1] = c /\ calls \in Seq(CallType) /\ DOMAIN calls = {1}
  <2>1. calls = <<c>>
    BY <1>2, <1>4 DEF NewCall
  <2>. QED
    BY <1>5, <2>1
<1>7. /\ c.workQueue = <<1>> /\ c.processed = 0 /\ c.draining = FALSE /\ Queue(1) = <<1>>
      /\ Len(Queue(1)) = 1 /\ Queue(1)[1] = 1
  BY <1>4, <1>6 DEF Queue
<1>8. \A i \in 1..Len(calls) : i = 1
  BY <1>6
<1>9. \A m : InQueue(m) <=> m = 1
  BY <1>6, <1>7, <1>8 DEF InQueue
<1>10. \A m : Reached(m) <=> m = 1
  BY <1>2 DEF Reached
<1>11. CallsOK
  BY <1>6, <1>7, <1>8 DEF CallsOK, CallType
<1>12. ReleasedAtMostOnce
  <2>1. \A i \in DOMAIN calls : i = 1 /\ \A a \in DOMAIN calls[i].workQueue : a = 1
    BY <1>6, <1>7
  <2>. QED
    BY <1>2, <2>1 DEF ReleasedAtMostOnce
<1>13. ReachedOK /\ SpreadOK
  BY <1>2, <1>9, <1>10 DEF ReachedOK, SpreadOK
<1>14. Cardinality(released) = 0
  BY <1>2, FS_EmptySet
<1>15. CountOK
  <2>1. MaxWorkQueueSize * (Len(calls) - 1) = 0
    BY <1>5, <1>6
  <2>. QED
    BY <1>6, <1>7, <1>14, <2>1 DEF CountOK
<1>16. FirstOK
  BY <1>5, <1>6, <1>7, <1>8, <1>14 DEF FirstOK
<1>17. LeaksOK
  <2>1. LeftOver({}, {})
    BY <1>2, FS_EmptySet DEF LeftOver
  <2>. QED
    BY <2>1 DEF LeaksOK
<1>. QED
  BY <1>3, <1>11, <1>12, <1>13, <1>15, <1>16, <1>17 DEF DrainInv

LEMMA DrainStutters == ASSUME DrainInv, UNCHANGED vars PROVE DrainInv'
<1>1. /\ size' = size /\ lastChild' = lastChild /\ calls' = calls /\ released' = released /\ leaks' = leaks
  BY DEF vars
<1>2. Nodes' = Nodes /\ (\A m, n : ChildOf(m, n)' <=> ChildOf(m, n)) /\ Trees(size)' = Trees(size)
  BY <1>1, SameTree
<1>3. (\A i : Queue(i)' = Queue(i)) /\ (\A m : InQueue(m)' <=> InQueue(m)) /\ (\A m : Reached(m)' <=> Reached(m))
  BY <1>1, <1>2 DEF Queue, InQueue, Reached
<1>4. TreeOK' /\ CallsOK' /\ ReleasedAtMostOnce'
  BY <1>1, <1>2, <1>3 DEF DrainInv, TreeOK, CallsOK, ReleasedAtMostOnce
<1>5. ReachedOK' /\ SpreadOK'
  BY <1>1, <1>2, <1>3 DEF DrainInv, ReachedOK, SpreadOK
<1>6. CountOK' /\ FirstOK'
  BY <1>1 DEF DrainInv, CountOK, FirstOK
<1>7. LeaksOK'
  <2>1. PICK S \in SUBSET Nodes, T \in SUBSET Nodes : LeftOver(S, T)
    BY DEF DrainInv, LeaksOK
  <2>2. LeftOver(S, T)'
    BY <1>1, <1>2, <1>3, <2>1 DEF LeftOver
  <2>. QED
    BY <1>2, <2>2 DEF LeaksOK
<1>. QED
  BY <1>4, <1>5, <1>6, <1>7 DEF DrainInv

LEMMA NextDrain == DrainInv /\ [Next]_vars => DrainInv'
BY PopInv, OverflowInv, DrainStepInv, ReturnInv, DrainStutters DEF Next

LEMMA DrainInvariance == Spec => []DrainInv
BY InitDrain, NextDrain, PTL DEF Spec

-----------------------------------------------------------------------------
(* What the invariant says *)

LEMMA DrainTypes == DrainInv => TypeOK
BY DEF DrainInv, TreeOK, CallsOK, TypeOK

LEMMA AllAreReleased == DrainInv => AllReleased
<1>1. SUFFICES ASSUME DrainInv, calls = <<>>, size <= MaxWorkQueueSize * (MaxCleanupDepth + 1)
               PROVE  released = Nodes
  BY DEF AllReleased
<1>2. \A m : ~InQueue(m)
  <2>1. Len(calls) = 0
    BY <1>1
  <2>. QED
    BY <2>1 DEF InQueue
<1>3. TreeOK /\ \A m \in Nodes : Reached(m) => m \in released
  BY <1>1, <1>2 DEF DrainInv, SpreadOK
<1>4. 1 \in released
  BY <1>3, TreeFacts DEF Reached
<1>5. \A n \in released : \A m \in Nodes : ChildOf(m, n) => m \in released
  BY <1>3 DEF Reached
<1>. QED
  BY <1>3, <1>4, <1>5, TreeIsConnected

LEMMA CallsAreBounded == DrainInv => CallsBounded
<1>1. SUFFICES ASSUME DrainInv PROVE (Len(calls) - 1) * MaxWorkQueueSize < size
  BY DEF CallsBounded
<1>2. /\ TreeOK /\ size \in Nat \ {0} /\ MaxWorkQueueSize \in Nat \ {0} /\ Len(calls) \in Nat
      /\ Cardinality(released) \in Nat /\ Cardinality(released) <= size
  BY <1>1, CallFacts, TreeFacts
<1>3. CASE Len(calls) = 0
  <2>1. (Len(calls) - 1) * MaxWorkQueueSize = 0 - MaxWorkQueueSize
    BY <1>2, <1>3
  <2>. QED
    BY <1>2, <2>1
<1>4. CASE Len(calls) # 0
  <2>1. PICK k, p : k = Len(calls) - 1 /\ p = calls[Len(calls)].processed
    OBVIOUS
  <2>2. k \in Nat /\ p \in Nat /\ Len(calls) \in 1..Len(calls) /\ calls # <<>>
    BY <1>1, <1>2, <1>4, <2>1, CallFacts
  <2>3. Cardinality(released) >= MaxWorkQueueSize * k + p
    BY <1>1, <2>1, <2>2 DEF DrainInv, CountOK
  <2>4. MaxWorkQueueSize * k \in Nat /\ k * MaxWorkQueueSize = MaxWorkQueueSize * k
    BY <1>2, <2>2, Product
  <2>5. CASE p > 0
    BY <1>2, <2>1, <2>2, <2>3, <2>4, <2>5
  <2>6. CASE p = 0
    <3>1. Len(Queue(Len(calls))) = 1
      BY <1>1, <2>1, <2>2, <2>6, CallFacts
    <3>2. InQueue(Queue(Len(calls))[1])
      BY <2>2, <3>1 DEF InQueue
    <3>3. released # Nodes /\ released \in SUBSET Nodes
      BY <1>1, <1>2, <3>2, CallFacts DEF TreeOK
    <3>4. Cardinality(released) # size
      BY <1>2, <3>3, TreeFacts, FS_Subset
    <3>. QED
      BY <1>2, <2>1, <2>3, <2>4, <2>6, <3>4
  <2>. QED
    BY <2>2, <2>5, <2>6
<1>. QED
  BY <1>3, <1>4

LEMMA LeaksAreLeftovers == DrainInv => LeaksCountLeftovers
<1>1. SUFFICES ASSUME DrainInv PROVE LeaksCountLeftovers
  OBVIOUS
<1>2. /\ TreeOK /\ size \in Nat \ {0} /\ MaxWorkQueueSize \in Nat \ {0} /\ leaks \in Nat
      /\ IsFiniteSet(Nodes) /\ Cardinality(Nodes) = size
  BY <1>1, CallFacts, TreeFacts DEF TreeOK
<1>3. leaks > 0 => leaks <= size - MaxWorkQueueSize
  <2>1. SUFFICES ASSUME leaks > 0 PROVE leaks <= size - MaxWorkQueueSize
    OBVIOUS
  <2>2. PICK S \in SUBSET Nodes, T \in SUBSET Nodes : LeftOver(S, T)
    BY <1>1 DEF DrainInv, LeaksOK
  <2>3. S \cap T = {} /\ Cardinality(S) = leaks /\ Cardinality(T) = MaxWorkQueueSize
    BY <2>1, <2>2 DEF LeftOver
  <2>4. IsFiniteSet(S) /\ IsFiniteSet(T)
    BY <1>2, FS_Subset
  <2>5. Cardinality(S \cap T) = 0
    BY <2>3, FS_EmptySet
  <2>6. Cardinality(S \cup T) = Cardinality(S) + Cardinality(T) - Cardinality(S \cap T)
    BY <2>4, FS_Union
  <2>7. Cardinality(S \cup T) <= size
    <3>1. S \cup T \in SUBSET Nodes
      OBVIOUS
    <3>. QED
      BY <1>2, <3>1, FS_Subset
  <2>. QED
    BY <1>2, <2>3, <2>5, <2>6, <2>7
<1>4. ASSUME calls = <<>>, size > MaxWorkQueueSize PROVE leaks > 0
  <2>1. SUFFICES ASSUME leaks = 0 PROVE FALSE
    BY <1>2
  <2>2. Cardinality(released) <= MaxWorkQueueSize
    BY <1>1, <2>1 DEF DrainInv, FirstOK
  <2>3. \A m : ~InQueue(m)
    <3>1. Len(calls) = 0
      BY <1>4
    <3>. QED
      BY <3>1 DEF InQueue
  <2>4. \A m \in Nodes : Reached(m) => m \in released
    BY <1>1, <2>1, <2>3 DEF DrainInv, SpreadOK
  <2>5. 1 \in released
    BY <1>2, <2>4, TreeFacts DEF Reached
  <2>6. \A n \in released : \A m \in Nodes : ChildOf(m, n) => m \in released
    BY <2>4 DEF Reached
  <2>7. released = Nodes
    BY <1>2, <2>5, <2>6, TreeIsConnected
  <2>. QED
    BY <1>2, <1>4, <2>2, <2>7
<1>5. leaks > 0 => size > MaxWorkQueueSize
  BY <1>2, <1>3
<1>. QED
  BY <1>3, <1>4, <1>5 DEF LeaksCountLeftovers

-----------------------------------------------------------------------------

(* The types of the calls of putExpressionImpl, their queues and poolLeakCount. *)
THEOREM DrainTypeCorrect == Spec => []TypeOK
BY DrainInvariance, DrainTypes, PTL

(* PutExpression and its overflow drain, for a tree of any shape and size, any
   MaxWorkQueueSize and any MaxCleanupDepth: no node is in two queues or released
   twice, every node is released when the calls return unless the tree is larger
   than all of them can take, the depth of the calls is what the comment says,
   and poolLeakCount counts just the nodes left over by a first pass. *)
THEOREM ReleaseAlwaysComplete == Spec => []ReleaseIsComplete
<1>1. DrainInv => ReleaseIsComplete
  BY AllAreReleased, CallsAreBounded, LeaksAreLeftovers DEF DrainInv, ReleaseIsComplete
<1>. QED
  BY <1>1, DrainInvariance, PTL

-----------------------------------------------------------------------------
(* The end of a release: its steps are numbered.                           *)

Unreleased == Cardinality(Nodes \ released)

LEMMA UnreleasedFacts ==
    ASSUME TreeOK
    PROVE  /\ IsFiniteSet(Nodes \ released) /\ Unreleased \in Nat /\ Unreleased <= size /\ size \in Nat
           /\ \A n \in Nodes : n \notin released => Unreleased # 0
<1>1. IsFiniteSet(Nodes) /\ Cardinality(Nodes) = size /\ size \in Nat /\ (Nodes \ released) \in SUBSET Nodes
  BY TreeFacts
<1>2. IsFiniteSet(Nodes \ released) /\ Unreleased <= size
  BY <1>1, FS_Subset DEF Unreleased
<1>3. Unreleased \in Nat
  BY <1>2, FS_CardinalityType DEF Unreleased
<1>4. ASSUME NEW n \in Nodes, n \notin released PROVE Unreleased # 0
  <2>1. Nodes \ released # {}
    BY <1>4
  <2>. QED
    BY <1>2, <2>1, FS_EmptySet DEF Unreleased
<1>. QED
  BY <1>1, <1>2, <1>3, <1>4

(* The call that goes on. *)
LEMMA CurrentFacts ==
    ASSUME DrainInv, calls # <<>>
    PROVE  \E l \in Nat \ {0}, c \in CallType :
               /\ l = Len(calls) /\ c = calls[l] /\ c = Current /\ calls \in Seq(CallType)
               /\ c.workQueue \in Seq(Nodes)
               /\ c.draining => c.processed = MaxWorkQueueSize
               /\ c.processed = 0 => Len(c.workQueue) = 1
               /\ \A a \in 1..Len(c.workQueue) : c.workQueue[a] \in Nodes /\ c.workQueue[a] \notin released
               /\ StepsLeft = 4 * Unreleased + (l - 1) + StepsOf(c)
<1>1. PICK l : l = Len(calls)
  OBVIOUS
<1>2. calls \in Seq(CallType)
  BY CallFacts
<1>3. l \in Nat \ {0} /\ l \in 1..l /\ calls[l] \in CallType
  BY <1>1, <1>2, EmptySeq
<1>4. PICK c \in CallType : c = calls[l]
  BY <1>3
<1>5. /\ c.workQueue = Queue(l) /\ Queue(l) \in Seq(Nodes)
      /\ c.draining => c.processed = MaxWorkQueueSize
      /\ c.processed = 0 => Len(c.workQueue) = 1
  BY <1>1, <1>3, <1>4, CallFacts DEF Queue
<1>6. ASSUME NEW a \in 1..Len(c.workQueue) PROVE c.workQueue[a] \in Nodes /\ c.workQueue[a] \notin released
  <2>1. InQueue(c.workQueue[a])
    BY <1>1, <1>3, <1>5 DEF InQueue
  <2>. QED
    BY <2>1, CallFacts
<1>7. Current = c
  BY <1>1, <1>4 DEF Current
<1>8. StepsLeft = 4 * Unreleased + (l - 1) + StepsOf(c)
  <2>1. Unreleased \in Nat /\ StepsOf(c) \in Int
    BY CallFacts, UnreleasedFacts DEF StepsOf
  <2>. QED
    BY <1>1, <1>3, <1>7, <2>1 DEF StepsLeft, Unreleased
<1>. QED
  BY <1>1, <1>2, <1>3, <1>4, <1>5, <1>6, <1>7, <1>8

LEMMA CurrentReplaced ==
    ASSUME NEW C, NEW s \in Seq(C), NEW l \in Nat \ {0}, l = Len(s), NEW c, NEW new, new = [s EXCEPT ![l] = c]
    PROVE  new \in Seq(C \cup {c}) /\ Len(new) = l /\ new[l] = c
<1>1. PICK D : D = C \cup {c}
  OBVIOUS
<1>2. s \in Seq(D) /\ c \in D /\ l \in 1..Len(s)
  BY <1>1, SeqMonotonic
<1>3. new \in Seq(D) /\ Len(new) = Len(s) /\ \A i \in 1..Len(s) : new[i] = IF i = l THEN c ELSE s[i]
  BY <1>2, ExceptSeq
<1>. QED
  BY <1>1, <1>2, <1>3

(* The steps that are left after a step, by the call that goes on then. *)
LEMMA StepsLeftAfter ==
    ASSUME NEW u \in Nat, u = Unreleased', NEW l \in Nat \ {0}, Len(calls') = l, NEW c, c = calls'[l]
    PROVE  StepsLeft' = 4 * u + (l - 1) + StepsOf(c)
<1>1. calls' # <<>>
  BY EmptySeq
<1>2. StepsOf(c) \in Int
  BY DEF StepsOf
<1>3. StepsLeft' = 4 * u + (Len(calls') - 1 + StepsOf(calls'[Len(calls')]))
  BY <1>1 DEF StepsLeft, Unreleased, Current, StepsOf
<1>. QED
  BY <1>2, <1>3

(* Every call that has met the cap has one step left, to return. *)
LEMMA StepsLeftWhenAllDrain ==
    ASSUME NEW u \in Nat, u = Unreleased', NEW l \in Nat, Len(calls') = l,
           calls' = <<>> \/ l # 0, \A i \in 1..l : calls'[i].draining
    PROVE  StepsLeft' = 4 * u + l
<1>1. CASE l = 0
  <2>1. calls' = <<>>
    BY <1>1
  <2>. QED
    BY <1>1, <2>1 DEF StepsLeft, Unreleased
<1>2. CASE l # 0
  <2>1. PICK c : c = calls'[l]
    OBVIOUS
  <2>2. c.draining
    BY <1>2, <2>1
  <2>3. StepsOf(c) = 1
    BY <2>2 DEF StepsOf
  <2>. QED
    BY <1>2, <2>1, <2>3, StepsLeftAfter
<1>. QED
  BY <1>1, <1>2

LEMMA PopCounts == ASSUME DrainInv, Pop PROVE StepsLeft' \in 0..(StepsLeft - 1)
<1>1. PICK l \in Nat \ {0}, c \in CallType :
          /\ l = Len(calls) /\ c = calls[l] /\ c = Current /\ calls \in Seq(CallType)
          /\ c.workQueue \in Seq(Nodes)
          /\ c.draining => c.processed = MaxWorkQueueSize
          /\ c.processed = 0 => Len(c.workQueue) = 1
          /\ \A a \in 1..Len(c.workQueue) : c.workQueue[a] \in Nodes /\ c.workQueue[a] \notin released
          /\ StepsLeft = 4 * Unreleased + (l - 1) + StepsOf(c)
  BY CurrentFacts DEF Pop, Working
<1>2. PICK n, r : n = Last(c.workQueue) /\ r = Front(c.workQueue) \o Children(n)
  OBVIOUS
<1>3. PICK d : d = [c EXCEPT !.workQueue = r, !.processed = @ + 1]
  OBVIOUS
<1>4. /\ c.workQueue # <<>> /\ ~c.draining /\ released' = released \cup {n} /\ size' = size
      /\ calls' = [calls EXCEPT ![l] = d]
  BY <1>1, <1>2, <1>3 DEF Pop, Working, WithCurrent
<1>5. n \in Nodes /\ n \notin released
  <2>1. PICK q, k : q = c.workQueue /\ k = Len(q)
    OBVIOUS
  <2>2. k \in Nat \ {0} /\ n = q[k]
    BY <1>1, <1>2, <1>4, <2>1, FrontFacts
  <2>3. k \in 1..k
    BY <2>2
  <2>. QED
    BY <1>1, <2>1, <2>2, <2>3
<1>6. PICK u, v : u = Unreleased /\ v = Unreleased'
  OBVIOUS
<1>7. u \in Nat \ {0} /\ v = u - 1
  <2>1. TreeOK
    BY CallFacts
  <2>2. u \in Nat \ {0} /\ IsFiniteSet(Nodes \ released)
    BY <1>5, <1>6, <2>1, UnreleasedFacts
  <2>3. (Nodes \ released)' = (Nodes \ released) \ {n}
    BY <1>4 DEF Nodes
  <2>4. v = Cardinality((Nodes \ released) \ {n})
    BY <1>6, <2>3 DEF Unreleased
  <2>. QED
    BY <1>5, <1>6, <2>2, <2>4, FS_RemoveElement DEF Unreleased
<1>8. Len(calls') = l /\ calls'[l] = d
  BY <1>1, <1>4, CurrentReplaced
<1>9. ~d.draining /\ d.processed # 0
  <2>1. PICK p : p = c.processed + 1
    OBVIOUS
  <2>2. d = [c EXCEPT !.workQueue = r, !.processed = p]
    BY <1>3, <2>1
  <2>3. d.draining = c.draining
    BY <2>2 DEF CallType
  <2>4. d.processed = p
    BY <2>2 DEF CallType
  <2>5. c.processed \in Nat
    BY SizeAssumption DEF CallType
  <2>. QED
    BY <1>4, <2>1, <2>3, <2>4, <2>5
<1>10. StepsLeft' = 4 * v + (l - 1) + StepsOf(d)
  BY <1>6, <1>7, <1>8, StepsLeftAfter
<1>11. StepsOf(d) = 2 /\ StepsOf(c) \in {-1, 2}
  BY <1>4, <1>9 DEF StepsOf
<1>. QED
  BY <1>1, <1>6, <1>7, <1>10, <1>11

LEMMA DrainCounts == ASSUME DrainInv, Drain PROVE StepsLeft' \in 0..(StepsLeft - 1)
<1>1. PICK l \in Nat \ {0}, c \in CallType :
          /\ l = Len(calls) /\ c = calls[l] /\ c = Current /\ calls \in Seq(CallType)
          /\ c.workQueue \in Seq(Nodes)
          /\ c.draining => c.processed = MaxWorkQueueSize
          /\ c.processed = 0 => Len(c.workQueue) = 1
          /\ \A a \in 1..Len(c.workQueue) : c.workQueue[a] \in Nodes /\ c.workQueue[a] \notin released
          /\ StepsLeft = 4 * Unreleased + (l - 1) + StepsOf(c)
  BY CurrentFacts DEF Drain, Draining
<1>2. PICK b, d, e : /\ b = [c EXCEPT !.workQueue = Tail(@)] /\ d = NewCall(Head(c.workQueue))
                     /\ e = [calls EXCEPT ![l] = b]
  OBVIOUS
<1>3. /\ c.workQueue # <<>> /\ c.draining /\ released' = released /\ size' = size
      /\ calls' = Append(e, d)
  BY <1>1, <1>2 DEF Drain, Draining, WithCurrent
<1>4. Len(calls') = l + 1 /\ calls'[l + 1] = d
  <2>1. PICK D : D = CallType \cup {b} \cup {d}
    OBVIOUS
  <2>2. e \in Seq(CallType \cup {b}) /\ Len(e) = l
    BY <1>1, <1>2, CurrentReplaced
  <2>3. e \in Seq(D) /\ d \in D
    BY <2>1, <2>2, SeqMonotonic
  <2>. QED
    BY <1>3, <2>2, <2>3, AppendProperties
<1>5. PICK u : u = Unreleased
  OBVIOUS
<1>6. u \in Nat \ {0} /\ u = Unreleased'
  <2>1. c.workQueue[1] \in Nodes /\ c.workQueue[1] \notin released
    <3>1. 1 \in 1..Len(c.workQueue)
      BY <1>1, <1>3, EmptySeq
    <3>. QED
      BY <1>1, <3>1
  <2>2. TreeOK
    BY CallFacts
  <2>. QED
    BY <1>3, <1>5, <2>1, <2>2, UnreleasedFacts DEF Unreleased, Nodes
<1>7. StepsOf(c) = 1 /\ StepsOf(d) = -1
  BY <1>2, <1>3 DEF StepsOf, NewCall
<1>8. StepsLeft' = 4 * u + (l + 1 - 1) + StepsOf(d)
  BY <1>4, <1>6, StepsLeftAfter
<1>. QED
  BY <1>1, <1>5, <1>6, <1>7, <1>8

LEMMA ReturnCounts == ASSUME DrainInv, Return PROVE StepsLeft' \in 0..(StepsLeft - 1)
<1>1. calls # <<>> /\ Current.workQueue = <<>> /\ calls' = Front(calls) /\ UNCHANGED <<size, released>>
  BY DEF Return
<1>2. PICK l \in Nat \ {0}, c \in CallType :
          /\ l = Len(calls) /\ c = calls[l] /\ c = Current /\ calls \in Seq(CallType)
          /\ c.workQueue \in Seq(Nodes)
          /\ c.draining => c.processed = MaxWorkQueueSize
          /\ c.processed = 0 => Len(c.workQueue) = 1
          /\ \A a \in 1..Len(c.workQueue) : c.workQueue[a] \in Nodes /\ c.workQueue[a] \notin released
          /\ StepsLeft = 4 * Unreleased + (l - 1) + StepsOf(c)
  BY <1>1, CurrentFacts
<1>3. /\ Len(calls') = l - 1 /\ \A i \in 1..Len(calls') : calls'[i].draining
      /\ calls' \in Seq(CallType')
  BY <1>1, <1>2, CallReturns
<1>4. PICK u : u = Unreleased
  OBVIOUS
<1>5. u \in Nat /\ u = Unreleased'
  BY <1>1, <1>4, CallFacts, UnreleasedFacts DEF Unreleased, Nodes
<1>6. StepsLeft' = 4 * u + (l - 1)
  <2>1. calls' = <<>> \/ l - 1 # 0
    BY <1>3, EmptySeq
  <2>. QED
    BY <1>3, <1>5, <2>1, StepsLeftWhenAllDrain
<1>7. StepsOf(c) \in {1, 2}
  <2>1. PICK q, p, g : q = c.workQueue /\ p = c.processed /\ g = c.draining
    OBVIOUS
  <2>2. q = <<>>
    BY <1>1, <1>2, <2>1
  <2>3. Len(q) = 0
    BY <2>2
  <2>4. p # 0
    BY <1>2, <2>1, <2>3
  <2>5. StepsOf(c) = IF g THEN 1 ELSE IF p = 0 THEN -1 ELSE 2
    BY <2>1 DEF StepsOf
  <2>. QED
    BY <2>4, <2>5
<1>. QED
  BY <1>2, <1>4, <1>5, <1>6, <1>7

LEMMA OverflowCounts == ASSUME DrainInv, Overflow PROVE StepsLeft' \in 0..(StepsLeft - 1)
<1>1. PICK l \in Nat \ {0}, c \in CallType :
          /\ l = Len(calls) /\ c = calls[l] /\ c = Current /\ calls \in Seq(CallType)
          /\ c.workQueue \in Seq(Nodes)
          /\ c.draining => c.processed = MaxWorkQueueSize
          /\ c.processed = 0 => Len(c.workQueue) = 1
          /\ \A a \in 1..Len(c.workQueue) : c.workQueue[a] \in Nodes /\ c.workQueue[a] \notin released
          /\ StepsLeft = 4 * Unreleased + (l - 1) + StepsOf(c)
  BY CurrentFacts DEF Overflow, Working
<1>2. PICK d : d = [c EXCEPT !.draining = TRUE]
  OBVIOUS
<1>3. /\ ~c.draining /\ c.processed = MaxWorkQueueSize /\ released' = released /\ size' = size
      /\ calls' = [calls EXCEPT ![l] = d] \/ calls' = Front(calls)
  BY <1>1, <1>2 DEF Overflow, Working, WithCurrent
<1>4. StepsOf(c) = 2
  BY <1>3, SizeAssumption DEF StepsOf
<1>5. PICK u : u = Unreleased
  OBVIOUS
<1>6. u \in Nat /\ u = Unreleased'
  BY <1>3, <1>5, CallFacts, UnreleasedFacts DEF Unreleased, Nodes
<1>7. CASE calls' = [calls EXCEPT ![l] = d]
  <2>1. Len(calls') = l /\ calls'[l] = d
    BY <1>1, <1>7, CurrentReplaced
  <2>2. StepsOf(d) = 1
    BY <1>2, CallDrains DEF StepsOf
  <2>3. StepsLeft' = 4 * u + (l - 1) + StepsOf(d)
    BY <1>6, <2>1, StepsLeftAfter
  <2>. QED
    BY <1>1, <1>4, <1>5, <1>6, <2>2, <2>3
<1>8. CASE calls' = Front(calls)
  <2>1. /\ Len(calls') = l - 1 /\ \A i \in 1..Len(calls') : calls'[i].draining
        /\ calls' \in Seq(CallType')
    BY <1>1, <1>3, <1>8, EmptySeq, CallReturns
  <2>2. calls' = <<>> \/ l - 1 # 0
    BY <2>1, EmptySeq
  <2>3. StepsLeft' = 4 * u + (l - 1)
    BY <1>6, <2>1, <2>2, StepsLeftWhenAllDrain
  <2>. QED
    BY <1>1, <1>4, <1>5, <1>6, <2>3
<1>. QED
  BY <1>3, <1>7, <1>8

Numbered == DrainInv /\ StepsLeft \in Int /\ StepsLeft < 4 * size

LEMMA InitNumbered == Init => Numbered
<1>. SUFFICES ASSUME Init PROVE Numbered
  OBVIOUS
<1>1. DrainInv
  BY InitDrain
<1>2. calls = <<NewCall(1)>> /\ calls # <<>>
  BY DEF Init
<1>3. Unreleased \in Nat /\ Unreleased <= size /\ size \in Nat
  BY <1>1, CallFacts, UnreleasedFacts
<1>4. StepsLeft = 4 * Unreleased + -1
  BY <1>2, <1>3 DEF StepsLeft, Unreleased, Current, StepsOf, NewCall
<1>. QED
  BY <1>1, <1>3, <1>4 DEF Numbered

LEMMA NextNumbered ==
    Numbered /\ [Next]_vars => Numbered' /\ [StepsLeft < 4 * size /\ StepsLeft' \in 0..(StepsLeft - 1)]_vars
<1>. SUFFICES ASSUME Numbered, [Next]_vars
              PROVE  Numbered' /\ [StepsLeft < 4 * size /\ StepsLeft' \in 0..(StepsLeft - 1)]_vars
  OBVIOUS
<1>1. DrainInv'
  BY NextDrain DEF Numbered
<1>2. CASE UNCHANGED vars
  <2>1. StepsLeft' = StepsLeft /\ size' = size
    BY <1>2 DEF vars, StepsLeft, Nodes, Current
  <2>. QED
    BY <1>1, <1>2, <2>1 DEF Numbered
<1>3. CASE Next
  <2>1. StepsLeft' \in 0..(StepsLeft - 1)
    BY <1>3, PopCounts, OverflowCounts, DrainCounts, ReturnCounts DEF Next, Numbered
  <2>2. size' = size /\ size \in Nat
    BY <1>3, CallFacts, UnreleasedFacts DEF Next, Pop, Overflow, Drain, Return, Numbered
  <2>3. StepsLeft' \in Int /\ StepsLeft' < 4 * size'
    BY <2>1, <2>2 DEF Numbered
  <2>. QED
    BY <1>1, <2>1, <2>3 DEF Numbered
<1>. QED
  BY <1>2, <1>3

(* PutExpression comes to an end: a tree of n nodes is released in less than 4n
   steps of the loop and of the drain, whatever its shape and the two bounds,
   because every step leaves less to do.  Under weak fairness of the steps this
   is what Termination takes. *)
THEOREM NoStepIsEverInVain == Spec => NoStepIsInVain
BY InitNumbered, NextNumbered, PTL DEF Spec, NoStepIsInVain
=============================================================================
