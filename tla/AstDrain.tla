------------------------------ MODULE AstDrain ------------------------------
(***************************************************************************)
(* The work queue of PutExpression and its overflow drain:                 *)
(* pkg/sql/ast/pool_expression_release.go, putExpressionImpl.              *)
(*                                                                         *)
(* An expression tree is released from a work queue that handles at most   *)
(* MaxWorkQueueSize nodes.  What is left then is released by recursive     *)
(* calls, one per remaining node, each with a queue of its own, down to    *)
(* MaxCleanupDepth calls; below that it is left to the garbage collector.  *)
(* The node types, the guard and the statements inside expressions are     *)
(* the subject of AstPool.                                                 *)
(***************************************************************************)
EXTENDS Integers, Sequences, FiniteSets, SequencesExt

CONSTANTS
    MaxNodes,          \* bound: nodes of the tree
    MaxWorkQueueSize,  \* nodes one call handles
    MaxCleanupDepth    \* recursive calls below the first

ASSUME SizeAssumption ==
    /\ MaxNodes \in Nat \ {0}
    /\ MaxWorkQueueSize \in Nat \ {0}
    /\ MaxCleanupDepth \in Nat

VARIABLES
    size,       \* the nodes of the tree are 1..size, with root 1
    lastChild,  \* lastChild[n] is the last of the children of the nodes 1..n
    calls,      \* the calls of putExpressionImpl, innermost last
    released,   \* the nodes that went to their pool
    leaks       \* poolLeakCount

vars == <<size, lastChild, calls, released, leaks>>

Nodes == 1..size

\* The nodes are numbered level by level: the children of a node follow those of
\* the node before it, and every node but the root is a child of an earlier one.
Trees(s) ==
    {l \in [1..s -> 1..s] : /\ \A n \in 1..s : n < s => n < l[n]
                           /\ \A m, n \in 1..s : m <= n => l[m] <= l[n]}

Before(n) == IF n = 1 THEN 1 ELSE lastChild[n - 1]
Children(n) == [i \in 1..lastChild[n] - Before(n) |-> Before(n) + i]

\* One call: its work queue, how many nodes it popped, and whether it pops
\* nodes or drains what is left.
NewCall(n) == [workQueue |-> <<n>>, processed |-> 0, draining |-> FALSE]

Depth == Len(calls) - 1
Current == calls[Len(calls)]
WithCurrent(c) == [calls EXCEPT ![Len(calls)] = c]

Init ==
    /\ size \in 1..MaxNodes
    /\ lastChild \in Trees(size)
    /\ calls = <<NewCall(1)>>
    /\ released = {}
    /\ leaks = 0

Working == calls # <<>> /\ ~Current.draining
Draining == calls # <<>> /\ Current.draining

\* The loop: a node is popped, its children are queued, it goes to its pool.
Pop ==
    LET q == Current.workQueue
        n == Last(q)
    IN  /\ Working /\ q # <<>>
        /\ Current.processed < MaxWorkQueueSize
        /\ calls' = WithCurrent([Current EXCEPT !.workQueue = Front(q) \o Children(n),
                                                !.processed = @ + 1])
        /\ released' = released \cup {n}
        /\ UNCHANGED <<size, lastChild, leaks>>

\* Mutant: the drain stops one call too early.
OverflowTooEarly ==
    /\ Working /\ Current.workQueue # <<>>
    /\ Current.processed = MaxWorkQueueSize
    /\ leaks' = leaks + Len(Current.workQueue)
    /\ calls' = IF Depth + 1 < MaxCleanupDepth THEN WithCurrent([Current EXCEPT !.draining = TRUE])
                ELSE Front(calls)
    /\ UNCHANGED <<size, lastChild, released>>

\* The cap is met: what is left is counted, and drained unless the call is too
\* deep.
Overflow ==
    /\ Working /\ Current.workQueue # <<>>
    /\ Current.processed = MaxWorkQueueSize
    /\ leaks' = leaks + Len(Current.workQueue)
    /\ calls' = IF Depth < MaxCleanupDepth THEN WithCurrent([Current EXCEPT !.draining = TRUE])
                ELSE Front(calls)
    /\ UNCHANGED <<size, lastChild, released>>

\* Mutant: the drain leaves the node it hands over in its own queue.
DrainKeeps ==
    /\ Draining /\ Current.workQueue # <<>>
    /\ calls' = Append(calls, NewCall(Head(Current.workQueue)))
    /\ UNCHANGED <<size, lastChild, released, leaks>>

\* The drain: a recursive call for the next remaining node.
Drain ==
    /\ Draining /\ Current.workQueue # <<>>
    /\ calls' = Append(WithCurrent([Current EXCEPT !.workQueue = Tail(@)]),
                       NewCall(Head(Current.workQueue)))
    /\ UNCHANGED <<size, lastChild, released, leaks>>

Return ==
    /\ calls # <<>> /\ Current.workQueue = <<>>
    /\ calls' = Front(calls)
    /\ UNCHANGED <<size, lastChild, released, leaks>>

Next == Pop \/ Overflow \/ Drain \/ Return

Spec == Init /\ [][Next]_vars /\ WF_vars(Next)

-----------------------------------------------------------------------------
(* Properties *)

TypeOK ==
    /\ size \in 1..MaxNodes
    /\ calls \in Seq([workQueue : Seq(Nodes), processed : 0..MaxWorkQueueSize,
                      draining : BOOLEAN])
    /\ released \subseteq Nodes
    /\ leaks \in Nat

\* No node is in two places of the queues, and none is released twice.
ReleasedAtMostOnce ==
    \A i, j \in DOMAIN calls :
        \A a \in DOMAIN calls[i].workQueue, b \in DOMAIN calls[j].workQueue :
            /\ calls[i].workQueue[a] \notin released
            /\ calls[i].workQueue[a] = calls[j].workQueue[b] => i = j /\ a = b

\* "MaxCleanupDepth = 100 bounds this at ~10_000_000 total nodes": up to
\* MaxWorkQueueSize nodes per call every node goes to its pool.
AllReleased ==
    calls = <<>> /\ size <= MaxWorkQueueSize * (MaxCleanupDepth + 1) => released = Nodes

\* "The recursion depth is effectively ceil(total_nodes / MaxWorkQueueSize)".
CallsBounded == (Len(calls) - 1) * MaxWorkQueueSize < size

\* The count is that of distinct nodes the first pass of some call left over,
\* and positive just for the trees above the cap.
LeaksCountLeftovers ==
    /\ leaks > 0 => leaks <= size - MaxWorkQueueSize
    /\ calls = <<>> => (leaks > 0 <=> size > MaxWorkQueueSize)

\* However the calls share a tree out between them, every node reaches its pool
\* once, within the documented depth, and the overflow is counted (549-560).
ReleaseIsComplete == ReleasedAtMostOnce /\ AllReleased /\ CallsBounded /\ LeaksCountLeftovers

\* The steps that are left, at most: each node pays for four, of which a call
\* that has not popped its first node has had one.
StepsOf(call) == IF call.draining THEN 1 ELSE IF call.processed = 0 THEN -1 ELSE 2

StepsLeft ==
    4 * Cardinality(Nodes \ released) + IF calls = <<>> THEN 0 ELSE Len(calls) - 1 + StepsOf(Current)

\* No step is in vain: whatever the calls hand to each other, a release of a tree
\* takes steps in proportion to its nodes (246-565).
NoStepIsInVain == [][StepsLeft < 4 * size /\ StepsLeft' \in 0..(StepsLeft - 1)]_vars

\* A release ends.
Termination == <>(calls = <<>>)
=============================================================================
