------------------------------- MODULE AstPool -------------------------------
(***************************************************************************)
(* Pooled AST nodes and their release guard: pkg/sql/ast/pool.go,          *)
(* pool_expression_release.go and pool_statement_release.go.               *)
(*                                                                         *)
(* Goroutines take nodes from the sync.Pools, assemble them into trees and *)
(* release whole trees.  A release is a walk over a work list, kept here   *)
(* as one stack per goroutine for the LIFO queue of putExpressionImpl and  *)
(* for the call stack of the typed Put functions.  Every node is guarded:  *)
(* guardRelease marks it with a compare-and-swap, and a node that is       *)
(* already marked is refused, counted and not walked.                      *)
(*                                                                         *)
(* Three ways a node goes back to its pool:                                *)
(*   - an expression of the work queue: its children are queued and it is  *)
(*     pooled at once;                                                     *)
(*   - a node of ChildrenFirst (statements, typed Put functions): its      *)
(*     children are released, then it is reset and pooled;                 *)
(*   - a node of Wiped (the sequence statements): the same, but the reset  *)
(*     overwrites the guard, which is set again by a separate store.       *)
(*                                                                         *)
(* The single-owner contract is the callers' to keep.  Aliasing lets them  *)
(* break it, by keeping a reference to a node they attached or by handing  *)
(* one to another goroutine.                                               *)
(***************************************************************************)
EXTENDS Naturals, Sequences, FiniteSets

CONSTANTS
    Nodes,          \* node addresses
    ChildrenFirst,  \* nodes released by a typed Put function
    Wiped,          \* nodes whose reset overwrites the whole struct
    Goroutines,     \* callers of the package
    MaxChildren,    \* bound: children of a node
    MaxAliases,     \* bound: times the single-owner contract is broken
    MaxRefused,     \* bound: refused releases
    NoNode          \* no node

ASSUME NodeAssumption ==
    /\ Wiped \subseteq ChildrenFirst /\ ChildrenFirst \subseteq Nodes
    /\ NoNode \notin Nodes
    /\ MaxChildren \in Nat /\ MaxAliases \in Nat /\ MaxRefused \in Nat

VARIABLES
    fresh,     \* addresses never allocated
    pool,      \* pool[n]: how many times n is in its sync.Pool
    released,  \* poolGuard.released of every node
    children,  \* the child pointers of every node
    roots,     \* the nodes each goroutine believes it owns
    taking,    \* the node a goroutine got from the pool and has not re-armed
    stack,     \* the release walk of each goroutine
    aliases,   \* times the contract was broken
    refused    \* poolDoubleReleaseCount

vars == <<fresh, pool, released, children, roots, taking, stack, aliases, refused>>

\* What a release still has to do for a node: visit it (guard and walk), reset
\* it and pool it, or, after a whole-struct reset, mark it again and pool it.
Entry == [node : Nodes, todo : {"visit", "reset", "mark"}]
Visit(n) == [node |-> n, todo |-> "visit"]
ToReset(n) == [node |-> n, todo |-> "reset"]
ToMark(n) == [node |-> n, todo |-> "mark"]

Top(s) == s[Len(s)]
Rest(s) == SubSeq(s, 1, Len(s) - 1)
VisitAll(ns) == [i \in DOMAIN ns |-> Visit(ns[i])]

Init ==
    /\ fresh = Nodes
    /\ pool = [n \in Nodes |-> 0]
    /\ released = [n \in Nodes |-> FALSE]
    /\ children = [n \in Nodes |-> <<>>]
    /\ roots = [g \in Goroutines |-> {}]
    /\ taking = [g \in Goroutines |-> NoNode]
    /\ stack = [g \in Goroutines |-> <<>>]
    /\ aliases = 0
    /\ refused = 0

-----------------------------------------------------------------------------
(* Building trees *)

\* A goroutine runs one function of the package at a time.
Idle(g) == taking[g] = NoNode /\ stack[g] = <<>>

\* sync.Pool's New, or a node the parser allocates itself.
Allocate(g, n) ==
    /\ Idle(g) /\ n \in fresh
    /\ fresh' = fresh \ {n}
    /\ roots' = [roots EXCEPT ![g] = @ \cup {n}]
    /\ UNCHANGED <<pool, released, children, taking, stack, aliases, refused>>

\* Get: the pool hands out a node...
TakeFromPool(g, n) ==
    /\ Idle(g) /\ pool[n] > 0
    /\ pool' = [pool EXCEPT ![n] = @ - 1]
    /\ taking' = [taking EXCEPT ![g] = n]
    /\ UNCHANGED <<fresh, released, children, roots, stack, aliases, refused>>

\* ...and guardReset re-arms it.
ReArm(g) ==
    /\ taking[g] # NoNode
    /\ released' = [released EXCEPT ![taking[g]] = FALSE]
    /\ roots' = [roots EXCEPT ![g] = @ \cup {taking[g]}]
    /\ taking' = [taking EXCEPT ![g] = NoNode]
    /\ UNCHANGED <<fresh, pool, children, stack, aliases, refused>>

Attach(g, p, c) ==
    /\ Idle(g) /\ {p, c} \subseteq roots[g] /\ p # c
    /\ Len(children[p]) < MaxChildren
    /\ children' = [children EXCEPT ![p] = Append(@, c)]
    /\ roots' = [roots EXCEPT ![g] = @ \ {c}]
    /\ UNCHANGED <<fresh, pool, released, taking, stack, aliases, refused>>

\* Break the contract: a second owner of n.
Alias(g, h, n) ==
    /\ Idle(g) /\ n \in roots[g] /\ g # h /\ n \notin roots[h]
    /\ aliases < MaxAliases
    /\ aliases' = aliases + 1
    /\ roots' = [roots EXCEPT ![h] = @ \cup {n}]
    /\ UNCHANGED <<fresh, pool, released, children, taking, stack, refused>>

\* Break the contract: two wrappers of one goroutine share n.
AttachAndKeep(g, p, c) ==
    /\ Idle(g) /\ {p, c} \subseteq roots[g] /\ p # c
    /\ Len(children[p]) < MaxChildren
    /\ aliases < MaxAliases
    /\ aliases' = aliases + 1
    /\ children' = [children EXCEPT ![p] = Append(@, c)]
    /\ UNCHANGED <<fresh, pool, released, roots, taking, stack, refused>>

-----------------------------------------------------------------------------
(* Releasing a tree *)

\* ReleaseAST, releaseStatement, PutExpression or a typed Put of a root.
Release(g, n) ==
    /\ Idle(g) /\ n \in roots[g]
    /\ roots' = [roots EXCEPT ![g] = @ \ {n}]
    /\ stack' = [stack EXCEPT ![g] = <<Visit(n)>>]
    /\ UNCHANGED <<fresh, pool, released, children, taking, aliases, refused>>

Next2Do(g, todo) == stack[g] # <<>> /\ Top(stack[g]).todo = todo

\* guardRelease fails: count and skip.
Refuse(g) ==
    /\ Next2Do(g, "visit")
    /\ released[Top(stack[g]).node]
    /\ refused < MaxRefused
    /\ refused' = refused + 1
    /\ stack' = [stack EXCEPT ![g] = Rest(@)]
    /\ UNCHANGED <<fresh, pool, released, children, roots, taking, aliases>>

\* Mutant: a pooled expression keeps its child pointers.
PoolExpressionWithChildren(g) ==
    LET n == Top(stack[g]).node
    IN  /\ Next2Do(g, "visit")
        /\ ~released[n] /\ n \notin ChildrenFirst
        /\ released' = [released EXCEPT ![n] = TRUE]
        /\ stack' = [stack EXCEPT ![g] = Rest(@) \o VisitAll(children[n])]
        /\ pool' = [pool EXCEPT ![n] = @ + 1]
        /\ UNCHANGED <<fresh, children, roots, taking, aliases, refused>>

\* Mutant: a case of the type switch that the dispatch does not guard.
PoolExpressionUnguarded(g) ==
    LET n == Top(stack[g]).node
    IN  /\ Next2Do(g, "visit")
        /\ n \notin ChildrenFirst
        /\ released' = [released EXCEPT ![n] = TRUE]
        /\ stack' = [stack EXCEPT ![g] = Rest(@) \o VisitAll(children[n])]
        /\ children' = [children EXCEPT ![n] = <<>>]
        /\ pool' = [pool EXCEPT ![n] = @ + 1]
        /\ UNCHANGED <<fresh, roots, taking, aliases, refused>>

\* Mutant: a case of the type switch that misses the last child.
PoolExpressionAllButLast(g) ==
    LET n == Top(stack[g]).node
    IN  /\ Next2Do(g, "visit")
        /\ ~released[n] /\ n \notin ChildrenFirst
        /\ released' = [released EXCEPT ![n] = TRUE]
        /\ stack' = [stack EXCEPT ![g] = Rest(@) \o VisitAll(SubSeq(children[n], 1, Len(children[n]) - 1))]
        /\ children' = [children EXCEPT ![n] = <<>>]
        /\ pool' = [pool EXCEPT ![n] = @ + 1]
        /\ UNCHANGED <<fresh, roots, taking, aliases, refused>>

\* guardRelease succeeds on an expression: its children are queued and it is
\* reset and pooled.
PoolExpression(g) ==
    LET n == Top(stack[g]).node
    IN  /\ Next2Do(g, "visit")
        /\ ~released[n] /\ n \notin ChildrenFirst
        /\ released' = [released EXCEPT ![n] = TRUE]
        /\ stack' = [stack EXCEPT ![g] = Rest(@) \o VisitAll(children[n])]
        /\ children' = [children EXCEPT ![n] = <<>>]
        /\ pool' = [pool EXCEPT ![n] = @ + 1]
        /\ UNCHANGED <<fresh, roots, taking, aliases, refused>>

\* guardRelease succeeds in a typed Put: its children come first.
ReleaseChildren(g) ==
    LET n == Top(stack[g]).node
    IN  /\ Next2Do(g, "visit")
        /\ ~released[n] /\ n \in ChildrenFirst
        /\ released' = [released EXCEPT ![n] = TRUE]
        /\ stack' = [stack EXCEPT ![g] = Append(Rest(@), ToReset(n)) \o VisitAll(children[n])]
        /\ children' = [children EXCEPT ![n] = <<>>]
        /\ UNCHANGED <<fresh, pool, roots, taking, aliases, refused>>

\* Mutant: a typed Put that returns before sync.Pool.Put.
ForgetStatement(g) ==
    LET n == Top(stack[g]).node
    IN  /\ Next2Do(g, "reset")
        /\ n \notin Wiped
        /\ stack' = [stack EXCEPT ![g] = Rest(@)]
        /\ UNCHANGED <<fresh, pool, released, children, roots, taking, aliases, refused>>

\* The end of a typed Put: fields are reset one by one, the node is pooled.
PoolStatement(g) ==
    LET n == Top(stack[g]).node
    IN  /\ Next2Do(g, "reset")
        /\ n \notin Wiped
        /\ stack' = [stack EXCEPT ![g] = Rest(@)]
        /\ pool' = [pool EXCEPT ![n] = @ + 1]
        /\ UNCHANGED <<fresh, released, children, roots, taking, aliases, refused>>

\* The end of ReleaseCreateSequenceStatement and its like: "*s = T{}" clears
\* the guard with the rest...
WipeStatement(g) ==
    LET n == Top(stack[g]).node
    IN  /\ Next2Do(g, "reset")
        /\ n \in Wiped
        /\ released' = [released EXCEPT ![n] = FALSE]
        /\ stack' = [stack EXCEPT ![g] = Append(Rest(@), ToMark(n))]
        /\ UNCHANGED <<fresh, pool, children, roots, taking, aliases, refused>>

\* Mutant: a whole-struct reset that does not mark the node again.
PoolUnmarked(g) ==
    LET n == Top(stack[g]).node
    IN  /\ Next2Do(g, "mark")
        /\ stack' = [stack EXCEPT ![g] = Rest(@)]
        /\ pool' = [pool EXCEPT ![n] = @ + 1]
        /\ UNCHANGED <<fresh, released, children, roots, taking, aliases, refused>>

\* ...and s.released.Store(true) marks it again before it is pooled.
PoolWiped(g) ==
    LET n == Top(stack[g]).node
    IN  /\ Next2Do(g, "mark")
        /\ released' = [released EXCEPT ![n] = TRUE]
        /\ stack' = [stack EXCEPT ![g] = Rest(@)]
        /\ pool' = [pool EXCEPT ![n] = @ + 1]
        /\ UNCHANGED <<fresh, children, roots, taking, aliases, refused>>

ReleaseStep(g) ==
    \/ Refuse(g) \/ PoolExpression(g) \/ ReleaseChildren(g)
    \/ PoolStatement(g) \/ WipeStatement(g) \/ PoolWiped(g)

Next ==
    \E g \in Goroutines :
        \/ \E n \in Nodes : Allocate(g, n) \/ TakeFromPool(g, n) \/ Release(g, n)
        \/ ReArm(g)
        \/ \E p, c \in Nodes : Attach(g, p, c) \/ AttachAndKeep(g, p, c)
        \/ \E h \in Goroutines, n \in Nodes : Alias(g, h, n)
        \/ ReleaseStep(g)

\* The goroutines run; nothing forces a caller to release what it holds.
Fairness == \A g \in Goroutines : WF_vars(ReArm(g)) /\ WF_vars(ReleaseStep(g))

Spec == Init /\ [][Next]_vars /\ Fairness

-----------------------------------------------------------------------------
(* Properties *)

TypeOK ==
    /\ fresh \subseteq Nodes
    /\ pool \in [Nodes -> Nat]
    /\ released \in [Nodes -> BOOLEAN]
    /\ children \in [Nodes -> Seq(Nodes)]
    /\ roots \in [Goroutines -> SUBSET Nodes]
    /\ taking \in [Goroutines -> Nodes \cup {NoNode}]
    /\ stack \in [Goroutines -> Seq(Entry)]
    /\ aliases \in 0..MaxAliases
    /\ refused \in 0..MaxRefused

\* "A pooled node must read as released until Get re-arms it."
PooledReadsReleased ==
    \A n \in Nodes : pool[n] > 0 /\ (aliases = 0 \/ n \notin Wiped) => released[n]

\* A node is in its pool at most once, whoever releases it how often: what the
\* guard is for ("the second release would re-pool a node").
NeverPooledTwice == \A n \in Nodes : aliases = 0 \/ n \notin Wiped => pool[n] <= 1

\* What the guard is for: a pool holds a node once, and as released.
GuardHolds == PooledReadsReleased /\ NeverPooledTwice

\* "When two owners race to release the same aliased node, exactly one wins and
\* the other is counted."
OneReleaseWins == \A n \in Nodes : pool[n] <= 1

\* Everything that refers to a node.
Places(n) ==
    {<<"root", g>> : g \in {h \in Goroutines : n \in roots[h]}}
        \cup {<<"taken", g>> : g \in {h \in Goroutines : taking[h] = n}}
        \cup (UNION {{<<"child", p, i>> : i \in {j \in DOMAIN children[p] : children[p][j] = n}} :
                     p \in Nodes})
        \cup (UNION {{<<"stack", g, i>> : i \in {j \in DOMAIN stack[g] : stack[g][j].node = n}} :
                     g \in Goroutines})

\* As long as callers keep the contract, a node has one owner, or none when it
\* is in its pool: no pooled node is reachable, none is shared, none is lost.
SingleOwner ==
    aliases = 0 =>
        \A n \in Nodes : Cardinality(Places(n)) = IF n \in fresh \/ pool[n] > 0 THEN 0 ELSE 1

\* The count blames callers only when the contract was broken.
RefusalsAreAliases == aliases = 0 => refused = 0

\* Even when it is broken, a release loses no node: what is nowhere referred to
\* is in its pool.
NoNodeLost ==
    \A n \in Nodes : n \in fresh \/ pool[n] > 0 \/ Places(n) # {}

\* Every node is accounted for, whatever its owners do to it.
NodesAccountedFor == SingleOwner /\ RefusalsAreAliases /\ NoNodeLost

\* Under the contract a node whose release has begun does reach its pool.
ReleasedIsPooled ==
    \A n \in Nodes :
        (\E g \in Goroutines : \E i \in DOMAIN stack[g] : stack[g][i].node = n)
            ~> (pool[n] > 0 \/ aliases > 0)

\* The nodes whose guard can be relied on: all, if callers keep the contract, and
\* those that no reset wipes, whatever callers do.
Guardable == IF MaxAliases = 0 THEN Nodes ELSE Nodes \ Wiped

\* The nodes whose guard a walk has won and that it has not pooled.
Won(s) == {s[i].node : i \in {j \in DOMAIN s : s[j].todo # "visit"}}

\* The life of a node as NodeLifecycle has it.
Lifecycle == INSTANCE NodeLifecycle WITH
    Nodes <- Guardable,
    fresh <- fresh \cap Guardable,
    pool <- [n \in Guardable |-> pool[n]],
    taken <- [g \in Goroutines |-> {n \in Guardable : n = taking[g]}],
    closing <- [g \in Goroutines |-> Won(stack[g]) \cap Guardable]

\* Whoever keeps a reference to a node, and whoever releases it when: a node that
\* was released is released again only after a Get has made it ready, the
\* goroutine that wins its guard pools it, once, and one goroutine gets it
\* (pool.go:86).
ImplementsLifecycle == Lifecycle!Spec
=============================================================================
