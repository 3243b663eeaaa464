---------------------------- MODULE NodeLifecycle ----------------------------
(***************************************************************************)
(* What the pools and the release guard promise about a node, whoever      *)
(* refers to it and however often it is released: it goes round, from its  *)
(* first owner to a release that wins its guard, to the pool, to the       *)
(* goroutine that gets it from there and makes it ready for the next       *)
(* owner, and at each of these places it is once.                          *)
(***************************************************************************)
EXTENDS Naturals

CONSTANTS Nodes, Goroutines

VARIABLES
    fresh,    \* nodes never allocated
    pool,     \* pool[n]: how many times n can be got from the pool
    taken,    \* taken[g]: the nodes that g got and has not made ready
    closing   \* closing[g]: the nodes whose guard g won and that it has to pool

vars == <<fresh, pool, taken, closing>>

Init ==
    /\ fresh = Nodes
    /\ pool = [n \in Nodes |-> 0]
    /\ taken = [g \in Goroutines |-> {}]
    /\ closing = [g \in Goroutines |-> {}]

\* A node that is in the hands of owners, one or more.
Live(n) ==
    /\ n \notin fresh /\ pool[n] = 0
    /\ \A g \in Goroutines : n \notin taken[g] /\ n \notin closing[g]

Allocate(n) ==
    /\ n \in fresh
    /\ fresh' = fresh \ {n}
    /\ UNCHANGED <<pool, taken, closing>>

\* One release of all that there may be wins; an expression is pooled at once.
Close(g, n) ==
    /\ Live(n)
    /\ closing' = [closing EXCEPT ![g] = @ \cup {n}]
    /\ UNCHANGED <<fresh, pool, taken>>

ClosePooled(n) ==
    /\ Live(n)
    /\ pool' = [pool EXCEPT ![n] = 1]
    /\ UNCHANGED <<fresh, taken, closing>>

Put(g, n) ==
    /\ n \in closing[g] /\ pool[n] = 0
    /\ closing' = [closing EXCEPT ![g] = @ \ {n}]
    /\ pool' = [pool EXCEPT ![n] = 1]
    /\ UNCHANGED <<fresh, taken>>

\* A goroutine gets one node at a time, and makes it ready itself.
Get(g, n) ==
    /\ pool[n] = 1 /\ taken[g] = {}
    /\ pool' = [pool EXCEPT ![n] = 0]
    /\ taken' = [taken EXCEPT ![g] = {n}]
    /\ UNCHANGED <<fresh, closing>>

Ready(g) ==
    /\ taken[g] # {}
    /\ taken' = [taken EXCEPT ![g] = {}]
    /\ UNCHANGED <<fresh, pool, closing>>

Next ==
    \/ \E n \in Nodes : Allocate(n) \/ ClosePooled(n)
    \/ \E g \in Goroutines, n \in Nodes : Close(g, n) \/ Put(g, n) \/ Get(g, n)
    \/ \E g \in Goroutines : Ready(g)

Spec == Init /\ [][Next]_vars
=============================================================================
