------------------------- MODULE DiagnosticsService -------------------------
(***************************************************************************)
(* What the language server promises about diagnostics, without timers,    *)
(* callbacks or stored documents.  A request of the editor asks for a      *)
(* publication; each requested publication waits in a slot of its own and  *)
(* is delivered once, in any order.  A waiting publication is withdrawn    *)
(* only by a later request about the same document.                        *)
(***************************************************************************)
CONSTANTS
    Docs,          \* document URIs
    Messages,      \* what can be published; a publication names its document
    Slots,         \* where requested publications wait
    None           \* an empty slot

VARIABLES
    waiting,  \* the publication that waits in each slot
    shown     \* the last publication delivered for each document

vars == <<waiting, shown>>

Init ==
    /\ waiting = [s \in Slots |-> None]
    /\ shown \in [Docs -> Messages]

\* A request for publication p takes a free slot, and may withdraw other
\* waiting publications of the same document.
Request(s, p) ==
    /\ waiting[s] = None
    /\ \E withdrawn \in SUBSET {r \in Slots : waiting[r] # None /\ waiting[r].uri = p.uri} :
          waiting' = [r \in Slots |-> IF r = s THEN p
                                      ELSE IF r \in withdrawn THEN None
                                      ELSE waiting[r]]
    /\ UNCHANGED shown

Deliver(s) ==
    /\ waiting[s] # None
    /\ shown' = [shown EXCEPT ![waiting[s].uri] = waiting[s]]
    /\ waiting' = [waiting EXCEPT ![s] = None]

Next == \E s \in Slots : Deliver(s) \/ \E p \in Messages : Request(s, p)

Spec == Init /\ [][Next]_vars /\ \A s \in Slots : WF_vars(Deliver(s))
=============================================================================
