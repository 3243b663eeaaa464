-------------------------- MODULE MCLspDiagnostics --------------------------
(* Instances of LspDiagnostics for TLC. *)
EXTENDS LspDiagnostics, TLC

CONSTANTS a, b, huge, empty

MCTexts == {a, b, huge, empty}

\* Two full syncs, and the incremental edit that types a character: it takes
\* the empty text to a, a to b, and b past the size limit.
FullSync(x) == [t \in MCTexts |-> x]
Typing == (empty :> a) @@ (a :> b) @@ (b :> huge) @@ (huge :> huge)
MCChanges == {FullSync(a), FullSync(empty), Typing}

TimerSymmetry == Permutations(Timers)
=============================================================================
