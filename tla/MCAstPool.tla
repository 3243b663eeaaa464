----------------------------- MODULE MCAstPool ------------------------------
(* Instances of AstPool for TLC. *)
EXTENDS AstPool

CONSTANTS stmt, seq, e1, e2, g1, g2

\* A statement, one whose reset wipes the struct, and expressions.
MCNodes == {stmt, seq, e1, e2}
=============================================================================
