------------------------------ MODULE MCLayout ------------------------------
(* An instance of Layout for TLC. *)
EXTENDS Layout

\* A struct of nothing, of data and a pointer, and of two pointers.
Sizes == {[d |-> 0, p |-> 0], [d |-> 1, p |-> 1], [d |-> 0, p |-> 2]}
=============================================================================
