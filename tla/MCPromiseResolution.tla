------------------------- MODULE MCPromiseResolution -------------------------
(* Instances of PromiseResolution for TLC. *)
EXTENDS PromiseResolution
=============================================================================
