--------------------------- MODULE MCRpcConnection ---------------------------
(* Instances of RpcConnection for TLC. *)
EXTENDS RpcConnection

\* Vat 0 asks three times and vat 1 never, or vat 0 twice and vat 1 once: the
\* vat that asks less starts with one question of its budget spent.
ThreeOrOne == [v \in Vats |-> IF v = 0 THEN 3 ELSE 1]
EitherSpec ==
    /\ \E asked \in {[v \in Vats |-> v], [v \in Vats |-> 1 - v]} : InitFrom(asked)
    /\ [][Next]_vars

\* Vat 0 asks twice.
TwoCalls == [v \in Vats |-> IF v = 0 THEN 2 ELSE 0]
=============================================================================
