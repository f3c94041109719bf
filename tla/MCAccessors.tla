----------------------------- MODULE MCAccessors -----------------------------
(* Every struct of the three generated files. *)
EXTENDS Accessors, RpcTables, TwopartyTables, SchemaTables

AllStructs == RpcStructs @@ TwopartyStructs @@ SchemaStructs
AllRoots == {n \in DOMAIN AllStructs : ~AllStructs[n].node.group}
=============================================================================
