--------------------------- MODULE MCSchemaIndex ---------------------------
(* A service and a script index two tables; the embedding models differ in *)
(* their dimension.                                                        *)
EXTENDS SchemaIndex, TLC

CONSTANTS t1, t2, v1, v2, hashing, titan

SmallDim == hashing :> 512 @@ titan :> 1024
Symmetry == Permutations({t1, t2}) \cup Permutations({v1, v2})
=============================================================================
