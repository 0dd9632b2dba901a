---------------------------- MODULE MCKconfSpace ----------------------------
EXTENDS KconfSpace, TLC
CONSTANTS s0, s1, s2, s3, s4, n1, t1, t2

SchemaPath == <<n1, n1>>
\* One thread makes every call; the other creates and removes meanwhile.
Flags == t1 :> {{"user", "schema"}} @@ t2 :> {{"user"}}
Handles == t1 :> 2 @@ t2 :> 1
MayCall == t1 :> {"open", "create", "reopen", "dup", "shadow", "remove", "load", "unload", "enum"}
           @@ t2 :> {"open", "create", "remove"}
Symmetry == Permutations(Spaces \ {Root})
=============================================================================
