--------------------------- MODULE MCCredDispatch ---------------------------
(* An instance of CredDispatch: t2 depends on t1, t1's plug-in derives.     *)
EXTENDS CredDispatch, TLC

CONSTANTS t1, t2
Types_MC == {t1, t2}
DepsOf_MC == (t1 :> {}) @@ (t2 :> {t1})
Derives_MC == {t1}
=============================================================================
