------------------------------- MODULE MCKmm -------------------------------
(***************************************************************************)
(* Three modules.  The first may fail, before or after it provides e, which *)
(* the third provides again and which may fail to initialise; c waits for a *)
(* of another module and for b of its own, which is initialised later.      *)
(***************************************************************************)
EXTENDS Kmm

CONSTANTS m1, m2, m3, a, b, c, e

MCOrder == <<m1, m2, m3>>
MCProvides == (m1 :> <<e>>) @@ (m2 :> <<a>>) @@ (m3 :> <<e, b, c>>)
MCDeps == (a :> {}) @@ (b :> {}) @@ (c :> {a, b}) @@ (e :> {})
MCOutcomes == (m1 :> {"init_failed", "not_loaded"}) @@ (m2 :> {"ok"}) @@ (m3 :> {"ok"})
=============================================================================
