---------------------------- MODULE MCKcdbIdent ----------------------------
(* Two threads, the user interface and an identity provider's plug-in.      *)
EXTENDS KcdbIdent, TLC

CONSTANTS ui, plugin
Threads_MC == {ui, plugin}
CallsOf_MC == (ui :> {"create", "release", "delete", "refresh_all", "default"})
           @@ (plugin :> {"create", "release", "collect", "refresh", "default"})
MaxCalls_MC == (ui :> 2) @@ (plugin :> 3)
=============================================================================
