--------------------------------- MODULE Kmm ---------------------------------
(***************************************************************************)
(* The module manager, src/kmm: the main thread loads the modules and at   *)
(* last unloads them, the registrar thread initialises and exits modules   *)
(* and plug-ins one message at a time, and a broker thread per plug-in     *)
(* runs it.  A step is one hold of cs_kmm, one access of a variable that   *)
(* is read without it, or one handler that only touches what is its own.   *)
(***************************************************************************)
EXTENDS Integers, Sequences, FiniteSets, SequencesExt

CONSTANTS
  Modules, Plugins,
  Order,        \* the modules in the order the registry lists them
  Provides,     \* the plug-ins each module's init_module provides, in order
  Deps,         \* the names each plug-in depends on
  Outcomes,     \* what loading each module may come to
  MayFail,      \* plug-ins whose KMSG_SYSTEM_INIT may fail
  Disabled,     \* plug-ins the registry has disabled
  EarlyExit,    \* whether the user may quit before start-up is done
  Registrar, Main, None

Loads == {"ok", "not_loaded", "no_entry", "init_failed", "no_plugins"}

ASSUME KmmAssumption ==
  /\ Order \in Seq(Modules)
  /\ Provides \in [Modules -> Seq(Plugins)]
  /\ Deps \in [Plugins -> SUBSET Plugins]
  /\ Outcomes \in [Modules -> SUBSET Loads]
  /\ MayFail \subseteq Plugins /\ Disabled \subseteq Plugins
  /\ EarlyExit \in BOOLEAN

VARIABLES
  plug,        \* a kmm_plugin_i per name; a name without a record has FreshPlugin
  mod,         \* a kmm_module_i per name
  regq,        \* the KMSG_KMM_I_REG messages of the registrar's queue
  reg,         \* what the registrar is doing
  broker,      \* where each plug-in's broker thread is
  quit,        \* a quit message is in the broker's queue
  main,        \* where the main thread is
  left,        \* the modules kmm_load_default_modules has yet to load
  check,       \* where a thread is in kmmint_check_completion
  pending_modules, pending_plugins, startup_signal, load_done,
  evt_exit,
  subscribed,  \* the main window has subscribed to KMSG_KMM
  begun        \* how often the start-up actions were begun

counts == <<pending_modules, pending_plugins, startup_signal, load_done>>
window == <<subscribed, begun>>
vars == <<plug, mod, regq, reg, broker, quit, main, left, check, counts, evt_exit, window>>

Threads == Plugins \cup {Registrar, Main}

FreshPlugin == [state |-> "NONE", refs |-> 0, module |-> None, inqueue |-> FALSE,
                inmodcount |-> FALSE, unresolved |-> 0, dependants |-> <<>>]
FreshModule == [state |-> "NONE", refs |-> 0, plugin_count |-> 0, loaded |-> FALSE,
                plugins |-> <<>>]

Idle == [at |-> "idle", op |-> "none", m |-> None, p |-> None, fate |-> "keep"]

Init ==
  /\ plug = [p \in Plugins |-> FreshPlugin]
  /\ mod = [m \in Modules |-> FreshModule]
  /\ regq = <<>> /\ reg = Idle
  /\ broker = [p \in Plugins |-> "none"]
  /\ quit = [p \in Plugins |-> FALSE]
  /\ main = "loading" /\ left = Order
  /\ check = [t \in Threads |-> "no"]
  /\ pending_modules = 1       \* kmm_load_default_modules adds one for itself
  /\ pending_plugins = 0
  /\ startup_signal = 0 /\ load_done = FALSE
  /\ evt_exit = TRUE
  /\ subscribed = FALSE /\ begun = 0

-----------------------------------------------------------------------------
(* Holds and releases.  They act on a record of the plug-ins, the modules   *)
(* and the plug-ins that were released, so that a handler composes      *)
(* them and frees what is to be freed at its end.                           *)

Now == [plug |-> plug, mod |-> mod, released |-> {}]

HoldPlugin(s, p) == [s EXCEPT !.plug[p].refs = @ + 1]
\* (Mutant: without the count.)
HoldNothing(s, m) == s
HoldModule(s, m) == [s EXCEPT !.mod[m].refs = @ + 1]

ReleasePlugin(s, p) == [s EXCEPT !.plug[p].refs = @ - 1, !.released = @ \cup {p}]

Less(module, n) == IF module.refs = n THEN FreshModule ELSE [module EXCEPT !.refs = @ - n]
ReleaseModule(s, m) == [s EXCEPT !.mod[m] = Less(@, 1)]

\* kmmint_free_plugin releases the plug-ins that wait for the one it frees, and
\* its module.  (Mutant: the plug-ins that wait are forgotten.)
ReleasesNone(s, q, p) == FALSE
Releases(s, q, p) == p \in ToSet(s.plug[q].dependants)

\* What is freed in the end: the least set that has every plug-in whose last
\* hold was released, by s or by the freeing of another.
Freed(s) ==
  LET by(p, D) == {q \in D : Releases(s, q, p)}
      closed(D) == \A p \in Plugins :
         /\ p \in s.released \/ by(p, D) # {}
         /\ s.plug[p].refs <= Cardinality(by(p, D))
         => p \in D
  IN  {p \in Plugins : \A D \in SUBSET Plugins : closed(D) => p \in D}

Commit(s0) ==
  \E s \in {s0} : \E D \in {Freed(s)} :
    /\ plug' = [p \in Plugins |->
          IF p \in D THEN FreshPlugin
          ELSE [s.plug[p] EXCEPT !.refs = @ - Cardinality({q \in D : Releases(s, q, p)})]]
    /\ mod' = [m \in Modules |->
          LET gone == {p \in D : s.plug[p].module = m}
          IN  IF gone = {} THEN s.mod[m] ELSE Less(s.mod[m], Cardinality(gone))]

-----------------------------------------------------------------------------
(* kmmint_check_completion, by any thread: the two counts are read without   *)
(* a lock, one after the other.                                              *)

Free(t) == check[t] = "no"

CheckModules(t) ==
  /\ check[t] = "modules"
  /\ check' = [check EXCEPT ![t] = IF pending_modules = 0 THEN "plugins" ELSE "no"]
  /\ UNCHANGED <<plug, mod, regq, reg, broker, quit, main, left, counts, evt_exit, window>>

\* (Mutant: the signal is tested without being taken.)
SignalTwice == startup_signal <= 1
SignalFirst == startup_signal = 0

CheckPlugins(t) ==
  /\ check[t] = "plugins"
  /\ IF pending_plugins = 0
     THEN /\ startup_signal' = startup_signal + 1
          /\ check' = [check EXCEPT ![t] = IF SignalFirst THEN "done" ELSE "no"]
     ELSE check' = [check EXCEPT ![t] = "no"] /\ UNCHANGED startup_signal
  /\ UNCHANGED <<plug, mod, regq, reg, broker, quit, main, left, pending_modules,
                 pending_plugins, load_done, evt_exit, window>>

\* load_done is set and KMSG_KMM_I_DONE posted; the main window, when it has
\* subscribed, refreshes the credentials and then begins the start-up actions.
CheckDone(t) ==
  /\ check[t] = "done"
  /\ check' = [check EXCEPT ![t] = "no"]
  /\ load_done' = TRUE
  /\ begun' = IF subscribed THEN begun + 1 ELSE begun
  /\ UNCHANGED <<plug, mod, regq, reg, broker, quit, main, left, pending_modules,
                 pending_plugins, startup_signal, evt_exit, subscribed>>

\* kmmint_remove_from_module_queue and kmmint_remove_from_plugin_queue: what
\* they do before they check.
LeaveModuleQueue(t) ==
  /\ pending_modules' = pending_modules - 1
  /\ check' = [check EXCEPT ![t] = "modules"]

LeavePluginQueue(p) ==
  /\ pending_plugins' = IF plug[p].inqueue THEN pending_plugins - 1 ELSE pending_plugins
  /\ plug' = [plug EXCEPT ![p].inqueue = FALSE]
  /\ check' = [check EXCEPT ![p] = "modules"]

-----------------------------------------------------------------------------
(* The main thread *)

\* One round of kmm_load_default_modules: kmm_load_module without result.
\* (Mutant: the module is not added to the queue.)
LoadUncounted == UNCHANGED pending_modules
LoadCounted == pending_modules' = pending_modules + 1

LoadModule ==
  /\ main = "loading" /\ left # <<>>
  /\ LET m == Head(left) IN
       /\ mod' = [mod EXCEPT ![m].state = "PREINIT", ![m].refs = @ + 1]
       /\ regq' = Append(regq, <<"INIT_MODULE", m>>)
  /\ LoadCounted
  /\ left' = Tail(left)
  /\ UNCHANGED <<plug, reg, broker, quit, main, check, pending_plugins, startup_signal,
                 load_done, evt_exit, window>>

LoadEnd ==
  /\ main = "loading" /\ left = <<>>
  /\ LeaveModuleQueue(Main)
  /\ main' = "creating"
  /\ UNCHANGED <<plug, mod, regq, reg, broker, quit, left, pending_plugins, startup_signal,
                 load_done, evt_exit, window>>

\* WM_CREATE of the main window: subscribe, then look whether it is too late.
WindowSubscribe ==
  /\ main = "creating" /\ Free(Main)
  /\ subscribed' = TRUE
  /\ main' = "looking"
  /\ UNCHANGED <<plug, mod, regq, reg, broker, quit, left, check, counts, evt_exit, begun>>

\* (Mutant: it does not look.)
LookNot == begun' = begun
Look == begun' = IF load_done THEN begun + 1 ELSE begun

WindowLook ==
  /\ main = "looking"
  /\ Look
  /\ main' = "up"
  /\ UNCHANGED <<plug, mod, regq, reg, broker, quit, left, check, counts, evt_exit, subscribed>>

Posts(op, s) == [i \in DOMAIN s |-> <<op, s[i]>>]

\* kmm_exit up to its wait: placeholders that nothing holds go, with the holds
\* they have; every module known, the latest first, is asked to exit.
ExitAll ==
  /\ main = "up" /\ (load_done \/ EarlyExit)
  /\ LET idle == {p \in Plugins : plug[p].state = "PLACEHOLDER" /\ plug[p].refs = 0}
         known == SelectSeq(Reverse(Order), LAMBDA m : mod[m].state # "NONE")
         s == [Now EXCEPT !.released = idle]
     IN  /\ Commit(FoldLeft(HoldModule, s, known))
         /\ regq' = regq \o Posts("EXIT_MODULE", known)
  /\ main' = "waiting"
  /\ UNCHANGED <<reg, broker, quit, left, check, counts, evt_exit, window>>

ExitWait ==
  /\ main = "waiting" /\ evt_exit
  /\ regq' = Append(regq, <<"QUIT", None>>)
  /\ main' = "done"
  /\ UNCHANGED <<plug, mod, reg, broker, quit, left, check, counts, evt_exit, window>>

-----------------------------------------------------------------------------
(* The registrar: plug-ins *)

Takes(op) == reg.at = "idle" /\ Free(Registrar) /\ regq # <<>> /\ Head(regq)[1] = op
Taken == Head(regq)[2]

\* What follows kmmint_init_plugin or kmmint_exit_plugin: the hold of the
\* message, or that of the module's list, is released.
Return(op) == IF op = "INIT_MODULE" THEN [reg EXCEPT !.at = "plugins", !.p = None] ELSE Idle

\* kmmint_exit_plugin's first test.  A quit message gets to a thread that has
\* a queue: tid_thread is not set in "starting", and whether KMSG_SYSTEM_INIT
\* attached a queue depends on the plug-in.
QuitArrives(p) == CASE broker[p] = "starting" -> {FALSE}
                    [] broker[p] = "init" -> BOOLEAN
                    [] OTHER -> {TRUE}

ExitPlugin(s, op, p) ==
  IF s.plug[p].state \in {"RUNNING", "INIT"}
  THEN /\ \E b \in QuitArrives(p) : quit' = [quit EXCEPT ![p] = @ \/ b]
       /\ Commit(ReleasePlugin(s, p))
       /\ reg' = Return(op)
  ELSE /\ UNCHANGED quit
       /\ Commit(s)
       /\ reg' = [reg EXCEPT !.at = "join", !.op = op, !.p = p]

\* The rest of it, when the thread has ended.
BeforeHold == {"FAIL_INIT", "FAIL_DISABLED", "NONE", "PLACEHOLDER", "REG", "PREINIT"}

LastOf(p) == plug[p].inmodcount /\ mod[plug[p].module].plugin_count = 1

ExitPluginEnd ==
  /\ reg.at = "join"
  /\ LET p == reg.p
         m == plug[p].module
         s == IF plug[p].inmodcount
              THEN [Now EXCEPT !.mod[m].plugin_count = @ - 1, !.plug[p].inmodcount = FALSE]
              ELSE Now
         t == IF plug[p].state \in BeforeHold THEN s
              ELSE ReleasePlugin([s EXCEPT !.plug[p].state = "EXITED"], p)
         u == IF LastOf(p) THEN HoldModule(t, m) ELSE t
     IN  /\ broker[p] \in {"none", "gone"}
         /\ Commit(ReleasePlugin(u, p))
         /\ regq' = IF LastOf(p) THEN Append(regq, <<"EXIT_MODULE", m>>) ELSE regq
  /\ reg' = Return(reg.op)
  /\ UNCHANGED <<broker, quit, main, left, check, counts, evt_exit, window>>

TakeExitPlugin ==
  /\ Takes("EXIT_PLUGIN")
  /\ ExitPlugin(Now, "EXIT_PLUGIN", Taken)
  /\ regq' = Tail(regq)
  /\ UNCHANGED <<broker, main, left, check, counts, evt_exit, window>>

\* kmmint_init_plugin up to its test of the configuration.  A plug-in that was
\* on hold gives back the hold and the count of its first attempt.
\* (Mutants: the hold of the first attempt is kept, or the count.)
UndoCountNot(s, p) == [ReleasePlugin(s, p) EXCEPT !.plug[p].inmodcount = FALSE]
UndoHoldNot(s, p) == [s EXCEPT !.mod[s.plug[p].module].plugin_count = @ - 1,
                               !.plug[p].inmodcount = FALSE]
UndoHold(s, p) == [ReleasePlugin(s, p) EXCEPT !.mod[s.plug[p].module].plugin_count = @ - 1,
                                              !.plug[p].inmodcount = FALSE]

InitPlugin(s0, op, p) ==
  LET s == HoldPlugin(s0, p)
      t == IF s.plug[p].state = "HOLD" THEN UndoHold(s, p) ELSE s
  IN  IF s.plug[p].state \notin {"REG", "HOLD"} THEN ExitPlugin(s, op, p)
      ELSE /\ UNCHANGED quit
           /\ Commit([t EXCEPT !.plug[p].state =
                        IF p \in Disabled THEN "FAIL_DISABLED" ELSE "PREINIT"])
           /\ reg' = [reg EXCEPT !.at = IF p \in Disabled THEN "join" ELSE "depends",
                                 !.op = op, !.p = p]

TakeInitPlugin ==
  /\ Takes("INIT_PLUGIN")
  /\ InitPlugin(Now, "INIT_PLUGIN", Taken)
  /\ regq' = Tail(regq)
  /\ UNCHANGED <<broker, main, left, check, counts, evt_exit, window>>

\* The second hold of cs_kmm: each dependency, known or not, learns who waits
\* for it, and those that do not run are counted.
\* (Mutant: a dependency that is still initialising counts as resolved.)
ResolvedEarly(q) == plug[q].state \in {"INIT", "RUNNING"}
Resolved(q) == plug[q].state = "RUNNING"

AddDependant(q, p) ==
  [plug[q] EXCEPT !.state = IF @ = "NONE" THEN "PLACEHOLDER" ELSE @,
                  !.dependants = IF p \in ToSet(@) THEN @ ELSE Append(@, p)]

InitPluginDepends ==
  /\ reg.at = "depends"
  /\ LET p == reg.p
         new == {q \in Deps[p] : p \notin ToSet(plug[q].dependants)}
         n == Cardinality({q \in Deps[p] : ~Resolved(q)})
         s == [Now EXCEPT
                 !.plug = [q \in Plugins |->
                    IF q = p THEN [plug[p] EXCEPT !.refs = @ + Cardinality(new),
                                                  !.unresolved = n, !.inmodcount = TRUE,
                                                  !.state = IF n > 0 THEN "HOLD" ELSE @]
                    ELSE IF q \in Deps[p] THEN AddDependant(q, p) ELSE plug[q]],
                 !.mod[plug[p].module].plugin_count = @ + 1]
     IN  IF n > 0 THEN /\ Commit(ReleasePlugin(s, p))
                       /\ reg' = Return(reg.op)
                  ELSE /\ Commit(s)
                       /\ reg' = [reg EXCEPT !.at = "start"]
  /\ UNCHANGED <<regq, broker, quit, main, left, check, counts, evt_exit, window>>

\* kmmint_add_to_plugin_queue for those in S.  (Mutant: the flag is not looked at.)
QueueAgain(S) == Cardinality(S)
Queued(S) == Cardinality({p \in S : ~plug[p].inqueue})

InitPluginStart ==
  /\ reg.at = "start"
  /\ LET p == reg.p IN
       /\ Commit(ReleasePlugin([Now EXCEPT !.plug[p].state = "INIT",
                                           !.plug[p].inqueue = TRUE], p))
       /\ pending_plugins' = pending_plugins + Queued({p})
       /\ broker' = [broker EXCEPT ![p] = "starting"]
  /\ reg' = Return(reg.op)
  /\ UNCHANGED <<regq, quit, main, left, check, pending_modules, startup_signal, load_done,
                 evt_exit, window>>

-----------------------------------------------------------------------------
(* The registrar: modules *)

\* kmm_provide_plugin, called by the module's init_module.
Provide(m, s, p) ==
  IF s.plug[p].state \notin {"NONE", "PLACEHOLDER"} THEN s
  ELSE HoldModule([s EXCEPT !.plug[p].state = "REG", !.plug[p].refs = @ + 1,
                            !.plug[p].module = m, !.mod[m].plugins = <<p>> \o @], m)

ProvideAll(s, m) == FoldLeft(LAMBDA t, p : Provide(m, t, p), s, Provides[m])

\* kmmint_init_module up to the plug-ins.  fate is what its end does with the
\* module: "release" the hold, "exit" the module, or "keep" it.
TakeInitModule ==
  /\ Takes("INIT_MODULE")
  /\ LET m == Taken
         s == HoldModule(Now, m)
         t == [s EXCEPT !.mod[m].loaded = TRUE]
         leave(u, fate) == /\ Commit(u)
                           /\ reg' = [Idle EXCEPT !.at = "leave", !.m = m, !.fate = fate]
                           /\ LeaveModuleQueue(Registrar)
     IN  \/ mod[m].state # "PREINIT" /\ leave(s, "release") /\ UNCHANGED evt_exit
         \/ /\ mod[m].state = "PREINIT" /\ "not_loaded" \in Outcomes[m]
            /\ leave([s EXCEPT !.mod[m].state = "FAIL"], "release")
            /\ UNCHANGED evt_exit
         \/ /\ mod[m].state = "PREINIT" /\ evt_exit' = FALSE
            /\ \/ /\ Outcomes[m] \cap {"no_entry", "no_plugins"} # {}
                  /\ leave([t EXCEPT !.mod[m].state = "FAIL"], "exit")
               \/ /\ "init_failed" \in Outcomes[m]
                  /\ leave([ProvideAll(t, m) EXCEPT !.mod[m].state = "FAIL"], "exit")
               \/ /\ "ok" \in Outcomes[m]
                  /\ Commit([ProvideAll(t, m) EXCEPT !.mod[m].state = "INITPLUG"])
                  /\ reg' = [Idle EXCEPT !.at = "plugins", !.op = "INIT_MODULE", !.m = m]
                  /\ UNCHANGED <<check, pending_modules>>
  /\ regq' = Tail(regq)
  /\ UNCHANGED <<broker, quit, main, left, pending_plugins, startup_signal, load_done, window>>

\* One round of its loop over the plug-ins.
InitModulePlugin ==
  /\ reg.at = "plugins" /\ mod[reg.m].plugins # <<>>
  /\ LET p == Head(mod[reg.m].plugins)
     IN  InitPlugin([Now EXCEPT !.mod[reg.m].plugins = Tail(@)], "INIT_MODULE", p)
  /\ UNCHANGED <<regq, broker, main, left, check, counts, evt_exit, window>>

InitModuleLast ==
  /\ reg.at = "plugins" /\ mod[reg.m].plugins = <<>>
  /\ LET n == mod[reg.m].plugin_count IN
       /\ mod' = [mod EXCEPT ![reg.m].state = IF n = 0 THEN @ ELSE "RUNNING"]
       /\ reg' = [reg EXCEPT !.at = "leave", !.fate = IF n = 0 THEN "exit" ELSE "keep"]
  /\ LeaveModuleQueue(Registrar)
  /\ UNCHANGED <<plug, regq, broker, quit, main, left, pending_plugins, startup_signal,
                 load_done, evt_exit, window>>

\* kmmint_exit_module, and the release of the message's hold on the module.
\* The plug-ins never initialised go; those that are counted are asked to exit,
\* in the order of kmm_listed_plugins; with none left the module is unloaded.
Counted(m) == {p \in Plugins : plug[p].module = m /\ plug[p].inmodcount}

ExitModule(m, q) ==
  LET s == FoldLeft(ReleasePlugin, [Now EXCEPT !.mod[m].plugins = <<>>], mod[m].plugins)
  IN  \/ /\ mod[m].state = "RUNNING" /\ Counted(m) # {}
         /\ \E listed \in SetToSeqs(Counted(m)) :
              /\ Commit(ReleaseModule(FoldLeft(HoldPlugin,
                           [s EXCEPT !.mod[m].state = "EXITPLUG"], listed), m))
              /\ regq' = q \o Posts("EXIT_PLUGIN", listed)
         /\ UNCHANGED evt_exit
      \/ /\ mod[m].state # "RUNNING" /\ mod[m].plugin_count > 0
         /\ Commit(ReleaseModule(s, m))
         /\ regq' = q /\ UNCHANGED evt_exit
      \/ /\ IF mod[m].state = "RUNNING" THEN Counted(m) = {} ELSE mod[m].plugin_count <= 0
         /\ LET t == [s EXCEPT !.mod[m].state = IF @ = "FAIL" THEN @ ELSE "EXITED",
                               !.mod[m].loaded = FALSE]
            IN  Commit(ReleaseModule(ReleaseModule(t, m), m))
         /\ evt_exit' = (evt_exit \/ (load_done /\ \A n \in Modules \ {m} : ~mod[n].loaded))
         /\ regq' = q

InitModuleEnd ==
  /\ reg.at = "leave" /\ Free(Registrar)
  /\ CASE reg.fate = "exit" -> ExitModule(reg.m, regq)
       [] reg.fate = "release" -> /\ Commit(ReleaseModule(ReleaseModule(Now, reg.m), reg.m))
                                  /\ UNCHANGED <<regq, evt_exit>>
       [] OTHER -> Commit(ReleaseModule(Now, reg.m)) /\ UNCHANGED <<regq, evt_exit>>
  /\ reg' = Idle
  /\ UNCHANGED <<broker, quit, main, left, check, counts, window>>

TakeExitModule ==
  /\ Takes("EXIT_MODULE")
  /\ ExitModule(Taken, Tail(regq))
  /\ UNCHANGED <<reg, broker, quit, main, left, check, counts, window>>

TakeQuit ==
  /\ Takes("QUIT")
  /\ reg' = [Idle EXCEPT !.at = "stopped"]
  /\ regq' = Tail(regq)
  /\ UNCHANGED <<plug, mod, broker, quit, main, left, check, counts, evt_exit, window>>

-----------------------------------------------------------------------------
(* kmmint_plugin_broker, the thread of plug-in p *)

BrokerStart(p) ==
  /\ broker[p] = "starting"
  /\ broker' = [broker EXCEPT ![p] = "init"]
  /\ plug' = [plug EXCEPT ![p].refs = @ + 1]
  /\ UNCHANGED <<mod, regq, reg, quit, main, left, check, counts, evt_exit, window>>

\* KMSG_SYSTEM_INIT succeeds, the plug-in's subscriptions are made.
BrokerRunning(p) ==
  /\ broker[p] = "init"
  /\ broker' = [broker EXCEPT ![p] = "running"]
  /\ plug' = [plug EXCEPT ![p].state = "RUNNING"]
  /\ UNCHANGED <<mod, regq, reg, quit, main, left, check, counts, evt_exit, window>>

BrokerFails(p) ==
  /\ broker[p] = "init" /\ p \in MayFail
  /\ broker' = [broker EXCEPT ![p] = "failed"]
  /\ LeavePluginQueue(p)
  /\ UNCHANGED <<mod, regq, reg, quit, main, left, pending_modules, startup_signal, load_done,
                 evt_exit, window>>

\* Those that waited for this one alone are initialised.
\* (Mutant: they are posted without being added to the queue.)
JoinsNot(ready) == {}
Joins(ready) == ready

BrokerDependants(p) ==
  /\ broker[p] = "running"
  /\ broker' = [broker EXCEPT ![p] = "leaving"]
  /\ LET waiting == plug[p].dependants
         ready == SelectSeq(waiting, LAMBDA d : plug[d].unresolved = 1)
     IN  /\ plug' = [q \in Plugins |->
              IF q \notin ToSet(waiting) THEN plug[q]
              ELSE [plug[q] EXCEPT !.unresolved = @ - 1,
                                   !.refs = IF q \in ToSet(ready) THEN @ + 1 ELSE @,
                                   !.inqueue = @ \/ q \in Joins(ToSet(ready))]]
         /\ pending_plugins' = pending_plugins + Queued(Joins(ToSet(ready)))
         /\ regq' = regq \o Posts("INIT_PLUGIN", ready)
  /\ UNCHANGED <<mod, reg, quit, main, left, check, pending_modules, startup_signal, load_done,
                 evt_exit, window>>

BrokerLeavesQueue(p) ==
  /\ broker[p] = "leaving"
  /\ broker' = [broker EXCEPT ![p] = "dispatching"]
  /\ LeavePluginQueue(p)
  /\ UNCHANGED <<mod, regq, reg, quit, main, left, pending_modules, startup_signal, load_done,
                 evt_exit, window>>

\* The thread ends; its hold goes with the message it posts.
BrokerEnds(p) ==
  /\ Free(p)
  /\ \/ broker[p] = "dispatching" /\ quit[p]
     \/ broker[p] = "failed"
  /\ plug' = [plug EXCEPT ![p].state = IF broker[p] = "failed" THEN "FAIL_INIT" ELSE "EXITED"]
  /\ broker' = [broker EXCEPT ![p] = "gone"]
  /\ regq' = Append(regq, <<"EXIT_PLUGIN", p>>)
  /\ UNCHANGED <<mod, reg, quit, main, left, check, counts, evt_exit, window>>

-----------------------------------------------------------------------------
MainSteps == LoadModule \/ LoadEnd \/ WindowSubscribe \/ WindowLook \/ ExitWait

RegistrarSteps == \/ TakeInitModule \/ InitModulePlugin \/ InitModuleLast \/ InitModuleEnd
                  \/ TakeInitPlugin \/ InitPluginDepends \/ InitPluginStart
                  \/ TakeExitPlugin \/ ExitPluginEnd \/ TakeExitModule \/ TakeQuit

BrokerSteps(p) == \/ BrokerStart(p) \/ BrokerRunning(p) \/ BrokerFails(p)
                  \/ BrokerDependants(p) \/ BrokerLeavesQueue(p) \/ BrokerEnds(p)

Checks(t) == CheckModules(t) \/ CheckPlugins(t) \/ CheckDone(t)

ThreadSteps == \/ MainSteps \/ RegistrarSteps
               \/ \E p \in Plugins : BrokerSteps(p)
               \/ \E t \in Threads : Checks(t)

Next == ThreadSteps \/ ExitAll

Spec == Init /\ [][Next]_vars

\* Some thread that can run does; nobody makes the user leave.
Fairness == WF_vars(ThreadSteps)

FairSpec == Spec /\ Fairness

-----------------------------------------------------------------------------
(* Properties *)

PluginStates == {"NONE", "PLACEHOLDER", "REG", "PREINIT", "HOLD", "INIT", "RUNNING", "EXITED",
                 "FAIL_INIT", "FAIL_DISABLED"}
ModuleStates == {"NONE", "PREINIT", "INITPLUG", "RUNNING", "EXITPLUG", "EXITED", "FAIL"}

\* Every variable keeps its type; no reference count goes below zero.
TypeOK ==
  /\ plug \in [Plugins -> [state : PluginStates, refs : Nat, module : Modules \cup {None},
                          inqueue : BOOLEAN, inmodcount : BOOLEAN, unresolved : Int,
                          dependants : Seq(Plugins)]]
  /\ mod \in [Modules -> [state : ModuleStates, refs : Nat, plugin_count : Nat,
                          loaded : BOOLEAN, plugins : Seq(Plugins)]]
  /\ \A i \in DOMAIN regq :
       \/ regq[i][1] \in {"INIT_MODULE", "EXIT_MODULE"} /\ regq[i][2] \in Modules
       \/ regq[i][1] \in {"INIT_PLUGIN", "EXIT_PLUGIN"} /\ regq[i][2] \in Plugins
       \/ regq[i] = <<"QUIT", None>>
  /\ reg.at \in {"idle", "plugins", "leave", "depends", "start", "join", "stopped"}
  /\ reg.m \in Modules \cup {None} /\ reg.p \in Plugins \cup {None}
  /\ broker \in [Plugins -> {"none", "starting", "init", "failed", "running", "leaving",
                            "dispatching", "gone"}]
  /\ quit \in [Plugins -> BOOLEAN]
  /\ main \in {"loading", "creating", "looking", "up", "waiting", "done"}
  /\ check \in [Threads -> {"no", "modules", "plugins", "done"}]
  /\ pending_modules \in Nat /\ pending_plugins \in Nat /\ startup_signal \in Nat
  /\ load_done \in BOOLEAN /\ evt_exit \in BOOLEAN /\ subscribed \in BOOLEAN
  /\ begun \in Nat

InMessages(x) == Cardinality({i \in DOMAIN regq : regq[i][2] = x})
One(b) == IF b THEN 1 ELSE 0

\* The holds on a plug-in that somebody will release: its module's list, the
\* messages, those it waits for, kmmint_init_plugin, its broker, the registrar.
PluginHolds(p) ==
  /\ LET initialised == \/ plug[p].inmodcount
                        \/ plug[p].state \in {"PREINIT", "FAIL_INIT", "FAIL_DISABLED"}
     IN  plug[p].refs =
           Cardinality({m \in Modules : p \in ToSet(mod[m].plugins)}) + InMessages(p)
           + Cardinality({q \in Plugins : p \in ToSet(plug[q].dependants)})
           + One(initialised) + One(broker[p] \notin {"none", "starting", "gone"})
           + One(reg.p = p)

ModuleHolds(m) ==
  mod[m].refs =
    Cardinality({p \in Plugins : plug[p].module = m}) + InMessages(m)
    + One(reg.m = m)
    + One(\/ mod[m].state \in {"INITPLUG", "RUNNING", "EXITPLUG"}
          \/ reg.at = "leave" /\ reg.m = m)

\* Each reference count is the number of holds that are yet to be released, by
\* whichever thread has them, so that nothing is freed while in use or leaks.
HoldsExact == (\A p \in Plugins : PluginHolds(p)) /\ (\A m \in Modules : ModuleHolds(m))

\* What a message, a list of dependants or a plug-in refers to has not been freed.
NoDangling ==
  /\ \A i \in DOMAIN regq :
       /\ regq[i][2] \in Plugins => plug[regq[i][2]].state # "NONE"
       /\ regq[i][2] \in Modules => mod[regq[i][2]].state # "NONE"
  /\ \A p \in Plugins :
       /\ \A d \in ToSet(plug[p].dependants) : plug[d].state # "NONE"
       /\ plug[p].module # None => mod[plug[p].module].state # "NONE"
       /\ broker[p] \notin {"none", "gone"} => plug[p].state # "NONE"

\* kmm_registrar.c:908: the plug-ins that kmmint_exit_module will wait for are
\* those the module counts, so that the last of them, and no other, unloads it;
\* the plug-ins start-up waits for are those in the queue.
CountsExact ==
  /\ \A m \in Modules : mod[m].plugin_count = Cardinality(Counted(m))
  /\ pending_plugins = Cardinality({p \in Plugins : plug[p].inqueue})

\* A plug-in is started only after each plug-in it depends on runs.
StartsAfterDepends ==
  main \notin {"waiting", "done"} =>
    \A p \in Plugins : plug[p].state \in {"INIT", "RUNNING"} =>
      \A q \in Deps[p] : plug[q].state = "RUNNING"

Starting ==
  \/ \E i \in DOMAIN regq : regq[i][1] \in {"INIT_MODULE", "INIT_PLUGIN"}
  \/ reg.at \in {"plugins", "depends", "start"}
  \/ \E p \in Plugins : \/ broker[p] \in {"starting", "init", "running"}
                        \/ plug[p].state = "HOLD" /\ \A q \in Deps[p] : plug[q].state = "RUNNING"

\* mainwnd.c:634: KMM_I_DONE is sent, once, after all plug-ins have finished
\* initialising: none is being started, nor could be.
DoneAfterAll == [][load_done' # load_done => ~load_done /\ ~Starting]_vars
DoneOnce == \A t, u \in Threads : check[t] = "done" => ~load_done /\ (check[u] = "done" => t = u)

\* Start-up is over some day and the start-up actions are begun, whether the
\* plug-ins or the main window comes first.
StartupBegins == <>(begun > 0)

\* Once the user leaves, every module is unloaded and the registrar stops, ...
ExitCompletes == main = "waiting" ~> reg.at = "stopped"

\* ... with nothing left in its queue, no broker running, and no plug-in or
\* module left but those that failed, whose record is kept, and what waits for them.
LeavesNothing ==
  reg.at = "stopped" =>
    /\ regq = <<>>
    /\ \A p \in Plugins :
         /\ broker[p] \in {"none", "gone"}
         /\ plug[p].state = "NONE" \/ plug[p].state \in {"FAIL_INIT", "FAIL_DISABLED"}
              \/ \E q \in Plugins : p \in ToSet(plug[q].dependants)
    /\ \A m \in Modules : mod[m].state = "NONE" \/ \E p \in Plugins : plug[p].module = m
=============================================================================
