---------------------------- MODULE CredDispatch ----------------------------
(***************************************************************************)
(* A new-credentials operation (src/ui/credfuncs.c): one khui_new_creds    *)
(* object, the wizard on the UI thread, a thread per credential type's     *)
(* plug-in and the message completion thread, which posts                  *)
(* KMSG_CRED_PROCESS in batches, the types of a batch depending only on    *)
(* types that completed in an earlier one.  The operation also counts as   *)
(* pending, which keeps the application from exiting.                      *)
(*                                                                         *)
(* The wizard may be open ("dialog") or the operation may be a renewal,    *)
(* begun on the completion thread after an import ("renew").  A plug-in of *)
(* Derives may start a child operation whose END reports to the parent.    *)
(* The message queue is taken for what module KmqCall shows of it: a       *)
(* message completes once, when its call is freed and its last recipient   *)
(* is done.                                                                *)
(***************************************************************************)
EXTENDS Integers, Sequences, FiniteSets, SequencesExt

CONSTANTS
    Types,          \* the credential types taking part; a type is also its plug-in's thread
    DepsOf,         \* DepsOf[t]: the types t depends on (type_deps)
    Derives,        \* the types whose plug-in derives identities while it processes
    Kinds,          \* the kinds of operation begun, a subset of {"dialog", "renew"}
    Messages,       \* kmq_message objects; a freed one is used again
    MaxStarts,      \* bound: dispatches the user starts with Finish or Retry
    MaxChildren,    \* bound: child operations at once
    Deviations,     \* the races below that this instance lets happen
    None

(***************************************************************************)
(* Three orders of events break the protocol (see README.md):              *)
(*   "late_cancel"   the user's Cancel is handled when processing is over  *)
(*                   but the wizard has not been told so yet;              *)
(*   "early_child"   a child ends while its parent is still processing;    *)
(*   "child_refused" an identity is derived while the application exits.   *)
(* An instance that leaves one out of Deviations shows what holds as long  *)
(* as that order does not occur.                                           *)
(***************************************************************************)
ASSUME DispatchAssumption ==
    /\ DepsOf \in [Types -> SUBSET Types]
    /\ Derives \subseteq Types
    /\ Kinds \subseteq {"dialog", "renew"}
    /\ Deviations \subseteq {"late_cancel", "early_child", "child_refused"}
    /\ MaxStarts \in Nat /\ MaxChildren \in Nat
    /\ None \notin Messages

Threads == {"ui", "completion"}
Flags == {"processed", "completed", "failed", "disabled"}

VARIABLES
    kind,      \* which operation this is
    nc,        \* the khui_new_creds object
    flags,     \* flags[t]: the flags of t's khui_new_creds_by_type
    cs,        \* the thread that keeps nc->cs from one step to the next, or None
    msg,       \* the message objects
    inbox,     \* inbox[t]: the queue of t's plug-in thread
    plugin,    \* plugin[t]: what t's plug-in thread is doing
    xfer,      \* kmq_completion_xfer: messages for the completion thread
    handling,  \* messages whose completion handler is running (nested calls)
    run,       \* run[x]: where thread x is, its local variables
    wizard,    \* the wizard's window and page
    wnd,       \* PROCESS_COMPLETE notifications posted to the window, their has_error
    children,  \* child operations begun and not ended
    app        \* pending_new_cred_ops, exit_counter, the main window

vars == <<kind, nc, flags, cs, msg, inbox, plugin, xfer, handling, run, wizard,
          wnd, children, app>>

Free == [kind |-> "free", todo |-> {}, held |-> FALSE, aborted |-> FALSE]
Idle == [pc |-> "idle", for |-> "nothing", subs |-> {}, call |-> None, exiting |-> FALSE, n |-> 0]
Asleep == [pc |-> "idle", m |-> None]

Init ==
    /\ kind \in Kinds
    /\ nc = [alive |-> FALSE, types |-> {}, result |-> "cancel", noexit |-> FALSE,
             state |-> "none", last |-> None, children |-> 0]
    /\ flags \in [Types -> {{}, {"disabled"}}]
    /\ \E t \in Types : flags[t] = {}
    /\ cs = None
    /\ msg = [m \in Messages |-> Free]
    /\ inbox = [t \in Types |-> <<>>]
    /\ plugin = [t \in Types |-> Asleep]
    /\ xfer = <<>> /\ handling = {}
    /\ run = [x \in Threads |->
                IF x = (IF kind = "dialog" THEN "ui" ELSE "completion")
                THEN [Idle EXCEPT !.pc = "begin", !.for = "operation"] ELSE Idle]
    /\ wizard = [page |-> "none", cancelled |-> FALSE, starts |-> 0]
    /\ wnd = <<>>
    /\ children = 0
    /\ app = [pending |-> 0, exiting |-> FALSE, window |-> TRUE]

-----------------------------------------------------------------------------
(* What the steps below are made of.                                       *)

goto(x, l) == run' = [run EXCEPT ![x].pc = l]
Enter(x) == cs \in {None, x}              \* EnterCriticalSection(&nc->cs)
IsOpen == wizard.page \notin {"none", "closed"}

\* PostMessage(nc->hwnd, ..., WMNC_DIALOG_PROCESS_COMPLETE); a window that is
\* gone takes nothing.
NotifyComplete(e) == wnd' = IF IsOpen THEN Append(wnd, e) ELSE wnd

\* A message is sent to the plug-ins of the set `to`; `held` when the poster
\* has asked for its call.
Send(m, k, to, held) ==
    /\ msg[m].kind = "free"
    /\ msg' = [msg EXCEPT ![m] = [Free EXCEPT !.kind = k, !.todo = to, !.held = held]]
    /\ inbox' = [t \in Types |-> IF t \in to THEN Append(inbox[t], m) ELSE inbox[t]]

\* kmq_post_message(KMSG_CRED, KMSG_CRED_END, 0, nc): to every plug-in.
PostEnd == \E m \in Messages : Send(m, "end", Types, FALSE)

\* The types that can go in the next batch, and what they wait for.
MetIfFailed(d) == flags[d] \cap {"disabled", "completed"} # {}
Met(d) == \/ "disabled" \in flags[d]
          \/ ("completed" \in flags[d] /\ "failed" \notin flags[d])
Ready == {t \in nc.types :
            /\ flags[t] \cap {"processed", "completed", "disabled"} = {}
            /\ \A d \in DepsOf[t] : d \in nc.types /\ Met(d)}

\* The completed types that stay so in a new dispatch: the largest set in which
\* each depends only on disabled types and on types of the set.
StaysCompleted ==
    LET done == {t \in nc.types : "completed" \in flags[t]}
        closed(K) == \A t \in K : \A d \in DepsOf[t] : "disabled" \in flags[d] \/ d \in K
    IN  UNION {K \in SUBSET done : closed(K)}

ResetFlags == [t \in Types |-> (flags[t] \ {"processed", "completed"})
                                 \cup (IF t \in StaysCompleted THEN {"completed"} ELSE {})]

\* khm_cred_is_new_creds_pending
IsPending == \E t \in nc.types : /\ flags[t] \cap {"completed", "disabled"} = {}
                                 /\ DepsOf[t] \subseteq nc.types

-----------------------------------------------------------------------------
(* khm_cred_begin_new_cred_op and khm_cred_end_new_cred_op, on any thread.  *)

CountNone == app.pending
CountOne == app.pending + 1
BeginCount(x) ==
    /\ run[x].pc = "begin"
    /\ app' = [app EXCEPT !.pending = CountOne]
    /\ goto(x, "began")
    /\ UNCHANGED <<kind, nc, flags, cs, msg, inbox, plugin, xfer, handling, wizard, wnd, children>>

\* Accepted: the operation, or the child, goes on.
RefusesNone == FALSE
Refuses == app.exiting
BeginAccepted(x) ==
    /\ run[x].pc = "began" /\ ~ Refuses
    /\ run' = [run EXCEPT ![x] = Idle]
    /\ IF run[x].for = "operation"
         THEN /\ nc' = [nc EXCEPT !.alive = TRUE, !.types = Types,
                          !.result = IF kind = "renew" THEN "process" ELSE "cancel"]
              /\ wizard' = IF kind = "dialog" THEN [wizard EXCEPT !.page = "options"] ELSE wizard
              /\ UNCHANGED <<children, plugin>>
         ELSE /\ children' = children + 1
              /\ plugin' = [t \in Types |-> IF plugin[t].pc = "asking"
                                            THEN [plugin[t] EXCEPT !.pc = "derived"] ELSE plugin[t]]
              /\ UNCHANGED <<nc, wizard>>
    /\ UNCHANGED <<kind, flags, cs, msg, inbox, xfer, handling, wnd, app>>

\* Refused: the count is given back as an ended operation gives it back; a
\* child object is destroyed, its parent goes on counting it.
GivesNothingBack == "idle"
GivesBack == "end"
BeginRefused(x) ==
    /\ run[x].pc = "began" /\ Refuses
    /\ plugin' = [t \in Types |-> IF run[x].for = "child" /\ plugin[t].pc = "asking"
                                  THEN [plugin[t] EXCEPT !.pc = "derived"] ELSE plugin[t]]
    /\ run' = [run EXCEPT ![x] = [Idle EXCEPT !.pc = GivesBack]]
    /\ UNCHANGED <<kind, nc, flags, cs, msg, inbox, xfer, handling, wizard, wnd, children, app>>

EndRead(x) ==
    /\ run[x].pc = "end"
    /\ run' = [run EXCEPT ![x].pc = "uncount", ![x].exiting = app.exiting]
    /\ UNCHANGED <<kind, nc, flags, cs, msg, inbox, plugin, xfer, handling, wizard, wnd, children, app>>

AfterEndKeeps(x) == IF run[x].for = "child" THEN "report" ELSE "return"
AfterEnd(x) == CASE run[x].for = "operation" -> "destroy"
                 [] run[x].for = "child"     -> "report"
                 [] OTHER                    -> "idle"

\* The last operation to end exits the application if that had been asked for.
EndCount(x) ==
    /\ run[x].pc = "uncount"
    /\ app' = [app EXCEPT !.pending = @ - 1]
    /\ goto(x, IF app.pending = 1 /\ run[x].exiting THEN "exit" ELSE AfterEnd(x))
    /\ UNCHANGED <<kind, nc, flags, cs, msg, inbox, plugin, xfer, handling, wizard, wnd, children>>

\* khm_exit_application, asked for by the user
UserExits ==
    /\ run["ui"].pc = "idle" /\ app.window /\ ~ app.exiting
    /\ "child_refused" \in Deviations \/ \A t \in Derives : plugin[t].pc # "asking"
    /\ run' = [run EXCEPT !["ui"] = [Idle EXCEPT !.pc = "exit"]]
    /\ UNCHANGED <<kind, nc, flags, cs, msg, inbox, plugin, xfer, handling, wizard, wnd, children, app>>

ExitCount(x) ==
    /\ run[x].pc = "exit"
    /\ app' = [app EXCEPT !.exiting = TRUE]
    /\ goto(x, "exiting")
    /\ UNCHANGED <<kind, nc, flags, cs, msg, inbox, plugin, xfer, handling, wizard, wnd, children>>

\* Windows destroys a window only for the thread that created it.
ExitWindow(x) ==
    /\ run[x].pc = "exiting"
    /\ app' = IF app.pending = 0 /\ x = "ui" THEN [app EXCEPT !.window = FALSE] ELSE app
    /\ goto(x, AfterEnd(x))
    /\ UNCHANGED <<kind, nc, flags, cs, msg, inbox, plugin, xfer, handling, wizard, wnd, children>>

-----------------------------------------------------------------------------
(* khm_cred_dispatch_process_message                                       *)

\* The plug-ins have dealt with KMSG_CRED_RENEW_CREDS.
RenewReady ==
    /\ kind = "renew" /\ nc.alive /\ wizard.starts = 0
    /\ run["completion"].pc = "idle"
    /\ wizard' = [wizard EXCEPT !.starts = 1]
    /\ goto("completion", "dispatch")
    /\ UNCHANGED <<kind, nc, flags, cs, msg, inbox, plugin, xfer, handling, wnd, children, app>>

\* A dispatch that finds one in progress ends the job (after assert(FALSE)).
Dispatch(x) ==
    /\ run[x].pc = "dispatch" /\ Enter(x)
    /\ IF nc.types = {} \/ nc.state # "none"
         THEN goto(x, "terminate") /\ UNCHANGED <<nc, flags>>
         ELSE /\ flags' = ResetFlags
              /\ nc' = [nc EXCEPT !.noexit = FALSE]
              /\ run' = [run EXCEPT ![x].pc = "level", ![x].for = "dispatch"]
    /\ UNCHANGED <<kind, cs, msg, inbox, plugin, xfer, handling, wizard, wnd, children, app>>

Terminate(x) ==
    /\ run[x].pc = "terminate"
    /\ IF kind = "renew" THEN PostEnd /\ UNCHANGED wnd
                         ELSE NotifyComplete(FALSE) /\ UNCHANGED <<msg, inbox>>
    /\ goto(x, "return")
    /\ UNCHANGED <<kind, nc, flags, cs, plugin, xfer, handling, wizard, children, app>>

(* khm_cred_dispatch_process_level: mark, post, commit; or close.           *)

KeepsCall == nc.last
ForgetsCall == None
LevelMark(x) ==
    /\ run[x].pc = "level" /\ Enter(x)
    /\ nc' = [nc EXCEPT !.last = ForgetsCall]
    /\ \E S \in {IF nc.state = "aborted" THEN {} ELSE Ready} :
         /\ flags' = [t \in Types |-> flags[t] \cup (IF t \in S THEN {"processed"} ELSE {})]
         /\ run' = [run EXCEPT ![x].pc = IF S = {} THEN "close" ELSE "post", ![x].subs = S]
    /\ UNCHANGED <<kind, cs, msg, inbox, plugin, xfer, handling, wizard, wnd, children, app>>

StaysOpen == nc.state
Closed == "none"
LevelClose(x) ==
    /\ run[x].pc = "close" /\ Enter(x)
    /\ nc' = [nc EXCEPT !.state = Closed]
    /\ goto(x, IF run[x].for = "dispatch" THEN "terminate" ELSE "conclude")
    /\ UNCHANGED <<kind, flags, cs, msg, inbox, plugin, xfer, handling, wizard, wnd, children, app>>

LevelPost(x) ==
    /\ run[x].pc = "post"
    /\ \E m \in Messages :
         /\ Send(m, "process", run[x].subs, TRUE)
         /\ run' = [run EXCEPT ![x].pc = "commit", ![x].call = m, ![x].subs = {}]
    /\ UNCHANGED <<kind, nc, flags, cs, plugin, xfer, handling, wizard, wnd, children, app>>

\* The call is freed inside nc->cs.  When its recipients are done already the
\* message completes there and then: its handler runs at once, with nc->cs
\* held, on the completion thread, and is queued for it on any other.
InCallNot == nc.state
InCall == IF nc.state = "aborted" THEN "aborted" ELSE "incall"
ToldNot == FALSE
Told == nc.state = "aborted"
LevelCommit(x) ==
    /\ run[x].pc = "commit" /\ Enter(x)
    /\ LET m == run[x].call
           early == msg[m].todo = {}
       IN  /\ nc' = [nc EXCEPT !.state = InCall, !.last = m]
           /\ msg' = [msg EXCEPT ![m].held = FALSE, ![m].aborted = Told]
           /\ IF early /\ x = "completion"
                THEN /\ cs' = x /\ handling' = handling \cup {m}
                     /\ run' = [run EXCEPT ![x] = [Idle EXCEPT !.pc = "level", !.for = "handler"]]
                     /\ UNCHANGED xfer
                ELSE /\ xfer' = IF early THEN Append(xfer, m) ELSE xfer
                     /\ run' = [run EXCEPT ![x] = [Idle EXCEPT !.pc = "return"]]
                     /\ UNCHANGED <<cs, handling>>
    /\ UNCHANGED <<kind, flags, inbox, plugin, wizard, wnd, children, app>>

-----------------------------------------------------------------------------
(* The completion thread: kmsg_cred_completion.                             *)

ComplTake ==
    /\ run["completion"].pc = "idle" /\ xfer # <<>>
    /\ LET m == Head(xfer) IN
         /\ handling' = {m}
         /\ run' = [run EXCEPT !["completion"] =
              CASE msg[m].kind = "process" -> [Idle EXCEPT !.pc = "level", !.for = "handler"]
                [] msg[m].kind = "end"     -> [Idle EXCEPT !.pc = "end", !.for = "operation"]
                [] msg[m].kind = "child"   -> [Idle EXCEPT !.pc = "end", !.for = "child"]]
    /\ xfer' = Tail(xfer)
    /\ UNCHANGED <<kind, nc, flags, cs, msg, inbox, plugin, wizard, wnd, children, app>>

\* All types are done: khm_cred_conclude_processing finds errors or none.
Conclude(x) ==
    /\ run[x].pc = "conclude"
    /\ \E has_error \in BOOLEAN :
         IF kind = "renew"
         THEN /\ IF nc.children = 0 THEN PostEnd ELSE UNCHANGED <<msg, inbox>>
              /\ UNCHANGED wnd
         ELSE NotifyComplete(has_error) /\ UNCHANGED <<msg, inbox>>
    /\ goto(x, "return")
    /\ UNCHANGED <<kind, nc, flags, cs, plugin, xfer, handling, wizard, children, app>>

\* khui_cw_destroy_cred_blob
Destroy(x) ==
    /\ run[x].pc = "destroy"
    /\ nc' = [nc EXCEPT !.alive = FALSE, !.last = None]
    /\ goto(x, "return")
    /\ UNCHANGED <<kind, flags, cs, msg, inbox, plugin, xfer, handling, wizard, wnd, children, app>>

\* A child's END: nc->parent->n_children-- takes no lock (a read, then a write).
ChildReport(x) ==
    /\ run[x].pc = "report"
    /\ run' = [run EXCEPT ![x].pc = "uncount_child", ![x].n = nc.children]
    /\ UNCHANGED <<kind, nc, flags, cs, msg, inbox, plugin, xfer, handling, wizard, wnd, children, app>>

LastChildMissed(x) == run[x].n = 0
LastChild(x) == run[x].n = 1
ChildUncount(x) ==
    /\ run[x].pc = "uncount_child"
    /\ nc' = [nc EXCEPT !.children = run[x].n - 1]
    /\ children' = children - 1
    /\ goto(x, IF LastChild(x) THEN "tell_parent" ELSE "return")
    /\ UNCHANGED <<kind, flags, cs, msg, inbox, plugin, xfer, handling, wizard, wnd, app>>

TellParent(x) ==
    /\ run[x].pc = "tell_parent"
    /\ IF kind = "dialog" THEN NotifyComplete(FALSE) /\ UNCHANGED <<msg, inbox>>
                          ELSE PostEnd /\ UNCHANGED wnd
    /\ goto(x, "return")
    /\ UNCHANGED <<kind, nc, flags, cs, plugin, xfer, handling, wizard, children, app>>

\* The handlers return, the innermost first; the messages they handled are freed.
Return(x) ==
    /\ run[x].pc = "return"
    /\ run' = [run EXCEPT ![x] = Idle]
    /\ IF x = "completion"
         THEN /\ msg' = [m \in Messages |-> IF m \in handling THEN Free ELSE msg[m]]
              /\ handling' = {} /\ cs' = None
         ELSE UNCHANGED <<msg, handling, cs>>
    /\ UNCHANGED <<kind, nc, flags, inbox, plugin, xfer, wizard, wnd, children, app>>

-----------------------------------------------------------------------------
(* The plug-ins.                                                            *)

PluginTake(t) ==
    /\ plugin[t].pc = "idle" /\ inbox[t] # <<>>
    /\ plugin' = [plugin EXCEPT ![t] = [pc |-> msg[Head(inbox[t])].kind, m |-> Head(inbox[t])]]
    /\ inbox' = [inbox EXCEPT ![t] = Tail(@)]
    /\ UNCHANGED <<kind, nc, flags, cs, msg, xfer, handling, run, wizard, wnd, children, app>>

\* khui_cw_derive_credentials: a message sent to the main window, which counts
\* the child in the parent before it asks to begin it.
PluginDerive(t) ==
    /\ plugin[t].pc = "process" /\ t \in Derives /\ nc.result = "process"
    /\ run["ui"].pc = "idle" /\ app.window /\ Enter("ui")
    /\ nc.children < MaxChildren
    /\ "child_refused" \in Deviations \/ ~ app.exiting
    /\ nc' = [nc EXCEPT !.children = @ + 1]
    /\ plugin' = [plugin EXCEPT ![t].pc = "asking"]
    /\ run' = [run EXCEPT !["ui"] = [Idle EXCEPT !.pc = "begin", !.for = "child"]]
    /\ UNCHANGED <<kind, flags, cs, msg, inbox, xfer, handling, wizard, wnd, children, app>>

\* What khui_cw_set_response makes of the responses a plug-in gives: NOEXIT set
\* for the operation, and the type's flags.
Responses ==
    IF nc.result = "cancel" THEN {[noexit |-> FALSE, f |-> {"completed"}]}
    ELSE {[noexit |-> FALSE, f |-> {"completed"}],
          [noexit |-> FALSE, f |-> {"completed", "failed"}],
          [noexit |-> TRUE,  f |-> {}],
          [noexit |-> TRUE,  f |-> {"failed"}]}

PluginRespond(t) ==
    /\ plugin[t].pc \in {"process", "derived"} /\ Enter(t)
    /\ \E r \in Responses :
         /\ flags' = [flags EXCEPT ![t] = (@ \ {"completed", "failed"}) \cup r.f]
         /\ nc' = [nc EXCEPT !.noexit = @ \/ r.noexit]
    /\ plugin' = [plugin EXCEPT ![t].pc = "done"]
    /\ UNCHANGED <<kind, cs, msg, inbox, xfer, handling, run, wizard, wnd, children, app>>

\* Some plug-ins end KMSG_CRED_PROCESS without a response.
PluginSilent(t) ==
    /\ plugin[t].pc \in {"process", "derived"}
    /\ plugin' = [plugin EXCEPT ![t].pc = "done"]
    /\ UNCHANGED <<kind, nc, flags, cs, msg, inbox, xfer, handling, run, wizard, wnd, children, app>>

\* KMSG_CRED_END: the type leaves the operation (khui_cw_del_type).
PluginLeave(t) ==
    /\ plugin[t].pc = "end" /\ Enter(t)
    /\ nc' = [nc EXCEPT !.types = @ \ {t}]
    /\ plugin' = [plugin EXCEPT ![t].pc = "done"]
    /\ UNCHANGED <<kind, flags, cs, msg, inbox, xfer, handling, run, wizard, wnd, children, app>>

\* The handler returns to kmq_dispatch; the last recipient completes the
\* message unless its call is still held.
PluginDone(t) ==
    /\ plugin[t].pc = "done"
    /\ LET m == plugin[t].m IN
         /\ msg' = [msg EXCEPT ![m].todo = @ \ {t}]
         /\ xfer' = IF msg[m].todo = {t} /\ ~ msg[m].held THEN Append(xfer, m) ELSE xfer
    /\ plugin' = [plugin EXCEPT ![t] = Asleep]
    /\ UNCHANGED <<kind, nc, flags, cs, inbox, handling, run, wizard, wnd, children, app>>

\* A child operation, itself one of these, reaches the completion of its END.
ChildEnds ==
    /\ Cardinality({m \in Messages : msg[m].kind = "child"}) < children
    /\ \/ "early_child" \in Deviations
       \/ /\ nc.state = "none" /\ wnd = <<>>
          /\ kind = "renew" \/ wizard.page = "progress"
          /\ \A x \in Threads : run[x].pc = "idle"
    /\ \E m \in Messages :
         /\ msg[m].kind = "free"
         /\ msg' = [msg EXCEPT ![m] = [Free EXCEPT !.kind = "child"]]
         /\ xfer' = Append(xfer, m)
    /\ UNCHANGED <<kind, nc, flags, cs, inbox, plugin, handling, run, wizard, wnd, children, app>>

-----------------------------------------------------------------------------
(* The wizard (src/ui/NewCredWizard.cpp).                                   *)

\* Navigate(NC_PAGET_FINISH): the Finish button, or Retry after an error.
Finish ==
    /\ run["ui"].pc = "idle" /\ wizard.starts < MaxStarts
    /\ \/ wizard.page = "options"
       \/ wizard.page = "retry" /\ IsPending
    /\ nc' = [nc EXCEPT !.result = "process"]
    /\ wizard' = [wizard EXCEPT !.page = "progress", !.starts = @ + 1]
    /\ goto("ui", "dispatch")
    /\ UNCHANGED <<kind, flags, cs, msg, inbox, plugin, xfer, handling, wnd, children, app>>

\* Navigate(NC_PAGET_END): the window goes, KMSG_CRED_END is posted; or, with
\* the window to be kept open, the user has to close it first.
End ==
    \/ /\ wizard.page # "preend"
       /\ wizard' = [wizard EXCEPT !.page = "closed"]
       /\ wnd' = <<>>
       /\ PostEnd
    \/ /\ ~ wizard.cancelled
       /\ wizard' = [wizard EXCEPT !.page = "preend"]
       /\ wnd' = Tail(wnd)
       /\ UNCHANGED <<msg, inbox>>

\* Navigate(NC_PAGET_CANCEL) before the operation has ended:
\* khm_cred_abort_process_message, or a dispatch that tells the plug-ins.
NotReadyEver == TRUE
NotReady == nc.state = "none"
Cancel ==
    /\ run["ui"].pc = "idle" /\ IsOpen /\ wizard.page # "preend" /\ ~ wizard.cancelled
    /\ Enter("ui")
    /\ \/ "late_cancel" \in Deviations
       \/ nc.state # "none" \/ wizard.page # "progress"
    /\ wizard' = [wizard EXCEPT !.page = "progress", !.cancelled = TRUE]
    /\ CASE NotReady ->
              /\ nc' = [nc EXCEPT !.result = "cancel"]
              /\ goto("ui", "dispatch") /\ UNCHANGED msg
         [] nc.state = "incall" /\ ~ NotReady ->
              /\ nc' = [nc EXCEPT !.state = "aborted"]
              /\ msg' = IF nc.last = None THEN msg ELSE [msg EXCEPT ![nc.last].aborted = TRUE]
              /\ UNCHANGED run
         [] nc.state = "aborted" /\ ~ NotReady -> UNCHANGED <<nc, msg, run>>
    /\ UNCHANGED <<kind, flags, cs, inbox, plugin, xfer, handling, wnd, children, app>>

\* The Close button of a window kept open.
Close ==
    /\ run["ui"].pc = "idle" /\ wizard.page = "preend" /\ ~ wizard.cancelled
    /\ wizard' = [wizard EXCEPT !.page = "closed"]
    /\ wnd' = <<>>
    /\ PostEnd
    /\ UNCHANGED <<kind, nc, flags, cs, plugin, xfer, handling, run, children, app>>

\* NewCredWizard::OnProcessComplete
HasNoChildren == FALSE
HasChildren == nc.children # 0
OnProcessComplete ==
    /\ run["ui"].pc = "idle" /\ wnd # <<>> /\ IsOpen /\ Enter("ui")
    /\ IF HasChildren
         THEN wnd' = Tail(wnd) /\ UNCHANGED <<nc, wizard, msg, inbox>>
       ELSE IF nc.noexit \/ Head(wnd)
         THEN /\ nc' = [nc EXCEPT !.result = "cancel"]
              /\ wizard' \in {[wizard EXCEPT !.page = p] :
                                p \in IF Head(wnd) THEN {"retry", "options"} ELSE {"options"}}
              /\ wnd' = Tail(wnd)
              /\ UNCHANGED <<msg, inbox>>
       ELSE End /\ UNCHANGED nc
    /\ UNCHANGED <<kind, flags, cs, plugin, xfer, handling, run, children, app>>

-----------------------------------------------------------------------------
ThreadStep(x) ==
    \/ BeginCount(x) \/ BeginAccepted(x) \/ BeginRefused(x) \/ EndRead(x) \/ EndCount(x)
    \/ ExitCount(x) \/ ExitWindow(x) \/ Dispatch(x) \/ Terminate(x)
    \/ LevelMark(x) \/ LevelClose(x) \/ LevelPost(x) \/ LevelCommit(x) \/ Conclude(x)
    \/ Destroy(x) \/ ChildReport(x) \/ ChildUncount(x) \/ TellParent(x) \/ Return(x)

PluginStep(t) == \/ PluginTake(t) \/ PluginRespond(t) \/ PluginSilent(t)
                 \/ PluginLeave(t) \/ PluginDone(t)

\* What the scheduler and Windows do for certain, and what users and plug-ins may do.
SystemStep == \/ \E x \in Threads : ThreadStep(x)
              \/ \E t \in Types : PluginStep(t)
              \/ RenewReady \/ ComplTake \/ ChildEnds \/ OnProcessComplete
UserStep == UserExits \/ Finish \/ Cancel \/ Close \/ \E t \in Types : PluginDerive(t)

Next == SystemStep \/ UserStep

\* Every thread runs and every window handles what was posted to it; nothing
\* is assumed of the user.
Fairness == WF_vars(SystemStep)
Spec == Init /\ [][Next]_vars /\ Fairness

-----------------------------------------------------------------------------
(* What the operation promises.                                             *)

TypeOK ==
    /\ kind \in Kinds
    /\ nc \in [alive : BOOLEAN, types : SUBSET Types, result : {"process", "cancel"},
               noexit : BOOLEAN, state : {"none", "incall", "aborted"},
               last : Messages \cup {None}, children : -1 .. 2 * MaxChildren]
    /\ flags \in [Types -> SUBSET Flags]
    /\ cs \in {None, "completion"}
    /\ msg \in [Messages -> [kind : {"free", "process", "end", "child"}, todo : SUBSET Types,
                             held : BOOLEAN, aborted : BOOLEAN]]
    /\ \A t \in Types : inbox[t] \in Seq(Messages)
    /\ plugin \in [Types -> [pc : {"idle", "process", "asking", "derived", "end", "done"},
                             m : Messages \cup {None}]]
    /\ xfer \in Seq(Messages) /\ handling \in SUBSET Messages
    /\ wizard.page \in {"none", "options", "progress", "retry", "preend", "closed"}
    /\ wnd \in Seq(BOOLEAN)
    /\ app \in [pending : Nat, exiting : BOOLEAN, window : BOOLEAN]

\* A batch whose call has been freed and whose completion is not being handled.
Outstanding(m) == msg[m].kind = "process" /\ ~ msg[m].held /\ m \notin handling

\* There is one batch at a time, dispatch_state says so while there is one, and
\* last_dispatch is its call; between batches the state goes back to NONE
\* (the nested completion of credfuncs.c:1423-1440 included).
OneBatch ==
    /\ \A m \in Messages : Outstanding(m) => nc.state # "none" /\ nc.last = m
    /\ nc.state # "none" => \E m \in Messages : msg[m].kind = "process"

\* "We don't keep a reference to 'call'" (credfuncs.c:1436): what
\* last_dispatch points to, and abort writes to, is never a freed message.
CallLive == nc.last # None => msg[nc.last].kind = "process"

\* An abort reaches the plug-ins of the outstanding batch, in whichever order
\* the abort and the poster's last section (credfuncs.c:1427-1433) come.
AbortReaches ==
    nc.state = "aborted" => \A m \in Messages : Outstanding(m) => msg[m].aborted

\* While a plug-in processes, the types it depends on are and stay completed
\* without failure, over several batches, aborts and retries.
DependenciesHold ==
    \A t \in Types : plugin[t].pc \in {"process", "asking", "derived"} =>
        \A d \in DepsOf[t] : \/ "disabled" \in flags[d]
                              \/ {"completed", "failed"} \cap flags[d] = {"completed"}

\* What uses the object.
Using == {"dispatch", "terminate", "level", "close", "post", "commit", "conclude"}

\* khui_cw_destroy_cred_blob finds no type left and no dispatch (the assertions
\* of creddlg.c:86-87).
DestroyedIdle ==
    \A x \in Threads : run[x].pc = "destroy" => nc.types = {} /\ nc.state = "none"

\* and from then on no thread, message, plug-in or child refers to the object.
NotUsedAfter ==
    ~ nc.alive =>
        /\ \A m \in Messages : msg[m].kind # "free" => m \in handling
        /\ \A t \in Types : plugin[t].pc = "idle"
        /\ \A x \in Threads : run[x].pc \notin Using
        /\ children = 0

\* A dispatch is not started while one is in progress (credfuncs.c:1551-1553).
DispatchWhenIdle == \A x \in Threads : run[x].pc = "dispatch" => nc.state = "none"

\* Operations and children that were accepted and have not ended.
Ended(x, for) == run[x].for = for /\ run[x].pc \in {"exit", "exiting", "destroy", "report", "uncount_child"}
Operations == (IF nc.alive /\ ~ Ended("completion", "operation") THEN 1 ELSE 0)
              + children - (IF Ended("completion", "child") THEN 1 ELSE 0)

\* pending_new_cred_ops is the number of operations, with those that are being
\* begun or refused at the moment.
Counting == {x \in Threads : \/ run[x].pc = "began"
                             \/ run[x].for = "nothing" /\ run[x].pc \in {"end", "uncount"}}
PendingExact == app.pending = Operations + Cardinality(Counting)

\* The main window is not destroyed while an accepted operation goes on,
\* wherever the request to exit falls between counting and testing.
ExitNotDuringOperation == ~ app.window => Operations = 0

\* Processing that was started ends: a renewal's object goes, a wizard leaves
\* its progress page.
Concludes ==
    (wizard.page = "progress" \/ (kind = "renew" /\ nc.alive))
        ~> ~ (wizard.page = "progress" \/ (kind = "renew" /\ nc.alive))

\* A closed wizard's operation ends for good.
EndsForGood == wizard.page = "closed" ~> (~ nc.alive /\ \A m \in Messages : msg[m].kind = "free")

-----------------------------------------------------------------------------
(* The inductive invariant.                                                 *)

Pcs == {"idle", "begin", "began", "end", "uncount", "exit", "exiting", "dispatch", "terminate",
        "level", "close", "post", "commit", "conclude", "destroy", "report", "uncount_child",
        "tell_parent", "return"}

\* The types of what the invariant is about.
NcRecords == [alive : BOOLEAN, types : SUBSET Types, result : {"process", "cancel"},
              noexit : BOOLEAN, state : {"none", "incall", "aborted"},
              last : Messages \cup {None}, children : Int]
MsgRecords == [kind : {"free", "process", "end", "child"}, todo : SUBSET Types,
               held : BOOLEAN, aborted : BOOLEAN]
PluginRecords == [pc : {"idle", "process", "asking", "derived", "end", "done"},
                  m : Messages \cup {None}]
RunRecords == [pc : Pcs, for : {"nothing", "operation", "child", "dispatch", "handler"},
               subs : SUBSET Types, call : Messages \cup {None}, exiting : BOOLEAN, n : Int]
WizardRecords == [page : {"none", "options", "progress", "retry", "preend", "closed"},
                  cancelled : BOOLEAN, starts : Nat]
AppRecords == [pending : Int, exiting : BOOLEAN, window : BOOLEAN]

Shape ==
    /\ kind \in {"dialog", "renew"} /\ nc \in NcRecords
    /\ flags \in [Types -> SUBSET Flags] /\ msg \in [Messages -> MsgRecords]
    /\ inbox \in [Types -> Seq(Messages)] /\ plugin \in [Types -> PluginRecords]
    /\ xfer \in Seq(Messages) /\ handling \in SUBSET Messages
    /\ run \in [Threads -> RunRecords] /\ wizard \in WizardRecords
    /\ children \in Int /\ app \in AppRecords

\* A message is in the queue of a plug-in that has it to do, or the plug-in is
\* at it; it goes once to the completion thread, when nobody has it to do.
Waiting(t) == ToSet(inbox[t])
Completing == ToSet(xfer)
TakenOnce == (\A t \in Types : IsInjective(inbox[t])) /\ IsInjective(xfer)
Over(m) == msg[m].kind # "free" /\ msg[m].todo = {} /\ ~ msg[m].held

Delivery ==
    /\ TakenOnce
    /\ \A m \in Messages : msg[m].kind = "free" => msg[m].todo = {} /\ ~ msg[m].held
    /\ \A m \in Messages : msg[m].kind = "child" => msg[m].todo = {}
    /\ \A t \in Types : \A m \in Waiting(t) : t \in msg[m].todo /\ plugin[t].m # m
    /\ \A t \in Types : plugin[t].pc # "idle" =>
         /\ plugin[t].m \in Messages /\ t \in msg[plugin[t].m].todo
         /\ plugin[t].pc \in {"process", "asking", "derived"} => msg[plugin[t].m].kind = "process"
         /\ plugin[t].pc = "end" => msg[plugin[t].m].kind = "end"
    /\ \A t \in Types : plugin[t].pc = "idle" => plugin[t].m = None
    /\ \A m \in Completing : Over(m) /\ m \notin handling
    /\ \A m \in handling : Over(m)

\* The thread that begins the operation, and dispatches it.
Owner == IF kind = "dialog" THEN "ui" ELSE "completion"

\* Before the operation is accepted there is nothing of it.
NotBegun ==
    \A x \in Threads : run[x].for = "operation" /\ run[x].pc \in {"begin", "began"} =>
        /\ x = Owner /\ ~ nc.alive /\ wizard.page = "none" /\ children = 0
        /\ \A m \in Messages : msg[m].kind = "free"
        /\ \A y \in Threads \ {x} : run[y].for = "nothing" /\ run[y].pc \in {"idle", "exit", "exiting"}

\* A thread makes the next batch: in a dispatch, while none is in progress, or
\* in the completion handler of the batch before.
Drives(x) == run[x].pc \in {"level", "close", "post", "commit"}

Control ==
    /\ \A x \in Threads :
         /\ run[x].pc = "dispatch" => x = Owner
         /\ run[x].pc \in {"end", "uncount", "exit", "exiting"} =>
              run[x].for \in {"nothing", "operation", "child"}
         /\ run[x].pc = "destroy" => run[x].for = "operation"
         /\ Drives(x) =>
              \/ run[x].for = "dispatch" /\ x = Owner /\ nc.state = "none"
              \/ /\ run[x].for = "handler" /\ x = "completion" /\ nc.state # "none"
                 /\ \E m \in handling : msg[m].kind = "process"
         /\ run[x].pc = "commit" => /\ run[x].call \in Messages \ handling
                                    /\ msg[run[x].call].kind = "process" /\ msg[run[x].call].held
    /\ \/ run["completion"].pc \in {"idle", "begin", "began"}
       \/ run["completion"].for = "nothing" /\ run["completion"].pc \in {"end", "uncount", "exit", "exiting"}
       => handling = {}

\* There is one batch, or the thread that makes the next one.
Batches ==
    /\ \A m \in Messages : msg[m].held =>
         \E x \in Threads : run[x].pc = "commit" /\ run[x].call = m
    /\ \A m \in Messages : Outstanding(m) =>
         /\ nc.state # "none"
         /\ nc.state = "aborted" => msg[m].aborted
         /\ nc.alive => nc.last = m
         /\ \A x \in Threads : ~ Drives(x)
         /\ \A other \in Messages : Outstanding(other) => other = m
    /\ nc.state # "none" => \/ \E m \in Messages : Outstanding(m)
                            \/ Drives("completion") /\ run["completion"].for = "handler"
    /\ nc.last # None => \/ Outstanding(nc.last)
                         \/ /\ run["completion"].pc = "level" /\ run["completion"].for = "handler"
                            /\ nc.last \in handling /\ msg[nc.last].kind = "process"

\* An open wizard's operation has not ended.
Open ==
    /\ kind = "renew" => wizard.page = "none"
    /\ IsOpen => /\ nc.alive
                 /\ \A m \in Messages : msg[m].kind # "end"
                 /\ \A x \in Threads : run[x].for = "operation" =>
                      run[x].pc \notin {"end", "uncount", "exit", "exiting", "destroy"}

\* The types of a batch wait for none of it, and what they wait for is done.
Good(t) == \A d \in DepsOf[t] : \/ "disabled" \in flags[d]
                                \/ {"completed", "failed"} \cap flags[d] = {"completed"}
Independent(S) == \A t \in S : Good(t) /\ DepsOf[t] \cap S = {}

Ordered ==
    /\ \A m \in Messages : msg[m].kind = "process" => Independent(msg[m].todo)
    /\ \A x \in Threads : run[x].pc = "post" => Independent(run[x].subs)

IInv == Shape /\ Delivery /\ NotBegun /\ Control /\ Batches /\ Open /\ Ordered

-----------------------------------------------------------------------------
(* What holds in addition as long as none of the three races occurs.        *)

\* No thread is at the processing, no batch is out, no child tells its parent.
Idling == /\ \A x \in Threads : run[x].pc \notin Using \cup {"tell_parent"}
          /\ nc.state = "none"
Quiet == Idling /\ nc.children = 0 /\ wnd = <<>>
Ending == \E m \in Messages : msg[m].kind = "end"

\* Children that have ended and that the parent still counts.
Children == {m \in Messages : msg[m].kind = "child"}
Counted == Children \ (IF run["completion"].pc \in {"tell_parent", "return"} THEN handling ELSE {})
Asking == IF run["ui"].for = "child" THEN 1 ELSE 0

\* Where the threads are in which function, and with which message.
Role(x) ==
    /\ run[x].pc = "idle" => run[x].for = "nothing"
    /\ run[x].pc \in {"begin", "began"} => run[x].for \in {"operation", "child"}
    /\ run[x].pc = "uncount" /\ run[x].exiting => app.exiting
    /\ run[x].pc = "exiting" => app.exiting

UiRole ==
    /\ run["ui"].for \in {"operation", "child"} => run["ui"].pc \in {"begin", "began"}
    /\ run["ui"].for = "child" => ~ app.exiting
    /\ run["ui"].pc \notin {"conclude", "destroy", "report", "uncount_child", "tell_parent"}

CompletionRole ==
    /\ run["completion"].pc = "exit" => app.exiting
    /\ run["completion"].pc \in {"report", "uncount_child", "tell_parent"} => run["completion"].for = "child"
    /\ run["completion"].for = "child" =>
         /\ run["completion"].pc \in {"end", "uncount", "exit", "exiting", "report", "uncount_child",
                                      "tell_parent", "return"}
         /\ \E m \in Children : handling = {m}
    /\ run["completion"].for = "operation" =>
         \/ run["completion"].pc \in {"begin", "began"}
         \/ /\ run["completion"].pc \in {"end", "uncount", "exit", "exiting", "destroy", "return"}
            /\ \E m \in Messages : msg[m].kind = "end" /\ handling = {m}
    /\ \A m \in handling :
         /\ msg[m].kind = "child" => run["completion"].for = "child"
         /\ msg[m].kind = "end" => run["completion"].for = "operation"

Roles == (\A x \in Threads : Role(x)) /\ UiRole /\ CompletionRole

\* One thread is at the processing; before the first batch there is no child.
Working ==
    /\ \A x, y \in Threads : run[x].pc \in Using /\ run[y].pc \in Using => x = y
    /\ \A x \in Threads :
         /\ run[x].pc \in {"dispatch", "terminate", "conclude"} => nc.state = "none"
         /\ \/ run[x].pc \in {"dispatch", "terminate"}
            \/ run[x].for = "dispatch" /\ run[x].pc \in {"level", "close", "post"}
            => nc.children = 0 /\ x = Owner

\* n_children is the number of children, those being begun included.
ChildrenCounted ==
    /\ nc.children = children + Asking
    /\ IsFiniteSet(Children) /\ Cardinality(Counted) <= children
    /\ run["completion"].pc = "uncount_child" => run["completion"].n = nc.children
    /\ Counted # {} => Idling
    /\ run["completion"].pc = "tell_parent" =>
         /\ nc.state = "none" /\ nc.children = 0 /\ wnd = <<>>
         /\ \A x \in Threads : run[x].pc \notin Using

\* The wizard is told once when the processing is over, and goes on then.
ToldOnce ==
    /\ kind = "dialog" /\ wizard.page # "progress" => Quiet
    /\ kind = "renew" /\ (wizard.starts = 0 \/ Ending \/ ~ nc.alive) => Quiet
    /\ kind = "renew" /\ wizard.starts = 0 => ~ Ending
    /\ wnd # <<>> => (\E e \in BOOLEAN : wnd = <<e>>) /\ Idling /\ Counted = {} /\ kind = "dialog"

\* There is one END; the types have left when their plug-ins have done it.
OneEnd ==
    /\ \A m, n \in Messages : msg[m].kind = "end" /\ msg[n].kind = "end" => m = n
    /\ \A m \in Messages : msg[m].kind = "end" =>
         /\ nc.alive \/ (m \in handling /\ run["completion"].pc = "return")
         /\ \A t \in Types : t \notin msg[m].todo \/ (plugin[t].pc = "done" /\ plugin[t].m = m)
                            => t \notin nc.types

\* The exit waits for the operations.
Leaving == PendingExact /\ ExitNotDuringOperation /\ (~ app.window => app.exiting)

EInv == IInv /\ Roles /\ Working /\ ChildrenCounted /\ ToldOnce /\ OneEnd /\ Leaving
=============================================================================
