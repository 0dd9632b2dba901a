# Network Identity Manager: specifications, model checks and proofs

Network Identity Manager (NetIDMgr) is a Windows credential manager: an
application, a library of services (`nidmgrdll`) and plug-ins that obtain and
keep credentials (Kerberos, certificates, key stores). Everything concurrent
in it goes through one message queue library, KMQ: plug-ins run in threads of
their own, and the user interface, the module manager and the credential code
talk to them by posting and sending messages. This directory specifies that queue, and
the services and operations built on it, in TLA+, checks the specifications
with TLC and proves part of them with TLAPS.

File names such as `kmq/consumer.c` are relative to `src/`.

## 1. The system: inventory

| Component | State it keeps | Operations | What makes it correct |
|---|---|---|---|
| **KMQ queue** (`kmq/consumer.c`, `init.c`, `include/khlist.h`) | per thread: FIFO of references, auto-reset event `wait_o`, flags DELETED/DETACHING, `last_msg` | post, dispatch, purge, attach, detach | no wake-up is lost; a wake-up finds a reference; a reference is put back once |
| **KMQ calls** (`kmq/publisher.c`, `consumer.c`, `init.c`, `msgtype.c`) | messages: `refcount`, `nSent`, `nCompleted`, `nFailed`, `wait_o`, `aborted`; active and free lists; call handles | `kmq_post_*`, `kmq_send_*`, `kmq_wait`, `kmq_free_call`, `kmq_abort_call`, `kmq_wm_*`, quit messages | counts are exact under every interleaving; freed once, by the last user; a send returns, and after its recipients |
| **KMQ completion thread** (`kmq/init.c`) | `kmq_completion_xfer`, `compl_wx`, `compl_continue` | transfer, handle, start, stop | each completed message is handled once |
| **KMQ types and subscriptions** (`kmq/msgtype.c`, `consumer.c`) | `msg_types[256]`, subscription lists, ad-hoc subscriptions | register, find, subscribe, unsubscribe, set handler | one subscription per (type, callback, thread); a subscription is not freed while a post walks over it |
| **util read/write lock** (`util/sync.c`) | `locks`, `status`, `writer`, two events | obtain and release for reading and writing | many readers or one writer; no lost wake-up |
| **util once initialiser** (`util/sync.c`) | `i_initializing`, `i_thrd`, `i_done` | `InitializeOnce`, `InitializeOnceDone` | one initialiser; the others wait until it is done |
| **util task** (`util/task.c`) | `state`, `refcount`, `parent_sub` | create, run, hold, release, abort, call parent | freed with its last reference; an aborted task ends |
| util hash table, multi-strings, statistics | tables and strings | add, delete, look up | sequential |
| **kmm** (`kmm/*.c`) | modules and plug-ins with states, reference counts and dependencies; pending counts | the registrar thread loads and unloads; a broker thread per plug-in | a plug-in runs after its dependencies; start-up is announced once; exit ends |
| **kherr** (`kherr/kherr.c`) | tree of contexts with counts and events; per-thread stacks | push, pop, report, release, progress, handlers | a context is folded and freed once, after its users |
| **kconfig** (`kconfig/*.c`) | tree of spaces with counts, shadowed handles, stores | open, close, read, write, delete | a space is not freed while held; the order of stores |
| **kcreddb** (`kcreddb/*.c`) | identities, credentials, credential sets, types | hold, release, delete, collect | an object is deleted once, with no reference left |
| uilib, ui | actions, dialogs, windows; `ui/credfuncs.c`: operations in flight | user interface; dispatch of credential messages in batches | dependencies are processed in order; abort; exit waits |
| plug-ins, samples, help, documentation, installer | | | |

### How they interact

* A thread that uses KMQ is attached on first use and gets a queue. `kmq_post_*`
  puts a reference in the queue of each subscriber; the subscriber's thread
  takes it out in `kmq_dispatch` and runs the callback. For a window the
  message travels through the Windows queue (`KMQ_WM_DISPATCH`).
* The last user of a message puts it: it sets the event a sender waits on, or,
  if no reference is left, hands the message to the completion thread, which
  runs the completion handler of its type. Handlers post further messages.
* `kmm` runs every plug-in in a thread whose loop is `kmq_dispatch`, ended by a
  quit message. `ui/credfuncs.c` sends credential operations to the
  subscriptions of the plug-ins and goes on in the completion handler.
* `kcdb_identity_create_ex` asks the identity provider's plug-in by a message
  and waits, and a change of the root credentials ends in a refresh of the
  identities concerned, which is told to everybody by further messages.
* `util/task.c` calls its parent with `kmq_send_sub_msg`. A message holds the
  `kherr` context its poster was in. `kcreddb` notifies by posting, and guards
  credentials by the read/write lock.

### What is hard

Interleavings of posters, recipients, call-handle owners and detaching threads
over shared counters; locks that are left in the middle of an operation, around
a callback, a notification or a wait for a plug-in, or between a check and its
use; objects whose count is zero and that are still reachable; auto-reset events, where one signal
may stand for several references; callbacks that post and send in turn; the
order of counting and waking. The full list, each entry with its line and the
properties that cover it, is `hazards` in `PROJECT.json`.

## 2. Modules

| Module | What it is |
|---|---|
| `KmqQueue` | one thread's queue: posting, dispatching, purging, detaching |
| `KmqCall` | the life of messages over several threads |
| `MessageLife` | what KMQ promises about a message, abstractly; `KmqCall` implements it |
| `RwLock` | the read/write lock |
| `Task` | the task object |
| `Kmm` | the module manager: main thread, registrar, broker threads |
| `CredDispatch` | one credential operation: wizard, plug-ins, completion thread |
| `KcdbIdent` | identities, their refresh from the root credentials, the default identity |
| `KcdbCred` | credentials and credential sets |
| `Kherr` | error contexts |
| `KconfSpace` | configuration spaces |
| `MCKmqCall`, `MCKmm`, `MCCredDispatch`, `MCKcdbIdent`, `MCKcdbCred`, `MCKherr`, `MCKconfSpace` | small instances for TLC: which threads make which calls, which plug-ins depend on which (`KmqQueue`, `RwLock` and `Task` take their constants from the `.cfg` files) |
| `SequenceFacts` | lemmas on sequences for the proofs |
| `KmqQueueProofs`, `KmqCallProofs`, `KmqCallPromises`, `RwLockProofs`, `TaskProofs`, `CredDispatchProofs`, `KherrProofs` | theorems |

Each module stands for itself. What one takes from another it takes as that
other module shows it: `CredDispatch`, `Kmm`, `KcdbIdent` and `Kherr` use
messages that are handled once, completed once and freed after that, which is
what `KmqCall` and `MessageLife` are about, and `KcdbCred` the lock of `RwLock`.

Where the code has a race that breaks what it is meant to guarantee, the model
has the race, under a name in the constant `Deviations` (in `Kmm`, the constant
`EarlyExit`): one guard leaves that order of events out if the name is not in
the set. A run with `Deviations = {}` shows that nothing else goes wrong, and a
run with the name in it shows what does (section 3). Operators whose comment
begins with "Mutant" are plausible mistakes; no definition uses them.

### KmqQueue

An action is one hold of `kmq_queue::cs` or one return of a Windows wait.
`PostCheck` and `PostPut` are the two holds of `kmqint_post_queue`, between
which the owner may detach. `kmqint_post` does the same with `cs_kmq_msg` held
throughout; the model lets all posters interleave, which allows more than
`kmqint_post` alone would. `DispatchWait`, `DispatchGet`,
`DispatchCallback`, `DispatchReturn`, `DispatchExit` are the steps of
`kmq_dispatch`; `Purge*` those of `kmq_purge_queue`, from the thread's own code
or from inside a callback; `Detach*` those of `kmqint_detach_this_thread`.
`refmsg` is `r->msg` and doubles as the free list (a NULL `msg` means free).
What a purge matches on (type, subtype, parameters) is the set `match`.

### KmqCall

Every thread has a stack of frames, one per library call or callback it is in,
the innermost last;
`pc` says where the call is, `m` is its message. The critical sections
`cs_kmq_msg` and `cs_kmq_types` are variables because a publisher keeps them
over many steps and leaves them around a direct callback; what only one short
hold does is one action with the guard that the lock is free. `cs_kmq_types` is
re-entrant and its depth is kept. A critical section is not a queue: any waiter
may get it.

* `Post` is `kmqint_post_message_ex`, `kmqint_post_sub_msg_ex` and
  `kmqint_post_subs_msg_ex` up to the loop; the five operators `HasCall`,
  `TrySend`, `Waits`, `HoldsTypes`, `LeavePublish` say how they differ. The
  allocation and the loop are one step: nobody else knows the message yet.
* `PostCheck`, `PostPut`, `PostDirect`, `PostWindow`, `PostSendWindow` are the
  branches of `kmqint_post`, in the order of the subscriptions.
* `PutMessage` is `kmqint_put_message` with `kmqint_notify_msg_completion` and
  `kmqint_call_completion_handler`; a message whose count is zero is known only
  to the thread that puts it, so leaving and entering `cs_kmq_msg` in it is not
  a step.
* `Settle` is the test "all done?" that ends every path of a recipient.
* `Wait`, `SendReturn`, `FreeHandle`, `Abort` belong to the owner of a call.
* `Quit`, `QuitCount`, `QuitPut` are `kmq_post_thread_quit_message` and the
  three holds of `kmqint_post_queue`; `DetachStart`, `DetachFail`, `DetachNext`
  the draining. A thread that got its quit message leaves its loop and detaches.
* `ComplTake`, `HandlerReturn` are the completion thread.

Windows (`SendMessage`, `PostMessage`, the window's procedure, which calls
`kmq_wm_begin` … `kmq_wm_end` or `kmq_wm_dispatch`) are modelled as KMQ uses
them: `wq` is the FIFO of posted `KMQ_WM_DISPATCH` messages of a thread.

Left out: the error context of a message, time stamps, responses (never
written), `kmq_has_completed` and `kmq_is_call_aborted` (read only),
`kmq_wait` with a timeout (the code only reports it), a `PostMessage` that
fails, `kmq_purge_queue` (in `KmqQueue`; here it would be one more recipient
path, counted as `DetachFail` is), subscriptions that change.

### MessageLife

Two variables, who uses a message (how many) and its phase. `Life!Spec` says
that a message is released exactly in the step in which its number of users
reaches zero. In the refinement mapping the users are the publisher, the call
handle and the recipients, counted from stacks, queues and handles and not from
`refcount`: the refinement would fail if the code released by a wrong count.

### RwLock

An action is one hold of the lock's critical section, or one return of
`WaitForSingleObject`. `reading` holds the read locks given out, which the code
does not record, so that releases match obtains. Assumed of the callers: no
thread asks for the write lock while it holds a read lock nor the reverse (it
would wait for itself), and each releases what it obtained, on its own thread.

### Task

The task's thread (`Runner*`, `CallParent`, `CallReturn`) and holders that pass
references on, release them and abort. The parent's callback may hold the task
it is called by.

### Kmm

A step is one hold of `cs_kmm`, one access of a variable that is read without
it, or one handler that touches only what is its own. `LoadModule`, `LoadEnd`,
`WindowSubscribe`, `WindowLook`, `ExitAll`, `ExitWait` are the main thread:
`kmm_load_default_modules`, the window that waits for start-up, `kmm_exit`. The
registrar handles one `KMSG_KMM_I_REG` message at a time: `TakeInitModule`,
`InitModulePlugin`, `InitModuleLast`, `InitModuleEnd` for
`kmmint_init_module`, `TakeInitPlugin`, `InitPluginDepends`, `InitPluginStart`
for `kmmint_init_plugin`, `TakeExitModule`, `TakeExitPlugin`, `ExitPluginEnd`
for the exits, where it waits for the broker thread. `Broker*` are
`kmmint_plugin_broker`. `CheckModules`, `CheckPlugins`, `CheckDone` are
`kmmint_check_completion`, by whichever thread gets there: the two counts are
read one after the other, without a lock. Holds and releases are operators on a
record of plug-ins and modules, so that a handler composes them; `Freed` is the
least set of plug-ins that a release frees, one freeing the next.

`plug` and `mod` are the records; `inqueue` and `inmodcount` the flags that say
whether a plug-in is counted as pending and by its module; `unresolved` and
`dependants` what a plug-in on hold waits for and who waits for it.

### CredDispatch

One `khui_new_creds` object. `nc` has the object, `flags` those of its types,
`cs` who keeps its critical section over several steps; `msg`, `inbox`, `xfer`
are messages, the plug-ins' queues and the completion thread's; `run` says
where the user interface and the completion thread are in the functions of
`credfuncs.c`; `wizard` and `wnd` are the window and what was posted to it;
`app` has the count of operations and the exit.

`Dispatch`, `Terminate`, `LevelMark`, `LevelClose`, `LevelPost`, `LevelCommit`
are `khm_cred_dispatch_process_message` and `_level` from one hold of `nc->cs`
to the next: the batch is posted before the object says so, which is the race
the function is written around. `ComplTake`, `Conclude`, `Return` are
`kmsg_cred_completion`, also nested in `LevelCommit` when the message completes
as its call is freed. `Begin*`, `End*`, `Exit*` are the count of operations
against the exit. `Plugin*` are the plug-ins, as the API lets them answer.
`Finish`, `End`, `Cancel`, `Close`, `OnProcessComplete` are the wizard.
`Child*` are operations that a plug-in's derived identities start; a child is
one of these operations itself, of which only the beginning and the end of its
report to the parent are modelled.

### KcdbIdent

An action is one outermost hold of `cs_ident` with the message that
`kcdbint_ident_post_message` posts at its end. `owner` says who keeps
`cs_ident` from one step to the next: a creation that completes a configuration
notifies the provider with the lock held. `root` is the lock of the root
credential set. `held` are the references a thread was given, `th` where it is
in a call. `Lookup` … `Publish` are `kcdb_identity_create_ex`, with the second
look in the hash table and the questions to the provider that `Answer` answers;
`Release`, `Delete`, `Complete` the ends of references; `Refresh` … `Report`
`kcdb_identity_refresh` in its six sections, `RefreshAll`, `Scan`, `Leave`
`kcdb_identity_refresh_all`; `Collect` … `Collected` the part of
`kcdb_credset_collect` that changes the root set and marks the identity;
`SetDefault` … `Flag` `kcdb_identpro_set_default_identity`. `view` is what a
subscriber of the messages has seen.

### KcdbCred

A step is one hold of `l_creds`, or what a thread does to a set whose critical
section it keeps. A release takes three holds (`StartRelease`, `CheckCount`,
`FreeCred`): the count goes down; it is read under the read lock; the object is
freed under the write lock. `EnterFirst`, `EnterSecond`, `Match`, `Update`,
`RemoveMissing`, `AddMissing` are `kcdb_credset_collect`, `ExtractTest`,
`ExtractAdd` `kcdb_credset_extract`; both keep the two sets throughout.
`Match` is the comparison and `Update` the update, two holds of `l_creds`: when
a credential is deleted in between, the update does nothing and both are done
with all the same. `Updated` says what becomes of the attributes: the
destination keeps what the source lacks, except for transient attributes, which
kcreddb.h:1836-1840 does not say. `Duplicable` is what `kcdb_cred_dup` accepts:
a deleted or a privileged credential is left out by a collect, and an extract
appends NULL for it. Attributes and the privileged flag are set by the maker of a
credential before anybody else knows of it.
`Apply` is the walk with a callback, and the set's ENUM flag with it. A
deleted credential (`deleted`) stays in the sets until they are purged, and the
seal of a set is tested where the code tests it, before its lock is entered.

### Kherr

A step is what a thread does from one entry of `cs_error` to the next leave:
the lock is left around every call of the handlers (`notify_ctx_event`), so the
rest of a call is data (`op[t].pc`, `after`) and goes on in what others have
made of the tree: `Begun`, `Committed`, `ErrorTold`, `Ended`, `FoldTold`.
`PushNew`, `Pop`, `Push`, `Attach`, `Detach` are the stacks and the contexts that
messages hold, `Report`, `Describe`, `DeleteLast` the events, `First`,
`NextContext`, `Left` the walk over children by the user interface. `Count`,
`Less`, `Release`, `AddEvent`, `Commit`, `Put`, `Finish` are the functions those
are composed of. An event is a severity, its thread, whether it is committed,
and how often handlers were told of it.

### KconfSpace

A step is one hold of `cs_conf_global`, made of operators that take the spaces
and the registry's keys as a record and return them changed (`Release`,
`Initialised`, `Opened`, `Made`, `Removed`, `Loaded`, `Unloaded`). The
functions for which one hold is all are one action each; `khc_open_space` is
not: `Open`, `Lookup`, `Make`, `OpenHandle`, `OpenDrop` and `OpenFail` leave the
lock between the levels of a path, and between looking for a space and making
it. A handle is a sequence of entries, what it opened and
its shadows. A space is freed with its last reference unless a store knows it;
`Freed` takes its children along whatever their counts are, as the code does.
Removing and releasing recurse over the tree, so this module declares RECURSIVE
operators, and there are no theorems about it.

## 3. Runs

A passing run explores every reachable state of its instance.

| Run | Instance | Shows |
|---|---|---|
| `queue` | owner and two posters, 3 references, 2 messages and the quit message, fairness | `NoLostWakeup`, `IInv`, `Delivered` |
| `call_post` | 2 threads and the completion thread, 3 messages, nesting 2, 1 call per callback: posting with and without handles, aborting, handlers that post, a thread that is told to quit and detaches | `RefcountExact`, `NoDangling`, `QuitSeen` |
| `call_send` | 2 messages, nesting 2, 1 call per callback, fairness; sending to the own window, the own callback and another thread's callback, and posting with call handles | `CountsExact`, `SendReturnsDone`, `CurrentHandled`, `ImplementsLife`, `SendReturns` |
| `rwlock` | 3 threads, nesting 2, fairness, deadlock checked | `Exclusion`, `NoLostWakeup`, `WaitersServed` |
| `task` | 3 holders, 2 references each, fairness | `FreedAtLast`, `AbortStops` |
| `kmm` | 3 modules and 4 plug-ins, one provided twice, one that may fail, one that waits for two others; fairness | `StartsAfterDepends`, `DoneAfterAll`, `StartupBegins`, `ExitCompletes` |
| `cred` | 2 types, one depending on the other and the other deriving a child; wizard or renewal, 3 messages, 2 starts; fairness | `OneBatch`, `AbortReaches`, `DependenciesHold`, `DestroyedIdle`, `ExitNotDuringOperation`, `Concludes` |
| `ident` | the user interface (2 calls) and the provider's plug-in (3 calls), 2 identities, 2 names; fairness | `RefcountExact`, `NoDangling`, `StaleIsMarked`, `DefaultAgrees`, `Returns` |
| `credset` | the user interface and a plug-in over the root set and a set each, 5 credentials, 2 keys, two programs of calls: views of the root set, and merges into it while the other thread deletes; deadlock checked | `RefcountExact`, `FreedWithLast`, `CollectMirrors` |
| `kherr` | a thread that opens and posts, one that handles, frees and walks; 3 contexts; deadlock checked | `RefcountExact`, `EndsOnce`, `CommitsOnce` |
| `kconf` | 2 threads, 4 spaces, paths up to 2 levels, one schema, registry with or without its key | `RefcountExact`, `NoDangling`, `FreedWhenForgotten` |
| `kherr_twice` | as `kherr`, with the race of two releases | violation of `EndsOnce` (kherr.h:494) |

A test can hardly reach what these are about: counts that are right under every
order of the releases of several threads (`RefcountExact`, `CountsExact`), an
object that is reached after it was freed (`NoDangling`, `FreedWithLast`,
`DestroyedIdle`, `CurrentHandled`), an announcement that comes too early, twice or never
(`DoneAfterAll`, `StartupBegins`, `EndsOnce`, `CommitsOnce`), an order that must
hold over several batches (`DependenciesHold`, `StartsAfterDepends`), two
records of one fact that must agree (`StaleIsMarked`, `DefaultAgrees`,
`CollectMirrors`), and something that ends (`SendReturns`, `Concludes`,
`ExitCompletes`, `Returns`).

Further properties stand in the modules and were checked on the same instances,
without a run of their own: each `TypeOK`, `HoldsExact`, `NoDangling`,
`CountsExact`, `LeavesNothing` (`Kmm`), `CallLive`, `NotUsedAfter`,
`DispatchWhenIdle`, `PendingExact`, `EndsForGood` (`CredDispatch`),
`OnePerName`, `NoneForgotten`, `ObserverCaughtUp` (`KcdbIdent`),
`EndsCommitted` (`Kherr`).

### What does not hold

`findings` of `PROJECT.json` describes the violation that is a run. The others
that the models reproduce have a configuration of their own or are had by putting a
name into `Deviations`; none of these is a passing run.

| Configuration | Property | What happens |
|---|---|---|
| `MCKmqQueue_purge` | `PurgesAll` (kmq.h:591) | the purge looks at the newest reference only |
| `MCKmqCall_send_early` | `SendReturnsDone` (kmq.h:614) | a send to a callback and then to the own window returns before the callback has run |
| `MCKmqCall_quit_lost` | `SendReturns` (kmq.h:690) | a quit message to a deleted queue is never completed |
| `MCKmqCall_lock_leak` | `NoLockLeak` (kmq.h:639) | `kmq_send_subs_msg` enters `cs_kmq_types` where it should leave it |
| `MCKmqCall_current` | `CurrentMessage` (kmq.h:534) | after a nested handler `last_msg` is empty (what is left of it, `CurrentHandled`, holds) |
| `MCTask_abort` | `FreedExited` (task.c:213) | an abort after the end undoes the state the assertion wants |
| `MCKmm_hang` | `StartupBegins` | a plug-in on hold is resolved twice by one dependency, is put on hold again, and stays counted when its other dependency fails: start-up is never announced |
| `MCKmm` with `EarlyExit = TRUE` | `ExitCompletes` | the quit message misses a broker that has no queue yet |
| `MCCredDispatch_late` | `DestroyedIdle` | a Cancel after the last batch starts a second dispatch, and the wizard closes on the first one's result |
| `MCCredDispatch` with `"early_child"` | `DestroyedIdle` | a child's end tells a parent to go on that is still processing |
| `MCCredDispatch` with `"child_refused"` | `Concludes` | a child refused at exit is never counted down |
| `MCKcdbIdent_late` | `StaleIsMarked` | the mark of a change is cleared by a refresh that looked before the change |
| `MCKcdbIdent` with `"lost_race"`, `"next_freed"` | `NoDangling` | an identity is freed between being found and being held |
| `MCKcdbIdent` with `"config_notify"` | `Returns` | a creation waits for the provider's thread, which waits for `cs_ident` |
| `MCKcdbIdent` with `"default_swap"` | `RefcountExact` | two changes of the default give the old one back twice |
| `MCKcdbCred` with `"reuse"` | `FreedWithLast` | the object freed under the write lock is a new one at the old address |
| `MCKcdbCred_privileged` | `PrivilegedKeptOut` (kcreddb.h:2412) | an update makes a credential of the root set privileged, with the contents of its counterpart |
| `MCKcdbCred_order` | no deadlock | an extract enters its source first, a collect the lower address: two calls on one pair of sets wait for each other (no caller in `src/` makes such a pair) |
| `MCKherr` with `"walk"` | `EndsOnce` | a walk takes a reference to a context that is ending |
| `MCKherr` with `"commit"` | `CommitsOnce` | two threads commit one event (as a run: `kherr_twice`) |
| `MCKconfSpace_twin` | `OneSpacePerPath` | two threads make the same space |

The instances of the passing runs do without these. `call_send` has the own
window first in the list, so that its recipient is finished when no other has
been counted, has no `kmq_send_subs_msg` and no quit message, and all its
recipients go on running; in `credset` each pair of sets is entered in one
order; in `kmm` the plug-in that fails is not one of the two that another waits
for, and the user leaves after start-up; the others have `Deviations = {}`.

### Bounds and why they are enough

Objects (`Refs`, `Msgs`, `Ctxs`, `Creds`, `Spaces`) bound how many are alive
at once, not how many are ever made: they are freed and used again, so runs are
unbounded in length. The exception is `Ids`, where freed memory stays freed so
that a dangling reference is seen, and the calls of a thread are bounded.

* `queue`: three references let the queue hold two while one is being
  dispatched or purged, which is what re-setting the event depends on, and one
  be built meanwhile.
* `call_*`: `MaxDepth` 2 lets a handler post or send from inside a call or a
  callback, while in `call_post` a third message completes. Two recipients are
  enough for "the first is done before the second is counted". `MaxCalls`
  bounds the calls one run of a callback makes. With one handle per message,
  counts stay below ten: overflow of the 32-bit counters needs 2^31 references
  alive and is not modelled.
* `rwlock`: three threads are two waiters, of either kind, and a holder.
* `kmm`: two dependencies of which one comes from another module, the smallest
  case in which a plug-in is resolved from two sides; one plug-in provided
  twice, one that fails, and a module that fails early or after providing.
* `cred`: two types are two batches. `MaxStarts` 2 is one Retry. Three messages
  are a batch, the next one and the END. One child at a time.
* `ident`: two names, one that completes its configuration in the creation and
  one that has none; two identities let a deleted one be followed by another of
  its name. Three calls of the plug-in are create, collect and one more.
* `credset`: a run starts with one of two programs. In `Views` a set is not
  filled beyond one credential, and the rare calls are made twice together. In
  `Merges` it is filled to two, so that a collect has one credential to update
  or remove and another to add; the plug-in makes credentials with no
  attributes, with one that stays and one that is transient, and privileged
  ones, and four times in all one is made, found or deleted, which is enough
  for two of a name, found, and deleted between comparison and update, in
  either set. One reference per thread (`MaxHeld`), five credentials since a
  collect makes copies. The other calls are made any number of times.
* `kherr`: three contexts are a parent, a child and one made while they end. One
  event per context (`MaxEvents`) leaves out that a second event commits the
  first; the descriptive event counts among them. One message at a time.
* `kconf`: two levels and one name, with a schema at the second level; two
  handles for the thread that shadows and copies, one for the one that creates
  and removes meanwhile. Four spaces are the root, a path of two, and a twin.

**Deadlock** is checked in `rwlock`, `credset` and `kherr`. The others may stop:
no thread is bound to post, a task ends, a queue's owner may detach, the
application exits, and calls or objects are used up.

**Fairness.** What the code's threads do of themselves: a thread that is inside
a library call goes on; an attached thread calls `kmq_dispatch` and its message
loop again and again, between the calls it makes; callbacks and handlers return;
the completion thread runs; the owner of a call handle frees it. No fairness is
put on making a call. Weak fairness is used wherever the step stays enabled
until it is taken, which for the short holds of `cs_kmq_msg` follows from the
bound on messages: posters run out of messages when nobody finishes one. Strong
fairness is used where the thread itself or others take the step away for a
while: dispatching and returning from a callback in `KmqQueue` (the owner's own
posts and purges), dispatching by a thread that also makes calls and freeing a
handle in `KmqCall`, and a task that looks at its state between calls of its
parent. In `KmqQueue` a purge is assumed to end: posters do not keep ahead of
its loop for ever.

In `Kmm`, `CredDispatch` and `KcdbIdent` the fairness is weaker: as long as
some thread, window or plug-in can go on with what it is in, one of them does
(`WF_vars(ThreadSteps)`, `WF_vars(SystemStep)`). Users, who click, cancel and
leave, and threads that make new calls are under no fairness. A plug-in is
assumed to end `KMSG_CRED_PROCESS` in the end, answered or not.

## 4. Proofs

TLAPS proves the following for all values of the constants, from the named
assumptions on them only (`QueueAssumption`, `CallAssumption`,
`LockAssumption`, `TaskAssumption`, `DispatchAssumption`, `KherrAssumption`): which constants are
what, and which markers (`NoMsg`, `None`) are not among the objects. No set of
objects or threads is assumed finite. Each module has `InitHolds`, `StepHolds`
and `Invariance` for its inductive invariant `IInv`, and the properties follow
from it.

* **KmqQueue**: `TypeCorrect`, `DispatchFindsRef`, `WakeupsNotLost`,
  `RefsNotShared`. `IInv` is the conjunction the run `queue` checks as a whole.
  `NoNullRef` and `NoLostWakeup` are not inductive by themselves. That a wake-up
  finds a reference needs, when the owner is woken, that the queue is not empty,
  and the reason is about signals: each signal, set or already consumed, means a
  reference, and when one is consumed while another is set there are two
  (`SignalOK`). The last clause is what survives a `DispatchGet` that takes one
  reference and leaves the event set. `PhaseOK` says what the owner holds in
  each phase, and `RefsInOnePlace` is needed for the purge, which takes
  references out of the middle of the owner's work.
* **KmqCall**: `TypeCorrect`, `RefcountCorrect`, `CountsCorrect`, `NoneDangles`
  and the refinement `LifeImplemented`. `IInv` has the three properties and what
  they lean on: what a frame is by its program counter (`FrameOK`), and that
  only user code has a frame above it (`StackShape`); what the queues of the
  completion thread, a woken and a detaching thread look like (`QueuesShape`);
  that the posting loop holds `cs_kmq_msg` (`PublishLock`) and frames that hold
  `cs_kmq_types` are counted by its depth (`TypesHeld`); that a message has one
  call or handle that owns it (`OneOwner`); that what is counted is finite
  (`Finite`). The numbers of the properties are cardinalities of sets of
  places: positions in a queue, a window's queue or a stack. A step moves
  one place from one set to another, so the proofs first say how the sets change
  and then count.
  `CountsExact` says at which step the test "all done" is right, and
  `RefcountExact` makes that step the one that puts the message; `NoDangling` is
  preserved because a reference count of zero says that every one of these sets
  is empty.
* **The refinement** `LifeImplemented` is `NoPostQuit => (Spec => ImplementsLife)`.
  One lemma per action shows a step of `MessageLife` or a stutter.
  `MessageLife` has no message that is open without a user, which is not in
  `IInv`; the proof carries it along (`InUse`: reference count and posters are
  not both zero). `NoPostQuit`, that no thread posts a quit message without
  waiting for it, is needed because `InUse` is false otherwise: a quit message
  has a reference count of zero until it is in a queue, and if the thread it is
  for has gone meanwhile, nobody looks at the count again and the message is
  never released (`kmqint_post_queue` in `kmq/consumer.c`). `kmq_send_thread_quit_message` is
  allowed. The other theorems do not need the hypothesis.
* **What KMQ promises its callers** (`KmqCallPromises`): `CurrentHandledCorrect`,
  `QuitSeenCorrect` and `SendReturnsCorrect`. They are about many places at once
  (a caller that waits, a queue, a callback on another thread), and not about
  single actions, so the proofs first forget the actions. `NextDoes` says that
  every step changes one frame of one stack and one message, in one of
  four ways: a call begins with a new message (`Begins`), the call of a message
  goes on (`Carries`), a recipient takes it from its queue (`Takes`), or
  something of it is over (`Settled`). Each promise is then kept by four cases
  in the place of thirty actions. `OneCall`, that a message has one call, comes
  from the ledger of `IInv` and excludes the others each time.
  * `QuitSeenCorrect` has no hypothesis. Its invariant (`QuitInv`) says that
    a quit message is never handled by a callback nor put into a window's queue,
    that until it is handled it is with the one thread it was sent to, and that
    once its event is set that thread is past dispatching. The step
    that sets the event is that thread's own.
  * `CurrentHandledCorrect` has no hypothesis either. Its invariant (`LastHeld`)
    is that `last_msg` is empty or the message of the innermost handler on the
    stack: a handler that starts is on top of the stack, one that ends empties
    `last_msg`, and no other step touches it. That the message is active then
    follows from `IInv`, since the handler's frame has a reference. The stronger
    promise that a handler always sees its own message is false
    (`MCKmqCall_current`): the window procedure leaves `last_msg` empty in the
    middle of the callback it is called from.
  * `SendReturnsCorrect` is under `OwnWindowsFirst`: before a window that it
    owns, a thread that sends runs every subscriber itself. Otherwise the
    property is false (`MCKmqCall_send_early`), as such a window is counted as
    finished before it is counted as sent. The invariant (`AnswerInv`) has what a
    message is still owed (`nSent - nCompleted - nFailed`) at each place of the
    posting loop as long as only the thread itself has run subscribers: 0, 1 in a
    direct callback, and -1 between the two counts of a window. That
    is why the window's own finish does not set the event: there nothing is
    owed before it and -1 after it. The event is set when nothing is owed and
    nobody posts the message any more.
* **RwLock**: `ReadersOrWriter`, `LocksCounted`, `WakeupsNotLost`. The lock's
  four invariants together are inductive: opening the lock at the last release is right
  because `locks` counts what is held, and a sleeping writer is safe because the
  lock that opens sets the event.
* **Task**: `LastReleaseFrees` and the action property `NoneUsesFreed` (no step
  acts on a freed task). `IInv` adds to `FreedAtLast` that only finitely many
  holders hold a reference, so that the last of them is the last.
* **CredDispatch**: `AbortCorrect`, `DependenciesCorrect`, `OneBatchWhileAlive`,
  `CallStaysLive`, all with every one of the three races allowed. The heart of
  `IInv` is `Batches` and `Control`: at most one thread is making the next
  batch, the user interface only while `dispatch_state` is NONE and the completion
  thread only from the handler of the batch before, and while a batch is
  out nobody makes one. So the batch that is out is the one `last_dispatch`
  refers to and an abort reaches it. `Ordered` says of a batch that what
  its types depend on is done and none of it is in the same batch. It stays so:
  the flags change only for types of the batch that is out, and there is only
  one. `Open` has that an open wizard's operation has not ended (its Cancel
  finds the object), `Delivery` that a message is in one place per plug-in,
  `NotBegun` that an operation refused at the exit leaves nothing.
  Here `OneBatch` is proved while the object exists. With `"late_cancel"` or
  `"early_child"` the object is destroyed in the middle of a dispatch, and then
  it says nothing.
* **The end of an operation** (the second half of `CredDispatchProofs`): `DestroyedIdleCorrect`,
  `NotUsedAfterCorrect`, `OneBatchCorrect` at all times, `DispatchWhenIdleCorrect`,
  `PendingCorrect` and `ExitCorrect`, under the hypothesis `Deviations = {}`. The
  hypothesis says that none of the three orders of events at the top of
  `CredDispatch` occurs; the code does not exclude them, so these theorems say
  that there is no fourth way to break the end of an operation, for any
  number of types and messages. What each of them breaks is in section 3. `EInv` adds
  to `IInv` what these properties need of the whole operation: `Roles`, which
  thread may be in which function and which message it then handles;
  `Working`, that one thread is at the processing; `ChildrenCounted`, that the
  parent's `n_children` is the number of children, those being begun included,
  and that a child whose end waits to be handled finds the processing at rest;
  `ToldOnce`, that the wizard gets one `WMNC_DIALOG_PROCESS_COMPLETE`, when the
  processing is over, and leaves its progress page only then (or, for a
  renewal, that END is posted only then); `OneEnd`, that there is one END and a
  type has left when its plug-in has handled it; `Leaving`, the count of
  operations and the exit. `ToldOnce` carries the argument: a second
  notification, or one while a thread is at the processing, would let the
  window end an object in use, which is what a late Cancel and an early child
  do; a refused child makes `ChildrenCounted` false.
* **Kherr**: `RefcountCorrect`, `EndsOnceCorrect` and `CommitsOnceCorrect`, under
  the hypothesis `Deviations = {}`: neither of the code's two races occurs
  (section 3), so the theorems say that there is no third way to a wrong count,
  a second end or a second commit. The
  users of a context are a set (`Uses`): positions on stacks, messages, walks,
  children, and the folds whose reference is still to be given back; `Users` is
  its cardinality. A step moves one element at most, and the lemmas
  `ExactMoves`, `ExactMore` and `ExactLess` turn that into the count. What the
  counts need besides (`IInv`) is about the calls that go on after the
  handlers: `OneEngaged`, one thread at a time commits in a context or ends it;
  `EndedApart`, what a call has ended, and will free, is without users, out of
  the tree, and not in the list of another call; `EndCounted`, a context has
  been ended once exactly if a call has it in hand. All the ways a call can
  leave `cs_error` are one predicate (`Outcome`), proved once of `Count`, `Put`,
  `Commit` and `Finish`, so that each caller only says how the users change.
  `CommitsOnce` has an invariant of its own on top, `EventsTold`: the ids of a
  context's events are all different (`NewIdFresh`: there is always one left),
  and what handlers were told of is committed, but for the last event while
  they are being called (`Opened`, else `Settled`). A step leaves the events
  of a context alone or has them to itself (`Tells`); without different ids
  `commit_event` could mark another event than the one it told of.

The step lemmas have one step per action (in `KmqCallPromises`, per kind of
step) and one per conjunct it can disturb.
`SequenceFacts` has what they need about `Append`, `Front`, `Tail` and `RemoveAt` and
about cardinalities of sets that differ in one element. Every `IInv` was checked
by TLC first, the one of `CredDispatch` with all three `Deviations`, `EInv` and
those of `Kherr` without any.

Only model-checked, and why:

* liveness, since the prover treats neither ENABLED nor fairness;
* `NoLockLeak` of `KmqCall`: it is false wherever `kmq_send_subs_msg` is called
  (section 3, "What does not hold");
* everything of `Kmm`, `KcdbIdent` and `KcdbCred`: not proved yet;
* `KconfSpace`: removing and releasing recurse over the tree, the module declares
  RECURSIVE operators, and what a recursive definition computes is out of the
  prover's reach. No module with a theorem reaches it.

## 5. Not modelled, and the plan

What has no module yet, in the order planned, most important first:

1. `KmqTypes`: registering types, subscribing and unsubscribing while messages
   are published. A post walks over a list whose lock it drops around callbacks.
   Abstractly: the set of (type, callback, thread). Runs: one subscriber
   unsubscribes in its callback; two threads subscribe the same callback.
2. `KmqCompletion` (start and stop of the completion thread), `InitOnce`,
   `KhList` (the pointer macros implement sequences).
3. The rest of `kherr`: progress, `clear_error`, handlers that come and go, the
   detach of a thread.
4. The rest of `kconfig`: `exit_kconf`, the memory provider and recursive
   mounts, `open_count` of the stores' nodes, values and their order of stores.
5. The other messages of `credfuncs.c` (the begin, end and wait of dialogs,
   import, destroy, the command line), and the key store of
   `plugins/keystore`.

Left out within a module is said in the note of its component in `PROJECT.json`:
in `Kmm` the synchronous load and the re-load of a module that has exited,
enumeration and enabling; in `KcdbIdent` properties, configuration
values and parents, in `KcdbCred` computed attributes, flags other than the
privileged one, and what is set after a credential is known; in `KconfSpace` the machine store, which
behaves as the user store does.

Refinements worth stating: the queue part of `KmqCall` implements `KmqQueue`;
`KhList` implements the sequence operations; the broker and registrar of `Kmm`
implement a start-up in which each plug-in is pending, starting or done.

Theorems worth proving next: `EndsCommitted` of `Kherr`; `FreedWithLast` of
`KcdbCred`; `NoDangling` of `KcdbIdent`; `StartsAfterDepends` of `Kmm`.

Not planned: windows and layout (`ui`, `uilib`), the plug-ins (calls of
Kerberos and certificate libraries), registry access, signature verification,
hash table, strings, conversions, types, attributes and resources: they are
sequential, or are input and output with no protocol of their own. They are
most of the source. `PROJECT.json` lists every part.
