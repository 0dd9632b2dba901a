------------------------------ MODULE KcdbIdent ------------------------------
(***************************************************************************)
(* Identities (src/kcreddb/identity.c) and what keeps them in step with    *)
(* the root credential set: reference counts, creation and deletion, the   *)
(* refresh of an identity's flags from the root credentials, and the       *)
(* default identity of a provider (identpro.c).                            *)
(*                                                                         *)
(* An action is one outermost section of cs_ident, which no other thread   *)
(* sees into, together with the message kcdbint_ident_post_message posts   *)
(* at its end: messages carry only the identity, so one that is posted a   *)
(* moment later is one that is handled later.  The lock itself appears     *)
(* (`owner`) where it is kept while a thread waits for the identity        *)
(* provider.  The root credential set's lock is `root`.                    *)
(***************************************************************************)
EXTENDS Integers, Sequences, SequencesExt, FiniteSets, FiniteSetsExt

CONSTANTS
    Threads,        \* the threads that call kcdb
    Provider,       \* the thread of the identity provider's plug-in
    Ids,            \* identity objects; freed memory is not used again
    Names,          \* identity names
    Configured,     \* names that have a complete configuration at first
    Bare,           \* names whose configuration has no IDProvider value yet
    CallsOf,        \* CallsOf[t]: the calls thread t makes
    MaxCalls,       \* bound: MaxCalls[t] of them
    Deviations,     \* the races below that this instance lets happen
    NoId, NoThread

(***************************************************************************)
(* Races that the locking leaves open (see README.md):                     *)
(*   "late_refresh"   the root set changes between kcdb_identity_refresh's *)
(*                    look at it and its last write to the identity;       *)
(*   "lost_race"      the identity that a creation lost its race to is     *)
(*                    freed before the loser holds it;                     *)
(*   "next_freed"     the identity kcdb_identity_refresh_all goes to next  *)
(*                    is freed while it refreshes another;                 *)
(*   "config_notify"  the provider's thread needs cs_ident while a         *)
(*                    creation waits for it with cs_ident held;            *)
(*   "default_swap"   two changes of the default identity overlap.         *)
(* An instance that leaves one out of Deviations shows what holds as long  *)
(* as that order does not occur.                                           *)
(***************************************************************************)
Calls == {"create", "release", "delete", "collect", "refresh", "refresh_all", "default"}
ASSUME IdentAssumption ==
    /\ Provider \in Threads
    /\ Configured \subseteq Names /\ Bare \subseteq Names \ Configured
    /\ CallsOf \in [Threads -> SUBSET Calls] /\ MaxCalls \in [Threads -> Nat]
    /\ Deviations \subseteq {"late_refresh", "lost_race", "next_freed",
                             "config_notify", "default_swap"}
    /\ NoId \notin Ids /\ NoThread \notin Threads

VARIABLES
    db,        \* obj: the identities; hash: kcdb_identities_namemap; list: kcdb_identities;
               \* msgs[i]: KMSG_KCDB_IDENT messages about i that are posted and not completed
    conf,      \* the names that have a complete configuration
    creds,     \* creds[i]: credentials of i in the root credential set
    root,      \* the thread that holds the root set's lock, or NoThread
    owner,     \* the thread that keeps cs_ident from one step to the next, or NoThread
    default,   \* the provider's default_id
    held,      \* held[t][i]: the references thread t has been given
    lost,      \* lost[i]: references that nobody will ever release
    view,      \* view[i]: what a subscriber saw of i's EMPTY flag at its last message
    th,        \* th[t]: where thread t is, its local variables
    calls      \* calls[t]: how many calls t has made

vars == <<db, conf, creds, root, owner, default, held, lost, view, th, calls>>

Unused == [state |-> "unused", name |-> NoId, active |-> FALSE, config |-> FALSE,
           stale |-> FALSE, quiet |-> FALSE, owed |-> FALSE, empty |-> FALSE,
           dflt |-> FALSE, ref |-> 0, n |-> 0, seen |-> FALSE]
Idle == [at |-> "idle", i |-> NoId, next |-> NoId, n |-> 0, notify |-> FALSE,
         all |-> FALSE, name |-> NoId]

Init ==
    /\ db = [obj |-> [i \in Ids |-> Unused], hash |-> [n \in Names |-> NoId],
             list |-> <<>>, msgs |-> [i \in Ids |-> 0]]
    /\ conf = Configured
    /\ creds = [i \in Ids |-> 0]
    /\ root = NoThread /\ owner = NoThread /\ default = NoId
    /\ held = [t \in Threads |-> [i \in Ids |-> 0]]
    /\ lost = [i \in Ids |-> 0]
    /\ view = [i \in Ids |-> TRUE]
    /\ th = [t \in Threads |-> Idle]
    /\ calls = [t \in Threads |-> 0]

-----------------------------------------------------------------------------
(* What the sections of cs_ident are made of: functions of db.              *)

Live(d, i) == i \in Ids /\ d.obj[i].state = "live"        \* kcdb_is_identity
IsActive(d, i) == Live(d, i) /\ d.obj[i].active           \* kcdb_is_active_identity

\* kcdb_identity_hold: nothing happens to what is not an identity.
Held(d, i) == IF Live(d, i) THEN [d EXCEPT !.obj[i].ref = @ + 1] ELSE d

\* kcdbint_ident_post_message
PostedUnheld(d, i) == [d EXCEPT !.msgs[i] = @ + 1]
Posted(d, i) == [Held(d, i) EXCEPT !.msgs[i] = @ + 1]
PostedIf(p, d, i) == IF p THEN Posted(d, i) ELSE d

Freed(d, i) == [d EXCEPT !.obj[i].state = "freed", !.list = Remove(@, i)]

\* kcdb_identity_delete
DeletedAtOnce(d, i) ==
    IF d.obj[i].active THEN Posted([d EXCEPT !.obj[i].active = FALSE], i) ELSE Freed(d, i)
Deleted(d, i) ==
    IF d.obj[i].active
    THEN Posted([d EXCEPT !.obj[i].active = FALSE,
                          !.hash = [n \in Names |-> IF @[n] = i THEN NoId ELSE @[n]]], i)
    ELSE IF d.obj[i].ref = 0 THEN Freed(d, i) ELSE d

\* kcdb_identity_release
ReleasedActive(d, i) ==
    LET e == [d EXCEPT !.obj[i].ref = @ - 1]
    IN  IF Live(d, i) /\ e.obj[i].ref = 0 /\ e.obj[i].active THEN Deleted(e, i) ELSE e
Released(d, i) ==
    LET e == [d EXCEPT !.obj[i].ref = @ - 1]
    IN  IF ~Live(d, i) THEN d
        ELSE IF e.obj[i].ref = 0 /\ ~e.obj[i].config THEN Deleted(e, i)
        ELSE e

\* kcdb_identity_set_flags(KCDB_IDENT_FLAG_NEEDREFRESH): a change is posted
\* unless NO_NOTIFY is set.
MarkedUnlessQuiet(d, i) == [d EXCEPT !.obj[i].stale = @ \/ ~d.obj[i].quiet]
Marked(d, i) ==
    LET o == d.obj[i]
    IN  PostedIf(~o.stale /\ ~o.quiet, [d EXCEPT !.obj[i].stale = TRUE], i)

\* kcdb_identity_set_flags as a refresh calls it: the mask has every flag a
\* refresh can set and NEEDREFRESH, NO_NOTIFY and NEED_NOTIFY, which are not
\* among the flags and so are cleared.
MaskNotQuiet == {"EMPTY", "NEEDREFRESH", "NEED_NOTIFY"}
Mask == {"EMPTY", "NEEDREFRESH", "NO_NOTIFY", "NEED_NOTIFY"}
SetFrom(d, i, n) ==
    LET o == d.obj[i]
        p == [o EXCEPT !.empty = (n = 0), !.stale = FALSE,
                       !.quiet = @ /\ "NO_NOTIFY" \notin Mask, !.owed = FALSE]
        delta == o.empty # p.empty \/ o.stale \/ o.owed
    IN  PostedIf(delta /\ ~p.quiet, [d EXCEPT !.obj[i] = p], i)

-----------------------------------------------------------------------------
(* Threads.                                                                *)

goto(t, l) == th' = [th EXCEPT ![t].at = l]
Enter(t) == owner \in {NoThread, t}                   \* EnterCriticalSection(&cs_ident)
Busy(t) == th[t].at # "idle"

\* kmq_send_sub_msg to the provider: its own thread handles the message at
\* once, any other waits at l until Answer takes it on.
Waits == [wait_config |-> "ask_create", wait_create |-> "publish",
          wait_update |-> "report", wait_default |-> "swap"]
AfterSendQueued(t, l) == l
AfterSend(t, l) == IF t = Provider THEN Waits[l] ELSE l

\* The provider's thread answers when it is in its dispatch loop.
Answer(t) ==
    /\ th[t].at \in DOMAIN Waits /\ ~Busy(Provider)
    /\ goto(t, Waits[th[t].at])
    /\ UNCHANGED <<db, conf, creds, root, owner, default, held, lost, view, calls>>

\* Thread t makes a call.
MayCall(t, c) ==
    /\ c \in CallsOf[t] /\ ~Busy(t) /\ calls[t] < MaxCalls[t]
    /\ t = Provider /\ "config_notify" \notin Deviations => owner = NoThread
    /\ calls' = [calls EXCEPT ![t] = @ + 1]

-----------------------------------------------------------------------------
(* kcdb_identity_create_ex                                                  *)

FreshIds == {i \in Ids : db.obj[i].state = "unused"}
Lookup(t) == \E n \in Names :
    /\ MayCall(t, "create") /\ Enter(t)
    /\ \E i \in {db.hash[n]} :
         IF i # NoId
         THEN /\ db' = Held(db, i)
              /\ held' = [held EXCEPT ![t][i] = @ + 1]
              /\ UNCHANGED th
         ELSE /\ Cardinality(FreshIds) > Cardinality({u \in Threads : th[u].at = "insert"})
              /\ th' = [th EXCEPT ![t] = [Idle EXCEPT !.at = "insert", !.name = n]]
              /\ UNCHANGED <<db, held>>
    /\ UNCHANGED <<conf, creds, root, owner, default, lost, view>>

\* The second look: the race is lost, the winner is held outside the lock.
LoseRace(t) ==
    /\ th[t].at = "insert" /\ Enter(t)
    /\ db.hash[th[t].name] # NoId
    /\ th' = [th EXCEPT ![t] = [@ EXCEPT !.at = "lost", !.i = db.hash[th[t].name]]]
    /\ UNCHANGED <<db, conf, creds, root, owner, default, held, lost, view, calls>>

HoldWinner(t) ==
    /\ th[t].at = "lost" /\ Enter(t)
    /\ db' = Held(db, th[t].i)
    /\ held' = [held EXCEPT ![t][th[t].i] = @ + 1]
    /\ th' = [th EXCEPT ![t] = Idle]
    /\ UNCHANGED <<conf, creds, root, owner, default, lost, view, calls>>

\* The identity is put into the hash table and held.  For a name of Bare the
\* configuration is completed, and the provider told of it, before cs_ident is
\* left.
WinnerUnseen(n) == NoId
Winner(n) == db.hash[n]
Insert(t) ==
    /\ th[t].at = "insert" /\ Enter(t)
    /\ LET n == th[t].name
           first == n \in Bare \ conf
       IN  /\ Winner(n) = NoId
           /\ "config_notify" \notin Deviations /\ first /\ t # Provider => ~Busy(Provider)
           /\ \E i \in {CHOOSE x \in FreshIds : TRUE} :
                /\ db' = [db EXCEPT !.obj[i] = [Unused EXCEPT !.state = "live", !.name = n,
                                          !.config = n \in conf \cup Bare, !.quiet = TRUE,
                                          !.empty = TRUE, !.ref = 1],
                                    !.hash[n] = i]
                /\ th' = [th EXCEPT ![t] = [@ EXCEPT !.i = i,
                                    !.at = IF first THEN AfterSend(t, "wait_config") ELSE "ask_create"]]
           /\ conf' = conf \cup (Bare \cap {n})
           /\ owner' = IF first THEN t ELSE owner
    /\ UNCHANGED <<creds, root, default, held, lost, view, calls>>

\* kcdb_identpro_notify_create, without the lock.
AskCreate(t) ==
    /\ th[t].at = "ask_create"
    /\ owner' = IF owner = t THEN NoThread ELSE owner
    /\ goto(t, AfterSend(t, "wait_create"))
    /\ UNCHANGED <<db, conf, creds, root, default, held, lost, view, calls>>

Published(d, i) ==
    Posted([d EXCEPT !.obj[i].active = TRUE, !.obj[i].quiet = FALSE, !.list = <<i>> \o @], i)
Publish(t) ==
    /\ th[t].at = "publish" /\ Enter(t)
    /\ db' = Published(db, th[t].i)
    /\ held' = [held EXCEPT ![t][th[t].i] = @ + 1]
    /\ th' = [th EXCEPT ![t] = Idle]
    /\ UNCHANGED <<conf, creds, root, owner, default, lost, view, calls>>

-----------------------------------------------------------------------------
(* References and deletion.                                                 *)

\* Nobody relies on i, or a race that this instance lets happen is on.
MayFree(i) == \A t \in Threads :
    /\ th[t].at = "lost" /\ th[t].i = i => "lost_race" \in Deviations
    /\ th[t].all /\ th[t].next = i => "next_freed" \in Deviations
Safely(d) == \A i \in Ids : db.obj[i].state = "live" /\ d.obj[i].state = "freed" => MayFree(i)

Release(t) == \E i \in Ids :
    /\ held[t][i] > 0
    /\ MayCall(t, "release") /\ Enter(t)
    /\ \E d \in {Released(db, i)} : Safely(d) /\ db' = d
    /\ held' = [held EXCEPT ![t][i] = @ - 1]
    /\ UNCHANGED <<conf, creds, root, owner, default, lost, view, th>>

Delete(t) == \E i \in Ids :
    /\ held[t][i] > 0
    /\ MayCall(t, "delete") /\ Enter(t)
    /\ db' = Deleted(db, i)
    /\ UNCHANGED <<conf, creds, root, owner, default, held, lost, view, th>>

\* The subscribers handle a message about i, then its completion handler
\* (kcdbint_ident_msg_completion) gives the message's reference back.
Complete(i) ==
    /\ db.msgs[i] > 0 /\ owner = NoThread
    /\ \E c \in {[db EXCEPT !.msgs[i] = @ - 1]} : \E d \in {Released(c, i)} :
         Safely(d) /\ db' = d
    /\ view' = [view EXCEPT ![i] = db.obj[i].empty]
    /\ UNCHANGED <<conf, creds, root, owner, default, held, lost, th, calls>>

-----------------------------------------------------------------------------
(* kcdb_identity_refresh: the thread's `all` says that kcdb_identity_       *)
(* refresh_all runs it.                                                     *)

\* Where the thread goes when the refresh of one identity is over.
EndOneForgets(t) == Idle
EndOne(t) == IF th[t].all THEN [th[t] EXCEPT !.at = "leave"] ELSE Idle

Refresh(t) == \E i \in Ids :
    /\ held[t][i] > 0
    /\ MayCall(t, "refresh")
    /\ th' = [th EXCEPT ![t] = [Idle EXCEPT !.at = "quieten", !.i = i]]
    /\ UNCHANGED <<db, conf, creds, root, owner, default, held, lost, view>>

Quieten(t) ==
    /\ th[t].at = "quieten" /\ Enter(t)
    /\ LET i == th[t].i
       IN  IF IsActive(db, i)
           THEN /\ db' = [db EXCEPT !.obj[i].quiet = TRUE]
                /\ th' = [th EXCEPT ![t] = [@ EXCEPT !.at = "apply", !.notify = ~db.obj[i].quiet]]
           ELSE th' = [th EXCEPT ![t] = EndOne(t)] /\ UNCHANGED db
    /\ UNCHANGED <<conf, creds, root, owner, default, held, lost, view, calls>>

\* kcdb_credset_apply over the root set
Apply(t) ==
    /\ th[t].at = "apply" /\ root = NoThread
    /\ th' = [th EXCEPT ![t] = [@ EXCEPT !.at = "set", !.n = creds[th[t].i]]]
    /\ UNCHANGED <<db, conf, creds, root, owner, default, held, lost, view, calls>>

SetFlags(t) ==
    /\ th[t].at = "set" /\ Enter(t)
    /\ db' = SetFrom(db, th[t].i, th[t].n)
    /\ goto(t, "store")
    /\ UNCHANGED <<conf, creds, root, owner, default, held, lost, view, calls>>

\* kcdb_identpro_update refuses an identity that is no longer active.
Stored(o, n, notify) ==
    [o EXCEPT !.n = n, !.seen = TRUE, !.stale = FALSE,
              !.owed = @ \/ ~notify, !.quiet = @ /\ ~notify]
Store(t) ==
    /\ th[t].at = "store" /\ Enter(t)
    /\ LET i == th[t].i
       IN  /\ db' = [db EXCEPT !.obj[i] = Stored(@, th[t].n, th[t].notify)]
           /\ th' = [th EXCEPT ![t] = IF IsActive(db, i)
                                      THEN [@ EXCEPT !.at = AfterSend(t, "wait_update")]
                                      ELSE EndOne(t)]
    /\ UNCHANGED <<conf, creds, root, owner, default, held, lost, view, calls>>

\* Reported if the provider's update succeeded.
Report(t) ==
    /\ th[t].at = "report" /\ Enter(t)
    /\ \E ok \in BOOLEAN : db' = PostedIf(ok /\ th[t].notify, db, th[t].i)
    /\ th' = [th EXCEPT ![t] = EndOne(t)]
    /\ UNCHANGED <<conf, creds, root, owner, default, held, lost, view, calls>>

-----------------------------------------------------------------------------
(* kcdb_identity_refresh_all: `seen` is refresh_cycle ==                    *)
(* kcdb_ident_refresh_cycle.                                                *)

\* The loop goes through the identities of s, skipping and marking those that
\* need nothing; it holds the first that does, and remembers its successor.
Needs(d, i) == IsActive(d, i) /\ ~d.obj[i].seen /\ d.obj[i].stale
Successor(d, i) == LET k == CHOOSE k \in 1..Len(d.list) : d.list[k] = i
                   IN  IF k < Len(d.list) THEN d.list[k + 1] ELSE NoId
Skipped(d, S) == [d EXCEPT !.obj = [i \in Ids |-> [@[i] EXCEPT !.seen = @ \/ i \in S]]]
Scan(t, d, s) ==
    \E first \in {SelectInSeq(s, LAMBDA i : Needs(d, i))} :
    \E e \in {Skipped(d, ToSet(IF first = 0 THEN s ELSE SubSeq(s, 1, first - 1)))} :
        IF first = 0
        THEN db' = e /\ th' = [th EXCEPT ![t] = Idle]
        ELSE \E i \in {s[first]} :
             /\ db' = Held(e, i)
             /\ th' = [th EXCEPT ![t] = [Idle EXCEPT !.at = "quieten", !.i = i, !.all = TRUE,
                                                     !.next = Successor(d, i)]]

\* The cycle begins.
NewCycle(d) == [d EXCEPT !.obj = [i \in Ids |-> [@[i] EXCEPT !.seen = FALSE]]]
RefreshAll(t) ==
    /\ MayCall(t, "refresh_all") /\ Enter(t)
    /\ \E d \in {NewCycle(db)} : Scan(t, d, d.list)
    /\ UNCHANGED <<conf, creds, root, owner, default, held, lost, view>>

\* The end of the collect below.
RefreshAfter(t) ==
    /\ th[t].at = "refresh_all" /\ Enter(t)
    /\ \E d \in {NewCycle(db)} : Scan(t, d, d.list)
    /\ UNCHANGED <<conf, creds, root, owner, default, held, lost, view, calls>>

\* One identity is done: it is released, and the loop goes on with the one
\* remembered and, since there has been a hit, over the whole list again.
From(d, i) == IF i \in ToSet(d.list)
              THEN SubSeq(d.list, CHOOSE k \in 1..Len(d.list) : d.list[k] = i, Len(d.list))
              ELSE <<>>
Leave(t) ==
    /\ th[t].at = "leave" /\ Enter(t)
    /\ \E d \in {Released(db, th[t].i)} :
         /\ Safely(d)
         /\ \E s \in {From(d, th[t].next) \o d.list} : Scan(t, d, s)
    /\ UNCHANGED <<conf, creds, root, owner, default, held, lost, view, calls>>

-----------------------------------------------------------------------------
(* kcdb_credset_collect into the root set: the credentials of one identity  *)
(* appear or go, the identity is marked, and kcdb_identity_refresh_all      *)
(* follows.  The loop keeps the last identity it marked held.               *)

Refreshing(i) == \E t \in Threads : th[t].i = i /\ th[t].at \in {"set", "store"}

Collect(t) == \E i \in Ids :
    /\ MayCall(t, "collect") /\ root = NoThread
    /\ IF creds[i] = 0 THEN held[t][i] > 0 ELSE TRUE
    /\ root' = t
    /\ th' = [th EXCEPT ![t] = [Idle EXCEPT !.i = i,
                                            !.at = IF creds[i] = 0 THEN "add" ELSE "mark_del"]]
    /\ UNCHANGED <<db, conf, creds, owner, default, held, lost, view>>

NotLate(i) == Refreshing(i) => "late_refresh" \in Deviations

\* kcdb_cred_dup and kcdb_credset_add_cred: the new credential holds i.
Add(t) ==
    /\ th[t].at = "add" /\ Enter(t)
    /\ NotLate(th[t].i)
    /\ db' = Held(db, th[t].i)
    /\ creds' = [creds EXCEPT ![th[t].i] = 1]
    /\ goto(t, "mark_add")
    /\ UNCHANGED <<conf, root, owner, default, held, lost, view, calls>>

\* check_and_set_refresh_bit_for_identity, before a removal and after an
\* addition.
Mark(t) ==
    /\ th[t].at \in {"mark_del", "mark_add"} /\ Enter(t)
    /\ NotLate(th[t].i)
    /\ db' = Marked(Held(db, th[t].i), th[t].i)
    /\ goto(t, IF th[t].at = "mark_del" THEN "del" ELSE "collected")
    /\ UNCHANGED <<conf, creds, root, owner, default, held, lost, view, calls>>

\* kcdb_credset_del_cred_ref: the credential goes and releases i.
Del(t) ==
    /\ th[t].at = "del" /\ Enter(t)
    /\ NotLate(th[t].i)
    /\ db' = Released(db, th[t].i)
    /\ creds' = [creds EXCEPT ![th[t].i] = 0]
    /\ goto(t, "collected")
    /\ UNCHANGED <<conf, root, owner, default, held, lost, view, calls>>

Collected(t) ==
    /\ th[t].at = "collected" /\ Enter(t)
    /\ \E d \in {Released(db, th[t].i)} : Safely(d) /\ db' = d
    /\ root' = NoThread
    /\ th' = [th EXCEPT ![t] = [Idle EXCEPT !.at = "refresh_all"]]
    /\ UNCHANGED <<conf, creds, owner, default, held, lost, view, calls>>

-----------------------------------------------------------------------------
(* kcdb_identpro_set_default_identity.                                      *)

SetDefault(t) == \E i \in Ids :
    /\ held[t][i] > 0
    /\ MayCall(t, "default") /\ Enter(t)
    /\ \E l \in {AfterSend(t, "wait_default"), "swap"} :      \* set_default, set_default_int
         th' = IF i = default THEN th ELSE [th EXCEPT ![t] = [Idle EXCEPT !.at = l, !.i = i]]
    /\ UNCHANGED <<db, conf, creds, root, owner, default, held, lost, view>>

\* The provider may refuse.
Refused(t) ==
    /\ th[t].at = "swap"
    /\ th' = [th EXCEPT ![t] = Idle]
    /\ UNCHANGED <<db, conf, creds, root, owner, default, held, lost, view, calls>>

\* Under cs_identpro; `next` keeps the old default.
Swap(t) ==
    /\ th[t].at = "swap"
    /\ "default_swap" \notin Deviations => \A u \in Threads : th[u].at \notin {"flag", "flag_same"}
    /\ default' = th[t].i
    /\ th' = [th EXCEPT ![t] = IF default = th[t].i THEN [@ EXCEPT !.at = "flag_same"]
                               ELSE [@ EXCEPT !.at = "flag", !.next = default]]
    /\ UNCHANGED <<db, conf, creds, root, owner, held, lost, view, calls>>

\* Under cs_ident: the flags, and a reference for default_id.  The message is
\* posted with a second hold that nobody releases.
UndefaultedNone(d, i) == d
Undefaulted(d, i) == [d EXCEPT !.obj[i].dflt = FALSE]
Flag(t) ==
    /\ th[t].at \in {"flag", "flag_same"} /\ Enter(t)
    /\ LET i == th[t].i
           old == th[t].next
           d == [Held(db, i) EXCEPT !.obj[i].dflt = TRUE]
           e == IF old = NoId THEN d ELSE Released(Undefaulted(d, old), old)
       IN  IF th[t].at = "flag"
           THEN /\ Safely(e)
                /\ db' = Posted(Held(e, i), i)
                /\ lost' = [lost EXCEPT ![i] = @ + 1]
           ELSE db' = [db EXCEPT !.obj[i].dflt = TRUE] /\ UNCHANGED lost
    /\ th' = [th EXCEPT ![t] = Idle]
    /\ UNCHANGED <<conf, creds, root, owner, default, held, view, calls>>
-----------------------------------------------------------------------------
Call(t) ==
    \/ Lookup(t) \/ Release(t) \/ Delete(t) \/ Refresh(t) \/ RefreshAll(t)
    \/ Collect(t) \/ SetDefault(t)

Step(t) ==
    \/ Answer(t)
    \/ LoseRace(t) \/ HoldWinner(t) \/ Insert(t) \/ AskCreate(t) \/ Publish(t)
    \/ Quieten(t) \/ Apply(t) \/ SetFlags(t) \/ Store(t) \/ Report(t)
    \/ RefreshAfter(t) \/ Leave(t)
    \/ Add(t) \/ Mark(t) \/ Del(t) \/ Collected(t)
    \/ Refused(t) \/ Swap(t) \/ Flag(t)

SystemStep == (\E t \in Threads : Step(t)) \/ (\E i \in Ids : Complete(i))
Next == SystemStep \/ \E t \in Threads : Call(t)

\* A thread that is in a call goes on with it, and messages are handled; no thread
\* has to make a call.
Spec == Init /\ [][Next]_vars /\ WF_vars(SystemStep)

-----------------------------------------------------------------------------
(* Properties.                                                             *)

Labels == {"idle", "insert", "lost", "ask_create", "publish", "quieten", "apply", "set",
           "store", "report", "leave", "refresh_all", "add", "mark_add", "mark_del", "del",
           "collected", "swap", "flag", "flag_same"} \cup DOMAIN Waits

\* The shape of the state (identity.h, credset.h).
TypeOK ==
    /\ \A i \in Ids : db.obj[i].state \in {"unused", "live", "freed"} /\ db.obj[i].ref \in Nat
    /\ db.hash \in [Names -> Ids \cup {NoId}] /\ ToSet(db.list) \subseteq Ids
    /\ db.msgs \in [Ids -> Nat]
    /\ conf \subseteq Names /\ creds \in [Ids -> 0..1]
    /\ {root, owner} \subseteq Threads \cup {NoThread} /\ default \in Ids \cup {NoId}
    /\ held \in [Threads -> [Ids -> Nat]] /\ lost \in [Ids -> Nat] /\ view \in [Ids -> BOOLEAN]
    /\ \A t \in Threads : th[t].at \in Labels /\ calls[t] <= MaxCalls[t]

\* Everything that refers to an identity, one reference each: the threads that
\* were given it, its root credentials, its messages, default_id, the creation,
\* the refresh_all and the collect that are at it.
Creating == {"wait_config", "ask_create", "wait_create", "publish"}
References(i) ==
    LET at(l) == {t \in Threads : th[t].i = i /\ th[t].at \in l}
    IN  MapThenSumSet(LAMBDA t : held[t][i], Threads) + creds[i] + db.msgs[i] + lost[i]
        + Cardinality(at(Creating)) + Cardinality(at({"del", "collected"}))
        + Cardinality({t \in at(Labels) : th[t].all})
        + Cardinality({t \in Threads : th[t].at = "flag" /\ th[t].next = i})
        + (IF default = i /\ at({"flag"}) = {} THEN 1 ELSE 0)

\* An identity's reference count is the number of references somebody will give
\* back, and those that are lost: no path of a creation that lost its race, of a
\* refresh cut short or of a change of the default forgets one or counts one twice.
RefcountExact == \A i \in Ids : Live(db, i) => db.obj[i].ref = References(i)

\* The memory of an identity is freed only when nothing leads to it any more: no
\* thread, credential, message, table, list or cursor of a loop.
NoDangling == \A i \in Ids : db.obj[i].state = "freed" =>
    /\ i \notin ToSet(db.list) /\ i # default
    /\ \A n \in Names : db.hash[n] # i
    /\ creds[i] = 0 /\ db.msgs[i] = 0
    /\ \A t \in Threads : held[t][i] = 0 /\ th[t].i # i /\ ~(th[t].all /\ th[t].next = i)

\* However creations and deletions of a name overlap, an active identity is the
\* one its name leads to: there are never two of a name.
OnePerName == \A i \in Ids : IsActive(db, i) => db.hash[db.obj[i].name] = i

\* An identity without configuration that nobody refers to is not kept: whoever
\* gave back the last reference deleted or freed it.
NoneForgotten == \A i \in Ids :
    Live(db, i) /\ db.obj[i].ref = 0 => db.obj[i].config

\* An identity whose flags do not tell what the root set holds is marked for
\* refresh, or some thread is just about to mark it or to write its flags.
StaleIsMarked == \A i \in Ids :
    /\ IsActive(db, i)
    /\ \A t \in Threads : th[t].i = i => th[t].at \notin {"set", "store", "mark_add"}
    => \/ db.obj[i].stale
       \/ db.obj[i].n = creds[i] /\ db.obj[i].empty = (creds[i] = 0)

\* When the messages about an identity have been handled, their subscribers have
\* seen its present flags: each change is followed by a message, though
\* refreshes turn notification off and on and may overlap.
ObserverCaughtUp == \A i \in Ids :
    IsActive(db, i) /\ db.msgs[i] = 0 => view[i] = db.obj[i].empty

\* Once a change of the default is over, the flag DEFAULT is on the provider's
\* default identity and on no other.
DefaultAgrees ==
    (\A t \in Threads : th[t].at \notin {"flag", "flag_same"}) =>
        \A i \in Ids : Live(db, i) => (db.obj[i].dflt <=> default = i)

\* Every call returns (again and again all threads are out of their calls):
\* kcdb_identity_refresh_all stops though other threads go on marking identities,
\* and no thread waits for the provider's thread while that thread waits for it.
Returns == []<>(\A t \in Threads : ~Busy(t))
=============================================================================
