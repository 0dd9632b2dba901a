------------------------------ MODULE KcdbCred ------------------------------
(***************************************************************************)
(* Credentials and credential sets of the credentials database              *)
(* (src/kcreddb/credential.c, credset.c).  A credential is an object with a *)
(* reference count under the read/write lock l_creds; a credential set is   *)
(* a list of references to credentials under a critical section of its own. *)
(*                                                                          *)
(* A step is one hold of l_creds, one entry of a set's critical section, or *)
(* what a thread does to a set whose critical section it keeps: such steps  *)
(* are seen by nobody until the section is left.  Giving a reference back   *)
(* takes three holds of l_creds (StartRelease, CheckCount, FreeCred).       *)
(***************************************************************************)
EXTENDS Integers, Sequences, SequencesExt, FiniteSets

CONSTANTS Threads,
          Creds,       \* addresses of kcdb_cred objects (bound: alive at once)
          Keys,        \* what kcdb_creds_is_equal compares: identity, type, name
          Attributes,  \* the attributes that are not computed
          Transient,   \* those with KCDB_ATTR_FLAG_TRANSIENT
          AttrValues,  \* what an attribute may be
          Sets,        \* credential sets
          Root,        \* kcdb_root_credset
          Address,     \* the sets' addresses, by which kcdb_credset_collect locks
          Programs,    \* what the threads may call, and the bounds of it
          MaxHeld,     \* bound: references a thread keeps for itself
          Deviations,  \* which of the code's races the instance has (README)
          NoThread, NoCred

OneSet == {"add", "get", "find", "delcred", "flush", "purge", "apply", "seal", "unseal"}
TwoSets == {"collect", "extract"}

\* What the maker of a credential gives it before anybody else knows of it.
DataType == [val : UNION {[A -> AttrValues] : A \in SUBSET Attributes}, privileged : BOOLEAN]
NoData == [val |-> <<>>, privileged |-> FALSE]

\* A program has the calls of each thread, [api, d, s, sel, data], the size that
\* a set is not added to, nor extracted to, beyond, and the rare calls, of which
\* it makes so many together: all these are bounds.
ASSUME CredAssumption ==
    /\ Root \in Sets
    /\ NoThread \notin Threads /\ NoCred \notin Creds
    /\ Address \in [Sets -> Nat]
    /\ \A r, s \in Sets : Address[r] = Address[s] => r = s
    /\ Transient \subseteq Attributes
    /\ \A program \in Programs :
         /\ program.size \in Nat /\ program.many \in Nat
         /\ \A t \in Threads : \A call \in program.calls[t] :
              /\ DOMAIN call.data.val \subseteq Attributes
              /\ Range(call.data.val) \subseteq AttrValues
              /\ call.data.privileged \in BOOLEAN
    /\ Deviations \subseteq {"reuse"}

VARIABLES program, \* the one that is run
          cred,    \* the objects, NoObject where there is none
          list,    \* kcdb_credset::clist, NoCred for an emptied slot
          seals,   \* kcdb_credset::seal_count
          cs,      \* the owner of kcdb_credset::cs
          enum,    \* KCDB_CREDSET_FLAG_ENUM
          held,    \* references a thread keeps: how many, of each credential
          op,      \* the call a thread is in
          rel,     \* the credential it is giving back, and how far it is
          rare     \* how many rare calls were made

vars == <<program, cred, list, seals, cs, enum, held, op, rel, rare>>

NoObject == [live |-> FALSE]
Live(c) == cred[c].live                                     \* kcdb_cred_is_cred
ActiveCred(c) == c # NoCred /\ Live(c) /\ ~cred[c].deleted  \* kcdb_cred_is_active_cred

NoCall == [api |-> "none", d |-> Root, s |-> Root, sel |-> {}, data |-> NoData]
Idle == [call |-> NoCall, pc |-> "idle", i |-> 0, j |-> 0, cd |-> <<>>, cl |-> <<>>]
NoRelease == [c |-> NoCred, phase |-> "none"]

Init ==
    /\ program \in Programs
    /\ cred = [c \in Creds |-> NoObject]
    /\ list = [s \in Sets |-> <<>>]
    /\ seals = [s \in Sets |-> 0]
    /\ cs = [s \in Sets |-> NoThread]
    /\ enum = [s \in Sets |-> FALSE]
    /\ held = [t \in Threads |-> [c \in Creds |-> 0]]
    /\ op = [t \in Threads |-> Idle]
    /\ rel = [t \in Threads |-> NoRelease]
    /\ rare = 0

Count(api) == IF api \in program.rare THEN rare < program.many /\ rare' = rare + 1 ELSE UNCHANGED rare

HeldBy(t) == {c \in Creds : held[t][c] > 0}
HeldCount(t) == FoldFunction(LAMBDA n, m : n + m, 0, held[t])

At(t, pc) == op[t].pc = pc /\ rel[t] = NoRelease
Goto(t, pc) == op' = [op EXCEPT ![t].pc = pc]
Call(t) == op[t].call
Free == [t \in Threads |-> Idle]

-----------------------------------------------------------------------------
(* Credentials *)

\* An address is free for PMALLOC.  Deviation "reuse": also one that another
\* thread, which lost the race in kcdb_cred_check_and_delete, is still to test.
Unused(c) == ~Live(c) /\ ("reuse" \notin Deviations => \A t \in Threads : rel[t].c # c)

NewCred(key, data) == [live |-> TRUE, key |-> key, val |-> data.val, privileged |-> data.privileged,
                       refcount |-> 1, deleted |-> FALSE]

Hold(c) == [cred EXCEPT ![c].refcount = @ + 1]

\* kcdb_cred_release, first hold: the count goes down.
StartRelease(t, c) ==
    /\ cred' = [cred EXCEPT ![c].refcount = @ - 1]
    /\ rel' = [rel EXCEPT ![t] = [c |-> c, phase |-> "check"]]

\* kcdb_cred_check_and_delete, under the read lock.
\* (Mutant: the last reference but one frees it.)
UnreferencedButOnce(c) == Live(c) /\ cred[c].refcount <= 1
Unreferenced(c) == Live(c) /\ cred[c].refcount = 0

CheckCount(t) ==
    /\ rel[t].phase = "check"
    /\ rel' = [rel EXCEPT ![t] = IF Unreferenced(@.c) THEN [@ EXCEPT !.phase = "free"] ELSE NoRelease]
    /\ UNCHANGED <<cred, list, seals, cs, enum, held, op>>

\* Then under the write lock, where only the magic number is tested again.
FreeCred(t) ==
    /\ rel[t].phase = "free"
    /\ cred' = [cred EXCEPT ![rel[t].c] = NoObject]
    /\ rel' = [rel EXCEPT ![t] = NoRelease]
    /\ UNCHANGED <<list, seals, cs, enum, held, op>>

\* The bound on addresses must not stop a call that has entered a set: there is
\* one for every copy that the calls under way may make.
Copies(call) == \/ call.api = "collect" /\ Root \in {call.d, call.s}
                \/ call.api = "extract" /\ call.s = Root
Reserved == program.size * Cardinality({t \in Threads : Copies(Call(t))})
Spare == Cardinality({c \in Creds : ~Live(c)}) - Reserved

May(t, api) == \E call \in program.calls[t] : call.api = api

\* kcdb_cred_create, with the attributes and flags that its caller, who holds
\* the only reference, then sets.
Create(t) ==
    /\ At(t, "idle") /\ HeldCount(t) < MaxHeld /\ Spare > 0 /\ Count("create")
    /\ \E c \in Creds, call \in program.calls[t] : \E key \in call.sel :
         /\ call.api = "create" /\ Unused(c)
         /\ cred' = [cred EXCEPT ![c] = NewCred(key, call.data)]
         /\ held' = [held EXCEPT ![t][c] = @ + 1]
    /\ UNCHANGED <<list, seals, cs, enum, op, rel>>

Release(t) ==
    /\ At(t, "idle") /\ May(t, "release")
    /\ \E c \in HeldBy(t) :
         /\ StartRelease(t, c)
         /\ held' = [held EXCEPT ![t][c] = @ - 1]
    /\ UNCHANGED <<list, seals, cs, enum, op>>

\* kcdb_cred_delete: marked, and freed with its last reference.
Delete(t) ==
    /\ At(t, "idle") /\ May(t, "delete") /\ Count("delete")
    /\ \E c \in HeldBy(t) :
         /\ ~cred[c].deleted
         /\ cred' = [cred EXCEPT ![c].deleted = TRUE]
         /\ rel' = [rel EXCEPT ![t] = [c |-> c, phase |-> "check"]]
    /\ UNCHANGED <<list, seals, cs, enum, held, op>>

-----------------------------------------------------------------------------
(* Calls on credential sets *)

\* The calls that a sealed set refuses.  The seal is tested before the set's
\* critical section is entered.
Sealable == {"add", "delcred", "flush", "purge", "collect", "extract"}

Begin(t) ==
    /\ At(t, "idle")
    /\ \E call \in program.calls[t] :
         /\ call.api \in OneSet \cup TwoSets
         /\ call.api \in Sealable => seals[call.d] = 0
         /\ call.api \in {"get", "find"} => HeldCount(t) < MaxHeld
         /\ call.api = "add" => HeldBy(t) # {} /\ Len(list[call.d]) < program.size
         /\ call.api = "extract" => list[call.d] = <<>>
         /\ Copies(call) => Spare >= program.size
         /\ Count(call.api)
         /\ call.api = "seal" => seals[call.d] = 0
         /\ op' = [op EXCEPT ![t] = [Idle EXCEPT !.call = call, !.pc = "enter", !.i = 1]]
    /\ UNCHANGED <<cred, list, seals, cs, enum, held, rel>>

Slot(s, i) == IF i \in DOMAIN list[s] THEN list[s][i] ELSE NoCred
Appended(s, c) == [list EXCEPT ![s] = Append(@, c)]
Cut(s, i) == [list EXCEPT ![s] = RemoveAt(@, i)]
Emptied(s, i) == [list EXCEPT ![s][i] = NoCred]

Enters(t, api, s) == At(t, "enter") /\ Call(t).api = api /\ cs[s] = NoThread
Done(t) == op' = [op EXCEPT ![t] = Idle]

\* kcdb_credset_add_cred of a credential the caller holds.
Add(t) ==
    LET d == Call(t).d IN
    /\ Enters(t, "add", d)
    /\ \E c \in HeldBy(t) : cred' = Hold(c) /\ list' = Appended(d, c)
    /\ Done(t)
    /\ UNCHANGED <<seals, cs, enum, held, rel>>

\* kcdb_credset_get_cred and kcdb_credset_find_filtered find a credential.
\* (Mutant: the credential is returned without a hold.)
FoundUnheld(c) == cred
Found(c) == Hold(c)

Lookup(t) ==
    LET d == Call(t).d IN
    /\ Enters(t, "get", d) \/ Enters(t, "find", d)
    /\ \/ \E i \in DOMAIN list[d] :
            /\ ActiveCred(list[d][i])
            /\ cred' = Found(list[d][i])
            /\ held' = [held EXCEPT ![t][list[d][i]] = @ + 1]
       \/ UNCHANGED <<cred, held>>                \* out of bounds, or not found
    /\ Done(t)
    /\ UNCHANGED <<list, seals, cs, enum, rel>>

\* kcdb_credset_get_cred meets a deleted one, and drops it from the set.
GetDeleted(t) ==
    LET d == Call(t).d IN
    /\ Enters(t, "get", d)
    /\ \E i \in DOMAIN list[d] :
         LET c == list[d][i] IN
         /\ c # NoCred /\ ~ActiveCred(c)
         /\ list' = Emptied(d, i)
         /\ StartRelease(t, c)
    /\ cs' = [cs EXCEPT ![d] = t]
    /\ Goto(t, "leave")
    /\ UNCHANGED <<seals, enum, held>>

\* Taking slot i out of d: what it held is given back.
Drop(t, d, i) ==
    /\ list' = IF enum[d] THEN Emptied(d, i) ELSE Cut(d, i)
    /\ IF list[d][i] = NoCred THEN UNCHANGED <<cred, rel>> ELSE StartRelease(t, list[d][i])

DelCred(t) ==
    LET d == Call(t).d IN
    /\ Enters(t, "delcred", d)
    /\ \/ \E i \in DOMAIN list[d] : Drop(t, d, i)
       \/ UNCHANGED <<list, cred, rel>>           \* out of bounds
    /\ cs' = [cs EXCEPT ![d] = t]
    /\ Goto(t, "leave")
    /\ UNCHANGED <<seals, enum, held>>

Seal(t) ==
    LET d == Call(t).d IN
    /\ Enters(t, "seal", d)
    /\ seals' = [seals EXCEPT ![d] = @ + 1]
    /\ Done(t)
    /\ UNCHANGED <<cred, list, cs, enum, held, rel>>

Unseal(t) ==
    LET d == Call(t).d IN
    /\ Enters(t, "unseal", d)
    /\ seals' = [seals EXCEPT ![d] = IF @ > 0 THEN @ - 1 ELSE @]
    /\ Done(t)
    /\ UNCHANGED <<cred, list, cs, enum, held, rel>>

\* The calls that do more than one thing to the set they have entered.
EnterSet(t) ==
    LET d == Call(t).d IN
    /\ \E api \in {"flush", "purge", "apply"} : Enters(t, api, d)
    /\ cs' = [cs EXCEPT ![d] = t]
    /\ enum' = [enum EXCEPT ![d] = Call(t).api = "apply"]
    /\ Goto(t, Call(t).api)
    /\ UNCHANGED <<cred, list, seals, held, rel>>

\* kcdb_credset_flush
Flush(t) ==
    LET d == Call(t).d IN
    /\ At(t, "flush") /\ list[d] # <<>>
    /\ Drop(t, d, 1)
    /\ UNCHANGED <<seals, cs, enum, held, op>>

\* kcdb_credset_purge, also as part of kcdb_credset_get_size.
PurgeSlot(t, s, next) ==
    IF op[t].i > Len(list[s])
    THEN /\ op' = [op EXCEPT ![t].pc = next, ![t].i = 1]
         /\ UNCHANGED <<list, cred, rel>>
    ELSE IF ActiveCred(list[s][op[t].i])
    THEN op' = [op EXCEPT ![t].i = @ + 1] /\ UNCHANGED <<list, cred, rel>>
    ELSE Drop(t, s, op[t].i) /\ UNCHANGED op

Purge(t) ==
    /\ At(t, "purge")
    /\ IF Call(t).api = "extract" THEN PurgeSlot(t, Call(t).s, "extract")
                                  ELSE PurgeSlot(t, Call(t).d, "leave")
    /\ UNCHANGED <<seals, cs, enum, held>>

\* kcdb_credset_apply; the callback may take the credential out of the set.
Apply(t) ==
    LET d == Call(t).d
        i == op[t].i
    IN
    /\ At(t, "apply") /\ i \in DOMAIN list[d]
    /\ op' = [op EXCEPT ![t].i = @ + 1]
    /\ \/ ActiveCred(list[d][i]) /\ seals[d] = 0 /\ Drop(t, d, i)
       \/ UNCHANGED <<list, cred, rel>>
    /\ UNCHANGED <<seals, cs, enum, held>>

ApplyEnd(t) ==
    /\ At(t, "apply") /\ op[t].i \notin DOMAIN list[Call(t).d]
    /\ enum' = [enum EXCEPT ![Call(t).d] = FALSE]
    /\ Goto(t, "leave")
    /\ UNCHANGED <<cred, list, seals, cs, held, rel>>

-----------------------------------------------------------------------------
(* kcdb_credset_collect and kcdb_credset_extract *)

\* A collect enters the two sets in the order of their addresses, an extract
\* the source first.
SourceFirst(call) == call.api = "extract" \/ Address[call.s] < Address[call.d]
First(call)  == IF SourceFirst(call) THEN call.s ELSE call.d
Second(call) == IF SourceFirst(call) THEN call.d ELSE call.s

EnterFirst(t) ==
    /\ Call(t).api \in TwoSets /\ Enters(t, Call(t).api, First(Call(t)))
    /\ cs' = [cs EXCEPT ![First(Call(t))] = t]
    /\ Goto(t, "second")
    /\ UNCHANGED <<cred, list, seals, enum, held, rel>>

Selected(s, sel) == SelectSeq(list[s], LAMBDA c : c # NoCred /\ cred[c].key \in sel)

EnterSecond(t) ==
    LET call == Call(t) IN
    /\ At(t, "second") /\ cs[Second(call)] = NoThread
    /\ cs' = [cs EXCEPT ![Second(call)] = t]
    /\ IF call.api = "collect"
       THEN op' = [op EXCEPT ![t].pc = "match",
                             ![t].cd = Selected(call.d, call.sel),
                             ![t].cl = Selected(call.s, call.sel)]
       ELSE Goto(t, IF seals[call.s] = 0 THEN "purge" ELSE "extract")
    /\ UNCHANGED <<cred, list, seals, enum, held, rel>>

\* kcdb_creds_is_equal.
IsEqual(c, d) == ActiveCred(c) /\ ActiveCred(d) /\ (c = d \/ cred[c].key = cred[d].key)

\* The i-th selected credential of the destination is compared with those of the
\* source.  One hold of l_creds for each, but none that was not equal becomes so.
Match(t) ==
    LET i == op[t].i
        equal == {j \in DOMAIN op[t].cl : IsEqual(op[t].cd[i], op[t].cl[j])}
    IN
    /\ At(t, "match") /\ i \in DOMAIN op[t].cd
    /\ op' = IF equal = {} THEN [op EXCEPT ![t].i = @ + 1]
             ELSE [op EXCEPT ![t].pc = "update", ![t].j = Min(equal)]
    /\ UNCHANGED <<cred, list, seals, cs, enum, held, rel>>

\* What kcdb_cred_update makes of attributes old, the source's being new: those
\* that the source lacks stay, unless they are transient.  (Mutant: those too.)
UpdatedOver(old, new) == new @@ old
Updated(old, new) == new @@ [a \in DOMAIN old \ Transient |-> old[a]]

\* The first equal one of the source updates the i-th of the destination, if
\* neither has been deleted since the comparison; both are done with either way.
Update(t) ==
    LET c == op[t].cd[op[t].i]
        d == op[t].cl[op[t].j]
    IN
    /\ At(t, "update")
    /\ cred' = IF ActiveCred(c) /\ ActiveCred(d)
               THEN [cred EXCEPT ![c].val = Updated(@, cred[d].val),
                                 ![c].privileged = cred[d].privileged]
               ELSE cred
    /\ op' = [op EXCEPT ![t].pc = "match", ![t].j = 0,
                        ![t].cd = RemoveAt(@, op[t].i), ![t].cl = RemoveAt(@, op[t].j)]
    /\ UNCHANGED <<list, seals, cs, enum, held, rel>>

Compared(t) == At(t, "match") /\ op[t].i \notin DOMAIN op[t].cd

\* kcdb_credset_del_cred_ref, which tests the seal again.
RemoveMissing(t) ==
    LET d == Call(t).d
        c == Head(op[t].cd)
    IN
    /\ Compared(t) /\ op[t].cd # <<>>
    /\ op' = [op EXCEPT ![t].cd = Tail(@)]
    /\ IF seals[d] = 0 THEN \E i \in DOMAIN list[d] : list[d][i] = c /\ Drop(t, d, i)
       ELSE UNCHANGED <<list, cred, rel>>
    /\ UNCHANGED <<seals, cs, enum, held>>

\* kcdb_credset_add_cred, which tests the seal again, of a reference to c, or
\* of a copy if the root set is one of the two: kcdb_cred_dup refuses one that
\* is deleted or privileged, and what it makes is given back once the set refers
\* to it.
Duplicable(c) == ActiveCred(c) /\ ~cred[c].privileged

Share(d, c) == cred' = Hold(c) /\ list' = Appended(d, c)

AddCopy(d, c) ==
    \E n \in Creds : /\ Unused(n)
                     /\ cred' = [cred EXCEPT ![n] = NewCred(cred[c].key, cred[c])]
                     /\ list' = Appended(d, n)

AddTo(call, c) ==
    IF seals[call.d] > 0 \/ (Copies(call) /\ ~Duplicable(c))
    THEN UNCHANGED <<cred, list>>
    ELSE IF Copies(call) THEN AddCopy(call.d, c) ELSE Share(call.d, c)

AddMissing(t) ==
    /\ Compared(t) /\ op[t].cd = <<>> /\ op[t].cl # <<>>
    /\ AddTo(Call(t), Head(op[t].cl))
    /\ op' = [op EXCEPT ![t].cl = Tail(@)]
    /\ UNCHANGED <<seals, cs, enum, held, rel>>

ExtractDone(t) == At(t, "extract") /\ op[t].i > Len(list[Call(t).s])

\* kcdb_credset_extract tests a credential under the read lock, which it leaves
\* to add it.
ExtractTest(t) ==
    LET c == Slot(Call(t).s, op[t].i) IN
    /\ At(t, "extract") /\ ~ExtractDone(t)
    /\ op' = IF ActiveCred(c) /\ cred[c].key \in Call(t).sel
             THEN [op EXCEPT ![t].pc = "extracting"]
             ELSE [op EXCEPT ![t].i = @ + 1]
    /\ UNCHANGED <<cred, list, seals, cs, enum, held, rel>>

\* A copy that kcdb_cred_dup refuses is added all the same, as NULL.
ExtractAdd(t) ==
    LET call == Call(t)
        c == Slot(call.s, op[t].i)
    IN
    /\ At(t, "extracting")
    /\ IF Copies(call) /\ ~Duplicable(c) /\ seals[call.d] = 0
       THEN list' = Appended(call.d, NoCred) /\ UNCHANGED cred
       ELSE AddTo(call, c)
    /\ op' = [op EXCEPT ![t].pc = "extract", ![t].i = @ + 1]
    /\ UNCHANGED <<seals, cs, enum, held, rel>>

CollectDone(t) == Compared(t) /\ op[t].cd = <<>> /\ op[t].cl = <<>>
FlushDone(t)   == At(t, "flush") /\ list[Call(t).d] = <<>>

\* A call leaves the sets it has entered.
Leave(t) ==
    /\ At(t, "leave") \/ CollectDone(t) \/ ExtractDone(t) \/ FlushDone(t)
    /\ cs' = [s \in Sets |-> IF cs[s] = t THEN NoThread ELSE cs[s]]
    /\ Done(t)
    /\ UNCHANGED <<cred, list, seals, enum, held, rel>>

-----------------------------------------------------------------------------
OnCreds(t) == Release(t) \/ CheckCount(t) \/ FreeCred(t)
OnSet(t) == Add(t) \/ Lookup(t) \/ GetDeleted(t) \/ DelCred(t) \/ Seal(t) \/ Unseal(t)
            \/ EnterSet(t) \/ Flush(t) \/ Purge(t) \/ Apply(t) \/ ApplyEnd(t) \/ Leave(t)
OnTwoSets(t) == EnterFirst(t) \/ EnterSecond(t) \/ Match(t) \/ Update(t)
                \/ RemoveMissing(t) \/ AddMissing(t) \/ ExtractTest(t) \/ ExtractAdd(t)

Next == \E t \in Threads :
            /\ UNCHANGED program
            /\ \/ Begin(t) \/ Create(t) \/ Delete(t)
               \/ (OnCreds(t) \/ OnSet(t) \/ OnTwoSets(t)) /\ UNCHANGED rare

Spec == Init /\ [][Next]_vars

-----------------------------------------------------------------------------
(* Properties *)

Slots(s) == {<<s, i>> : i \in DOMAIN list[s]}
SlotsOf(c) == UNION {{p \in Slots(s) : list[s][p[2]] = c} : s \in Sets}
Holders(c) == FoldSet(LAMBDA t, n : n + held[t][c], 0, Threads)

TypeOK ==
    /\ \A c \in Creds : Live(c) =>
         /\ cred[c].key \in Keys /\ cred[c].refcount \in Nat
         /\ [val |-> cred[c].val, privileged |-> cred[c].privileged] \in DataType
         /\ cred[c].deleted \in BOOLEAN
    /\ list \in [Sets -> Seq(Creds \cup {NoCred})]
    /\ seals \in [Sets -> 0..1]
    /\ cs \in [Sets -> Threads \cup {NoThread}]
    /\ enum \in [Sets -> BOOLEAN]
    /\ held \in [Threads -> [Creds -> 0..MaxHeld]]
    /\ program \in Programs
    /\ rel \in [Threads -> [c : Creds \cup {NoCred}, phase : {"none", "check", "free"}]]

\* kcdb_cred::refcount counts the sets' slots and the holders of a credential.
RefcountExact ==
    \A c \in Creds : Live(c) => cred[c].refcount = Cardinality(SlotsOf(c)) + Holders(c)

\* Nothing refers to a credential that is freed, and one that nothing refers to
\* is freed: with no reference it is in the hands of a thread that gives it back.
FreedWithLast ==
    \A c \in Creds :
        /\ ~Live(c) => SlotsOf(c) = {} /\ Holders(c) = 0
        /\ Live(c) /\ cred[c].refcount = 0 => \E t \in Threads : rel[t].c = c

\* kcdb_credset_collect leaves in the destination what the source has and no
\* more of what it selects, whoever deletes credentials of either meanwhile: a
\* credential that survives has the source's attributes and flag, none of its
\* own that are transient, unless its counterpart in the source was deleted, and
\* is missing only where it was deleted or may not be copied.
SelectedIn(s, sel) == {c \in Range(list[s]) : c # NoCred /\ cred[c].key \in sel}

Mirrors(c, d) ==          \* c, of the destination, is as d, of the source
    /\ \A a \in DOMAIN cred[d].val : a \in DOMAIN cred[c].val /\ cred[c].val[a] = cred[d].val[a]
    /\ DOMAIN cred[c].val \cap Transient \subseteq DOMAIN cred[d].val
    /\ cred[c].privileged = cred[d].privileged

Counterparts(c, d) ==
    /\ cred[c].key = cred[d].key
    /\ ActiveCred(c) /\ ActiveCred(d) => Mirrors(c, d)

CollectMirrors ==
    \A t \in Threads :
        LET call == Call(t)
            dest == SelectedIn(call.d, call.sel)
            src == SelectedIn(call.s, call.sel)
        IN
        CollectDone(t) /\ seals[call.d] = 0 =>
            /\ \A c \in dest : ActiveCred(c) => \E d \in src : Counterparts(c, d)
            /\ \A d \in src : ActiveCred(d) =>
                 \/ \E c \in dest : Counterparts(c, d)
                 \/ Copies(call) /\ cred[d].privileged

\* kcreddb.h:2412-2416: privileged credentials cannot be added to the root set.
\* It is false: an update makes one of the root set as its counterpart is.
PrivilegedKeptOut ==
    \A i \in DOMAIN list[Root] : ActiveCred(list[Root][i]) => ~cred[list[Root][i]].privileged
=============================================================================
