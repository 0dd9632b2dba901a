----------------------------- MODULE KconfSpace -----------------------------
(***************************************************************************)
(* Configuration spaces (src/kconfig/api.c, registry.c, schema.c): a tree   *)
(* of reference-counted spaces that mirrors two stores, the user's registry *)
(* keys and the schemas that plug-ins load.  Callers have handles; a space  *)
(* that nobody refers to stays while a store knows it, so that it can be    *)
(* enumerated, and is freed with its last reference otherwise.              *)
(*                                                                          *)
(* One critical section, cs_conf_global, guards the tree; what one hold of  *)
(* it does is one step, composed of operators that take the tree and the    *)
(* registry as they are and return them changed.  khc_open_space leaves it  *)
(* between the levels of a path, and between looking for a space and        *)
(* making it.                                                               *)
(***************************************************************************)
EXTENDS Integers, Sequences, SequencesExt, FiniteSets, FiniteSetsExt

CONSTANTS Threads,
          Spaces,     \* kconf_conf_space objects (bound: alive at once)
          Root,       \* conf_root
          Names,
          MaxDepth,   \* bound: length of a path
          Schema,     \* the path of spaces that a schema declares
          Views,      \* the store flags that each thread asks for
          May,        \* bound: what each thread calls
          MaxHandles, \* bound: handles of a thread, by thread
          MaxSchemas, \* bound: times the schema is loaded
          NoSpace

ASSUME KconfAssumption ==
    /\ Root \in Spaces /\ NoSpace \notin Spaces
    /\ MaxDepth \in Nat /\ MaxHandles \in [Threads -> Nat] /\ MaxSchemas \in Nat
    /\ Schema \in Seq(Names) /\ Len(Schema) \in 1..MaxDepth
    /\ Views \in [Threads -> SUBSET (SUBSET {"user", "schema"} \ {{}})]
    /\ May \in [Threads -> SUBSET {"open", "create", "reopen", "dup", "shadow", "remove", "load", "unload", "enum"}]

VARIABLES space,   \* the spaces, with their tree
          keys,    \* the keys of the registry, by path
          handles, \* the handles of each thread
          op,      \* the khc_open_space a thread is in
          loaded   \* how often the schema was loaded

vars == <<space, keys, handles, op, loaded>>

\* stores are those the space has a provider for.
Fresh == [live |-> TRUE, name |-> CHOOSE n \in Names : TRUE, parent |-> NoSpace,
          children |-> <<>>, refcount |-> 0, stores |-> {}]
Free == [Fresh EXCEPT !.live = FALSE]

Idle == [pc |-> "idle", p |-> NoSpace, c |-> NoSpace, rest |-> <<>>, flags |-> {}, create |-> FALSE]

Paths == SeqOf(Names, MaxDepth)

\* The application may have run before, with or without the key of the schema.
Init ==
    /\ keys \in {{}, {<<>>}}
    /\ space = [s \in Spaces |->
           IF s = Root THEN [Fresh EXCEPT !.refcount = 1, !.stores = IF keys = {} THEN {} ELSE {"user"}] ELSE Free]
    /\ handles = [t \in Threads |-> <<>>]
    /\ op = [t \in Threads |-> Idle]
    /\ loaded = 0

------------------------------------------------------------------------------
\* What one hold of cs_conf_global does.  K is [space |-> ..., keys |-> ...].

RECURSIVE Path(_, _)
Path(K, s) == IF K.space[s].parent = NoSpace THEN <<>>
              ELSE Append(Path(K, K.space[s].parent), K.space[s].name)

Hold(K, s) == [K EXCEPT !.space[s].refcount = @ + 1]

\* The first child of that name, if any.
Child(K, p, name) ==
    LET named == SelectSeq(K.space[p].children, LAMBDA c : K.space[c].name = name)
    IN IF named = <<>> THEN NoSpace ELSE Head(named)

\* TADDCHILD of an empty space, held by its maker; children are a LIFO list.
Added(K, p, name) ==
    LET c == CHOOSE s \in Spaces : ~K.space[s].live
    IN [c |-> c,
        k |-> [K EXCEPT !.space[c] = [Fresh EXCEPT !.name = name, !.parent = p, !.refcount = 1],
                        !.space[p].children = <<c>> \o @]]

\* (Mutant: a space that is freed stays in the list of its parent.)
UnlinkedNot(K, s) == K

Unlinked(K, s) == LET p == K.space[s].parent
                  IN IF p = NoSpace THEN K
                     ELSE [K EXCEPT !.space[p].children = SelectSeq(@, LAMBDA c : c # s)]

\* khcint_free_space frees the children whatever their counts are.
RECURSIVE Freed(_, _)
Freed(K, s) == FoldSeq(LAMBDA c, k : Freed(k, c), [K EXCEPT !.space[s] = Free], K.space[s].children)

\* A space is freed with its last reference, unless a store knows it, and lets
\* go of its parent then.
RECURSIVE Release(_, _)
Release(K, s) ==
    LET K1 == [K EXCEPT !.space[s].refcount = @ - 1]
        p  == K.space[s].parent
        K2 == Freed(Unlinked(K1, s), s)
    IN IF K1.space[s].refcount # 0 \/ K.space[s].stores # {} THEN K1
       ELSE IF p = NoSpace THEN K2 ELSE Release(K2, p)

\* The registry's provider takes the place of what the space had: there is a
\* node if the key is there or is to be created, with the keys above it.
WithUser(K, s, create) ==
    LET path == Path(K, s)
    IN IF create \/ path \in K.keys
       THEN [K EXCEPT !.space[s].stores = @ \union {"user"},
                      !.keys = @ \union {SubSeq(path, 1, n) : n \in 0..Len(path)}]
       ELSE [K EXCEPT !.space[s].stores = @ \ {"user"}]

\* Where the parent has a provider, it is asked to create the child, and mounts
\* itself on the first child of that name.
Initialised(K, s, create) ==
    LET p == K.space[s].parent
        c == Child(K, p, K.space[s].name)
    IN IF "user" \in K.space[s].stores THEN K
       ELSE IF p # NoSpace /\ "user" \in K.space[p].stores
            THEN Release(WithUser(Hold(K, c), c, create), c)
            ELSE WithUser(K, s, create)

\* khcint_open_space, in its two holds: of a space that is there,
Found(K, c, create) ==
    LET K1 == Initialised(K, c, create)
    IN IF K1.space[c].stores # {} THEN [c |-> c, k |-> Hold(K1, c)] ELSE [c |-> NoSpace, k |-> K1]

\* and of one that has to be made, with the parent's reference for it.
\* (Mutant: the reference to the parent is forgotten.)
ParentHoldNot(K, p) == K

ParentHold(K, p) == Hold(K, p)
Made(K, p, name, create) ==
    LET new == Added(K, p, name)
        K1  == Initialised(new.k, new.c, create)
    IN IF K1.space[new.c].stores # {} THEN [c |-> new.c, k |-> ParentHold(K1, p)]
       ELSE [c |-> NoSpace, k |-> Freed(Unlinked(K1, new.c), new.c)]

\* Both, for callers that hold cs_conf_global.
Opened(K, p, name, create) ==
    LET c == Child(K, p, name)
    IN IF c # NoSpace THEN Found(K, c, create) ELSE Made(K, p, name, create)

Visible(K, s, flags) == flags \cap K.space[s].stores # {}

\* The keys of a space and of all below it go with its node.
RemoveKeys(K, s) == [K EXCEPT !.space[s].stores = @ \ {"user"},
                              !.keys = {k \in @ : ~IsPrefix(Path(K, s), k)}]

\* khcint_remove_space of the user store.  The children come first: the node of
\* each goes with its key.
RECURSIVE Removed(_, _)
ChildrenRemoved(K, s) == FoldLeft(Removed, K, K.space[s].children)
\* (Mutant: without the hold that khcint_remove_space gives back at its end.)
RemovedUnheld(K, s) ==
    LET K1 == ChildrenRemoved(K, s) IN IF "user" \in K1.space[s].stores THEN RemoveKeys(K1, s) ELSE K1

Removed(K, s) ==
    LET K1 == ChildrenRemoved(Hold(K, s), s)
        K2 == IF "user" \in K1.space[s].stores THEN RemoveKeys(K1, s) ELSE K1
    IN Release(K2, s)

\* khcint_load_schema mounts the schema's provider, whose node loads what is
\* below.
RECURSIVE Loaded(_, _, _)
Loaded(K, p, path) ==
    LET c   == Child(K, p, Head(path))
        new == Added(K, p, Head(path))
        o   == IF c # NoSpace THEN [c |-> c, k |-> Hold(K, c)] ELSE [c |-> new.c, k |-> ParentHold(new.k, p)]
        K1  == [o.k EXCEPT !.space[o.c].stores = @ \union {"schema"}]
    IN Release(IF Len(path) = 1 THEN K1 ELSE Loaded(K1, o.c, Tail(path)), o.c)

\* khc_unmount_provider, by a caller with a handle to the space: what has no
\* provider gets the default.
Unmounted(K, s) == Initialised([K EXCEPT !.space[s].stores = @ \ {"schema"}], s, FALSE)

\* khcint_unload_schema goes down through a handle on each level.
RECURSIVE Unloaded(_, _, _)
Unloaded(K, p, path) ==
    LET o  == Opened(K, p, Head(path), FALSE)
        K1 == Unmounted(o.k, o.c)
    IN IF o.c = NoSpace THEN o.k
       ELSE IF ~Visible(o.k, o.c, {"schema"}) THEN Release(o.k, o.c)
       ELSE Release(IF Len(path) = 1 THEN K1 ELSE Unloaded(K1, o.c, Tail(path)), o.c)

\* reg_begin_enum opens and closes a space for each key.
Enumerated(K, s) ==
    LET below == {n \in Names : Append(Path(K, s), n) \in K.keys}
        Visit(k, n) == LET o == Opened(k, s, n, FALSE) IN IF o.c = NoSpace THEN o.k ELSE Release(o.k, o.c)
    IN IF "user" \in K.space[s].stores THEN FoldLeft(Visit, K, SetToSeq(below)) ELSE K

------------------------------------------------------------------------------
\* A handle is a sequence: what it opened, and its shadows.
Entry(s, flags) == [space |-> s, flags |-> flags]

Closed(K, h) == FoldLeft(LAMBDA k, e : Release(k, e.space), K, h)

Now == [space |-> space, keys |-> keys]
Become(K) == space' = K.space /\ keys' = K.keys

CanCall(t, name) == op[t].pc = "idle" /\ name \in May[t]
HasRoom(t) == Len(handles[t]) < MaxHandles[t]
\* Bound: enough free spaces for what a step can make.
Slots(n) == Cardinality({s \in Spaces : ~space[s].live}) >= n

\* The spaces a thread may name: of its handles, or none for the root.
From(t) == {Root} \union {handles[t][i][1].space : i \in DOMAIN handles[t]}

\* khc_open_space holds the space it starts from; a caller that wants to create
\* the space asks for the user store.
Open(t) ==
    /\ HasRoom(t)
    /\ \E p \in From(t), rest \in Paths \ {<<>>}, flags \in Views[t], create \in BOOLEAN :
           /\ CanCall(t, IF create THEN "create" ELSE "open")
           /\ create => "user" \in flags
           /\ Len(Path(Now, p)) + Len(rest) <= MaxDepth
           /\ Become(Hold(Now, p))
           /\ op' = [op EXCEPT ![t] = [pc |-> "lookup", p |-> p, c |-> NoSpace, rest |-> rest,
                                       flags |-> flags, create |-> create]]
    /\ UNCHANGED <<handles, loaded>>

\* The next level, once its space is found or made: the reference to it keeps
\* the parent, whose own is given back; that is a hold of its own in the code,
\* which nobody can tell.
Descend(t, o) ==
    LET last == Len(op[t].rest) = 1
    IN IF o.c = NoSpace
       THEN /\ Become(o.k)
            /\ op' = [op EXCEPT ![t].pc = "fail"]
       ELSE /\ Become(Release(o.k, op[t].p))
            /\ op' = [op EXCEPT ![t].pc = IF last THEN "handle" ELSE "lookup", ![t].rest = Tail(@),
                                ![t].p = IF last THEN NoSpace ELSE o.c,
                                ![t].c = IF last THEN o.c ELSE NoSpace]

Lookup(t) ==
    /\ op[t].pc = "lookup"
    /\ LET c == Child(Now, op[t].p, Head(op[t].rest))
       IN IF c # NoSpace THEN Descend(t, Found(Now, c, op[t].create))
          ELSE op' = [op EXCEPT ![t].pc = "make"] /\ UNCHANGED <<space, keys>>
    /\ UNCHANGED <<handles, loaded>>

\* cs_conf_global was left meanwhile, and nobody looks again.
Make(t) ==
    /\ op[t].pc = "make" /\ Slots(1)
    /\ Descend(t, Made(Now, op[t].p, Head(op[t].rest), op[t].create))
    /\ UNCHANGED <<handles, loaded>>

OpenFail(t) ==
    /\ op[t].pc = "fail"
    /\ Become(Release(Now, op[t].p))
    /\ op' = [op EXCEPT ![t] = Idle]
    /\ UNCHANGED <<handles, loaded>>

\* khcint_handle_from_space.  A handle takes over the reference; without one it
\* is given back in a hold of its own.
OpenHandle(t) ==
    /\ op[t].pc = "handle"
    /\ IF Visible(Now, op[t].c, op[t].flags)
       THEN /\ handles' = [handles EXCEPT ![t] = Append(@, <<Entry(op[t].c, op[t].flags)>>)]
            /\ op' = [op EXCEPT ![t] = Idle]
       ELSE op' = [op EXCEPT ![t].pc = "drop"] /\ UNCHANGED handles
    /\ UNCHANGED <<space, keys, loaded>>

OpenDrop(t) ==
    /\ op[t].pc = "drop"
    /\ Become(Release(Now, op[t].c))
    /\ op' = [op EXCEPT ![t] = Idle]
    /\ UNCHANGED <<handles, loaded>>

\* khc_open_space without a path, also of every khc_write_*: a new handle to
\* the same space, whose stores are initialised.
Reopen(t) ==
    /\ CanCall(t, "reopen") /\ HasRoom(t)
    /\ \E i \in DOMAIN handles[t], create \in BOOLEAN :
           LET e == handles[t][i][1]
               K == Initialised(Hold(Now, e.space), e.space, create)
           IN /\ create => "user" \in e.flags
              /\ IF Visible(K, e.space, e.flags)
                 THEN Become(K) /\ handles' = [handles EXCEPT ![t] = Append(@, <<e>>)]
                 ELSE Become(Release(K, e.space)) /\ UNCHANGED handles
    /\ UNCHANGED <<op, loaded>>

\* khc_dup_space; the copy of a handle that sees no store is none.
Dup(t) ==
    /\ CanCall(t, "dup") /\ HasRoom(t)
    /\ \E i \in DOMAIN handles[t] :
           LET h == handles[t][i]
           IN /\ \A n \in DOMAIN h : Visible(Now, h[n].space, h[n].flags)
              /\ Become(FoldLeft(LAMBDA k, e : Hold(k, e.space), Now, h))
              /\ handles' = [handles EXCEPT ![t] = Append(@, h)]
    /\ UNCHANGED <<op, loaded>>

\* khc_shadow_space: lower is copied, and stays the caller's.  Bound: lower has
\* no shadow itself.
Shadow(t) ==
    /\ CanCall(t, "shadow")
    /\ \E i, j \in DOMAIN handles[t] :
           LET upper == handles[t][i]
               lower == handles[t][j]
               K     == Closed(Now, Tail(upper))
               sees  == Visible(K, lower[1].space, lower[1].flags)
           IN /\ i # j /\ Len(lower) = 1
              /\ Become(IF sees THEN Hold(K, lower[1].space) ELSE K)
              /\ handles' = [handles EXCEPT ![t][i] = <<upper[1]>> \o (IF sees THEN lower ELSE <<>>)]
    /\ UNCHANGED <<op, loaded>>

Close(t) ==
    /\ op[t].pc = "idle"
    /\ \E i \in DOMAIN handles[t] :
           /\ Become(Closed(Now, handles[t][i]))
           /\ handles' = [handles EXCEPT ![t] = RemoveAt(@, i)]
    /\ UNCHANGED <<op, loaded>>

RemoveSpace(t) ==
    /\ CanCall(t, "remove")
    /\ \E i \in DOMAIN handles[t] :
           LET e == handles[t][i][1]
           IN e.space # Root /\ "user" \in e.flags /\ Become(Removed(Now, e.space))
    /\ UNCHANGED <<handles, op, loaded>>

LoadSchema(t) ==
    /\ CanCall(t, "load") /\ loaded < MaxSchemas /\ Slots(Len(Schema))
    /\ Become(Loaded(Now, Root, Schema))
    /\ loaded' = loaded + 1
    /\ UNCHANGED <<handles, op>>

UnloadSchema(t) ==
    /\ CanCall(t, "unload") /\ Slots(Len(Schema))
    /\ Become(Unloaded(Now, Root, Schema))
    /\ UNCHANGED <<handles, op, loaded>>

\* khc_enum_subspaces: the first child that the handle can see.
EnumFirst(t) ==
    /\ CanCall(t, "enum") /\ HasRoom(t) /\ Slots(Cardinality(Names))
    /\ \E i \in DOMAIN handles[t] : \E K \in {Enumerated(Now, handles[t][i][1].space)} :
           LET e   == handles[t][i][1]
               can == SelectSeq(K.space[e.space].children, LAMBDA c : Visible(K, c, e.flags))
           IN /\ Len(Path(Now, e.space)) < MaxDepth
              /\ IF can = <<>> THEN Become(K) /\ UNCHANGED handles
                 ELSE /\ Become(Hold(K, can[1]))
                      /\ handles' = [handles EXCEPT ![t] = Append(@, <<Entry(can[1], e.flags)>>)]
    /\ UNCHANGED <<op, loaded>>

\* The next after prev, which is closed, also if there is none.
EnumNext(t) ==
    /\ CanCall(t, "enum")
    /\ \E i, j \in DOMAIN handles[t] :
           LET e     == handles[t][i][1]
               prev  == handles[t][j]
               all   == space[e.space].children
               after == SubSeq(all, SelectInSeq(all, LAMBDA c : c = prev[1].space) + 1, Len(all))
               can   == SelectSeq(after, LAMBDA c : Visible(Now, c, e.flags))
           IN /\ i # j /\ space[prev[1].space].parent = e.space
              /\ IF can = <<>>
                 THEN /\ Become(Closed(Now, prev))
                      /\ handles' = [handles EXCEPT ![t] = RemoveAt(@, j)]
                 ELSE /\ Become(Closed(Hold(Now, can[1]), prev))
                      /\ handles' = [handles EXCEPT ![t][j] = <<Entry(can[1], e.flags)>>]
    /\ UNCHANGED <<op, loaded>>

Next == \E t \in Threads :
    \/ Open(t) \/ Lookup(t) \/ Make(t) \/ OpenFail(t) \/ OpenHandle(t) \/ OpenDrop(t)
    \/ Reopen(t) \/ Dup(t) \/ Shadow(t) \/ Close(t) \/ RemoveSpace(t)
    \/ LoadSchema(t) \/ UnloadSchema(t) \/ EnumFirst(t) \/ EnumNext(t)

Spec == Init /\ [][Next]_vars

------------------------------------------------------------------------------
TypeOK ==
    /\ space \in [Spaces -> [live : BOOLEAN, name : Names, parent : Spaces \union {NoSpace},
                             children : Seq(Spaces), refcount : Int, stores : SUBSET {"user", "schema"}]]
    /\ keys \subseteq Paths
    /\ op \in [Threads -> [pc : {"idle", "lookup", "make", "fail", "handle", "drop"},
                           p : Spaces \union {NoSpace}, c : Spaces \union {NoSpace}, rest : Paths,
                           flags : SUBSET {"user", "schema"}, create : BOOLEAN]]
    /\ \A t \in Threads : handles[t] \in Seq(Seq([space : Spaces, flags : Views[t]]))
    /\ loaded \in 0..MaxSchemas

\* Who refers to a space: handles with their shadows, calls, and children.
InHandles(s) == {<<t, i, n>> \in Threads \X (1..Max({MaxHandles[r] : r \in Threads})) \X (1..2) :
                    i \in DOMAIN handles[t] /\ n \in DOMAIN handles[t][i] /\ handles[t][i][n].space = s}
InCalls(s) == {t \in Threads : s \in {op[t].p, op[t].c}}
Below(s) == {c \in Spaces : space[c].live /\ space[c].parent = s}

\* The count of a space is the number of handles (shadows too), calls and child
\* spaces that refer to it, and of nobody else: khcint_space_hold and
\* khcint_space_release match on every path of the API.
RefcountExact ==
    \A s \in Spaces : space[s].live =>
        space[s].refcount = Cardinality(InHandles(s)) + Cardinality(InCalls(s)) + Cardinality(Below(s))
                            + (IF s = Root THEN 1 ELSE 0)

\* Nothing that is freed is reached: not by a handle, a call that is between
\* two holds of the lock, the list of children of a space, nor as a parent.
NoDangling ==
    /\ \A s \in Spaces : ~space[s].live => InHandles(s) = {} /\ InCalls(s) = {}
    /\ \A s \in Spaces : space[s].live =>
           /\ ToSet(space[s].children) = Below(s) /\ IsInjective(space[s].children)
           /\ s # Root => space[s].parent \in Spaces /\ space[space[s].parent].live

\* A space that nobody refers to is freed, in the step in which the last
\* reference or the last store goes, unless a store still knows it.
FreedWhenForgotten ==
    \A s \in Spaces : space[s].live /\ space[s].refcount = 0 => space[s].stores # {}

\* Where a space has a node of the registry, its key is there: removing a space
\* takes the nodes of all spaces below with the keys.
NodeHasKey == \A s \in Spaces : "user" \in space[s].stores => Path(Now, s) \in keys

\* The tree has one space of each path.
OneSpacePerPath ==
    \A s, r \in Spaces : space[s].live /\ space[r].live /\ Path(Now, s) = Path(Now, r) => s = r
=============================================================================
