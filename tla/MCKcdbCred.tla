----------------------------- MODULE MCKcdbCred -----------------------------
EXTENDS KcdbCred
CONSTANTS ui, plugin, root, own, ctx, k1, k2

C(api, d, s) == [api |-> api, d |-> d, s |-> s, sel |-> Keys, data |-> NoData]
Create1(data) == [C("create", root, root) EXCEPT !.data = data]

\* Credentials with no attributes, with one that stays and one that is
\* transient, and a privileged one.
Bare == NoData
Full == [val |-> [a \in Attributes |-> 1], privileged |-> FALSE]
Secret == [val |-> <<>>, privileged |-> TRUE]

\* The user interface looks at the root set, copies it to its context and works
\* on that; a plug-in keeps its own set and collects it to the root.
Views == [size |-> 1, many |-> 2,
          rare |-> {"delete", "find", "get", "apply", "seal", "unseal", "purge", "delcred"},
          calls |-> [t \in Threads |->
    IF t = ui
    THEN {C("get", root, root), C("find", root, root), C("release", root, root),
          C("extract", ctx, root), C("extract", ctx, own), C("get", ctx, ctx),
          C("apply", ctx, ctx), C("flush", ctx, ctx), C("seal", ctx, ctx), C("unseal", ctx, ctx)}
    ELSE {Create1(Bare), C("find", root, root), C("add", own, own), C("release", root, root),
          C("delete", own, own), C("delcred", own, own), C("purge", own, own), C("flush", own, own),
          C("collect", root, own)}]]

\* A plug-in fills its set with credentials of all kinds and collects it, while
\* the user interface deletes what it has found in either set.
Merges == [size |-> 2, many |-> 4, rare |-> {"create", "find", "delete"}, calls |-> [t \in Threads |->
    IF t = ui
    THEN {C("find", root, root), C("find", own, own), C("delete", root, root)}
    ELSE {Create1(Bare), Create1(Full), Create1(Secret), C("add", own, own), C("release", root, root),
          C("flush", own, own), C("collect", root, own)}]]

\* Two threads extract either way between two sets (MCKcdbCred_order.cfg).
Crossing == [size |-> 1, many |-> 0, rare |-> {}, calls |-> [t \in Threads |->
    IF t = ui THEN {C("extract", ctx, own)} ELSE {C("collect", ctx, own), C("extract", own, ctx)}]]

ViewsAndMerges == {Views, Merges}
OnlyMerges == {Merges}
OnlyCrossing == {Crossing}

RootFirst == [s \in Sets |-> CASE s = root -> 1 [] s = own -> 2 [] s = ctx -> 3]
Symmetry == Permutations(Creds) \cup Permutations(Keys)
=============================================================================
