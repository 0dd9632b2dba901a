------------------------------ MODULE MCKmqCall ------------------------------
(* Small instances of KmqCall: who subscribes and who calls what.  a, b and c *)
(* are application threads, compl the completion thread.                     *)
EXTENDS KmqCall, TLC

CONSTANTS a, b, c, compl

CB(t) == [kind |-> "CB", thread |-> t]
HWND(t) == [kind |-> "HWND", thread |-> t]

NoSubs == <<>>
CallbackAndWindow == <<CB(b), HWND(a)>>
OneCallback == <<CB(b)>>
OwnWindowOnly == <<HWND(a)>>
WindowAndCallbacks == <<HWND(a), CB(a), CB(b)>>

Makes(t, apis) == [u \in Threads |-> IF u = t THEN apis ELSE {}]

\* a posts, keeps call handles, aborts, and tells another thread to quit; the
\* callbacks of b and the completion handler post again.
Posting == [t \in Threads |-> CASE t = a -> {"postsubs", "sendquit", "abort"}
                                [] OTHER -> {"post"}]
SendingAndKeeping == Makes(a, {"postsubs", "send"})
Sending == Makes(a, {"send", "post"})
SendOnly == Makes(a, {"send"})
SendingSubs == Makes(a, {"sendsubs"})
SendQuit == [t \in Threads |-> IF t \in {a, c} THEN {"sendquit"} ELSE {}]

Symmetry == Permutations(Msgs)
=============================================================================
