------------------------------ MODULE MCKherr ------------------------------
EXTENDS Kherr, TLC
CONSTANTS poster, worker

\* One thread opens contexts, reports, describes them and posts; the other
\* handles the messages, reports in the poster's context and frees them, and
\* looks at the children.
MayCall == [t \in Threads |-> IF t = poster THEN {"new", "report", "describe", "post"}
                              ELSE {"handle", "report", "delete", "free", "walk"}]
Depth == [t \in Threads |-> IF t = poster THEN 2 ELSE 1]
Symmetry == Permutations(Ctxs)
=============================================================================
