----------------------------- MODULE MessageLife -----------------------------
(* What KMQ promises about a message, whoever posts it and whoever receives   *)
(* it: it stays open as long as somebody uses it (its publisher, a recipient  *)
(* that has not finished, or the owner of its call handle), and it is         *)
(* released in the very step in which the last of them leaves, once.          *)
EXTENDS Naturals

CONSTANT Msgs

VARIABLES phase,   \* "free", "open" or "released"
          users    \* how many use the message

vars == <<phase, users>>

Init == /\ phase = [m \in Msgs |-> "free"]
        /\ users = [m \in Msgs |-> 0]

\* A publisher, which may take a call handle as well.
Open(m) ==
    /\ phase[m] = "free"
    /\ phase' = [phase EXCEPT ![m] = "open"]
    /\ \E n \in {1, 2} : users' = [users EXCEPT ![m] = n]

Join(m) ==
    /\ phase[m] = "open"
    /\ users' = [users EXCEPT ![m] = @ + 1]
    /\ UNCHANGED phase

\* The last one out releases the message; it is handled if its type has a
\* completion handler, and free at once if not.
Leave(m) ==
    /\ users[m] > 0
    /\ users' = [users EXCEPT ![m] = @ - 1]
    /\ IF users[m] = 1
       THEN \E p \in {"released", "free"} : phase' = [phase EXCEPT ![m] = p]
       ELSE UNCHANGED phase

Handled(m) ==
    /\ phase[m] = "released"
    /\ phase' = [phase EXCEPT ![m] = "free"]
    /\ UNCHANGED users

Next == \E m \in Msgs : Open(m) \/ Join(m) \/ Leave(m) \/ Handled(m)

Spec == Init /\ [][Next]_vars
=============================================================================
