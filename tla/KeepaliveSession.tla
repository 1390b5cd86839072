-------------------------- MODULE KeepaliveSession --------------------------
(***************************************************************************)
(* The life of a keepalive session, without saying how: it begins when     *)
(* nothing is left of the last one, its threads leave only when it has     *)
(* ended, and what it held is released once, after all of them.            *)
(* KeepaliveSystem implements it with two threads, a thread for commands,  *)
(* flags that none of them locks, and threads of old sessions that have    *)
(* left and still try to release.                                          *)
(***************************************************************************)

VARIABLES
    phase,   \* "none", "open", "ending" or "releasing"
    users    \* the threads that may use what the session holds

sessionVars == <<phase, users>>

SessionInit == phase = "none" /\ users = {}

Begin ==
    /\ phase = "none" /\ users = {}
    /\ phase' = "open" /\ users' = {"tx"}

\* TX starts RX, even for a session that has ended meanwhile.
Join ==
    /\ phase \in {"open", "ending"} /\ users = {"tx"}
    /\ users' = {"tx", "rx"}
    /\ UNCHANGED phase

\* A STOP without a session is one that ends at once.
End ==
    /\ phase \in {"none", "open"}
    /\ phase' = "ending"
    /\ UNCHANGED users

Leave ==
    /\ phase = "ending"
    /\ \E t \in users : users' = users \ {t}
    /\ UNCHANGED phase

Seize ==
    /\ phase = "ending" /\ users = {}
    /\ phase' = "releasing"
    /\ UNCHANGED users

Release ==
    /\ phase = "releasing"
    /\ phase' = "none"
    /\ UNCHANGED users

SessionNext == Begin \/ Join \/ End \/ Leave \/ Seize \/ Release

SessionSpec == SessionInit /\ [][SessionNext]_sessionVars

=============================================================================
