------------------------------ MODULE Presence ------------------------------
(***************************************************************************)
(* What the registry promises about daemons, without any protocol: every   *)
(* project has at most one holder, a socket that is not spent.  A socket   *)
(* that loses its project is spent at that moment, and a spent socket      *)
(* never takes a project: it has to come back as a fresh one first.        *)
(***************************************************************************)
CONSTANTS Project, Socket, NoSocket

VARIABLES holder, spent

pvars == <<holder, spent>>

Held == {holder[j] : j \in Project} \ {NoSocket}

Init ==
    /\ holder = [j \in Project |-> NoSocket]
    /\ spent \in SUBSET Socket

(* Whoever lost a project is spent, no holder is; others come and go.      *)
Spending ==
    /\ Held \ Held' \subseteq spent'
    /\ spent' \subseteq Socket \ Held'

(* A project passes to an unspent socket that holds nothing.               *)
Take(j, s) ==
    /\ s \notin spent \cup Held
    /\ holder' = [holder EXCEPT ![j] = s]
    /\ Spending

(* Projects lose their holders (none of them in an ambient step).          *)
Lose(J) ==
    /\ holder' = [j \in Project |-> IF j \in J THEN NoSocket ELSE holder[j]]
    /\ Spending

Next ==
    \/ \E j \in Project, s \in Socket : Take(j, s)
    \/ \E J \in SUBSET Project : Lose(J)

Spec == Init /\ [][Next]_pvars
=============================================================================
