---------------------------- MODULE MCDaemonLink ----------------------------
(* Instances of DaemonLink for TLC: two daemon processes that were started *)
(* for the same project, and three connection slots.                       *)
EXTENDS DaemonLink, TLC

CONSTANTS d1, d2, p1, c1, c2, c3

TwoProc   == {d1, d2}
FirstProc == {d1}

OneProject == {p1}
SameProjOf == d1 :> p1 @@ d2 :> p1

ThreeConn == {c1, c2, c3}
ConnSymmetry == Permutations(Conn)
=============================================================================
