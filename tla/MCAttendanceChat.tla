---------------------------- MODULE MCAttendanceChat ----------------------------
(* TLC instances of AttendanceChat: sellers a1, a2 of the origin store and *)
(* t1 of the target store.                                                 *)
EXTENDS AttendanceChat, TLC

CONSTANTS c1, c2, a1, a2, t1, k1

TwoCalls == {c1, c2}
Sellers == {a1, a2, t1}
Shops == [u \in Users |-> IF u \in {a1, a2} THEN Origin ELSE Target]
OneKey == {k1}
Either == {TRUE, FALSE}

Symmetry == Permutations(Calls)

=============================================================================
