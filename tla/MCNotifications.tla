---------------------------- MODULE MCNotifications ----------------------------
(* TLC instances of Notifications: POSTs for the whole store, for u1 and   *)
(* for u2, a handler of either user, and a screen of u1.                   *)
EXTENDS Notifications, TLC

CONSTANTS p1, p2, r1, d1, u1, u2, k1

TwoPosts == {p1, p2}
OneReader == {r1}
OneScreen == {d1}
TwoUsers == {u1, u2}
Owner == [d \in Screens |-> u1]
OneKey == {k1}
Bodies ==
  {[key |-> k1, user |-> None, content |-> 1], [key |-> k1, user |-> u2, content |-> 2],
   [key |-> NoKey, user |-> u1, content |-> 1]}

Symmetry == Permutations(Posts)

=============================================================================
