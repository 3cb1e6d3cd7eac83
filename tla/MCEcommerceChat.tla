---------------------------- MODULE MCEcommerceChat ----------------------------
(* TLC instances of EcommerceChat: calls that may repeat each other, of the *)
(* visitor and of an attendant.                                             *)
EXTENDS EcommerceChat, TLC

CONSTANTS c1, c2, r1, u1, k1, b1, b2

TwoCalls == {c1, c2}
OneReader == {r1}
OneUser == {u1}
OneKey == {k1}
TwoBodies == {b1, b2}
Either == {TRUE, FALSE}

\* Calls and bodies are only compared with each other.
Symmetry == Permutations(Calls) \cup Permutations(Bodies)

=============================================================================
