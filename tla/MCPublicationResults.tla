------------------------ MODULE MCPublicationResults ------------------------
(* TLC instance of PublicationResults. *)
EXTENDS PublicationResults, TLC

CONSTANTS r1, r2, r3, b1, b2, m1, m2

ThreeRequests == {r1, r2, r3}
TwoRequests == {r1, r2}
TwoBodies == {b1, b2}
OneBody == {b1}
OneMessage == {m1}
TwoMessages == {m1, m2}

\* The requests of a safety run are interchangeable, and so are the texts.
Interchangeable == Permutations(Requests) \cup Permutations(Bodies)

=============================================================================
