---------------------------- MODULE MCSyncCache ----------------------------
(* TLC instance of SyncCache: two readers, two writers. *)
EXTENDS SyncCache, TLC

CONSTANTS chat, notification, r1, r2, r3, w1, w2, i1, i2

TwoScopes == {chat, notification}
OneScope == {chat}
TwoReaders == {r1, r2}
TwoWriters == {w1, w2}
TwoInstances == {i1, i2}
SharedHome == [r \in Readers |-> IF r = r3 THEN i2 ELSE i1]
\* a chat message, and a change that also carries a notification
MixedChanges == [w \in Writers |-> IF w = w1 THEN {chat} ELSE Scopes]

\* readers of the same instance
Interchangeable == Permutations(Readers)

=============================================================================
