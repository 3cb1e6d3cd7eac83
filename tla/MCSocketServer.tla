---------------------------- MODULE MCSocketServer ----------------------------
(* TLC instance of SocketServer: a store user whose permissions change, a     *)
(* customer, and a session that an earlier release has saved.                 *)
EXTENDS SocketServer, TLC

CONSTANTS c1, c2, old, user, visitor, chat, publication

TwoConnections == {c1, c2}

Full == [who |-> user, areas |-> {chat, publication}]
Reduced == [who |-> user, areas |-> {chat}]
Visitor == [who |-> visitor, areas |-> {chat}]
AllTokens == {Full, Reduced, Visitor}

OneUser == {user}
OneVisitor == {visitor}
EarlyAreas == {chat}
LateAreas == {publication}

OldSession ==
  [id |-> old, token |-> Full, rooms |-> {<<user, chat>>}, seen |-> {<<user, chat>>},
   finished |-> TRUE, whole |-> TRUE, handover |-> FALSE]

Earlier == {OldSession}

=============================================================================
