------------------------------ MODULE MCPresence ------------------------------
(* TLC instances of Presence: one or two instances, up to two store sockets *)
(* and two observers.                                                       *)
EXTENDS Presence, TLC

CONSTANTS i1, i2, s1, s2, o1

OneInstance == {i1}
TwoInstances == {i1, i2}
OneSocket == {s1}
TwoSockets == {s1, s2}
OneObserver == {o1}

\* everybody on one instance
Together == [x \in Sockets \cup Observers |-> i1]
\* the second socket, and the first observer, on another instance
Apart == [x \in Sockets \cup Observers |-> IF x \in {s2, o1} THEN i2 ELSE i1]

OneTimeout == {<<"timeout">>}
\* up to two timeouts, or one outage and then one presence:sync
Outages == {"break", "flush", "crash"}
TimeoutsOrOutage ==
  {<<"timeout">>, <<"timeout", "timeout">>, <<"sync">>}
    \cup {<<e>> : e \in Outages}
    \cup {<<e, "sync">> : e \in Outages}
NoFaults == {}

Redis == {TRUE}
RedisOrNot == {TRUE, FALSE}

=============================================================================
