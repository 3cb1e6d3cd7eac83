------------------------------- MODULE Presence -------------------------------
(***************************************************************************)
(* Whether one store is online: services/presence_service.ts, with the     *)
(* parts of socket/handlers/store.ts and customer.ts that call it.         *)
(*                                                                         *)
(* Each server instance keeps in-memory maps about the store and one Redis *)
(* connection, on which commands run and are answered in order; Redis      *)
(* keeps the sorted set of the store's sockets.  A promise may be rejected *)
(* by the command timeout while its command still runs later, and a lost   *)
(* connection rejects what it had not answered.  An instance may crash or  *)
(* be drained and closed, and Redis may lose its data.                     *)
(*                                                                         *)
(* Time runs in rounds, one heartbeat interval long: the timer of every    *)
(* live instance fires once per round, and a member lives for Life rounds. *)
(* An update reaches all the observers in the room of the store at once;   *)
(* losses of the volatile emission, and last_seen_at, are not modelled.    *)
(***************************************************************************)
EXTENDS Naturals, Sequences, FiniteSets

CONSTANTS
  Instances,
  Sockets,       \* sockets of the store's users, each connecting once
  Observers,     \* sockets that show the store's presence
  Home,          \* the instance that serves each of them
  Modes,         \* FALSE is in it: there may be no Redis, and presence is local
  Life,          \* time to live of a member, in heartbeat intervals
  Plans,         \* sequences of faults, and of presence:sync calls of an
                 \* observer after its first, that may happen
  MayClose       \* whether instances shut down

ASSUME PresenceAssumption ==
  /\ Home \in [Sockets \cup Observers -> Instances]
  /\ Sockets \cap Observers = {}
  /\ IsFiniteSet(Observers)
  /\ Modes \subseteq BOOLEAN
  /\ Life \in Nat \ {0}
  /\ Plans \subseteq Seq({"timeout", "break", "crash", "flush", "sync"})
  /\ MayClose \in BOOLEAN

VARIABLES
  score,      \* sorted set in Redis: member -> rounds left, 0 once lapsed
  wire,       \* commands of an instance that are not answered yet, in order
  client,     \* status of its Redis client
  up,
  due,        \* instances whose heartbeat timer has still to fire this round
  beat,       \* heartbeat in flight, with what it read of the maps
  local,      \* local_sockets, local_socket_ids_by_store
  auth,       \* authoritative_online_by_store holds the store
  observed,   \* observed_store_ids_by_observer
  count,      \* observer_count_by_store
  gen,        \* tracking_generation_by_store, 0 when absent
  next_gen,   \* next_tracking_generation
  phase,      \* of each store socket
  connected,
  outcome,    \* transition an unregister is about to return
  view,       \* of each observer
  snap,       \* what its list() returned
  shown,      \* what its client shows: the last update or acknowledgement
  events      \* what has happened of a plan

mapVars == <<local, auth, observed, count, gen, next_gen>>
socketVars == <<phase, connected, outcome>>
viewVars == <<view, snap, shown>>
vars == <<score, wire, client, up, due, beat, mapVars, socketVars, viewVars,
          events>>

Offline == [online |-> FALSE, changed |-> FALSE]
NoBeat == [on |-> FALSE, gen |-> 0, members |-> {}]

Init ==
  /\ score = [m \in {} |-> 0]
  /\ wire = [i \in Instances |-> <<>>]
  /\ \E redis \in Modes :
       client = [i \in Instances |-> IF redis THEN "ready" ELSE "none"]
  /\ up = [i \in Instances |-> "up"]
  /\ due = {}
  /\ beat = [i \in Instances |-> NoBeat]
  /\ local = [i \in Instances |-> {}]
  /\ auth = [i \in Instances |-> FALSE]
  /\ observed = {}
  /\ count = [i \in Instances |-> 0]
  /\ gen = [i \in Instances |-> 0]
  /\ next_gen = [i \in Instances |-> 0]
  /\ phase = [s \in Sockets |-> "new"]
  /\ connected = {}
  /\ outcome = [s \in Sockets |-> Offline]
  /\ view = [o \in Observers |-> "out"]
  /\ snap = [o \in Observers |-> FALSE]
  /\ shown = [o \in Observers |-> FALSE]
  /\ events = <<>>

-----------------------------------------------------------------------------
(* Pieces of the service *)

Configured(i) == client[i] # "none"
Ready(i) == client[i] = "ready"

Tracked(l, c, a) == l # {} \/ c > 0 \/ a

\* mark_tracking_changed
Mark(i) ==
  /\ next_gen' = [next_gen EXCEPT ![i] = @ + 1]
  /\ gen' = [gen EXCEPT ![i] = next_gen[i] + 1]

\* Mutant: the generation of a store nobody tracks is kept.
Unpruned(i, l, c, a) == gen' = gen
\* prune_tracking_generation, with the maps as the operation leaves them
Prune(i, l, c, a) ==
  gen' = IF Tracked(l, c, a) THEN gen ELSE [gen EXCEPT ![i] = 0]

\* The observers that joined the room of the store.
InRoom == {o \in Observers : view[o] \in {"listing", "listed", "in"}}

\* publish_store_presence, if the transition is one
Publish(changed, online) ==
  shown' = [o \in Observers |->
    IF changed /\ o \in InRoom THEN online ELSE shown[o]]

Request(kind, who, members) ==
  [kind |-> kind, who |-> who, members |-> members, state |-> "sent",
   orphan |-> FALSE, removed |-> FALSE, online |-> FALSE]

Send(i, request) == wire' = [wire EXCEPT ![i] = Append(@, request)]

-----------------------------------------------------------------------------
(* Store sockets: bootstrap_store_socket, cleanup_store_presence *)

Connect(s) ==
  /\ phase[s] = "new"
  /\ up[Home[s]] = "up"
  /\ phase' = [phase EXCEPT ![s] = "joining"]
  /\ connected' = connected \cup {s}
  /\ UNCHANGED <<score, wire, client, up, due, beat, mapVars, outcome, viewVars,
                 events>>

\* The client leaves, or the server ends the connection.
Disconnect(s) ==
  /\ s \in connected
  /\ connected' = connected \ {s}
  /\ UNCHANGED <<score, wire, client, up, due, beat, mapVars, phase, outcome,
                 viewVars, events>>

\* The bootstrap finds the socket disconnected before it registered.
Abort(s) ==
  /\ phase[s] = "joining"
  /\ s \notin connected
  /\ phase' = [phase EXCEPT ![s] = "gone"]
  /\ UNCHANGED <<score, wire, client, up, due, beat, mapVars, connected, outcome,
                 viewVars, events>>

\* register, until its command or, without one, until it returns
Register(s) ==
  LET i == Home[s] IN
  /\ phase[s] = "joining"
  /\ s \in connected
  /\ local' = [local EXCEPT ![i] = @ \cup {s}]
  /\ Mark(i)
  /\ IF Ready(i)
       THEN /\ Send(i, Request("register", s, {}))
            /\ phase' = [phase EXCEPT ![s] = "registering"]
            /\ UNCHANGED shown
       ELSE /\ phase' = [phase EXCEPT ![s] = "registered"]
            /\ Publish(~ Configured(i) /\ local[i] = {}, TRUE)
            /\ UNCHANGED wire
  /\ UNCHANGED <<score, client, up, due, beat, auth, observed, count, connected,
                 outcome, view, snap, events>>

\* The bootstrap goes on, or throws when the socket is gone: then the
\* transition is not published.
Registered(s, changed) ==
  /\ phase' = [phase EXCEPT ![s] = "registered"]
  /\ Publish(changed /\ s \in connected, TRUE)

\* Mutant: the socket stays in the maps.
LocalAfterStays(s) == local[Home[s]]
LocalAfter(s) == local[Home[s]] \ {s}

\* cleanup_store_presence after the registration has settled; unregister
\* until its command or, without one, until it awaits MongoDB
Unregister(s) ==
  LET i == Home[s]
      online == LocalAfter(s) # {}
  IN
  /\ phase[s] = "registered"
  /\ s \notin connected
  /\ local' = [local EXCEPT ![i] = LocalAfter(s)]
  /\ Mark(i)
  /\ outcome' = [outcome EXCEPT ![s] =
       IF online /\ ~ Ready(i) THEN Offline
       ELSE [online |-> online, changed |-> ~ Configured(i) /\ ~ online]]
  /\ IF Ready(i)
       THEN /\ Send(i, Request("unregister", s, {}))
            /\ phase' = [phase EXCEPT ![s] = "unregistering"]
       ELSE /\ phase' = [phase EXCEPT ![s] = IF online THEN "gone" ELSE "persisting"]
            /\ UNCHANGED wire
  /\ UNCHANGED <<score, client, up, due, beat, auth, observed, count, connected,
                 viewVars, events>>

\* The rest of unregister when the store is still online.
Unregistered(s, result, a) ==
  LET i == Home[s] IN
  /\ outcome' = [outcome EXCEPT ![s] = IF result.online THEN Offline ELSE result]
  /\ auth' = [auth EXCEPT ![i] = a]
  /\ IF result.online
       THEN /\ phase' = [phase EXCEPT ![s] = "gone"]
            /\ Prune(i, local[i], count[i], a)
       ELSE /\ phase' = [phase EXCEPT ![s] = "persisting"]
            /\ UNCHANGED gen

\* persist_seen has ended, well or not.
Persisted(s) ==
  LET i == Home[s] IN
  /\ phase[s] = "persisting"
  /\ phase' = [phase EXCEPT ![s] = "gone"]
  /\ Prune(i, local[i], count[i], auth[i])
  /\ Publish(outcome[s].changed, FALSE)
  /\ outcome' = [outcome EXCEPT ![s] = Offline]
  /\ UNCHANGED <<score, wire, client, up, due, beat, local, auth, observed, count,
                 next_gen, connected, view, snap, events>>

Happens(event) ==
  /\ Append(events, event) \in Plans
  /\ events' = Append(events, event)

-----------------------------------------------------------------------------
(* Observers: presence:sync of a store socket, bootstrap of a customer *)

\* Joins the room, then list(); without Redis the local sockets answer.
StartList(o) ==
  LET i == Home[o] IN
  /\ up[i] = "up"
  /\ IF Ready(i)
       THEN /\ Send(i, Request("list", o, {}))
            /\ view' = [view EXCEPT ![o] = "listing"]
            /\ UNCHANGED snap
       ELSE /\ view' = [view EXCEPT ![o] = "listed"]
            /\ snap' = [snap EXCEPT ![o] = local[i] # {}]
            /\ UNCHANGED wire
  /\ UNCHANGED <<score, client, up, due, beat, mapVars, socketVars, shown>>

Subscribe(o) ==
  /\ view[o] = "out"
  /\ StartList(o)
  /\ UNCHANGED events

Resync(o) ==
  /\ view[o] = "in"
  /\ Happens("sync")
  /\ StartList(o)

\* set_observed_presence and the acknowledgement; last_seen_at may have made
\* list() wait for MongoDB before.
Observe(o) ==
  LET i == Home[o] IN
  /\ view[o] = "listed"
  /\ view' = [view EXCEPT ![o] = "in"]
  /\ count' = [count EXCEPT ![i] = IF o \in observed THEN @ ELSE @ + 1]
  /\ observed' = observed \cup {o}
  /\ Mark(i)
  /\ auth' = [auth EXCEPT ![i] = @ \/ snap[o]]
  /\ shown' = [shown EXCEPT ![o] = snap[o]]
  /\ UNCHANGED <<score, wire, client, up, due, beat, local, socketVars, snap, events>>

\* Mutant: an observer is counted out whether or not it was counted in.
RemoveUncounted(o) ==
  LET i == Home[o] IN
  /\ observed' = observed \ {o}
  /\ count' = [count EXCEPT ![i] = @ - 1]
  /\ Mark(i)
  /\ UNCHANGED auth

\* remove_store_observer, when o observed the store
RemoveObserver(o) ==
  LET i == Home[o]
      keeps == count[i] > 1 \/ local[i] # {}
  IN
  /\ observed' = observed \ {o}
  /\ IF o \notin observed
       THEN UNCHANGED <<count, auth, gen, next_gen>>
       ELSE /\ count' = [count EXCEPT ![i] = @ - 1]
            /\ auth' = [auth EXCEPT ![i] = @ /\ keeps]
            /\ next_gen' = [next_gen EXCEPT ![i] = @ + 1]
            /\ gen' = [gen EXCEPT ![i] = IF keeps THEN next_gen[i] + 1 ELSE 0]

\* presence:sync without the store.
Unsubscribe(o) ==
  /\ view[o] = "in"
  /\ Happens("sync")
  /\ view' = [view EXCEPT ![o] = "out"]
  /\ RemoveObserver(o)
  /\ UNCHANGED <<score, wire, client, up, due, beat, local, socketVars, snap, shown>>

\* clear_observer
Leave(o) ==
  /\ view[o] # "gone"
  /\ view' = [view EXCEPT ![o] = "gone"]
  /\ RemoveObserver(o)
  /\ UNCHANGED <<score, wire, client, up, due, beat, local, socketVars, snap, shown,
                 events>>

-----------------------------------------------------------------------------
(* Heartbeat: refresh_redis_presence *)

\* The timer fires; a client that is not ready and an empty service skip it.
Heartbeat(i) ==
  /\ i \in due
  /\ due' = due \ {i}
  /\ IF up[i] = "up" /\ Ready(i) /\ ~ beat[i].on
         /\ Tracked(local[i], count[i], auth[i])
       THEN /\ beat' = [beat EXCEPT ![i] =
                 [on |-> TRUE, gen |-> gen[i], members |-> local[i]]]
            /\ Send(i, Request("refresh", i, local[i]))
       ELSE UNCHANGED <<beat, wire>>
  /\ UNCHANGED <<score, client, up, mapVars, socketVars, viewVars, events>>

\* Mutant: results are used whatever happened since the command was sent.
AnyResult(i) == TRUE
\* What is tracked has not changed since the heartbeat read it.
ResultHolds(i) ==
  gen[i] = beat[i].gen /\ Tracked(local[i], count[i], auth[i])

\* Mutant: a store that is found offline is not a transition.
TransitionOnline(i, online) ==
  ~ auth[i] /\ online /\ (beat[i].members # {} \/ count[i] > 0)
\* A store whose presence was unknown only comes online.
Transition(i, online) ==
  IF auth[i]
    THEN ~ online
    ELSE online /\ (beat[i].members # {} \/ count[i] > 0)

Refreshed(i, online) ==
  /\ beat' = [beat EXCEPT ![i] = NoBeat]
  /\ IF ResultHolds(i)
       THEN /\ auth' = [auth EXCEPT ![i] = online]
            /\ Prune(i, local[i], count[i], online)
            /\ Publish(Transition(i, online), online)
       ELSE /\ Prune(i, local[i], count[i], auth[i])
            /\ UNCHANGED <<auth, shown>>

-----------------------------------------------------------------------------
(* Redis: the scripts, and the answers in the order of the commands *)

Live == {m \in DOMAIN score : score[m] > 0}

\* ZADD of the members after ZREMRANGEBYSCORE
Added(members) ==
  [m \in Live \cup members |-> IF m \in members THEN Life ELSE score[m]]

\* ZREM of the member, then ZREMRANGEBYSCORE
Removed(s) == [m \in Live \ {s} |-> score[m]]

\* The first command of an instance that Redis has not run.
NextToRun(i, n) ==
  /\ n \in 1..Len(wire[i])
  /\ wire[i][n].state = "sent"
  /\ \A k \in 1..n - 1 : wire[i][k].state # "sent"

Execute(i) ==
  /\ \E n \in 1..Len(wire[i]) :
       LET q == wire[i][n] IN
       /\ NextToRun(i, n)
       /\ score' = CASE q.kind = "register" -> Added({q.who})
                     [] q.kind = "unregister" -> Removed(q.who)
                     [] q.kind = "refresh" -> Added(q.members)
                     [] q.kind = "list" -> Added({})
       \* was_online for register, otherwise online
       /\ wire' = [wire EXCEPT ![i][n] =
            [q EXCEPT !.state = "done",
                      !.removed = q.kind = "unregister" /\ q.who \in DOMAIN score,
                      !.online = IF q.kind = "register" THEN Live # {}
                                 ELSE DOMAIN score' # {}]]
  /\ UNCHANGED <<client, up, due, beat, mapVars, socketVars, viewVars, events>>

\* The promise of q settles: with its answer, or rejected.
Settle(i, q, answered) ==
  \/ /\ q.kind = "register"
     /\ Registered(q.who, answered /\ ~ q.online)
     /\ auth' = [auth EXCEPT ![i] = @ \/ answered]
     /\ UNCHANGED <<beat, gen, outcome, view, snap>>
  \/ /\ q.kind = "unregister"
     /\ IF answered
          THEN Unregistered(q.who, [online |-> q.online,
                                    changed |-> q.removed /\ ~ q.online], q.online)
          ELSE Unregistered(q.who, outcome[q.who], auth[i])
     /\ UNCHANGED <<beat, viewVars>>
  \/ /\ q.kind = "refresh"
     /\ IF answered
          THEN Refreshed(i, q.online)
          ELSE beat' = [beat EXCEPT ![i] = NoBeat] /\ UNCHANGED <<auth, gen, shown>>
     /\ UNCHANGED <<phase, outcome, view, snap>>
  \/ /\ q.kind = "list"
     /\ IF view[q.who] = "listing"
          THEN /\ view' = [view EXCEPT ![q.who] = "listed"]
               /\ snap' = [snap EXCEPT ![q.who] =
                    IF answered THEN q.online ELSE local[i] # {}]
          ELSE UNCHANGED <<view, snap>>
     /\ UNCHANGED <<beat, auth, gen, phase, outcome, shown>>

Deliver(i) ==
  /\ wire[i] # <<>>
  /\ LET q == Head(wire[i]) IN
       /\ q.state = "done"
       /\ wire' = [wire EXCEPT ![i] = Tail(@)]
       /\ IF q.orphan
            THEN UNCHANGED <<beat, auth, gen, phase, outcome, viewVars>>
            ELSE Settle(i, q, TRUE)
  /\ UNCHANGED <<score, client, up, due, local, observed, count, next_gen, connected,
                 events>>

\* The client resends what it had not got answers for.
Resend(i) ==
  /\ client[i] = "retrying"
  /\ up[i] = "up"
  /\ client' = [client EXCEPT ![i] = "ready"]
  /\ wire' = [wire EXCEPT ![i] =
       [n \in DOMAIN @ |-> [@[n] EXCEPT !.state = "sent"]]]
  /\ UNCHANGED <<score, up, due, beat, mapVars, socketVars, viewVars, events>>

\* maxRetriesPerRequest: it gives up and rejects them.
GiveUp(i) ==
  /\ client[i] = "retrying"
  /\ client' = [client EXCEPT ![i] = "failed"]
  /\ UNCHANGED <<score, wire, up, due, beat, mapVars, socketVars, viewVars, events>>

Reject(i) ==
  /\ client[i] = "failed"
  /\ wire[i] # <<>>
  /\ wire' = [wire EXCEPT ![i] = Tail(@)]
  /\ LET q == Head(wire[i]) IN
       IF q.orphan
         THEN UNCHANGED <<beat, auth, gen, phase, outcome, viewVars>>
         ELSE Settle(i, q, FALSE)
  /\ UNCHANGED <<score, client, up, due, local, observed, count, next_gen, connected,
                 events>>

Reconnect(i) ==
  /\ client[i] = "failed"
  /\ up[i] = "up"
  /\ wire[i] = <<>>
  /\ client' = [client EXCEPT ![i] = "ready"]
  /\ UNCHANGED <<score, wire, up, due, beat, mapVars, socketVars, viewVars, events>>

-----------------------------------------------------------------------------
(* Time and faults *)

\* A round lasts several times commandTimeout: every promise settles in the
\* round of its command, and what is still on the wire has timed out.
Tick ==
  /\ due = {}
  /\ \A i \in Instances : \A n \in DOMAIN wire[i] : wire[i][n].orphan
  /\ due' = {i \in Instances : up[i] = "up" /\ Configured(i)}
  /\ score' = [m \in DOMAIN score |-> IF score[m] > 0 THEN score[m] - 1 ELSE 0]
  /\ UNCHANGED <<wire, client, up, beat, mapVars, socketVars, viewVars, events>>

\* PEXPIRE: the key goes when all its members have lapsed for long.
KeyExpires ==
  /\ DOMAIN score # {}
  /\ Live = {}
  /\ score' = [m \in {} |-> 0]
  /\ UNCHANGED <<wire, client, up, due, beat, mapVars, socketVars, viewVars, events>>

\* commandTimeout rejects the oldest promise; its command stays on the wire.
Timeout(i) ==
  /\ Happens("timeout")
  /\ \E n \in 1..Len(wire[i]) :
       /\ ~ wire[i][n].orphan
       /\ \A k \in 1..n - 1 : wire[i][k].orphan
       /\ wire' = [wire EXCEPT ![i][n].orphan = TRUE]
       /\ Settle(i, wire[i][n], FALSE)
  /\ UNCHANGED <<score, client, up, due, local, observed, count, next_gen, connected>>

\* The connection is lost, with the commands and the answers on it.
Break(i) ==
  /\ Happens("break")
  /\ Ready(i)
  /\ client' = [client EXCEPT ![i] = "retrying"]
  /\ wire' = [wire EXCEPT ![i] =
       [n \in DOMAIN @ |-> [@[n] EXCEPT !.state = "cut"]]]
  /\ UNCHANGED <<score, up, due, beat, mapVars, socketVars, viewVars>>

\* Redis restarts empty.
Flush ==
  /\ Happens("flush")
  /\ score' = [m \in {} |-> 0]
  /\ UNCHANGED <<wire, client, up, due, beat, mapVars, socketVars, viewVars>>

SocketsOf(i) == {s \in Sockets : Home[s] = i}
ObserversOf(i) == {o \in Observers : Home[o] = i}

\* The maps of an instance that ends.
Forget(i) ==
  /\ local' = [local EXCEPT ![i] = {}]
  /\ auth' = [auth EXCEPT ![i] = FALSE]
  /\ observed' = observed \ ObserversOf(i)
  /\ count' = [count EXCEPT ![i] = 0]
  /\ gen' = [gen EXCEPT ![i] = 0]
  /\ next_gen' = [next_gen EXCEPT ![i] = 0]

\* The process dies; the commands it has sent still run.
Crash(i) ==
  /\ Happens("crash")
  /\ up[i] = "up"
  /\ up' = [up EXCEPT ![i] = "crashed"]
  /\ Forget(i)
  /\ beat' = [beat EXCEPT ![i] = NoBeat]
  /\ due' = due \ {i}
  /\ wire' = [wire EXCEPT ![i] = [n \in DOMAIN @ |-> [@[n] EXCEPT !.orphan = TRUE]]]
  /\ phase' = [s \in Sockets |-> IF s \in SocketsOf(i) THEN "lost" ELSE phase[s]]
  /\ connected' = connected \ SocketsOf(i)
  /\ outcome' = [s \in Sockets |-> IF s \in SocketsOf(i) THEN Offline ELSE outcome[s]]
  /\ view' = [o \in Observers |-> IF o \in ObserversOf(i) THEN "gone" ELSE view[o]]
  /\ UNCHANGED <<score, client, snap, shown>>

\* close, after the drains have ended the work of every socket: the sockets it
\* would remove from the sorted set have all been unregistered.
Close(i) ==
  /\ MayClose
  /\ up[i] = "up"
  /\ \A s \in SocketsOf(i) : phase[s] \in {"new", "gone"}
  /\ \A o \in ObserversOf(i) : view[o] \in {"out", "gone"}
  /\ ~ beat[i].on
  /\ up' = [up EXCEPT ![i] = "closed"]
  /\ Forget(i)
  /\ due' = due \ {i}
  /\ UNCHANGED <<score, wire, client, beat, socketVars, viewVars, events>>

-----------------------------------------------------------------------------
SocketStep(s) == Abort(s) \/ Register(s) \/ Unregister(s) \/ Persisted(s)

RedisStep(i) ==
  \/ Execute(i) \/ Deliver(i)
  \/ Resend(i) \/ GiveUp(i) \/ Reject(i) \/ Reconnect(i)

Users ==
  \/ \E s \in Sockets : Connect(s) \/ Disconnect(s)
  \/ \E o \in Observers : Subscribe(o) \/ Resync(o) \/ Unsubscribe(o) \/ Leave(o)

Ends == \E i \in Instances : Crash(i) \/ Close(i)

Faults == (\E i \in Instances : Timeout(i) \/ Break(i)) \/ Flush

Next ==
  \/ Users
  \/ \E s \in Sockets : SocketStep(s)
  \/ \E o \in Observers : Observe(o)
  \/ \E i \in Instances : Heartbeat(i) \/ RedisStep(i)
  \/ Tick \/ KeyExpires
  \/ Ends
  \/ Faults

Spec == Init /\ [][Next]_vars

\* The event loops run, Redis and MongoDB answer, the timers fire.
FairSpec ==
  /\ Spec
  /\ \A s \in Sockets : WF_vars(SocketStep(s))
  /\ \A o \in Observers : WF_vars(Observe(o))
  /\ \A i \in Instances : WF_vars(Heartbeat(i)) /\ WF_vars(RedisStep(i))
  /\ WF_vars(Tick)

-----------------------------------------------------------------------------
(* Properties *)

Command ==
  [kind : {"register", "unregister", "refresh", "list"},
   who : Sockets \cup Observers \cup Instances, members : SUBSET Sockets,
   state : {"sent", "done", "cut"}, orphan : BOOLEAN,
   removed : BOOLEAN, online : BOOLEAN]

TypeOK ==
  /\ DOMAIN score \subseteq Sockets
  /\ \A m \in DOMAIN score : score[m] \in 0..Life
  /\ \A i \in Instances : \A n \in DOMAIN wire[i] : wire[i][n] \in Command
  /\ client \in [Instances -> {"none", "ready", "retrying", "failed"}]
  /\ up \in [Instances -> {"up", "crashed", "closed"}]
  /\ due \subseteq Instances
  /\ beat \in [Instances -> [on : BOOLEAN, gen : Nat, members : SUBSET Sockets]]
  /\ local \in [Instances -> SUBSET Sockets]
  /\ auth \in [Instances -> BOOLEAN]
  /\ observed \subseteq Observers
  /\ count \in [Instances -> 0..Cardinality(Observers)]
  /\ gen \in [Instances -> Nat]
  /\ next_gen \in [Instances -> Nat]
  /\ phase \in [Sockets -> {"new", "joining", "registering", "registered",
                            "unregistering", "persisting", "gone", "lost"}]
  /\ connected \subseteq Sockets
  /\ outcome \in [Sockets -> [online : BOOLEAN, changed : BOOLEAN]]
  /\ view \in [Observers -> {"out", "listing", "listed", "in", "gone"}]
  /\ snap \in [Observers -> BOOLEAN]
  /\ shown \in [Observers -> BOOLEAN]
  /\ events \in Plans \cup {<<>>}

\* The maps of a long-lived process do not leak: an entry belongs to a socket
\* that is registered, to an observer that is connected, to a store believed
\* online, or to an unregister that will prune it.
NothingLeaks ==
  \A i \in Instances :
    /\ \A s \in local[i] : phase[s] \in {"registering", "registered"}
    /\ count[i] = Cardinality(observed \cap ObserversOf(i))
    /\ \A o \in observed : view[o] # "gone"
    /\ gen[i] # 0 =>
         \/ Tracked(local[i], count[i], auth[i])
         \/ \E s \in SocketsOf(i) : phase[s] \in {"unregistering", "persisting"}

\* A socket that has left the sorted set never comes back into it, although
\* heartbeats that listed it, and commands that timed out, are still running, as
\* long as no connection is lost.
HasCommand(s) ==
  \E n \in DOMAIN wire[Home[s]] :
    wire[Home[s]][n].who = s /\ wire[Home[s]][n].state = "sent"

GoneStaysOut ==
  [][\A s \in Sockets :
       phase[s] = "gone" /\ s \notin DOMAIN score /\ ~ HasCommand(s)
         => s \notin DOMAIN score']_vars

\* A heartbeat never forgets that the store is online when a socket of it is
\* registered here, though its answer may be older than the registration.
HeartbeatsAreCurrent ==
  [][\A i \in Instances :
       beat[i].on /\ ~ beat'[i].on /\ up'[i] = "up" /\ auth[i] /\ ~ auth'[i]
         => local[i] = {}]_vars

StoreOffline == connected = {}

\* Once the last socket has left, no member stays in the sorted set, be it of
\* a crashed instance or of an unregister that never ran, and no instance keeps
\* the store in its maps without an observer.
OfflineIsForgotten ==
  /\ <>[]StoreOffline => <>[](Live = {})
  /\ \A i \in Instances :
       <>[](StoreOffline /\ count[i] = 0) => <>[](gen[i] = 0 /\ ~ auth[i])

\* Nothing but answers was lost.
OnlyTimeouts == \A n \in DOMAIN events : events[n] \in {"timeout", "sync"}

\* Once the last socket has left, every observer ends up showing the store
\* offline, whatever answers were lost and in whatever order updates, heartbeats
\* and acknowledgements were published.
OfflineIsReported ==
  \A o \in Observers :
    <>[](StoreOffline /\ view[o] = "in" /\ OnlyTimeouts) => <>[](~ shown[o])

\* "Stores observed by subscribed rooms go on being reconciled": once a socket
\* of the store stays connected, every observer ends up showing it online.
OnlineIsReported ==
  \A o \in Observers :
    (\E s \in Sockets : <>[](s \in connected /\ phase[s] = "registered"))
    /\ <>[](view[o] = "in") => <>[](shown[o])

=============================================================================
