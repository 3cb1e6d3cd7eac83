---------------------------- MODULE SocketServer ----------------------------
(***************************************************************************)
(* The sockets of one server process, from connection to shutdown:         *)
(* socket/auth.ts, register_handlers.ts, handlers/shared.ts, the bootstrap *)
(* and the disconnection of handlers/store.ts and customer.ts, server.ts   *)
(* and index.ts.                                                           *)
(*                                                                         *)
(* A client reconnects with a new token; Socket.IO may give the connection *)
(* the session of an earlier one, with its socket id and its rooms.  A     *)
(* bootstrap joins the rooms, registers presence, loads snapshots and says *)
(* connection:ready; between two of its awaits the client may go and come  *)
(* back, MongoDB may fail, and a signal may start the shutdown, which must *)
(* wait for the work of every socket before it closes what the work uses.  *)
(*                                                                         *)
(* socket.join answers without I/O, so no disconnection falls between two  *)
(* of the joins of a bootstrap.                                            *)
(***************************************************************************)
EXTENDS Naturals

CONSTANTS
  Connections,   \* connections, each accepted once
  StoreUsers,    \* identities of store users
  Customers,     \* identities of website customers
  Early,         \* permissions whose rooms only a new session joins, and
                 \* whose snapshots only a new session gets
  Late,          \* permissions served to recovered sessions as well
  Tokens,        \* what a token grants
  OldSessions,   \* sessions that other processes have saved
  MaxInFlight,   \* socket_max_in_flight_events
  MaxRequests    \* bound on the HTTP requests in flight

Identities == StoreUsers \cup Customers
Areas == Early \cup Late
Token == [who : Identities, areas : SUBSET Areas]
\* A room, or a snapshot, of one identity and permission.
Rooms == Identities \X Areas
RoomsOf(t, areas) == {t.who} \X (t.areas \cap areas)

\* Other processes, perhaps of an earlier release that did not know the late
\* rooms, have saved sessions of finished bootstraps only.
OldIds == {s.id : s \in OldSessions}
Ids == Connections \cup OldIds
Session ==
  [id : Ids, token : Token, rooms : SUBSET Rooms, seen : SUBSET Rooms,
   finished : BOOLEAN, whole : BOOLEAN, handover : BOOLEAN]

ASSUME SocketServerAssumption ==
  /\ StoreUsers \cap Customers = {}
  /\ Early \cap Late = {}
  /\ Tokens \subseteq Token
  /\ \A t \in Tokens : t.who \in Customers => t.areas \subseteq Early
  /\ OldIds \cap Connections = {}
  /\ OldSessions \subseteq Session
  /\ \A s, q \in OldSessions : s.id = q.id => s = q
  /\ \A s \in OldSessions :
       /\ s.token \in Tokens /\ s.finished /\ s.whole /\ ~ s.handover
       /\ s.rooms = RoomsOf(s.token, Early)
       /\ s.seen = RoomsOf(s.token, Early)
  /\ MaxInFlight \in Nat \ {0}
  /\ MaxRequests \in Nat

VARIABLES
  server,     \* how far the shutdown has come
  report,     \* what the shutdown has logged
  http,       \* HTTP handlers whose client waits for the answer
  orphans,    \* HTTP handlers whose client has left
  sessions,   \* saved by the adapter, waiting for a reconnection
  token,      \* socket.data, from the token of the handshake
  id,         \* socket.id
  recovered,  \* socket.recovered
  boot,       \* where the bootstrap of a connection stands
  connected,
  ready,      \* connection:ready was emitted
  rooms,
  seen,       \* snapshots the client got, in this session; a permission without
              \* one counts when its turn has come
  whole,      \* history: no bootstrap of the session was left unfinished
  clean,      \* cleanup_promise
  members,    \* socket ids in the maps of PresenceService
  active      \* active_by_socket

serverVars == <<server, report, http, orphans>>
socketVars == <<token, id, recovered, whole>>
bootVars == <<boot, ready, rooms, seen, connected>>
vars == <<serverVars, sessions, socketVars, bootVars, clean, members, active>>

NoToken == [who |-> "nobody", areas |-> {}]

Init ==
  /\ server = "up"
  /\ report = "none"
  /\ http = 0
  /\ orphans = 0
  /\ sessions = OldSessions
  /\ token = [c \in Connections |-> NoToken]
  /\ id = [c \in Connections |-> c]
  /\ recovered = [c \in Connections |-> FALSE]
  /\ boot = [c \in Connections |-> "none"]
  /\ connected = {}
  /\ ready = [c \in Connections |-> FALSE]
  /\ rooms = [c \in Connections |-> {}]
  /\ seen = [c \in Connections |-> {}]
  /\ whole = [c \in Connections |-> TRUE]
  /\ clean = [c \in Connections |-> "none"]
  /\ members = {}
  /\ active = [i \in Ids |-> 0]

IsStore(c) == token[c].who \in StoreUsers

-----------------------------------------------------------------------------
(* Connection: install_socket_auth, io.on("connection") *)

\* Mutant: a recovered session is not compared with the permissions.
ScopeMatchesIdentity(previous, current) == previous.who = current.who
\* recovery_scope_matches: actor, store, user, role and permissions.
ScopeMatches(previous, current) == previous = current

Accepting == server = "up"

\* Disconnected at once, or never connected: a session it presented is lost.
Refuse(c) ==
  /\ boot' = [boot EXCEPT ![c] = "refused"]
  /\ UNCHANGED <<socketVars, ready, rooms, seen, connected, members>>

\* Mutant: a recovered session joins no room again.
JoinedOnce(s, t, again) == IF again THEN s.rooms ELSE RoomsOf(t, Areas)
\* The rooms of a store socket: restored, or joined.
Joined(s, t, again) ==
  IF again THEN s.rooms \cup RoomsOf(t, Late) ELSE RoomsOf(t, Areas)

\* The bootstrap starts in session s and runs until its first I/O: a store
\* socket joins its rooms and registers its id, a customer synchronizes its
\* identity first.
Start(c, t, s, again) ==
  /\ token' = [token EXCEPT ![c] = t]
  /\ id' = [id EXCEPT ![c] = s.id]
  /\ recovered' = [recovered EXCEPT ![c] = again]
  /\ whole' = [whole EXCEPT ![c] = s.whole]
  /\ connected' = connected \cup {c}
  /\ seen' = [seen EXCEPT ![c] = s.seen]
  /\ UNCHANGED ready
  /\ IF t.who \in StoreUsers
       THEN /\ boot' = [boot EXCEPT ![c] = "registering"]
            /\ rooms' = [rooms EXCEPT ![c] = Joined(s, t, again)]
            /\ members' = members \cup {s.id}
       ELSE /\ boot' = [boot EXCEPT ![c] = "identity"]
            /\ rooms' = [rooms EXCEPT ![c] = s.rooms]
            /\ UNCHANGED members

NewSession(c, t) ==
  [id |-> c, token |-> t, rooms |-> {}, seen |-> {}, finished |-> FALSE,
   whole |-> TRUE, handover |-> FALSE]

Connect(c, t) ==
  /\ boot[c] = "none"
  /\ server \in {"up", "draining"}
  /\ IF Accepting THEN Start(c, t, NewSession(c, t), FALSE) ELSE Refuse(c)
  /\ UNCHANGED <<serverVars, sessions, clean, active>>

\* The adapter gives a session away once, whatever comes of the connection.
Recover(c, t, s) ==
  /\ boot[c] = "none"
  /\ server \in {"up", "draining"}
  /\ s \in sessions
  /\ sessions' = sessions \ {s}
  /\ IF Accepting /\ ScopeMatches(s.token, t) THEN Start(c, t, s, TRUE)
                                              ELSE Refuse(c)
  /\ UNCHANGED <<serverVars, clean, active>>

-----------------------------------------------------------------------------
(* Disconnection: cleanup_store_presence *)

\* Mutant: the cleanup waits for a registration, also when there is none.
CleanupForever(c) ==
  IF clean[c] # "none" THEN clean[c] ELSE "waiting"
\* How far the shared cleanup comes when it is asked for: clear_observer, then
\* the registration is awaited, then the socket is unregistered.
Cleanup(c) ==
  IF clean[c] # "none" THEN clean[c]
  ELSE IF ~ IsStore(c) THEN "done"
  ELSE IF boot[c] = "registering" THEN "waiting" ELSE "unregistering"

\* The cleanup of the sockets cs starts.
CleanUp(cs) ==
  /\ clean' = [c \in Connections |-> IF c \in cs THEN Cleanup(c) ELSE clean[c]]
  /\ members' =
       members \ {id[c] : c \in {d \in cs : clean[d] = "none"
                                          /\ Cleanup(d) = "unregistering"}}

\* The sockets cs leave their rooms and run their disconnect listener.
Depart(cs) ==
  /\ connected' = connected \ cs
  /\ rooms' = [c \in Connections |-> IF c \in cs THEN {} ELSE rooms[c]]

Saved(c, handover) ==
  [id |-> id[c], token |-> token[c], rooms |-> rooms[c], seen |-> seen[c],
   finished |-> ready[c], whole |-> ready[c] /\ whole[c], handover |-> handover]

\* The transport is lost: the adapter keeps the session.
Lose(c) ==
  /\ c \in connected
  /\ Depart({c})
  /\ CleanUp({c})
  /\ sessions' = sessions \cup {Saved(c, FALSE)}
  /\ UNCHANGED <<serverVars, socketVars, boot, ready, seen, active>>

\* The client leaves, or its token expires: no session is kept.
Leave(c) ==
  /\ c \in connected
  /\ Depart({c})
  /\ CleanUp({c})
  /\ UNCHANGED <<serverVars, sessions, socketVars, boot, ready, seen, active>>

\* unregister has been answered, or has given up.
Unregistered(c) ==
  /\ clean[c] = "unregistering"
  /\ clean' = [clean EXCEPT ![c] = "done"]
  /\ UNCHANGED <<serverVars, sessions, socketVars, bootVars, members, active>>

-----------------------------------------------------------------------------
(* bootstrap_store_socket, bootstrap_customer_socket *)

Goto(c, stage) == boot' = [boot EXCEPT ![c] = stage]

\* connection:ready
Finish(c) ==
  /\ Goto(c, "done")
  /\ ready' = [ready EXCEPT ![c] = TRUE]

\* The bootstrap throws: its error handler cleans the presence of a store
\* socket, and disconnects a customer at once.
Throw(c) ==
  IF IsStore(c)
    THEN /\ Goto(c, "failing")
         /\ CleanUp({c})
         /\ UNCHANGED <<connected, rooms, seen, ready>>
    ELSE /\ Goto(c, "done")
         /\ CleanUp({c})
         /\ Depart({c})
         /\ UNCHANGED <<seen, ready>>

\* register has been answered, or has given up; it never rejects.  A cleanup
\* that waited for it goes on, and the bootstrap finds the socket gone.
Registered(c) ==
  /\ boot[c] = "registering"
  /\ IF c \in connected
       THEN Goto(c, "late") /\ UNCHANGED <<clean, members>>
       ELSE /\ Goto(c, "failing")
            /\ clean' = [clean EXCEPT ![c] = "unregistering"]
            /\ members' = members \ {id[c]}
  /\ UNCHANGED <<serverVars, sessions, socketVars, ready, rooms, seen, connected,
                 active>>

Shows(c, areas) == seen' = [seen EXCEPT ![c] = @ \cup RoomsOf(token[c], areas)]

\* The snapshots of support requests, then, in a new session, the others.
LoadLate(c) ==
  /\ boot[c] = "late"
  /\ c \in connected
  /\ Shows(c, Late)
  /\ IF recovered[c] THEN Finish(c) ELSE Goto(c, "early") /\ UNCHANGED ready
  /\ UNCHANGED <<serverVars, sessions, socketVars, rooms, connected, clean,
                 members, active>>

LoadEarly(c) ==
  /\ boot[c] = "early"
  /\ c \in connected
  /\ Shows(c, Early)
  /\ Finish(c)
  /\ UNCHANGED <<serverVars, sessions, socketVars, rooms, connected, clean,
                 members, active>>

\* synchronize_customer_identity has been answered.
Identified(c) ==
  /\ boot[c] = "identity"
  /\ c \in connected
  /\ rooms' = [rooms EXCEPT ![c] =
       IF recovered[c] THEN @ ELSE RoomsOf(token[c], Areas)]
  /\ Goto(c, "customer")
  /\ UNCHANGED <<serverVars, sessions, socketVars, ready, seen, connected, clean,
                 members, active>>

LoadCustomer(c) ==
  /\ boot[c] = "customer"
  /\ c \in connected
  /\ IF recovered[c] THEN UNCHANGED seen ELSE Shows(c, Areas)
  /\ Finish(c)
  /\ UNCHANGED <<serverVars, sessions, socketVars, rooms, connected, clean,
                 members, active>>

\* A load fails, or the socket is found disconnected after it.
Fails(c) ==
  /\ boot[c] \in {"late", "early", "identity", "customer"}
  /\ Throw(c)
  /\ UNCHANGED <<serverVars, sessions, socketVars, active>>

\* The error handler of a store socket goes on after the cleanup.
Failed(c) ==
  /\ boot[c] = "failing"
  /\ clean[c] = "done"
  /\ Goto(c, "done")
  /\ Depart({c})
  /\ UNCHANGED <<serverVars, sessions, socketVars, ready, seen, clean, members,
                 active>>

-----------------------------------------------------------------------------
(* Events and HTTP requests *)

\* Mutant: one call too many is admitted.
AdmitsOneMore(c) == active[id[c]] <= MaxInFlight
\* The calls in flight are counted for each socket id.
Admits(c) == active[id[c]] < MaxInFlight

\* run_event; what it refuses changes nothing.
Event(c) ==
  /\ c \in connected
  /\ ready[c]
  /\ Accepting
  /\ Admits(c)
  /\ active' = [active EXCEPT ![id[c]] = @ + 1]
  /\ UNCHANGED <<serverVars, sessions, socketVars, bootVars, clean, members>>

EventEnds(i) ==
  /\ active[i] > 0
  /\ active' = [active EXCEPT ![i] = @ - 1]
  /\ UNCHANGED <<serverVars, sessions, socketVars, bootVars, clean, members>>

\* is_shutting_down answers 503 before anything else.
HttpRequest ==
  /\ server = "up"
  /\ http + orphans < MaxRequests
  /\ http' = http + 1
  /\ UNCHANGED <<server, report, orphans, sessions, socketVars, bootVars, clean,
                 members, active>>

HttpEnds ==
  /\ http > 0
  /\ http' = http - 1
  /\ UNCHANGED <<server, report, orphans, sessions, socketVars, bootVars, clean,
                 members, active>>

\* The client hangs up: its connection is gone and the handler goes on.
HttpAborts ==
  /\ http > 0
  /\ http' = http - 1
  /\ orphans' = orphans + 1
  /\ UNCHANGED <<server, report, sessions, socketVars, bootVars, clean, members,
                 active>>

OrphanEnds ==
  /\ orphans > 0
  /\ orphans' = orphans - 1
  /\ UNCHANGED <<server, report, http, sessions, socketVars, bootVars, clean,
                 members, active>>

-----------------------------------------------------------------------------
(* Shutdown: SocketWorkTracker.drain, close of server.ts, shutdown of index.ts *)

Booting == {"registering", "late", "early", "identity", "customer", "failing"}
Cleaning == {"waiting", "unregistering"}

\* Mutant: the cleanups of the disconnections are not tracked.
DrainedOfTheRest ==
  /\ \A c \in Connections : boot[c] \notin Booting
  /\ \A i \in Ids : active[i] = 0
\* active_work is empty.
Drained ==
  /\ \A c \in Connections : boot[c] \notin Booting /\ clean[c] \notin Cleaning
  /\ \A i \in Ids : active[i] = 0

Advance(from, to) == server = from /\ server' = to

Signal ==
  /\ Advance("up", "draining")
  /\ UNCHANGED <<report, http, orphans, sessions, socketVars, bootVars, clean,
                 members, active>>

\* io.close: every socket is disconnected, and its session kept.
CloseSockets ==
  /\ Advance("draining", "closing_http")
  /\ Drained
  /\ Depart(connected)
  /\ CleanUp(connected)
  /\ sessions' = sessions \cup {Saved(c, TRUE) : c \in connected}
  /\ UNCHANGED <<report, http, orphans, socketVars, boot, ready, seen, active>>

\* The callback of io.close: the HTTP server has no connection left with a request;
\* a handler whose client has left is not waited for.
HttpClosed ==
  /\ Advance("closing_http", "draining_again")
  /\ http = 0
  /\ UNCHANGED <<report, http, orphans, sessions, socketVars, bootVars, clean,
                 members, active>>

DrainAgain ==
  /\ Advance("draining_again", "closing_presence")
  /\ Drained
  /\ UNCHANGED <<report, http, orphans, sessions, socketVars, bootVars, clean,
                 members, active>>

\* presence_service.close clears its maps.
ClosePresence ==
  /\ Advance("closing_presence", "closing_stores")
  /\ members' = {}
  /\ UNCHANGED <<report, http, orphans, sessions, socketVars, bootVars, clean,
                 active>>

\* redis_runtime.close, which never rejects, then mongo.close, which may; the
\* shutdown reports the outcome unless it has reported the timeout.
CloseStores ==
  /\ Advance("closing_stores", "closed")
  /\ \E outcome \in {"finished", "failed"} :
       report' = IF report = "none" THEN outcome ELSE report
  /\ UNCHANGED <<http, orphans, sessions, socketVars, bootVars, clean, members,
                 active>>

\* 15 s have passed: it is logged, and the close goes on.
ReportTimeout ==
  /\ server \notin {"up", "closed"}
  /\ report = "none"
  /\ report' = "failed"
  /\ UNCHANGED <<server, http, orphans, sessions, socketVars, bootVars, clean,
                 members, active>>

-----------------------------------------------------------------------------
Work(c) ==
  \/ Registered(c) \/ LoadLate(c) \/ LoadEarly(c) \/ Identified(c) \/ LoadCustomer(c)
  \/ Fails(c) \/ Failed(c) \/ Unregistered(c)

Closing ==
  CloseSockets \/ HttpClosed \/ DrainAgain \/ ClosePresence \/ CloseStores

Clients ==
  \E c \in Connections :
    \/ \E t \in Tokens : Connect(c, t) \/ \E s \in sessions : Recover(c, t, s)
    \/ Lose(c) \/ Leave(c) \/ Event(c)

Next ==
  \/ Clients
  \/ \E c \in Connections : Work(c)
  \/ \E i \in Ids : EventEnds(i)
  \/ HttpRequest \/ HttpEnds \/ HttpAborts \/ OrphanEnds
  \/ Signal \/ Closing \/ ReportTimeout

Spec == Init /\ [][Next]_vars

\* MongoDB and Redis answer or time out, so what was begun ends; the shutdown
\* goes on when what it waits for has happened.
FairSpec ==
  /\ Spec
  /\ \A c \in Connections : WF_vars(Work(c))
  /\ \A i \in Ids : WF_vars(EventEnds(i))
  /\ WF_vars(HttpEnds)
  /\ WF_vars(Closing)

-----------------------------------------------------------------------------
(* Properties *)

TypeOK ==
  /\ server \in {"up", "draining", "closing_http", "draining_again",
                 "closing_presence", "closing_stores", "closed"}
  /\ report \in {"none", "finished", "failed"}
  /\ http \in 0..MaxRequests
  /\ orphans \in 0..MaxRequests
  /\ http + orphans <= MaxRequests
  /\ sessions \subseteq Session
  /\ token \in [Connections -> Tokens \cup {NoToken}]
  /\ id \in [Connections -> Ids]
  /\ recovered \in [Connections -> BOOLEAN]
  /\ boot \in [Connections -> Booting \cup {"none", "refused", "done"}]
  /\ connected \subseteq Connections
  /\ ready \in [Connections -> BOOLEAN]
  /\ rooms \in [Connections -> SUBSET Rooms]
  /\ seen \in [Connections -> SUBSET Rooms]
  /\ whole \in [Connections -> BOOLEAN]
  /\ clean \in [Connections -> Cleaning \cup {"none", "done"}]
  /\ members \subseteq Ids
  /\ active \in [Ids -> 0..MaxInFlight]

\* A socket hears only what its present token allows, whatever session it has
\* recovered: a session never outlives a change of identity or permissions.
RoomsAreAllowed ==
  \A c \in connected : rooms[c] \subseteq RoomsOf(token[c], Areas)

\* "Todo snapshot inicial aplicavel chega antes de connection:ready": a socket
\* that is ready hears every room of its token, its client has every snapshot,
\* and a store socket counts for the presence of its store.  Not so when it
\* recovered the session of a bootstrap that had not finished: then nothing
\* repeats what that one missed, and its cleanup unregisters the common id.
ReadyIsComplete ==
  \A c \in connected : ready[c] /\ whole[c] =>
    /\ rooms[c] = RoomsOf(token[c], Areas)
    /\ seen[c] = RoomsOf(token[c], Areas)
    /\ IsStore(c) => id[c] \in members

AfterDrains == {"closing_presence", "closing_stores", "closed"}

\* Nothing a client waits for, and nothing a socket has begun.
NoWork ==
  /\ \A c \in Connections : boot[c] \notin Booting /\ clean[c] \notin Cleaning
  /\ \A i \in Ids : active[i] = 0
  /\ http = 0

\* A shutdown cuts nothing off that it waits for: presence, Redis and MongoDB are
\* closed when no event handler, bootstrap or cleanup of a socket runs that would
\* use them and no client waits for an HTTP answer, every socket has been
\* unregistered by then, and the sessions it leaves to other processes are of
\* finished bootstraps.  The handler of an HTTP client that has left is in no
\* tracker and may find them closed: orphans may be positive in AfterDrains.
NothingIsCutOff ==
  /\ server \in AfterDrains => NoWork /\ connected = {} /\ members = {}
  /\ \A s \in sessions : s.handover => s.finished

\* A shutdown that has begun ends, after it has reported a failure too.
ShutdownEnds == server = "draining" ~> server = "closed"

=============================================================================
