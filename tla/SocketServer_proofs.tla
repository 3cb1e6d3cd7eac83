------------------------- MODULE SocketServer_proofs -------------------------
(***************************************************************************)
(* Proofs about SocketServer.                                              *)
(*                                                                         *)
(* The invariant has four parts: how the bootstrap, the connection and the *)
(* cleanup of one socket fit together (LifeInv), what the shutdown has     *)
(* left (ServerInv), which sockets may share a socket id (IdInv), and what *)
(* rooms, snapshots and members a socket and a saved session have          *)
(* (CompleteInv).  Each is preserved given the ones before it.             *)
(***************************************************************************)
EXTENDS SocketServer, TLAPS

Real(c) == boot[c] \notin {"none", "refused"}

-----------------------------------------------------------------------------
(* The invariant *)

\* Bootstrap, connection and cleanup of one socket.
LifeOf(c) ==
  /\ c \in connected => Real(c)
  /\ Real(c) /\ c \notin connected => clean[c] # "none"
  /\ c \in connected /\ boot[c] # "failing" => clean[c] = "none"
  /\ clean[c] = "waiting" => boot[c] = "registering"
  /\ boot[c] = "registering" /\ c \notin connected => clean[c] = "waiting"
  /\ boot[c] = "failing" => clean[c] \notin {"none", "waiting"}
  /\ boot[c] \in {"registering", "late", "early", "failing"} => IsStore(c)
  /\ boot[c] \in {"identity", "customer"} => ~ IsStore(c)
  /\ c \in connected /\ boot[c] = "done" => ready[c]
  /\ ready[c] => boot[c] = "done"
  /\ ~ Real(c) => clean[c] = "none" /\ ~ ready[c]
  /\ Real(c) => token[c] \in Tokens

LifeInv == \A c \in Connections : LifeOf(c)

\* A socket whose id PresenceService holds for its sake.
Holds(c, i) ==
  Real(c) /\ IsStore(c) /\ id[c] = i /\ clean[c] \in {"none", "waiting"}

\* What the shutdown has left.
ShutdownLeaves ==
  /\ server \notin {"up", "draining"} =>
       /\ connected = {}
       /\ \A c \in Connections : boot[c] \notin Booting
       /\ \A i \in Ids : active[i] = 0
  /\ server \in {"draining_again"} \cup AfterDrains => http = 0
  /\ server \in AfterDrains => \A c \in Connections : clean[c] \notin Cleaning
  /\ \A s \in sessions : s.handover => s.finished

MembersHeld == \A i \in members : \E c \in Connections : Holds(c, i)

ServerInv == ShutdownLeaves /\ MembersHeld

\* Of the sockets that have had one socket id, the last alone is connected, and
\* when no bootstrap of the session was left unfinished, the earlier ones have
\* unregistered the id already.
Released(c) == clean[c] \notin {"none", "waiting"}

IdInv ==
  /\ \A c, d \in Connections :
       c \in connected /\ Real(d) /\ c # d /\ id[c] = id[d] =>
         d \notin connected /\ (whole[c] => Released(d))
  /\ \A s \in sessions, d \in Connections :
       Real(d) /\ id[d] = s.id => d \notin connected /\ (s.whole => Released(d))
  /\ \A s, q \in sessions : s.id = q.id => s = q
  /\ \A c, d \in Connections : Real(c) /\ id[c] = d => Real(d)
  /\ \A s \in sessions, d \in Connections : s.id = d => Real(d)

\* Rooms, snapshots and members of one socket, and of one saved session.
RoomsAre(c) == RoomsOf(token[c], Areas)

SocketComplete(c) ==
  /\ rooms[c] \subseteq RoomsAre(c)
  /\ seen[c] \subseteq RoomsAre(c)
  /\ whole[c] =>
       /\ boot[c] # "identity" => rooms[c] = RoomsAre(c)
       /\ recovered[c] => RoomsOf(token[c], Early) \subseteq rooms[c] \cap seen[c]
       /\ boot[c] = "early" => RoomsOf(token[c], Late) \subseteq seen[c]
       /\ boot[c] = "done" => seen[c] = RoomsAre(c)
       /\ IsStore(c) /\ clean[c] = "none" => id[c] \in members

SessionComplete(s) ==
  /\ s.token \in Tokens
  /\ s.rooms \subseteq RoomsOf(s.token, Areas)
  /\ s.seen \subseteq RoomsOf(s.token, Areas)
  /\ s.whole => RoomsOf(s.token, Early) \subseteq s.rooms \cap s.seen

CompleteInv ==
  /\ \A c \in connected : SocketComplete(c)
  /\ \A s \in sessions : SessionComplete(s)

-----------------------------------------------------------------------------
(* Rooms *)

LEMMA RoomsOfType ==
  ASSUME NEW t \in Token, NEW A \in SUBSET Areas
  PROVE  RoomsOf(t, A) \in SUBSET Rooms
BY DEF RoomsOf, Rooms, Token

LEMMA RoomsOfParts ==
  ASSUME NEW t
  PROVE  RoomsOf(t, Areas) = RoomsOf(t, Early) \cup RoomsOf(t, Late)
BY DEF RoomsOf, Areas

LEMMA CustomerRooms ==
  ASSUME NEW t \in Tokens, t.who \notin StoreUsers
  PROVE  RoomsOf(t, Areas) = RoomsOf(t, Early)
<1>1. t.who \in Customers
  BY SocketServerAssumption DEF SocketServerAssumption, Token, Identities
<1>2. t.areas \cap Areas = t.areas \cap Early
  BY <1>1, SocketServerAssumption DEF SocketServerAssumption, Areas
<1> QED
  BY <1>2 DEF RoomsOf

-----------------------------------------------------------------------------
(* Types *)

\* A saved session is a session.
LEMMA SavedType ==
  ASSUME TypeOK, NEW c \in Connections, token[c] \in Tokens, NEW h \in BOOLEAN
  PROVE  Saved(c, h) \in Session
<1>1. token[c] \in Token
  BY SocketServerAssumption DEF SocketServerAssumption
<1>2. id[c] \in Ids /\ rooms[c] \in SUBSET Rooms /\ seen[c] \in SUBSET Rooms
  BY DEF TypeOK
<1>3. ready[c] \in BOOLEAN /\ (ready[c] /\ whole[c]) \in BOOLEAN
  BY DEF TypeOK
<1> QED
  BY <1>1, <1>2, <1>3 DEF Saved, Session

LEMMA CleanupType ==
  ASSUME TypeOK, NEW c \in Connections
  PROVE  Cleanup(c) \in Cleaning \cup {"none", "done"}
BY DEF TypeOK, Cleanup, Cleaning

LEMMA CleanUpTypes ==
  ASSUME TypeOK, NEW cs \in SUBSET Connections, CleanUp(cs)
  PROVE  /\ clean' \in [Connections -> Cleaning \cup {"none", "done"}]
         /\ members' \in SUBSET Ids
BY CleanupType DEF CleanUp, TypeOK

LEMMA DepartTypes ==
  ASSUME TypeOK, NEW cs \in SUBSET Connections, Depart(cs)
  PROVE  /\ connected' \in SUBSET Connections
         /\ rooms' \in [Connections -> SUBSET Rooms]
BY DEF Depart, TypeOK

LEMMA StartTypes ==
  ASSUME TypeOK, NEW c \in Connections, NEW t \in Tokens, NEW s \in Session,
         NEW again \in BOOLEAN, Start(c, t, s, again)
  PROVE  /\ token' \in [Connections -> Tokens \cup {NoToken}]
         /\ id' \in [Connections -> Ids]
         /\ recovered' \in [Connections -> BOOLEAN]
         /\ whole' \in [Connections -> BOOLEAN]
         /\ boot' \in [Connections -> Booting \cup {"none", "refused", "done"}]
         /\ connected' \in SUBSET Connections
         /\ ready' = ready
         /\ rooms' \in [Connections -> SUBSET Rooms]
         /\ seen' \in [Connections -> SUBSET Rooms]
         /\ members' \in SUBSET Ids
<1>1. /\ s.id \in Ids /\ s.rooms \in SUBSET Rooms /\ s.seen \in SUBSET Rooms
      /\ s.whole \in BOOLEAN
  BY DEF Session
<1>2. t \in Token
  BY SocketServerAssumption DEF SocketServerAssumption
<1>3. RoomsOf(t, Areas) \in SUBSET Rooms /\ RoomsOf(t, Late) \in SUBSET Rooms
  BY <1>2, RoomsOfType DEF Areas
<1>4. Joined(s, t, again) \in SUBSET Rooms
  BY <1>1, <1>3 DEF Joined
<1>5. token' \in [Connections -> Tokens \cup {NoToken}]
  BY DEF Start, TypeOK
<1>6. id' \in [Connections -> Ids]
  BY <1>1 DEF Start, TypeOK
<1>7. recovered' \in [Connections -> BOOLEAN] /\ whole' \in [Connections -> BOOLEAN]
  BY <1>1 DEF Start, TypeOK
<1>8. boot' \in [Connections -> Booting \cup {"none", "refused", "done"}]
  BY DEF Start, TypeOK, Booting
<1>9. connected' \in SUBSET Connections /\ ready' = ready
  BY DEF Start, TypeOK
<1>10. rooms' \in [Connections -> SUBSET Rooms]
  BY <1>1, <1>4 DEF Start, TypeOK
<1>11. seen' \in [Connections -> SUBSET Rooms]
  BY <1>1 DEF Start, TypeOK
<1>12. members' \in SUBSET Ids
  BY <1>1 DEF Start, TypeOK
<1> QED
  BY <1>5, <1>6, <1>7, <1>8, <1>9, <1>10, <1>11, <1>12

LEMMA NewSessionType ==
  ASSUME NEW c \in Connections, NEW t \in Tokens
  PROVE  NewSession(c, t) \in Session
<1>1. t \in Token /\ c \in Ids
  BY SocketServerAssumption DEF SocketServerAssumption, Ids
<1> QED
  BY <1>1 DEF NewSession, Session

LEMMA ShowsType ==
  ASSUME TypeOK, NEW c \in Connections, token[c] \in Tokens,
         NEW A \in SUBSET Areas, Shows(c, A)
  PROVE  seen' \in [Connections -> SUBSET Rooms]
<1>1. RoomsOf(token[c], A) \in SUBSET Rooms
  BY RoomsOfType, SocketServerAssumption DEF SocketServerAssumption
<1> QED
  BY <1>1 DEF Shows, TypeOK

LEMMA TypeStep ==
  ASSUME TypeOK, LifeInv, Next
  PROVE  TypeOK'
<1>0. \A c \in Connections : Real(c) => token[c] \in Tokens
  BY DEF LifeInv, LifeOf
<1>1. ASSUME NEW c \in Connections, NEW t \in Tokens, Connect(c, t)
      PROVE  TypeOK'
  <2>1. CASE Accepting
    BY <1>1, <2>1, NewSessionType, StartTypes
    DEF Connect, TypeOK, serverVars
  <2>2. CASE ~ Accepting
    BY <1>1, <2>2 DEF Connect, Refuse, TypeOK, serverVars, socketVars
  <2> QED
    BY <2>1, <2>2
<1>2. ASSUME NEW c \in Connections, NEW t \in Tokens, NEW s \in sessions,
             Recover(c, t, s)
      PROVE  TypeOK'
  <2>1. s \in Session /\ sessions' \subseteq Session
    BY <1>2 DEF TypeOK, Recover
  <2>2. CASE Accepting /\ ScopeMatches(s.token, t)
    BY <1>2, <2>1, <2>2, StartTypes DEF Recover, TypeOK, serverVars
  <2>3. CASE ~ (Accepting /\ ScopeMatches(s.token, t))
    BY <1>2, <2>1, <2>3 DEF Recover, Refuse, TypeOK, serverVars, socketVars
  <2> QED
    BY <2>2, <2>3
<1>3. ASSUME NEW c \in Connections, Lose(c) PROVE TypeOK'
  <2>1. token[c] \in Tokens
    BY <1>0, <1>3 DEF Lose, LifeInv, LifeOf
  <2>2. sessions' \subseteq Session
    BY <1>3, <2>1, SavedType DEF Lose, TypeOK
  <2>3. /\ connected' \in SUBSET Connections
        /\ rooms' \in [Connections -> SUBSET Rooms]
    BY <1>3, DepartTypes DEF Lose
  <2>4. /\ clean' \in [Connections -> Cleaning \cup {"none", "done"}]
        /\ members' \in SUBSET Ids
    BY <1>3, CleanUpTypes DEF Lose
  <2> QED
    BY <1>3, <2>2, <2>3, <2>4 DEF Lose, TypeOK, serverVars, socketVars
<1>4. ASSUME NEW c \in Connections, Leave(c) PROVE TypeOK'
  <2>1. /\ connected' \in SUBSET Connections
        /\ rooms' \in [Connections -> SUBSET Rooms]
    BY <1>4, DepartTypes DEF Leave
  <2>2. /\ clean' \in [Connections -> Cleaning \cup {"none", "done"}]
        /\ members' \in SUBSET Ids
    BY <1>4, CleanUpTypes DEF Leave
  <2> QED
    BY <1>4, <2>1, <2>2 DEF Leave, TypeOK, serverVars, socketVars
<1>5. ASSUME NEW c \in Connections, Unregistered(c) PROVE TypeOK'
  BY <1>5 DEF Unregistered, TypeOK, serverVars, socketVars, bootVars
<1>6. ASSUME NEW c \in Connections, Registered(c) PROVE TypeOK'
  BY <1>6 DEF Registered, Goto, TypeOK, serverVars, socketVars, Booting, Cleaning
<1>7. ASSUME NEW c \in Connections, LoadLate(c) PROVE TypeOK'
  <2>1. token[c] \in Tokens
    BY <1>0, <1>7 DEF LoadLate, LifeInv, LifeOf
  <2>2. seen' \in [Connections -> SUBSET Rooms]
    BY <1>7, <2>1, ShowsType DEF LoadLate, Areas
  <2>3. /\ boot' \in [Connections -> Booting \cup {"none", "refused", "done"}]
        /\ ready' \in [Connections -> BOOLEAN]
    BY <1>7 DEF LoadLate, Finish, Goto, TypeOK, Booting
  <2> QED
    BY <1>7, <2>2, <2>3 DEF LoadLate, TypeOK, serverVars, socketVars
<1>8. ASSUME NEW c \in Connections, LoadEarly(c) PROVE TypeOK'
  <2>1. token[c] \in Tokens
    BY <1>0, <1>8 DEF LoadEarly, LifeInv, LifeOf
  <2>2. seen' \in [Connections -> SUBSET Rooms]
    BY <1>8, <2>1, ShowsType DEF LoadEarly, Areas
  <2> QED
    BY <1>8, <2>2 DEF LoadEarly, Finish, Goto, TypeOK, serverVars, socketVars
<1>9. ASSUME NEW c \in Connections, Identified(c) PROVE TypeOK'
  <2>1. token[c] \in Token
    BY <1>0, <1>9, SocketServerAssumption
    DEF Identified, LifeInv, LifeOf, SocketServerAssumption
  <2>2. RoomsOf(token[c], Areas) \in SUBSET Rooms
    BY <2>1, RoomsOfType
  <2>3. rooms' \in [Connections -> SUBSET Rooms]
    BY <1>9, <2>2 DEF Identified, TypeOK
  <2> QED
    BY <1>9, <2>3 DEF Identified, Goto, TypeOK, serverVars, socketVars, Booting
<1>10. ASSUME NEW c \in Connections, LoadCustomer(c) PROVE TypeOK'
  <2>1. token[c] \in Tokens
    BY <1>0, <1>10 DEF LoadCustomer, LifeInv, LifeOf
  <2>2. seen' \in [Connections -> SUBSET Rooms]
    BY <1>10, <2>1, ShowsType DEF LoadCustomer, TypeOK
  <2> QED
    BY <1>10, <2>2 DEF LoadCustomer, Finish, Goto, TypeOK, serverVars, socketVars
<1>11. ASSUME NEW c \in Connections, Fails(c) PROVE TypeOK'
  <2>1. CleanUp({c})
    BY <1>11 DEF Fails, Throw
  <2>2. /\ clean' \in [Connections -> Cleaning \cup {"none", "done"}]
        /\ members' \in SUBSET Ids
    BY <2>1, CleanUpTypes
  <2>3. /\ connected' \in SUBSET Connections
        /\ rooms' \in [Connections -> SUBSET Rooms]
    BY <1>11, DepartTypes DEF Fails, Throw, TypeOK
  <2>4. boot' \in [Connections -> Booting \cup {"none", "refused", "done"}]
    BY <1>11 DEF Fails, Throw, Goto, TypeOK, Booting
  <2>5. seen' = seen /\ ready' = ready
    BY <1>11 DEF Fails, Throw
  <2> QED
    BY <1>11, <2>2, <2>3, <2>4, <2>5 DEF Fails, TypeOK, serverVars, socketVars
<1>12. ASSUME NEW c \in Connections, Failed(c) PROVE TypeOK'
  <2>1. /\ connected' \in SUBSET Connections
        /\ rooms' \in [Connections -> SUBSET Rooms]
    BY <1>12, DepartTypes DEF Failed
  <2> QED
    BY <1>12, <2>1 DEF Failed, Goto, TypeOK, serverVars, socketVars
<1>13. ASSUME NEW c \in Connections, Event(c) PROVE TypeOK'
  <2>1. id[c] \in Ids /\ active[id[c]] \in 0..MaxInFlight
    BY DEF TypeOK
  <2>2. active[id[c]] + 1 \in 0..MaxInFlight
    BY <1>13, <2>1, SocketServerAssumption DEF Event, Admits, SocketServerAssumption
  <2>3. active' \in [Ids -> 0..MaxInFlight]
    BY <1>13, <2>2 DEF Event, TypeOK
  <2> QED
    BY <1>13, <2>3 DEF Event, TypeOK, serverVars, socketVars, bootVars
<1>14. ASSUME NEW i \in Ids, EventEnds(i) PROVE TypeOK'
  <2>1. active[i] - 1 \in 0..MaxInFlight
    BY <1>14, SocketServerAssumption DEF EventEnds, TypeOK, SocketServerAssumption
  <2>2. active' \in [Ids -> 0..MaxInFlight]
    BY <1>14, <2>1 DEF EventEnds, TypeOK
  <2> QED
    BY <1>14, <2>2 DEF EventEnds, TypeOK, serverVars, socketVars, bootVars
<1>15. CASE HttpRequest \/ HttpEnds \/ HttpAborts \/ OrphanEnds
  <2>1. /\ http \in Nat /\ orphans \in Nat /\ http + orphans <= MaxRequests
        /\ MaxRequests \in Nat
    BY SocketServerAssumption DEF TypeOK, SocketServerAssumption
  <2>2. \/ http' = http + 1 /\ orphans' = orphans /\ http + orphans < MaxRequests
        \/ http' = http - 1 /\ orphans' = orphans /\ http > 0
        \/ http' = http - 1 /\ orphans' = orphans + 1 /\ http > 0
        \/ http' = http /\ orphans' = orphans - 1 /\ orphans > 0
    BY <1>15 DEF HttpRequest, HttpEnds, HttpAborts, OrphanEnds
  <2>3. /\ http' \in 0..MaxRequests /\ orphans' \in 0..MaxRequests
        /\ http' + orphans' <= MaxRequests
    BY <2>1, <2>2
  <2> QED
    BY <1>15, <2>3
    DEF HttpRequest, HttpEnds, HttpAborts, OrphanEnds, TypeOK, socketVars, bootVars
<1>17. CASE Signal
  BY <1>17 DEF Signal, Advance, TypeOK, socketVars, bootVars
<1>18. CASE CloseSockets
  <2>1. \A c \in connected : token[c] \in Tokens /\ c \in Connections
    BY <1>0 DEF TypeOK, LifeInv, LifeOf
  <2>2. sessions' \subseteq Session
    BY <1>18, <2>1, SavedType DEF CloseSockets, TypeOK
  <2>3. connected \in SUBSET Connections
    BY DEF TypeOK
  <2>4. /\ connected' \in SUBSET Connections
        /\ rooms' \in [Connections -> SUBSET Rooms]
    BY <1>18, <2>3, DepartTypes DEF CloseSockets
  <2>5. /\ clean' \in [Connections -> Cleaning \cup {"none", "done"}]
        /\ members' \in SUBSET Ids
    BY <1>18, <2>3, CleanUpTypes DEF CloseSockets
  <2> QED
    BY <1>18, <2>2, <2>4, <2>5 DEF CloseSockets, Advance, TypeOK, socketVars
<1>19. CASE HttpClosed
  BY <1>19 DEF HttpClosed, Advance, TypeOK, socketVars, bootVars
<1>20. CASE DrainAgain
  BY <1>20 DEF DrainAgain, Advance, TypeOK, socketVars, bootVars
<1>21. CASE ClosePresence
  BY <1>21 DEF ClosePresence, Advance, TypeOK, socketVars, bootVars
<1>22. CASE CloseStores
  BY <1>22 DEF CloseStores, Advance, TypeOK, socketVars, bootVars
<1>23. CASE ReportTimeout
  BY <1>23 DEF ReportTimeout, TypeOK, socketVars, bootVars
<1> QED
  BY <1>1, <1>2, <1>3, <1>4, <1>5, <1>6, <1>7, <1>8, <1>9, <1>10, <1>11, <1>12,
     <1>13, <1>14, <1>15, <1>17, <1>18, <1>19, <1>20, <1>21, <1>22, <1>23
  DEF Next, Clients, Work, Closing
-----------------------------------------------------------------------------
(* Bootstrap, connection and cleanup of one socket *)

\* A socket of which nothing changes.
LEMMA LifeFrame ==
  ASSUME NEW d \in Connections, LifeOf(d), token'[d] = token[d],
         boot'[d] = boot[d], ready'[d] = ready[d], clean'[d] = clean[d],
         d \in connected' <=> d \in connected
  PROVE  LifeOf(d)'
BY DEF LifeOf, Real, IsStore

LEMMA LifeInit == Init => LifeInv
BY DEF Init, LifeInv, LifeOf, Real

LEMMA LifeStep ==
  ASSUME TypeOK, LifeInv, Next
  PROVE  LifeInv'
<1>0. ASSUME NEW d \in Connections
      PROVE  LifeOf(d)
  BY DEF LifeInv
<1>1. ASSUME NEW c \in Connections, NEW t \in Tokens, NEW s, NEW again,
             boot[c] = "none", Start(c, t, s, again), UNCHANGED clean
      PROVE  LifeInv'
  <2>1. ASSUME NEW d \in Connections PROVE LifeOf(d)'
    <3>1. CASE d = c
      <4>1. clean[c] = "none" /\ ready[c] = FALSE
        BY <1>0, <1>1 DEF LifeOf, Real, TypeOK
      <4>2. c \in connected' /\ token'[c] = t /\ ready' = ready /\ clean' = clean
        BY <1>1 DEF Start, TypeOK
      <4>3. CASE t.who \in StoreUsers
        <5>1. boot'[c] = "registering"
          BY <1>1, <4>3 DEF Start, TypeOK
        <5> QED
          BY <3>1, <4>1, <4>2, <4>3, <5>1 DEF LifeOf, Real, IsStore
      <4>4. CASE t.who \notin StoreUsers
        <5>1. boot'[c] = "identity"
          BY <1>1, <4>4 DEF Start, TypeOK
        <5> QED
          BY <3>1, <4>1, <4>2, <4>4, <5>1 DEF LifeOf, Real, IsStore
      <4> QED
        BY <4>3, <4>4
    <3>2. CASE d # c
      BY <1>0, <1>1, <3>2, LifeFrame DEF Start, TypeOK
    <3> QED
      BY <3>1, <3>2
  <2> QED
    BY <2>1 DEF LifeInv
<1>2. ASSUME NEW c \in Connections, boot[c] = "none", Refuse(c), UNCHANGED clean
      PROVE  LifeInv'
  <2>1. ASSUME NEW d \in Connections PROVE LifeOf(d)'
    BY <1>0, <1>2 DEF Refuse, LifeOf, Real, TypeOK, socketVars, IsStore
  <2> QED
    BY <2>1 DEF LifeInv
\* Sockets leave, and their cleanups start; their bootstraps stay.
<1>3. ASSUME NEW cs \in SUBSET connected, Depart(cs), CleanUp(cs),
             UNCHANGED <<token, boot, ready>>
      PROVE  LifeInv'
  <2>1. ASSUME NEW d \in Connections PROVE LifeOf(d)'
    BY <1>0, <1>3, <2>1 DEF Depart, CleanUp, Cleanup, LifeOf, Real, IsStore, TypeOK
  <2> QED
    BY <2>1 DEF LifeInv
<1>4. ASSUME NEW c \in Connections, NEW t \in Tokens, Connect(c, t) PROVE LifeInv'
  BY <1>1, <1>2, <1>4 DEF Connect
<1>5. ASSUME NEW c \in Connections, NEW t \in Tokens, NEW s \in sessions,
             Recover(c, t, s)
      PROVE  LifeInv'
  BY <1>1, <1>2, <1>5 DEF Recover
<1>6. ASSUME NEW c \in Connections, Lose(c) \/ Leave(c) PROVE LifeInv'
  <2>1. {c} \in SUBSET connected
    BY <1>6 DEF Lose, Leave
  <2> QED
    BY <1>3, <1>6, <2>1 DEF Lose, Leave, socketVars
<1>7. ASSUME NEW c \in Connections, Unregistered(c) PROVE LifeInv'
  <2>1. ASSUME NEW d \in Connections PROVE LifeOf(d)'
    BY <1>0, <1>7, <2>1 DEF Unregistered, LifeOf, Real, IsStore, TypeOK, socketVars, bootVars
  <2> QED
    BY <2>1 DEF LifeInv
<1>8. ASSUME NEW c \in Connections, Registered(c) PROVE LifeInv'
  <2>1. ASSUME NEW d \in Connections PROVE LifeOf(d)'
    BY <1>0, <1>8, <2>1
    DEF Registered, Goto, LifeOf, Real, IsStore, TypeOK, socketVars
  <2> QED
    BY <2>1 DEF LifeInv
<1>9. ASSUME NEW c \in Connections,
             \/ LoadLate(c) \/ LoadEarly(c) \/ Identified(c) \/ LoadCustomer(c)
      PROVE  LifeInv'
  <2>1. /\ c \in connected /\ boot[c] \in {"late", "early", "identity", "customer"}
        /\ UNCHANGED <<token, connected, clean>>
        /\ \/ boot' = [boot EXCEPT ![c] = "done"] /\ ready' = [ready EXCEPT ![c] = TRUE]
           \/ /\ boot[c] = "late" /\ boot' = [boot EXCEPT ![c] = "early"]
              /\ ready' = ready
           \/ /\ boot[c] = "identity" /\ boot' = [boot EXCEPT ![c] = "customer"]
              /\ ready' = ready
    BY <1>9 DEF LoadLate, LoadEarly, Identified, LoadCustomer, Finish, Goto, socketVars
  <2>2. ASSUME NEW d \in Connections PROVE LifeOf(d)'
    <3>1. CASE d = c
      BY <1>0, <2>1, <3>1 DEF LifeOf, Real, IsStore, TypeOK
    <3>2. CASE d # c
      BY <1>0, <2>1, <3>2, LifeFrame DEF TypeOK
    <3> QED
      BY <3>1, <3>2
  <2> QED
    BY <2>2 DEF LifeInv
<1>10. ASSUME NEW c \in Connections, Fails(c) PROVE LifeInv'
  <2>1. ASSUME NEW d \in Connections PROVE LifeOf(d)'
    <3>1. CASE d # c
      BY <1>0, <1>10, <3>1, LifeFrame
      DEF Fails, Throw, Goto, Depart, CleanUp, TypeOK, socketVars
    <3>2. CASE d = c /\ IsStore(c)
      BY <1>0, <1>10, <3>2
      DEF Fails, Throw, Goto, CleanUp, Cleanup, LifeOf, Real, IsStore, TypeOK, socketVars
    <3>3. CASE d = c /\ ~ IsStore(c)
      BY <1>0, <1>10, <3>3
      DEF Fails, Throw, Goto, Depart, CleanUp, Cleanup, LifeOf, Real, IsStore, TypeOK,
          socketVars
    <3> QED
      BY <3>1, <3>2, <3>3
  <2> QED
    BY <2>1 DEF LifeInv
<1>11. ASSUME NEW c \in Connections, Failed(c) PROVE LifeInv'
  <2>1. ASSUME NEW d \in Connections PROVE LifeOf(d)'
    BY <1>0, <1>11, <2>1
    DEF Failed, Goto, Depart, LifeOf, Real, IsStore, TypeOK, socketVars
  <2> QED
    BY <2>1 DEF LifeInv
<1>12. CASE CloseSockets
  <2>1. connected \in SUBSET connected
    OBVIOUS
  <2> QED
    BY <1>3, <1>12, <2>1 DEF CloseSockets, socketVars
<1>13. ASSUME UNCHANGED <<token, boot, ready, clean, connected>>
       PROVE  LifeInv'
  BY <1>0, <1>13, LifeFrame DEF LifeInv
<1>14. CASE \/ \E c \in Connections : Event(c)
            \/ \E i \in Ids : EventEnds(i)
            \/ HttpRequest \/ HttpEnds \/ HttpAborts \/ OrphanEnds \/ Signal
            \/ HttpClosed \/ DrainAgain \/ ClosePresence \/ CloseStores \/ ReportTimeout
  BY <1>13, <1>14
  DEF Event, EventEnds, HttpRequest, HttpEnds, HttpAborts, OrphanEnds, Signal,
      HttpClosed, DrainAgain, ClosePresence, CloseStores, ReportTimeout, socketVars, bootVars
<1> QED
  BY <1>4, <1>5, <1>6, <1>7, <1>8, <1>9, <1>10, <1>11, <1>12, <1>14
  DEF Next, Clients, Work, Closing
-----------------------------------------------------------------------------
(* The shutdown *)

\* What the cleanups of the sockets cs leave of the members is still held.
LEMMA CleanUpMembers ==
  ASSUME TypeOK, MembersHeld, NEW cs \in SUBSET Connections, CleanUp(cs),
         UNCHANGED <<token, id>>,
         \A c \in Connections : Real(c) => Real(c)'
  PROVE  MembersHeld'
<1> SUFFICES ASSUME NEW i \in members'
             PROVE  \E c \in Connections : Holds(c, i)'
  BY DEF MembersHeld
<1>1. i \in members
  BY DEF CleanUp
<1>2. PICK c \in Connections : Holds(c, i)
  BY <1>1 DEF MembersHeld
<1>3. Real(c)' /\ IsStore(c)' /\ id'[c] = i
  BY <1>2 DEF Holds, IsStore
<1>4. CASE c \notin cs
  <2>1. clean'[c] = clean[c]
    BY <1>4 DEF CleanUp
  <2> QED
    BY <1>2, <1>3, <2>1 DEF Holds
<1>5. CASE c \in cs
  <2>1. clean'[c] = Cleanup(c)
    BY <1>5 DEF CleanUp
  <2>2. ~ (clean[c] = "none" /\ Cleanup(c) = "unregistering")
    BY <1>2, <1>5 DEF CleanUp, Holds
  <2>3. Cleanup(c) \in {"none", "waiting"}
    BY <1>2, <2>2 DEF Holds, Cleanup
  <2> QED
    BY <1>3, <2>1, <2>3 DEF Holds
<1> QED
  BY <1>4, <1>5

\* A step of which the members notice nothing.
LEMMA MembersFrame ==
  ASSUME MembersHeld, members' \subseteq members,
         \A c \in Connections : Real(c) =>
           /\ Real(c)' /\ token'[c] = token[c] /\ id'[c] = id[c]
           /\ clean'[c] = clean[c]
  PROVE  MembersHeld'
BY DEF MembersHeld, Holds, IsStore

LEMMA ServerInit == Init => ServerInv
<1> SUFFICES ASSUME Init PROVE ServerInv
  OBVIOUS
<1>1. \A s \in sessions : ~ s.handover
  BY SocketServerAssumption DEF Init, SocketServerAssumption
<1> QED
  BY <1>1 DEF Init, ServerInv, ShutdownLeaves, MembersHeld, AfterDrains

LEMMA ServerStep ==
  ASSUME TypeOK, LifeInv, ServerInv, Next
  PROVE  ServerInv'
<1>0. ShutdownLeaves /\ MembersHeld
  BY DEF ServerInv
<1> SUFFICES ShutdownLeaves' /\ MembersHeld'
  BY DEF ServerInv
<1>life. \A c \in Connections : LifeOf(c)
  BY DEF LifeInv
\* Once the sockets are closed, none is connected and no bootstrap runs.
<1>up. ASSUME NEW c \in Connections, c \in connected \/ boot[c] \in Booting
       PROVE  server \in {"up", "draining"}
  BY <1>0, <1>up DEF ShutdownLeaves
<1>1. ASSUME NEW c \in Connections, NEW t \in Tokens, NEW s, NEW again,
             boot[c] = "none", Accepting, sessions' \subseteq sessions,
             Start(c, t, s, again), UNCHANGED <<server, clean>>
      PROVE  ShutdownLeaves' /\ MembersHeld'
  <2>1. ShutdownLeaves'
    BY <1>0, <1>1 DEF ShutdownLeaves, Accepting, AfterDrains
  <2>2. ASSUME NEW d \in Connections, Real(d)
        PROVE  /\ d # c /\ Real(d)' /\ token'[d] = token[d] /\ id'[d] = id[d]
               /\ clean'[d] = clean[d]
    BY <1>1, <2>2 DEF Start, Real, TypeOK
  <2>3. CASE t.who \notin StoreUsers
    <3>1. members' = members
      BY <1>1, <2>3 DEF Start
    <3> QED
      BY <1>0, <2>1, <2>2, <3>1, MembersFrame
  <2>4. CASE t.who \in StoreUsers
    <3>1. members' = members \cup {s.id}
      BY <1>1, <2>4 DEF Start
    <3>2. clean[c] = "none"
      BY <1>1, <1>life DEF LifeOf, Real
    <3>3. Holds(c, s.id)'
      BY <1>1, <2>4, <3>2 DEF Start, Holds, Real, IsStore, TypeOK
    <3>4. ASSUME NEW i \in members PROVE \E d \in Connections : Holds(d, i)'
      <4>1. PICK d \in Connections : Holds(d, i)
        BY <1>0 DEF MembersHeld
      <4> QED
        BY <2>2, <4>1 DEF Holds, IsStore
    <3>5. MembersHeld'
      BY <3>1, <3>3, <3>4 DEF MembersHeld
    <3> QED
      BY <2>1, <3>5
  <2> QED
    BY <2>3, <2>4
<1>2. ASSUME NEW c \in Connections, boot[c] = "none", Refuse(c),
             sessions' \subseteq sessions, UNCHANGED <<serverVars, clean, active>>
      PROVE  ShutdownLeaves' /\ MembersHeld'
  <2>1. ShutdownLeaves'
    BY <1>0, <1>2
    DEF Refuse, ShutdownLeaves, serverVars, socketVars, TypeOK, Booting
  <2>2. MembersHeld'
    BY <1>0, <1>2, MembersFrame DEF Refuse, Real, socketVars, TypeOK
  <2> QED
    BY <2>1, <2>2
<1>3. ASSUME NEW c \in Connections, NEW t \in Tokens, Connect(c, t)
      PROVE  ShutdownLeaves' /\ MembersHeld'
  BY <1>1, <1>2, <1>3 DEF Connect, serverVars
<1>4. ASSUME NEW c \in Connections, NEW t \in Tokens, NEW s \in sessions,
             Recover(c, t, s)
      PROVE  ShutdownLeaves' /\ MembersHeld'
  <2>1. CASE Accepting /\ ScopeMatches(s.token, t)
    BY <1>1, <1>4, <2>1 DEF Recover, serverVars
  <2>2. CASE ~ (Accepting /\ ScopeMatches(s.token, t))
    <3>1. Refuse(c) /\ sessions' \subseteq sessions /\ boot[c] = "none"
      BY <1>4, <2>2 DEF Recover
    <3>2. UNCHANGED <<serverVars, clean>>
      BY <1>4 DEF Recover
    <3>3. UNCHANGED active
      BY <1>4 DEF Recover
    <3> QED
      BY <1>2, <3>1, <3>2, <3>3
  <2> QED
    BY <2>1, <2>2
<1>5. ASSUME NEW c \in Connections, Lose(c) \/ Leave(c)
      PROVE  ShutdownLeaves' /\ MembersHeld'
  <2>1. c \in connected /\ CleanUp({c}) /\ UNCHANGED <<server, http, token, id, boot>>
    BY <1>5 DEF Lose, Leave, serverVars, socketVars
  <2>2. server \in {"up", "draining"}
    BY <1>up, <2>1
  <2>3. \A s \in sessions' : s \in sessions \/ s = Saved(c, FALSE)
    BY <1>5 DEF Lose, Leave
  <2>4. \A s \in sessions' : s.handover => s.finished
    BY <1>0, <2>3 DEF ShutdownLeaves, Saved
  <2>5. ShutdownLeaves'
    BY <2>1, <2>2, <2>4 DEF ShutdownLeaves, AfterDrains
  <2>6. MembersHeld'
    BY <1>0, <2>1, CleanUpMembers DEF Real
  <2> QED
    BY <2>5, <2>6
<1>6. ASSUME NEW c \in Connections, Unregistered(c)
      PROVE  ShutdownLeaves' /\ MembersHeld'
  <2>1. ShutdownLeaves'
    BY <1>0, <1>6
    DEF Unregistered, ShutdownLeaves, serverVars, socketVars, bootVars, TypeOK, Cleaning
  <2>2. MembersHeld'
    BY <1>0, <1>6
    DEF Unregistered, MembersHeld, Holds, Real, IsStore, socketVars, bootVars, TypeOK
  <2> QED
    BY <2>1, <2>2
<1>7. ASSUME NEW c \in Connections, Registered(c)
      PROVE  ShutdownLeaves' /\ MembersHeld'
  <2>1. server \in {"up", "draining"}
    BY <1>7, <1>up DEF Registered, Booting
  <2>2. ShutdownLeaves'
    BY <1>0, <1>7, <2>1 DEF Registered, ShutdownLeaves, serverVars, AfterDrains
  <2>3. Real(c)' /\ \A d \in Connections : Real(d)' <=> Real(d)
    BY <1>7 DEF Registered, Goto, Real, TypeOK
  <2>4. CASE c \in connected
    BY <1>0, <1>7, <2>2, <2>3, <2>4, MembersFrame DEF Registered, socketVars
  <2>5. CASE c \notin connected
    <3>1. /\ members' = members \ {id[c]} /\ UNCHANGED <<token, id>>
          /\ \A d \in Connections : d # c => clean'[d] = clean[d]
      BY <1>7, <2>5 DEF Registered, socketVars, TypeOK
    <3>2. ASSUME NEW i \in members' PROVE \E d \in Connections : Holds(d, i)'
      <4>1. PICK d \in Connections : Holds(d, i)
        BY <1>0, <3>1 DEF MembersHeld
      <4>2. d # c
        BY <3>1, <4>1 DEF Holds
      <4> QED
        BY <2>3, <3>1, <4>1, <4>2 DEF Holds, IsStore
    <3> QED
      BY <2>2, <3>2 DEF MembersHeld
  <2> QED
    BY <2>4, <2>5
<1>8. ASSUME NEW c \in Connections,
             \/ LoadLate(c) \/ LoadEarly(c) \/ Identified(c) \/ LoadCustomer(c)
             \/ Failed(c)
      PROVE  ShutdownLeaves' /\ MembersHeld'
  <2>1. server \in {"up", "draining"}
    BY <1>8, <1>up DEF LoadLate, LoadEarly, Identified, LoadCustomer, Failed, Booting
  <2>2. UNCHANGED <<server, sessions, token, id, clean, members>>
    BY <1>8 DEF LoadLate, LoadEarly, Identified, LoadCustomer, Failed, serverVars, socketVars
  <2>3. ShutdownLeaves'
    BY <1>0, <2>1, <2>2 DEF ShutdownLeaves, AfterDrains
  <2>4. \A d \in Connections : Real(d) => Real(d)'
    BY <1>8 DEF LoadLate, LoadEarly, Identified, LoadCustomer, Failed, Finish, Goto, Real,
                TypeOK
  <2> QED
    BY <1>0, <2>2, <2>3, <2>4, MembersFrame
<1>9. ASSUME NEW c \in Connections, Fails(c) PROVE ShutdownLeaves' /\ MembersHeld'
  <2>1. server \in {"up", "draining"}
    BY <1>9, <1>up DEF Fails, Booting
  <2>2. CleanUp({c}) /\ UNCHANGED <<server, sessions, token, id>>
    BY <1>9 DEF Fails, Throw, serverVars, socketVars
  <2>3. ShutdownLeaves'
    BY <1>0, <2>1, <2>2 DEF ShutdownLeaves, AfterDrains
  <2>4. \A d \in Connections : Real(d) => Real(d)'
    BY <1>9 DEF Fails, Throw, Goto, Real, TypeOK
  <2> QED
    BY <1>0, <2>2, <2>3, <2>4, CleanUpMembers
<1>10. ASSUME NEW c \in Connections, Event(c) PROVE ShutdownLeaves' /\ MembersHeld'
  <2>1. server = "up"
    BY <1>10 DEF Event, Accepting
  <2>2. ShutdownLeaves'
    BY <1>0, <1>10, <2>1
    DEF Event, ShutdownLeaves, serverVars, AfterDrains
  <2> QED
    BY <1>0, <1>10, <2>2, MembersFrame DEF Event, Real, socketVars, bootVars
<1>11. ASSUME NEW i \in Ids, EventEnds(i) PROVE ShutdownLeaves' /\ MembersHeld'
  <2>1. server \in {"up", "draining"}
    BY <1>0, <1>11 DEF EventEnds, ShutdownLeaves
  <2>2. ShutdownLeaves'
    BY <1>0, <1>11, <2>1
    DEF EventEnds, ShutdownLeaves, serverVars, AfterDrains
  <2> QED
    BY <1>0, <1>11, <2>2, MembersFrame DEF EventEnds, Real, socketVars, bootVars
<1>12. CASE \/ HttpRequest \/ HttpEnds \/ HttpAborts \/ OrphanEnds \/ Signal
            \/ HttpClosed \/ DrainAgain \/ ClosePresence \/ CloseStores \/ ReportTimeout
  <2>1. ShutdownLeaves'
    <3>1. UNCHANGED <<connected, boot, active, clean, sessions>>
      BY <1>12 DEF HttpRequest, HttpEnds, HttpAborts, OrphanEnds, Signal,
          HttpClosed, DrainAgain, ClosePresence, CloseStores, ReportTimeout, bootVars
    <3>2. CASE HttpRequest
      BY <1>0, <3>1, <3>2 DEF HttpRequest, ShutdownLeaves, AfterDrains
    <3>3. CASE HttpEnds \/ HttpAborts \/ OrphanEnds
      BY <1>0, <3>1, <3>3
      DEF HttpEnds, HttpAborts, OrphanEnds, ShutdownLeaves, AfterDrains, TypeOK
    <3>4. CASE Signal
      BY <1>0, <3>1, <3>4 DEF Signal, Advance, ShutdownLeaves, AfterDrains
    <3>5. CASE HttpClosed
      BY <1>0, <3>1, <3>5 DEF HttpClosed, Advance, ShutdownLeaves, AfterDrains
    <3>6. CASE DrainAgain
      BY <1>0, <3>1, <3>6 DEF DrainAgain, Advance, Drained, ShutdownLeaves, AfterDrains
    <3>7. CASE ClosePresence \/ CloseStores
      BY <1>0, <3>1, <3>7 DEF ClosePresence, CloseStores, Advance, ShutdownLeaves, AfterDrains
    <3>8. CASE ReportTimeout
      BY <1>0, <3>1, <3>8 DEF ReportTimeout, ShutdownLeaves, AfterDrains
    <3> QED
      BY <1>12, <3>2, <3>3, <3>4, <3>5, <3>6, <3>7, <3>8
  <2>2. UNCHANGED <<token, id, boot, clean>> /\ members' \subseteq members
    BY <1>12 DEF HttpRequest, HttpEnds, HttpAborts, OrphanEnds, Signal,
        HttpClosed, DrainAgain, ClosePresence, CloseStores, ReportTimeout, socketVars, bootVars
  <2> QED
    BY <1>0, <2>1, <2>2, MembersFrame DEF Real
<1>13. CASE CloseSockets
  <2>1. server' = "closing_http" /\ UNCHANGED <<boot, active, token, id>>
    BY <1>13 DEF CloseSockets, Advance, socketVars
  <2>2. connected' = {}
    BY <1>13 DEF CloseSockets, Depart
  <2>3. ASSUME NEW c \in connected PROVE ready[c] /\ c \in Connections
    <3>1. c \in Connections /\ boot[c] \notin Booting
      BY <1>13 DEF CloseSockets, Drained, TypeOK
    <3>2. boot[c] = "done"
      BY <1>life, <3>1 DEF LifeOf, Real, TypeOK
    <3> QED
      BY <1>life, <3>1, <3>2 DEF LifeOf
  <2>4. \A s \in sessions' : s.handover => s.finished
    <3>1. \A s \in sessions' : s \in sessions \/ \E c \in connected : s = Saved(c, TRUE)
      BY <1>13 DEF CloseSockets
    <3> QED
      BY <1>0, <2>3, <3>1 DEF ShutdownLeaves, Saved
  <2>5. ShutdownLeaves'
    BY <1>13, <2>1, <2>2, <2>4 DEF CloseSockets, Drained, ShutdownLeaves, AfterDrains
  <2>6. MembersHeld'
    BY <1>0, <1>13, <2>1, CleanUpMembers DEF CloseSockets, Real, TypeOK
  <2> QED
    BY <2>5, <2>6
<1> QED
  BY <1>3, <1>4, <1>5, <1>6, <1>7, <1>8, <1>9, <1>10, <1>11, <1>12, <1>13
  DEF Next, Clients, Work, Closing
-----------------------------------------------------------------------------
(* Socket ids *)

\* A step in which no socket begins and no session is saved.
LEMMA IdFrame ==
  ASSUME IdInv, sessions' \subseteq sessions, connected' \subseteq connected,
         UNCHANGED <<id, whole>>,
         \A c \in Connections :
           (Real(c)' <=> Real(c)) /\ (Released(c) => Released(c)')
  PROVE  IdInv'
<1>1. \A c, d \in Connections :
        c \in connected' /\ Real(d)' /\ c # d /\ id'[c] = id'[d] =>
          d \notin connected' /\ (whole'[c] => Released(d)')
  BY DEF IdInv
<1>2. \A s \in sessions', d \in Connections :
        Real(d)' /\ id'[d] = s.id => d \notin connected' /\ (s.whole => Released(d)')
  BY DEF IdInv
<1>3. \A s, q \in sessions' : s.id = q.id => s = q
  BY DEF IdInv
<1>4. \A c, d \in Connections : Real(c)' /\ id'[c] = d => Real(d)'
  BY DEF IdInv
<1>5. \A s \in sessions', d \in Connections : s.id = d => Real(d)'
  BY DEF IdInv
<1> QED
  BY <1>1, <1>2, <1>3, <1>4, <1>5 DEF IdInv

\* A socket begins in a session that is no longer saved, whose sockets, if it
\* had any, are gone.
LEMMA IdStart ==
  ASSUME TypeOK, LifeInv, IdInv, NEW c \in Connections, NEW t \in Tokens, NEW s,
         NEW again, boot[c] = "none", Start(c, t, s, again), UNCHANGED clean,
         sessions' \subseteq sessions,
         \A q \in sessions' : q.id # s.id,
         \A d \in Connections :
           Real(d) /\ id[d] = s.id => d \notin connected /\ (s.whole => Released(d)),
         \A d \in Connections : s.id = d => Real(d) \/ d = c
  PROVE  IdInv'
<1>1. /\ id' = [id EXCEPT ![c] = s.id] /\ whole' = [whole EXCEPT ![c] = s.whole]
      /\ connected' = connected \cup {c}
  BY DEF Start
<1>2. \A d \in Connections : Real(d)' <=> Real(d) \/ d = c
  BY DEF Start, Real, TypeOK
<1>3. \A d \in Connections : Released(d)' <=> Released(d)
  BY DEF Released
<1>4. ~ Real(c)
  BY DEF Real
<1>5. \A d \in Connections :
        /\ id'[d] = IF d = c THEN s.id ELSE id[d]
        /\ whole'[d] = IF d = c THEN s.whole ELSE whole[d]
        /\ d \in connected' <=> d \in connected \/ d = c
        /\ d \in connected => Real(d)
  BY <1>1 DEF TypeOK, LifeInv, LifeOf
<1>6. ASSUME NEW e \in Connections, NEW d \in Connections,
             e \in connected', Real(d)', e # d, id'[e] = id'[d]
      PROVE  d \notin connected' /\ (whole'[e] => Released(d)')
  <2>1. CASE e = c
    BY <1>2, <1>3, <1>5, <1>6, <2>1
  <2>2. CASE d = c
    BY <1>2, <1>3, <1>5, <1>6, <2>2
  <2>3. CASE e # c /\ d # c
    BY <1>2, <1>3, <1>5, <1>6, <2>3 DEF IdInv
  <2> QED
    BY <2>1, <2>2, <2>3
<1>7. \A q \in sessions', d \in Connections :
        Real(d)' /\ id'[d] = q.id => d \notin connected' /\ (q.whole => Released(d)')
  BY <1>2, <1>3, <1>5 DEF IdInv
<1>8. \A p, q \in sessions' : p.id = q.id => p = q
  BY DEF IdInv
<1>9. \A e, d \in Connections : Real(e)' /\ id'[e] = d => Real(d)'
  BY <1>2, <1>5 DEF IdInv
<1>10. \A q \in sessions', d \in Connections : q.id = d => Real(d)'
  BY <1>2 DEF IdInv
<1> QED
  BY <1>6, <1>7, <1>8, <1>9, <1>10 DEF IdInv

\* A socket of a finished bootstrap unregisters its id as it leaves.
LEMMA LeavesReleased ==
  ASSUME TypeOK, LifeInv, NEW cs \in SUBSET connected, CleanUp(cs), NEW c \in cs,
         ready[c]
  PROVE  Released(c)'
<1>1. c \in Connections /\ LifeOf(c) /\ boot[c] = "done" /\ clean[c] = "none"
  BY DEF TypeOK, LifeInv, LifeOf
<1>2. Cleanup(c) \in {"done", "unregistering"}
  BY <1>1 DEF Cleanup
<1> QED
  BY <1>1, <1>2 DEF CleanUp, Released

\* What is released stays so when other cleanups start.
LEMMA StaysReleased ==
  ASSUME NEW cs, CleanUp(cs), NEW d \in Connections, Released(d)
  PROVE  Released(d)'
BY DEF CleanUp, Cleanup, Released

\* Sockets leave, and their sessions are kept.
LEMMA IdSave ==
  ASSUME TypeOK, LifeInv, IdInv, NEW cs \in SUBSET connected, NEW h,
         Depart(cs), CleanUp(cs), UNCHANGED <<id, whole, boot, ready>>,
         sessions' = sessions \cup {Saved(c, h) : c \in cs}
  PROVE  IdInv'
<1>1. \A d \in Connections : Real(d)' <=> Real(d)
  BY DEF Real
<1>2. \A d \in Connections : Released(d) => Released(d)'
  BY StaysReleased
<1>3. \A c \in connected : c \in Connections /\ Real(c)
  BY DEF TypeOK, LifeInv, LifeOf
<1>4. connected' = connected \ cs
  BY DEF Depart
<1>5. ASSUME NEW s \in sessions', s \notin sessions
      PROVE  \E c \in cs : /\ s.id = id[c] /\ (s.whole => ready[c] /\ whole[c])
                           /\ s = Saved(c, h)
  <2>1. PICK c \in cs : s = Saved(c, h)
    BY <1>5
  <2>2. Saved(c, h).id = id[c] /\ (Saved(c, h).whole <=> ready[c] /\ whole[c])
    BY DEF Saved
  <2> QED
    BY <2>1, <2>2
<1>6. ASSUME NEW c \in Connections, NEW d \in Connections,
             c \in connected', Real(d)', c # d, id'[c] = id'[d]
      PROVE  d \notin connected' /\ (whole'[c] => Released(d)')
  BY <1>1, <1>2, <1>4, <1>6 DEF IdInv
<1>7. ASSUME NEW s \in sessions', NEW d \in Connections, Real(d)', id'[d] = s.id
      PROVE  d \notin connected' /\ (s.whole => Released(d)')
  <2>1. CASE s \in sessions
    BY <1>1, <1>2, <1>4, <1>7, <2>1 DEF IdInv
  <2>2. CASE s \notin sessions
    <3>1. PICK c \in cs : s.id = id[c] /\ (s.whole => ready[c] /\ whole[c])
      BY <1>5, <2>2
    <3>2. CASE d = c
      <4>1. ready[c] => Released(c)'
        BY <3>1, LeavesReleased
      <4> QED
        BY <1>4, <3>1, <3>2, <4>1
    <3>3. CASE d # c
      <4>1. d \notin connected /\ (whole[c] => Released(d))
        BY <1>1, <1>3, <1>7, <3>1, <3>3 DEF IdInv
      <4> QED
        BY <1>2, <1>4, <3>1, <4>1
    <3> QED
      BY <3>2, <3>3
  <2> QED
    BY <2>1, <2>2
\* An old session and a connected socket have different ids.
<1>8. ASSUME NEW s \in sessions, NEW c \in cs PROVE s.id # id[c]
  BY <1>3, <1>8 DEF IdInv
<1>9. ASSUME NEW s \in sessions', NEW q \in sessions', s.id = q.id PROVE s = q
  <2>1. CASE s \in sessions /\ q \in sessions
    BY <1>9, <2>1 DEF IdInv
  <2>2. CASE s \in sessions /\ q \notin sessions
    BY <1>5, <1>8, <1>9, <2>2
  <2>3. CASE s \notin sessions /\ q \in sessions
    BY <1>5, <1>8, <1>9, <2>3
  <2>4. CASE s \notin sessions /\ q \notin sessions
    <3>1. PICK c \in cs : s.id = id[c] /\ s = Saved(c, h)
      BY <1>5, <2>4
    <3>2. PICK e \in cs : q.id = id[e] /\ q = Saved(e, h)
      BY <1>5, <2>4
    <3>3. c = e
      BY <1>3, <1>9, <3>1, <3>2 DEF IdInv
    <3> QED
      BY <3>1, <3>2, <3>3
  <2> QED
    BY <2>1, <2>2, <2>3, <2>4
<1>10. \A c, d \in Connections : Real(c)' /\ id'[c] = d => Real(d)'
  BY <1>1 DEF IdInv
<1>11. ASSUME NEW s \in sessions', NEW d \in Connections, s.id = d PROVE Real(d)'
  <2>1. CASE s \in sessions
    BY <1>1, <1>11, <2>1 DEF IdInv
  <2>2. CASE s \notin sessions
    <3>1. PICK c \in cs : s.id = id[c]
      BY <1>5, <2>2
    <3> QED
      BY <1>1, <1>3, <1>11, <3>1 DEF IdInv
  <2> QED
    BY <2>1, <2>2
<1> QED
  BY <1>6, <1>7, <1>9, <1>10, <1>11 DEF IdInv

LEMMA IdInit == Init => IdInv
<1> SUFFICES ASSUME Init PROVE IdInv
  OBVIOUS
<1>1. \A c \in Connections : ~ Real(c) /\ c \notin connected
  BY DEF Init, Real
<1>2. sessions = OldSessions
  BY DEF Init
<1>3. \A s \in sessions, d \in Connections : s.id # d
  BY <1>2, SocketServerAssumption DEF SocketServerAssumption, OldIds
<1>4. \A s, q \in sessions : s.id = q.id => s = q
  BY <1>2, SocketServerAssumption DEF SocketServerAssumption
<1> QED
  BY <1>1, <1>3, <1>4 DEF IdInv

LEMMA IdStep ==
  ASSUME TypeOK, LifeInv, IdInv, Next
  PROVE  IdInv'
<1>1. ASSUME NEW c \in Connections, boot[c] = "none", Refuse(c), UNCHANGED clean,
             sessions' \subseteq sessions
      PROVE  IdInv'
  <2>1. UNCHANGED <<connected, id, whole>>
    BY <1>1 DEF Refuse, socketVars
  <2>2. \A d \in Connections : (Real(d)' <=> Real(d)) /\ (Released(d) => Released(d)')
    BY <1>1 DEF Refuse, Real, Released, TypeOK
  <2> QED
    BY <1>1, <2>1, <2>2, IdFrame
<1>2. ASSUME NEW c \in Connections, NEW t \in Tokens, Connect(c, t) PROVE IdInv'
  <2>1. CASE ~ Accepting
    BY <1>1, <1>2, <2>1 DEF Connect
  <2>2. CASE Accepting
    <3>1. /\ boot[c] = "none" /\ Start(c, t, NewSession(c, t), FALSE)
          /\ UNCHANGED <<clean, sessions>>
      BY <1>2, <2>2 DEF Connect
    <3>2. NewSession(c, t).id = c
      BY DEF NewSession
    <3>3. ~ Real(c)
      BY <3>1 DEF Real
    <3>4. \A q \in sessions' : q.id # NewSession(c, t).id
      BY <3>1, <3>2, <3>3 DEF IdInv
    <3>5. \A d \in Connections : Real(d) => id[d] # NewSession(c, t).id
      BY <3>2, <3>3 DEF IdInv
    <3> QED
      BY <3>1, <3>2, <3>4, <3>5, IdStart
  <2> QED
    BY <2>1, <2>2
<1>3. ASSUME NEW c \in Connections, NEW t \in Tokens, NEW s \in sessions,
             Recover(c, t, s)
      PROVE  IdInv'
  <2>1. /\ boot[c] = "none" /\ UNCHANGED clean /\ sessions' = sessions \ {s}
    BY <1>3 DEF Recover
  <2>2. CASE ~ (Accepting /\ ScopeMatches(s.token, t))
    BY <1>1, <1>3, <2>1, <2>2 DEF Recover
  <2>3. CASE Accepting /\ ScopeMatches(s.token, t)
    <3>1. Start(c, t, s, TRUE)
      BY <1>3, <2>3 DEF Recover
    <3>2. \A q \in sessions' : q.id # s.id
      BY <2>1 DEF IdInv
    <3>3. \A d \in Connections :
            Real(d) /\ id[d] = s.id => d \notin connected /\ (s.whole => Released(d))
      BY DEF IdInv
    <3>4. \A d \in Connections : s.id = d => Real(d)
      BY DEF IdInv
    <3> QED
      BY <2>1, <3>1, <3>2, <3>3, <3>4, IdStart
  <2> QED
    BY <2>2, <2>3
<1>4. ASSUME NEW c \in Connections, Lose(c) PROVE IdInv'
  <2>1. {c} \in SUBSET connected
    BY <1>4 DEF Lose
  <2>2. sessions' = sessions \cup {Saved(d, FALSE) : d \in {c}}
    BY <1>4 DEF Lose
  <2> QED
    BY <1>4, <2>1, <2>2, IdSave DEF Lose, socketVars
<1>5. ASSUME NEW c \in Connections, Leave(c) PROVE IdInv'
  <2>1. /\ connected' \subseteq connected /\ sessions' = sessions
        /\ UNCHANGED <<id, whole, boot>> /\ CleanUp({c})
    BY <1>5 DEF Leave, Depart, socketVars
  <2> QED
    BY <2>1, StaysReleased, IdFrame DEF Real
<1>6. CASE CloseSockets
  <2>1. connected \in SUBSET connected
    OBVIOUS
  <2> QED
    BY <1>6, <2>1, IdSave DEF CloseSockets, socketVars
<1>7. ASSUME NEW c \in Connections, Work(c) PROVE IdInv'
  <2>1. sessions' = sessions /\ UNCHANGED <<id, whole>>
    BY <1>7 DEF Work, Registered, LoadLate, LoadEarly, Identified, LoadCustomer, Fails,
                Failed, Unregistered, socketVars
  <2>2. connected' \subseteq connected
    BY <1>7 DEF Work, Registered, LoadLate, LoadEarly, Identified, LoadCustomer, Fails,
                Failed, Unregistered, Throw, Depart, bootVars
  <2>3. \A d \in Connections : Real(d)' <=> Real(d)
    BY <1>7 DEF Work, Registered, LoadLate, LoadEarly, Identified, LoadCustomer, Fails,
                Failed, Unregistered, Throw, Finish, Goto, bootVars, Real, TypeOK
  <2>4. ASSUME NEW d \in Connections, Released(d) PROVE Released(d)'
    <3>1. CASE Fails(c)
      BY <2>4, <3>1, StaysReleased DEF Fails, Throw
    <3>2. CASE Registered(c) \/ Unregistered(c)
      BY <2>4, <3>2 DEF Registered, Unregistered, Released, TypeOK
    <3>3. CASE LoadLate(c) \/ LoadEarly(c) \/ Identified(c) \/ LoadCustomer(c) \/ Failed(c)
      BY <2>4, <3>3 DEF LoadLate, LoadEarly, Identified, LoadCustomer, Failed, Released
    <3> QED
      BY <1>7, <3>1, <3>2, <3>3 DEF Work
  <2> QED
    BY <2>1, <2>2, <2>3, <2>4, IdFrame
<1>8. ASSUME UNCHANGED <<sessions, id, whole, boot, connected, clean>> PROVE IdInv'
  BY <1>8, IdFrame DEF Real, Released
<1>9. CASE \/ \E c \in Connections : Event(c)
           \/ \E i \in Ids : EventEnds(i)
           \/ HttpRequest \/ HttpEnds \/ HttpAborts \/ OrphanEnds \/ Signal
           \/ HttpClosed \/ DrainAgain \/ ClosePresence \/ CloseStores \/ ReportTimeout
  BY <1>8, <1>9
  DEF Event, EventEnds, HttpRequest, HttpEnds, HttpAborts, OrphanEnds, Signal,
      HttpClosed, DrainAgain, ClosePresence, CloseStores, ReportTimeout, socketVars, bootVars
<1> QED
  BY <1>2, <1>3, <1>4, <1>5, <1>6, <1>7, <1>9 DEF Next, Clients, Closing
-----------------------------------------------------------------------------
(* Rooms, snapshots and members *)

\* A socket of which nothing changes, and whose id is not unregistered.
LEMMA CompleteFrame ==
  ASSUME NEW d \in Connections, SocketComplete(d),
         token'[d] = token[d], id'[d] = id[d], recovered'[d] = recovered[d],
         whole'[d] = whole[d], boot'[d] = boot[d], rooms'[d] = rooms[d],
         seen'[d] = seen[d], clean'[d] = clean[d],
         whole[d] /\ id[d] \in members => id[d] \in members'
  PROVE  SocketComplete(d)'
BY DEF SocketComplete, RoomsAre, IsStore

\* The cleanups of other sockets leave the id of a connected one alone, unless a
\* bootstrap of its session was left unfinished.
LEMMA OthersKeepMembers ==
  ASSUME IdInv, LifeInv, NEW cs \in SUBSET Connections, CleanUp(cs),
         \A c \in cs : Real(c),
         NEW d \in connected, d \in Connections, d \notin cs, whole[d],
         id[d] \in members
  PROVE  id[d] \in members'
<1> SUFFICES ASSUME NEW c \in cs, clean[c] = "none", id[c] = id[d] PROVE FALSE
  BY DEF CleanUp
<1>1. Released(c)
  BY DEF IdInv
<1> QED
  BY <1>1 DEF Released

\* The session of a connected socket.
LEMMA SavedComplete ==
  ASSUME TypeOK, LifeInv, NEW c \in connected, SocketComplete(c), NEW h
  PROVE  SessionComplete(Saved(c, h))
<1> DEFINE s == Saved(c, h)
<1>1. c \in Connections /\ LifeOf(c) /\ token[c] \in Tokens
  BY DEF TypeOK, LifeInv, LifeOf
<1>2. /\ s.token = token[c] /\ s.rooms = rooms[c] /\ s.seen = seen[c]
      /\ s.whole <=> ready[c] /\ whole[c]
  BY DEF Saved
<1>3. s.whole => rooms[c] = RoomsAre(c) /\ seen[c] = RoomsAre(c)
  BY <1>1, <1>2 DEF LifeOf, SocketComplete
<1>4. RoomsOf(token[c], Early) \subseteq RoomsAre(c)
  BY RoomsOfParts DEF RoomsAre
<1> QED
  BY <1>1, <1>2, <1>3, <1>4 DEF SocketComplete, SessionComplete, RoomsAre

LEMMA CompleteInit == Init => CompleteInv
<1> SUFFICES ASSUME Init PROVE CompleteInv
  OBVIOUS
<1>1. connected = {} /\ sessions = OldSessions
  BY DEF Init
<1>2. ASSUME NEW s \in OldSessions PROVE SessionComplete(s)
  <2>1. /\ s.token \in Tokens /\ s.rooms = RoomsOf(s.token, Early)
        /\ s.seen = RoomsOf(s.token, Early)
    BY SocketServerAssumption DEF SocketServerAssumption
  <2> QED
    BY <2>1, RoomsOfParts DEF SessionComplete
<1> QED
  BY <1>1, <1>2 DEF CompleteInv

\* A socket begins in a session of which the parts are known.
LEMMA CompleteStart ==
  ASSUME TypeOK, LifeInv, CompleteInv, NEW c \in Connections, NEW t \in Tokens,
         NEW s, NEW again \in BOOLEAN, boot[c] = "none", Start(c, t, s, again),
         UNCHANGED clean, sessions' \subseteq sessions,
         again => SessionComplete(s) /\ s.token = t,
         ~ again => s.rooms = {} /\ s.seen = {}
  PROVE  CompleteInv'
<1>1. ASSUME NEW d \in connected', d # c PROVE SocketComplete(d)'
  <2>1. d \in connected /\ d \in Connections /\ SocketComplete(d)
    BY <1>1 DEF Start, TypeOK, CompleteInv
  <2> QED
    BY <1>1, <2>1, CompleteFrame DEF Start, TypeOK
<1>2. /\ token'[c] = t /\ id'[c] = s.id /\ recovered'[c] = again
      /\ whole'[c] = s.whole /\ seen'[c] = s.seen
  BY DEF Start, TypeOK
<1>3. SocketComplete(c)'
  <2>1. RoomsOf(t, Areas) = RoomsOf(t, Early) \cup RoomsOf(t, Late)
    BY RoomsOfParts
  <2>2. s.seen \subseteq RoomsOf(t, Areas)
    BY DEF SessionComplete
  <2>3. again /\ s.whole => RoomsOf(t, Early) \subseteq s.rooms \cap s.seen
    BY DEF SessionComplete
  <2>4. s.rooms \subseteq RoomsOf(t, Areas)
    BY DEF SessionComplete
  <2>5. CASE t.who \in StoreUsers
    <3>1. /\ boot'[c] = "registering" /\ rooms'[c] = Joined(s, t, again)
          /\ s.id \in members'
      BY <2>5 DEF Start, TypeOK
    <3>2. Joined(s, t, again) \subseteq RoomsOf(t, Areas)
      BY <2>1, <2>4 DEF Joined
    <3>3. s.whole \/ ~ again => Joined(s, t, again) = RoomsOf(t, Areas)
      BY <2>1, <2>3, <2>4 DEF Joined
    <3>4. again /\ s.whole => RoomsOf(t, Early) \subseteq Joined(s, t, again) \cap s.seen
      BY <2>3 DEF Joined
    <3> QED
      BY <1>2, <2>2, <3>1, <3>2, <3>3, <3>4 DEF SocketComplete, RoomsAre
  <2>6. CASE t.who \notin StoreUsers
    <3>1. boot'[c] = "identity" /\ rooms'[c] = s.rooms
      BY <2>6 DEF Start, TypeOK
    <3>2. ~ IsStore(c)'
      BY <1>2, <2>6 DEF IsStore
    <3> QED
      BY <1>2, <2>2, <2>3, <2>4, <3>1, <3>2 DEF SocketComplete, RoomsAre
  <2> QED
    BY <2>5, <2>6
<1>4. \A q \in sessions' : SessionComplete(q)'
  BY DEF CompleteInv, SessionComplete
<1> QED
  BY <1>1, <1>3, <1>4 DEF CompleteInv

\* Sockets leave: what is left is complete, and so are the sessions kept.
LEMMA CompleteDepart ==
  ASSUME TypeOK, LifeInv, IdInv, CompleteInv, NEW cs \in SUBSET connected,
         Depart(cs), CleanUp(cs), UNCHANGED <<socketVars, boot, seen>>,
         NEW h,
         sessions' \subseteq sessions \cup {Saved(c, h) : c \in cs}
  PROVE  CompleteInv'
<1>1. ASSUME NEW d \in connected' PROVE SocketComplete(d)'
  <2>1. d \in connected /\ d \in Connections /\ d \notin cs /\ SocketComplete(d)
    BY DEF Depart, TypeOK, CompleteInv
  <2>2. \A c \in cs : c \in Connections /\ Real(c)
    BY DEF TypeOK, LifeInv, LifeOf
  <2>3. whole[d] /\ id[d] \in members => id[d] \in members'
    BY <2>1, <2>2, OthersKeepMembers
  <2> QED
    BY <2>1, <2>3, CompleteFrame DEF Depart, CleanUp, socketVars
<1>2. ASSUME NEW s \in sessions' PROVE SessionComplete(s)
  <2>1. CASE s \in sessions
    BY <2>1 DEF CompleteInv
  <2>2. CASE s \notin sessions
    <3>1. PICK c \in cs : s = Saved(c, h)
      BY <2>2
    <3>2. SocketComplete(c)
      BY DEF CompleteInv
    <3> QED
      BY <3>1, <3>2, SavedComplete
  <2> QED
    BY <2>1, <2>2
<1> QED
  BY <1>1, <1>2 DEF CompleteInv, SessionComplete
LEMMA CompleteStep ==
  ASSUME TypeOK, LifeInv, ServerInv, IdInv, CompleteInv, Next
  PROVE  CompleteInv'
<1>0. ASSUME NEW c \in connected
      PROVE  c \in Connections /\ SocketComplete(c) /\ LifeOf(c)
  BY DEF TypeOK, LifeInv, CompleteInv
<1>1. ASSUME NEW d \in connected PROVE id[d] \in Ids
  BY <1>0 DEF TypeOK
\* The sessions of a step that keeps none.
<1>2. ASSUME sessions' \subseteq sessions PROVE \A s \in sessions' : SessionComplete(s)'
  BY <1>2 DEF CompleteInv, SessionComplete
<1>3. ASSUME NEW c \in Connections, boot[c] = "none", Refuse(c), UNCHANGED clean,
             sessions' \subseteq sessions
      PROVE  CompleteInv'
  <2>1. ASSUME NEW d \in connected' PROVE SocketComplete(d)'
    <3>1. d \in connected /\ d # c
      BY <1>0, <1>3 DEF Refuse, LifeOf, Real
    <3> QED
      BY <1>0, <1>3, <3>1, CompleteFrame DEF Refuse, socketVars, TypeOK
  <2> QED
    BY <1>2, <1>3, <2>1 DEF CompleteInv
<1>4. ASSUME NEW c \in Connections, NEW t \in Tokens, Connect(c, t) PROVE CompleteInv'
  <2>1. CASE ~ Accepting
    BY <1>3, <1>4, <2>1 DEF Connect
  <2>2. CASE Accepting
    <3>1. /\ boot[c] = "none" /\ Start(c, t, NewSession(c, t), FALSE)
          /\ UNCHANGED <<clean, sessions>>
      BY <1>4, <2>2 DEF Connect
    <3>2. NewSession(c, t).rooms = {} /\ NewSession(c, t).seen = {}
      BY DEF NewSession
    <3> QED
      BY <3>1, <3>2, CompleteStart
  <2> QED
    BY <2>1, <2>2
<1>5. ASSUME NEW c \in Connections, NEW t \in Tokens, NEW s \in sessions,
             Recover(c, t, s)
      PROVE  CompleteInv'
  <2>1. boot[c] = "none" /\ UNCHANGED clean /\ sessions' \subseteq sessions
    BY <1>5 DEF Recover
  <2>2. CASE ~ (Accepting /\ ScopeMatches(s.token, t))
    BY <1>3, <1>5, <2>1, <2>2 DEF Recover
  <2>3. CASE Accepting /\ ScopeMatches(s.token, t)
    <3>1. Start(c, t, s, TRUE) /\ s.token = t
      BY <1>5, <2>3 DEF Recover, ScopeMatches
    <3>2. SessionComplete(s)
      BY DEF CompleteInv
    <3> QED
      BY <2>1, <3>1, <3>2, CompleteStart
  <2> QED
    BY <2>2, <2>3
<1>6. ASSUME NEW c \in Connections, Lose(c) PROVE CompleteInv'
  <2>1. {c} \in SUBSET connected
    BY <1>6 DEF Lose
  <2>2. sessions' \subseteq sessions \cup {Saved(d, FALSE) : d \in {c}}
    BY <1>6 DEF Lose
  <2> QED
    BY <1>6, <2>1, <2>2, CompleteDepart DEF Lose
<1>7. ASSUME NEW c \in Connections, Leave(c) PROVE CompleteInv'
  <2>1. {c} \in SUBSET connected
    BY <1>7 DEF Leave
  <2>2. sessions' \subseteq sessions \cup {Saved(d, FALSE) : d \in {c}}
    BY <1>7 DEF Leave
  <2> QED
    BY <1>7, <2>1, <2>2, CompleteDepart DEF Leave
<1>8. CASE CloseSockets
  <2>1. connected \in SUBSET connected
    OBVIOUS
  <2> QED
    BY <1>8, <2>1, CompleteDepart DEF CloseSockets
<1>9. ASSUME NEW c \in Connections, Unregistered(c) PROVE CompleteInv'
  <2>1. ASSUME NEW d \in connected' PROVE SocketComplete(d)'
    <3>1. d \in connected /\ d \in Connections
      BY <1>0, <1>9 DEF Unregistered, bootVars
    <3>2. clean'[d] # "none" \/ clean'[d] = clean[d]
      BY <1>9, <3>1 DEF Unregistered, TypeOK
    <3> QED
      BY <1>0, <1>9, <3>1, <3>2
      DEF Unregistered, socketVars, bootVars, SocketComplete, RoomsAre, IsStore
  <2> QED
    BY <1>2, <1>9, <2>1 DEF CompleteInv, Unregistered
<1>10. ASSUME NEW c \in Connections, Registered(c) PROVE CompleteInv'
  <2>0. /\ connected' = connected /\ sessions' = sessions
        /\ UNCHANGED <<token, id, recovered, whole, rooms, seen>>
    BY <1>10 DEF Registered, socketVars
  <2>1. ASSUME NEW d \in connected, d # c PROVE SocketComplete(d)'
    <3>1. d \in Connections /\ boot'[d] = boot[d] /\ clean'[d] = clean[d]
      BY <1>0, <1>10, <2>1 DEF Registered, Goto, TypeOK
    <3>2. ASSUME whole[d], id[d] \in members PROVE id[d] \in members'
      <4>1. CASE c \in connected
        BY <1>10, <3>2, <4>1 DEF Registered
      <4>2. CASE c \notin connected
        <5>1. LifeOf(c) /\ clean[c] = "waiting" /\ Real(c)
          BY <1>10, <4>2 DEF LifeInv, LifeOf, Registered, Real
        <5>2. id[c] # id[d]
          BY <2>1, <3>1, <3>2, <5>1 DEF IdInv, Released
        <5> QED
          BY <1>10, <3>2, <4>2, <5>2 DEF Registered
      <4> QED
        BY <4>1, <4>2
    <3> QED
      BY <1>0, <2>0, <2>1, <3>1, <3>2, CompleteFrame
  <2>2. ASSUME c \in connected PROVE SocketComplete(c)'
    <3>1. boot[c] = "registering" /\ boot'[c] = "late" /\ UNCHANGED <<clean, members>>
      BY <1>10, <2>2 DEF Registered, Goto, TypeOK
    <3> QED
      BY <1>0, <2>0, <2>2, <3>1 DEF SocketComplete, RoomsAre, IsStore
  <2> QED
    BY <1>2, <2>0, <2>1, <2>2 DEF CompleteInv
\* Nothing changes for the sockets other than c, which may leave or go on.
<1>11. ASSUME NEW c \in Connections, sessions' = sessions,
              connected' \subseteq connected, UNCHANGED <<socketVars, members, clean>>,
              \A d \in Connections : d # c =>
                /\ boot'[d] = boot[d] /\ rooms'[d] = rooms[d] /\ seen'[d] = seen[d],
              c \in connected' => SocketComplete(c)'
       PROVE  CompleteInv'
  <2>1. ASSUME NEW d \in connected', d # c PROVE SocketComplete(d)'
    BY <1>0, <1>11, <2>1, CompleteFrame DEF socketVars
  <2> QED
    BY <1>2, <1>11, <2>1 DEF CompleteInv
<1>12. ASSUME NEW c \in Connections, LoadLate(c) PROVE CompleteInv'
  <2>1. /\ c \in connected /\ SocketComplete(c) /\ boot[c] = "late"
        /\ seen'[c] = seen[c] \cup RoomsOf(token[c], Late)
        /\ boot'[c] = IF recovered[c] THEN "done" ELSE "early"
        /\ UNCHANGED <<token, id, recovered, whole, rooms, clean, members>>
    BY <1>0, <1>12 DEF LoadLate, Shows, Finish, Goto, TypeOK, socketVars
  <2>2. RoomsAre(c) = RoomsOf(token[c], Early) \cup RoomsOf(token[c], Late)
    BY RoomsOfParts DEF RoomsAre
  <2>3. RoomsAre(c)' = RoomsAre(c) /\ (IsStore(c)' <=> IsStore(c))
    BY <2>1 DEF RoomsAre, IsStore
  <2>4. recovered[c] /\ whole[c] => seen'[c] = RoomsAre(c)
    BY <2>1, <2>2 DEF SocketComplete
  <2>5. seen'[c] \subseteq RoomsAre(c)
    BY <2>1, <2>2 DEF SocketComplete
  <2>6. SocketComplete(c)'
    BY <2>1, <2>3, <2>4, <2>5 DEF SocketComplete
  <2> QED
    BY <1>11, <1>12, <2>6 DEF LoadLate, Shows, Finish, Goto, TypeOK
<1>13. ASSUME NEW c \in Connections, LoadEarly(c) PROVE CompleteInv'
  <2>1. /\ c \in connected /\ SocketComplete(c) /\ boot[c] = "early"
        /\ seen'[c] = seen[c] \cup RoomsOf(token[c], Early)
        /\ boot'[c] = "done"
        /\ UNCHANGED <<token, id, recovered, whole, rooms, clean, members>>
    BY <1>0, <1>13 DEF LoadEarly, Shows, Finish, Goto, TypeOK, socketVars
  <2>2. RoomsAre(c) = RoomsOf(token[c], Early) \cup RoomsOf(token[c], Late)
    BY RoomsOfParts DEF RoomsAre
  <2>3. RoomsAre(c)' = RoomsAre(c) /\ (IsStore(c)' <=> IsStore(c))
    BY <2>1 DEF RoomsAre, IsStore
  <2>4. whole[c] => seen'[c] = RoomsAre(c)
    BY <2>1, <2>2 DEF SocketComplete
  <2>5. seen'[c] \subseteq RoomsAre(c)
    BY <2>1, <2>2 DEF SocketComplete
  <2>6. SocketComplete(c)'
    BY <2>1, <2>3, <2>4, <2>5 DEF SocketComplete
  <2> QED
    BY <1>11, <1>13, <2>6 DEF LoadEarly, Shows, Finish, Goto, TypeOK
\* A customer has no late rooms.
<1>14. ASSUME NEW c \in connected, ~ IsStore(c)
       PROVE  RoomsAre(c) = RoomsOf(token[c], Early)
  <2>1. token[c] \in Tokens
    BY <1>0, <1>14 DEF LifeOf
  <2> QED
    BY <1>14, <2>1, CustomerRooms DEF RoomsAre, IsStore
<1>15. ASSUME NEW c \in Connections, Identified(c) PROVE CompleteInv'
  <2>1. /\ c \in connected /\ SocketComplete(c) /\ boot[c] = "identity"
        /\ rooms'[c] = IF recovered[c] THEN rooms[c] ELSE RoomsAre(c)
        /\ boot'[c] = "customer"
        /\ UNCHANGED <<token, id, recovered, whole, seen, clean, members>>
    BY <1>0, <1>15 DEF Identified, Goto, TypeOK, socketVars, RoomsAre
  <2>2. ~ IsStore(c)
    BY <1>0, <2>1 DEF LifeOf
  <2>3. RoomsAre(c) = RoomsOf(token[c], Early)
    BY <1>14, <2>1, <2>2
  <2>4. RoomsAre(c)' = RoomsAre(c) /\ (IsStore(c)' <=> IsStore(c))
    BY <2>1 DEF RoomsAre, IsStore
  <2>5. whole[c] => rooms'[c] = RoomsAre(c)
    <3>1. rooms[c] \subseteq RoomsAre(c)
      BY <2>1 DEF SocketComplete
    <3>2. CASE recovered[c]
      <4>1. whole[c] => RoomsOf(token[c], Early) \subseteq rooms[c]
        BY <2>1, <3>2 DEF SocketComplete
      <4>2. whole[c] => RoomsAre(c) \subseteq rooms[c]
        BY <2>3, <4>1
      <4>3. rooms'[c] = rooms[c]
        BY <2>1, <3>2
      <4> QED
        BY <3>1, <4>2, <4>3
    <3>3. CASE ~ recovered[c]
      BY <2>1, <3>1, <3>3
    <3> QED
      BY <3>2, <3>3
  <2>6. rooms'[c] \subseteq RoomsAre(c)
    BY <2>1 DEF SocketComplete
  <2>7. SocketComplete(c)'
    BY <2>1, <2>4, <2>5, <2>6 DEF SocketComplete
  <2> QED
    BY <1>11, <1>15, <2>7 DEF Identified, Goto, TypeOK
<1>16. ASSUME NEW c \in Connections, LoadCustomer(c) PROVE CompleteInv'
  <2>1. /\ c \in connected /\ SocketComplete(c) /\ boot[c] = "customer"
        /\ seen'[c] = IF recovered[c] THEN seen[c] ELSE seen[c] \cup RoomsAre(c)
        /\ boot'[c] = "done"
        /\ UNCHANGED <<token, id, recovered, whole, rooms, clean, members>>
    BY <1>0, <1>16 DEF LoadCustomer, Shows, Finish, Goto, TypeOK, socketVars, RoomsAre
  <2>2. ~ IsStore(c)
    BY <1>0, <2>1 DEF LifeOf
  <2>3. RoomsAre(c) = RoomsOf(token[c], Early)
    BY <1>14, <2>1, <2>2
  <2>4. RoomsAre(c)' = RoomsAre(c) /\ (IsStore(c)' <=> IsStore(c))
    BY <2>1 DEF RoomsAre, IsStore
  <2>5. whole[c] => seen'[c] = RoomsAre(c)
    <3>1. seen[c] \subseteq RoomsAre(c)
      BY <2>1 DEF SocketComplete
    <3>2. CASE recovered[c]
      <4>1. whole[c] => RoomsOf(token[c], Early) \subseteq seen[c]
        BY <2>1, <3>2 DEF SocketComplete
      <4>2. whole[c] => RoomsAre(c) \subseteq seen[c]
        BY <2>3, <4>1
      <4>3. seen'[c] = seen[c]
        BY <2>1, <3>2
      <4> QED
        BY <3>1, <4>2, <4>3
    <3>3. CASE ~ recovered[c]
      BY <2>1, <3>1, <3>3
    <3> QED
      BY <3>2, <3>3
  <2>6. seen'[c] \subseteq RoomsAre(c)
    BY <2>1 DEF SocketComplete
  <2>7. SocketComplete(c)'
    BY <2>1, <2>4, <2>5, <2>6 DEF SocketComplete
  <2> QED
    BY <1>11, <1>16, <2>7 DEF LoadCustomer, Shows, Finish, Goto, TypeOK
<1>17. ASSUME NEW c \in Connections, Fails(c) PROVE CompleteInv'
  <2>1. /\ CleanUp({c}) /\ sessions' = sessions /\ connected' \subseteq connected
        /\ UNCHANGED <<token, id, recovered, whole, seen>> /\ Real(c)
    BY <1>17 DEF Fails, Throw, Depart, socketVars, Real
  <2>2. ASSUME NEW d \in connected', d # c PROVE SocketComplete(d)'
    <3>1. d \in connected /\ d \in Connections /\ SocketComplete(d)
      BY <1>0, <2>1, <2>2
    <3>2. boot'[d] = boot[d] /\ rooms'[d] = rooms[d] /\ clean'[d] = clean[d]
      BY <1>17, <2>2, <3>1 DEF Fails, Throw, Goto, Depart, CleanUp, TypeOK
    <3>3. whole[d] /\ id[d] \in members => id[d] \in members'
      BY <2>1, <2>2, <3>1, OthersKeepMembers
    <3> QED
      BY <2>1, <3>1, <3>2, <3>3, CompleteFrame
  <2>3. ASSUME c \in connected' PROVE SocketComplete(c)'
    <3>1. c \in connected /\ SocketComplete(c)
      BY <1>0, <2>1, <2>3
    <3>2. IsStore(c)
      BY <1>17, <2>3 DEF Fails, Throw, Depart
    <3>3. boot'[c] = "failing" /\ UNCHANGED rooms
      BY <1>17, <3>2 DEF Fails, Throw, Goto, TypeOK
    <3>4. clean'[c] # "none"
      BY <2>1 DEF CleanUp, Cleanup
    <3>5. boot[c] # "identity"
      BY <1>0, <3>1, <3>2 DEF LifeOf
    <3> QED
      BY <2>1, <3>1, <3>3, <3>4, <3>5 DEF SocketComplete, RoomsAre
  <2> QED
    BY <1>2, <2>1, <2>2, <2>3 DEF CompleteInv
<1>18. ASSUME NEW c \in Connections, Failed(c) PROVE CompleteInv'
  BY <1>11, <1>18 DEF Failed, Goto, Depart, TypeOK
<1>19. CASE ClosePresence
  <2>1. connected' = {} /\ sessions' = sessions
    BY <1>19 DEF ClosePresence, Advance, ServerInv, ShutdownLeaves, bootVars
  <2> QED
    BY <1>2, <2>1 DEF CompleteInv
<1>20. ASSUME UNCHANGED <<sessions, socketVars, bootVars, clean, members>>
       PROVE  CompleteInv'
  BY <1>20 DEF socketVars, bootVars, CompleteInv, SocketComplete, SessionComplete,
               RoomsAre, IsStore
<1>21. CASE \/ \E c \in Connections : Event(c)
            \/ \E i \in Ids : EventEnds(i)
            \/ HttpRequest \/ HttpEnds \/ HttpAborts \/ OrphanEnds \/ Signal
            \/ HttpClosed \/ DrainAgain \/ CloseStores \/ ReportTimeout
  BY <1>20, <1>21
  DEF Event, EventEnds, HttpRequest, HttpEnds, HttpAborts, OrphanEnds, Signal,
      HttpClosed, DrainAgain, CloseStores, ReportTimeout
<1> QED
  BY <1>4, <1>5, <1>6, <1>7, <1>8, <1>9, <1>10, <1>12, <1>13, <1>15, <1>16, <1>17,
     <1>18, <1>19, <1>21
  DEF Next, Clients, Work, Closing

-----------------------------------------------------------------------------
(* Theorems *)

SocketInv == TypeOK /\ LifeInv /\ ServerInv /\ IdInv /\ CompleteInv

LEMMA TypeInit == Init => TypeOK
<1> SUFFICES ASSUME Init PROVE TypeOK
  OBVIOUS
<1>1. sessions \subseteq Session
  BY SocketServerAssumption DEF Init, SocketServerAssumption
<1>2. 0 \in 0..MaxRequests /\ 0 \in 0..MaxInFlight
  BY SocketServerAssumption DEF SocketServerAssumption
<1>3. \A c \in Connections : c \in Ids
  BY DEF Ids
<1> QED
  BY <1>1, <1>2, <1>3 DEF Init, TypeOK

\* The parts of SocketInv hold in every reachable state.
LEMMA SocketInvariance == Spec => []SocketInv
<1>1. Init => SocketInv
  BY TypeInit, LifeInit, ServerInit, IdInit, CompleteInit DEF SocketInv
<1>2. SocketInv /\ [Next]_vars => SocketInv'
  <2> SUFFICES ASSUME SocketInv, [Next]_vars PROVE SocketInv'
    OBVIOUS
  <2>1. CASE Next
    BY <2>1, TypeStep, LifeStep, ServerStep, IdStep, CompleteStep DEF SocketInv
  <2>2. CASE UNCHANGED vars
    <3>1. TypeOK'
      BY <2>2 DEF SocketInv, TypeOK, vars, serverVars, socketVars, bootVars
    <3>2. LifeInv'
      BY <2>2 DEF SocketInv, LifeInv, LifeOf, Real, IsStore, vars, socketVars, bootVars
    <3>3. ServerInv'
      BY <2>2 DEF SocketInv, ServerInv, ShutdownLeaves, MembersHeld, Holds, Real, IsStore,
                  vars, serverVars, socketVars, bootVars
    <3>4. IdInv'
      BY <2>2 DEF SocketInv, IdInv, Real, Released, vars, socketVars, bootVars
    <3>5. CompleteInv'
      BY <2>2 DEF SocketInv, CompleteInv, SocketComplete, SessionComplete, RoomsAre, IsStore,
                  vars, socketVars, bootVars
    <3> QED
      BY <3>1, <3>2, <3>3, <3>4, <3>5 DEF SocketInv
  <2> QED
    BY <2>1, <2>2
<1> QED
  BY <1>1, <1>2, PTL DEF Spec

\* Every variable keeps its type; the calls in flight of a socket id stay within
\* socket_max_in_flight_events.
THEOREM TypeCorrect == Spec => []TypeOK
BY SocketInvariance, PTL DEF SocketInv

\* Whatever session a connection recovers, it hears rooms of its own token only.
THEOREM RoomsStayAllowed == Spec => []RoomsAreAllowed
<1>1. SocketInv => RoomsAreAllowed
  BY DEF SocketInv, CompleteInv, SocketComplete, RoomsAre, RoomsAreAllowed
<1> QED
  BY <1>1, SocketInvariance, PTL

\* connection:ready says that the rooms are joined, the snapshots delivered and
\* the presence registered, unless a bootstrap of the session was left unfinished.
THEOREM ReadyMeansComplete == Spec => []ReadyIsComplete
<1>1. ASSUME SocketInv, NEW c \in connected, ready[c], whole[c]
      PROVE  /\ rooms[c] = RoomsOf(token[c], Areas)
             /\ seen[c] = RoomsOf(token[c], Areas)
             /\ IsStore(c) => id[c] \in members
  <2>1. LifeOf(c) /\ SocketComplete(c)
    BY <1>1 DEF SocketInv, TypeOK, LifeInv, CompleteInv
  <2>2. boot[c] = "done" /\ clean[c] = "none"
    BY <1>1, <2>1 DEF LifeOf
  <2> QED
    BY <1>1, <2>1, <2>2 DEF SocketComplete, RoomsAre
<1>2. SocketInv => ReadyIsComplete
  BY <1>1 DEF ReadyIsComplete
<1> QED
  BY <1>2, SocketInvariance, PTL

\* When presence, Redis and MongoDB are closed, no event handler, bootstrap or cleanup
\* of a socket runs that would use them and no client waits for an HTTP answer, no
\* socket counts as present, and the sessions left to other processes are whole.  Of
\* the handlers whose HTTP client has left it says nothing: they are not waited for.
THEOREM ShutdownCutsNothingOff == Spec => []NothingIsCutOff
<1>1. ASSUME SocketInv, server \in AfterDrains
      PROVE  NoWork /\ connected = {} /\ members = {}
  <2>1. /\ connected = {} /\ http = 0
        /\ \A c \in Connections : boot[c] \notin Booting /\ clean[c] \notin Cleaning
        /\ \A i \in Ids : active[i] = 0
    BY <1>1 DEF SocketInv, ServerInv, ShutdownLeaves, AfterDrains
  <2>2. ASSUME NEW i \in members PROVE FALSE
    <3>1. PICK c \in Connections : Holds(c, i)
      BY <1>1 DEF SocketInv, ServerInv, MembersHeld
    <3>2. LifeOf(c)
      BY <1>1 DEF SocketInv, LifeInv
    <3>3. clean[c] # "none"
      BY <2>1, <3>1, <3>2 DEF LifeOf, Holds
    <3> QED
      BY <2>1, <3>1, <3>3 DEF Holds, Cleaning
  <2> QED
    BY <2>1, <2>2 DEF NoWork
<1>2. SocketInv => NothingIsCutOff
  BY <1>1 DEF NothingIsCutOff, SocketInv, ServerInv, ShutdownLeaves
<1> QED
  BY <1>2, SocketInvariance, PTL

=============================================================================
