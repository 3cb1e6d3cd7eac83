----------------------------- MODULE Presence_proofs -----------------------------
(***************************************************************************)
(* Proofs about Presence, for any instances, sockets and observers, with   *)
(* and without Redis, and any plan of faults and synchronizations.         *)
(***************************************************************************)
EXTENDS Presence, FiniteSetTheorems, SequenceTheorems, TLAPS

-----------------------------------------------------------------------------
(* The invariant *)

WireType == wire \in [Instances -> Seq(Command)]

\* The socket is in the maps from its registration to its unregistration.
Present == {"registering", "registered"}
Leaving == {"unregistering", "persisting"}

MapsInv ==
  /\ \A i \in Instances : local[i] \subseteq SocketsOf(i)
  /\ \A s \in Sockets : s \in local[Home[s]] <=> phase[s] \in Present
  /\ \A o \in observed : view[o] # "gone"
  /\ \A i \in Instances : count[i] = Cardinality(observed \cap ObserversOf(i))

\* Generations grow; a store with local sockets has one.
GenInv ==
  \A i \in Instances :
    /\ gen[i] <= next_gen[i]
    /\ local[i] # {} => gen[i] # 0
    /\ gen[i] # 0 => \/ Tracked(local[i], count[i], auth[i])
                     \/ \E s \in SocketsOf(i) : phase[s] \in Leaving

\* What the generation of a heartbeat says of the members it listed.
BeatInv ==
  \A i \in Instances : beat[i].on =>
    /\ beat[i].gen <= next_gen[i]
    /\ gen[i] = beat[i].gen /\ local[i] # {} => local[i] = beat[i].members

\* A command is about sockets of its instance, and one whose promise has not settled
\* has a caller that waits for it.
CommandInv(i, q) ==
  /\ q.kind \in {"register", "unregister"} => q.who \in SocketsOf(i)
  /\ q.kind = "refresh" => q.who = i
  /\ q.kind = "list" => q.who \in Observers
  /\ q.members \subseteq SocketsOf(i)
  /\ q.kind = "refresh" /\ q.state = "done" /\ q.members # {} => q.online
  /\ ~ q.orphan =>
       /\ q.kind = "register" => phase[q.who] = "registering"
       /\ q.kind = "unregister" => phase[q.who] = "unregistering"
       /\ q.kind = "refresh" => beat[i].on /\ q.members = beat[i].members

CommandsInv ==
  \A i \in Instances : \A n \in DOMAIN wire[i] : CommandInv(i, wire[i][n])

\* It is the only one: no two commands have the same caller.
Same(q, r) ==
  /\ ~ q.orphan /\ ~ r.orphan
  /\ q.kind = r.kind /\ q.who = r.who /\ q.kind # "list"

OneEach ==
  \A i \in Instances : \A n, k \in DOMAIN wire[i] :
    Same(wire[i][n], wire[i][k]) => n = k

IInv ==
  TypeOK /\ WireType /\ MapsInv /\ GenInv /\ BeatInv /\ CommandsInv /\ OneEach

\* No connection has been lost; none ever is.
Unbroken == \A n \in DOMAIN events : events[n] # "break"
NoBreak == \A p \in Plans : \A n \in DOMAIN p : p[n] # "break"

\* A command adds the socket to the sorted set.
Adds(q, s) ==
  \/ q.kind = "register" /\ q.who = s
  \/ q.kind = "refresh" /\ s \in q.members

Removes(q, s) == q.kind = "unregister" /\ q.who = s

\* On the wire of a client that keeps its connection, what would add a socket that has
\* left is followed by what removes it.
OrderOf(i) ==
  \A n \in DOMAIN wire[i] : \A s \in SocketsOf(i) :
    /\ wire[i][n].state = "sent"
    /\ Adds(wire[i][n], s)
    /\ phase[s] \notin Present \cup {"lost"}
    => \E k \in DOMAIN wire[i] :
         k > n /\ wire[i][k].state = "sent" /\ Removes(wire[i][k], s)

ClientOf(i) ==
  client[i] \in {"none", "ready"} /\ (client[i] = "none" => wire[i] = <<>>)

OrderInv == \A i \in Instances : ClientOf(i) /\ OrderOf(i)

-----------------------------------------------------------------------------
(* Homes, and counted observers *)

LEMMA Homes ==
  /\ \A s \in Sockets : Home[s] \in Instances /\ s \in SocketsOf(Home[s])
  /\ \A o \in Observers : Home[o] \in Instances /\ o \in ObserversOf(Home[o])
  /\ \A i : \A s \in SocketsOf(i) : s \in Sockets /\ Home[s] = i
  /\ \A i : \A o \in ObserversOf(i) : o \in Observers /\ Home[o] = i
BY PresenceAssumption DEF PresenceAssumption, SocketsOf, ObserversOf

LEMMA FiniteObservers ==
  ASSUME NEW S \in SUBSET Observers
  PROVE  /\ IsFiniteSet(S) /\ Cardinality(S) \in Nat
         /\ Cardinality(Observers) \in Nat /\ Cardinality(S) <= Cardinality(Observers)
<1>1. IsFiniteSet(Observers)
  BY PresenceAssumption DEF PresenceAssumption
<1>2. IsFiniteSet(S) /\ Cardinality(S) <= Cardinality(Observers)
  BY <1>1, FS_Subset
<1> QED
  BY <1>1, <1>2, FS_CardinalityType

\* An observer is counted at its home, once.
LEMMA Counted ==
  ASSUME TypeOK, MapsInv, NEW o \in Observers
  PROVE  /\ o \in observed =>
              /\ count[Home[o]] > 0
              /\ Cardinality((observed \ {o}) \cap ObserversOf(Home[o]))
                   = count[Home[o]] - 1
         /\ o \notin observed =>
              /\ count[Home[o]] + 1 <= Cardinality(Observers)
              /\ Cardinality((observed \cup {o}) \cap ObserversOf(Home[o]))
                   = count[Home[o]] + 1
         /\ \A i \in Instances \ {Home[o]} :
              /\ (observed \ {o}) \cap ObserversOf(i) = observed \cap ObserversOf(i)
              /\ (observed \cup {o}) \cap ObserversOf(i) = observed \cap ObserversOf(i)
<1> DEFINE i == Home[o]
           S == observed \cap ObserversOf(i)
<1>1. i \in Instances /\ o \in ObserversOf(i)
  BY Homes
<1>2. S \in SUBSET Observers /\ observed \subseteq Observers
  BY DEF TypeOK
<1>3. count[i] = Cardinality(S) /\ IsFiniteSet(S) /\ count[i] \in Nat
  BY <1>1, <1>2, FiniteObservers DEF MapsInv
<1>6. \A j \in Instances \ {i} :
        /\ (observed \ {o}) \cap ObserversOf(j) = observed \cap ObserversOf(j)
        /\ (observed \cup {o}) \cap ObserversOf(j) = observed \cap ObserversOf(j)
  <2>1. \A j \in Instances \ {i} : o \notin ObserversOf(j)
    BY Homes
  <2> QED
    BY <2>1
<1>4. CASE o \in observed
  <2>1. (observed \ {o}) \cap ObserversOf(i) = S \ {o} /\ o \in S
    BY <1>1, <1>4
  <2>2. Cardinality(S \ {o}) = Cardinality(S) - 1
    BY <1>3, <2>1, FS_RemoveElement
  <2>3. Cardinality(S \ {o}) \in Nat
    <3>1. S \ {o} \in SUBSET Observers
      BY <1>2
    <3> QED
      BY <3>1, FiniteObservers
  <2>4. count[i] > 0
    BY <1>3, <2>2, <2>3
  <2> QED
    BY <1>3, <1>4, <1>6, <2>1, <2>2, <2>4
<1>5. CASE o \notin observed
  <2>1. (observed \cup {o}) \cap ObserversOf(i) = S \cup {o} /\ o \notin S
    BY <1>1, <1>5
  <2>2. Cardinality(S \cup {o}) = Cardinality(S) + 1
    BY <1>3, <2>1, FS_AddElement
  <2>3. Cardinality(S \cup {o}) <= Cardinality(Observers)
    <3>1. S \cup {o} \in SUBSET Observers
      BY <1>2
    <3> QED
      BY <3>1, FiniteObservers
  <2> QED
    BY <1>3, <1>5, <1>6, <2>1, <2>2, <2>3
<1> QED
  BY <1>4, <1>5

-----------------------------------------------------------------------------
(* What may happen to a wire *)

LEMMA WireFacts ==
  ASSUME WireType, NEW i \in Instances
  PROVE  /\ wire[i] \in Seq(Command) /\ Len(wire[i]) \in Nat
         /\ DOMAIN wire[i] = 1..Len(wire[i])
         /\ \A n \in DOMAIN wire[i] : wire[i][n] \in Command
BY LenProperties, ElementOfSeq DEF WireType

\* A command is sent.
LEMMA SentWire ==
  ASSUME WireType, NEW i \in Instances, NEW q \in Command, Send(i, q)
  PROVE  /\ WireType'
         /\ \A j \in Instances \ {i} : wire'[j] = wire[j]
         /\ DOMAIN wire'[i] = DOMAIN wire[i] \cup {Len(wire[i]) + 1}
         /\ \A n \in DOMAIN wire[i] : wire'[i][n] = wire[i][n] /\ n < Len(wire[i]) + 1
         /\ wire'[i][Len(wire[i]) + 1] = q
<1>1. wire[i] \in Seq(Command) /\ Len(wire[i]) \in Nat /\ DOMAIN wire[i] = 1..Len(wire[i])
  BY WireFacts
<1>2. /\ wire'[i] = Append(wire[i], q)
      /\ \A j \in Instances \ {i} : wire'[j] = wire[j]
      /\ wire' = [wire EXCEPT ![i] = Append(wire[i], q)]
  BY DEF Send, WireType
<1>3. Append(wire[i], q) \in Seq(Command) /\ Len(Append(wire[i], q)) = Len(wire[i]) + 1
  BY <1>1
<1>4. WireType'
  BY <1>2, <1>3 DEF WireType
<1>5. DOMAIN wire'[i] = 1..(Len(wire[i]) + 1)
  BY <1>2, <1>3, LenProperties
<1>6. /\ \A n \in DOMAIN wire[i] : wire'[i][n] = wire[i][n] /\ n < Len(wire[i]) + 1
      /\ wire'[i][Len(wire[i]) + 1] = q
  BY <1>1, <1>2
<1> QED
  BY <1>1, <1>2, <1>4, <1>5, <1>6

\* The oldest one has settled.
LEMMA ShorterWire ==
  ASSUME WireType, NEW i \in Instances, wire[i] # <<>>,
         wire' = [wire EXCEPT ![i] = Tail(@)]
  PROVE  /\ WireType'
         /\ 1 \in DOMAIN wire[i] /\ Head(wire[i]) = wire[i][1]
         /\ \A j \in Instances \ {i} : wire'[j] = wire[j]
         /\ \A n \in DOMAIN wire'[i] :
              n \in Nat /\ n + 1 \in DOMAIN wire[i] /\ n + 1 # 1
              /\ wire'[i][n] = wire[i][n + 1]
         /\ \A n \in DOMAIN wire[i] : n = 1 \/ n - 1 \in DOMAIN wire'[i]
<1>1. wire[i] \in Seq(Command) /\ Len(wire[i]) \in Nat /\ DOMAIN wire[i] = 1..Len(wire[i])
  BY WireFacts
<1>2. /\ wire'[i] = Tail(wire[i])
      /\ \A j \in Instances \ {i} : wire'[j] = wire[j]
  BY DEF WireType
<1>3. Len(wire[i]) \in Nat \ {0} /\ Head(wire[i]) = wire[i][1]
  BY <1>1, EmptySeq
<1>4. /\ Tail(wire[i]) \in Seq(Command) /\ Len(Tail(wire[i])) = Len(wire[i]) - 1
      /\ \A n \in 1..Len(Tail(wire[i])) : Tail(wire[i])[n] = wire[i][n + 1]
  BY <1>1, HeadTailProperties
<1>5. WireType'
  BY <1>4 DEF WireType
<1>6. DOMAIN wire'[i] = 1..(Len(wire[i]) - 1)
  BY <1>2, <1>4, LenProperties
<1> QED
  BY <1>1, <1>2, <1>3, <1>4, <1>5, <1>6

\* Commands change in their places.
LEMMA ChangedWire ==
  ASSUME WireType, NEW i \in Instances, NEW f,
         f = [n \in DOMAIN wire[i] |-> f[n]],
         \A n \in DOMAIN wire[i] : f[n] \in Command,
         wire' = [wire EXCEPT ![i] = f]
  PROVE  /\ WireType'
         /\ \A j \in Instances : DOMAIN wire'[j] = DOMAIN wire[j]
         /\ \A j \in Instances \ {i} : wire'[j] = wire[j]
         /\ wire'[i] = f
<1>1. Len(wire[i]) \in Nat /\ DOMAIN wire[i] = 1..Len(wire[i])
  BY WireFacts
<1>2. f \in [1..Len(wire[i]) -> Command]
  BY <1>1
<1>3. f \in Seq(Command)
  BY <1>1, <1>2, SeqDef
<1>4. wire'[i] = f /\ \A j \in Instances \ {i} : wire'[j] = wire[j]
  BY DEF WireType
<1>5. WireType'
  BY <1>3 DEF WireType
<1>6. DOMAIN f = DOMAIN wire[i]
  BY <1>1, <1>2
<1> QED
  BY <1>4, <1>5, <1>6
-----------------------------------------------------------------------------
(* Types *)

Beat == [on : BOOLEAN, gen : Nat, members : SUBSET Sockets]
Outcome == [online : BOOLEAN, changed : BOOLEAN]
Phases ==
  {"new", "joining", "registering", "registered", "unregistering", "persisting", "gone",
   "lost"}
Views == {"out", "listing", "listed", "in", "gone"}

\* The variables a settled promise may change.
SettledTypes ==
  /\ beat \in [Instances -> Beat]
  /\ auth \in [Instances -> BOOLEAN]
  /\ gen \in [Instances -> Nat]
  /\ phase \in [Sockets -> Phases]
  /\ outcome \in [Sockets -> Outcome]
  /\ view \in [Observers -> Views]
  /\ snap \in [Observers -> BOOLEAN]
  /\ shown \in [Observers -> BOOLEAN]

ServiceTypes ==
  /\ client \in [Instances -> {"none", "ready", "retrying", "failed"}]
  /\ up \in [Instances -> {"up", "crashed", "closed"}]
  /\ due \subseteq Instances
  /\ events \in Plans \cup {<<>>}

ScoreType ==
  DOMAIN score \subseteq Sockets /\ \A m \in DOMAIN score : score[m] \in 0..Life

OtherTypes ==
  /\ local \in [Instances -> SUBSET Sockets]
  /\ observed \subseteq Observers
  /\ count \in [Instances -> 0..Cardinality(Observers)]
  /\ next_gen \in [Instances -> Nat]
  /\ connected \subseteq Sockets

Types == SettledTypes /\ ServiceTypes /\ ScoreType /\ OtherTypes

LEMMA TypeParts ==
  /\ TypeOK => Types
  /\ Types /\ WireType => TypeOK
<1>1. TypeOK => Types
  BY DEF TypeOK, Types, SettledTypes, ServiceTypes, ScoreType, OtherTypes, Beat, Outcome,
     Phases, Views
<1>2. WireType => \A i \in Instances : \A n \in DOMAIN wire[i] : wire[i][n] \in Command
  BY WireFacts
<1>3. Types /\ WireType => TypeOK
  BY <1>2 DEF TypeOK, Types, SettledTypes, ServiceTypes, ScoreType, OtherTypes, Beat,
     Outcome, Phases, Views
<1> QED
  BY <1>1, <1>3

LEMMA PublishType ==
  ASSUME shown \in [Observers -> BOOLEAN], NEW changed, NEW online \in BOOLEAN,
         Publish(changed, online)
  PROVE  shown' \in [Observers -> BOOLEAN]
BY DEF Publish

LEMMA PruneType ==
  ASSUME gen \in [Instances -> Nat], NEW i, NEW l, NEW c, NEW a, Prune(i, l, c, a)
  PROVE  gen' \in [Instances -> Nat]
BY DEF Prune

LEMMA MarkType ==
  ASSUME Types, NEW i \in Instances, Mark(i)
  PROVE  /\ gen' \in [Instances -> Nat] /\ next_gen' \in [Instances -> Nat]
         /\ gen'[i] = next_gen[i] + 1 /\ next_gen'[i] = next_gen[i] + 1
         /\ \A j \in Instances \ {i} : gen'[j] = gen[j] /\ next_gen'[j] = next_gen[j]
BY DEF Mark, Types, SettledTypes, OtherTypes

LEMMA RequestType ==
  ASSUME NEW kind \in {"register", "unregister", "refresh", "list"},
         NEW who \in Sockets \cup Observers \cup Instances,
         NEW members \in SUBSET Sockets
  PROVE  Request(kind, who, members) \in Command
BY DEF Request, Command

LEMMA UnregisteredType ==
  ASSUME Types, NEW s \in Sockets, NEW result \in Outcome, NEW a \in BOOLEAN,
         Unregistered(s, result, a)
  PROVE  /\ outcome' \in [Sockets -> Outcome]
         /\ auth' \in [Instances -> BOOLEAN]
         /\ phase' \in [Sockets -> Phases]
         /\ gen' \in [Instances -> Nat]
<1>1. outcome' \in [Sockets -> Outcome]
  <2>1. Offline \in Outcome
    BY DEF Offline, Outcome
  <2> QED
    BY <2>1 DEF Unregistered, Types, SettledTypes
<1>2. auth' \in [Instances -> BOOLEAN]
  BY DEF Unregistered, Types, SettledTypes
<1>3. CASE result.online
  BY <1>1, <1>2, <1>3, PruneType DEF Unregistered, Types, SettledTypes, Phases
<1>4. CASE ~ result.online
  BY <1>1, <1>2, <1>4 DEF Unregistered, Types, SettledTypes, Phases
<1> QED
  BY <1>3, <1>4

LEMMA SettleType ==
  ASSUME Types, NEW i \in Instances, NEW q \in Command, CommandInv(i, q),
         NEW a \in BOOLEAN, Settle(i, q, a)
  PROVE  SettledTypes'
<1>0. SettledTypes /\ q.online \in BOOLEAN /\ q.removed \in BOOLEAN
  BY DEF Types, Command
<1>1. CASE q.kind = "register"
  <2>1. q.who \in Sockets
    BY <1>1, Homes DEF CommandInv
  <2>2. /\ Registered(q.who, a /\ ~ q.online)
        /\ auth' = [auth EXCEPT ![i] = @ \/ a]
        /\ UNCHANGED <<beat, gen, outcome, view, snap>>
    BY <1>1 DEF Settle
  <2>3. shown' \in [Observers -> BOOLEAN]
    BY <1>0, <2>2, PublishType DEF Registered, SettledTypes
  <2>4. phase' \in [Sockets -> Phases]
    BY <1>0, <2>1, <2>2 DEF Registered, SettledTypes, Phases
  <2>5. auth' \in [Instances -> BOOLEAN]
    <3>1. (auth[i] \/ a) \in BOOLEAN
      BY <1>0 DEF SettledTypes
    <3> QED
      BY <1>0, <2>2, <3>1 DEF SettledTypes
  <2> QED
    BY <1>0, <2>2, <2>3, <2>4, <2>5 DEF SettledTypes
<1>2. CASE q.kind = "unregister"
  <2>1. q.who \in Sockets
    BY <1>2, Homes DEF CommandInv
  <2>2. /\ [online |-> q.online, changed |-> q.removed /\ ~ q.online] \in Outcome
        /\ outcome[q.who] \in Outcome /\ auth[i] \in BOOLEAN
    BY <1>0, <2>1 DEF Outcome, SettledTypes
  <2>3. /\ \E result \in Outcome, b \in BOOLEAN : Unregistered(q.who, result, b)
        /\ UNCHANGED <<beat, view, snap, shown>>
    BY <1>0, <1>2, <2>2 DEF Settle, viewVars
  <2>4. /\ outcome' \in [Sockets -> Outcome]
        /\ auth' \in [Instances -> BOOLEAN]
        /\ phase' \in [Sockets -> Phases]
        /\ gen' \in [Instances -> Nat]
    BY <2>1, <2>3, UnregisteredType
  <2> QED
    BY <1>0, <2>3, <2>4 DEF SettledTypes
<1>3. CASE q.kind = "refresh"
  <2>1. UNCHANGED <<phase, outcome, view, snap>>
    BY <1>3 DEF Settle
  <2>2. NoBeat \in Beat
    BY DEF NoBeat, Beat
  <2>3. beat' = [beat EXCEPT ![i] = NoBeat]
    BY <1>3 DEF Settle, Refreshed
  <2>4. beat' \in [Instances -> Beat]
    BY <1>0, <2>2, <2>3 DEF SettledTypes
  <2>5. gen' \in [Instances -> Nat] /\ auth' \in [Instances -> BOOLEAN]
        /\ shown' \in [Observers -> BOOLEAN]
    <3>1. CASE a /\ ResultHolds(i)
      BY <1>0, <1>3, <3>1, PruneType, PublishType DEF Settle, Refreshed, SettledTypes
    <3>2. CASE a /\ ~ ResultHolds(i)
      BY <1>0, <1>3, <3>2, PruneType DEF Settle, Refreshed, SettledTypes
    <3>3. CASE ~ a
      BY <1>0, <1>3, <3>3 DEF Settle, SettledTypes
    <3> QED
      BY <3>1, <3>2, <3>3
  <2> QED
    BY <1>0, <2>1, <2>4, <2>5 DEF SettledTypes
<1>4. CASE q.kind = "list"
  <2>1. UNCHANGED <<beat, auth, gen, phase, outcome, shown>>
    BY <1>4 DEF Settle
  <2>2. view' \in [Observers -> Views] /\ snap' \in [Observers -> BOOLEAN]
    <3>1. CASE view[q.who] = "listing"
      <4>1. (IF a THEN q.online ELSE local[i] # {}) \in BOOLEAN
        BY <1>0
      <4> QED
        BY <1>0, <1>4, <3>1, <4>1 DEF Settle, SettledTypes, Views
    <3>2. CASE view[q.who] # "listing"
      BY <1>0, <1>4, <3>2 DEF Settle, SettledTypes
    <3> QED
      BY <3>1, <3>2
  <2> QED
    BY <1>0, <2>1, <2>2 DEF SettledTypes
<1> QED
  BY <1>1, <1>2, <1>3, <1>4 DEF Settle

LEMMA InitTypes ==
  ASSUME Init
  PROVE  TypeOK /\ WireType
<1>1. WireType
  BY EmptySeq DEF Init, WireType
<1>2. 0 \in 0..Cardinality(Observers)
  BY FiniteObservers
<1>3. OtherTypes
  BY <1>2 DEF Init, OtherTypes
<1>4. SettledTypes
  BY DEF Init, SettledTypes, NoBeat, Offline, Beat, Outcome, Phases, Views
<1>5. ServiceTypes /\ ScoreType
  BY DEF Init, ServiceTypes, ScoreType
<1> QED
  BY <1>1, <1>3, <1>4, <1>5, TypeParts DEF Types
\* Commands are marked where they are: cut off, sent again, or without a caller.
LEMMA MarkedWire ==
  ASSUME WireType, NEW i \in Instances,
         \/ \E state \in {"sent", "cut"} : wire' = [wire EXCEPT ![i] =
              [n \in DOMAIN @ |-> [@[n] EXCEPT !.state = state]]]
         \/ wire' = [wire EXCEPT ![i] = [n \in DOMAIN @ |-> [@[n] EXCEPT !.orphan = TRUE]]]
  PROVE  /\ WireType'
         /\ \A j \in Instances : DOMAIN wire'[j] = DOMAIN wire[j]
         /\ \A j \in Instances \ {i} : wire'[j] = wire[j]
         /\ \A n \in DOMAIN wire[i] :
              \/ \E state \in {"sent", "cut"} :
                   wire'[i][n] = [wire[i][n] EXCEPT !.state = state]
              \/ wire'[i][n] = [wire[i][n] EXCEPT !.orphan = TRUE]
<1>0. \A n \in DOMAIN wire[i] : wire[i][n] \in Command
  BY WireFacts
<1>1. ASSUME NEW state \in {"sent", "cut"},
             wire' = [wire EXCEPT ![i] = [n \in DOMAIN @ |-> [@[n] EXCEPT !.state = state]]]
      PROVE  /\ WireType'
             /\ \A j \in Instances : DOMAIN wire'[j] = DOMAIN wire[j]
             /\ \A j \in Instances \ {i} : wire'[j] = wire[j]
             /\ \A n \in DOMAIN wire[i] : wire'[i][n] = [wire[i][n] EXCEPT !.state = state]
  <2> DEFINE f == [n \in DOMAIN wire[i] |-> [wire[i][n] EXCEPT !.state = state]]
  <2>1. \A n \in DOMAIN wire[i] : f[n] \in Command
    BY <1>0, <1>1 DEF Command
  <2>2. f = [n \in DOMAIN wire[i] |-> f[n]]
    OBVIOUS
  <2>3. wire' = [wire EXCEPT ![i] = f]
    BY <1>1
  <2> HIDE DEF f
  <2>4. /\ WireType' /\ wire'[i] = f
        /\ \A j \in Instances : DOMAIN wire'[j] = DOMAIN wire[j]
        /\ \A j \in Instances \ {i} : wire'[j] = wire[j]
    BY <2>1, <2>2, <2>3, ChangedWire
  <2> QED
    BY <2>4 DEF f
<1>2. ASSUME wire' = [wire EXCEPT ![i] = [n \in DOMAIN @ |-> [@[n] EXCEPT !.orphan = TRUE]]]
      PROVE  /\ WireType'
             /\ \A j \in Instances : DOMAIN wire'[j] = DOMAIN wire[j]
             /\ \A j \in Instances \ {i} : wire'[j] = wire[j]
             /\ \A n \in DOMAIN wire[i] : wire'[i][n] = [wire[i][n] EXCEPT !.orphan = TRUE]
  <2> DEFINE f == [n \in DOMAIN wire[i] |-> [wire[i][n] EXCEPT !.orphan = TRUE]]
  <2>1. \A n \in DOMAIN wire[i] : f[n] \in Command
    BY <1>0 DEF Command
  <2>2. f = [n \in DOMAIN wire[i] |-> f[n]]
    OBVIOUS
  <2>3. wire' = [wire EXCEPT ![i] = f]
    BY <1>2
  <2> HIDE DEF f
  <2>4. /\ WireType' /\ wire'[i] = f
        /\ \A j \in Instances : DOMAIN wire'[j] = DOMAIN wire[j]
        /\ \A j \in Instances \ {i} : wire'[j] = wire[j]
    BY <2>1, <2>2, <2>3, ChangedWire
  <2> QED
    BY <2>4 DEF f
<1> QED
  BY <1>1, <1>2

\* One command changes.
LEMMA OneChanged ==
  ASSUME WireType, NEW i \in Instances, NEW n \in DOMAIN wire[i], NEW r \in Command,
         wire' = [wire EXCEPT ![i][n] = r]
  PROVE  /\ WireType'
         /\ \A j \in Instances : DOMAIN wire'[j] = DOMAIN wire[j]
         /\ \A j \in Instances \ {i} : wire'[j] = wire[j]
         /\ wire'[i][n] = r
         /\ \A k \in DOMAIN wire[i] \ {n} : wire'[i][k] = wire[i][k]
<1>1. wire[i] \in Seq(Command) /\ DOMAIN wire[i] = 1..Len(wire[i])
  BY WireFacts
<1>2. /\ wire'[i] = [wire[i] EXCEPT ![n] = r]
      /\ wire' = [wire EXCEPT ![i] = [wire[i] EXCEPT ![n] = r]]
      /\ \A j \in Instances \ {i} : wire'[j] = wire[j]
  BY DEF WireType
<1>3. [wire[i] EXCEPT ![n] = r] \in Seq(Command)
  BY <1>1, ExceptSeq
<1>4. WireType'
  BY <1>2, <1>3 DEF WireType
<1> QED
  BY <1>2, <1>4

LEMMA ExecutedScore ==
  ASSUME Types, NEW members \in SUBSET Sockets
  PROVE  /\ \A s \in Sockets : \A m \in DOMAIN Removed(s) :
              m \in Sockets /\ Removed(s)[m] \in 0..Life
         /\ \A m \in DOMAIN Added(members) : m \in Sockets /\ Added(members)[m] \in 0..Life
<1>1. Life \in 0..Life
  BY PresenceAssumption DEF PresenceAssumption
<1>2. \A m \in Live : m \in Sockets /\ score[m] \in 0..Life
  BY DEF Live, Types, ScoreType
<1> QED
  BY <1>1, <1>2 DEF Added, Removed

\* What Redis does with a command, and answers.
LEMMA Executed ==
  ASSUME Types, WireType, CommandsInv, NEW i \in Instances, Execute(i)
  PROVE  \E n \in DOMAIN wire[i], r \in Command :
           /\ wire[i][n].state = "sent" /\ r.state = "done"
           /\ \A k \in DOMAIN wire[i] : k < n => wire[i][k].state # "sent"
           /\ wire' = [wire EXCEPT ![i][n] = r]
           /\ r.kind = wire[i][n].kind /\ r.who = wire[i][n].who
           /\ r.members = wire[i][n].members /\ r.orphan = wire[i][n].orphan
           /\ r.kind = "refresh" /\ r.members # {} => r.online
           /\ ScoreType'
           /\ \A s \in DOMAIN score' : s \in DOMAIN score \/ Adds(r, s)
<1>0. DOMAIN wire[i] = 1..Len(wire[i]) /\ Len(wire[i]) \in Nat
      /\ \A n \in DOMAIN wire[i] : wire[i][n] \in Command
  BY WireFacts
<1>1. PICK n \in DOMAIN wire[i] :
        /\ NextToRun(i, n)
        /\ score' = CASE wire[i][n].kind = "register" -> Added({wire[i][n].who})
                      [] wire[i][n].kind = "unregister" -> Removed(wire[i][n].who)
                      [] wire[i][n].kind = "refresh" -> Added(wire[i][n].members)
                      [] wire[i][n].kind = "list" -> Added({})
        /\ wire' = [wire EXCEPT ![i][n] =
             [wire[i][n] EXCEPT
                !.state = "done",
                !.removed = wire[i][n].kind = "unregister" /\ wire[i][n].who \in DOMAIN score,
                !.online = IF wire[i][n].kind = "register" THEN Live # {}
                           ELSE DOMAIN score' # {}]]
  BY <1>0 DEF Execute
<1> DEFINE q == wire[i][n]
           r == [q EXCEPT
                   !.state = "done",
                   !.removed = q.kind = "unregister" /\ q.who \in DOMAIN score,
                   !.online = IF q.kind = "register" THEN Live # {} ELSE DOMAIN score' # {}]
<1>2. q \in Command /\ CommandInv(i, q)
  BY <1>0 DEF CommandsInv
<1>3. /\ r \in Command /\ r.state = "done" /\ r.kind = q.kind /\ r.who = q.who
      /\ r.members = q.members /\ r.orphan = q.orphan
      /\ r.online = (IF q.kind = "register" THEN Live # {} ELSE DOMAIN score' # {})
  BY <1>2 DEF Command
<1>4. q.state = "sent" /\ \A k \in DOMAIN wire[i] : k < n => wire[i][k].state # "sent"
  BY <1>0, <1>1 DEF NextToRun
<1>5. /\ ScoreType'
      /\ \A s \in DOMAIN score' : s \in DOMAIN score \/ Adds(q, s)
      /\ q.kind = "refresh" => q.members \subseteq DOMAIN score'
  <2>1. CASE q.kind = "register"
    <3>1. {q.who} \in SUBSET Sockets
      BY <1>2, <2>1, Homes DEF CommandInv
    <3>2. score' = Added({q.who})
      BY <1>1, <2>1
    <3>3. ScoreType'
      BY <3>1, <3>2, ExecutedScore DEF ScoreType
    <3> QED
      BY <2>1, <3>2, <3>3 DEF Added, Live, Adds
  <2>2. CASE q.kind = "unregister"
    <3>1. q.who \in Sockets
      BY <1>2, <2>2, Homes DEF CommandInv
    <3>2. score' = Removed(q.who)
      BY <1>1, <2>2
    <3>3. ScoreType'
      BY <3>1, <3>2, ExecutedScore DEF ScoreType
    <3> QED
      BY <2>2, <3>2, <3>3 DEF Removed, Live
  <2>3. CASE q.kind = "refresh"
    <3>1. q.members \in SUBSET Sockets
      BY <1>2 DEF Command
    <3>2. score' = Added(q.members)
      BY <1>1, <2>3
    <3>3. ScoreType'
      BY <3>1, <3>2, ExecutedScore DEF ScoreType
    <3> QED
      BY <2>3, <3>2, <3>3 DEF Added, Live, Adds
  <2>4. CASE q.kind = "list"
    <3>1. score' = Added({})
      BY <1>1, <2>4
    <3>2. ScoreType'
      BY <3>1, ExecutedScore DEF ScoreType
    <3> QED
      BY <2>4, <3>1, <3>2 DEF Added, Live
  <2> QED
    BY <1>2, <2>1, <2>2, <2>3, <2>4 DEF Command
<1>6. \A s \in DOMAIN score' : s \in DOMAIN score \/ Adds(r, s)
  BY <1>3, <1>5 DEF Adds
<1>7. r.kind = "refresh" /\ r.members # {} => r.online
  BY <1>3, <1>5
<1>8. wire' = [wire EXCEPT ![i][n] = r]
  BY <1>1
<1> HIDE DEF r
<1> QED
  BY <1>3, <1>4, <1>5, <1>6, <1>7, <1>8
\* What the steps about the wire do to it, with the promise that settles.
LEMMA Delivered ==
  ASSUME WireType, CommandsInv, NEW i \in Instances, Deliver(i) \/ Reject(i)
  PROVE  /\ wire[i] # <<>> /\ wire' = [wire EXCEPT ![i] = Tail(@)]
         /\ 1 \in DOMAIN wire[i]
         /\ wire[i][1] \in Command /\ CommandInv(i, wire[i][1])
         /\ IF wire[i][1].orphan
              THEN UNCHANGED <<beat, auth, gen, phase, outcome, viewVars>>
              ELSE \E a \in BOOLEAN :
                     /\ a => wire[i][1].state = "done"
                     /\ Settle(i, wire[i][1], a)
         /\ UNCHANGED <<score, client, up, due, local, observed, count, next_gen,
                        connected, events>>
<1>1. wire[i] # <<>> /\ wire' = [wire EXCEPT ![i] = Tail(@)]
  BY DEF Deliver, Reject
<1>2. 1 \in DOMAIN wire[i] /\ Head(wire[i]) = wire[i][1]
  BY <1>1, ShorterWire
<1>3. wire[i][1] \in Command /\ CommandInv(i, wire[i][1])
  BY <1>2, WireFacts DEF CommandsInv
<1>4. UNCHANGED <<score, client, up, due, local, observed, count, next_gen, connected,
                  events>>
  BY DEF Deliver, Reject
<1>5. CASE Deliver(i)
  BY <1>1, <1>2, <1>3, <1>4, <1>5 DEF Deliver
<1>6. CASE Reject(i)
  BY <1>1, <1>2, <1>3, <1>4, <1>6 DEF Reject
<1> QED
  BY <1>5, <1>6

LEMMA TimedOut ==
  ASSUME WireType, CommandsInv, NEW i \in Instances, Timeout(i)
  PROVE  \E n \in DOMAIN wire[i], r \in Command :
           /\ wire[i][n] \in Command /\ CommandInv(i, wire[i][n]) /\ ~ wire[i][n].orphan
           /\ r = [wire[i][n] EXCEPT !.orphan = TRUE]
           /\ wire' = [wire EXCEPT ![i][n] = r]
           /\ Settle(i, wire[i][n], FALSE)
<1>1. DOMAIN wire[i] = 1..Len(wire[i]) /\ \A n \in DOMAIN wire[i] : wire[i][n] \in Command
  BY WireFacts
<1>2. PICK n \in DOMAIN wire[i] :
        /\ ~ wire[i][n].orphan
        /\ wire' = [wire EXCEPT ![i][n].orphan = TRUE]
        /\ Settle(i, wire[i][n], FALSE)
  BY <1>1 DEF Timeout
<1> DEFINE r == [wire[i][n] EXCEPT !.orphan = TRUE]
<1>3. r \in Command
  BY <1>1 DEF Command
<1>4. wire' = [wire EXCEPT ![i][n] = r]
  BY <1>2
<1>5. CommandInv(i, wire[i][n])
  BY DEF CommandsInv
<1> QED
  BY <1>1, <1>2, <1>3, <1>4, <1>5

LEMMA RemoveObserverTypes ==
  ASSUME Types, MapsInv, TypeOK, NEW o \in Observers, RemoveObserver(o)
  PROVE  /\ observed' \subseteq Observers
         /\ count' \in [Instances -> 0..Cardinality(Observers)]
         /\ auth' \in [Instances -> BOOLEAN]
         /\ next_gen' \in [Instances -> Nat] /\ gen' \in [Instances -> Nat]
<1> DEFINE i == Home[o]
<1>1. i \in Instances /\ Cardinality(Observers) \in Nat
  BY Homes, FiniteObservers
<1>2. observed' \subseteq Observers
  BY DEF RemoveObserver, Types, OtherTypes
<1>3. CASE o \notin observed
  BY <1>2, <1>3 DEF RemoveObserver, Types, SettledTypes, OtherTypes
<1>4. CASE o \in observed
  <2>1. count[i] - 1 \in 0..Cardinality(Observers)
    <3>1. count[i] > 0
      BY <1>4, Counted
    <3>2. count[i] \in 0..Cardinality(Observers)
      BY <1>1 DEF Types, OtherTypes
    <3> QED
      BY <1>1, <3>1, <3>2
  <2>2. count' \in [Instances -> 0..Cardinality(Observers)]
    BY <1>1, <1>4, <2>1 DEF RemoveObserver, Types, OtherTypes
  <2>3. auth' \in [Instances -> BOOLEAN]
    <3>1. (auth[i] /\ (count[i] > 1 \/ local[i] # {})) \in BOOLEAN
      OBVIOUS
    <3> QED
      BY <1>4, <3>1 DEF RemoveObserver, Types, SettledTypes
  <2>4. next_gen' \in [Instances -> Nat] /\ gen' \in [Instances -> Nat]
    BY <1>1, <1>4 DEF RemoveObserver, Types, SettledTypes, OtherTypes
  <2> QED
    BY <1>2, <2>2, <2>3, <2>4
<1> QED
  BY <1>3, <1>4

\* The types after a step of each kind: first those of a socket.
LEMMA SocketTypes ==
  ASSUME TypeOK, WireType, MapsInv, NEW s \in Sockets,
         Connect(s) \/ Disconnect(s) \/ SocketStep(s)
  PROVE  Types' /\ WireType'
<1> DEFINE i == Home[s]
<1>0. Types /\ SettledTypes /\ ServiceTypes /\ ScoreType /\ OtherTypes /\ i \in Instances
  BY TypeParts, Homes DEF Types
<1>1. CASE Connect(s) \/ Disconnect(s) \/ Abort(s)
  <2>1. /\ UNCHANGED <<score, wire, client, up, due, beat, mapVars, outcome, viewVars,
                       events>>
        /\ phase' \in [Sockets -> Phases] /\ connected' \subseteq Sockets
    BY <1>0, <1>1 DEF Connect, Disconnect, Abort, SettledTypes, OtherTypes, Phases
  <2> QED
    BY <1>0, <2>1
    DEF Types, SettledTypes, ServiceTypes, ScoreType, OtherTypes, WireType, mapVars, viewVars
<1>2. CASE Register(s)
  <2>1. /\ gen' \in [Instances -> Nat] /\ next_gen' \in [Instances -> Nat]
        /\ local' \in [Instances -> SUBSET Sockets]
    BY <1>0, <1>2, MarkType DEF Register, OtherTypes
  <2>2. WireType' /\ phase' \in [Sockets -> Phases] /\ shown' \in [Observers -> BOOLEAN]
    <3>1. CASE Ready(i)
      <4>1. Request("register", s, {}) \in Command
        BY RequestType
      <4> QED
        BY <1>0, <1>2, <3>1, <4>1, SentWire DEF Register, SettledTypes, Phases
    <3>2. CASE ~ Ready(i)
      <4>1. shown' \in [Observers -> BOOLEAN]
        BY <1>0, <1>2, <3>2, PublishType DEF Register, SettledTypes
      <4> QED
        BY <1>0, <1>2, <3>2, <4>1 DEF Register, SettledTypes, Phases, WireType
    <3> QED
      BY <3>1, <3>2
  <2>3. UNCHANGED <<score, client, up, due, beat, auth, observed, count, connected,
                    outcome, view, snap, events>>
    BY <1>2 DEF Register
  <2> QED
    BY <1>0, <2>1, <2>2, <2>3 DEF Types, SettledTypes, ServiceTypes, ScoreType, OtherTypes
<1>3. CASE Unregister(s)
  <2>1. /\ gen' \in [Instances -> Nat] /\ next_gen' \in [Instances -> Nat]
        /\ local' \in [Instances -> SUBSET Sockets]
    BY <1>0, <1>3, MarkType DEF Unregister, LocalAfter, OtherTypes
  <2>2. WireType' /\ phase' \in [Sockets -> Phases]
    <3>1. CASE Ready(i)
      <4>1. Request("unregister", s, {}) \in Command
        BY RequestType
      <4> QED
        BY <1>0, <1>3, <3>1, <4>1, SentWire DEF Unregister, SettledTypes, Phases
    <3>2. CASE ~ Ready(i)
      BY <1>0, <1>3, <3>2 DEF Unregister, SettledTypes, Phases, WireType
    <3> QED
      BY <3>1, <3>2
  <2>3. outcome' \in [Sockets -> Outcome]
    <3>1. Offline \in Outcome
      BY DEF Offline, Outcome
    <3>2. [online |-> LocalAfter(s) # {},
           changed |-> ~ Configured(i) /\ ~ (LocalAfter(s) # {})] \in Outcome
      BY DEF Outcome
    <3> QED
      BY <1>0, <1>3, <3>1, <3>2 DEF Unregister, SettledTypes
  <2>4. UNCHANGED <<score, client, up, due, beat, auth, observed, count, connected,
                    viewVars, events>>
    BY <1>3 DEF Unregister
  <2> QED
    BY <1>0, <2>1, <2>2, <2>3, <2>4
    DEF Types, SettledTypes, ServiceTypes, ScoreType, OtherTypes, viewVars
<1>4. CASE Persisted(s)
  <2>1. gen' \in [Instances -> Nat]
    BY <1>0, <1>4, PruneType DEF Persisted, SettledTypes
  <2>2. shown' \in [Observers -> BOOLEAN]
    BY <1>0, <1>4, PublishType DEF Persisted, SettledTypes
  <2>3. phase' \in [Sockets -> Phases] /\ outcome' \in [Sockets -> Outcome]
    BY <1>0, <1>4 DEF Persisted, SettledTypes, Phases, Outcome, Offline
  <2>4. UNCHANGED <<score, wire, client, up, due, beat, local, auth, observed, count,
                    next_gen, connected, view, snap, events>>
    BY <1>4 DEF Persisted
  <2> QED
    BY <1>0, <2>1, <2>2, <2>3, <2>4
    DEF Types, SettledTypes, ServiceTypes, ScoreType, OtherTypes, WireType
<1> QED
  BY <1>1, <1>2, <1>3, <1>4 DEF SocketStep

LEMMA HappensType ==
  ASSUME NEW event, Happens(event)
  PROVE  events' \in Plans \cup {<<>>}
BY DEF Happens

LEMMA StartListTypes ==
  ASSUME Types, WireType, NEW o \in Observers, StartList(o)
  PROVE  /\ WireType' /\ view' \in [Observers -> Views] /\ snap' \in [Observers -> BOOLEAN]
         /\ UNCHANGED <<score, client, up, due, beat, mapVars, socketVars, shown>>
<1> DEFINE i == Home[o]
<1>0. SettledTypes /\ i \in Instances
  BY Homes DEF Types
<1>1. CASE Ready(i)
  <2>1. Request("list", o, {}) \in Command
    BY RequestType
  <2> QED
    BY <1>0, <1>1, <2>1, SentWire DEF StartList, SettledTypes, Views
<1>2. CASE ~ Ready(i)
  BY <1>0, <1>2 DEF StartList, SettledTypes, Views, WireType
<1> QED
  BY <1>1, <1>2

LEMMA ObserverTypes ==
  ASSUME TypeOK, WireType, MapsInv, NEW o \in Observers,
         Subscribe(o) \/ Resync(o) \/ Unsubscribe(o) \/ Leave(o) \/ Observe(o)
  PROVE  Types' /\ WireType'
<1> DEFINE i == Home[o]
<1>0. Types /\ SettledTypes /\ ServiceTypes /\ ScoreType /\ OtherTypes /\ i \in Instances
  BY TypeParts, Homes DEF Types
<1>1. CASE Subscribe(o) \/ Resync(o)
  <2>1. events' \in Plans \cup {<<>>} /\ StartList(o)
    BY <1>0, <1>1, HappensType DEF Subscribe, Resync, ServiceTypes
  <2>2. /\ WireType' /\ view' \in [Observers -> Views] /\ snap' \in [Observers -> BOOLEAN]
        /\ UNCHANGED <<score, client, up, due, beat, mapVars, socketVars, shown>>
    BY <1>0, <2>1, StartListTypes
  <2> QED
    BY <1>0, <2>1, <2>2
    DEF Types, SettledTypes, ServiceTypes, ScoreType, OtherTypes, mapVars, socketVars
<1>2. CASE Unsubscribe(o) \/ Leave(o)
  <2>1. events' \in Plans \cup {<<>>} /\ view' \in [Observers -> Views] /\ RemoveObserver(o)
    BY <1>0, <1>2, HappensType DEF Unsubscribe, Leave, ServiceTypes, SettledTypes, Views
  <2>2. /\ observed' \subseteq Observers
        /\ count' \in [Instances -> 0..Cardinality(Observers)]
        /\ auth' \in [Instances -> BOOLEAN]
        /\ next_gen' \in [Instances -> Nat] /\ gen' \in [Instances -> Nat]
    BY <1>0, <2>1, RemoveObserverTypes
  <2>3. UNCHANGED <<score, wire, client, up, due, beat, local, socketVars, snap, shown>>
    BY <1>2 DEF Unsubscribe, Leave
  <2> QED
    BY <1>0, <2>1, <2>2, <2>3
    DEF Types, SettledTypes, ServiceTypes, ScoreType, OtherTypes, WireType, socketVars
<1>3. CASE Observe(o)
  <2>1. gen' \in [Instances -> Nat] /\ next_gen' \in [Instances -> Nat]
    BY <1>0, <1>3, MarkType DEF Observe
  <2>2. observed' \subseteq Observers /\ view' \in [Observers -> Views]
        /\ shown' \in [Observers -> BOOLEAN]
    BY <1>0, <1>3 DEF Observe, OtherTypes, SettledTypes, Views
  <2>3. count' \in [Instances -> 0..Cardinality(Observers)]
    <3>1. o \notin observed => count[i] + 1 \in 0..Cardinality(Observers)
      <4>1. o \notin observed => count[i] + 1 <= Cardinality(Observers)
        BY Counted
      <4>2. count[i] \in 0..Cardinality(Observers) /\ Cardinality(Observers) \in Nat
        BY <1>0, FiniteObservers DEF OtherTypes
      <4> QED
        BY <4>1, <4>2
    <3>2. count' = [count EXCEPT ![i] = IF o \in observed THEN @ ELSE @ + 1]
      BY <1>3 DEF Observe
    <3> QED
      BY <1>0, <3>1, <3>2 DEF OtherTypes
  <2>4. auth' \in [Instances -> BOOLEAN]
    <3>1. (auth[i] \/ snap[o]) \in BOOLEAN
      OBVIOUS
    <3>2. auth' = [auth EXCEPT ![i] = auth[i] \/ snap[o]]
      BY <1>3 DEF Observe
    <3> QED
      BY <1>0, <3>1, <3>2 DEF SettledTypes
  <2>5. UNCHANGED <<score, wire, client, up, due, beat, local, socketVars, snap, events>>
    BY <1>3 DEF Observe
  <2> QED
    BY <1>0, <2>1, <2>2, <2>3, <2>4, <2>5
    DEF Types, SettledTypes, ServiceTypes, ScoreType, OtherTypes, WireType, socketVars
<1> QED
  BY <1>1, <1>2, <1>3
LEMMA HeartbeatTypes ==
  ASSUME TypeOK, WireType, NEW i \in Instances, Heartbeat(i)
  PROVE  Types' /\ WireType'
<1>0. Types /\ SettledTypes /\ ServiceTypes /\ ScoreType /\ OtherTypes
  BY TypeParts DEF Types
<1>1. local[i] \in SUBSET Sockets /\ gen[i] \in Nat
  BY <1>0 DEF SettledTypes, OtherTypes
<1>2. due' \subseteq Instances
  BY <1>0 DEF Heartbeat, ServiceTypes
<1>3. WireType' /\ beat' \in [Instances -> Beat]
  <2>1. CASE UNCHANGED <<beat, wire>>
    BY <1>0, <2>1 DEF SettledTypes, WireType
  <2>2. CASE /\ beat' = [beat EXCEPT ![i] =
                  [on |-> TRUE, gen |-> gen[i], members |-> local[i]]]
             /\ Send(i, Request("refresh", i, local[i]))
    <3>1. Request("refresh", i, local[i]) \in Command
      BY <1>1, RequestType
    <3>2. WireType'
      BY <2>2, <3>1, SentWire
    <3>3. [on |-> TRUE, gen |-> gen[i], members |-> local[i]] \in Beat
      BY <1>1 DEF Beat
    <3> QED
      BY <1>0, <2>2, <3>2, <3>3 DEF SettledTypes
  <2> QED
    BY <2>1, <2>2 DEF Heartbeat
<1>4. UNCHANGED <<score, client, up, mapVars, socketVars, viewVars, events>>
  BY DEF Heartbeat
<1> QED
  BY <1>0, <1>2, <1>3, <1>4
  DEF Types, SettledTypes, ServiceTypes, ScoreType, OtherTypes, mapVars, socketVars, viewVars

LEMMA RedisTypes ==
  ASSUME TypeOK, WireType, CommandsInv, NEW i \in Instances,
         RedisStep(i) \/ Timeout(i) \/ Break(i)
  PROVE  Types' /\ WireType'
<1>0. Types /\ SettledTypes /\ ServiceTypes /\ ScoreType /\ OtherTypes
  BY TypeParts DEF Types
<1>1. CASE Execute(i)
  <2>1. PICK n \in DOMAIN wire[i], r \in Command :
          wire' = [wire EXCEPT ![i][n] = r] /\ ScoreType'
    BY <1>0, <1>1, Executed
  <2>2. WireType'
    BY <2>1, OneChanged
  <2>3. UNCHANGED <<client, up, due, beat, mapVars, socketVars, viewVars, events>>
    BY <1>1 DEF Execute
  <2> QED
    BY <1>0, <2>1, <2>2, <2>3
    DEF Types, SettledTypes, ServiceTypes, OtherTypes, mapVars, socketVars, viewVars
<1>2. CASE Deliver(i) \/ Reject(i)
  <2>1. WireType'
    BY <1>2, Delivered, ShorterWire
  <2>2. SettledTypes'
    <3>1. CASE wire[i][1].orphan
      BY <1>0, <1>2, <3>1, Delivered DEF SettledTypes, viewVars
    <3>2. CASE ~ wire[i][1].orphan
      BY <1>0, <1>2, <3>2, Delivered, SettleType
    <3> QED
      BY <3>1, <3>2
  <2>3. UNCHANGED <<score, client, up, due, local, observed, count, next_gen, connected,
                    events>>
    BY <1>2, Delivered
  <2> QED
    BY <1>0, <2>1, <2>2, <2>3 DEF Types, ServiceTypes, ScoreType, OtherTypes
<1>3. CASE Timeout(i)
  <2>1. PICK n \in DOMAIN wire[i], r \in Command :
          /\ wire[i][n] \in Command /\ CommandInv(i, wire[i][n])
          /\ wire' = [wire EXCEPT ![i][n] = r] /\ Settle(i, wire[i][n], FALSE)
    BY <1>3, TimedOut
  <2>2. WireType'
    BY <2>1, OneChanged
  <2>3. SettledTypes'
    BY <1>0, <2>1, SettleType
  <2>4. UNCHANGED <<score, client, up, due, local, observed, count, next_gen, connected>>
        /\ events' \in Plans \cup {<<>>}
    BY <1>3, HappensType DEF Timeout
  <2> QED
    BY <1>0, <2>2, <2>3, <2>4 DEF Types, ServiceTypes, ScoreType, OtherTypes
<1>4. CASE Resend(i) \/ Break(i)
  <2>1. WireType'
    BY <1>4, MarkedWire DEF Resend, Break
  <2>2. client' \in [Instances -> {"none", "ready", "retrying", "failed"}]
        /\ events' \in Plans \cup {<<>>}
    BY <1>0, <1>4, HappensType DEF Resend, Break, ServiceTypes
  <2>3. UNCHANGED <<score, up, due, beat, mapVars, socketVars, viewVars>>
    BY <1>4 DEF Resend, Break
  <2> QED
    BY <1>0, <2>1, <2>2, <2>3
    DEF Types, SettledTypes, ServiceTypes, ScoreType, OtherTypes, mapVars, socketVars, viewVars
<1>5. CASE GiveUp(i) \/ Reconnect(i)
  <2>1. client' \in [Instances -> {"none", "ready", "retrying", "failed"}]
    BY <1>0, <1>5 DEF GiveUp, Reconnect, ServiceTypes
  <2>2. UNCHANGED <<score, wire, up, due, beat, mapVars, socketVars, viewVars, events>>
    BY <1>5 DEF GiveUp, Reconnect
  <2> QED
    BY <1>0, <2>1, <2>2 DEF Types, SettledTypes, ServiceTypes, ScoreType, OtherTypes,
       WireType, mapVars, socketVars, viewVars
<1> QED
  BY <1>1, <1>2, <1>3, <1>4, <1>5 DEF RedisStep

LEMMA ForgetTypes ==
  ASSUME Types, NEW i \in Instances, Forget(i)
  PROVE  /\ local' \in [Instances -> SUBSET Sockets]
         /\ auth' \in [Instances -> BOOLEAN]
         /\ observed' \subseteq Observers
         /\ count' \in [Instances -> 0..Cardinality(Observers)]
         /\ gen' \in [Instances -> Nat] /\ next_gen' \in [Instances -> Nat]
<1>1. 0 \in 0..Cardinality(Observers)
  BY FiniteObservers
<1> QED
  BY <1>1 DEF Forget, Types, SettledTypes, OtherTypes

LEMMA EndTypes ==
  ASSUME TypeOK, WireType, NEW i \in Instances, Crash(i) \/ Close(i)
  PROVE  Types' /\ WireType'
<1>0. Types /\ SettledTypes /\ ServiceTypes /\ ScoreType /\ OtherTypes
  BY TypeParts DEF Types
<1>1. /\ local' \in [Instances -> SUBSET Sockets]
      /\ auth' \in [Instances -> BOOLEAN]
      /\ observed' \subseteq Observers
      /\ count' \in [Instances -> 0..Cardinality(Observers)]
      /\ gen' \in [Instances -> Nat] /\ next_gen' \in [Instances -> Nat]
  BY <1>0, ForgetTypes DEF Crash, Close
<1>2. up' \in [Instances -> {"up", "crashed", "closed"}] /\ due' \subseteq Instances
  BY <1>0 DEF Crash, Close, ServiceTypes
<1>3. CASE Crash(i)
  <2>1. WireType'
    BY <1>3, MarkedWire DEF Crash
  <2>2. /\ beat' \in [Instances -> Beat] /\ connected' \subseteq Sockets
        /\ events' \in Plans \cup {<<>>}
    <3>1. NoBeat \in Beat
      BY DEF NoBeat, Beat
    <3> QED
      BY <1>0, <1>3, <3>1, HappensType DEF Crash, SettledTypes, OtherTypes
  <2>3. phase' \in [Sockets -> Phases] /\ view' \in [Observers -> Views]
    BY <1>0, <1>3 DEF Crash, SettledTypes, Phases, Views
  <2>4. outcome' \in [Sockets -> Outcome]
    BY <1>0, <1>3 DEF Crash, SettledTypes, Offline, Outcome
  <2>5. UNCHANGED <<score, client, snap, shown>>
    BY <1>3 DEF Crash
  <2> QED
    BY <1>0, <1>1, <1>2, <2>1, <2>2, <2>3, <2>4, <2>5
    DEF Types, SettledTypes, ServiceTypes, ScoreType, OtherTypes
<1>4. CASE Close(i)
  <2>1. UNCHANGED <<score, wire, client, beat, socketVars, viewVars, events>>
    BY <1>4 DEF Close
  <2> QED
    BY <1>0, <1>1, <1>2, <2>1 DEF Types, SettledTypes, ServiceTypes, ScoreType, OtherTypes,
       WireType, socketVars, viewVars
<1> QED
  BY <1>3, <1>4

LEMMA TimeTypes ==
  ASSUME TypeOK, WireType, Tick \/ KeyExpires \/ Flush
  PROVE  Types' /\ WireType'
<1>0. Types /\ SettledTypes /\ ServiceTypes /\ ScoreType /\ OtherTypes
  BY TypeParts DEF Types
<1>1. ScoreType'
  <2>1. CASE Tick
    <3>1. \A m \in DOMAIN score : (IF score[m] > 0 THEN score[m] - 1 ELSE 0) \in 0..Life
      BY <1>0, PresenceAssumption DEF ScoreType, PresenceAssumption
    <3> QED
      BY <1>0, <2>1, <3>1 DEF Tick, ScoreType
  <2>2. CASE KeyExpires \/ Flush
    BY <2>2 DEF KeyExpires, Flush, ScoreType
  <2> QED
    BY <2>1, <2>2
<1>2. due' \subseteq Instances /\ events' \in Plans \cup {<<>>}
  BY <1>0, HappensType DEF Tick, KeyExpires, Flush, ServiceTypes
<1>3. UNCHANGED <<wire, client, up, beat, mapVars, socketVars, viewVars>>
  BY DEF Tick, KeyExpires, Flush
<1> QED
  BY <1>0, <1>1, <1>2, <1>3 DEF Types, SettledTypes, ServiceTypes, OtherTypes, WireType,
     mapVars, socketVars, viewVars

LEMMA TypeStep ==
  ASSUME TypeOK, WireType, MapsInv, CommandsInv, Next
  PROVE  TypeOK' /\ WireType'
<1>1. Types' /\ WireType'
  BY SocketTypes, ObserverTypes, HeartbeatTypes, RedisTypes, EndTypes, TimeTypes
  DEF Next, Users, Ends, Faults
<1>2. (Types /\ WireType => TypeOK)'
  BY TypeParts, PTL
<1> QED
  BY <1>1, <1>2
-----------------------------------------------------------------------------
(* What a settled promise changes *)

LEMMA PruneEffect ==
  ASSUME gen \in [Instances -> Nat], NEW i \in Instances, NEW l, NEW c, NEW a,
         Prune(i, l, c, a)
  PROVE  /\ \A j \in Instances \ {i} : gen'[j] = gen[j]
         /\ gen'[i] # 0 => gen'[i] = gen[i] /\ Tracked(l, c, a)
         /\ l # {} => gen'[i] = gen[i]
BY DEF Prune, Tracked

LEMMA SettleEffect ==
  ASSUME Types, NEW i \in Instances, NEW q \in Command, CommandInv(i, q), ~ q.orphan,
         NEW a \in BOOLEAN, Settle(i, q, a)
  PROVE  /\ \A s \in Sockets :
              \/ phase'[s] = phase[s] /\ ~ (s = q.who /\ q.kind \in {"register", "unregister"})
              \/ /\ s = q.who /\ q.kind = "register"
                 /\ phase[s] = "registering" /\ phase'[s] = "registered"
              \/ /\ s = q.who /\ q.kind = "unregister"
                 /\ phase[s] = "unregistering" /\ phase'[s] \in {"persisting", "gone"}
         /\ \A o \in Observers :
              view'[o] = view[o] \/ (view[o] = "listing" /\ view'[o] = "listed")
         /\ \A j \in Instances \ {i} :
              beat'[j] = beat[j] /\ gen'[j] = gen[j] /\ auth'[j] = auth[j]
         /\ IF q.kind = "refresh" THEN beat'[i] = NoBeat ELSE beat'[i] = beat[i]
         /\ local[i] # {} => gen'[i] = gen[i]
         /\ gen'[i] # 0 =>
              /\ gen'[i] = gen[i]
              /\ \/ Tracked(local[i], count[i], auth'[i])
                 \/ q.kind = "unregister" /\ phase'[q.who] = "persisting"
                 \/ q.kind # "unregister" /\ (auth[i] => auth'[i])
         /\ q.kind = "refresh" /\ auth[i] /\ ~ auth'[i] =>
              a /\ ResultHolds(i) /\ ~ q.online
<1>0. SettledTypes /\ q.online \in BOOLEAN /\ q.removed \in BOOLEAN
  BY DEF Types, Command
<1>1. CASE q.kind = "register"
  <2>1. q.who \in Sockets /\ phase[q.who] = "registering"
    BY <1>1, Homes DEF CommandInv
  <2>2. /\ phase' = [phase EXCEPT ![q.who] = "registered"]
        /\ auth' = [auth EXCEPT ![i] = @ \/ a]
        /\ UNCHANGED <<beat, gen, outcome, view, snap>>
    BY <1>1 DEF Settle, Registered
  <2>3. \A s \in Sockets : phase'[s] = IF s = q.who THEN "registered" ELSE phase[s]
    BY <1>0, <2>2 DEF SettledTypes
  <2>4. /\ \A j \in Instances \ {i} : auth'[j] = auth[j]
        /\ auth[i] => auth'[i]
    BY <1>0, <2>2 DEF SettledTypes
  <2> QED
    BY <1>1, <2>1, <2>2, <2>3, <2>4
<1>2. CASE q.kind = "unregister"
  <2>1. q.who \in Sockets /\ phase[q.who] = "unregistering" /\ Home[q.who] = i
    BY <1>2, Homes DEF CommandInv
  <2>2. PICK result \in Outcome, b \in BOOLEAN : Unregistered(q.who, result, b)
    <3>1. /\ [online |-> q.online, changed |-> q.removed /\ ~ q.online] \in Outcome
          /\ outcome[q.who] \in Outcome /\ auth[i] \in BOOLEAN
      BY <1>0, <2>1 DEF Outcome, SettledTypes
    <3> QED
      BY <1>0, <1>2, <3>1 DEF Settle
  <2>3. UNCHANGED <<beat, view>>
    BY <1>2 DEF Settle, viewVars
  <2>4. auth'[i] = b /\ \A j \in Instances \ {i} : auth'[j] = auth[j]
    BY <1>0, <2>1, <2>2 DEF Unregistered, SettledTypes
  <2>5. phase' = [phase EXCEPT ![q.who] = IF result.online THEN "gone" ELSE "persisting"]
    BY <2>2 DEF Unregistered
  <2>6. \A s \in Sockets : phase'[s] =
          IF s = q.who THEN IF result.online THEN "gone" ELSE "persisting" ELSE phase[s]
    BY <1>0, <2>5 DEF SettledTypes
  <2>7. CASE result.online
    <3>1. Prune(i, local[i], count[i], b)
      BY <2>1, <2>2, <2>7 DEF Unregistered
    <3>2. /\ \A j \in Instances \ {i} : gen'[j] = gen[j]
          /\ gen'[i] # 0 => gen'[i] = gen[i] /\ Tracked(local[i], count[i], b)
          /\ local[i] # {} => gen'[i] = gen[i]
      BY <1>0, <3>1, PruneEffect DEF SettledTypes
    <3> QED
      BY <1>2, <2>1, <2>3, <2>4, <2>6, <2>7, <3>2
  <2>8. CASE ~ result.online
    <3>1. gen' = gen
      BY <2>2, <2>8 DEF Unregistered
    <3> QED
      BY <1>2, <2>1, <2>3, <2>4, <2>6, <2>8, <3>1
  <2> QED
    BY <2>7, <2>8
<1>3. CASE q.kind = "refresh"
  <2>1. UNCHANGED <<phase, view>>
    BY <1>3 DEF Settle
  <2>2. beat' = [beat EXCEPT ![i] = NoBeat]
    BY <1>3 DEF Settle, Refreshed
  <2>3. beat'[i] = NoBeat /\ \A j \in Instances \ {i} : beat'[j] = beat[j]
    BY <1>0, <2>2 DEF SettledTypes
  <2>4. CASE a /\ ResultHolds(i)
    <3>1. auth' = [auth EXCEPT ![i] = q.online] /\ Prune(i, local[i], count[i], q.online)
      BY <1>3, <2>4 DEF Settle, Refreshed
    <3>2. auth'[i] = q.online /\ \A j \in Instances \ {i} : auth'[j] = auth[j]
      BY <1>0, <3>1 DEF SettledTypes
    <3>3. /\ \A j \in Instances \ {i} : gen'[j] = gen[j]
          /\ gen'[i] # 0 => gen'[i] = gen[i] /\ Tracked(local[i], count[i], q.online)
          /\ local[i] # {} => gen'[i] = gen[i]
      BY <1>0, <3>1, PruneEffect DEF SettledTypes
    <3> QED
      BY <1>3, <2>1, <2>3, <2>4, <3>2, <3>3
  <2>5. CASE a /\ ~ ResultHolds(i)
    <3>1. auth' = auth /\ Prune(i, local[i], count[i], auth[i])
      BY <1>3, <2>5 DEF Settle, Refreshed
    <3>2. /\ \A j \in Instances \ {i} : gen'[j] = gen[j]
          /\ gen'[i] # 0 => gen'[i] = gen[i] /\ Tracked(local[i], count[i], auth[i])
          /\ local[i] # {} => gen'[i] = gen[i]
      BY <1>0, <3>1, PruneEffect DEF SettledTypes
    <3> QED
      BY <1>3, <2>1, <2>3, <3>1, <3>2
  <2>6. CASE ~ a
    <3>1. auth' = auth /\ gen' = gen
      BY <1>3, <2>6 DEF Settle
    <3> QED
      BY <1>3, <2>1, <2>3, <3>1
  <2> QED
    BY <2>4, <2>5, <2>6
<1>4. CASE q.kind = "list"
  <2>1. UNCHANGED <<beat, auth, gen, phase>>
    BY <1>4 DEF Settle
  <2>2. \A o \in Observers :
          view'[o] = view[o] \/ (view[o] = "listing" /\ view'[o] = "listed")
    BY <1>0, <1>4 DEF Settle, SettledTypes
  <2> QED
    BY <1>4, <2>1, <2>2
<1> QED
  BY <1>1, <1>2, <1>3, <1>4 DEF Command

\* The steps that settle a promise, or drop an answer nobody waits for.
Answers(i) == Deliver(i) \/ Reject(i) \/ Timeout(i)

LEMMA AnswerEffect ==
  ASSUME WireType, CommandsInv, NEW i \in Instances, Answers(i)
  PROVE  /\ UNCHANGED <<score, client, up, due, local, observed, count, next_gen,
                        connected>>
         /\ \/ UNCHANGED <<beat, auth, gen, phase, view>>
            \/ \E q \in Command, a \in BOOLEAN :
                 /\ CommandInv(i, q) /\ ~ q.orphan /\ (a => q.state = "done")
                 /\ Settle(i, q, a)
<1>1. CASE Deliver(i) \/ Reject(i)
  <2>1. CASE wire[i][1].orphan
    BY <1>1, <2>1, Delivered DEF viewVars
  <2>2. CASE ~ wire[i][1].orphan
    BY <1>1, <2>2, Delivered
  <2> QED
    BY <2>1, <2>2
<1>2. CASE Timeout(i)
  <2>1. PICK n \in DOMAIN wire[i] :
          /\ wire[i][n] \in Command /\ CommandInv(i, wire[i][n]) /\ ~ wire[i][n].orphan
          /\ Settle(i, wire[i][n], FALSE)
    BY <1>2, TimedOut
  <2> QED
    BY <1>2, <2>1 DEF Timeout
<1> QED
  BY <1>1, <1>2 DEF Answers

-----------------------------------------------------------------------------
(* The maps *)

\* Nothing enters or leaves the maps.
LEMMA MapsFrame ==
  ASSUME MapsInv, TypeOK, UNCHANGED <<local, observed, count>>,
         \A s \in Sockets : phase'[s] \in Present <=> phase[s] \in Present,
         \A o \in Observers : view'[o] = "gone" => view[o] = "gone"
  PROVE  MapsInv'
<1>1. observed \subseteq Observers
  BY DEF TypeOK
<1> QED
  BY <1>1 DEF MapsInv

LEMMA MapsOfSockets ==
  ASSUME TypeOK, MapsInv, NEW s \in Sockets,
         Connect(s) \/ Disconnect(s) \/ SocketStep(s)
  PROVE  MapsInv'
<1> DEFINE i == Home[s]
<1>0. i \in Instances /\ s \in SocketsOf(i) /\ \A t \in Sockets : Home[t] \in Instances
  BY Homes
<1>1. phase \in [Sockets -> Phases] /\ local \in [Instances -> SUBSET Sockets]
  BY TypeParts DEF Types, SettledTypes, OtherTypes
<1>2. \A t \in Sockets : t # s => phase'[t] = phase[t]
  BY <1>1 DEF Connect, Disconnect, SocketStep, Abort, Register, Registered, Unregister,
     Persisted
<1>3. UNCHANGED <<observed, count, view>>
  BY DEF Connect, Disconnect, SocketStep, Abort, Register, Unregister, Persisted, mapVars,
     viewVars
<1>4. CASE Connect(s) \/ Disconnect(s) \/ Abort(s) \/ Persisted(s)
  <2>1. (phase'[s] \in Present <=> phase[s] \in Present)
    BY <1>1, <1>4 DEF Connect, Disconnect, Abort, Persisted, Present
  <2>2. UNCHANGED local
    BY <1>4 DEF Connect, Disconnect, Abort, Persisted, mapVars
  <2> QED
    BY <1>2, <1>3, <2>1, <2>2, MapsFrame
<1>5. CASE Register(s)
  <2>1. phase'[s] \in Present
    BY <1>1, <1>5 DEF Register, Present
  <2>2. /\ local'[i] = local[i] \cup {s}
        /\ \A j \in Instances \ {i} : local'[j] = local[j]
    BY <1>0, <1>1, <1>5 DEF Register
  <2>3. \A t \in Sockets : t \in local'[Home[t]] <=> phase'[t] \in Present
    BY <1>0, <1>2, <2>1, <2>2 DEF MapsInv
  <2>4. \A j \in Instances : local'[j] \subseteq SocketsOf(j)
    BY <1>0, <2>2 DEF MapsInv
  <2> QED
    BY <1>3, <2>3, <2>4 DEF MapsInv
<1>6. CASE Unregister(s)
  <2>1. phase'[s] \notin Present
    BY <1>1, <1>6 DEF Unregister, Present
  <2>2. /\ local'[i] = local[i] \ {s}
        /\ \A j \in Instances \ {i} : local'[j] = local[j]
    BY <1>0, <1>1, <1>6 DEF Unregister, LocalAfter
  <2>3. \A t \in Sockets : t \in local'[Home[t]] <=> phase'[t] \in Present
    BY <1>0, <1>2, <2>1, <2>2 DEF MapsInv
  <2>4. \A j \in Instances : local'[j] \subseteq SocketsOf(j)
    BY <1>0, <2>2 DEF MapsInv
  <2> QED
    BY <1>3, <2>3, <2>4 DEF MapsInv
<1> QED
  BY <1>4, <1>5, <1>6 DEF SocketStep

LEMMA MapsOfObservers ==
  ASSUME TypeOK, MapsInv, NEW o \in Observers,
         Subscribe(o) \/ Resync(o) \/ Unsubscribe(o) \/ Leave(o) \/ Observe(o)
  PROVE  MapsInv'
<1> DEFINE i == Home[o]
<1>0. /\ i \in Instances /\ observed \subseteq Observers
      /\ view \in [Observers -> Views] /\ count \in [Instances -> 0..Cardinality(Observers)]
  BY Homes, TypeParts DEF Types, SettledTypes, OtherTypes
<1>1. CASE Subscribe(o) \/ Resync(o)
  <2>1. StartList(o)
    BY <1>1 DEF Subscribe, Resync
  <2>2. UNCHANGED <<local, observed, count, phase>>
    BY <2>1 DEF StartList, mapVars, socketVars
  <2>3. \A p \in Observers : view'[p] = "gone" => view[p] = "gone"
    BY <1>0, <2>1 DEF StartList
  <2> QED
    BY <2>2, <2>3, MapsFrame
<1>2. CASE Unsubscribe(o) \/ Leave(o)
  <2>1. RemoveObserver(o) /\ UNCHANGED <<local, phase>>
    BY <1>2 DEF Unsubscribe, Leave, socketVars
  <2>2. observed' = observed \ {o}
    BY <2>1 DEF RemoveObserver
  <2>3. \A p \in Observers \ {o} : view'[p] = view[p]
    BY <1>0, <1>2 DEF Unsubscribe, Leave
  <2>4. \A j \in Instances : count'[j] = Cardinality(observed' \cap ObserversOf(j))
    <3>1. CASE o \in observed
      <4>1. /\ count'[i] = count[i] - 1
            /\ \A j \in Instances \ {i} : count'[j] = count[j]
        BY <1>0, <2>1, <3>1 DEF RemoveObserver
      <4>2. Cardinality(observed' \cap ObserversOf(i)) = count[i] - 1
        BY <2>2, <3>1, Counted
      <4>3. \A j \in Instances \ {i} :
              observed' \cap ObserversOf(j) = observed \cap ObserversOf(j)
        BY <2>2, Counted
      <4> QED
        BY <4>1, <4>2, <4>3 DEF MapsInv
    <3>2. CASE o \notin observed
      <4>1. count' = count /\ observed' = observed
        BY <2>1, <2>2, <3>2 DEF RemoveObserver
      <4> QED
        BY <4>1 DEF MapsInv
    <3> QED
      BY <3>1, <3>2
  <2> QED
    BY <1>0, <2>1, <2>2, <2>3, <2>4 DEF MapsInv
<1>3. CASE Observe(o)
  <2>1. observed' = observed \cup {o} /\ UNCHANGED <<local, phase>>
    BY <1>3 DEF Observe, socketVars
  <2>2. \A p \in Observers : view'[p] = IF p = o THEN "in" ELSE view[p]
    BY <1>0, <1>3 DEF Observe
  <2>3. \A j \in Instances : count'[j] = Cardinality(observed' \cap ObserversOf(j))
    <3>1. CASE o \notin observed
      <4>1. /\ count'[i] = count[i] + 1
            /\ \A j \in Instances \ {i} : count'[j] = count[j]
        BY <1>0, <1>3, <3>1 DEF Observe
      <4>2. Cardinality(observed' \cap ObserversOf(i)) = count[i] + 1
        BY <2>1, <3>1, Counted
      <4>3. \A j \in Instances \ {i} :
              observed' \cap ObserversOf(j) = observed \cap ObserversOf(j)
        BY <2>1, Counted
      <4> QED
        BY <4>1, <4>2, <4>3 DEF MapsInv
    <3>2. CASE o \in observed
      <4>1. \A j \in Instances : count'[j] = count[j]
        BY <1>0, <1>3, <3>2 DEF Observe
      <4>2. observed' = observed
        BY <2>1, <3>2
      <4> QED
        BY <4>1, <4>2 DEF MapsInv
    <3> QED
      BY <3>1, <3>2
  <2> QED
    BY <1>0, <2>1, <2>2, <2>3 DEF MapsInv
<1> QED
  BY <1>1, <1>2, <1>3

LEMMA MapsOfEnds ==
  ASSUME TypeOK, MapsInv, NEW i \in Instances, Crash(i) \/ Close(i)
  PROVE  MapsInv'
<1>0. /\ phase \in [Sockets -> Phases] /\ observed \subseteq Observers
      /\ view \in [Observers -> Views]
      /\ local \in [Instances -> SUBSET Sockets]
      /\ count \in [Instances -> 0..Cardinality(Observers)]
  BY TypeParts DEF Types, SettledTypes, OtherTypes
<1>1. /\ local'[i] = {} /\ \A j \in Instances \ {i} : local'[j] = local[j]
      /\ observed' = observed \ ObserversOf(i)
      /\ count'[i] = 0 /\ \A j \in Instances \ {i} : count'[j] = count[j]
  BY <1>0 DEF Crash, Close, Forget
<1>2. \A j \in Instances : count'[j] = Cardinality(observed' \cap ObserversOf(j))
  <2>1. observed' \cap ObserversOf(i) = {}
    BY <1>1
  <2>2. \A j \in Instances \ {i} :
          observed' \cap ObserversOf(j) = observed \cap ObserversOf(j)
    BY <1>1, Homes
  <2> QED
    BY <1>1, <2>1, <2>2, FS_EmptySet DEF MapsInv
<1>3. \A s \in Sockets :
        IF Home[s] = i THEN phase'[s] \notin Present ELSE phase'[s] = phase[s]
  <2>1. CASE Crash(i)
    BY <1>0, <2>1, Homes DEF Crash, SocketsOf, Present
  <2>2. CASE Close(i)
    BY <1>0, <2>2, Homes DEF Close, SocketsOf, Present, socketVars
  <2> QED
    BY <2>1, <2>2
<1>4. \A s \in Sockets : s \in local'[Home[s]] <=> phase'[s] \in Present
  BY <1>1, <1>3, Homes DEF MapsInv
<1>5. \A o \in observed' : view'[o] # "gone"
  <2>1. CASE Crash(i)
    BY <1>0, <1>1, <2>1 DEF Crash, MapsInv
  <2>2. CASE Close(i)
    BY <1>1, <2>2 DEF Close, MapsInv, viewVars
  <2> QED
    BY <2>1, <2>2
<1>6. \A j \in Instances : local'[j] \subseteq SocketsOf(j)
  BY <1>1 DEF MapsInv
<1> QED
  BY <1>2, <1>4, <1>5, <1>6 DEF MapsInv

LEMMA MapsOfAnswers ==
  ASSUME TypeOK, WireType, MapsInv, CommandsInv, NEW i \in Instances, Answers(i)
  PROVE  MapsInv'
<1>0. Types
  BY TypeParts
<1>1. UNCHANGED <<local, observed, count>>
  BY AnswerEffect
<1>2. CASE UNCHANGED <<phase, view>>
  BY <1>1, <1>2, MapsFrame
<1>3. ASSUME NEW q \in Command, NEW a \in BOOLEAN, CommandInv(i, q), ~ q.orphan,
             Settle(i, q, a)
      PROVE  MapsInv'
  <2>1. \A s \in Sockets : phase'[s] \in Present <=> phase[s] \in Present
    BY <1>0, <1>3, SettleEffect DEF Present
  <2>2. \A o \in Observers : view'[o] = "gone" => view[o] = "gone"
    BY <1>0, <1>3, SettleEffect
  <2> QED
    BY <1>1, <2>1, <2>2, MapsFrame
<1> QED
  BY <1>2, <1>3, AnswerEffect

\* The steps that are about Redis, its connections, time, and the timers.
LEMMA QuietSteps ==
  ASSUME \/ \E i \in Instances :
              \/ Heartbeat(i) \/ Execute(i) \/ Resend(i) \/ GiveUp(i) \/ Reconnect(i)
              \/ Break(i)
         \/ Tick \/ KeyExpires \/ Flush
  PROVE  UNCHANGED <<up, mapVars, socketVars, viewVars>>
BY DEF Heartbeat, Execute, Resend, GiveUp, Reconnect, Break, Tick, KeyExpires, Flush

LEMMA MapsStep ==
  ASSUME TypeOK, WireType, MapsInv, CommandsInv, Next
  PROVE  MapsInv'
<1>1. ASSUME UNCHANGED <<mapVars, socketVars, viewVars>>
      PROVE  MapsInv'
  BY <1>1, MapsFrame DEF mapVars, socketVars, viewVars
<1> QED
  BY <1>1, MapsOfSockets, MapsOfObservers, MapsOfEnds, MapsOfAnswers, QuietSteps
  DEF Next, Users, Ends, Faults, RedisStep, Answers
-----------------------------------------------------------------------------
(* Generations and heartbeats *)

GenOf(i) ==
  /\ gen[i] <= next_gen[i]
  /\ local[i] # {} => gen[i] # 0
  /\ gen[i] # 0 => \/ Tracked(local[i], count[i], auth[i])
                   \/ \E s \in SocketsOf(i) : phase[s] \in Leaving

BeatOf(i) ==
  beat[i].on =>
    /\ beat[i].gen <= next_gen[i]
    /\ gen[i] = beat[i].gen /\ local[i] # {} => local[i] = beat[i].members

GenBeat(i) == GenOf(i) /\ BeatOf(i)

LEMMA GenBeatParts ==
  /\ GenInv <=> \A i \in Instances : GenOf(i)
  /\ BeatInv <=> \A i \in Instances : BeatOf(i)
BY DEF GenInv, BeatInv, GenOf, BeatOf

LEMMA GenTypes ==
  ASSUME Types, NEW i \in Instances
  PROVE  /\ gen[i] \in Nat /\ next_gen[i] \in Nat /\ count[i] \in Nat
         /\ beat[i] \in Beat /\ beat[i].gen \in Nat /\ beat[i].on \in BOOLEAN
         /\ auth[i] \in BOOLEAN
         /\ DOMAIN gen = Instances /\ DOMAIN next_gen = Instances
<1>1. beat[i] \in Beat
  BY DEF Types, SettledTypes
<1>2. count[i] \in Nat
  BY FiniteObservers DEF Types, OtherTypes
<1> QED
  BY <1>1, <1>2 DEF Types, SettledTypes, OtherTypes, Beat

\* An instance the step does not concern.
LEMMA GenFrame ==
  ASSUME NEW i \in Instances, GenBeat(i),
         local'[i] = local[i], count'[i] = count[i], auth'[i] = auth[i],
         gen'[i] = gen[i], next_gen'[i] = next_gen[i], beat'[i] = beat[i],
         \A s \in SocketsOf(i) : phase[s] \in Leaving => phase'[s] \in Leaving
  PROVE  GenBeat(i)'
<1>1. SocketsOf(i)' = SocketsOf(i)
  BY DEF SocketsOf
<1> QED
  BY <1>1 DEF GenBeat, GenOf, BeatOf

\* What is tracked changes, and is marked: the heartbeat in flight is outdated.
LEMMA GenMarked ==
  ASSUME Types, NEW i \in Instances, GenBeat(i), beat'[i] = beat[i],
         gen'[i] = next_gen[i] + 1, next_gen'[i] = next_gen[i] + 1,
         \/ Tracked(local[i], count[i], auth[i])'
         \/ \E s \in SocketsOf(i) : phase'[s] \in Leaving
  PROVE  GenBeat(i)'
<1>1. SocketsOf(i)' = SocketsOf(i)
  BY DEF SocketsOf
<1>2. gen'[i] <= next_gen'[i] /\ gen'[i] # 0
  BY GenTypes
<1>3. GenOf(i)'
  BY <1>1, <1>2 DEF GenOf
<1>4. BeatOf(i)'
  BY GenTypes DEF BeatOf, GenBeat
<1> QED
  BY <1>3, <1>4 DEF GenBeat

\* The generation may be pruned.
LEMMA GenPruned ==
  ASSUME Types, NEW i \in Instances, GenBeat(i),
         local'[i] = local[i], next_gen'[i] = next_gen[i],
         beat'[i] = beat[i] \/ ~ beat'[i].on,
         local[i] # {} => gen'[i] = gen[i],
         gen'[i] # 0 =>
           /\ gen'[i] = gen[i]
           /\ \/ Tracked(local[i], count[i], auth[i])'
              \/ \E s \in SocketsOf(i) : phase'[s] \in Leaving
  PROVE  GenBeat(i)'
<1>1. SocketsOf(i)' = SocketsOf(i)
  BY DEF SocketsOf
<1>2. gen'[i] <= next_gen'[i]
  BY GenTypes DEF GenBeat, GenOf
<1>3. GenOf(i)'
  BY <1>1, <1>2 DEF GenBeat, GenOf
<1>4. BeatOf(i)'
  BY DEF GenBeat, BeatOf
<1> QED
  BY <1>3, <1>4 DEF GenBeat

LEMMA GenOfSockets ==
  ASSUME TypeOK, MapsInv, \A j \in Instances : GenBeat(j), NEW s \in Sockets,
         Connect(s) \/ Disconnect(s) \/ SocketStep(s), NEW j \in Instances
  PROVE  GenBeat(j)'
<1> DEFINE i == Home[s]
<1>0. Types /\ i \in Instances /\ s \in SocketsOf(i) /\ phase \in [Sockets -> Phases]
      /\ \A t \in SocketsOf(j) : t \in Sockets
  BY TypeParts, Homes DEF Types, SettledTypes
<1>1. \A t \in Sockets : t # s => phase'[t] = phase[t]
  BY <1>0 DEF Connect, Disconnect, SocketStep, Abort, Register, Registered, Unregister,
     Persisted
<1>2. UNCHANGED <<beat, auth, count>>
  BY DEF Connect, Disconnect, SocketStep, Abort, Register, Unregister, Persisted, mapVars
<1>3. CASE Connect(s) \/ Disconnect(s) \/ Abort(s)
  <2>1. UNCHANGED <<local, gen, next_gen>>
    BY <1>3 DEF Connect, Disconnect, Abort, mapVars
  <2>2. phase[s] \in Leaving => phase'[s] \in Leaving
    BY <1>0, <1>3 DEF Connect, Disconnect, Abort, Leaving
  <2> QED
    BY <1>0, <1>1, <1>2, <2>1, <2>2, GenFrame
<1>4. CASE Register(s) \/ Unregister(s)
  <2>1. Mark(i) /\ \A k \in Instances \ {i} : local'[k] = local[k]
    BY <1>0, <1>4 DEF Register, Unregister, LocalAfter, Types, OtherTypes
  <2>2. /\ gen'[i] = next_gen[i] + 1 /\ next_gen'[i] = next_gen[i] + 1
        /\ \A k \in Instances \ {i} : gen'[k] = gen[k] /\ next_gen'[k] = next_gen[k]
    BY <1>0, <2>1, MarkType
  <2>3. CASE j # i
    <3>1. s \notin SocketsOf(j)
      BY <2>3, Homes
    <3> QED
      BY <1>0, <1>1, <1>2, <2>1, <2>2, <2>3, <3>1, GenFrame
  <2>4. CASE j = i
    <3>1. local'[i] # {} \/ phase'[s] \in Leaving
      <4>1. CASE Register(s)
        BY <1>0, <4>1 DEF Register, Types, OtherTypes
      <4>2. CASE Unregister(s)
        <5>1. local'[i] = LocalAfter(s)
          BY <1>0, <4>2 DEF Unregister, Types, OtherTypes
        <5>2. LocalAfter(s) = {} => phase'[s] \in Leaving
          BY <1>0, <4>2 DEF Unregister, Leaving
        <5> QED
          BY <5>1, <5>2
      <4> QED
        BY <1>4, <4>1, <4>2
    <3>2. Tracked(local[i], count[i], auth[i])' \/ \E t \in SocketsOf(i) : phase'[t] \in Leaving
      BY <1>0, <3>1 DEF Tracked
    <3> QED
      BY <1>0, <1>2, <2>2, <2>4, <3>2, GenMarked
  <2> QED
    BY <2>3, <2>4
<1>5. CASE Persisted(s)
  <2>1. Prune(i, local[i], count[i], auth[i]) /\ UNCHANGED <<local, next_gen>>
    BY <1>5 DEF Persisted
  <2>2. /\ \A k \in Instances \ {i} : gen'[k] = gen[k]
        /\ gen'[i] # 0 => gen'[i] = gen[i] /\ Tracked(local[i], count[i], auth[i])
        /\ local[i] # {} => gen'[i] = gen[i]
    BY <1>0, <2>1, PruneEffect DEF Types, SettledTypes
  <2>3. CASE j # i
    <3>1. s \notin SocketsOf(j)
      BY <2>3, Homes
    <3> QED
      BY <1>0, <1>1, <1>2, <2>1, <2>2, <2>3, <3>1, GenFrame
  <2>4. CASE j = i
    <3>1. gen'[i] # 0 => Tracked(local[i], count[i], auth[i])'
      BY <1>2, <2>1, <2>2
    <3> QED
      BY <1>0, <1>2, <2>1, <2>2, <2>4, <3>1, GenPruned
  <2> QED
    BY <2>3, <2>4
<1> QED
  BY <1>3, <1>4, <1>5 DEF SocketStep

LEMMA GenOfObservers ==
  ASSUME TypeOK, MapsInv, \A j \in Instances : GenBeat(j), NEW o \in Observers,
         Subscribe(o) \/ Resync(o) \/ Unsubscribe(o) \/ Leave(o) \/ Observe(o),
         NEW j \in Instances
  PROVE  GenBeat(j)'
<1> DEFINE i == Home[o]
<1>0. Types /\ i \in Instances /\ count \in [Instances -> 0..Cardinality(Observers)]
  BY TypeParts, Homes DEF Types, OtherTypes
<1>1. CASE Subscribe(o) \/ Resync(o)
  <2>1. UNCHANGED <<local, count, auth, gen, next_gen, beat, phase>>
    BY <1>1 DEF Subscribe, Resync, StartList, mapVars, socketVars
  <2> QED
    BY <2>1, GenFrame
<1>2. CASE Unsubscribe(o) \/ Leave(o)
  <2>1. RemoveObserver(o) /\ UNCHANGED <<local, phase, beat>>
    BY <1>2 DEF Unsubscribe, Leave, socketVars
  <2>2. CASE o \notin observed
    <3>1. UNCHANGED <<count, auth, gen, next_gen>>
      BY <2>1, <2>2 DEF RemoveObserver
    <3> QED
      BY <2>1, <3>1, GenFrame
  <2>3. CASE o \in observed /\ j # i
    <3>1. count'[j] = count[j] /\ auth'[j] = auth[j] /\ gen'[j] = gen[j]
          /\ next_gen'[j] = next_gen[j]
      BY <1>0, <2>1, <2>3 DEF RemoveObserver, Types, SettledTypes, OtherTypes
    <3> QED
      BY <2>1, <3>1, GenFrame
  <2>4. CASE o \in observed /\ j = i
    <3> DEFINE keeps == count[i] > 1 \/ local[i] # {}
    <3>1. /\ count'[i] = count[i] - 1 /\ next_gen'[i] = next_gen[i] + 1
          /\ gen'[i] = IF keeps THEN next_gen[i] + 1 ELSE 0
      BY <1>0, <2>1, <2>4 DEF RemoveObserver, Types, SettledTypes, OtherTypes
    <3>2. CASE keeps
      <4>1. count'[i] > 0 \/ local'[i] # {}
        BY <1>0, <2>1, <3>1, <3>2, GenTypes
      <4>2. Tracked(local[i], count[i], auth[i])'
        BY <4>1 DEF Tracked
      <4> QED
        BY <1>0, <2>1, <2>4, <3>1, <3>2, <4>2, GenMarked
    <3>3. CASE ~ keeps
      <4>1. gen'[i] = 0 /\ local'[i] = {}
        BY <2>1, <3>1, <3>3
      <4>2. GenOf(i)'
        BY <1>0, <3>1, <4>1, GenTypes DEF GenOf
      <4>3. BeatOf(i)'
        BY <1>0, <2>1, <2>4, <3>1, <4>1, GenTypes DEF GenBeat, BeatOf
      <4> QED
        BY <2>4, <4>2, <4>3 DEF GenBeat
    <3> QED
      BY <3>2, <3>3
  <2> QED
    BY <2>2, <2>3, <2>4
<1>3. CASE Observe(o)
  <2>1. Mark(i) /\ UNCHANGED <<local, phase, beat>>
    BY <1>3 DEF Observe, socketVars
  <2>2. /\ gen'[i] = next_gen[i] + 1 /\ next_gen'[i] = next_gen[i] + 1
        /\ \A k \in Instances \ {i} : gen'[k] = gen[k] /\ next_gen'[k] = next_gen[k]
    BY <1>0, <2>1, MarkType
  <2>3. CASE j # i
    <3>1. count'[j] = count[j] /\ auth'[j] = auth[j]
      BY <1>0, <1>3, <2>3 DEF Observe, Types, SettledTypes
    <3> QED
      BY <2>1, <2>2, <2>3, <3>1, GenFrame
  <2>4. CASE j = i
    <3>1. count'[i] = IF o \in observed THEN count[i] ELSE count[i] + 1
      BY <1>0, <1>3 DEF Observe
    <3>2. o \in observed => count[i] > 0
      BY Counted
    <3>3. count'[i] > 0
      BY <1>0, <3>1, <3>2, GenTypes
    <3>4. Tracked(local[i], count[i], auth[i])'
      BY <3>3 DEF Tracked
    <3> QED
      BY <1>0, <2>1, <2>2, <2>4, <3>4, GenMarked
  <2> QED
    BY <2>3, <2>4
<1> QED
  BY <1>1, <1>2, <1>3

LEMMA GenOfEnds ==
  ASSUME TypeOK, \A j \in Instances : GenBeat(j), NEW i \in Instances,
         Crash(i) \/ Close(i), NEW j \in Instances
  PROVE  GenBeat(j)'
<1>0. Types
  BY TypeParts
<1>1. CASE j = i
  <2>1. local'[i] = {} /\ gen'[i] = 0 /\ next_gen'[i] = 0
    BY <1>0 DEF Crash, Close, Forget, Types, SettledTypes, OtherTypes
  <2>2. ~ beat'[i].on
    BY <1>0 DEF Crash, Close, NoBeat, Types, SettledTypes
  <2> QED
    BY <1>1, <2>1, <2>2 DEF GenBeat, GenOf, BeatOf
<1>2. CASE j # i
  <2>1. /\ local'[j] = local[j] /\ count'[j] = count[j] /\ auth'[j] = auth[j]
        /\ gen'[j] = gen[j] /\ next_gen'[j] = next_gen[j]
    BY <1>0, <1>2 DEF Crash, Close, Forget, Types, SettledTypes, OtherTypes
  <2>2. beat'[j] = beat[j]
    BY <1>0, <1>2 DEF Crash, Close, Types, SettledTypes
  <2>3. \A s \in SocketsOf(j) : phase'[s] = phase[s]
    BY <1>0, <1>2, Homes DEF Crash, Close, socketVars, Types, SettledTypes
  <2> QED
    BY <2>1, <2>2, <2>3, GenFrame
<1> QED
  BY <1>1, <1>2

LEMMA GenOfAnswers ==
  ASSUME TypeOK, WireType, CommandsInv, \A j \in Instances : GenBeat(j),
         NEW i \in Instances, Answers(i), NEW j \in Instances
  PROVE  GenBeat(j)'
<1>0. Types
  BY TypeParts
<1>1. UNCHANGED <<local, count, next_gen>>
  BY AnswerEffect
<1>2. CASE UNCHANGED <<beat, auth, gen, phase, view>>
  BY <1>1, <1>2, GenFrame
<1>3. ASSUME NEW q \in Command, NEW a \in BOOLEAN, CommandInv(i, q), ~ q.orphan,
             Settle(i, q, a)
      PROVE  GenBeat(j)'
  <2>1. \A s \in Sockets :
          \/ phase'[s] = phase[s] /\ ~ (s = q.who /\ q.kind \in {"register", "unregister"})
          \/ /\ s = q.who /\ q.kind = "register"
             /\ phase[s] = "registering" /\ phase'[s] = "registered"
          \/ /\ s = q.who /\ q.kind = "unregister"
             /\ phase[s] = "unregistering" /\ phase'[s] \in {"persisting", "gone"}
    BY <1>0, <1>3, SettleEffect
  <2>2. CASE j # i
    <3>1. beat'[j] = beat[j] /\ gen'[j] = gen[j] /\ auth'[j] = auth[j]
      BY <1>0, <1>3, <2>2, SettleEffect
    <3>2. \A s \in SocketsOf(j) : phase[s] \in Leaving => phase'[s] \in Leaving
      <4>1. q.kind = "unregister" => q.who \notin SocketsOf(j)
        BY <1>3, <2>2, Homes DEF CommandInv
      <4> QED
        BY <2>1, <4>1, Homes DEF Leaving
    <3> QED
      BY <1>1, <3>1, <3>2, GenFrame
  <2>3. CASE j = i
    <3>1. beat'[i] = beat[i] \/ ~ beat'[i].on
      BY <1>0, <1>3, SettleEffect DEF NoBeat
    <3>2. local[i] # {} => gen'[i] = gen[i]
      BY <1>0, <1>3, SettleEffect
    <3>3. ASSUME gen'[i] # 0
          PROVE  /\ gen'[i] = gen[i]
                 /\ \/ Tracked(local[i], count[i], auth[i])'
                    \/ \E s \in SocketsOf(i) : phase'[s] \in Leaving
      <4>1. /\ gen'[i] = gen[i]
            /\ \/ Tracked(local[i], count[i], auth'[i])
               \/ q.kind = "unregister" /\ phase'[q.who] = "persisting"
               \/ q.kind # "unregister" /\ (auth[i] => auth'[i])
        BY <1>0, <1>3, <3>3, SettleEffect
      <4>2. CASE Tracked(local[i], count[i], auth'[i])
        BY <1>1, <4>1, <4>2 DEF Tracked
      <4>3. CASE q.kind = "unregister" /\ phase'[q.who] = "persisting"
        BY <1>3, <4>1, <4>3 DEF CommandInv, Leaving
      <4>4. CASE q.kind # "unregister" /\ (auth[i] => auth'[i])
        <5>1. Tracked(local[i], count[i], auth[i])
              \/ \E s \in SocketsOf(i) : phase[s] \in Leaving
          BY <2>3, <3>3, <4>1 DEF GenBeat, GenOf
        <5>2. Tracked(local[i], count[i], auth[i]) => Tracked(local[i], count[i], auth[i])'
          BY <1>1, <4>4 DEF Tracked
        <5>3. \A s \in SocketsOf(i) : phase[s] \in Leaving => phase'[s] \in Leaving
          BY <2>1, <4>4, Homes DEF Leaving
        <5> QED
          BY <4>1, <5>1, <5>2, <5>3
      <4> QED
        BY <4>1, <4>2, <4>3, <4>4
    <3> QED
      BY <1>0, <1>1, <2>3, <3>1, <3>2, <3>3, GenPruned
  <2> QED
    BY <2>2, <2>3
<1> QED
  BY <1>2, <1>3, AnswerEffect

LEMMA GenOfHeartbeats ==
  ASSUME TypeOK, \A j \in Instances : GenBeat(j), NEW i \in Instances, Heartbeat(i),
         NEW j \in Instances
  PROVE  GenBeat(j)'
<1>0. Types
  BY TypeParts
<1>1. UNCHANGED <<local, count, auth, gen, next_gen, phase>>
  BY DEF Heartbeat, mapVars, socketVars
<1>2. CASE beat'[j] = beat[j]
  BY <1>1, <1>2, GenFrame
<1>3. CASE beat'[j] # beat[j]
  <2>1. /\ j = i
        /\ beat'[i] = [on |-> TRUE, gen |-> gen[i], members |-> local[i]]
    BY <1>0, <1>3 DEF Heartbeat, Types, SettledTypes
  <2>2. GenOf(j)'
    <3>1. SocketsOf(j)' = SocketsOf(j)
      BY DEF SocketsOf
    <3> QED
      BY <1>1, <3>1 DEF GenBeat, GenOf
  <2>3. BeatOf(j)'
    BY <1>1, <2>1 DEF GenBeat, GenOf, BeatOf
  <2> QED
    BY <2>2, <2>3 DEF GenBeat
<1> QED
  BY <1>2, <1>3

LEMMA GenStep ==
  ASSUME TypeOK, WireType, MapsInv, GenInv, BeatInv, CommandsInv, Next
  PROVE  GenInv' /\ BeatInv'
<1>1. \A j \in Instances : GenBeat(j)
  BY GenBeatParts DEF GenBeat
<1>2. ASSUME UNCHANGED <<mapVars, socketVars, beat>>, NEW j \in Instances
      PROVE  GenBeat(j)'
  <2>1. UNCHANGED <<local, count, auth, gen, next_gen, beat, phase>>
    BY <1>2 DEF mapVars, socketVars
  <2> QED
    BY <1>1, <2>1, GenFrame
<1>3. ASSUME \/ \E i \in Instances :
                  Execute(i) \/ Resend(i) \/ GiveUp(i) \/ Reconnect(i) \/ Break(i)
             \/ Tick \/ KeyExpires \/ Flush
      PROVE  UNCHANGED <<mapVars, socketVars, beat>>
  BY <1>3 DEF Execute, Resend, GiveUp, Reconnect, Break, Tick, KeyExpires, Flush
<1>4. \A j \in Instances : GenBeat(j)'
  BY <1>1, <1>2, <1>3, GenOfSockets, GenOfObservers, GenOfEnds, GenOfAnswers,
     GenOfHeartbeats
  DEF Next, Users, Ends, Faults, RedisStep, Answers
<1>5. (\A j \in Instances : GenOf(j)') /\ (\A j \in Instances : BeatOf(j)')
  BY <1>4 DEF GenBeat
<1>6. GenInv' <=> \A j \in Instances : GenOf(j)'
  BY DEF GenInv, GenOf
<1>7. BeatInv' <=> \A j \in Instances : BeatOf(j)'
  BY DEF BeatInv, BeatOf
<1> QED
  BY <1>5, <1>6, <1>7

-----------------------------------------------------------------------------
(* The commands and their callers *)

CommandsOf(i) == \A n \in DOMAIN wire[i] : CommandInv(i, wire[i][n])

OneEachOf(i) == \A n, k \in DOMAIN wire[i] : Same(wire[i][n], wire[i][k]) => n = k

Wires(i) == CommandsOf(i) /\ OneEachOf(i)

LEMMA WiresParts ==
  /\ CommandsInv /\ OneEach => \A i \in Instances : Wires(i)
  /\ (\A i \in Instances : Wires(i)') => CommandsInv' /\ OneEach'
BY DEF CommandsInv, OneEach, Wires, CommandsOf, OneEachOf

\* What a command becomes where it is.
Becomes(q, r) ==
  /\ r.kind = q.kind /\ r.who = q.who /\ r.members = q.members
  /\ q.orphan => r.orphan
  /\ r.kind = "refresh" /\ r.state = "done" /\ r.members # {} => r.online

\* Those who wait for an answer of the instance go on waiting.
Waiting(i) ==
  /\ \A s \in SocketsOf(i) :
       phase[s] \in {"registering", "unregistering"} => phase'[s] = phase[s]
  /\ beat[i].on => beat'[i] = beat[i]

LEMMA KeptCommand ==
  ASSUME NEW i \in Instances, NEW q, NEW r, CommandInv(i, q), Becomes(q, r),
         Waiting(i) \/ r.orphan
  PROVE  CommandInv(i, r)'
<1>1. SocketsOf(i)' = SocketsOf(i)
  BY DEF SocketsOf
<1>2. ~ r.orphan => ~ q.orphan
  BY DEF Becomes
<1>3. ASSUME ~ r.orphan, r.kind = "register"
      PROVE  phase'[r.who] = "registering"
  BY <1>2, <1>3 DEF CommandInv, Becomes, Waiting
<1>4. ASSUME ~ r.orphan, r.kind = "unregister"
      PROVE  phase'[r.who] = "unregistering"
  BY <1>2, <1>4 DEF CommandInv, Becomes, Waiting
<1>5. ASSUME ~ r.orphan, r.kind = "refresh"
      PROVE  beat'[i].on /\ r.members = beat'[i].members
  BY <1>2, <1>5 DEF CommandInv, Becomes, Waiting
<1> QED
  BY <1>1, <1>3, <1>4, <1>5 DEF CommandInv, Becomes

\* Commands stay where they are.
LEMMA WiresInPlace ==
  ASSUME NEW i \in Instances, Wires(i), DOMAIN wire'[i] = DOMAIN wire[i],
         \A n \in DOMAIN wire[i] :
           Becomes(wire[i][n], wire'[i][n]) /\ (Waiting(i) \/ wire'[i][n].orphan)
  PROVE  Wires(i)'
<1>1. \A n \in DOMAIN wire'[i] : \A r : r = wire'[i][n] => CommandInv(i, r)'
  BY KeptCommand DEF Wires, CommandsOf
<1>2. CommandsOf(i)'
  BY <1>1 DEF CommandsOf, CommandInv
<1>3. OneEachOf(i)'
  BY DEF Wires, OneEachOf, Same, Becomes
<1> QED
  BY <1>2, <1>3 DEF Wires

\* The same, when the wire does not change.
LEMMA WiresFrame ==
  ASSUME NEW i \in Instances, Wires(i), wire'[i] = wire[i], Waiting(i)
  PROVE  Wires(i)'
<1>1. \A n \in DOMAIN wire[i] : Becomes(wire[i][n], wire'[i][n])
  BY DEF Wires, CommandsOf, CommandInv, Becomes
<1> QED
  BY <1>1, WiresInPlace

\* A command is sent, for a caller that was not waiting.
LEMMA WiresSent ==
  ASSUME WireType, NEW i \in Instances, Wires(i), Waiting(i),
         NEW q \in Command, Send(i, q), CommandInv(i, q)',
         q.kind = "register" => phase[q.who] # "registering",
         q.kind = "unregister" => phase[q.who] # "unregistering",
         q.kind = "refresh" => ~ beat[i].on
  PROVE  Wires(i)'
<1> DEFINE m == Len(wire[i]) + 1
<1>1. /\ DOMAIN wire'[i] = DOMAIN wire[i] \cup {m}
      /\ \A n \in DOMAIN wire[i] : wire'[i][n] = wire[i][n]
      /\ wire'[i][m] = q
  BY SentWire
<1> HIDE DEF m
<1>2. \A n \in DOMAIN wire[i] : Becomes(wire[i][n], wire'[i][n])
  BY <1>1 DEF Wires, CommandsOf, CommandInv, Becomes
<1>3. \A n \in DOMAIN wire[i] : \A r : r = wire'[i][n] => CommandInv(i, r)'
  BY <1>2, KeptCommand DEF Wires, CommandsOf
<1>4. \A n \in DOMAIN wire'[i] : \A r : r = wire'[i][n] => CommandInv(i, r)'
  BY <1>1, <1>3
<1>5. CommandsOf(i)'
  BY <1>4 DEF CommandsOf, CommandInv
<1>6. \A n \in DOMAIN wire[i] : ~ Same(wire[i][n], q) /\ ~ Same(q, wire[i][n])
  BY DEF Wires, CommandsOf, CommandInv, Same, Command
<1>7. OneEachOf(i)'
  <2>1. \A n, k \in DOMAIN wire[i] : Same(wire'[i][n], wire'[i][k]) => n = k
    BY <1>1 DEF Wires, OneEachOf
  <2>2. \A n \in DOMAIN wire[i] :
          ~ Same(wire'[i][n], wire'[i][m]) /\ ~ Same(wire'[i][m], wire'[i][n])
    BY <1>1, <1>6
  <2>3. \A n, k \in DOMAIN wire'[i] : Same(wire'[i][n], wire'[i][k]) => n = k
    BY <1>1, <2>1, <2>2
  <2> QED
    BY <2>3 DEF OneEachOf, Same
<1> QED
  BY <1>5, <1>7 DEF Wires

\* The oldest command is dropped, and the others keep their callers.
LEMMA WiresShorter ==
  ASSUME WireType, NEW i \in Instances, Wires(i), wire[i] # <<>>,
         wire' = [wire EXCEPT ![i] = Tail(@)],
         \A r \in Command :
           (\E n \in DOMAIN wire[i] \ {1} : r = wire[i][n]) => CommandInv(i, r)'
  PROVE  Wires(i)'
<1>1. \A n \in DOMAIN wire'[i] :
        /\ n \in Nat /\ n + 1 \in DOMAIN wire[i] \ {1}
        /\ wire'[i][n] = wire[i][n + 1] /\ wire'[i][n] \in Command
  <2>1. \A n \in DOMAIN wire[i] : wire[i][n] \in Command
    BY WireFacts
  <2>2. \A n \in DOMAIN wire'[i] :
          n \in Nat /\ n + 1 \in DOMAIN wire[i] /\ n + 1 # 1 /\ wire'[i][n] = wire[i][n + 1]
    BY ShorterWire, Zenon
  <2> QED
    BY <2>1, <2>2
<1>2. \A n \in DOMAIN wire'[i] : \A r : r = wire'[i][n] => CommandInv(i, r)'
  BY <1>1
<1>3. CommandsOf(i)'
  BY <1>2 DEF CommandsOf, CommandInv
<1>4. OneEachOf(i)'
  <2>1. \A n, k \in DOMAIN wire'[i] : Same(wire'[i][n], wire'[i][k]) => n + 1 = k + 1
    BY <1>1 DEF Wires, OneEachOf
  <2>2. \A n, k \in DOMAIN wire'[i] : n + 1 = k + 1 => n = k
    BY <1>1
  <2> QED
    BY <2>1, <2>2 DEF OneEachOf, Same
<1> QED
  BY <1>3, <1>4 DEF Wires

\* A promise settles: the callers of the others go on waiting.
LEMMA SettleCommands ==
  ASSUME Types, NEW i \in Instances, NEW q \in Command, CommandInv(i, q), ~ q.orphan,
         NEW a \in BOOLEAN, Settle(i, q, a),
         NEW j \in Instances, NEW r \in Command, CommandInv(j, r), j # i \/ ~ Same(q, r)
  PROVE  CommandInv(j, r)'
<1>1. \A s \in Sockets :
        \/ phase'[s] = phase[s] /\ ~ (s = q.who /\ q.kind \in {"register", "unregister"})
        \/ /\ s = q.who /\ q.kind = "register"
           /\ phase[s] = "registering" /\ phase'[s] = "registered"
        \/ /\ s = q.who /\ q.kind = "unregister"
           /\ phase[s] = "unregistering" /\ phase'[s] \in {"persisting", "gone"}
  BY SettleEffect
<1>2. SocketsOf(j)' = SocketsOf(j)
  BY DEF SocketsOf
<1>3. j # i /\ r.who \in SocketsOf(j) /\ q.kind \in {"register", "unregister"} => r.who # q.who
  BY Homes DEF CommandInv
<1>4. ASSUME ~ r.orphan, r.kind = "register"
      PROVE  phase'[r.who] = "registering"
  <2>1. r.who \in Sockets /\ r.who \in SocketsOf(j) /\ phase[r.who] = "registering"
    BY <1>4, Homes DEF CommandInv
  <2> QED
    BY <1>1, <1>3, <1>4, <2>1 DEF Same
<1>5. ASSUME ~ r.orphan, r.kind = "unregister"
      PROVE  phase'[r.who] = "unregistering"
  <2>1. r.who \in Sockets /\ r.who \in SocketsOf(j) /\ phase[r.who] = "unregistering"
    BY <1>5, Homes DEF CommandInv
  <2> QED
    BY <1>1, <1>3, <1>5, <2>1 DEF Same
<1>6. ASSUME ~ r.orphan, r.kind = "refresh"
      PROVE  beat'[j].on /\ r.members = beat'[j].members
  <2>1. beat'[j] = beat[j]
    <3>1. CASE j # i
      BY <3>1, SettleEffect
    <3>2. CASE j = i
      <4>1. q.kind # "refresh"
        BY <1>6, <3>2 DEF Same, CommandInv
      <4> QED
        BY <3>2, <4>1, SettleEffect
    <3> QED
      BY <3>1, <3>2
  <2> QED
    BY <1>6, <2>1 DEF CommandInv
<1> QED
  BY <1>2, <1>4, <1>5, <1>6 DEF CommandInv

\* Other instances wait as before, and their wires are not touched.
LEMMA WiresOfOthers ==
  ASSUME NEW i \in Instances, Wires(i), wire'[i] = wire[i], beat'[i] = beat[i],
         \A s \in SocketsOf(i) : phase'[s] = phase[s]
  PROVE  Wires(i)'
BY WiresFrame DEF Waiting

LEMMA WiresOfSockets ==
  ASSUME Types, WireType, \A j \in Instances : Wires(j), NEW s \in Sockets,
         Connect(s) \/ Disconnect(s) \/ SocketStep(s), NEW j \in Instances
  PROVE  Wires(j)'
<1> DEFINE i == Home[s]
<1>0. /\ i \in Instances /\ s \in SocketsOf(i) /\ phase \in [Sockets -> Phases]
      /\ \A t \in SocketsOf(j) : t \in Sockets
      /\ j # i => s \notin SocketsOf(j)
  BY Homes DEF Types, SettledTypes
<1>1. \A t \in Sockets : t # s => phase'[t] = phase[t]
  BY <1>0 DEF Connect, Disconnect, SocketStep, Abort, Register, Registered, Unregister,
     Persisted
<1>2. beat' = beat
  BY DEF Connect, Disconnect, SocketStep, Abort, Register, Unregister, Persisted
<1>3. phase[s] \in {"registering", "unregistering"} => phase'[s] = phase[s]
  BY DEF Connect, Disconnect, SocketStep, Abort, Register, Unregister, Persisted, socketVars
<1>4. Waiting(j)
  BY <1>0, <1>1, <1>2, <1>3 DEF Waiting
<1>5. CASE wire' = wire
  BY <1>4, <1>5, WiresFrame
<1>6. CASE wire' # wire
  <2>1. \/ /\ phase[s] = "joining" /\ phase'[s] = "registering"
           /\ Send(i, Request("register", s, {}))
        \/ /\ phase[s] = "registered" /\ phase'[s] = "unregistering"
           /\ Send(i, Request("unregister", s, {}))
    BY <1>0, <1>6 DEF Connect, Disconnect, SocketStep, Abort, Register, Unregister, Persisted
  <2>2. PICK kind \in {"register", "unregister"} :
          /\ Send(i, Request(kind, s, {}))
          /\ kind = "register" => phase[s] = "joining" /\ phase'[s] = "registering"
          /\ kind = "unregister" => phase[s] = "registered" /\ phase'[s] = "unregistering"
    BY <2>1
  <2>3. Request(kind, s, {}) \in Command
    BY RequestType
  <2>4. CASE j # i
    <3>1. wire'[j] = wire[j]
      BY <1>0, <2>2, <2>3, <2>4, SentWire
    <3> QED
      BY <1>4, <3>1, WiresFrame
  <2>5. CASE j = i
    <3>1. PICK q \in Command : q = Request(kind, s, {})
      BY <2>3
    <3>2. q.kind = kind /\ q.who = s /\ q.members = {} /\ q.state = "sent"
      BY <3>1 DEF Request
    <3>3. CommandInv(i, q)'
      BY <1>0, <2>2, <3>2 DEF CommandInv, SocketsOf
    <3>4. Send(i, q)
      BY <2>2, <3>1
    <3> QED
      BY <1>0, <1>4, <2>2, <2>5, <3>2, <3>3, <3>4, WiresSent
  <2> QED
    BY <2>4, <2>5
<1> QED
  BY <1>5, <1>6

LEMMA WiresOfObservers ==
  ASSUME Types, WireType, \A j \in Instances : Wires(j), NEW o \in Observers,
         Subscribe(o) \/ Resync(o) \/ Unsubscribe(o) \/ Leave(o) \/ Observe(o),
         NEW j \in Instances
  PROVE  Wires(j)'
<1> DEFINE i == Home[o]
<1>0. i \in Instances
  BY Homes
<1>1. UNCHANGED <<beat, phase>>
  BY DEF Subscribe, Resync, StartList, Unsubscribe, Leave, Observe, socketVars
<1>2. Waiting(j)
  BY <1>1 DEF Waiting
<1>3. CASE wire' = wire
  BY <1>2, <1>3, WiresFrame
<1>4. CASE wire' # wire
  <2>1. Send(i, Request("list", o, {}))
    BY <1>4 DEF Subscribe, Resync, StartList, Unsubscribe, Leave, Observe
  <2>2. Request("list", o, {}) \in Command
    BY RequestType
  <2>3. CASE j # i
    <3>1. wire'[j] = wire[j]
      BY <1>0, <2>1, <2>2, <2>3, SentWire
    <3> QED
      BY <1>2, <3>1, WiresFrame
  <2>4. CASE j = i
    <3>1. PICK q \in Command : q = Request("list", o, {})
      BY <2>2
    <3>2. q.kind = "list" /\ q.who = o /\ q.members = {} /\ q.state = "sent"
      BY <3>1 DEF Request
    <3>3. CommandInv(i, q)'
      BY <3>2 DEF CommandInv
    <3>4. Send(i, q)
      BY <2>1, <3>1
    <3> QED
      BY <1>0, <1>2, <2>4, <3>2, <3>3, <3>4, WiresSent
  <2> QED
    BY <2>3, <2>4
<1> QED
  BY <1>3, <1>4

LEMMA WiresOfHeartbeats ==
  ASSUME Types, WireType, MapsInv, \A j \in Instances : Wires(j), NEW i \in Instances,
         Heartbeat(i), NEW j \in Instances
  PROVE  Wires(j)'
<1>1. UNCHANGED phase
  BY DEF Heartbeat, socketVars
<1>2. Waiting(j)
  <2>1. beat[j].on => beat'[j] = beat[j]
    BY DEF Heartbeat, Types, SettledTypes
  <2> QED
    BY <1>1, <2>1 DEF Waiting
<1>3. CASE wire' = wire
  BY <1>2, <1>3, WiresFrame
<1>4. CASE wire' # wire
  <2>1. /\ ~ beat[i].on
        /\ beat' = [beat EXCEPT ![i] = [on |-> TRUE, gen |-> gen[i], members |-> local[i]]]
        /\ Send(i, Request("refresh", i, local[i]))
    BY <1>4 DEF Heartbeat
  <2>2. local[i] \in SUBSET Sockets /\ local[i] \subseteq SocketsOf(i)
    BY DEF Types, OtherTypes, MapsInv
  <2>3. Request("refresh", i, local[i]) \in Command
    BY <2>2, RequestType
  <2>4. CASE j # i
    <3>1. wire'[j] = wire[j]
      BY <2>1, <2>3, <2>4, SentWire
    <3> QED
      BY <1>2, <3>1, WiresFrame
  <2>5. CASE j = i
    <3>1. PICK q \in Command : q = Request("refresh", i, local[i])
      BY <2>3
    <3>2. q.kind = "refresh" /\ q.who = i /\ q.members = local[i] /\ q.state = "sent"
      BY <3>1 DEF Request
    <3>3. beat'[i].on /\ beat'[i].members = local[i]
      BY <2>1 DEF Types, SettledTypes
    <3>4. CommandInv(i, q)'
      BY <2>2, <3>2, <3>3 DEF CommandInv, SocketsOf
    <3>5. Send(i, q)
      BY <2>1, <3>1
    <3> QED
      BY <1>2, <2>1, <2>5, <3>2, <3>4, <3>5, WiresSent
  <2> QED
    BY <2>4, <2>5
<1> QED
  BY <1>3, <1>4

\* Sent again, cut off, run by Redis, or left without a caller by a crash.
LEMMA WiresOfMarks ==
  ASSUME Types, WireType, CommandsInv, \A j \in Instances : Wires(j), NEW i \in Instances,
         Resend(i) \/ Break(i) \/ Crash(i) \/ Execute(i), NEW j \in Instances
  PROVE  Wires(j)'
<1>1. CASE j # i
  <2>1. wire'[j] = wire[j]
    BY <1>1 DEF Resend, Break, Crash, Execute, WireType
  <2>2. beat'[j] = beat[j]
    BY <1>1 DEF Resend, Break, Crash, Execute, Types, SettledTypes
  <2>3. \A s \in SocketsOf(j) : phase'[s] = phase[s]
    <3>1. CASE Crash(i)
      <4>1. \A s \in SocketsOf(j) : s \in Sockets /\ s \notin SocketsOf(i)
        BY <1>1, Homes
      <4> QED
        BY <3>1, <4>1 DEF Crash
    <3>2. CASE Resend(i) \/ Break(i) \/ Execute(i)
      BY <3>2 DEF Resend, Break, Execute, socketVars
    <3> QED
      BY <3>1, <3>2
  <2> QED
    BY <2>1, <2>2, <2>3, WiresOfOthers
<1>2. CASE j = i /\ Execute(i)
  <2>1. PICK n \in DOMAIN wire[i], r \in Command :
          /\ wire' = [wire EXCEPT ![i][n] = r]
          /\ r.kind = wire[i][n].kind /\ r.who = wire[i][n].who
          /\ r.members = wire[i][n].members /\ r.orphan = wire[i][n].orphan
          /\ r.kind = "refresh" /\ r.members # {} => r.online
    BY <1>2, Executed, Zenon
  <2>2. /\ DOMAIN wire'[i] = DOMAIN wire[i]
        /\ wire'[i][n] = r /\ \A k \in DOMAIN wire[i] \ {n} : wire'[i][k] = wire[i][k]
    <3>1. /\ wire'[i] = [wire[i] EXCEPT ![n] = r]
          /\ j # i => wire'[j] = wire[j]
      BY <2>1 DEF WireType
    <3> QED
      BY <3>1
  <2>3. UNCHANGED <<phase, beat>>
    BY <1>2 DEF Execute, socketVars
  <2>4. Waiting(i)
    BY <2>3 DEF Waiting
  <2>5. \A k \in DOMAIN wire[i] : Becomes(wire[i][k], wire'[i][k])
    BY <2>1, <2>2 DEF CommandsInv, CommandInv, Becomes
  <2> QED
    BY <1>2, <2>2, <2>4, <2>5, WiresInPlace
<1>3. CASE j = i /\ (Resend(i) \/ Break(i) \/ Crash(i))
  <2>1. \/ \E state \in {"sent", "cut"} : wire' = [wire EXCEPT ![i] =
             [n \in DOMAIN @ |-> [@[n] EXCEPT !.state = state]]]
        \/ wire' = [wire EXCEPT ![i] = [n \in DOMAIN @ |-> [@[n] EXCEPT !.orphan = TRUE]]]
    BY <1>3 DEF Resend, Break, Crash
  <2>2. /\ DOMAIN wire'[i] = DOMAIN wire[i]
        /\ \A n \in DOMAIN wire[i] :
             \/ \E state \in {"sent", "cut"} :
                  wire'[i][n] = [wire[i][n] EXCEPT !.state = state]
             \/ wire'[i][n] = [wire[i][n] EXCEPT !.orphan = TRUE]
    BY <2>1, MarkedWire
  <2>3. \A n \in DOMAIN wire[i] : wire[i][n] \in Command /\ CommandInv(i, wire[i][n])
    BY WireFacts DEF CommandsInv
  <2>4. \A n \in DOMAIN wire[i] : Becomes(wire[i][n], wire'[i][n])
    <3> SUFFICES ASSUME NEW n \in DOMAIN wire[i]
                 PROVE  Becomes(wire[i][n], wire'[i][n])
      OBVIOUS
    <3>1. CASE wire'[i][n] = [wire[i][n] EXCEPT !.orphan = TRUE]
      BY <2>3, <3>1 DEF Command, CommandInv, Becomes
    <3>2. ASSUME NEW state \in {"sent", "cut"},
                 wire'[i][n] = [wire[i][n] EXCEPT !.state = state]
          PROVE  Becomes(wire[i][n], wire'[i][n])
      BY <2>3, <3>2 DEF Command, Becomes
    <3> QED
      BY <2>2, <3>1, <3>2
  <2>5. CASE Resend(i) \/ Break(i)
    <3>1. Waiting(i)
      BY <2>5 DEF Waiting, Resend, Break, socketVars
    <3> QED
      BY <1>3, <2>2, <2>4, <3>1, WiresInPlace
  <2>6. CASE Crash(i)
    <3>1. \A n \in DOMAIN wire[i] : wire'[i][n] = [wire[i][n] EXCEPT !.orphan = TRUE]
      BY <2>6 DEF Crash, WireType
    <3>2. \A n \in DOMAIN wire[i] : wire'[i][n].orphan
      BY <2>3, <3>1 DEF Command
    <3> QED
      BY <1>3, <2>2, <2>4, <3>2, WiresInPlace
  <2> QED
    BY <1>3, <2>5, <2>6
<1> QED
  BY <1>1, <1>2, <1>3

LEMMA WiresOfAnswers ==
  ASSUME Types, WireType, CommandsInv, \A j \in Instances : Wires(j), NEW i \in Instances,
         Answers(i), NEW j \in Instances
  PROVE  Wires(j)'
<1>0. \A k \in Instances : \A n \in DOMAIN wire[k] :
        wire[k][n] \in Command /\ CommandInv(k, wire[k][n])
  BY WireFacts DEF CommandsInv
<1>1. ASSUME NEW n \in DOMAIN wire[i], ~ wire[i][n].orphan, NEW a \in BOOLEAN,
             Settle(i, wire[i][n], a)
      PROVE  /\ \A r \in Command :
                  (\E k \in DOMAIN wire[i] \ {n} : r = wire[i][k]) => CommandInv(i, r)'
             /\ \A r \in Command :
                  j # i /\ (\E k \in DOMAIN wire[j] : r = wire[j][k]) => CommandInv(j, r)'
  <2>1. PICK q \in Command : q = wire[i][n]
    BY <1>0
  <2>2. CommandInv(i, q) /\ ~ q.orphan /\ Settle(i, q, a)
    BY <1>0, <1>1, <2>1
  <2>3. \A k \in DOMAIN wire[i] \ {n} : ~ Same(q, wire[i][k])
    BY <2>1 DEF Wires, OneEachOf
  <2>4. \A r \in Command :
          (\E k \in DOMAIN wire[i] \ {n} : r = wire[i][k]) => CommandInv(i, r)'
    BY <1>0, <2>2, <2>3, SettleCommands
  <2>5. \A r \in Command :
          j # i /\ (\E k \in DOMAIN wire[j] : r = wire[j][k]) => CommandInv(j, r)'
    BY <1>0, <2>2, SettleCommands
  <2> QED
    BY <2>4, <2>5
<1>2. ASSUME j # i, wire'[j] = wire[j],
             \A r \in Command : (\E k \in DOMAIN wire[j] : r = wire[j][k]) => CommandInv(j, r)'
      PROVE  Wires(j)'
  <2>1. \A k \in DOMAIN wire'[j] : \A r : r = wire'[j][k] => CommandInv(j, r)'
    BY <1>0, <1>2
  <2>2. CommandsOf(j)'
    BY <2>1 DEF CommandsOf, CommandInv
  <2>3. OneEachOf(j)'
    BY <1>2 DEF Wires, OneEachOf, Same
  <2> QED
    BY <2>2, <2>3 DEF Wires
<1>3. CASE Deliver(i) \/ Reject(i)
  <2>1. wire[i] # <<>> /\ wire' = [wire EXCEPT ![i] = Tail(@)] /\ 1 \in DOMAIN wire[i]
    BY <1>3, Delivered
  <2>2. j # i => wire'[j] = wire[j]
    BY <2>1, ShorterWire
  <2>3. CASE wire[i][1].orphan
    <3>1. UNCHANGED <<beat, phase>>
      BY <1>3, <2>3, Delivered
    <3>2. Waiting(j)
      BY <3>1 DEF Waiting
    <3>3. \A r \in Command :
            (\E k \in DOMAIN wire[j] : r = wire[j][k]) => CommandInv(j, r)'
      <4>1. \A k \in DOMAIN wire[j] : Becomes(wire[j][k], wire[j][k])
        BY <1>0 DEF CommandInv, Becomes
      <4> QED
        BY <1>0, <3>2, <4>1, KeptCommand
    <3>4. j = i => Wires(j)'
      BY <2>1, <3>3, WiresShorter
    <3> QED
      BY <1>2, <2>2, <3>3, <3>4
  <2>4. CASE ~ wire[i][1].orphan
    <3>1. PICK a \in BOOLEAN : Settle(i, wire[i][1], a)
      BY <1>3, <2>4, Delivered
    <3>2. /\ \A r \in Command :
               (\E k \in DOMAIN wire[i] \ {1} : r = wire[i][k]) => CommandInv(i, r)'
          /\ \A r \in Command :
               j # i /\ (\E k \in DOMAIN wire[j] : r = wire[j][k]) => CommandInv(j, r)'
      BY <1>1, <2>1, <2>4, <3>1
    <3>3. j = i => Wires(j)'
      BY <2>1, <3>2, WiresShorter
    <3> QED
      BY <1>2, <2>2, <3>2, <3>3
  <2> QED
    BY <2>3, <2>4
<1>4. CASE Timeout(i)
  <2>1. PICK n \in DOMAIN wire[i], t \in Command :
          /\ wire[i][n] \in Command /\ CommandInv(i, wire[i][n]) /\ ~ wire[i][n].orphan
          /\ t = [wire[i][n] EXCEPT !.orphan = TRUE]
          /\ wire' = [wire EXCEPT ![i][n] = t]
          /\ Settle(i, wire[i][n], FALSE)
    BY <1>4, TimedOut
  <2>2. /\ DOMAIN wire'[i] = DOMAIN wire[i]
        /\ wire'[i][n] = t /\ \A k \in DOMAIN wire[i] \ {n} : wire'[i][k] = wire[i][k]
        /\ j # i => wire'[j] = wire[j]
    <3>1. /\ wire'[i] = [wire[i] EXCEPT ![n] = t]
          /\ j # i => wire'[j] = wire[j]
      BY <2>1 DEF WireType
    <3> QED
      BY <3>1
  <2>3. /\ \A r \in Command :
             (\E k \in DOMAIN wire[i] \ {n} : r = wire[i][k]) => CommandInv(i, r)'
        /\ \A r \in Command :
             j # i /\ (\E k \in DOMAIN wire[j] : r = wire[j][k]) => CommandInv(j, r)'
    BY <1>1, <2>1
  <2>4. CASE j = i
    <3>1. t.orphan /\ Becomes(wire[i][n], t)
      BY <2>1 DEF Command, CommandInv, Becomes
    <3>2. CommandInv(i, t)'
      BY <2>1, <3>1, KeptCommand
    <3>3. \A k \in DOMAIN wire'[i] : \A r : r = wire'[i][k] => CommandInv(i, r)'
      BY <1>0, <2>2, <2>3, <3>2
    <3>4. CommandsOf(i)'
      BY <3>3 DEF CommandsOf, CommandInv
    <3>5. OneEachOf(i)'
      <4>1. \A k \in DOMAIN wire[i] : Becomes(wire[i][k], wire'[i][k])
        BY <1>0, <2>2, <3>1 DEF CommandInv, Becomes
      <4> QED
        BY <2>2, <4>1 DEF Wires, OneEachOf, Same, Becomes
    <3> QED
      BY <2>4, <3>4, <3>5 DEF Wires
  <2> QED
    BY <1>2, <2>2, <2>3, <2>4
<1> QED
  BY <1>3, <1>4 DEF Answers

LEMMA WiresStep ==
  ASSUME TypeOK, WireType, MapsInv, CommandsInv, OneEach, Next
  PROVE  CommandsInv' /\ OneEach'
<1>0. Types /\ \A j \in Instances : Wires(j)
  BY TypeParts, WiresParts
<1>1. ASSUME UNCHANGED <<wire, beat, socketVars>>, NEW j \in Instances
      PROVE  Wires(j)'
  BY <1>0, <1>1, WiresFrame DEF Waiting, socketVars
<1>2. ASSUME \/ \E i \in Instances : Close(i) \/ GiveUp(i) \/ Reconnect(i)
             \/ Tick \/ KeyExpires \/ Flush
      PROVE  UNCHANGED <<wire, beat, socketVars>>
  BY <1>2 DEF Close, GiveUp, Reconnect, Tick, KeyExpires, Flush
<1>3. \A j \in Instances : Wires(j)'
  BY <1>0, <1>1, <1>2, WiresOfSockets, WiresOfObservers, WiresOfHeartbeats, WiresOfMarks,
     WiresOfAnswers
  DEF Next, Users, Ends, Faults, RedisStep, Answers
<1> QED
  BY <1>3, WiresParts

-----------------------------------------------------------------------------
(* The invariant holds *)

LEMMA InitInv ==
  ASSUME Init
  PROVE  IInv
<1>1. TypeOK /\ WireType
  BY InitTypes
<1>2. MapsInv
  <2>1. \A i \in Instances : Cardinality(observed \cap ObserversOf(i)) = 0
    BY FS_EmptySet DEF Init
  <2> QED
    BY <2>1, Homes DEF Init, MapsInv, Present
<1>3. GenInv /\ BeatInv
  BY DEF Init, GenInv, BeatInv, NoBeat
<1>4. \A i \in Instances : DOMAIN wire[i] = {}
  BY EmptySeq DEF Init
<1> QED
  BY <1>1, <1>2, <1>3, <1>4 DEF IInv, CommandsInv, OneEach

LEMMA InvariantStep ==
  ASSUME IInv, [Next]_vars
  PROVE  IInv'
<1>1. CASE Next
  BY <1>1, TypeStep, MapsStep, GenStep, WiresStep DEF IInv
<1>2. CASE UNCHANGED vars
  <2>1. UNCHANGED <<score, wire, client, up, due, beat, local, auth, observed, count, gen,
                    next_gen, phase, connected, outcome, view, snap, shown, events>>
    BY <1>2 DEF vars, mapVars, socketVars, viewVars
  <2>2. TypeOK' /\ WireType'
    BY <2>1 DEF IInv, TypeOK, WireType
  <2>3. MapsInv'
    BY <2>1, MapsFrame DEF IInv
  <2>4. GenInv' /\ BeatInv'
    BY <2>1 DEF IInv, GenInv, BeatInv, Tracked, SocketsOf
  <2>5. \A j \in Instances : Wires(j)'
    BY <2>1, WiresParts, WiresFrame DEF IInv, Waiting
  <2>6. CommandsInv' /\ OneEach'
    BY <2>5, WiresParts
  <2> QED
    BY <2>2, <2>3, <2>4, <2>6 DEF IInv
<1> QED
  BY <1>1, <1>2

LEMMA Invariance == Spec => []IInv
BY InitInv, InvariantStep, PTL DEF Spec

-----------------------------------------------------------------------------
(* The theorems *)

\* Every variable keeps its type: an observer is never counted out twice, and the
\* number of observers of a store stays between none and all of them.
THEOREM TypeCorrect == Spec => []TypeOK
<1>1. IInv => TypeOK
  BY DEF IInv
<1> QED
  BY <1>1, Invariance, PTL

\* The maps of an instance hold no entry that nobody is going to remove: an entry of
\* local_sockets is of a socket that is registered, one of the observers is of one that is
\* connected, and a generation is of a store that is tracked or that an unregister will prune.
THEOREM MapsDoNotLeak == Spec => []NothingLeaks
<1>1. ASSUME IInv
      PROVE  NothingLeaks
  <2>1. TypeOK /\ MapsInv /\ GenInv
    BY <1>1 DEF IInv
  <2>2. \A i \in Instances : \A s \in local[i] : phase[s] \in Present
    BY <2>1, Homes DEF MapsInv
  <2> QED
    BY <2>1, <2>2 DEF NothingLeaks, MapsInv, GenInv, Present, Leaving
<1> QED
  BY <1>1, Invariance, PTL

\* A heartbeat ends with the answer to its refresh, or with its instance.
LEMMA BeatEnds ==
  ASSUME Types, WireType, CommandsInv, Next, NEW i \in Instances, beat[i].on,
         ~ beat'[i].on
  PROVE  \/ up'[i] # "up"
         \/ \E q \in Command, a \in BOOLEAN :
              /\ CommandInv(i, q) /\ ~ q.orphan /\ (a => q.state = "done")
              /\ q.kind = "refresh" /\ Settle(i, q, a)
<1>1. ASSUME NEW j \in Instances, Crash(j)
      PROVE  up'[i] # "up"
  <2>1. j = i
    BY <1>1 DEF Crash, Types, SettledTypes
  <2> QED
    BY <1>1, <2>1 DEF Crash, Types, ServiceTypes
<1>2. ASSUME NEW j \in Instances, Answers(j)
      PROVE  \E q \in Command, a \in BOOLEAN :
               /\ CommandInv(i, q) /\ ~ q.orphan /\ (a => q.state = "done")
               /\ q.kind = "refresh" /\ Settle(i, q, a)
  <2>1. PICK q \in Command, a \in BOOLEAN :
          /\ CommandInv(j, q) /\ ~ q.orphan /\ (a => q.state = "done")
          /\ Settle(j, q, a)
    BY <1>2, AnswerEffect
  <2>2. j = i /\ q.kind = "refresh"
    BY <2>1, SettleEffect
  <2> QED
    BY <2>1, <2>2
<1>3. ASSUME NEW j \in Instances, Heartbeat(j)
      PROVE  FALSE
  BY <1>3 DEF Heartbeat, Types, SettledTypes
<1>4. ASSUME NEW s \in Sockets, Connect(s) \/ Disconnect(s) \/ SocketStep(s)
      PROVE  FALSE
  BY <1>4 DEF Connect, Disconnect, SocketStep, Abort, Register, Unregister, Persisted
<1>5. ASSUME NEW o \in Observers,
             Subscribe(o) \/ Resync(o) \/ Unsubscribe(o) \/ Leave(o) \/ Observe(o)
      PROVE  FALSE
  BY <1>5 DEF Subscribe, Resync, StartList, Unsubscribe, Leave, Observe
<1>6. ASSUME \/ \E j \in Instances :
                  \/ Execute(j) \/ Resend(j) \/ GiveUp(j) \/ Reconnect(j) \/ Break(j)
                  \/ Close(j)
             \/ Tick \/ KeyExpires \/ Flush
      PROVE  FALSE
  BY <1>6 DEF Execute, Resend, GiveUp, Reconnect, Break, Close, Tick, KeyExpires, Flush
<1> QED
  BY <1>1, <1>2, <1>3, <1>4, <1>5, <1>6 DEF Next, Users, Ends, Faults, RedisStep, Answers

\* refresh_redis_presence compares the generation it read: whatever registered, left or
\* timed out since, a heartbeat that makes an instance believe the store offline ends with
\* no socket of the store registered there.
THEOREM HeartbeatsAreNotStale == Spec => HeartbeatsAreCurrent
<1>1. ASSUME IInv, [Next]_vars, NEW i \in Instances, beat[i].on, ~ beat'[i].on,
             up'[i] = "up", auth[i], ~ auth'[i]
      PROVE  local[i] = {}
  <2>1. Types /\ WireType /\ CommandsInv /\ BeatInv
    BY <1>1, TypeParts DEF IInv
  <2>2. Next
    BY <1>1 DEF vars
  <2>3. PICK q \in Command, a \in BOOLEAN :
          /\ CommandInv(i, q) /\ ~ q.orphan /\ (a => q.state = "done")
          /\ q.kind = "refresh" /\ Settle(i, q, a)
    BY <1>1, <2>1, <2>2, BeatEnds
  <2>4. a /\ ResultHolds(i) /\ ~ q.online
    BY <1>1, <2>1, <2>3, SettleEffect
  <2>5. beat[i].members = {}
    BY <2>3, <2>4 DEF CommandInv
  <2> QED
    BY <1>1, <2>1, <2>4, <2>5 DEF BeatInv, ResultHolds
<1>2. IInv /\ [Next]_vars =>
        [\A i \in Instances :
           beat[i].on /\ ~ beat'[i].on /\ up'[i] = "up" /\ auth[i] /\ ~ auth'[i]
             => local[i] = {}]_vars
  BY <1>1
<1> QED
  BY <1>2, Invariance, PTL DEF Spec, HeartbeatsAreCurrent

-----------------------------------------------------------------------------
(* A socket that has left, as long as no connection is lost *)

\* The socket may be out of the maps because it has not registered, or has left.
Out(s) == phase[s] \notin Present \cup {"lost"}

\* No socket of the instance leaves the maps.
Staying(i) == \A s \in SocketsOf(i) : Out(s)' => Out(s)

LEMMA OrderFrame ==
  ASSUME NEW i \in Instances, OrderOf(i), Staying(i), wire'[i] = wire[i]
  PROVE  OrderOf(i)'
<1>1. SocketsOf(i)' = SocketsOf(i)
  BY DEF SocketsOf
<1> QED
  BY <1>1 DEF OrderOf, Staying, Out, Adds, Removes, Present

LEMMA OrderInPlace ==
  ASSUME WireType, NEW i \in Instances, OrderOf(i), Staying(i),
         NEW n \in DOMAIN wire[i], NEW r \in Command,
         wire' = [wire EXCEPT ![i][n] = r],
         r.kind = wire[i][n].kind, r.who = wire[i][n].who,
         r.members = wire[i][n].members,
         \/ r.state = wire[i][n].state
         \/ /\ r.state = "done"
            /\ \A k \in DOMAIN wire[i] : k < n => wire[i][k].state # "sent"
  PROVE  OrderOf(i)'
<1>1. SocketsOf(i)' = SocketsOf(i)
  BY DEF SocketsOf
<1>2. wire'[i] = [wire[i] EXCEPT ![n] = r]
  BY DEF WireType
<1>3. /\ DOMAIN wire'[i] = DOMAIN wire[i] /\ wire'[i][n] = r
      /\ \A k \in DOMAIN wire[i] \ {n} : wire'[i][k] = wire[i][k]
  BY <1>2
<1>4. \A k \in DOMAIN wire[i] : k \in Nat
  BY WireFacts
<1> SUFFICES ASSUME NEW m \in DOMAIN wire'[i], NEW s \in SocketsOf(i),
                    wire'[i][m].state = "sent", Adds(wire'[i][m], s), Out(s)'
             PROVE  \E k \in DOMAIN wire'[i] :
                      k > m /\ wire'[i][k].state = "sent" /\ Removes(wire'[i][k], s)
  BY <1>1 DEF OrderOf, Out, Adds, Removes, Present
<1>5. wire[i][m].state = "sent" \/ (m = n /\ r.state = wire[i][n].state)
  BY <1>3
<1>6. wire[i][m].state = "sent" /\ Adds(wire[i][m], s) /\ Out(s)
  BY <1>3, <1>5 DEF Adds, Staying
<1>7. PICK k \in DOMAIN wire[i] :
        k > m /\ wire[i][k].state = "sent" /\ Removes(wire[i][k], s)
  BY <1>3, <1>6 DEF OrderOf, Out
<1>8. wire'[i][k].state = "sent"
  <2>1. CASE k # n
    BY <1>3, <1>7, <2>1
  <2>2. CASE k = n
    <3>1. m < n /\ wire[i][m].state = "sent"
      BY <1>3, <1>4, <1>6, <1>7, <2>2
    <3> QED
      BY <1>3, <1>7, <2>2, <3>1
  <2> QED
    BY <2>1, <2>2
<1>9. Removes(wire'[i][k], s)
  BY <1>3, <1>7 DEF Removes
<1> QED
  BY <1>3, <1>7, <1>8, <1>9

\* What a new command adds is in the maps, and it removes the only socket that leaves them.
LEMMA OrderSent ==
  ASSUME WireType, NEW i \in Instances, OrderOf(i), NEW q \in Command, Send(i, q),
         q.state = "sent",
         \A s \in SocketsOf(i) : Adds(q, s) => ~ Out(s)',
         \A s \in SocketsOf(i) : Out(s)' => Out(s) \/ Removes(q, s)
  PROVE  OrderOf(i)'
<1> DEFINE l == Len(wire[i]) + 1
<1>1. SocketsOf(i)' = SocketsOf(i)
  BY DEF SocketsOf
<1>2. /\ DOMAIN wire'[i] = DOMAIN wire[i] \cup {l}
      /\ \A n \in DOMAIN wire[i] : wire'[i][n] = wire[i][n] /\ n < l
      /\ wire'[i][l] = q
  BY SentWire
<1>3. \A n \in DOMAIN wire[i] : n \in Nat /\ l \in Nat
  BY WireFacts
<1> HIDE DEF l
<1> SUFFICES ASSUME NEW m \in DOMAIN wire'[i], NEW s \in SocketsOf(i),
                    wire'[i][m].state = "sent", Adds(wire'[i][m], s), Out(s)'
             PROVE  \E k \in DOMAIN wire'[i] :
                      k > m /\ wire'[i][k].state = "sent" /\ Removes(wire'[i][k], s)
  BY <1>1 DEF OrderOf, Out, Adds, Removes, Present
<1>4. m \in DOMAIN wire[i] /\ wire'[i][m] = wire[i][m]
  BY <1>2
<1>5. CASE Removes(q, s)
  BY <1>2, <1>3, <1>4, <1>5
<1>6. CASE Out(s)
  <2>1. PICK k \in DOMAIN wire[i] :
          k > m /\ wire[i][k].state = "sent" /\ Removes(wire[i][k], s)
    BY <1>4, <1>6 DEF OrderOf, Out
  <2> QED
    BY <1>2, <2>1
<1> QED
  BY <1>5, <1>6

\* Redis has run the oldest command.
LEMMA OrderShorter ==
  ASSUME WireType, NEW i \in Instances, OrderOf(i), Staying(i), wire[i] # <<>>,
         wire' = [wire EXCEPT ![i] = Tail(@)], wire[i][1].state # "sent"
  PROVE  OrderOf(i)'
<1>1. SocketsOf(i)' = SocketsOf(i)
  BY DEF SocketsOf
<1>2. \A n \in DOMAIN wire'[i] :
        n \in Nat /\ n + 1 \in DOMAIN wire[i] /\ wire'[i][n] = wire[i][n + 1]
  BY ShorterWire, Zenon
<1>3. \A n \in DOMAIN wire[i] : n = 1 \/ n - 1 \in DOMAIN wire'[i]
  BY ShorterWire, Zenon
<1>4. \A n \in DOMAIN wire[i] : n \in Nat
  BY WireFacts
<1> SUFFICES ASSUME NEW m \in DOMAIN wire'[i], NEW s \in SocketsOf(i),
                    wire'[i][m].state = "sent", Adds(wire'[i][m], s), Out(s)'
             PROVE  \E k \in DOMAIN wire'[i] :
                      k > m /\ wire'[i][k].state = "sent" /\ Removes(wire'[i][k], s)
  BY <1>1 DEF OrderOf, Out, Adds, Removes, Present
<1>5. /\ m + 1 \in DOMAIN wire[i] /\ wire[i][m + 1].state = "sent"
      /\ Adds(wire[i][m + 1], s) /\ Out(s)
  BY <1>2 DEF Staying
<1>6. PICK k \in DOMAIN wire[i] :
        k > m + 1 /\ wire[i][k].state = "sent" /\ Removes(wire[i][k], s)
  BY <1>5 DEF OrderOf, Out
<1>7. k - 1 \in DOMAIN wire'[i] /\ k - 1 > m /\ (k - 1) + 1 = k
  BY <1>2, <1>3, <1>4, <1>6
<1>8. wire'[i][k - 1] = wire[i][k]
  BY <1>2, <1>7
<1> QED
  BY <1>6, <1>7, <1>8

\* Losing a connection is recorded, and what has happened is not forgotten.
LEMMA EventsStep ==
  ASSUME Types, Next, Unbroken'
  PROVE  Unbroken /\ \A i \in Instances : ~ Break(i)
<1>1. events \in Seq({"timeout", "break", "crash", "flush", "sync"})
  BY PresenceAssumption, EmptySeq DEF PresenceAssumption, Types, ServiceTypes
<1>2. ASSUME NEW event \in {"timeout", "break", "crash", "flush", "sync"}, Happens(event)
      PROVE  Unbroken /\ event # "break"
  <2>1. /\ events' = Append(events, event)
        /\ Len(events) \in Nat /\ DOMAIN events = 1..Len(events)
        /\ DOMAIN events' = 1..(Len(events) + 1)
    BY <1>1, <1>2, LenProperties, AppendProperties DEF Happens
  <2>2. /\ events'[Len(events) + 1] = event
        /\ \A n \in DOMAIN events : events'[n] = events[n]
    BY <1>1, <2>1
  <2>3. /\ Len(events) + 1 \in DOMAIN events'
        /\ \A n \in DOMAIN events : n \in DOMAIN events'
    BY <2>1
  <2> QED
    BY <2>2, <2>3 DEF Unbroken
<1>3. CASE events' = events
  <2>1. Unbroken
    BY <1>3 DEF Unbroken
  <2> QED
    BY <1>2, <2>1 DEF Break
<1>4. events' = events \/ \E event \in {"timeout", "break", "crash", "flush", "sync"} :
                            Happens(event)
  <2>1. ASSUME NEW s \in Sockets, Connect(s) \/ Disconnect(s) \/ SocketStep(s)
        PROVE  events' = events
    BY <2>1 DEF Connect, Disconnect, SocketStep, Abort, Register, Unregister, Persisted
  <2>2. ASSUME NEW o \in Observers,
               Subscribe(o) \/ Resync(o) \/ Unsubscribe(o) \/ Leave(o) \/ Observe(o)
        PROVE  events' = events \/ Happens("sync")
    BY <2>2 DEF Subscribe, Resync, Unsubscribe, Leave, Observe
  <2>3. ASSUME NEW i \in Instances, Heartbeat(i) \/ RedisStep(i) \/ Close(i)
        PROVE  events' = events
    BY <2>3 DEF Heartbeat, RedisStep, Execute, Deliver, Resend, GiveUp, Reject, Reconnect,
       Close
  <2>4. ASSUME NEW i \in Instances, Crash(i) \/ Timeout(i) \/ Break(i)
        PROVE  Happens("crash") \/ Happens("timeout") \/ Happens("break")
    BY <2>4 DEF Crash, Timeout, Break
  <2>5. ASSUME Tick \/ KeyExpires \/ Flush
        PROVE  events' = events \/ Happens("flush")
    BY <2>5 DEF Tick, KeyExpires, Flush
  <2> QED
    BY <2>1, <2>2, <2>3, <2>4, <2>5 DEF Next, Users, Ends, Faults
<1>5. ASSUME NEW i \in Instances, Break(i)
      PROVE  FALSE
  BY <1>2, <1>5 DEF Break
<1> QED
  BY <1>2, <1>3, <1>4, <1>5

LEMMA OrderOfSockets ==
  ASSUME Types, WireType, OrderInv, NEW s \in Sockets,
         Connect(s) \/ Disconnect(s) \/ SocketStep(s), NEW j \in Instances
  PROVE  OrderOf(j)'
<1> DEFINE i == Home[s]
<1>0. /\ i \in Instances /\ s \in SocketsOf(i) /\ phase \in [Sockets -> Phases]
      /\ \A t \in SocketsOf(j) : t \in Sockets
      /\ j # i => s \notin SocketsOf(j)
  BY Homes DEF Types, SettledTypes
<1>1. \A t \in Sockets : t # s => phase'[t] = phase[t]
  BY <1>0 DEF Connect, Disconnect, SocketStep, Abort, Register, Registered, Unregister,
     Persisted
<1>2. OrderOf(j)
  BY DEF OrderInv
<1>3. CASE (Out(s)' => Out(s)) /\ wire' = wire
  <2>1. Staying(j)
    BY <1>0, <1>1, <1>3 DEF Staying, Out, Present
  <2> QED
    BY <1>2, <1>3, <2>1, OrderFrame
<1>4. CASE Connect(s) \/ Disconnect(s) \/ Abort(s) \/ Persisted(s)
  <2>1. wire' = wire
    BY <1>4 DEF Connect, Disconnect, Abort, Persisted
  <2>2. Out(s)' => Out(s)
    BY <1>0, <1>4 DEF Connect, Disconnect, Abort, Persisted, Out, Present
  <2> QED
    BY <1>3, <2>1, <2>2
<1>5. CASE Register(s) /\ ~ Ready(i)
  <2>1. wire' = wire
    BY <1>5 DEF Register
  <2>2. ~ Out(s)'
    BY <1>0, <1>5 DEF Register, Out, Present
  <2> QED
    BY <1>3, <2>1, <2>2
<1>6. CASE Unregister(s) /\ ~ Ready(i)
  <2>1. wire' = wire
    BY <1>6 DEF Unregister
  <2>2. wire'[i] = <<>>
    BY <1>0, <1>6, <2>1 DEF Ready, OrderInv, ClientOf
  <2>3. CASE j = i
    <3>1. DOMAIN wire'[j] = {}
      BY <2>2, <2>3, EmptySeq
    <3> QED
      BY <3>1 DEF OrderOf
  <2>4. CASE j # i
    <3>1. Staying(j)
      BY <1>0, <1>1, <2>4 DEF Staying, Out, Present
    <3> QED
      BY <1>2, <2>1, <3>1, OrderFrame
  <2> QED
    BY <2>3, <2>4
<1>7. CASE (Register(s) \/ Unregister(s)) /\ Ready(i)
  <2>1. PICK kind \in {"register", "unregister"} :
          /\ Send(i, Request(kind, s, {}))
          /\ kind = "register" => phase'[s] = "registering"
    BY <1>0, <1>7 DEF Register, Unregister
  <2>2. PICK q \in Command : q = Request(kind, s, {})
    BY RequestType
  <2>3. q.kind = kind /\ q.who = s /\ q.members = {} /\ q.state = "sent" /\ Send(i, q)
    BY <2>1, <2>2 DEF Request
  <2>4. CASE j = i
    <3>1. \A t \in SocketsOf(i) : Adds(q, t) => ~ Out(t)'
      BY <2>1, <2>3 DEF Adds, Out, Present
    <3>2. \A t \in SocketsOf(i) : Out(t)' => Out(t) \/ Removes(q, t)
      <4>1. \A t \in SocketsOf(i) : t # s => (Out(t)' => Out(t))
        BY <1>0, <1>1, <2>4 DEF Out, Present
      <4>2. Out(s)' => Removes(q, s)
        BY <2>1, <2>3 DEF Removes, Out, Present
      <4> QED
        BY <4>1, <4>2
    <3> QED
      BY <1>0, <1>2, <2>3, <2>4, <3>1, <3>2, OrderSent
  <2>5. CASE j # i
    <3>1. wire'[j] = wire[j]
      BY <1>0, <2>3, <2>5, SentWire
    <3>2. Staying(j)
      BY <1>0, <1>1, <2>5 DEF Staying, Out, Present
    <3> QED
      BY <1>2, <3>1, <3>2, OrderFrame
  <2> QED
    BY <2>4, <2>5
<1> QED
  BY <1>4, <1>5, <1>6, <1>7 DEF SocketStep

LEMMA OrderOfObservers ==
  ASSUME Types, WireType, OrderInv, NEW o \in Observers,
         Subscribe(o) \/ Resync(o) \/ Unsubscribe(o) \/ Leave(o) \/ Observe(o),
         NEW j \in Instances
  PROVE  OrderOf(j)'
<1> DEFINE i == Home[o]
<1>0. i \in Instances /\ OrderOf(j)
  BY Homes DEF OrderInv
<1>1. phase' = phase
  BY DEF Subscribe, Resync, StartList, Unsubscribe, Leave, Observe, socketVars
<1>2. \A k : Staying(k)
  BY <1>1 DEF Staying, Out, Present
<1>3. CASE wire' = wire
  BY <1>0, <1>2, <1>3, OrderFrame
<1>4. CASE wire' # wire
  <2>1. Send(i, Request("list", o, {}))
    BY <1>4 DEF Subscribe, Resync, StartList, Unsubscribe, Leave, Observe
  <2>2. PICK q \in Command : q = Request("list", o, {})
    BY RequestType
  <2>3. q.kind = "list" /\ q.state = "sent" /\ Send(i, q)
    BY <2>1, <2>2 DEF Request
  <2>4. CASE j = i
    <3>1. \A t \in SocketsOf(i) : (Adds(q, t) => ~ Out(t)') /\ (Out(t)' => Out(t))
      BY <1>2, <2>3 DEF Adds, Staying
    <3> QED
      BY <1>0, <2>3, <2>4, <3>1, OrderSent
  <2>5. CASE j # i
    <3>1. wire'[j] = wire[j]
      BY <1>0, <2>3, <2>5, SentWire
    <3> QED
      BY <1>0, <1>2, <3>1, OrderFrame
  <2> QED
    BY <2>4, <2>5
<1> QED
  BY <1>3, <1>4

LEMMA OrderOfHeartbeats ==
  ASSUME Types, WireType, MapsInv, OrderInv, NEW i \in Instances, Heartbeat(i),
         NEW j \in Instances
  PROVE  OrderOf(j)'
<1>0. OrderOf(j)
  BY DEF OrderInv
<1>1. phase' = phase
  BY DEF Heartbeat, socketVars
<1>2. \A k : Staying(k)
  BY <1>1 DEF Staying, Out, Present
<1>3. CASE wire' = wire
  BY <1>0, <1>2, <1>3, OrderFrame
<1>4. CASE wire' # wire
  <2>1. Send(i, Request("refresh", i, local[i]))
    BY <1>4 DEF Heartbeat
  <2>2. local[i] \in SUBSET Sockets
    BY DEF Types, OtherTypes
  <2>3. PICK q \in Command : q = Request("refresh", i, local[i])
    BY <2>2, RequestType
  <2>4. q.kind = "refresh" /\ q.members = local[i] /\ q.state = "sent" /\ Send(i, q)
    BY <2>1, <2>3 DEF Request
  <2>5. CASE j = i
    <3>1. \A t \in SocketsOf(i) : Adds(q, t) => ~ Out(t)'
      BY <1>1, <2>4, Homes DEF Adds, Out, MapsInv, Present
    <3>2. \A t \in SocketsOf(i) : Out(t)' => Out(t)
      BY <1>2 DEF Staying
    <3> QED
      BY <1>0, <2>4, <2>5, <3>1, <3>2, OrderSent
  <2>6. CASE j # i
    <3>1. wire'[j] = wire[j]
      BY <2>4, <2>6, SentWire
    <3> QED
      BY <1>0, <1>2, <3>1, OrderFrame
  <2> QED
    BY <2>5, <2>6
<1> QED
  BY <1>3, <1>4

LEMMA OrderOfExecutions ==
  ASSUME Types, WireType, CommandsInv, OrderInv, NEW i \in Instances, Execute(i),
         NEW j \in Instances
  PROVE  OrderOf(j)'
<1>0. OrderOf(j)
  BY DEF OrderInv
<1>1. Staying(j)
  BY DEF Execute, socketVars, Staying, Out, Present
<1>2. PICK n \in DOMAIN wire[i], r \in Command :
        /\ r.state = "done"
        /\ \A k \in DOMAIN wire[i] : k < n => wire[i][k].state # "sent"
        /\ wire' = [wire EXCEPT ![i][n] = r]
        /\ r.kind = wire[i][n].kind /\ r.who = wire[i][n].who
        /\ r.members = wire[i][n].members
  BY Executed
<1>3. CASE j = i
  BY <1>0, <1>1, <1>2, <1>3, OrderInPlace
<1>4. CASE j # i
  <2>1. wire'[j] = wire[j]
    BY <1>2, <1>4 DEF WireType
  <2> QED
    BY <1>0, <1>1, <2>1, OrderFrame
<1> QED
  BY <1>3, <1>4

LEMMA OrderOfAnswers ==
  ASSUME Types, WireType, CommandsInv, OrderInv, NEW i \in Instances, Answers(i),
         NEW j \in Instances
  PROVE  OrderOf(j)'
<1>0. OrderOf(j)
  BY DEF OrderInv
<1>1. Staying(j)
  <2>1. CASE phase' = phase
    BY <2>1 DEF Staying, Out, Present
  <2>2. ASSUME NEW q \in Command, NEW a \in BOOLEAN, CommandInv(i, q), ~ q.orphan,
               Settle(i, q, a)
        PROVE  Staying(j)
    <3>1. \A s \in Sockets :
            \/ phase'[s] = phase[s]
            \/ phase[s] = "registering" /\ phase'[s] = "registered"
            \/ phase[s] = "unregistering"
      BY <2>2, SettleEffect
    <3> QED
      BY <3>1, Homes DEF Staying, Out, Present
  <2> QED
    BY <2>1, <2>2, AnswerEffect
<1>2. CASE wire'[j] = wire[j]
  BY <1>0, <1>1, <1>2, OrderFrame
<1>3. CASE Deliver(i) \/ Reject(i)
  <2>1. wire[i] # <<>> /\ wire' = [wire EXCEPT ![i] = Tail(@)] /\ Head(wire[i]) = wire[i][1]
    BY <1>3, Delivered, ShorterWire
  <2>2. wire[i][1].state # "sent"
    <3>1. Deliver(i)
      BY <1>3 DEF Reject, OrderInv, ClientOf
    <3> QED
      BY <2>1, <3>1 DEF Deliver
  <2>3. CASE j = i
    BY <1>0, <1>1, <2>1, <2>2, <2>3, OrderShorter
  <2>4. CASE j # i
    BY <1>2, <2>1, <2>4 DEF WireType
  <2> QED
    BY <2>3, <2>4
<1>4. CASE Timeout(i)
  <2>1. PICK n \in DOMAIN wire[i], r \in Command :
          /\ wire[i][n] \in Command /\ CommandInv(i, wire[i][n]) /\ ~ wire[i][n].orphan
          /\ r = [wire[i][n] EXCEPT !.orphan = TRUE]
          /\ wire' = [wire EXCEPT ![i][n] = r]
          /\ Settle(i, wire[i][n], FALSE)
    BY <1>4, TimedOut
  <2>2. /\ r.kind = wire[i][n].kind /\ r.who = wire[i][n].who
        /\ r.members = wire[i][n].members /\ r.state = wire[i][n].state
    BY <2>1 DEF Command
  <2>3. CASE j = i
    BY <1>0, <1>1, <2>1, <2>2, <2>3, OrderInPlace
  <2>4. CASE j # i
    BY <1>2, <2>1, <2>4 DEF WireType
  <2> QED
    BY <2>3, <2>4
<1> QED
  BY <1>3, <1>4 DEF Answers

LEMMA OrderOfEnds ==
  ASSUME Types, WireType, OrderInv, NEW i \in Instances, Crash(i) \/ Close(i),
         NEW j \in Instances
  PROVE  OrderOf(j)'
<1>0. OrderOf(j) /\ SocketsOf(j)' = SocketsOf(j)
  BY DEF OrderInv, SocketsOf
<1>1. CASE Close(i)
  BY <1>0, <1>1, OrderFrame DEF Close, socketVars, Staying, Out, Present
<1>2. CASE Crash(i) /\ j = i
  <2>1. \A s \in SocketsOf(i) : phase'[s] = "lost"
    BY <1>2, Homes DEF Crash
  <2> QED
    BY <1>0, <1>2, <2>1 DEF OrderOf
<1>3. CASE Crash(i) /\ j # i
  <2>1. wire'[j] = wire[j]
    BY <1>3 DEF Crash, WireType
  <2>2. \A s \in SocketsOf(j) : phase'[s] = phase[s]
    <3>1. \A s \in SocketsOf(j) : s \in Sockets /\ s \notin SocketsOf(i)
      BY <1>3, Homes
    <3> QED
      BY <1>3, <3>1 DEF Crash
  <2>3. Staying(j)
    BY <2>2 DEF Staying, Out, Present
  <2> QED
    BY <1>0, <2>1, <2>3, OrderFrame
<1> QED
  BY <1>1, <1>2, <1>3

\* The clients keep their connections, and an instance without Redis sends nothing.
LEMMA ClientsStep ==
  ASSUME Types, WireType, OrderInv, Next, \A i \in Instances : ~ Break(i),
         NEW j \in Instances
  PROVE  ClientOf(j)'
<1>0. /\ client[j] \in {"none", "ready"} /\ (client[j] = "none" => wire[j] = <<>>)
      /\ \A i \in Instances : client[i] \in {"none", "ready"}
  BY DEF OrderInv, ClientOf
<1>1. ASSUME NEW s \in Sockets, Connect(s) \/ Disconnect(s) \/ SocketStep(s)
      PROVE  client' = client /\ (wire'[j] = wire[j] \/ client[j] = "ready")
  BY <1>1 DEF Connect, Disconnect, SocketStep, Abort, Register, Unregister, Persisted,
     Ready, Send, WireType
<1>2. ASSUME NEW o \in Observers,
             Subscribe(o) \/ Resync(o) \/ Unsubscribe(o) \/ Leave(o) \/ Observe(o)
      PROVE  client' = client /\ (wire'[j] = wire[j] \/ client[j] = "ready")
  BY <1>2 DEF Subscribe, Resync, StartList, Unsubscribe, Leave, Observe, Ready, Send, WireType
<1>3. ASSUME NEW i \in Instances, Heartbeat(i)
      PROVE  client' = client /\ (wire'[j] = wire[j] \/ client[j] = "ready")
  BY <1>3 DEF Heartbeat, Ready, Send, WireType
<1>4. ASSUME NEW i \in Instances, Execute(i) \/ Deliver(i) \/ Timeout(i) \/ Crash(i)
      PROVE  client' = client /\ (wire'[j] = wire[j] \/ client[j] = "ready")
  <2>1. client' = client
    BY <1>4 DEF Execute, Deliver, Timeout, Crash
  <2>2. CASE j # i
    BY <1>4, <2>2, <2>1 DEF Execute, Deliver, Timeout, Crash, WireType
  <2>3. CASE j = i /\ client[i] = "none"
    <3>1. wire[i] = <<>> /\ DOMAIN wire[i] = {} /\ Len(wire[i]) = 0
      BY <1>0, <2>3, EmptySeq
    <3>2. Crash(i)
      BY <1>4, <3>1 DEF Execute, Deliver, Timeout
    <3>3. wire'[i] = [n \in {} |-> [wire[i][n] EXCEPT !.orphan = TRUE]]
      BY <3>1, <3>2 DEF Crash, WireType
    <3>4. wire'[i] = <<>>
      BY <3>3
    <3> QED
      BY <2>1, <2>3, <3>1, <3>4
  <2> QED
    BY <1>0, <2>1, <2>2, <2>3
<1>5. ASSUME NEW i \in Instances,
             Resend(i) \/ GiveUp(i) \/ Reject(i) \/ Reconnect(i) \/ Break(i)
      PROVE  FALSE
  BY <1>0, <1>5 DEF Resend, GiveUp, Reject, Reconnect
<1>6. ASSUME (\E i \in Instances : Close(i)) \/ Tick \/ KeyExpires \/ Flush
      PROVE  client' = client /\ wire'[j] = wire[j]
  BY <1>6 DEF Close, Tick, KeyExpires, Flush
<1>7. client' = client /\ (wire'[j] = wire[j] \/ client[j] = "ready")
  BY <1>1, <1>2, <1>3, <1>4, <1>5, <1>6 DEF Next, Users, Ends, Faults, RedisStep
<1> QED
  BY <1>0, <1>7 DEF ClientOf

LEMMA OrderStep ==
  ASSUME IInv, Next, Unbroken => OrderInv
  PROVE  Unbroken' => OrderInv'
<1> SUFFICES ASSUME Unbroken'
             PROVE  OrderInv'
  OBVIOUS
<1>1. Types /\ WireType /\ MapsInv /\ CommandsInv
  BY TypeParts DEF IInv
<1>2. OrderInv /\ \A i \in Instances : ~ Break(i)
  BY <1>1, EventsStep
<1>3. ASSUME UNCHANGED <<wire, phase>>, NEW j \in Instances
      PROVE  OrderOf(j)'
  <2>1. OrderOf(j) /\ Staying(j) /\ wire'[j] = wire[j]
    BY <1>2, <1>3 DEF OrderInv, Staying, Out, Present
  <2> QED
    BY <2>1, OrderFrame
<1>4. ASSUME (\E i \in Instances : GiveUp(i) \/ Reconnect(i)) \/ Tick \/ KeyExpires \/ Flush
      PROVE  UNCHANGED <<wire, phase>>
  BY <1>4 DEF GiveUp, Reconnect, Tick, KeyExpires, Flush, socketVars
<1>5. \A i \in Instances : ~ Resend(i)
  BY <1>2 DEF Resend, OrderInv, ClientOf
<1>6. \A j \in Instances : OrderOf(j)'
  BY <1>1, <1>2, <1>3, <1>4, <1>5, OrderOfSockets, OrderOfObservers, OrderOfHeartbeats,
     OrderOfExecutions, OrderOfAnswers, OrderOfEnds
  DEF Next, Users, Ends, Faults, RedisStep, Answers
<1>7. \A j \in Instances : ClientOf(j)'
  BY <1>1, <1>2, ClientsStep
<1>8. OrderInv' <=> \A j \in Instances : ClientOf(j)' /\ OrderOf(j)'
  BY DEF OrderInv, ClientOf, OrderOf
<1> QED
  BY <1>6, <1>7, <1>8

LEMMA OrderInvariance == Spec => [](Unbroken => OrderInv)
<1>1. Init => (Unbroken => OrderInv)
  <2>1. ASSUME Init
        PROVE  OrderInv
    <3>1. \A i \in Instances : wire[i] = <<>> /\ DOMAIN wire[i] = {}
      BY <2>1, EmptySeq DEF Init
    <3>2. \A i \in Instances : client[i] \in {"none", "ready"}
      BY <2>1 DEF Init
    <3> QED
      BY <3>1, <3>2 DEF OrderInv, ClientOf, OrderOf
  <2> QED
    BY <2>1
<1>2. IInv /\ (Unbroken => OrderInv) /\ [Next]_vars => (Unbroken => OrderInv)'
  <2>1. CASE UNCHANGED vars
    BY <2>1
    DEF vars, socketVars, Unbroken, OrderInv, ClientOf, OrderOf, SocketsOf, Adds, Removes,
        Present
  <2> QED
    BY <2>1, OrderStep
<1> QED
  BY <1>1, <1>2, Invariance, PTL DEF Spec

\* What a step adds to the sorted set has been on the wire of its home.
LEMMA AddedBy ==
  ASSUME Types, WireType, CommandsInv, Next, NEW s \in Sockets, s \notin DOMAIN score,
         s \in DOMAIN score'
  PROVE  \E n \in DOMAIN wire[Home[s]] :
           wire[Home[s]][n].state = "sent" /\ Adds(wire[Home[s]][n], s)
<1>1. ASSUME NEW i \in Instances, Execute(i)
      PROVE  \E n \in DOMAIN wire[Home[s]] :
               wire[Home[s]][n].state = "sent" /\ Adds(wire[Home[s]][n], s)
  <2>1. PICK n \in DOMAIN wire[i], r \in Command :
          /\ wire[i][n].state = "sent"
          /\ r.kind = wire[i][n].kind /\ r.who = wire[i][n].who
          /\ r.members = wire[i][n].members
          /\ \A m \in DOMAIN score' : m \in DOMAIN score \/ Adds(r, m)
    BY <1>1, Executed, Zenon
  <2>2. Adds(wire[i][n], s)
    BY <2>1 DEF Adds
  <2>3. Home[s] = i
    BY <2>2, Homes DEF Adds, CommandsInv, CommandInv
  <2> QED
    BY <2>1, <2>2, <2>3
<1>2. ASSUME NEW t \in Sockets, Connect(t) \/ Disconnect(t) \/ SocketStep(t)
      PROVE  score' = score
  BY <1>2 DEF Connect, Disconnect, SocketStep, Abort, Register, Unregister, Persisted
<1>3. ASSUME NEW o \in Observers,
             Subscribe(o) \/ Resync(o) \/ Unsubscribe(o) \/ Leave(o) \/ Observe(o)
      PROVE  score' = score
  BY <1>3 DEF Subscribe, Resync, StartList, Unsubscribe, Leave, Observe
<1>4. ASSUME NEW i \in Instances,
             \/ Heartbeat(i) \/ Answers(i) \/ Resend(i) \/ GiveUp(i) \/ Reconnect(i)
             \/ Break(i) \/ Crash(i) \/ Close(i)
      PROVE  score' = score
  BY <1>4
  DEF Heartbeat, Answers, Deliver, Reject, Timeout, Resend, GiveUp, Reconnect, Break, Crash,
      Close
<1>5. ASSUME Tick \/ KeyExpires \/ Flush
      PROVE  DOMAIN score' \subseteq DOMAIN score
  BY <1>5 DEF Tick, KeyExpires, Flush
<1> QED
  BY <1>1, <1>2, <1>3, <1>4, <1>5 DEF Next, Users, Ends, Faults, RedisStep, Answers

LEMMA StaysOut ==
  ASSUME IInv, OrderInv, [Next]_vars, NEW s \in Sockets, phase[s] = "gone",
         s \notin DOMAIN score, ~ HasCommand(s)
  PROVE  s \notin DOMAIN score'
<1> SUFFICES ASSUME s \in DOMAIN score'
             PROVE  FALSE
  OBVIOUS
<1>1. Next
  BY DEF vars
<1>2. Types /\ WireType /\ CommandsInv
  BY TypeParts DEF IInv
<1>3. PICK n \in DOMAIN wire[Home[s]] :
        wire[Home[s]][n].state = "sent" /\ Adds(wire[Home[s]][n], s)
  BY <1>1, <1>2, AddedBy
<1>4. PICK k \in DOMAIN wire[Home[s]] :
        wire[Home[s]][k].state = "sent" /\ Removes(wire[Home[s]][k], s)
  BY <1>3, Homes DEF OrderInv, OrderOf, Present
<1> QED
  BY <1>4 DEF Removes, HasCommand

\* Until a connection is lost, a socket that has left the sorted set never comes back,
\* although the heartbeats that listed it are still running and their promises may have
\* timed out: on one connection its removal follows whatever would add it again.
THEOREM GoneUntilBroken ==
  Spec => [][\A s \in Sockets :
               Unbroken /\ phase[s] = "gone" /\ s \notin DOMAIN score /\ ~ HasCommand(s)
                 => s \notin DOMAIN score']_vars
<1>1. ASSUME IInv, Unbroken => OrderInv, [Next]_vars, NEW s \in Sockets, Unbroken,
             phase[s] = "gone", s \notin DOMAIN score, ~ HasCommand(s)
      PROVE  s \notin DOMAIN score'
  BY <1>1, StaysOut
<1>2. IInv /\ (Unbroken => OrderInv) /\ [Next]_vars =>
        [\A s \in Sockets :
           Unbroken /\ phase[s] = "gone" /\ s \notin DOMAIN score /\ ~ HasCommand(s)
             => s \notin DOMAIN score']_vars
  BY <1>1
<1> QED
  BY <1>2, Invariance, OrderInvariance, PTL DEF Spec

\* The same for all behaviours, where no connection is ever lost.
THEOREM GoneSocketsStayOut ==
  ASSUME NoBreak
  PROVE  Spec => GoneStaysOut
<1>1. TypeOK => Unbroken
  BY NoBreak DEF TypeOK, Unbroken, NoBreak
<1>2. TypeOK /\ [\A s \in Sockets :
           Unbroken /\ phase[s] = "gone" /\ s \notin DOMAIN score /\ ~ HasCommand(s)
             => s \notin DOMAIN score']_vars
      => [\A s \in Sockets :
           phase[s] = "gone" /\ s \notin DOMAIN score /\ ~ HasCommand(s)
             => s \notin DOMAIN score']_vars
  BY <1>1
<1> QED
  BY <1>2, TypeCorrect, GoneUntilBroken, PTL DEF GoneStaysOut

=============================================================================
