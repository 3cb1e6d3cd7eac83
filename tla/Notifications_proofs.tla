-------------------------- MODULE Notifications_proofs --------------------------
(***************************************************************************)
(* Proofs about Notifications, for any posts, readers, screens, users,     *)
(* keys and inputs, any page size and any number of failures.              *)
(***************************************************************************)
EXTENDS Notifications, TLAPS

Actors == Posts \cup Readers

\* A post past the insertion holds a notification.
Holds ==
  \A p \in Posts : pc[p] \in {"invalidate", "emit", "mark"} => note[p] \in Ids

LEMMA GoesType ==
  ASSUME pc \in [Actors -> Points], NEW x, NEW t \in Points, Goes(x, t)
  PROVE  pc' \in [Actors -> Points]
  BY DEF Goes

LEMMA FoundType ==
  ASSUME pc \in [Actors -> Points], NEW p, NEW i, Found(p, i)
  PROVE  pc' \in [Actors -> Points]
  BY GoesType DEF Found, Points

LEMMA InitTypes == Init => TypeOK /\ Holds
<1> SUFFICES ASSUME Init PROVE TypeOK /\ Holds
  OBVIOUS
<1> USE NotificationsAssumption DEF NotificationsAssumption, Init
<1>1. notes \in [Ids -> Inputs \cup {None}] /\ published \subseteq Ids
  BY DEF Stored
<1>2. pc \in [Posts \cup Readers -> Points]
  BY DEF Points
<1>3. page \in [Screens -> Pages] /\ floor \in [Screens -> 0..(MaxId + 1)]
  BY DEF Pages, NoPage, Ids
<1>4. faults \in 0..MaxFaults
  OBVIOUS
<1>5. Holds
  BY DEF Holds
<1> QED
  BY <1>1, <1>2, <1>3, <1>4, <1>5 DEF TypeOK

LEMMA FaultType == TypeOK /\ Fault => faults' \in 0..MaxFaults
<1>1. MaxFaults \in Nat
  BY NotificationsAssumption DEF NotificationsAssumption
<1> QED
  BY <1>1 DEF TypeOK, Fault

\* What a bump of some audiences, heard by Redis or not, leaves behind.
LEMMA BumpTypes ==
  ASSUME TypeOK, NEW A, NEW I, Bump(A, I)
  PROVE  lag' \subseteq Ids /\ swallowed' \subseteq Ids /\ faults' \in 0..MaxFaults
<1>1. PICK done \in SUBSET A :
        LET fresh == UNION {Scope(u) : u \in done} IN
          /\ lag' = lag \ fresh
          /\ swallowed' =
               (swallowed \ fresh) \cup {i \in I \cap lag : notes[i].user \notin done}
          /\ IF done = A THEN UNCHANGED faults ELSE Fault
  BY DEF Bump
<1>2. lag' \subseteq Ids /\ swallowed' \subseteq Ids
  BY <1>1 DEF TypeOK
<1>3. faults' \in 0..MaxFaults
  BY <1>1, FaultType DEF TypeOK
<1> QED
  BY <1>2, <1>3

\* The cache can only learn; what it does not learn of the ids of the change
\* is swallowed, and stays so while it does not.
LEMMA BumpFacts ==
  ASSUME NEW A, NEW I, Bump(A, I)
  PROVE  /\ lag' \subseteq lag
         /\ \A i \in lag' : i \in swallowed => i \in swallowed'
         /\ \A i \in lag' : i \in I /\ i \in Stored => i \in swallowed'
<1>1. PICK done \in SUBSET A :
        LET fresh == UNION {Scope(u) : u \in done} IN
          /\ lag' = lag \ fresh
          /\ swallowed' =
               (swallowed \ fresh) \cup {i \in I \cap lag : notes[i].user \notin done}
          /\ IF done = A THEN UNCHANGED faults ELSE Fault
  BY DEF Bump
<1> DEFINE fresh == UNION {Scope(u) : u \in done}
<1>2. \A i \in Stored : notes[i].user \in done => i \in fresh
  BY DEF Scope
<1>3. lag' = lag \ fresh
  BY <1>1
<1>4. swallowed' = (swallowed \ fresh) \cup {i \in I \cap lag : notes[i].user \notin done}
  BY <1>1
<1> HIDE DEF fresh
<1> QED
  BY <1>2, <1>3, <1>4

LEMMA PostTypes ==
  ASSUME TypeOK, Holds, NEW p \in Posts, Post(p)
  PROVE  TypeOK' /\ Holds'
<1> USE NotificationsAssumption DEF NotificationsAssumption
<1> DEFINE PC == pc' \in [Posts \cup Readers -> Points]
<1>0. pc \in [Actors -> Points]
  BY DEF TypeOK, Actors
<1>1. CASE Begin(p)
  <2>1. PC
    BY <1>0, <1>1, GoesType DEF Begin, Points, Actors
  <2>2. body' \in [Posts -> Inputs \cup {None}] /\ late' \in [Posts -> BOOLEAN]
    BY <1>1 DEF Begin, TypeOK
  <2>3. Holds'
    BY <1>0, <1>1 DEF Begin, Goes, Holds, Actors
  <2> QED
    BY <1>1, <2>1, <2>2, <2>3 DEF Begin, TypeOK, storeVars, readVars, screenVars
<1>2. CASE Find(p)
  <2>1. PC
    BY <1>0, <1>2, GoesType, FoundType DEF Find, Points, Actors
  <2>2. note' \in [Posts -> Ids \cup {0}] /\ Holds'
    <3>1. CASE WithKey(body[p].key) # {}
      <4>1. PICK i \in WithKey(body[p].key) : Found(p, i) /\ note' = [note EXCEPT ![p] = i]
        BY <1>2, <3>1 DEF Find
      <4>2. i \in Ids
        BY DEF WithKey, Stored
      <4> QED
        BY <1>0, <4>1, <4>2 DEF TypeOK, Holds, Found, Goes, Actors
    <3>2. CASE WithKey(body[p].key) = {}
      BY <1>0, <1>2, <3>2 DEF Find, TypeOK, Holds, Goes, Actors
    <3> QED
      BY <3>1, <3>2
  <2> QED
    BY <1>2, <2>1, <2>2 DEF Find, TypeOK, storeVars, readVars, screenVars
<1>3. CASE Insert(p)
  <2>1. PC
    BY <1>0, <1>3, GoesType DEF Insert, Points, Actors
  <2>2. /\ notes' \in [Ids -> Inputs \cup {None}]
        /\ lag' \subseteq Ids
        /\ note' \in [Posts -> Ids \cup {0}]
        /\ Holds'
    <3>1. CASE WithKey(body[p].key) # {}
      BY <1>0, <1>3, <3>1 DEF Insert, TypeOK, Holds, Goes, Actors
    <3>2. CASE WithKey(body[p].key) = {}
      <4>1. PICK i \in Ids : /\ notes' = [notes EXCEPT ![i] = body[p]]
                             /\ lag' = lag \cup {i}
                             /\ note' = [note EXCEPT ![p] = i]
                             /\ Goes(p, "invalidate")
        BY <1>3, <3>2 DEF Insert
      <4>2. body[p] \in Inputs \cup {None}
        BY DEF TypeOK
      <4>3. notes' \in [Ids -> Inputs \cup {None}]
        BY <4>1, <4>2 DEF TypeOK
      <4> QED
        BY <1>0, <4>1, <4>3 DEF TypeOK, Holds, Goes, Actors
    <3> QED
      BY <3>1, <3>2
  <2> QED
    BY <1>3, <2>1, <2>2 DEF Insert, TypeOK, readVars, screenVars
<1>4. CASE Invalidate(p)
  <2>1. PC
    BY <1>0, <1>4, GoesType DEF Invalidate, Points, Actors
  <2>2. lag' \subseteq Ids /\ swallowed' \subseteq Ids /\ faults' \in 0..MaxFaults
    BY <1>4, BumpTypes DEF Invalidate
  <2>3. UNCHANGED <<storeVars, emitted, postVars, readVars, screenVars>>
    BY <1>4 DEF Invalidate
  <2>4. Holds'
    BY <1>0, <1>4 DEF Invalidate, Goes, Holds, Actors, postVars
  <2> QED
    BY <2>1, <2>2, <2>3, <2>4 DEF TypeOK, storeVars, postVars, readVars, screenVars
<1>5. CASE Emit(p)
  <2>1. PC
    BY <1>0, <1>5, GoesType DEF Emit, Points, Actors
  <2>2. note[p] \in Ids
    BY <1>5 DEF Emit, Holds
  <2> QED
    BY <1>5, <2>1, <2>2 DEF Emit, Goes, Holds, TypeOK, storeVars, postVars, readVars
<1>6. CASE Mark(p)
  <2>1. PC
    BY <1>0, <1>6, GoesType DEF Mark, Points, Actors
  <2>2. note[p] \in Ids
    BY <1>6 DEF Mark, Holds
  <2> QED
    BY <1>6, <2>1, <2>2 DEF Mark, Receipt, Goes, Holds, TypeOK, postVars, readVars,
                            screenVars
<1>7. CASE MarkUnanswered(p)
  <2>1. PC
    BY <1>0, <1>7, GoesType DEF MarkUnanswered, Points, Actors
  <2>2. note[p] \in Ids
    BY <1>7 DEF MarkUnanswered, Holds
  <2> QED
    BY <1>7, <2>1, <2>2 DEF MarkUnanswered, Fault, Receipt, Goes, Holds, TypeOK, postVars,
                            readVars, screenVars
<1> QED
  BY <1>1, <1>2, <1>3, <1>4, <1>5, <1>6, <1>7 DEF Post

LEMMA LoseTypes ==
  ASSUME TypeOK, Holds, NEW x \in Actors, Lose(x)
  PROVE  TypeOK' /\ Holds'
<1>1. pc' \in [Actors -> Points]
  BY GoesType DEF Lose, Points, TypeOK, Actors
<1>2. Holds'
  BY DEF Lose, Holds, Goes, TypeOK, Actors, postVars
<1>3. faults' \in 0..MaxFaults
  <2>1. faults \in 0..MaxFaults /\ faults < MaxFaults /\ faults' = faults + 1
    BY DEF Lose, Fault, TypeOK
  <2>2. MaxFaults \in Nat
    BY NotificationsAssumption DEF NotificationsAssumption
  <2> QED
    BY <2>1, <2>2
<1> QED
  BY <1>1, <1>2, <1>3 DEF Lose, TypeOK, Actors, storeVars, postVars, readVars, screenVars

LEMMA ReadingTypes ==
  ASSUME TypeOK, Holds, NEW r \in Readers, Reading(r)
  PROVE  TypeOK' /\ Holds'
<1> USE NotificationsAssumption DEF NotificationsAssumption
<1> DEFINE PC == pc' \in [Posts \cup Readers -> Points]
<1>0. pc \in [Actors -> Points]
  BY DEF TypeOK, Actors
<1>1. ASSUME NEW t \in Points, Goes(r, t), UNCHANGED note PROVE PC /\ Holds'
  BY <1>0, <1>1, GoesType DEF Actors, Goes, Holds
<1>2. ASSUME NEW u \in Users, MarkRead(r, u) PROVE TypeOK' /\ Holds'
  <2>1. PC /\ Holds'
    BY <1>1, <1>2 DEF MarkRead, Points, postVars
  <2>2. /\ read' \subseteq Ids /\ lag' \subseteq Ids /\ swallowed' \subseteq Ids
        /\ marked' \in [Readers -> SUBSET Ids]
    BY <1>2 DEF MarkRead, TypeOK
  <2> QED
    BY <1>2, <2>1, <2>2 DEF MarkRead, TypeOK, postVars, screenVars
<1>3. ASSUME NEW u \in Users, MarkAllRead(r, u) PROVE TypeOK' /\ Holds'
  <2>1. PC /\ Holds'
    BY <1>1, <1>3 DEF MarkAllRead, Points, postVars
  <2>2. Unread(u) \subseteq Ids
    BY DEF Unread, Visible, Stored
  <2>3. /\ read' \subseteq Ids /\ lag' \subseteq Ids /\ swallowed' \subseteq Ids
        /\ marked' \in [Readers -> SUBSET Ids]
        /\ by' \in [Readers -> Users \cup {None}]
    BY <1>3, <2>2 DEF MarkAllRead, TypeOK
  <2> QED
    BY <1>3, <2>1, <2>3 DEF MarkAllRead, TypeOK, postVars, screenVars
<1>4. ASSUME InvalidateRead(r) PROVE TypeOK' /\ Holds'
  <2>1. PC /\ Holds'
    BY <1>1, <1>4 DEF InvalidateRead, Points, postVars
  <2>2. lag' \subseteq Ids /\ swallowed' \subseteq Ids /\ faults' \in 0..MaxFaults
    BY <1>4, BumpTypes DEF InvalidateRead
  <2>3. UNCHANGED <<storeVars, emitted, postVars, readVars, screenVars>>
    BY <1>4 DEF InvalidateRead
  <2> QED
    BY <2>1, <2>2, <2>3 DEF TypeOK, storeVars, postVars, readVars, screenVars
<1>5. ASSUME EmitRead(r) PROVE TypeOK' /\ Holds'
  <2>1. PC /\ Holds'
    BY <1>1, <1>5 DEF EmitRead, Points, postVars
  <2>2. told' \in [Screens -> SUBSET Ids]
    <3>1. marked[r] \subseteq Ids /\ \A d \in Screens : told[d] \subseteq Ids
      BY DEF TypeOK
    <3> QED
      BY <1>5, <3>1 DEF EmitRead
  <2>3. by' \in [Readers -> Users \cup {None}] /\ marked' \in [Readers -> SUBSET Ids]
    BY <1>5 DEF EmitRead, TypeOK
  <2> QED
    BY <1>5, <2>1, <2>2, <2>3 DEF EmitRead, TypeOK, storeVars, postVars
<1> QED
  BY <1>2, <1>3, <1>4, <1>5 DEF Reading

LEMMA LoadsTypes ==
  ASSUME TypeOK, NEW d \in Screens, NEW S \in SUBSET Ids, Loads(d, S),
         hidden' \in [Screens -> SUBSET Ids]
  PROVE  TypeOK'
<1>1. PICK P \in SUBSET S : \E f \in P \cup {0} :
        page' = [page EXCEPT ![d] = [ids |-> P, floor |-> f]]
  BY DEF Loads
<1>2. page' \in [Screens -> Pages]
  <2>1. PICK f \in P \cup {0} : page' = [page EXCEPT ![d] = [ids |-> P, floor |-> f]]
    BY <1>1
  <2>2. [ids |-> P, floor |-> f] \in Pages
    BY NotificationsAssumption DEF NotificationsAssumption, Pages, Ids
  <2> QED
    BY <2>1, <2>2 DEF TypeOK
<1> QED
  BY <1>2 DEF Loads, TypeOK, storeVars, postVars, readVars

LEMMA ScreenTypes ==
  ASSUME TypeOK, Holds, NEW d \in Screens, Screen(d)
  PROVE  TypeOK' /\ Holds'
<1> USE NotificationsAssumption DEF NotificationsAssumption
<1>1. CASE Join(d)
  BY <1>1 DEF Join, TypeOK, Holds, storeVars, postVars, readVars
<1>2. ASSUME NEW S \in SUBSET Ids, Loads(d, S), hidden' \in [Screens -> SUBSET Ids]
      PROVE  TypeOK' /\ Holds'
  BY <1>2, LoadsTypes DEF Loads, Holds, postVars
<1>3. CASE LoadFirst(d)
  <2>1. PICK missed \in SUBSET lag :
          /\ Loads(d, Snapshot(UserOf[d], missed))
          /\ hidden' = [hidden EXCEPT ![d] = missed \cap swallowed]
    BY <1>3 DEF LoadFirst
  <2>3. hidden' \in [Screens -> SUBSET Ids]
    BY <2>1 DEF TypeOK
  <2>2. Snapshot(UserOf[d], missed) \subseteq Ids
    BY DEF Snapshot, Unread, Visible, Stored
  <2> QED
    BY <1>2, <2>1, <2>2, <2>3
<1>4. CASE LoadOlder(d)
  <2>1. {i \in Unread(UserOf[d]) : i < floor[d]} \subseteq Ids
    BY DEF Unread, Visible, Stored
  <2>2. hidden' \in [Screens -> SUBSET Ids]
    BY <1>4 DEF LoadOlder, TypeOK
  <2> QED
    BY <1>2, <1>4, <2>1, <2>2 DEF LoadOlder
<1>5. CASE Show(d)
  <2>1. page[d] \in Pages
    BY DEF TypeOK
  <2>2. page[d].ids \subseteq Ids /\ page[d].floor \in 0..(MaxId + 1)
    BY <2>1 DEF Pages
  <2>3. NoPage \in Pages
    BY DEF NoPage, Pages
  <2> QED
    BY <1>5, <2>2, <2>3 DEF Show, TypeOK, Holds, storeVars, postVars, readVars
<1>6. CASE Leave(d)
  <2>1. NoPage \in Pages /\ MaxId + 1 \in 0..(MaxId + 1)
    BY DEF NoPage, Pages
  <2> QED
    BY <1>6, <2>1 DEF Leave, TypeOK, Holds, storeVars, postVars, readVars
<1> QED
  BY <1>1, <1>3, <1>4, <1>5, <1>6 DEF Screen

LEMMA NextTypes == TypeOK /\ Holds /\ [Next]_vars => TypeOK' /\ Holds'
<1>1. TypeOK /\ Holds /\ UNCHANGED vars => TypeOK' /\ Holds'
  BY DEF TypeOK, Holds, vars, storeVars, postVars, readVars, screenVars
<1> QED
  BY <1>1, PostTypes, ReadingTypes, LoseTypes, ScreenTypes DEF Next, Actors

LEMMA TypesInvariant == Spec => [](TypeOK /\ Holds)
  BY InitTypes, NextTypes, PTL DEF Spec

\* Every variable keeps its type.
THEOREM TypeCorrect == Spec => []TypeOK
  BY TypesInvariant, PTL
-----------------------------------------------------------------------------
(* The invariant *)

\* The marks are on stored notifications, a receipt follows an emission, and a
\* key has one notification.  What a cached snapshot may miss as unread has
\* not been emitted, or its invalidation was swallowed.
StoreInv ==
  /\ read \subseteq Stored
  /\ emitted \subseteq Stored
  /\ lag \subseteq Stored
  /\ published \subseteq emitted
  /\ (lag \cap emitted) \subseteq (read \cup swallowed)
  /\ \A i, j \in Stored : notes[i].key = notes[j].key => notes[i].key = NoKey \/ i = j

\* What a post knows of its notification at each point.
PostInv(p) ==
  /\ pc[p] # "idle" => body[p] \in Inputs
  /\ pc[p] \in {"invalidate", "emit", "mark"} \cup Accepted =>
       note[p] \in Ids /\ notes[note[p]] = body[p]
  /\ pc[p] = "emit" => note[p] \notin lag \/ note[p] \in read \/ note[p] \in swallowed
  /\ pc[p] = "mark" => note[p] \in emitted
  /\ pc[p] \in Accepted => note[p] \in published
  /\ late[p] =>
       /\ pc[p] \notin {"idle", "insert", "invalidate", "emit", "mark"}
       /\ \E i \in published : notes[i].key = body[p].key
       /\ body[p].key # NoKey

\* What a reader has marked, and who may see it.
ReaderInv(r) ==
  /\ pc[r] = "idle" => marked[r] = {}
  /\ pc[r] \in {"invalidate", "emit"} => \E i \in Stored : marked[r] = {i}
  /\ pc[r] \in {"invalidate all", "emit all"} =>
       marked[r] \subseteq Scope(None) \cup Scope(by[r])

\* A reading the cached snapshots may miss has its reader before the
\* invalidation, or dead, or the invalidation was swallowed.
LagInv ==
  \A i \in lag \cap read :
    \/ i \in swallowed
    \/ \E r \in Readers :
         i \in marked[r] /\ pc[r] \in {"invalidate", "invalidate all", "error"}

Owed(i) == \E r \in Readers : i \in marked[r]

\* What a screen has, or is about to get with its page.
ScreenInv(d) ==
  /\ stage[d] = "off" => listed[d] = {} /\ heard[d] = {}
  /\ stage[d] \in {"off", "joined"} => floor[d] = MaxId + 1
  /\ stage[d] \in {"off", "joined"} => hidden[d] = {}
  /\ stage[d] # "loading" => page[d] = NoPage
  /\ listed[d] \cup heard[d] \cup page[d].ids \subseteq Visible(UserOf[d])
  /\ stage[d] # "off" => \A i \in Unread(UserOf[d]) \cap emitted :
       i >= floor[d] => i \in listed[d] \cup heard[d] \cup hidden[d]
  /\ stage[d] = "loading" => \A i \in Unread(UserOf[d]) \cap emitted :
       i >= page[d].floor => i \in listed[d] \cup heard[d] \cup page[d].ids \cup hidden[d]
  /\ \A i \in (listed[d] \cup page[d].ids) \cap read :
       i \in told[d] \cup hidden[d] \/ Owed(i)

IInv ==
  /\ StoreInv
  /\ \A p \in Posts : PostInv(p)
  /\ \A r \in Readers : ReaderInv(r)
  /\ LagInv
  /\ \A d \in Screens : ScreenInv(d)

-----------------------------------------------------------------------------
(* What an action leaves alone *)

LEMMA OthersStay ==
  ASSUME TypeOK, NEW x \in Actors, NEW t, Goes(x, t)
  PROVE  pc'[x] = t /\ \A y \in Actors : y # x => pc'[y] = pc[y]
  BY DEF TypeOK, Goes, Actors

LEMMA Disjoint == \A p \in Posts, r \in Readers : p # r /\ p \in Actors /\ r \in Actors
  BY NotificationsAssumption DEF NotificationsAssumption, Actors

LEMMA NoneIsNoBody == None \notin Inputs
  BY NotificationsAssumption DEF NotificationsAssumption

\* A post that does not move, while readers and other posts do.
LEMMA PostStays ==
  ASSUME NEW p \in Posts, PostInv(p), pc'[p] = pc[p],
         body'[p] = body[p], note'[p] = note[p], late'[p] = late[p],
         \A i \in Stored : notes'[i] = notes[i],
         published \subseteq published', emitted \subseteq emitted',
         published \subseteq Stored,
         \A i \in Stored : i \in lag' /\ i \notin read' /\ i \notin swallowed'
                           => i \in lag /\ i \notin read /\ i \notin swallowed
  PROVE  PostInv(p)'
<1>1. pc[p] \in {"invalidate", "emit", "mark"} \cup Accepted => note[p] \in Stored
  BY NoneIsNoBody DEF PostInv, Stored, Accepted
<1> QED
  BY <1>1 DEF PostInv, Accepted

LEMMA ReadersStay ==
  ASSUME \A r \in Readers : ReaderInv(r), \A r \in Readers : pc'[r] = pc[r],
         UNCHANGED readVars, \A i \in Stored : notes'[i] = notes[i]
  PROVE  \A r \in Readers : ReaderInv(r)'
<1> SUFFICES ASSUME NEW r \in Readers PROVE ReaderInv(r)'
  OBVIOUS
<1>1. \A i : i \in Stored => i \in Stored'
  BY DEF Stored
<1>2. \A i : i \in Scope(None) \cup Scope(by[r]) => i \in (Scope(None) \cup Scope(by[r]))'
  BY <1>1 DEF Scope, readVars
<1> QED
  BY <1>1, <1>2 DEF ReaderInv, readVars

LEMMA LagStays ==
  ASSUME LagInv, \A r \in Readers : pc'[r] = pc[r], UNCHANGED readVars,
         (lag' \cap read') \subseteq (lag \cap read),
         (lag' \cap swallowed) \subseteq swallowed'
  PROVE  LagInv'
  BY DEF LagInv, readVars

LEMMA ScreensStay ==
  ASSUME StoreInv, \A d \in Screens : ScreenInv(d), \A r \in Readers : pc'[r] = pc[r],
         UNCHANGED <<screenVars, readVars, read, emitted>>,
         \A i \in Stored : notes'[i] = notes[i]
  PROVE  \A d \in Screens : ScreenInv(d)'
<1> SUFFICES ASSUME NEW d \in Screens PROVE ScreenInv(d)'
  OBVIOUS
<1>1. ScreenInv(d)
  OBVIOUS
<1>2. \A i \in emitted : i \in Unread(UserOf[d])' => i \in Unread(UserOf[d])
  BY DEF StoreInv, Unread, Visible, Stored
<1>3. \A i : i \in Visible(UserOf[d]) => i \in Visible(UserOf[d])'
  BY DEF Visible, Stored
<1>4. \A i : Owed(i) => Owed(i)'
  BY DEF Owed, readVars
<1> QED
  BY <1>1, <1>2, <1>3, <1>4 DEF ScreenInv, screenVars

-----------------------------------------------------------------------------
(* The invariant holds initially *)

LEMMA InitIInv == Init => IInv
<1> SUFFICES ASSUME Init PROVE IInv
  OBVIOUS
<1> USE DEF Init
<1>1. StoreInv
  <2>1. PICK b \in Inputs \cup {None} :
          notes = [i \in Ids |-> IF i = 1 THEN b ELSE None]
    OBVIOUS
  <2>2. Stored \subseteq {1}
    BY <2>1 DEF Stored
  <2> QED
    BY <2>2 DEF StoreInv
<1>2. \A p \in Posts : PostInv(p)
  BY DEF PostInv, Accepted
<1>3. \A r \in Readers : ReaderInv(r)
  BY DEF ReaderInv
<1>4. LagInv
  BY DEF LagInv
<1>5. \A d \in Screens : ScreenInv(d)
  <2> SUFFICES ASSUME NEW d \in Screens PROVE ScreenInv(d)
    OBVIOUS
  <2>1. stage[d] = "off" /\ floor[d] = MaxId + 1 /\ page[d] = NoPage /\ listed[d] = {}
        /\ heard[d] = {} /\ hidden[d] = {}
    OBVIOUS
  <2>2. page[d].ids = {}
    BY <2>1 DEF NoPage
  <2> QED
    BY <2>1, <2>2 DEF ScreenInv
<1> QED
  BY <1>1, <1>2, <1>3, <1>4, <1>5 DEF IInv

-----------------------------------------------------------------------------
(* ... and every step of a post keeps it *)

LEMMA BeginInv ==
  ASSUME TypeOK, IInv, NEW p \in Posts, Begin(p)
  PROVE  IInv'
<1>1. PICK b \in Inputs :
        /\ body' = [body EXCEPT ![p] = b]
        /\ late' = [late EXCEPT ![p] =
             \E q \in Posts :
               pc[q] \in Accepted /\ b.key # NoKey /\ body[q].key = b.key]
        /\ Goes(p, IF b.key = NoKey THEN "insert" ELSE "find")
  BY DEF Begin
<1>2. pc'[p] = (IF b.key = NoKey THEN "insert" ELSE "find")
      /\ \A y \in Actors : y # p => pc'[y] = pc[y]
  BY <1>1, OthersStay, Disjoint DEF Actors
<1>3. UNCHANGED <<storeVars, lag, swallowed, emitted, note, readVars, screenVars>>
  BY DEF Begin
<1>4. \A r \in Readers : pc'[r] = pc[r]
  BY <1>2, Disjoint
<1>5. StoreInv'
  BY <1>3 DEF IInv, StoreInv, Stored, storeVars
<1>6. \A q \in Posts : PostInv(q)'
  <2>1. ASSUME NEW q \in Posts, q # p PROVE PostInv(q)'
    <3>1. pc'[q] = pc[q] /\ body'[q] = body[q] /\ note'[q] = note[q] /\ late'[q] = late[q]
      BY <1>1, <1>2, <1>3, <2>1 DEF TypeOK, Actors
    <3> QED
      BY <1>3, <3>1, PostStays DEF IInv, StoreInv, storeVars
  <2>2. PostInv(p)'
    <3>1. body'[p] = b
      BY <1>1 DEF TypeOK
    <3>2. late'[p] => \E q \in Posts :
                        pc[q] \in Accepted /\ b.key # NoKey /\ body[q].key = b.key
      BY <1>1 DEF TypeOK
    <3>3. ASSUME late'[p] PROVE b.key # NoKey /\ \E i \in published : notes[i].key = b.key
      <4>1. PICK q \in Posts : pc[q] \in Accepted /\ b.key # NoKey /\ body[q].key = b.key
        BY <3>2, <3>3
      <4>2. PostInv(q)
        BY DEF IInv
      <4> QED
        BY <4>1, <4>2 DEF PostInv
    <3>4. pc'[p] \in {"insert", "find"} /\ (late'[p] => pc'[p] = "find")
      BY <1>2, <3>3
    <3> QED
      BY <1>3, <3>1, <3>3, <3>4 DEF PostInv, Accepted, storeVars
  <2> QED
    BY <2>1, <2>2
<1>7. \A r \in Readers : ReaderInv(r)'
  BY <1>3, <1>4, ReadersStay DEF IInv, storeVars
<1>8. LagInv'
  BY <1>3, <1>4, LagStays DEF IInv, storeVars
<1>9. \A d \in Screens : ScreenInv(d)'
  BY <1>3, <1>4, ScreensStay DEF IInv, storeVars
<1> QED
  BY <1>5, <1>6, <1>7, <1>8, <1>9 DEF IInv

LEMMA FindInv ==
  ASSUME TypeOK, IInv, NEW p \in Posts, Find(p)
  PROVE  IInv'
<1>1. UNCHANGED <<storeVars, lag, swallowed, emitted, body, late, readVars, screenVars>>
  BY DEF Find
<1>2. \A y \in Actors : y # p => pc'[y] = pc[y]
  BY OthersStay, Disjoint DEF Find, Found, Actors
<1>3. \A r \in Readers : pc'[r] = pc[r]
  BY <1>2, Disjoint
<1>4. StoreInv'
  BY <1>1 DEF IInv, StoreInv, Stored, storeVars
<1>5. \A q \in Posts : PostInv(q)'
  <2>1. ASSUME NEW q \in Posts, q # p PROVE PostInv(q)'
    <3>1. pc'[q] = pc[q] /\ note'[q] = note[q]
      BY <1>2, <2>1 DEF TypeOK, Actors, Find
    <3> QED
      BY <1>1, <3>1, PostStays DEF IInv, StoreInv, storeVars
  <2>2. PostInv(p)'
    <3>1. PostInv(p) /\ StoreInv
      BY DEF IInv
    <3>2. body[p] \in Inputs
      BY <3>1 DEF Find, PostInv
    <3>3. CASE WithKey(body[p].key) # {}
      <4>1. PICK i \in WithKey(body[p].key) : Found(p, i) /\ note' = [note EXCEPT ![p] = i]
        BY <3>3 DEF Find
      <4>2. /\ i \in Stored
            /\ notes[i].key = body[p].key
            /\ body[p].key # NoKey
            /\ note'[p] = i
        BY <4>1 DEF WithKey, TypeOK
      <4>3. late[p] => i \in published
        BY <3>1, <4>2 DEF PostInv, StoreInv
      <4>4. pc'[p] = (IF notes[i] # body[p] THEN "conflict"
                      ELSE IF i \in published THEN "suppressed" ELSE "invalidate")
        BY <4>1, OthersStay, Disjoint DEF Found, Actors
      <4>5. /\ pc'[p] \in {"conflict", "suppressed", "invalidate"}
            /\ pc'[p] # "conflict" => notes[i] = body[p]
            /\ pc'[p] = "suppressed" => i \in published
            /\ late[p] => pc'[p] # "invalidate"
        BY <4>3, <4>4
      <4> QED
        BY <1>1, <3>1, <3>2, <4>2, <4>5 DEF PostInv, Accepted, Stored, storeVars
    <3>4. CASE WithKey(body[p].key) = {}
      <4>1. ~ late[p]
        BY <3>1, <3>4 DEF PostInv, StoreInv, WithKey
      <4>2. pc'[p] \in {"insert", "error"}
        BY <3>4, OthersStay, Disjoint DEF Find, Actors
      <4> QED
        BY <1>1, <3>2, <4>1, <4>2 DEF PostInv, Accepted
    <3> QED
      BY <3>3, <3>4
  <2> QED
    BY <2>1, <2>2
<1>6. \A r \in Readers : ReaderInv(r)'
  BY <1>1, <1>3, ReadersStay DEF IInv, storeVars
<1>7. LagInv'
  BY <1>1, <1>3, LagStays DEF IInv, storeVars
<1>8. \A d \in Screens : ScreenInv(d)'
  BY <1>1, <1>3, ScreensStay DEF IInv, storeVars
<1> QED
  BY <1>4, <1>5, <1>6, <1>7, <1>8 DEF IInv

LEMMA InsertInv ==
  ASSUME TypeOK, IInv, NEW p \in Posts, Insert(p)
  PROVE  IInv'
<1>0. PostInv(p) /\ StoreInv
  BY DEF IInv
<1>1. UNCHANGED <<published, read, swallowed, emitted, body, late, readVars, screenVars>>
  BY DEF Insert
<1>2. \A y \in Actors : y # p => pc'[y] = pc[y]
  BY OthersStay, Disjoint DEF Insert, Actors
<1>3. \A r \in Readers : pc'[r] = pc[r]
  BY <1>2, Disjoint
<1>4. body[p] \in Inputs /\ ~ late[p]
  BY <1>0 DEF Insert, PostInv
<1>5. CASE WithKey(body[p].key) # {}
  <2>1. UNCHANGED <<notes, lag, note>>
    BY <1>5 DEF Insert
  <2>2. pc'[p] = "refind"
    BY <1>5, OthersStay, Disjoint DEF Insert, Actors
  <2>3. StoreInv'
    BY <1>0, <1>1, <2>1 DEF StoreInv, Stored
  <2>4. \A q \in Posts : PostInv(q)'
    <3>1. ASSUME NEW q \in Posts, q # p PROVE PostInv(q)'
      <4>1. pc'[q] = pc[q]
        BY <1>2, <3>1 DEF Actors
      <4> QED
        BY <1>1, <2>1, <4>1, PostStays DEF IInv, StoreInv
    <3>2. PostInv(p)'
      BY <1>1, <1>4, <2>2 DEF PostInv, Accepted
    <3> QED
      BY <3>1, <3>2
  <2>5. \A r \in Readers : ReaderInv(r)'
    BY <1>1, <1>3, <2>1, ReadersStay DEF IInv
  <2>6. LagInv'
    BY <1>1, <1>3, <2>1, LagStays DEF IInv
  <2>7. \A d \in Screens : ScreenInv(d)'
    BY <1>1, <1>3, <2>1, ScreensStay DEF IInv
  <2> QED
    BY <2>3, <2>4, <2>5, <2>6, <2>7 DEF IInv
<1>6. CASE WithKey(body[p].key) = {}
  <2>1. PICK i \in Ids \ Stored :
          /\ notes' = [notes EXCEPT ![i] = body[p]]
          /\ lag' = lag \cup {i}
          /\ note' = [note EXCEPT ![p] = i]
          /\ Goes(p, "invalidate")
    BY <1>6 DEF Insert
  <2>2. /\ \A j \in Stored : notes'[j] = notes[j]
        /\ notes'[i] = body[p]
        /\ Stored' = Stored \cup {i}
    BY <1>4, <2>1, NoneIsNoBody DEF TypeOK, Stored
  <2>3. pc'[p] = "invalidate" /\ note'[p] = i
    BY <2>1, OthersStay, Disjoint DEF Actors, TypeOK
  <2>4. StoreInv'
    <3>1. \A j \in Stored : notes[j].key = body[p].key => body[p].key = NoKey
      BY <1>6 DEF WithKey
    <3>2. \A j, k \in Stored' :
            notes'[j].key = notes'[k].key => notes'[j].key = NoKey \/ j = k
      BY <1>0, <2>2, <3>1 DEF StoreInv
    <3>3. i \notin emitted
      BY <1>0 DEF StoreInv
    <3> QED
      BY <1>0, <1>1, <2>1, <2>2, <3>2, <3>3 DEF StoreInv
  <2>5. \A q \in Posts : PostInv(q)'
    <3>1. ASSUME NEW q \in Posts, q # p PROVE PostInv(q)'
      <4>1. pc'[q] = pc[q] /\ note'[q] = note[q]
        BY <1>2, <2>1, <3>1 DEF Actors, TypeOK
      <4>2. \A j \in Stored : j \in lag' /\ j \notin read' /\ j \notin swallowed'
                              => j \in lag /\ j \notin read /\ j \notin swallowed
        BY <1>1, <2>1
      <4> QED
        BY <1>0, <1>1, <2>2, <4>1, <4>2, PostStays DEF IInv, StoreInv
    <3>2. PostInv(p)'
      BY <1>1, <1>4, <2>2, <2>3 DEF PostInv, Accepted
    <3> QED
      BY <3>1, <3>2
  <2>6. \A r \in Readers : ReaderInv(r)'
    BY <1>1, <1>3, <2>2, ReadersStay DEF IInv
  <2>7. LagInv'
    <3>1. i \notin read'
      BY <1>0, <1>1 DEF StoreInv
    <3> QED
      BY <1>1, <1>3, <2>1, <3>1, LagStays DEF IInv
  <2>8. \A d \in Screens : ScreenInv(d)'
    BY <1>1, <1>3, <2>2, ScreensStay DEF IInv
  <2> QED
    BY <2>4, <2>5, <2>6, <2>7, <2>8 DEF IInv
<1> QED
  BY <1>5, <1>6

LEMMA InvalidateInv ==
  ASSUME TypeOK, IInv, NEW p \in Posts, Invalidate(p)
  PROVE  IInv'
<1>0. PostInv(p) /\ StoreInv
  BY DEF IInv
<1>1. UNCHANGED <<storeVars, emitted, postVars, readVars, screenVars>>
      /\ Bump({body[p].user}, {note[p]})
  BY DEF Invalidate
<1>b. /\ lag' \subseteq lag
      /\ \A i \in lag' : i \in swallowed => i \in swallowed'
      /\ \A i \in lag' : i = note[p] /\ i \in Stored => i \in swallowed'
  BY <1>1, BumpFacts
<1>2. pc'[p] = "emit" /\ \A y \in Actors : y # p => pc'[y] = pc[y]
  BY OthersStay, Disjoint DEF Invalidate, Actors
<1>3. \A r \in Readers : pc'[r] = pc[r]
  BY <1>2, Disjoint
<1>4. StoreInv'
  BY <1>0, <1>1, <1>b DEF StoreInv, Stored, storeVars
<1>5. \A q \in Posts : PostInv(q)'
  <2>1. ASSUME NEW q \in Posts, q # p PROVE PostInv(q)'
    <3>1. pc'[q] = pc[q]
      BY <1>2, <2>1 DEF Actors
    <3> QED
      BY <1>1, <1>b, <3>1, PostStays DEF IInv, StoreInv, storeVars, postVars
  <2>2. PostInv(p)'
    <3>1. /\ note[p] \in Ids /\ notes[note[p]] = body[p]
          /\ body[p] \in Inputs /\ ~ late[p]
      BY <1>0 DEF PostInv, Invalidate
    <3>2. note[p] \in Stored
      BY <3>1, NoneIsNoBody DEF Stored
    <3>3. note[p] \in lag' => note[p] \in swallowed'
      BY <1>b, <3>2
    <3> QED
      BY <1>1, <1>2, <3>3, <3>1, <3>2 DEF PostInv, Accepted, storeVars, postVars
  <2> QED
    BY <2>1, <2>2
<1>6. \A r \in Readers : ReaderInv(r)'
  BY <1>1, <1>3, ReadersStay DEF IInv, storeVars
<1>7. LagInv'
  BY <1>1, <1>b, <1>3, LagStays DEF IInv, storeVars
<1>8. \A d \in Screens : ScreenInv(d)'
  BY <1>1, <1>3, ScreensStay DEF IInv, storeVars
<1> QED
  BY <1>4, <1>5, <1>6, <1>7, <1>8 DEF IInv

LEMMA EmitInv ==
  ASSUME TypeOK, IInv, NEW p \in Posts, Emit(p)
  PROVE  IInv'
<1>0. PostInv(p) /\ StoreInv
  BY DEF IInv
<1>1. /\ UNCHANGED <<storeVars, lag, swallowed, postVars, readVars, stage, floor, page,
                     listed, told, hidden>>
      /\ emitted' = emitted \cup {note[p]}
      /\ heard' = [d \in Screens |->
                     heard[d] \cup (IF d \in Room(body[p].user) THEN {note[p]} ELSE {})]
  BY DEF Emit
<1>2. pc'[p] = "mark" /\ \A y \in Actors : y # p => pc'[y] = pc[y]
  BY OthersStay, Disjoint DEF Emit, Actors
<1>3. \A r \in Readers : pc'[r] = pc[r]
  BY <1>2, Disjoint
<1>4. /\ note[p] \in Stored /\ notes[note[p]] = body[p]
      /\ body[p] \in Inputs /\ ~ late[p]
      /\ note[p] \notin lag \/ note[p] \in read \/ note[p] \in swallowed
  BY <1>0, NoneIsNoBody DEF PostInv, Emit, Stored
<1>5. StoreInv'
  BY <1>0, <1>1, <1>4 DEF StoreInv, Stored, storeVars
<1>6. \A q \in Posts : PostInv(q)'
  <2>1. ASSUME NEW q \in Posts, q # p PROVE PostInv(q)'
    <3>1. pc'[q] = pc[q]
      BY <1>2, <2>1 DEF Actors
    <3> QED
      BY <1>1, <3>1, PostStays DEF IInv, StoreInv, storeVars, postVars
  <2>2. PostInv(p)'
    BY <1>1, <1>2, <1>4 DEF PostInv, Accepted, storeVars, postVars, Stored
  <2> QED
    BY <2>1, <2>2
<1>7. \A r \in Readers : ReaderInv(r)'
  BY <1>1, <1>3, ReadersStay DEF IInv, storeVars
<1>8. LagInv'
  BY <1>1, <1>3, LagStays DEF IInv, storeVars
<1>9. ASSUME NEW d \in Screens PROVE ScreenInv(d)'
  <2>1. ScreenInv(d)
    BY DEF IInv
  <2>2. heard'[d] = heard[d] \cup (IF d \in Room(body[p].user) THEN {note[p]} ELSE {})
    BY <1>1
  <2>3. /\ Visible(UserOf[d])' = Visible(UserOf[d])
        /\ Unread(UserOf[d])' = Unread(UserOf[d])
    BY <1>1 DEF Visible, Unread, Stored, storeVars
  <2>4. d \in Room(body[p].user) => stage[d] # "off" /\ note[p] \in Visible(UserOf[d])
    BY <1>4 DEF Room, Visible
  <2>5. note[p] \in Visible(UserOf[d]) /\ stage[d] # "off" => d \in Room(body[p].user)
    BY <1>4 DEF Room, Visible
  <2>6. \A i : Owed(i) => Owed(i)'
    BY <1>1, <1>3 DEF Owed, readVars
  <2>7. note[p] \in Unread(UserOf[d]) => note[p] \in Visible(UserOf[d])
    BY DEF Unread
  <2>8. /\ stage'[d] = stage[d] /\ floor'[d] = floor[d] /\ page'[d] = page[d]
        /\ listed'[d] = listed[d] /\ told'[d] = told[d] /\ read' = read /\ hidden'[d] = hidden[d]
    BY <1>1 DEF storeVars
  <2> QED
    BY <1>1, <2>1, <2>2, <2>3, <2>4, <2>5, <2>6, <2>7, <2>8 DEF ScreenInv
<1> QED
  BY <1>5, <1>6, <1>7, <1>8, <1>9 DEF IInv

\* Mark and MarkUnanswered
LEMMA MarkInv ==
  ASSUME TypeOK, IInv, NEW p \in Posts, Mark(p) \/ MarkUnanswered(p)
  PROVE  IInv'
<1>0. PostInv(p) /\ StoreInv
  BY DEF IInv
<1>1. /\ UNCHANGED <<notes, read, lag, swallowed, emitted, postVars, readVars, screenVars>>
      /\ published' = published \cup {note[p]}
  BY DEF Mark, MarkUnanswered, Receipt
<1>2. pc[p] = "mark" /\ pc'[p] \in {"published", "error"}
      /\ \A y \in Actors : y # p => pc'[y] = pc[y]
  BY OthersStay, Disjoint DEF Mark, MarkUnanswered, Actors
<1>3. \A r \in Readers : pc'[r] = pc[r]
  BY <1>2, Disjoint
<1>4. /\ note[p] \in Ids /\ notes[note[p]] = body[p] /\ note[p] \in emitted
      /\ body[p] \in Inputs /\ ~ late[p]
  BY <1>0, <1>2 DEF PostInv
<1>5. StoreInv'
  BY <1>0, <1>1, <1>4 DEF StoreInv, Stored
<1>6. \A q \in Posts : PostInv(q)'
  <2>1. ASSUME NEW q \in Posts, q # p PROVE PostInv(q)'
    <3>1. pc'[q] = pc[q]
      BY <1>2, <2>1 DEF Actors
    <3> QED
      BY <1>0, <1>1, <3>1, PostStays DEF IInv, StoreInv, postVars
  <2>2. PostInv(p)'
    BY <1>1, <1>2, <1>4 DEF PostInv, Accepted, postVars
  <2> QED
    BY <2>1, <2>2
<1>7. \A r \in Readers : ReaderInv(r)'
  BY <1>1, <1>3, ReadersStay DEF IInv
<1>8. LagInv'
  BY <1>1, <1>3, LagStays DEF IInv
<1>9. \A d \in Screens : ScreenInv(d)'
  BY <1>1, <1>3, ScreensStay DEF IInv
<1> QED
  BY <1>5, <1>6, <1>7, <1>8, <1>9 DEF IInv

LEMMA LoseInv ==
  ASSUME TypeOK, IInv, NEW x \in Actors, Lose(x)
  PROVE  IInv'
<1>1. UNCHANGED <<storeVars, lag, swallowed, emitted, postVars, readVars, screenVars>>
  BY DEF Lose
<1>2. /\ pc[x] \notin {"idle", "done"} \cup Accepted
      /\ pc'[x] = "error"
      /\ \A y \in Actors : y # x => pc'[y] = pc[y]
  BY OthersStay DEF Lose, Accepted
<1>3. StoreInv'
  BY <1>1 DEF IInv, StoreInv, Stored, storeVars
<1>4. ASSUME NEW q \in Posts PROVE PostInv(q)'
  <2>1. PostInv(q) /\ q \in Actors
    BY Disjoint DEF IInv, Actors
  <2>2. CASE q # x
    <3>1. pc'[q] = pc[q]
      BY <1>2, <2>1, <2>2
    <3> QED
      BY <1>1, <2>1, <3>1, PostStays DEF IInv, StoreInv, storeVars, postVars
  <2>3. CASE q = x
    BY <1>1, <1>2, <2>1, <2>3 DEF PostInv, Accepted, storeVars, postVars
  <2> QED
    BY <2>2, <2>3
<1>5. ASSUME NEW r \in Readers PROVE ReaderInv(r)'
  <2>1. ReaderInv(r) /\ r \in Actors
    BY DEF IInv, Actors
  <2>2. CASE r # x
    <3>1. pc'[r] = pc[r]
      BY <1>2, <2>1, <2>2
    <3> QED
      BY <1>1, <2>1, <3>1 DEF ReaderInv, storeVars, readVars, Scope, Stored
  <2>3. CASE r = x
    BY <1>2, <2>3 DEF ReaderInv
  <2> QED
    BY <2>2, <2>3
<1>6. \A r \in Readers : /\ pc[r] = "error" => pc'[r] = "error"
                         /\ pc'[r] # pc[r] => pc'[r] = "error"
                         /\ pc'[r] = "done" => pc[r] = "done"
  BY <1>2 DEF Actors
<1>7. LagInv'
  BY <1>1, <1>6 DEF IInv, LagInv, storeVars, readVars
<1>8. ASSUME NEW d \in Screens PROVE ScreenInv(d)'
  <2>1. \A i : Owed(i) => Owed(i)'
    BY <1>1, <1>6 DEF Owed, readVars
  <2>2. ScreenInv(d)
    BY DEF IInv
  <2>3. /\ Visible(UserOf[d])' = Visible(UserOf[d])
        /\ Unread(UserOf[d])' = Unread(UserOf[d])
    BY <1>1 DEF Visible, Unread, Stored, storeVars
  <2> QED
    BY <1>1, <2>1, <2>2, <2>3 DEF ScreenInv, storeVars, screenVars
<1> QED
  BY <1>3, <1>4, <1>5, <1>7, <1>8 DEF IInv

-----------------------------------------------------------------------------
(* ... of a reader *)

\* A reader marks what its user may see and nobody has read.
LEMMA MarkingInv ==
  ASSUME TypeOK, IInv, NEW r \in Readers, pc[r] = "idle",
         NEW u \in Users, NEW R, R \subseteq Unread(u), NEW t,
         Goes(r, t), by' \in [Readers -> Users \cup {None}],
         \A s \in Readers : s # r => by'[s] = by[s], t = "invalidate all" => by'[r] = u,
         read' = read \cup R, lag' = lag \cup R, swallowed' = swallowed \ R,
         marked' = [marked EXCEPT ![r] = R],
         t = "invalidate" => \E i \in Stored : R = {i},
         t \in {"invalidate", "invalidate all"} \/ (t \in {"done", "error"} /\ R = {}),
         UNCHANGED <<notes, published, emitted, postVars, screenVars>>
  PROVE  IInv'
<1>1. /\ pc'[r] = t
      /\ \A y \in Actors : y # r => pc'[y] = pc[y]
  BY OthersStay DEF Actors
<1>2. R \subseteq Stored /\ R \subseteq Scope(None) \cup Scope(u)
  BY DEF Unread, Visible, Scope
<1>3. marked'[r] = R /\ (t = "invalidate all" => by'[r] = u) /\ marked[r] = {}
      /\ \A s \in Readers : s # r => marked'[s] = marked[s] /\ by'[s] = by[s]
  BY DEF TypeOK, IInv, ReaderInv
<1>4. StoreInv'
  BY <1>2 DEF IInv, StoreInv, Stored
<1>5. ASSUME NEW q \in Posts PROVE PostInv(q)'
  <2>1. pc'[q] = pc[q]
    BY <1>1, Disjoint
  <2> QED
    BY <2>1, PostStays DEF IInv, StoreInv, postVars
<1>6. ASSUME NEW s \in Readers PROVE ReaderInv(s)'
  <2>1. CASE s = r
    <3>1. t = "invalidate all" => R \subseteq (Scope(None) \cup Scope(by[r]))'
      BY <1>2, <1>3 DEF Scope, Stored
    <3>2. \A i \in Stored : i \in Stored'
      BY DEF Stored
    <3> QED
      BY <1>1, <1>3, <2>1, <3>1, <3>2 DEF ReaderInv
  <2>2. CASE s # r
    <3>1. pc'[s] = pc[s] /\ marked'[s] = marked[s] /\ by'[s] = by[s] /\ ReaderInv(s)
      BY <1>1, <1>3, <2>2 DEF Actors, IInv
    <3>2. \A i \in Stored : i \in Stored'
      BY DEF Stored
    <3>3. (Scope(None) \cup Scope(by[s]))' = Scope(None) \cup Scope(by[s])
      BY <3>1 DEF Scope, Stored
    <3> QED
      BY <3>1, <3>2, <3>3 DEF ReaderInv
  <2> QED
    BY <2>1, <2>2
<1>7. \A s \in Readers : \A i : i \in marked[s] => s # r /\ i \in marked'[s] /\ pc'[s] = pc[s]
  BY <1>1, <1>3 DEF Actors
<1>8. \A i \in R : i \in marked'[r] /\ pc'[r] \in {"invalidate", "invalidate all"}
  BY <1>1, <1>3
<1>9. LagInv'
  <2> SUFFICES ASSUME NEW i \in lag' \cap read', i \notin swallowed'
               PROVE  \E s \in Readers : /\ i \in marked'[s]
                                         /\ pc'[s] \in {"invalidate", "invalidate all", "error"}
    BY DEF LagInv
  <2>1. CASE i \in R
    BY <1>8, <2>1
  <2>2. CASE i \notin R
    <3>1. i \in lag \cap read /\ i \notin swallowed
      BY <2>2
    <3> QED
      BY <1>7, <3>1 DEF IInv, LagInv
  <2> QED
    BY <2>1, <2>2
<1>10. ASSUME NEW d \in Screens PROVE ScreenInv(d)'
  <2>1. \A i : Owed(i) => Owed(i)'
    BY <1>7 DEF Owed
  <2>2. \A i \in R : Owed(i)'
    BY <1>8 DEF Owed
  <2>3. ScreenInv(d)
    BY DEF IInv
  <2>4. /\ Visible(UserOf[d])' = Visible(UserOf[d])
        /\ Unread(UserOf[d])' \subseteq Unread(UserOf[d])
    BY DEF Visible, Unread, Stored
  <2> QED
    BY <2>1, <2>2, <2>3, <2>4 DEF ScreenInv, screenVars
<1> QED
  BY <1>4, <1>5, <1>6, <1>9, <1>10 DEF IInv

LEMMA MarkReadInv ==
  ASSUME TypeOK, IInv, NEW r \in Readers, NEW u \in Users, MarkRead(r, u)
  PROVE  IInv'
<1>1. PICK i \in Ids :
        IF i \in Unread(u)
          THEN /\ read' = read \cup {i}
               /\ lag' = lag \cup {i}
               /\ swallowed' = swallowed \ {i}
               /\ marked' = [marked EXCEPT ![r] = {i}]
               /\ Goes(r, "invalidate")
          ELSE /\ Goes(r, IF i \in Visible(u) THEN "done" ELSE "error")
               /\ UNCHANGED <<read, lag, swallowed, marked>>
  BY DEF MarkRead
<1>2. /\ pc[r] = "idle" /\ by' = by /\ by' \in [Readers -> Users \cup {None}]
      /\ UNCHANGED <<notes, published, emitted, postVars, screenVars>>
  BY DEF MarkRead, TypeOK
<1>3. CASE i \in Unread(u)
  <2>1. i \in Stored /\ {i} \subseteq Unread(u)
    BY <1>3 DEF Unread, Visible
  <2>2. \E j \in Stored : {i} = {j}
    BY <2>1
  <2> QED
    BY <1>1, <1>2, <1>3, <2>1, <2>2, MarkingInv
<1>4. CASE i \notin Unread(u)
  <2>1. marked[r] = {}
    BY <1>2 DEF IInv, ReaderInv
  <2>2. marked' = [marked EXCEPT ![r] = {}]
    BY <1>1, <1>4, <2>1 DEF TypeOK
  <2>3. read' = read \cup {} /\ lag' = lag \cup {} /\ swallowed' = swallowed \ {}
    BY <1>1, <1>4
  <2>4. Goes(r, "done") \/ Goes(r, "error")
    BY <1>1, <1>4
  <2>5. {} \subseteq Unread(u)
    OBVIOUS
  <2>6. CASE Goes(r, "done")
    BY <1>2, <2>2, <2>3, <2>5, <2>6, MarkingInv
  <2>7. CASE Goes(r, "error")
    BY <1>2, <2>2, <2>3, <2>5, <2>7, MarkingInv
  <2> QED
    BY <2>4, <2>6, <2>7
<1> QED
  BY <1>3, <1>4

LEMMA MarkAllReadInv ==
  ASSUME TypeOK, IInv, NEW r \in Readers, NEW u \in Users, MarkAllRead(r, u)
  PROVE  IInv'
<1>1. /\ pc[r] = "idle"
      /\ by' = [by EXCEPT ![r] = IF Unread(u) = {} THEN None ELSE u]
      /\ read' = read \cup Unread(u)
      /\ lag' = lag \cup Unread(u)
      /\ swallowed' = swallowed \ Unread(u)
      /\ marked' = [marked EXCEPT ![r] = Unread(u)]
      /\ Goes(r, IF Unread(u) = {} THEN "done" ELSE "invalidate all")
      /\ UNCHANGED <<notes, published, emitted, postVars, screenVars>>
  BY DEF MarkAllRead
<1>by. /\ by' \in [Readers -> Users \cup {None}]
       /\ \A s \in Readers : s # r => by'[s] = by[s]
       /\ Unread(u) # {} => by'[r] = u
  BY <1>1 DEF TypeOK
<1>2. CASE Unread(u) = {}
  <2>1. Goes(r, "done")
    BY <1>1, <1>2
  <2> QED
    BY <1>1, <1>by, <1>2, <2>1, MarkingInv
<1>3. CASE Unread(u) # {}
  <2>1. Goes(r, "invalidate all")
    BY <1>1, <1>3
  <2> QED
    BY <1>1, <1>by, <1>3, <2>1, MarkingInv
<1> QED
  BY <1>2, <1>3

LEMMA InvalidateReadInv ==
  ASSUME TypeOK, IInv, NEW r \in Readers, InvalidateRead(r)
  PROVE  IInv'
<1>1. UNCHANGED <<storeVars, emitted, postVars, readVars, screenVars>>
  BY DEF InvalidateRead
<1>2. /\ \A y \in Actors : y # r => pc'[y] = pc[y]
      /\ pc[r] = "invalidate" => pc'[r] = "emit"
      /\ pc[r] = "invalidate all" => pc'[r] = "emit all"
      /\ pc[r] \in {"invalidate", "invalidate all"}
  BY OthersStay DEF InvalidateRead, Actors
<1>3. /\ lag' \subseteq lag
      /\ \A i \in lag' : i \in swallowed => i \in swallowed'
      /\ \A i \in lag' : i \in marked[r] => i \in swallowed'
  <2>1. CASE pc[r] = "invalidate"
    <3>1. PICK i \in marked[r] : Bump({notes[i].user}, {i})
      BY <2>1 DEF InvalidateRead
    <3>2. PICK j \in Stored : marked[r] = {j}
      BY <2>1 DEF IInv, ReaderInv
    <3>3. i \in Stored /\ marked[r] = {i}
      BY <3>1, <3>2
    <3> QED
      BY <3>1, <3>3, BumpFacts
  <2>2. CASE pc[r] = "invalidate all"
    <3>1. Bump({None, by[r]}, marked[r])
      BY <2>2 DEF InvalidateRead
    <3>2. marked[r] \subseteq Stored
      BY <2>2 DEF IInv, ReaderInv, Scope
    <3> QED
      BY <3>1, <3>2, BumpFacts
  <2> QED
    BY <1>2, <2>1, <2>2
<1>4. StoreInv'
  BY <1>1, <1>3 DEF IInv, StoreInv, Stored, storeVars
<1>5. ASSUME NEW q \in Posts PROVE PostInv(q)'
  <2>1. pc'[q] = pc[q]
    BY <1>2, Disjoint
  <2> QED
    BY <1>1, <1>3, <2>1, PostStays DEF IInv, StoreInv, storeVars, postVars
<1>6. ASSUME NEW s \in Readers PROVE ReaderInv(s)'
  <2>1. s # r => pc'[s] = pc[s]
    BY <1>2 DEF Actors
  <2>2. ReaderInv(s)
    BY DEF IInv
  <2> QED
    BY <1>1, <1>2, <2>1, <2>2 DEF ReaderInv, storeVars, readVars, Scope, Stored
<1>7. LagInv'
  <2> SUFFICES ASSUME NEW i \in lag' \cap read', i \notin swallowed'
               PROVE  \E s \in Readers : /\ i \in marked'[s]
                                         /\ pc'[s] \in {"invalidate", "invalidate all", "error"}
    BY DEF LagInv
  <2>1. PICK s \in Readers : i \in marked[s] /\ pc[s] \in {"invalidate", "invalidate all", "error"}
    BY <1>1, <1>3 DEF IInv, LagInv, storeVars
  <2>2. s # r
    BY <1>3, <2>1
  <2> QED
    BY <1>1, <1>2, <2>1, <2>2 DEF Actors, readVars
<1>8. ASSUME NEW d \in Screens PROVE ScreenInv(d)'
  <2>2. \A i : Owed(i) => Owed(i)'
    BY <1>1 DEF Owed, readVars
  <2>3. ScreenInv(d)
    BY DEF IInv
  <2>4. /\ Visible(UserOf[d])' = Visible(UserOf[d])
        /\ Unread(UserOf[d])' = Unread(UserOf[d])
    BY <1>1 DEF Visible, Unread, Stored, storeVars
  <2> QED
    BY <1>1, <2>2, <2>3, <2>4 DEF ScreenInv, storeVars, screenVars
<1> QED
  BY <1>4, <1>5, <1>6, <1>7, <1>8 DEF IInv

LEMMA EmitReadInv ==
  ASSUME TypeOK, IInv, NEW r \in Readers, EmitRead(r)
  PROVE  IInv'
<1>1. UNCHANGED <<storeVars, lag, swallowed, emitted, postVars, stage, floor, page, listed,
                  heard, hidden>>
  BY DEF EmitRead
<1>r. /\ marked'[r] = {}
      /\ \A s \in Readers : s # r => marked'[s] = marked[s] /\ by'[s] = by[s]
  BY DEF EmitRead, TypeOK
<1>2. /\ \A y \in Actors : y # r => pc'[y] = pc[y]
      /\ pc'[r] = "done" /\ pc[r] \in {"emit", "emit all"}
  BY OthersStay DEF EmitRead, Actors
<1>3. StoreInv'
  BY <1>1 DEF IInv, StoreInv, Stored, storeVars
<1>4. ASSUME NEW q \in Posts PROVE PostInv(q)'
  <2>1. pc'[q] = pc[q]
    BY <1>2, Disjoint
  <2> QED
    BY <1>1, <2>1, PostStays DEF IInv, StoreInv, storeVars, postVars
<1>5. ASSUME NEW s \in Readers PROVE ReaderInv(s)'
  <2>1. CASE s = r
    BY <1>2, <2>1 DEF ReaderInv
  <2>2. CASE s # r
    <3>1. pc'[s] = pc[s] /\ marked'[s] = marked[s] /\ by'[s] = by[s] /\ ReaderInv(s)
      BY <1>2, <1>r, <2>2 DEF Actors, IInv
    <3> QED
      BY <1>1, <3>1 DEF ReaderInv, storeVars, Scope, Stored
  <2> QED
    BY <2>1, <2>2
<1>6. LagInv'
  <2>1. \A s \in Readers :
          pc[s] \in {"invalidate", "invalidate all", "error"}
            => pc'[s] = pc[s] /\ marked'[s] = marked[s]
    BY <1>2, <1>r DEF Actors
  <2> QED
    BY <1>1, <2>1 DEF IInv, LagInv, storeVars
<1>7. ASSUME NEW d \in Screens PROVE ScreenInv(d)'
  <2>1. ScreenInv(d)
    BY DEF IInv
  <2>2. /\ Visible(UserOf[d])' = Visible(UserOf[d])
        /\ Unread(UserOf[d])' = Unread(UserOf[d])
    BY <1>1 DEF Visible, Unread, Stored, storeVars
  <2>3. told[d] \subseteq told'[d]
    BY DEF EmitRead
  <2>4. stage[d] = "off" => listed[d] \cup page[d].ids = {}
    BY <2>1 DEF ScreenInv, NoPage
  <2>5. ASSUME NEW i \in marked[r], i \in Visible(UserOf[d]), stage[d] # "off"
        PROVE  i \in told'[d]
    <3>1. notes[i].user \in {None, UserOf[d]}
      BY <2>5 DEF Visible
    <3>2. CASE pc[r] = "emit"
      BY <2>5, <3>1, <3>2 DEF EmitRead, ReadRooms, Room
    <3>3. CASE pc[r] = "emit all"
      <4>1. notes[i].user \in {None, by[r]}
        BY <3>3 DEF IInv, ReaderInv, Scope
      <4>2. d \in Room(None) \cup Room(by[r])
        BY <2>5, <3>1, <4>1 DEF Room
      <4> QED
        BY <2>5, <3>3, <4>2 DEF EmitRead
    <3> QED
      BY <1>2, <3>2, <3>3
  <2>6. ASSUME NEW i, Owed(i), i \in listed[d] \cup page[d].ids
        PROVE  i \in told'[d] \/ Owed(i)'
    <3>1. PICK s \in Readers : i \in marked[s]
      BY <2>6 DEF Owed
    <3>2. CASE s = r
      BY <2>1, <2>4, <2>5, <2>6, <3>1, <3>2 DEF ScreenInv
    <3>3. CASE s # r
      BY <1>r, <3>1, <3>3 DEF Owed
    <3> QED
      BY <3>2, <3>3
  <2> QED
    BY <1>1, <2>1, <2>2, <2>3, <2>6 DEF ScreenInv, storeVars
<1> QED
  BY <1>3, <1>4, <1>5, <1>6, <1>7 DEF IInv

-----------------------------------------------------------------------------
(* ... and of a screen *)

\* Steps of a screen touch neither the store nor the posts nor the readers.
LEMMA ScreenFrame ==
  ASSUME IInv, UNCHANGED <<storeVars, lag, swallowed, emitted, pc, postVars, readVars>>
  PROVE  /\ StoreInv' /\ LagInv'
         /\ \A p \in Posts : PostInv(p)'
         /\ \A r \in Readers : ReaderInv(r)'
<1>1. StoreInv'
  BY DEF IInv, StoreInv, Stored, storeVars
<1>2. LagInv'
  BY DEF IInv, LagInv, storeVars, readVars
<1>3. \A p \in Posts : PostInv(p)'
  BY PostStays DEF IInv, StoreInv, storeVars, postVars
<1>4. \A r \in Readers : ReaderInv(r)'
  BY DEF IInv, ReaderInv, storeVars, readVars, Scope, Stored
<1> QED
  BY <1>1, <1>2, <1>3, <1>4

\* ... and those of one leave the others alone.
LEMMA OtherScreens ==
  ASSUME IInv, UNCHANGED <<storeVars, lag, swallowed, emitted, pc, postVars, readVars>>,
         NEW e \in Screens, stage'[e] = stage[e], floor'[e] = floor[e], page'[e] = page[e],
         listed'[e] = listed[e], heard'[e] = heard[e], told'[e] = told[e],
         hidden'[e] = hidden[e]
  PROVE  ScreenInv(e)'
<1>1. ScreenInv(e)
  BY DEF IInv
<1>2. /\ Visible(UserOf[e])' = Visible(UserOf[e])
      /\ Unread(UserOf[e])' = Unread(UserOf[e])
  BY DEF Visible, Unread, Stored, storeVars
<1>3. \A i : Owed(i)' = Owed(i)
  BY DEF Owed, readVars
<1> QED
  BY <1>1, <1>2, <1>3 DEF ScreenInv, storeVars

LEMMA IdsAreNatural == \A i \in Ids : i \in Nat
<1>1. MaxId \in Nat
  BY NotificationsAssumption DEF NotificationsAssumption
<1> QED
  BY <1>1 DEF Ids

\* A page of S has all of S from its floor on.
LEMMA PageHasAll ==
  ASSUME NEW S \in SUBSET Ids, NEW P \in SUBSET S, NEW f, IsPage(P, S, f),
         NEW i \in S, i >= f
  PROVE  i \in P
<1>1. CASE P = S
  BY <1>1
<1>2. CASE P # S
  <2>1. f \in P /\ \A j \in S \ P : j < f
    BY <1>2 DEF IsPage
  <2>2. i \in Ids /\ f \in Ids
    BY <2>1
  <2>3. i \in Nat /\ f \in Nat
    BY <2>2, IdsAreNatural
  <2> QED
    BY <2>1, <2>3
<1> QED
  BY <1>1, <1>2

\* Loading a page that has every emitted unread notification below the floor,
\* and of the others only what readers still owe, or was swallowed.
LEMMA LoadsInv ==
  ASSUME TypeOK, IInv, NEW d \in Screens, stage[d] \in {"joined", "ready"},
         NEW S \in SUBSET Visible(UserOf[d]), Loads(d, S),
         hidden[d] \subseteq hidden'[d],
         \A e \in Screens : e # d => hidden'[e] = hidden[e],
         \A i \in Unread(UserOf[d]) \cap emitted : i < floor[d] => i \in S \cup hidden'[d],
         \A i \in S \cap read : Owed(i) \/ i \in hidden'[d]
  PROVE  IInv'
<1>1. UNCHANGED <<storeVars, lag, swallowed, emitted, pc, postVars, readVars, floor, listed, heard,
                  told>>
  BY DEF Loads
<1>2. PICK P \in SUBSET S : \E f \in P \cup {0} :
        IsPage(P, S, f) /\ page' = [page EXCEPT ![d] = [ids |-> P, floor |-> f]]
  BY DEF Loads
<1>3. PICK f \in P \cup {0} :
        IsPage(P, S, f) /\ page' = [page EXCEPT ![d] = [ids |-> P, floor |-> f]]
  BY <1>2
<1>4. /\ stage'[d] = "loading" /\ page'[d] = [ids |-> P, floor |-> f]
      /\ \A e \in Screens : e # d => stage'[e] = stage[e] /\ page'[e] = page[e]
  BY <1>3 DEF Loads, TypeOK
<1>5. ScreenInv(d)'
  <2>1. ScreenInv(d)
    BY DEF IInv
  <2>2. /\ Visible(UserOf[d])' = Visible(UserOf[d])
        /\ Unread(UserOf[d])' = Unread(UserOf[d])
    BY <1>1 DEF Visible, Unread, Stored, storeVars
  <2>3. \A i : Owed(i)' = Owed(i)
    BY <1>1 DEF Owed, readVars
  <2>4. page'[d].ids = P /\ page'[d].floor = f
    BY <1>4
  <2>5. S \in SUBSET Ids
    BY DEF Visible, Stored
  <2>6. ASSUME NEW i \in Unread(UserOf[d]) \cap emitted, i >= f
        PROVE  i \in listed[d] \cup heard[d] \cup P \cup hidden'[d]
    <3>1. i \in Nat /\ floor[d] \in Nat
      BY NotificationsAssumption DEF NotificationsAssumption, Ids, TypeOK, Unread, Visible, Stored
    <3>2. CASE i >= floor[d]
      BY <2>1, <3>2 DEF ScreenInv
    <3>3. CASE i < floor[d]
      BY <1>3, <2>5, <2>6, <3>3, PageHasAll
    <3> QED
      BY <3>1, <3>2, <3>3
  <2> QED
    BY <1>1, <1>4, <2>1, <2>2, <2>3, <2>4, <2>6 DEF ScreenInv, storeVars
<1>6. \A e \in Screens : e # d => ScreenInv(e)'
  BY <1>1, <1>4, OtherScreens
<1> QED
  BY <1>1, <1>5, <1>6, ScreenFrame DEF IInv

LEMMA LoadFirstInv ==
  ASSUME TypeOK, IInv, NEW d \in Screens, LoadFirst(d)
  PROVE  IInv'
<1>1. PICK missed \in SUBSET lag :
        /\ Loads(d, Snapshot(UserOf[d], missed))
        /\ hidden' = [hidden EXCEPT ![d] = missed \cap swallowed]
  BY DEF LoadFirst
<1> DEFINE S == Snapshot(UserOf[d], missed)
<1>2. S \subseteq Visible(UserOf[d])
  BY DEF Snapshot, Unread
<1>3. stage[d] = "joined"
  BY DEF LoadFirst
<1>4. hidden[d] = {} /\ hidden'[d] = missed \cap swallowed
      /\ \A e \in Screens : e # d => hidden'[e] = hidden[e]
  BY <1>1, <1>3 DEF TypeOK, IInv, ScreenInv
<1>5. \A i \in Unread(UserOf[d]) \cap emitted : i \in S \cup hidden'[d]
  BY <1>4 DEF Snapshot, IInv, StoreInv, Unread
<1>6. \A i \in S \cap read : Owed(i) \/ i \in hidden'[d]
  <2>1. S \cap read \subseteq missed \cap lag \cap read
    BY DEF Snapshot, Unread
  <2> QED
    BY <1>4, <2>1 DEF IInv, LagInv, Owed
<1> QED
  BY <1>1, <1>2, <1>3, <1>4, <1>5, <1>6, LoadsInv

LEMMA LoadOlderInv ==
  ASSUME TypeOK, IInv, NEW d \in Screens, LoadOlder(d)
  PROVE  IInv'
<1> DEFINE S == {i \in Unread(UserOf[d]) : i < floor[d]}
<1>1. S \subseteq Visible(UserOf[d]) /\ S \cap read = {}
  BY DEF Unread
<1>2. \A i \in Unread(UserOf[d]) \cap emitted : i < floor[d] => i \in S
  OBVIOUS
<1>3. stage[d] = "ready" /\ Loads(d, S) /\ hidden' = hidden
  BY DEF LoadOlder
<1> QED
  BY <1>1, <1>2, <1>3, LoadsInv

LEMMA ScreenStepInv ==
  ASSUME TypeOK, IInv, NEW d \in Screens, Screen(d)
  PROVE  IInv'
<1>0. ScreenInv(d)
  BY DEF IInv
<1>1. ASSUME UNCHANGED <<storeVars, lag, swallowed, emitted, pc, postVars, readVars>>
      PROVE  /\ Visible(UserOf[d])' = Visible(UserOf[d])
             /\ Unread(UserOf[d])' = Unread(UserOf[d])
             /\ \A i : Owed(i)' = Owed(i)
  BY <1>1 DEF Visible, Unread, Stored, Owed, storeVars, readVars
<1>2. CASE Join(d)
  <2>1. /\ UNCHANGED <<storeVars, lag, swallowed, emitted, pc, postVars, readVars>>
        /\ UNCHANGED <<floor, page, listed, heard, told, hidden>>
        /\ stage'[d] = "joined" /\ stage[d] = "off"
        /\ \A e \in Screens : e # d => stage'[e] = stage[e]
    BY <1>2 DEF Join, TypeOK
  <2>2. \A i \in Unread(UserOf[d]) : ~ (i >= floor[d])
    <3>1. floor[d] = MaxId + 1
      BY <1>0, <2>1 DEF ScreenInv
    <3> QED
      BY <3>1, NotificationsAssumption DEF NotificationsAssumption, Unread, Visible, Stored, Ids
  <2>3. ScreenInv(d)'
    BY <1>0, <1>1, <2>1, <2>2 DEF ScreenInv, storeVars
  <2> QED
    BY <2>1, <2>3, ScreenFrame, OtherScreens DEF IInv
<1>3. CASE Show(d)
  <2>1. /\ UNCHANGED <<storeVars, lag, swallowed, emitted, pc, postVars, readVars>>
        /\ UNCHANGED <<heard, told, hidden>>
        /\ stage'[d] = "ready" /\ stage[d] = "loading"
        /\ listed'[d] = listed[d] \cup page[d].ids
        /\ floor'[d] = page[d].floor /\ page'[d] = NoPage
        /\ \A e \in Screens : e # d =>
             /\ stage'[e] = stage[e] /\ listed'[e] = listed[e]
             /\ floor'[e] = floor[e] /\ page'[e] = page[e]
    BY <1>3 DEF Show, TypeOK
  <2>2. page'[d].ids = {}
    BY <2>1 DEF NoPage
  <2>3. ScreenInv(d)'
    BY <1>0, <1>1, <2>1, <2>2 DEF ScreenInv, storeVars
  <2> QED
    BY <2>1, <2>3, ScreenFrame, OtherScreens DEF IInv
<1>4. CASE Leave(d)
  <2>1. /\ UNCHANGED <<storeVars, lag, swallowed, emitted, pc, postVars, readVars>>
        /\ stage'[d] = "off" /\ floor'[d] = MaxId + 1 /\ page'[d] = NoPage
        /\ listed'[d] = {} /\ heard'[d] = {} /\ told'[d] = {} /\ hidden'[d] = {}
        /\ \A e \in Screens : e # d =>
             /\ stage'[e] = stage[e] /\ listed'[e] = listed[e] /\ heard'[e] = heard[e]
             /\ floor'[e] = floor[e] /\ page'[e] = page[e] /\ told'[e] = told[e]
             /\ hidden'[e] = hidden[e]
    BY <1>4 DEF Leave, TypeOK
  <2>2. page'[d].ids = {}
    BY <2>1 DEF NoPage
  <2>3. ScreenInv(d)'
    BY <2>1, <2>2 DEF ScreenInv
  <2> QED
    BY <2>1, <2>3, ScreenFrame, OtherScreens DEF IInv
<1> QED
  BY <1>2, <1>3, <1>4, LoadFirstInv, LoadOlderInv DEF Screen

-----------------------------------------------------------------------------
(* Theorems *)

LEMMA NextInv == TypeOK /\ IInv /\ [Next]_vars => IInv'
<1>1. ASSUME TypeOK, IInv, UNCHANGED vars PROVE IInv'
  <2>1. UNCHANGED <<storeVars, lag, swallowed, emitted, pc, postVars, readVars, stage, floor, page,
                    listed, heard, told, hidden>>
    BY <1>1 DEF vars, screenVars
  <2> QED
    BY <1>1, <2>1, ScreenFrame, OtherScreens DEF IInv
<1>2. ASSUME TypeOK, IInv, NEW p \in Posts, Post(p) PROVE IInv'
  BY <1>2, BeginInv, FindInv, InsertInv, InvalidateInv, EmitInv, MarkInv DEF Post
<1>3. ASSUME TypeOK, IInv, NEW r \in Readers, Reading(r) PROVE IInv'
  BY <1>3, MarkReadInv, MarkAllReadInv, InvalidateReadInv, EmitReadInv DEF Reading
<1> QED
  BY <1>1, <1>2, <1>3, LoseInv, ScreenStepInv DEF Next, Actors

LEMMA Invariant == Spec => []IInv
<1>1. Spec => []TypeOK
  BY TypeCorrect
<1> QED
  BY <1>1, InitIInv, NextInv, PTL DEF Spec

\* A 202 means that a notification with the content of this very POST is
\* stored and was emitted, whatever failed, died or was repeated meanwhile.
THEOREM AcceptedArePublished == Spec => []AcceptedMeansPublished
<1>1. IInv => AcceptedMeansPublished
  BY DEF IInv, StoreInv, PostInv, AcceptedMeansPublished
<1> QED
  BY <1>1, Invariant, PTL

\* Once a POST has been accepted, the later ones of its key emit nothing.
THEOREM RetriesEmitNothing == Spec => []RetriesAreSilent
<1>1. IInv => RetriesAreSilent
  BY DEF IInv, PostInv, RetriesAreSilent
<1> QED
  BY <1>1, Invariant, PTL

\* A screen has every emitted unread notification of the pages it was sent,
\* for any page size and any staleness of the cached first page, but what
\* that page missed because an invalidation was swallowed.
THEOREM ScreensMissNothing == Spec => []ScreensAreComplete
<1>1. IInv => ScreensAreComplete
  BY DEF IInv, ScreenInv, ScreensAreComplete
<1> QED
  BY <1>1, Invariant, PTL

\* Screens are told of every reading of what they were sent as unread, unless
\* its handler died or the invalidation of the reading was swallowed.
THEOREM ReadingsAreTold == Spec => []ReadingsReachScreens
<1>1. IInv => ReadingsReachScreens
  BY DEF IInv, ScreenInv, Owed, ReadingsReachScreens
<1> QED
  BY <1>1, Invariant, PTL

=============================================================================
