----------------------------- MODULE Notifications -----------------------------
(***************************************************************************)
(* The notifications of one store: POST /internal/notifications, reading   *)
(* them, and the screens that show the unread ones.                        *)
(*                                                                         *)
(* A POST finds or inserts the notification, invalidates the cached        *)
(* snapshots, emits, and only then marks the notification as published, so *)
(* that a POST repeated after any failure emits again.  A screen joins its *)
(* rooms, receives a page of the newest unread notifications, which may    *)
(* come from the cache of SyncCache, asks for older pages, and otherwise   *)
(* lives on events.  Ids are drawn before the insertion, so a notification *)
(* may be inserted under a smaller id than one that is there already.      *)
(* Titles, severities and the other texts are one field, content.          *)
(***************************************************************************)
EXTENDS Naturals, FiniteSets

CONSTANTS
  Posts,         \* POST /internal/notifications
  Readers,       \* notification:read and notification:read_all
  Screens,       \* sockets of store users
  Users,
  UserOf,        \* of each screen
  Keys,          \* idempotency_key values
  NoKey,         \* ... and its absence
  Inputs,        \* bodies of POSTs: key, user (None: the whole store), content
  MaxId,         \* ids, in the order of their ObjectIds
  PageSize,      \* NOTIFICATION_SYNC_LIMIT
  MaxFaults,
  None

Ids == 1..MaxId

ASSUME NotificationsAssumption ==
  /\ Posts \cap Readers = {}
  /\ UserOf \in [Screens -> Users]
  /\ None \notin Users
  /\ NoKey \notin Keys
  /\ \A b \in Inputs : b.key \in Keys \cup {NoKey} /\ b.user \in Users \cup {None}
  /\ None \notin Inputs
  /\ MaxId \in Nat
  /\ PageSize \in Nat \ {0}
  /\ MaxFaults \in Nat

VARIABLES
  notes,      \* collection websocket_notifications: the body stored under each id
  published,  \* ids with realtime_published_at
  read,       \* ids with read_at
  lag,        \* ids whose last change a cached snapshot may miss
  swallowed,  \* ... because the handler of that change went on without Redis
  emitted,    \* ids notification:new was emitted for
  pc,         \* of each post and each reader
  body,       \* of each post
  note,       \* id of the notification it has, 0 when none
  late,       \* whether its key had been accepted when it began
  by,         \* user of each notification:read_all
  marked,     \* ids a reader has marked, until it returns
  stage,      \* of each screen: "off", "joined", "loading" or "ready"
  floor,      \* of each screen: it has been sent the pages from here on
  page,       \* of each screen: the page on its way, with its floor
  listed,     \* ids each screen got in pages
  heard,      \* ... in notification:new
  told,       \* ... in notification:read and notification:read_all
  hidden,     \* swallowed changes that its first page missed
  faults

storeVars == <<notes, published, read>>
postVars == <<body, note, late>>
readVars == <<by, marked>>
screenVars == <<stage, floor, page, listed, heard, told, hidden>>
vars == <<storeVars, lag, swallowed, emitted, pc, postVars, readVars, screenVars,
          faults>>

Stored == {i \in Ids : notes[i] # None}
Visible(u) == {i \in Stored : notes[i].user \in {None, u}}
Unread(u) == Visible(u) \ read
WithKey(k) == {i \in Stored : k # NoKey /\ notes[i].key = k}

Pages == [ids : SUBSET Ids, floor : 0..MaxId]
NoPage == [ids |-> {}, floor |-> 0]

\* There may be a notification of before, read or not, with the oldest id.
Init ==
  /\ \E b \in Inputs \cup {None} :
       notes = [i \in Ids |-> IF i = 1 THEN b ELSE None]
  /\ published = Stored
  /\ read \in SUBSET published
  /\ lag = {}
  /\ swallowed = {}
  /\ emitted = published
  /\ pc = [x \in Posts \cup Readers |-> "idle"]
  /\ body = [p \in Posts |-> None]
  /\ note = [p \in Posts |-> 0]
  /\ late = [p \in Posts |-> FALSE]
  /\ by = [r \in Readers |-> None]
  /\ marked = [r \in Readers |-> {}]
  /\ stage = [d \in Screens |-> "off"]
  /\ floor = [d \in Screens |-> MaxId + 1]
  /\ page = [d \in Screens |-> NoPage]
  /\ listed = [d \in Screens |-> {}]
  /\ heard = [d \in Screens |-> {}]
  /\ told = [d \in Screens |-> {}]
  /\ hidden = [d \in Screens |-> {}]
  /\ faults = 0

-----------------------------------------------------------------------------
(* Invalidation and emission *)

Goes(x, to) == pc' = [pc EXCEPT ![x] = to]

\* Screens in the rooms of an audience: store_room or notification_user_room.
Room(u) == {d \in Screens : stage[d] # "off" /\ u \in {None, UserOf[d]}}

\* Mutant: the scope of the whole store is never replaced.
OwnScope(u) == {i \in Stored : u # None /\ notes[i].user = u}
\* invalidate_notification replaces the generation of one audience.
Scope(u) == {i \in Stored : notes[i].user = u}

Fault ==
  /\ faults < MaxFaults
  /\ faults' = faults + 1

\* bump_versions for some audiences, after a change of ids.  Without Redis, or
\* when a bump fails, it logs and returns, and the handler goes on: the change
\* stays unknown to the cache, until the next bump of the audience.
Bump(audiences, ids) ==
  \E done \in SUBSET audiences :
    LET fresh == UNION {Scope(u) : u \in done} IN
      /\ lag' = lag \ fresh
      /\ swallowed' =
           (swallowed \ fresh) \cup {i \in ids \cap lag : notes[i].user \notin done}
      /\ IF done = audiences THEN UNCHANGED faults ELSE Fault

\* Mutant: the room is always one of a user, and nobody is in that of None.
UserRoomOnly(i) == {d \in Screens : stage[d] # "off" /\ notes[i].user = UserOf[d]}
\* publish_notification_read, for one notification
ReadRooms(i) == Room(notes[i].user)

-----------------------------------------------------------------------------
(* POST /internal/notifications *)

Accepted == {"published", "suppressed"}

Begin(p) ==
  /\ pc[p] = "idle"
  /\ \E b \in Inputs :
       /\ body' = [body EXCEPT ![p] = b]
       /\ late' = [late EXCEPT ![p] =
            \E q \in Posts :
              pc[q] \in Accepted /\ b.key # NoKey /\ body[q].key = b.key]
       /\ Goes(p, IF b.key = NoKey THEN "insert" ELSE "find")
  /\ UNCHANGED <<storeVars, lag, swallowed, emitted, note, readVars, screenVars,
                 faults>>

\* Mutant: whatever was created before is taken for published.
CreatedIsPublished(p, i) ==
  Goes(p, IF notes[i] # body[p] THEN "conflict" ELSE "suppressed")
\* validate_idempotent_notification, and realtime_published
Found(p, i) ==
  Goes(p, IF notes[i] # body[p] THEN "conflict"
          ELSE IF i \in published THEN "suppressed" ELSE "invalidate")

\* findOne by the key, before the insertion or after it met the unique index
Find(p) ==
  /\ pc[p] \in {"find", "refind"}
  /\ IF WithKey(body[p].key) # {}
       THEN \E i \in WithKey(body[p].key) : Found(p, i) /\ note' = [note EXCEPT ![p] = i]
       ELSE Goes(p, IF pc[p] = "find" THEN "insert" ELSE "error") /\ UNCHANGED note
  /\ UNCHANGED <<storeVars, lag, swallowed, emitted, body, late, readVars,
                 screenVars, faults>>

Insert(p) ==
  /\ pc[p] = "insert"
  /\ IF WithKey(body[p].key) # {}
       THEN Goes(p, "refind") /\ UNCHANGED <<notes, lag, note>>
       ELSE \E i \in Ids \ Stored :
              /\ notes' = [notes EXCEPT ![i] = body[p]]
              /\ lag' = lag \cup {i}
              /\ note' = [note EXCEPT ![p] = i]
              /\ Goes(p, "invalidate")
  /\ UNCHANGED <<published, read, swallowed, emitted, body, late, readVars,
                 screenVars, faults>>

\* publish_notification awaits the invalidation ...
Invalidate(p) ==
  /\ pc[p] = "invalidate"
  /\ Bump({body[p].user}, {note[p]})
  /\ Goes(p, "emit")
  /\ UNCHANGED <<storeVars, emitted, postVars, readVars, screenVars>>

\* ... and then emits.
Emit(p) ==
  /\ pc[p] = "emit"
  /\ emitted' = emitted \cup {note[p]}
  /\ heard' = [d \in Screens |->
       heard[d] \cup (IF d \in Room(body[p].user) THEN {note[p]} ELSE {})]
  /\ Goes(p, "mark")
  /\ UNCHANGED <<storeVars, lag, swallowed, postVars, readVars, stage, floor,
                 page, listed, told, hidden, faults>>

\* Mutant: the filter leaves out notifications that have a key.
KeylessOnly(i) == IF notes[i].key = NoKey THEN published \cup {i} ELSE published
\* Mutant: the receipt is kept under the key.
ReceiptOfKey(i) == published \cup {notes[i].key}
Receipt(i) == published \cup {i}

\* mark_realtime_published, then the answer
Mark(p) ==
  /\ pc[p] = "mark"
  /\ published' = Receipt(note[p])
  /\ Goes(p, "published")
  /\ UNCHANGED <<notes, read, lag, swallowed, emitted, postVars, readVars,
                 screenVars, faults>>

\* MongoDB reports the mark as failed when it was written.
MarkUnanswered(p) ==
  /\ Fault
  /\ pc[p] = "mark"
  /\ published' = Receipt(note[p])
  /\ Goes(p, "error")
  /\ UNCHANGED <<notes, read, lag, swallowed, emitted, postVars, readVars,
                 screenVars>>

\* A command of the post or of the reader fails, or its process dies.
Lose(x) ==
  /\ Fault
  /\ pc[x] \in {"find", "refind", "insert", "invalidate", "emit", "mark",
               "invalidate all", "emit all"}
  /\ Goes(x, "error")
  /\ UNCHANGED <<storeVars, lag, swallowed, emitted, postVars, readVars,
                 screenVars>>

-----------------------------------------------------------------------------
(* notification:read and notification:read_all *)

\* findOneAndUpdate, then findOne: only a change is published.
MarkRead(r, u) ==
  /\ pc[r] = "idle"
  /\ \E i \in Ids :
       IF i \in Unread(u)
         THEN /\ read' = read \cup {i}
              /\ lag' = lag \cup {i}
              /\ swallowed' = swallowed \ {i}
              /\ marked' = [marked EXCEPT ![r] = {i}]
              /\ Goes(r, "invalidate")
         ELSE /\ Goes(r, IF i \in Visible(u) THEN "done" ELSE "error")
              /\ UNCHANGED <<read, lag, swallowed, marked>>
  /\ UNCHANGED <<notes, published, emitted, postVars, by, screenVars, faults>>

\* updateMany: read_all is published if it updated anything.
MarkAllRead(r, u) ==
  /\ pc[r] = "idle"
  /\ by' = [by EXCEPT ![r] = IF Unread(u) = {} THEN None ELSE u]
  /\ read' = read \cup Unread(u)
  /\ lag' = lag \cup Unread(u)
  /\ swallowed' = swallowed \ Unread(u)
  /\ marked' = [marked EXCEPT ![r] = Unread(u)]
  /\ Goes(r, IF Unread(u) = {} THEN "done" ELSE "invalidate all")
  /\ UNCHANGED <<notes, published, emitted, postVars, screenVars, faults>>

InvalidateRead(r) ==
  /\ \/ /\ pc[r] = "invalidate"
        /\ \E i \in marked[r] : Bump({notes[i].user}, {i})
        /\ Goes(r, "emit")
     \/ /\ pc[r] = "invalidate all"
        /\ Bump({None, by[r]}, marked[r])
        /\ Goes(r, "emit all")
  /\ UNCHANGED <<storeVars, emitted, postVars, readVars, screenVars>>

\* notification:read and notification:read_all; then the handler returns.
EmitRead(r) ==
  /\ \/ /\ pc[r] = "emit"
        /\ told' = [d \in Screens |-> told[d] \cup {i \in marked[r] : d \in ReadRooms(i)}]
     \/ /\ pc[r] = "emit all"
        /\ told' = [d \in Screens |->
             told[d] \cup (IF d \in Room(None) \cup Room(by[r]) THEN marked[r] ELSE {})]
  /\ Goes(r, "done")
  /\ by' = [by EXCEPT ![r] = None]
  /\ marked' = [marked EXCEPT ![r] = {}]
  /\ UNCHANGED <<storeVars, lag, swallowed, emitted, postVars, stage, floor, page,
                 listed, heard, hidden, faults>>

-----------------------------------------------------------------------------
(* Screens *)

\* bootstrap_store_socket joins the rooms first ...
Join(d) ==
  /\ stage[d] = "off"
  /\ stage' = [stage EXCEPT ![d] = "joined"]
  /\ UNCHANGED <<storeVars, lag, swallowed, emitted, pc, postVars, readVars,
                 floor, page, listed, heard, told, hidden, faults>>

\* P, of the elements of S, is the page list_notifications returns: the newest
\* PageSize of them.  The screen then has all of S from f on.
IsPage(P, S, f) ==
  /\ \A i \in P, j \in S \ P : j < i
  /\ \/ P = S /\ Cardinality(P) <= PageSize /\ f = 0
     \/ P # S /\ Cardinality(P) = PageSize /\ f \in P /\ \A i \in P : f <= i

Loads(d, S) ==
  /\ \E P \in SUBSET S : \E f \in P \cup {0} :
       /\ IsPage(P, S, f)
       /\ page' = [page EXCEPT ![d] = [ids |-> P, floor |-> f]]
  /\ stage' = [stage EXCEPT ![d] = "loading"]
  /\ UNCHANGED <<storeVars, lag, swallowed, emitted, pc, postVars, readVars,
                 floor, listed, heard, told, faults>>

\* What get_store_initial_sync may return: changes that have not been
\* invalidated yet may be missing from it.
Snapshot(u, missed) == (Unread(u) \ missed) \cup (Visible(u) \cap read \cap missed)

\* ... and then loads its first page through the cache.
LoadFirst(d) ==
  /\ stage[d] = "joined"
  /\ \E missed \in SUBSET (lag \cap Visible(UserOf[d])) :
       /\ Loads(d, Snapshot(UserOf[d], missed))
       /\ hidden' = [hidden EXCEPT ![d] = missed \cap swallowed]

\* notification:sync with before_notification_id, while has_more
LoadOlder(d) ==
  /\ stage[d] = "ready"
  /\ floor[d] # 0
  /\ Loads(d, {i \in Unread(UserOf[d]) : i < floor[d]})
  /\ UNCHANGED hidden

\* The snapshot is emitted, or the page acknowledged.
Show(d) ==
  /\ stage[d] = "loading"
  /\ listed' = [listed EXCEPT ![d] = @ \cup page[d].ids]
  /\ floor' = [floor EXCEPT ![d] = page[d].floor]
  /\ page' = [page EXCEPT ![d] = NoPage]
  /\ stage' = [stage EXCEPT ![d] = "ready"]
  /\ UNCHANGED <<storeVars, lag, swallowed, emitted, pc, postVars, readVars,
                 heard, told, hidden, faults>>

\* The socket is lost; the next one of the screen starts over.
Leave(d) ==
  /\ stage[d] # "off"
  /\ stage' = [stage EXCEPT ![d] = "off"]
  /\ floor' = [floor EXCEPT ![d] = MaxId + 1]
  /\ page' = [page EXCEPT ![d] = NoPage]
  /\ listed' = [listed EXCEPT ![d] = {}]
  /\ heard' = [heard EXCEPT ![d] = {}]
  /\ told' = [told EXCEPT ![d] = {}]
  /\ hidden' = [hidden EXCEPT ![d] = {}]
  /\ UNCHANGED <<storeVars, lag, swallowed, emitted, pc, postVars, readVars,
                 faults>>

-----------------------------------------------------------------------------

Post(p) ==
  \/ Begin(p) \/ Find(p) \/ Insert(p) \/ Invalidate(p) \/ Emit(p) \/ Mark(p)
  \/ MarkUnanswered(p)

Reading(r) ==
  \/ \E u \in Users : MarkRead(r, u) \/ MarkAllRead(r, u)
  \/ InvalidateRead(r)
  \/ EmitRead(r)

Screen(d) == Join(d) \/ LoadFirst(d) \/ LoadOlder(d) \/ Show(d) \/ Leave(d)

Next ==
  \/ \E p \in Posts : Post(p)
  \/ \E r \in Readers : Reading(r)
  \/ \E x \in Posts \cup Readers : Lose(x)
  \/ \E d \in Screens : Screen(d)

Spec == Init /\ [][Next]_vars

-----------------------------------------------------------------------------
(* Properties *)

Points ==
  {"idle", "find", "refind", "insert", "invalidate", "emit", "mark", "published",
   "suppressed", "conflict", "invalidate all", "emit all", "done", "error"}

\* Every variable keeps its type.
TypeOK ==
  /\ notes \in [Ids -> Inputs \cup {None}]
  /\ published \subseteq Ids
  /\ read \subseteq Ids
  /\ lag \subseteq Ids
  /\ swallowed \subseteq Ids
  /\ emitted \subseteq Ids
  /\ pc \in [Posts \cup Readers -> Points]
  /\ body \in [Posts -> Inputs \cup {None}]
  /\ note \in [Posts -> Ids \cup {0}]
  /\ late \in [Posts -> BOOLEAN]
  /\ by \in [Readers -> Users \cup {None}]
  /\ marked \in [Readers -> SUBSET Ids]
  /\ stage \in [Screens -> {"off", "joined", "loading", "ready"}]
  /\ floor \in [Screens -> 0..(MaxId + 1)]
  /\ page \in [Screens -> Pages]
  /\ listed \in [Screens -> SUBSET Ids]
  /\ heard \in [Screens -> SUBSET Ids]
  /\ told \in [Screens -> SUBSET Ids]
  /\ hidden \in [Screens -> SUBSET Ids]
  /\ faults \in 0..MaxFaults

\* A 202 means that a notification with the content of this very POST is
\* stored and was emitted, by this POST or, when it is suppressed, by another
\* one; whatever failed, died or was repeated in between.
AcceptedMeansPublished ==
  \A p \in Posts :
    pc[p] \in Accepted =>
      /\ note[p] \in Stored \cap emitted
      /\ notes[note[p]] = body[p]

\* Once a POST has been accepted, the later ones of its key emit nothing, as
\* README.md says of retries; earlier ones still running may.
RetriesAreSilent ==
  \A p \in Posts : late[p] => pc[p] \notin {"insert", "invalidate", "emit", "mark"}

\* A connected screen that has been sent the pages down to floor has every
\* unread notification from there on that was emitted, and no other user's:
\* an insertion is in the page or in an event, however far the cache lags
\* behind.  The one exception is a cached first page that missed an insertion
\* whose invalidation was swallowed (sync_cache.ts:214, 231): the next bump of
\* its audience, or the life of the entry, ends it for later screens only.
ScreensAreComplete ==
  \A d \in Screens :
    /\ listed[d] \cup heard[d] \subseteq Visible(UserOf[d])
    /\ stage[d] # "off" =>
         \A i \in Unread(UserOf[d]) \cap emitted :
           i >= floor[d] => i \in listed[d] \cup heard[d] \cup hidden[d]

\* A screen that was sent a notification as unread is told when it is read,
\* unless the handler that marked it has died: no page shows as unread what
\* was announced as read before the screen joined, but for a cached first page
\* that missed a reading whose invalidation was swallowed.
ReadingsReachScreens ==
  \A d \in Screens : \A i \in listed[d] \cap read :
    \/ i \in told[d] \cup hidden[d]
    \/ \E r \in Readers : i \in marked[r]

=============================================================================
