----------------------------- MODULE AttendanceChat -----------------------------
(***************************************************************************)
(* An attendance thread between two stores: create_message and its helpers *)
(* in repositories/chat_repository.ts, and the publication of a message to *)
(* the sellers who may see it.                                             *)
(*                                                                         *)
(* A store in single-attendant mode gives its side of the thread to the    *)
(* first of its users who writes, and only that user goes on writing.      *)
(* Calls run on any instance and interleave at every await; with           *)
(* transactions the writes of a call are one step.  Closing a thread,      *)
(* transferring a side and changing the setting of a store are done by the *)
(* stores' own system.  Bodies, attachments and references are left out,   *)
(* and so are the masters, who see every message, and reading.             *)
(***************************************************************************)
EXTENDS Naturals, FiniteSets, FiniteSetsExt

CONSTANTS
  Calls,
  Users,         \* sellers of the two stores
  Origin,        \* the store that opens the thread
  Target,        \* the other store
  StoreOf,
  Keys,          \* client_message_id values
  NoKey,         \* ... and its absence
  MaxId,         \* message ids, in the order of their ObjectIds
  Modes,         \* values MONGODB_TRANSACTIONS_ENABLED may have
  MaxChanges,    \* transfers and changes of settings
  MaxFaults,
  None

Stores == {Origin, Target}
Ids == 1..MaxId

\* Users of the target store know the thread by its id.
Requests ==
  {r \in [user : Users, key : Keys \cup {NoKey}, by : {"thread_id", "client_id"}] :
     StoreOf[r.user] = Target => r.by = "thread_id"}
NoRequest == [user |-> None, key |-> NoKey, by |-> "thread_id"]

ASSUME AttendanceAssumption ==
  /\ Origin # Target
  /\ StoreOf \in [Users -> Stores]
  /\ NoKey \notin Keys
  /\ None \notin Users
  /\ MaxId \in Nat
  /\ Modes \subseteq BOOLEAN
  /\ MaxChanges \in Nat
  /\ MaxFaults \in Nat

VARIABLES
  transactions,  \* transactions_enabled
  setting,       \* single_attendant_enabled of each store
  messages,      \* collection attendance_messages
  status,        \* of the thread: "none", "waiting", "open" or "closed"
  responsible,   \* of each side of the thread
  last,          \* last_message_id, 0 when absent
  pc,            \* of each call
  request,       \* its input
  single,        \* the setting it read
  copy,          \* responsibles it read last
  answer,        \* id of the message it has, 0 when none
  received,      \* sellers each message was published to
  changes, faults

threadVars == <<status, responsible, last>>
callVars == <<pc, request, single, copy, answer>>
vars == <<transactions, setting, messages, threadVars, callVars, received, changes,
          faults>>

Nobody == [s \in Stores |-> None]

Init ==
  /\ transactions \in Modes
  /\ setting \in [Stores -> BOOLEAN]
  /\ messages = [i \in {} |-> 0]
  /\ status = "none"
  /\ responsible = Nobody
  /\ last = 0
  /\ pc = [c \in Calls |-> "idle"]
  /\ request = [c \in Calls |-> NoRequest]
  /\ single = [c \in Calls |-> TRUE]
  /\ copy = [c \in Calls |-> Nobody]
  /\ answer = [c \in Calls |-> 0]
  /\ received = [i \in Ids |-> {}]
  /\ changes = 0
  /\ faults = 0

-----------------------------------------------------------------------------
(* Pieces of the repository *)

Side(c) == StoreOf[request[c].user]

\* Messages with the call's client_message_id: the index is of the store.
Earlier(c) ==
  {i \in DOMAIN messages :
     /\ request[c].key # NoKey
     /\ messages[i].key = request[c].key
     /\ StoreOf[messages[i].user] = Side(c)}

\* Mutant: another user of the store may repeat the message.
AnyUser(c, i) == TRUE
\* return_authorized_existing_message compares what was sent.
SameUser(c, i) == messages[i].user = request[c].user

\* assert_sender_can_handle_thread_side
MayHandle(c, responsibles) ==
  responsibles[Side(c)] \in {None, request[c].user}

\* is_newest_message of build_latest_thread_message_fields
Newest(id) == last < id

\* Mutant: a closed thread takes messages.
EverOpen == TRUE
\* status: { $ne: 'closed' }
TakesMessages == status # "closed"

\* Mutant: only the target's messages open the thread.
OpensOnReply(c, responsibles) == Side(c) = Target
\* should_open_thread_after_message
Opens(c, responsibles) ==
  Side(c) = Target \/ \A s \in Stores : responsibles[s] # None

\* Mutant: the store's id is taken for the user's.
AssignedStore(c) == [responsible EXCEPT ![Side(c)] = Side(c)]
\* Mutant: the side is assigned again.
Reassigned(c) == [responsible EXCEPT ![Side(c)] = request[c].user]
\* assign_thread_side_responsible_if_missing, which writes in one update
Assigned(c) ==
  IF responsible[Side(c)] = None
    THEN [responsible EXCEPT ![Side(c)] = request[c].user] ELSE responsible

WithMessage(c, id) ==
  [i \in DOMAIN messages \cup {id} |->
     IF i = id THEN [user |-> request[c].user, key |-> request[c].key,
                     sides |-> responsible']
     ELSE messages[i]]

\* The update of the thread by message id, opening it or not.
UpdateThread(id, opens) ==
  /\ last' = IF Newest(id) THEN id ELSE last
  /\ status' = IF status = "closed" THEN "closed"
               ELSE IF status = "open" \/ opens THEN "open" ELSE "waiting"

Goes(c, to) == pc' = [pc EXCEPT ![c] = to]

\* create_message has an existing thread: it must be open, and the side free.
Enter(c) ==
  Goes(c, IF status = "closed" \/ (single[c] /\ ~ MayHandle(c, responsible))
            THEN "error"
          ELSE IF transactions THEN "commit" ELSE "assign")

-----------------------------------------------------------------------------
(* chat:send: create_message *)

Send(c) ==
  /\ pc[c] = "idle"
  /\ \E r \in Requests : request' = [request EXCEPT ![c] = r]
  /\ Goes(c, "find")
  /\ UNCHANGED <<transactions, setting, messages, threadVars, single, copy, answer,
                 received, changes, faults>>

\* The message of the same client_message_id, or the one the insertion met.
Found(c, i) ==
  /\ answer' = [answer EXCEPT ![c] = i]
  /\ Goes(c, IF SameUser(c, i) THEN "authorize" ELSE "error")

Find(c) ==
  /\ pc[c] = "find"
  /\ IF Earlier(c) # {}
       THEN \E i \in Earlier(c) : Found(c, i)
       ELSE Goes(c, "setting") /\ UNCHANGED answer
  /\ UNCHANGED <<transactions, setting, messages, threadVars, request, single, copy,
                 received, changes, faults>>

\* return_authorized_existing_message reads the thread ...
Authorize(c) ==
  /\ pc[c] = "authorize"
  /\ copy' = [copy EXCEPT ![c] = responsible]
  /\ Goes(c, "allow")
  /\ UNCHANGED <<transactions, setting, messages, threadVars, request, single, answer,
                 received, changes, faults>>

\* ... and then the setting.
Allow(c) ==
  /\ pc[c] = "allow"
  /\ Goes(c, IF setting[Side(c)] /\ ~ MayHandle(c, copy[c]) THEN "error" ELSE "describe")
  /\ UNCHANGED <<transactions, setting, messages, threadVars, request, single, copy,
                 answer, received, changes, faults>>

ReadSetting(c) ==
  /\ pc[c] = "setting"
  /\ single' = [single EXCEPT ![c] = setting[Side(c)]]
  /\ Goes(c, "thread")
  /\ UNCHANGED <<transactions, setting, messages, threadVars, request, copy, answer,
                 received, changes, faults>>

\* ensure_thread finds the thread, or create_thread will insert it.
EnsureThread(c) ==
  /\ pc[c] = "thread"
  /\ IF status # "none" THEN Enter(c)
     ELSE Goes(c, IF request[c].by = "client_id" THEN "create" ELSE "error")
  /\ UNCHANGED <<transactions, setting, messages, threadVars, request, single, copy,
                 answer, received, changes, faults>>

\* Another call may have inserted it: the unique index, then the document.
CreateThread(c) ==
  /\ pc[c] = "create"
  /\ IF status = "none"
       THEN /\ status' = "waiting"
            /\ Goes(c, IF transactions THEN "commit" ELSE "assign")
       ELSE Enter(c) /\ UNCHANGED status
  /\ UNCHANGED <<transactions, setting, messages, responsible, last, request, single,
                 copy, answer, received, changes, faults>>

\* The insertion met the unique index: the transaction has been aborted.
InsertDuplicate(c) ==
  /\ pc[c] \in {"commit", "insert"}
  /\ pc[c] = "commit" => TakesMessages /\ (single[c] => MayHandle(c, responsible))
  /\ \E i \in Earlier(c) : Found(c, i)
  /\ UNCHANGED <<transactions, setting, messages, threadVars, request, single, copy,
                 received, changes, faults>>

\* The transaction: assignment, check, message and thread.
Commit(c) ==
  /\ pc[c] = "commit"
  /\ IF TakesMessages /\ (single[c] => MayHandle(c, responsible))
       THEN /\ Earlier(c) = {}
            /\ responsible' = IF single[c] THEN Assigned(c) ELSE responsible
            /\ \E id \in Ids \ DOMAIN messages :
                 /\ messages' = WithMessage(c, id)
                 /\ UpdateThread(id, Opens(c, responsible'))
                 /\ answer' = [answer EXCEPT ![c] = id]
            /\ Goes(c, "describe")
       ELSE Goes(c, "error") /\ UNCHANGED <<messages, threadVars, answer>>
  /\ UNCHANGED <<transactions, setting, request, single, copy, received, changes, faults>>

\* Without transactions: first the assignment, if the side is free.
Assign(c) ==
  /\ pc[c] = "assign"
  /\ responsible' = IF single[c] /\ status # "closed" THEN Assigned(c) ELSE responsible
  /\ Goes(c, "reread")
  /\ UNCHANGED <<transactions, setting, messages, status, last, request, single, copy,
                 answer, received, changes, faults>>

\* ... then the thread as it is now.
Reread(c) ==
  /\ pc[c] = "reread"
  /\ copy' = [copy EXCEPT ![c] = responsible]
  /\ Goes(c, IF status = "closed" \/ (single[c] /\ ~ MayHandle(c, responsible))
               THEN "error" ELSE "insert")
  /\ UNCHANGED <<transactions, setting, messages, threadVars, request, single, answer,
                 received, changes, faults>>

InsertMessage(c) ==
  /\ pc[c] = "insert"
  /\ Earlier(c) = {}
  /\ UNCHANGED threadVars
  /\ \E id \in Ids \ DOMAIN messages :
       /\ messages' = WithMessage(c, id)
       /\ answer' = [answer EXCEPT ![c] = id]
  /\ Goes(c, "update")
  /\ UNCHANGED <<transactions, setting, request, single, copy, received, changes, faults>>

\* ... and the thread, opened or not as the copy says.
UpdateAfter(c) ==
  /\ pc[c] = "update"
  /\ IF TakesMessages
       THEN /\ UpdateThread(answer[c], Opens(c, copy[c]))
            /\ Goes(c, "describe")
       ELSE Goes(c, "error") /\ UNCHANGED <<status, last>>
  /\ UNCHANGED <<transactions, setting, messages, responsible, request, single, copy,
                 answer, received, changes, faults>>

\* attach_thread_metadata: the responsibles of the stores in the mode.
Describe(c) ==
  /\ pc[c] = "describe"
  /\ copy' = [copy EXCEPT ![c] =
       [s \in Stores |-> IF setting[s] THEN responsible[s] ELSE None]]
  /\ Goes(c, "publish")
  /\ UNCHANGED <<transactions, setting, messages, threadVars, request, single, answer,
                 received, changes, faults>>

\* Mutant: a side without a responsible gets nothing.
ResponsibleOnly(s, responsibles) == {u \in Users : u = responsibles[s]}
\* add_chat_visibility_rooms
VisibleTo(s, responsibles) ==
  {u \in Users : StoreOf[u] = s /\ responsibles[s] \in {None, u}}

\* publish_chat_message, then the acknowledgement
Publish(c) ==
  /\ pc[c] = "publish"
  /\ received' = [received EXCEPT ![answer[c]] =
       @ \cup {messages[answer[c]].user}
         \cup UNION {VisibleTo(s, copy[c]) : s \in Stores}]
  /\ Goes(c, "ok")
  /\ UNCHANGED <<transactions, setting, messages, threadVars, request, single, copy,
                 answer, changes, faults>>

-----------------------------------------------------------------------------
(* The stores' system, and faults *)

Change ==
  /\ changes < MaxChanges
  /\ changes' = changes + 1

Transfer(s) ==
  /\ Change
  /\ status \in {"waiting", "open"}
  /\ \E u \in Users : StoreOf[u] = s /\ responsible' = [responsible EXCEPT ![s] = u]
  /\ UNCHANGED <<transactions, setting, messages, status, last, callVars, received,
                 faults>>

ChangeSetting(s) ==
  /\ Change
  /\ setting' = [setting EXCEPT ![s] = ~ @]
  /\ UNCHANGED <<transactions, messages, threadVars, callVars, received, faults>>

CloseThread ==
  /\ status \in {"waiting", "open"}
  /\ status' = "closed"
  /\ UNCHANGED <<transactions, setting, messages, responsible, last, callVars, received,
                 changes, faults>>

\* The process of the call dies, or its last command is reported as failed.
Lose(c) ==
  /\ faults < MaxFaults
  /\ faults' = faults + 1
  /\ pc[c] \notin {"idle", "ok", "error"}
  /\ Goes(c, "error")
  /\ UNCHANGED <<transactions, setting, messages, threadVars, request, single, copy,
                 answer, received, changes>>

-----------------------------------------------------------------------------
CallStep(c) ==
  \/ Send(c) \/ Find(c) \/ Authorize(c) \/ Allow(c)
  \/ ReadSetting(c) \/ EnsureThread(c) \/ CreateThread(c)
  \/ InsertDuplicate(c) \/ Commit(c)
  \/ Assign(c) \/ Reread(c) \/ InsertMessage(c) \/ UpdateAfter(c)
  \/ Describe(c) \/ Publish(c) \/ Lose(c)

Next ==
  \/ \E c \in Calls : CallStep(c)
  \/ \E s \in Stores : Transfer(s) \/ ChangeSetting(s)
  \/ CloseThread

Spec == Init /\ [][Next]_vars

-----------------------------------------------------------------------------
(* Properties *)

Responsibles == [Stores -> Users \cup {None}]
Message == [user : Users, key : Keys \cup {NoKey}, sides : Responsibles]

TypeOK ==
  /\ transactions \in BOOLEAN
  /\ setting \in [Stores -> BOOLEAN]
  /\ DOMAIN messages \subseteq Ids
  /\ \A i \in DOMAIN messages : messages[i] \in Message
  /\ status \in {"none", "waiting", "open", "closed"}
  /\ responsible \in Responsibles
  /\ last \in Ids \cup {0}
  /\ pc \in [Calls -> {"idle", "find", "authorize", "allow", "setting", "thread",
                       "create", "commit", "assign", "reread", "insert", "update",
                       "describe", "publish", "ok", "error"}]
  /\ request \in [Calls -> Requests \cup {NoRequest}]
  /\ single \in [Calls -> BOOLEAN]
  /\ copy \in [Calls -> Responsibles]
  /\ answer \in [Calls -> Ids \cup {0}]
  /\ received \in [Ids -> SUBSET Users]
  /\ changes \in 0..MaxChanges
  /\ faults \in 0..MaxFaults

\* In single-attendant mode one user of a store speaks in the thread: every
\* message of a side is of its responsible, though several users found the side
\* free at the same time.
OneVoice ==
  changes = 0 =>
    \A i \in DOMAIN messages :
      LET s == StoreOf[messages[i].user] IN
        setting[s] => responsible[s] = messages[i].user

\* No call is between the writes it makes without transactions, and none was
\* lost, or refused, there.
Settled ==
  transactions \/ (faults = 0 /\ status # "closed" /\ \A c \in Calls : pc[c] # "update")

Replied == \E i \in DOMAIN messages : StoreOf[messages[i].user] = Target
BothAssigned ==
  \E i \in DOMAIN messages : \A s \in Stores : messages[i].sides[s] # None

\* The thread shows its newest message, and does not wait once the target store
\* has replied; with transactions it is open exactly when the target has replied
\* or a message was stored with both sides assigned.
ThreadFollowsMessages ==
  Settled /\ DOMAIN messages # {} =>
    /\ last = Max(DOMAIN messages)
    /\ status = "waiting" => ~ Replied
    /\ transactions =>
         /\ status = "waiting" => ~ BothAssigned
         /\ status = "open" => Replied \/ BothAssigned

\* With transactions no message enters a closed thread.
ClosedStaysClosed ==
  [][transactions /\ status = "closed" => DOMAIN messages' = DOMAIN messages]_vars

\* An acknowledged call answers a stored message of its own user, and calls of a
\* store with the same client_message_id get the same one.
AnswersAreFaithful ==
  \A c \in Calls : pc[c] = "ok" =>
    /\ answer[c] \in DOMAIN messages
    /\ messages[answer[c]].user = request[c].user
    /\ messages[answer[c]].key = request[c].key
    /\ \A d \in Calls :
         /\ pc[d] = "ok"
         /\ request[c].key # NoKey
         /\ request[d].key = request[c].key
         /\ Side(d) = Side(c)
         => answer[d] = answer[c]

\* A message reaches the responsible of each side, even one who took the side
\* between the moment it was stored and its publication, and no other seller of
\* a side that had a responsible when it was stored.
VisibilityIsRight ==
  changes = 0 =>
    \A c \in Calls : pc[c] = "ok" =>
      \A s \in Stores : setting[s] =>
        LET sellers == {u \in received[answer[c]] : StoreOf[u] = s}
            before == messages[answer[c]].sides[s]
        IN
        /\ responsible[s] # None => responsible[s] \in sellers
        /\ before # None => sellers = {before}

=============================================================================
