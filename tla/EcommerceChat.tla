----------------------------- MODULE EcommerceChat -----------------------------
(***************************************************************************)
(* The e-commerce conversation of one visitor with one store:              *)
(* repositories/ecommerce_chat_repository.ts, with the ecommerce_chat      *)
(* handlers that call it and a device that shows the conversation.         *)
(*                                                                         *)
(* A call is one invocation of ecommerce_chat:send, a reader one of        *)
(* ecommerce_chat:read; they run on any instance and interleave at every   *)
(* await.  With transactions the writes of a handler are one step, as      *)
(* writers of the same conversation document conflict and are retried.     *)
(* A process may die, and a commit may be reported as failed, anywhere.    *)
(* The device gets its first page through SyncCache: it is as old as the   *)
(* last invalidation that took effect, and what an invalidation reached is *)
(* in every page from then on (that promise is checked in SyncCache).      *)
(* Contact, inventory item and names are left out; a conversation is       *)
(* closed by the store's system, outside this repository.                  *)
(***************************************************************************)
EXTENDS Integers, FiniteSets, FiniteSetsExt

CONSTANTS
  Calls,
  Readers,
  Customer,      \* the visitor, as a sender
  Users,         \* attendants of the store
  Keys,          \* client_message_id values
  NoKey,         \* ... and its absence
  Bodies,
  MaxId,         \* message ids, in the order of their ObjectIds
  Modes,         \* values MONGODB_TRANSACTIONS_ENABLED may have
  MaxFaults,
  None

Senders == {Customer} \cup Users
Ids == 1..MaxId
Requests == [from : Senders, key : Keys \cup {NoKey}, body : Bodies]
NoRequest == [from |-> None, key |-> NoKey, body |-> None]

ASSUME EcommerceAssumption ==
  /\ Customer \notin Users
  /\ NoKey \notin Keys
  /\ None \notin Users
  /\ MaxId \in Nat \ {0}
  /\ Modes \subseteq BOOLEAN
  /\ MaxFaults \in Nat

VARIABLES
  transactions,  \* transactions_enabled
  messages,      \* collection ecommerce_messages
  lag,           \* messages a cached first page may miss
  swallowed,     \* ... because a handler went on without Redis
  conversation,  \* the document in ecommerce_conversations, if any
  pc,            \* of each call
  request,       \* its input
  answer,        \* id of the message it has, 0 when none
  side,          \* who each reader is: "customer" or "store"
  reading,       \* how far it is
  modified,      \* how many messages it has marked
  device,        \* connection of the device
  seen,          \* messages it shows
  hidden,        \* swallowed messages its first page missed
  faults

callVars == <<pc, request, answer>>
readVars == <<side, reading, modified>>
deviceVars == <<device, seen, hidden>>
cacheVars == <<lag, swallowed>>
vars == <<transactions, messages, conversation, callVars, readVars, deviceVars,
          cacheVars, faults>>

Stored(r, legacy) ==
  [from |-> r.from, key |-> r.key, body |-> r.body, legacy |-> legacy, read |-> FALSE]

NoConversation ==
  [status |-> "none", responsible |-> None, last |-> 0, last_from |-> None,
   unread_store |-> 0, unread_customer |-> 0]

\* A conversation an earlier release left, with a message of the visitor whose
\* idempotency key has the old form.
Legacy(r) ==
  /\ messages = [i \in {1} |-> Stored(r, TRUE)]
  /\ conversation = [NoConversation EXCEPT !.status = "waiting", !.last = 1,
                       !.last_from = Customer, !.unread_store = 1]

Init ==
  /\ transactions \in Modes
  /\ \/ messages = [i \in {} |-> 0] /\ conversation = NoConversation
     \/ \E r \in Requests : r.from = Customer /\ r.key # NoKey /\ Legacy(r)
  /\ pc = [c \in Calls |-> "idle"]
  /\ request = [c \in Calls |-> NoRequest]
  /\ answer = [c \in Calls |-> 0]
  /\ side \in [Readers -> {"customer", "store"}]
  /\ reading = [r \in Readers |-> "idle"]
  /\ modified = [r \in Readers |-> 0]
  /\ device = "off"
  /\ seen = {}
  /\ hidden = {}
  /\ lag = {}
  /\ swallowed = {}
  /\ faults = 0

-----------------------------------------------------------------------------
(* Pieces of the repository *)

Closed == conversation.status = "closed"

\* Messages the request is a repetition of: same sender and client_message_id.
Earlier(c, legacy) ==
  {i \in DOMAIN messages :
     /\ request[c].key # NoKey
     /\ messages[i].legacy = legacy
     /\ messages[i].from = request[c].from
     /\ messages[i].key = request[c].key}

\* The unique index on idempotency_key; the old keys have another form.
Duplicate(c) == Earlier(c, FALSE) # {}

\* Mutant: the body is not compared.
AnyBody(c, i) == TRUE
\* validate_*_idempotent_message
SameBody(c, i) == messages[i].body = request[c].body

\* Mutant: the last message written is the latest.
LastWritten(id) == TRUE
\* is_newest_message of build_latest_message_fields
Newest(id) == conversation.last < id

\* Mutant: a closed conversation takes messages.
EverOpen == TRUE
\* status: { $ne: 'closed' }
TakesMessages == ~ Closed

\* The update of the conversation by message id of request r.
Updated(r, id) ==
  [conversation EXCEPT
     !.status = IF r.from = Customer THEN @ ELSE "open",
     !.responsible = IF r.from = Customer \/ @ # None THEN @ ELSE r.from,
     !.unread_store = IF r.from = Customer THEN @ + 1 ELSE @,
     !.unread_customer = IF r.from = Customer THEN @ ELSE @ + 1,
     !.last = IF Newest(id) THEN id ELSE @,
     !.last_from = IF Newest(id) THEN r.from ELSE @]

\* The call has no more to do in the repository.
Ends(c, how, id) ==
  /\ pc' = [pc EXCEPT ![c] = how]
  /\ answer' = [answer EXCEPT ![c] = id]

Fault ==
  /\ faults < MaxFaults
  /\ faults' = faults + 1

\* bump_versions: nothing stays hidden in old pages; or Redis is not ready, or
\* fails, and the handler of the messages ids goes on all the same.
Bump(ids) ==
  \/ lag' = {} /\ swallowed' = {} /\ UNCHANGED faults
  \/ Fault /\ swallowed' = swallowed \cup (ids \cap lag) /\ UNCHANGED lag

\* It returns the earlier message, or throws client_message_id_conflict.
Repeats(c, i) ==
  IF SameBody(c, i) THEN Ends(c, "publish", i) ELSE Ends(c, "error", 0)

-----------------------------------------------------------------------------
(* ecommerce_chat:send: create_customer_message, create_store_message *)

Send(c) ==
  /\ pc[c] = "idle"
  /\ \E r \in Requests :
       /\ request' = [request EXCEPT ![c] = r]
       /\ pc' = [pc EXCEPT ![c] = IF r.from = Customer THEN "find" ELSE "lookup"]
  /\ UNCHANGED <<transactions, messages, conversation, answer, readVars,
                 deviceVars, cacheVars, faults>>

\* The conversation of a message of the store.
LookUp(c) ==
  /\ pc[c] = "lookup"
  /\ pc' = [pc EXCEPT ![c] =
       IF conversation.status \in {"none", "closed"} THEN "error" ELSE "find"]
  /\ UNCHANGED <<transactions, messages, conversation, request, answer,
                 readVars, deviceVars, cacheVars, faults>>

\* The canonical key, then the one of earlier releases.
Find(c) ==
  /\ pc[c] = "find"
  /\ IF Earlier(c, FALSE) # {}
       THEN \E i \in Earlier(c, FALSE) : Repeats(c, i)
     ELSE IF Earlier(c, TRUE) # {}
       THEN \E i \in Earlier(c, TRUE) : Repeats(c, i)
     ELSE Ends(c, IF request[c].from = Customer THEN "ensure" ELSE "insert", 0)
  /\ UNCHANGED <<transactions, messages, conversation, request, readVars,
                 deviceVars, cacheVars, faults>>

\* ensure_customer_conversation finds the conversation, or will insert it.
Ensure(c) ==
  /\ pc[c] = "ensure"
  /\ pc' = [pc EXCEPT ![c] = IF conversation.status = "none" THEN "create"
                             ELSE IF Closed THEN "error" ELSE "insert"]
  /\ UNCHANGED <<transactions, messages, conversation, request, answer,
                 readVars, deviceVars, cacheVars, faults>>

\* Another call may have inserted it: the unique index, then the document.
CreateConversation(c) ==
  /\ pc[c] = "create"
  /\ pc' = [pc EXCEPT ![c] = IF Closed THEN "error" ELSE "insert"]
  /\ conversation' =
       IF conversation.status = "none"
         THEN [NoConversation EXCEPT !.status = "waiting"] ELSE conversation
  /\ UNCHANGED <<transactions, messages, request, answer, readVars, deviceVars,
                 cacheVars, faults>>

WithMessage(c, id) ==
  [i \in DOMAIN messages \cup {id} |->
     IF i = id THEN Stored(request[c], FALSE) ELSE messages[i]]

\* The insertion meets the unique index: the message is read again.
InsertDuplicate(c) ==
  /\ pc[c] = "insert"
  /\ \E i \in Earlier(c, FALSE) : Repeats(c, i)
  /\ UNCHANGED <<transactions, messages, conversation, request, readVars,
                 deviceVars, cacheVars, faults>>

\* Both writes in a transaction, which aborts on a closed conversation.
Commit(c) ==
  /\ pc[c] = "insert"
  /\ transactions
  /\ ~ Duplicate(c)
  /\ IF TakesMessages
       THEN \E id \in Ids \ DOMAIN messages :
              /\ messages' = WithMessage(c, id)
              /\ conversation' = Updated(request[c], id)
              /\ lag' = lag \cup {id}
              /\ Ends(c, "publish", id)
       ELSE Ends(c, "error", 0) /\ UNCHANGED <<messages, conversation, lag>>
  /\ UNCHANGED <<transactions, request, readVars, deviceVars, swallowed, faults>>

\* Without transactions: the message first.
InsertMessage(c) ==
  /\ pc[c] = "insert"
  /\ ~ transactions
  /\ ~ Duplicate(c)
  /\ \E id \in Ids \ DOMAIN messages :
       /\ messages' = WithMessage(c, id)
       /\ lag' = lag \cup {id}
       /\ Ends(c, "update", id)
  /\ UNCHANGED <<transactions, conversation, request, readVars, deviceVars, swallowed,
                 faults>>

\* ... then the conversation.
UpdateConversation(c) ==
  /\ pc[c] = "update"
  /\ IF TakesMessages
       THEN /\ conversation' = Updated(request[c], answer[c])
            /\ Ends(c, "publish", answer[c])
       ELSE Ends(c, "error", 0) /\ UNCHANGED conversation
  /\ UNCHANGED <<transactions, messages, request, readVars, deviceVars,
                 cacheVars, faults>>

\* Mutant: the device joins the room only once it is synchronized.
InRoomWhenReady == device = "ready"
InRoom == device # "off"

\* publish_ecommerce_message, which a repeated message goes through again: the
\* first pages become stale,
Invalidate(c) ==
  /\ pc[c] = "publish"
  /\ Bump({answer[c]})
  /\ pc' = [pc EXCEPT ![c] = "emit"]
  /\ UNCHANGED <<transactions, messages, conversation, request, answer, readVars,
                 deviceVars>>

\* ... then the emission, and the acknowledgement.
Publish(c) ==
  /\ pc[c] = "emit"
  /\ seen' = IF InRoom THEN seen \cup {answer[c]} ELSE seen
  /\ pc' = [pc EXCEPT ![c] = "ok"]
  /\ UNCHANGED <<transactions, messages, conversation, request, answer, readVars,
                 device, hidden, cacheVars, faults>>

-----------------------------------------------------------------------------
(* ecommerce_chat:read: mark_read *)

\* What the other side sent and the reader has not read.
Unread(who) ==
  {i \in DOMAIN messages :
     ~ messages[i].read /\ (who = "customer") = (messages[i].from # Customer)}

Marked(ids) ==
  [i \in DOMAIN messages |->
     IF i \in ids THEN [messages[i] EXCEPT !.read = TRUE] ELSE messages[i]]

\* Mutant: the counter may go below zero.
Difference(n, k) == n - k
Less(n, k) == IF n > k THEN n - k ELSE 0

Counted(who, n) ==
  IF who = "customer"
    THEN [conversation EXCEPT !.unread_customer = Less(@, n)]
    ELSE [conversation EXCEPT !.unread_store = Less(@, n)]

\* Without a conversation there is nothing to read.
StartRead(r) ==
  /\ reading[r] = "idle"
  /\ reading' = [reading EXCEPT ![r] =
       IF conversation.status = "none" THEN "done" ELSE "mark"]
  /\ UNCHANGED <<transactions, messages, conversation, callVars, side, modified,
                 deviceVars, cacheVars, faults>>

\* updateMany; in a transaction the counter changes with it.
MarkRead(r) ==
  LET ids == Unread(side[r]) IN
  /\ reading[r] = "mark"
  /\ messages' = Marked(ids)
  /\ modified' = [modified EXCEPT ![r] = Cardinality(ids)]
  /\ IF transactions \/ ids = {}
       THEN /\ conversation' = Counted(side[r], Cardinality(ids))
            /\ reading' = [reading EXCEPT ![r] =
                 IF ids = {} THEN "done" ELSE "announce"]
       ELSE /\ reading' = [reading EXCEPT ![r] = "count"]
            /\ UNCHANGED conversation
  /\ UNCHANGED <<transactions, callVars, side, deviceVars, cacheVars, faults>>

\* Without transactions: the counter, by as many messages as it marked.
CountRead(r) ==
  /\ reading[r] = "count"
  /\ conversation' = Counted(side[r], modified[r])
  /\ reading' = [reading EXCEPT ![r] = "announce"]
  /\ UNCHANGED <<transactions, messages, callVars, side, modified, deviceVars,
                 cacheVars, faults>>

\* publish_ecommerce_read, when it marked some.
AnnounceRead(r) ==
  /\ reading[r] = "announce"
  /\ Bump({})
  /\ reading' = [reading EXCEPT ![r] = "done"]
  /\ UNCHANGED <<transactions, messages, conversation, callVars, side, modified,
                 deviceVars>>

-----------------------------------------------------------------------------
(* The device, the store's system, and faults *)

\* Bootstrap: the device joins its room, gets its first page, and is ready once
\* it has received it.
Connect ==
  /\ device = "off"
  /\ device' = "joined"
  /\ UNCHANGED <<transactions, messages, conversation, callVars, readVars, seen,
                 hidden, cacheVars, faults>>

\* The page is read now, or was before some changes the cache did not hear of.
Synchronize ==
  /\ device = "joined"
  /\ device' = "synchronized"
  /\ \E missed \in SUBSET lag :
       /\ seen' = seen \cup (DOMAIN messages \ missed)
       /\ hidden' = missed \cap swallowed
  /\ UNCHANGED <<transactions, messages, conversation, callVars, readVars,
                 cacheVars, faults>>

BecomeReady ==
  /\ device = "synchronized"
  /\ device' = "ready"
  /\ UNCHANGED <<transactions, messages, conversation, callVars, readVars, seen,
                 hidden, cacheVars, faults>>

Disconnect ==
  /\ device # "off"
  /\ device' = "off"
  /\ seen' = {}
  /\ hidden' = {}
  /\ UNCHANGED <<transactions, messages, conversation, callVars, readVars,
                 cacheVars, faults>>

CloseConversation ==
  /\ conversation.status \in {"waiting", "open"}
  /\ conversation' = [conversation EXCEPT !.status = "closed"]
  /\ UNCHANGED <<transactions, messages, callVars, readVars, deviceVars,
                 cacheVars, faults>>

\* The process of the call dies, or its last command is reported as failed.
LoseCall(c) ==
  /\ Fault
  /\ pc[c] \notin {"idle", "ok", "error"}
  /\ Ends(c, "error", 0)
  /\ UNCHANGED <<transactions, messages, conversation, request, readVars,
                 deviceVars, cacheVars>>

LoseReader(r) ==
  /\ Fault
  /\ reading[r] \notin {"idle", "done"}
  /\ reading' = [reading EXCEPT ![r] = "done"]
  /\ UNCHANGED <<transactions, messages, conversation, callVars, side, modified,
                 deviceVars, cacheVars>>

-----------------------------------------------------------------------------
CallStep(c) ==
  \/ Send(c) \/ LookUp(c) \/ Find(c) \/ Ensure(c) \/ CreateConversation(c)
  \/ InsertDuplicate(c) \/ Commit(c) \/ InsertMessage(c) \/ UpdateConversation(c)
  \/ Invalidate(c) \/ Publish(c) \/ LoseCall(c)

ReadStep(r) ==
  \/ StartRead(r) \/ MarkRead(r) \/ CountRead(r) \/ AnnounceRead(r) \/ LoseReader(r)

Next ==
  \/ \E c \in Calls : CallStep(c)
  \/ \E r \in Readers : ReadStep(r)
  \/ Connect \/ Synchronize \/ BecomeReady \/ Disconnect
  \/ CloseConversation

Spec == Init /\ [][Next]_vars

-----------------------------------------------------------------------------
(* Properties *)

Message ==
  [from : Senders, key : Keys \cup {NoKey}, body : Bodies, legacy : BOOLEAN,
   read : BOOLEAN]

TypeOK ==
  /\ transactions \in BOOLEAN
  /\ DOMAIN messages \subseteq Ids
  /\ \A i \in DOMAIN messages : messages[i] \in Message
  /\ conversation \in
       [status : {"none", "waiting", "open", "closed"},
        responsible : Users \cup {None}, last : Ids \cup {0},
        last_from : Senders \cup {None}, unread_store : Nat, unread_customer : Nat]
  /\ pc \in [Calls -> {"idle", "lookup", "find", "ensure", "create", "insert", "update",
                       "publish", "emit", "ok", "error"}]
  /\ request \in [Calls -> Requests \cup {NoRequest}]
  /\ answer \in [Calls -> Ids \cup {0}]
  /\ side \in [Readers -> {"customer", "store"}]
  /\ reading \in [Readers -> {"idle", "mark", "count", "announce", "done"}]
  /\ modified \in [Readers -> Nat]
  /\ device \in {"off", "joined", "synchronized", "ready"}
  /\ seen \subseteq Ids
  /\ hidden \subseteq Ids
  /\ lag \subseteq Ids
  /\ swallowed \subseteq Ids
  /\ faults \in 0..MaxFaults

\* With transactions, the unread counters of the conversation are the numbers
\* of unread messages, whatever sends, reads and failures run together.
CountersMatch ==
  transactions =>
    /\ conversation.unread_store = Cardinality(Unread("store"))
    /\ conversation.unread_customer = Cardinality(Unread("customer"))

\* No handler is between the two writes it makes without transactions, and
\* none was lost, or refused, there.
Settled ==
  transactions \/ (faults = 0 /\ ~ Closed /\ \A c \in Calls : pc[c] # "update")

\* The conversation shows its newest message, in the order of the ids that the
\* synchronization pages follow, although writers finish in any order; without
\* transactions, once they have finished.
LatestIsNewest ==
  Settled /\ DOMAIN messages # {} =>
    /\ conversation.last = Max(DOMAIN messages)
    /\ conversation.last_from = messages[conversation.last].from

\* The document of the conversation agrees with its messages: its counters, and
\* its newest message.
ConversationIsCurrent == CountersMatch /\ LatestIsNewest

\* An acknowledged call answers a stored message that is its own, once: same
\* sender, client_message_id and body, and repetitions get the same message.
AnswersAreFaithful ==
  \A c \in Calls : pc[c] = "ok" =>
    /\ answer[c] \in DOMAIN messages
    /\ messages[answer[c]].from = request[c].from
    /\ messages[answer[c]].key = request[c].key
    /\ messages[answer[c]].body = request[c].body
    /\ \A d \in Calls :
         /\ pc[d] = "ok"
         /\ request[c].key # NoKey
         /\ request[d].from = request[c].from
         /\ request[d].key = request[c].key
         => answer[d] = answer[c]

\* With transactions no message enters a closed conversation, though the calls
\* checked its status before they wrote.
ClosedStaysClosed ==
  [][transactions /\ Closed => DOMAIN messages' = DOMAIN messages]_vars

\* A connected device shows every message that was acknowledged to its sender,
\* whatever the order of its room, its page and the publications, and however
\* old its page is.  The exception is a page that missed a message whose
\* invalidation was swallowed (sync_cache.ts:214, 231) before the device came:
\* the next invalidation, or the entry's end, lets later pages show it.
AcknowledgedIsSeen ==
  device = "ready" =>
    \A c \in Calls : pc[c] = "ok" => answer[c] \in seen \cup hidden

=============================================================================
