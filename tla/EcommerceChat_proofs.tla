-------------------------- MODULE EcommerceChat_proofs --------------------------
(***************************************************************************)
(* Proofs about EcommerceChat, for any calls, readers, attendants, keys,   *)
(* bodies and numbers of messages and faults, with and without             *)
(* transactions.                                                           *)
(***************************************************************************)
EXTENDS EcommerceChat, FiniteSetTheorems, TLAPS

-----------------------------------------------------------------------------
(* The invariant *)

Conversation ==
  [status : {"none", "waiting", "open", "closed"},
   responsible : Users \cup {None}, last : Ids \cup {0},
   last_from : Senders \cup {None}, unread_store : Nat, unread_customer : Nat]

Points ==
  {"idle", "lookup", "find", "ensure", "create", "insert", "update", "publish", "emit",
   "ok", "error"}

\* What a call knows at each point: its input, a message that is its own, and that
\* no earlier release has stored it.
CallInv(c) ==
  /\ pc[c] # "idle" => request[c] \in Requests
  /\ pc[c] \in {"update", "publish", "emit", "ok"} =>
       /\ answer[c] \in DOMAIN messages
       /\ messages[answer[c]].from = request[c].from
       /\ messages[answer[c]].key = request[c].key
       /\ messages[answer[c]].body = request[c].body
  /\ pc[c] \in {"ensure", "create", "insert"} => Earlier(c, TRUE) = {}
  /\ \/ pc[c] \in {"insert", "update"}
     \/ pc[c] = "find" /\ request[c].from # Customer
     => conversation.status # "none"
  /\ pc[c] = "update" => ~ transactions

CallsInv == \A c \in Calls : CallInv(c)

\* Two messages of a sender with one client_message_id are the same.
KeysInv ==
  \A i, j \in DOMAIN messages :
    /\ messages[i].key # NoKey
    /\ messages[i].key = messages[j].key
    /\ messages[i].from = messages[j].from
    => i = j

\* Only without transactions is there something between the two writes of a reader.
ReadersInv == \A r \in Readers : reading[r] = "count" => ~ transactions

\* Nothing is known of a conversation that is not there yet.
NoneInv == conversation.status = "none" => conversation = NoConversation

\* What is emitted is in every page from now on, unless its invalidation was
\* swallowed.
LagInv ==
  \A c \in Calls :
    pc[c] \in {"emit", "ok"} => answer[c] \notin lag \/ answer[c] \in swallowed

DeviceInv ==
  device \in {"synchronized", "ready"} =>
    \A c \in Calls : pc[c] = "ok" => answer[c] \in seen \cup hidden

\* A message the conversation does not reach is about to be added to it.
Reached(i) ==
  i <= conversation.last \/ \E c \in Calls : pc[c] = "update" /\ answer[c] = i

LastInv ==
  /\ conversation.last # 0 =>
       /\ conversation.last \in DOMAIN messages
       /\ conversation.last_from = messages[conversation.last].from
  /\ transactions \/ (faults = 0 /\ ~ Closed) => \A i \in DOMAIN messages : Reached(i)

-----------------------------------------------------------------------------
(* Messages *)

LEMMA MessageFields ==
  ASSUME TypeOK, NEW i \in DOMAIN messages
  PROVE  /\ i \in Ids /\ i \in Nat /\ i # 0
         /\ messages[i] \in Message
BY EcommerceAssumption DEF TypeOK, Ids, EcommerceAssumption

LEMMA StoredType ==
  ASSUME NEW r \in Requests, NEW b \in BOOLEAN
  PROVE  Stored(r, b) \in Message
BY DEF Stored, Message, Requests

\* What a step may do to the messages: they keep what they say, and new ones are
\* of this release.
MessagesKept ==
  /\ \A i \in DOMAIN messages :
       /\ i \in DOMAIN messages'
       /\ messages'[i].from = messages[i].from
       /\ messages'[i].key = messages[i].key
       /\ messages'[i].body = messages[i].body
       /\ messages'[i].legacy = messages[i].legacy
  /\ \A i \in DOMAIN messages' : messages'[i].legacy => i \in DOMAIN messages

LEMMA InsertedMessages ==
  ASSUME TypeOK, NEW c \in Calls, request[c] \in Requests,
         NEW id \in Ids \ DOMAIN messages, messages' = WithMessage(c, id)
  PROVE  /\ DOMAIN messages' = DOMAIN messages \cup {id}
         /\ messages'[id] = Stored(request[c], FALSE)
         /\ \A i \in DOMAIN messages : messages'[i] = messages[i] /\ i # id
         /\ DOMAIN messages' \subseteq Ids
         /\ \A i \in DOMAIN messages' : messages'[i] \in Message
         /\ MessagesKept
<1>1. DOMAIN messages' = DOMAIN messages \cup {id}
  BY DEF WithMessage
<1>2. messages'[id] = Stored(request[c], FALSE)
  BY DEF WithMessage
<1>3. \A i \in DOMAIN messages : messages'[i] = messages[i] /\ i # id
  BY DEF WithMessage
<1>4. Stored(request[c], FALSE) \in Message /\ ~ Stored(request[c], FALSE).legacy
  BY StoredType DEF Stored
<1>5. DOMAIN messages' \subseteq Ids
  BY <1>1 DEF TypeOK
<1>6. \A i \in DOMAIN messages' : messages'[i] \in Message
  BY <1>1, <1>2, <1>3, <1>4 DEF TypeOK
<1>7. MessagesKept
  BY <1>1, <1>2, <1>3, <1>4 DEF MessagesKept
<1> QED
  BY <1>1, <1>2, <1>3, <1>5, <1>6, <1>7

LEMMA MarkedMessages ==
  ASSUME TypeOK, NEW ids, messages' = Marked(ids)
  PROVE  /\ DOMAIN messages' = DOMAIN messages
         /\ \A i \in DOMAIN messages' : messages'[i] \in Message
         /\ \A i \in DOMAIN messages :
              messages'[i].read = (messages[i].read \/ i \in ids)
         /\ MessagesKept
<1>1. DOMAIN messages' = DOMAIN messages
  BY DEF Marked
<1>2. ASSUME NEW i \in DOMAIN messages
      PROVE  /\ messages'[i] \in Message
             /\ messages'[i].from = messages[i].from
             /\ messages'[i].key = messages[i].key
             /\ messages'[i].body = messages[i].body
             /\ messages'[i].legacy = messages[i].legacy
             /\ messages'[i].read = (messages[i].read \/ i \in ids)
  <2>1. messages[i] \in Message
    BY MessageFields
  <2>2. messages'[i] = IF i \in ids THEN [messages[i] EXCEPT !.read = TRUE] ELSE messages[i]
    BY DEF Marked
  <2>3. CASE i \in ids
    BY <2>1, <2>2, <2>3 DEF Message
  <2>4. CASE i \notin ids
    BY <2>1, <2>2, <2>4 DEF Message
  <2> QED
    BY <2>3, <2>4
<1>3. MessagesKept
  BY <1>1, <1>2 DEF MessagesKept
<1> QED
  BY <1>1, <1>2, <1>3

LEMMA UnreadFinite ==
  ASSUME TypeOK, NEW who
  PROVE  IsFiniteSet(Unread(who)) /\ Cardinality(Unread(who)) \in Nat
<1>1. IsFiniteSet(Ids)
  BY FS_Interval, EcommerceAssumption DEF Ids, EcommerceAssumption
<1>2. Unread(who) \subseteq Ids
  BY DEF Unread, TypeOK
<1>3. IsFiniteSet(Unread(who))
  BY <1>1, <1>2, FS_Subset
<1> QED
  BY <1>3, FS_CardinalityType

-----------------------------------------------------------------------------
(* Types *)

LEMMA UpdatedType ==
  ASSUME TypeOK, NEW r \in Requests, NEW id \in Ids
  PROVE  Updated(r, id) \in Conversation
<1>1. conversation \in Conversation
  BY DEF TypeOK, Conversation
<1>2. r.from \in Senders /\ (r.from # Customer => r.from \in Users)
  BY DEF Requests, Senders
<1>3. /\ (IF r.from = Customer THEN conversation.status ELSE "open")
           \in {"none", "waiting", "open", "closed"}
      /\ (IF r.from = Customer \/ conversation.responsible # None
           THEN conversation.responsible ELSE r.from) \in Users \cup {None}
  BY <1>1, <1>2 DEF Conversation
<1>4. /\ (IF r.from = Customer THEN conversation.unread_store + 1
           ELSE conversation.unread_store) \in Nat
      /\ (IF r.from = Customer THEN conversation.unread_customer
           ELSE conversation.unread_customer + 1) \in Nat
  BY <1>1 DEF Conversation
<1>5. /\ (IF Newest(id) THEN id ELSE conversation.last) \in Ids \cup {0}
      /\ (IF Newest(id) THEN r.from ELSE conversation.last_from) \in Senders \cup {None}
  BY <1>1, <1>2 DEF Conversation
<1> QED
  BY <1>1, <1>3, <1>4, <1>5 DEF Updated, Conversation

LEMMA CountedType ==
  ASSUME TypeOK, NEW who, NEW n \in Nat
  PROVE  Counted(who, n) \in Conversation
<1>1. conversation \in Conversation
  BY DEF TypeOK, Conversation
<1>2. \A m \in Nat : Less(m, n) \in Nat
  BY DEF Less
<1> QED
  BY <1>1, <1>2 DEF Counted, Conversation

LEMMA EndsType ==
  ASSUME TypeOK, NEW c \in Calls, NEW how \in Points, NEW id \in Ids \cup {0},
         Ends(c, how, id)
  PROVE  /\ pc' \in [Calls -> Points]
         /\ answer' \in [Calls -> Ids \cup {0}]
BY DEF TypeOK, Ends, Points

LEMMA RepeatsType ==
  ASSUME TypeOK, NEW c \in Calls, NEW i \in DOMAIN messages, Repeats(c, i)
  PROVE  /\ pc' \in [Calls -> Points]
         /\ answer' \in [Calls -> Ids \cup {0}]
<1>1. i \in Ids
  BY MessageFields
<1>2. CASE SameBody(c, i)
  BY <1>1, <1>2, EndsType DEF Repeats, Points
<1>3. CASE ~ SameBody(c, i)
  BY <1>3, EndsType DEF Repeats, Points
<1> QED
  BY <1>2, <1>3

LEMMA InitTypes ==
  ASSUME Init
  PROVE  /\ TypeOK /\ CallsInv /\ KeysInv /\ DeviceInv /\ LastInv
         /\ CountersMatch /\ ReadersInv /\ NoneInv /\ LagInv
<1>0. ReadersInv /\ LagInv
  BY DEF Init, ReadersInv, LagInv
<1>1. CASE messages = [i \in {} |-> 0] /\ conversation = NoConversation
  <2>0. DOMAIN messages = {}
    BY <1>1
  <2>1. conversation \in Conversation
    BY <1>1 DEF NoConversation, Conversation, Senders
  <2>2. TypeOK
    BY <2>0, <2>1, EcommerceAssumption
    DEF Init, TypeOK, Conversation, NoRequest, EcommerceAssumption, Points
  <2>3. CallsInv /\ KeysInv /\ DeviceInv
    BY <2>0 DEF Init, CallsInv, CallInv, KeysInv, DeviceInv
  <2>4. LastInv
    BY <1>1, <2>0 DEF LastInv, NoConversation
  <2>5. Unread("store") = {} /\ Unread("customer") = {}
    BY <2>0 DEF Unread
  <2>6. CountersMatch
    BY <1>1, <2>5, FS_EmptySet DEF CountersMatch, NoConversation
  <2> QED
    BY <1>0, <1>1, <2>2, <2>3, <2>4, <2>6 DEF NoneInv
<1>2. ASSUME NEW r \in Requests, r.from = Customer, r.key # NoKey, Legacy(r)
      PROVE  /\ TypeOK /\ CallsInv /\ KeysInv /\ DeviceInv /\ LastInv
             /\ CountersMatch /\ NoneInv
  <2>0. DOMAIN messages = {1} /\ messages[1] = Stored(r, TRUE)
    BY <1>2 DEF Legacy
  <2>1. /\ messages[1] \in Message /\ messages[1].from = Customer
        /\ messages[1].read = FALSE
    <3>1. Stored(r, TRUE) \in Message
      BY StoredType
    <3> QED
      BY <1>2, <2>0, <3>1 DEF Stored
  <2>2. 1 \in Ids
    BY <1>2, EcommerceAssumption DEF Ids, EcommerceAssumption
  <2>3. /\ conversation \in Conversation /\ conversation.last = 1
        /\ conversation.last_from = Customer /\ conversation.unread_store = 1
        /\ conversation.unread_customer = 0
    BY <1>2, <2>2 DEF Legacy, NoConversation, Conversation, Senders
  <2>4. TypeOK
    <3>1. transactions \in BOOLEAN /\ faults \in 0..MaxFaults
      BY EcommerceAssumption DEF Init, EcommerceAssumption
    <3>2. DOMAIN messages \subseteq Ids /\ \A i \in DOMAIN messages : messages[i] \in Message
      BY <2>0, <2>1, <2>2
    <3>3. conversation \in Conversation
      BY <2>3
    <3> QED
      BY <3>1, <3>2, <3>3 DEF Init, TypeOK, Conversation
  <2>5. CallsInv /\ KeysInv /\ DeviceInv
    BY <2>0 DEF Init, CallsInv, CallInv, KeysInv, DeviceInv
  <2>6. LastInv
    <3>1. \A i \in DOMAIN messages : i <= conversation.last
      BY <2>0, <2>3
    <3> QED
      BY <2>0, <2>1, <2>3, <3>1 DEF LastInv, Reached
  <2>7. Unread("store") = {1} /\ Unread("customer") = {}
    BY <2>0, <2>1 DEF Unread
  <2>8. CountersMatch
    BY <2>3, <2>7, FS_EmptySet, FS_Singleton DEF CountersMatch
  <2>9. NoneInv
    BY <1>2 DEF NoneInv, Legacy, NoConversation
  <2> QED
    BY <2>4, <2>5, <2>6, <2>8, <2>9
<1> QED
  BY <1>0, <1>1, <1>2 DEF Init

\* What an invalidation does to what the cache may miss, if it takes effect or not.
LEMMA BumpTypes ==
  ASSUME TypeOK, NEW ids, Bump(ids)
  PROVE  lag' \subseteq Ids /\ swallowed' \subseteq Ids /\ faults' \in 0..MaxFaults
<1>1. CASE lag' = {} /\ swallowed' = {} /\ UNCHANGED faults
  BY <1>1 DEF TypeOK
<1>2. CASE Fault /\ swallowed' = swallowed \cup (ids \cap lag) /\ UNCHANGED lag
  BY <1>2, EcommerceAssumption DEF Fault, TypeOK, EcommerceAssumption
<1> QED
  BY <1>1, <1>2 DEF Bump

LEMMA BumpFacts ==
  ASSUME NEW ids, Bump(ids)
  PROVE  /\ lag' \subseteq lag
         /\ \A i : i \notin lag \/ i \in swallowed => i \notin lag' \/ i \in swallowed'
         /\ \A i \in ids : i \notin lag' \/ i \in swallowed'
         /\ faults' = faults \/ faults' = faults + 1
BY DEF Bump, Fault

\* TypeOK when a step changes only the variables of calls.
LEMMA CallTypes ==
  ASSUME TypeOK, pc' \in [Calls -> Points], answer' \in [Calls -> Ids \cup {0}],
         request' \in [Calls -> Requests \cup {NoRequest}],
         UNCHANGED <<transactions, messages, conversation, readVars, deviceVars, cacheVars,
                   faults>>
  PROVE  TypeOK'
BY DEF TypeOK, Points, readVars, deviceVars, cacheVars

LEMMA TypeStep ==
  ASSUME TypeOK, CallsInv, Next
  PROVE  TypeOK'
<1>0. ASSUME NEW c \in Calls
      PROVE  CallInv(c) /\ answer[c] \in Ids \cup {0} /\ pc \in [Calls -> Points]
  BY DEF CallsInv, TypeOK, Points
<1>1. ASSUME NEW c \in Calls, Send(c) PROVE TypeOK'
  <2>1. PICK r \in Requests :
          /\ request' = [request EXCEPT ![c] = r]
          /\ pc' = [pc EXCEPT ![c] = IF r.from = Customer THEN "find" ELSE "lookup"]
    BY <1>1 DEF Send
  <2> QED
    BY <1>0, <1>1, <2>1, CallTypes DEF Send, TypeOK, Points
<1>2. ASSUME NEW c \in Calls, LookUp(c) PROVE TypeOK'
  BY <1>0, <1>2, CallTypes DEF LookUp, TypeOK, Points
<1>3. ASSUME NEW c \in Calls, Find(c) PROVE TypeOK'
  <2>1. \A b : Earlier(c, b) \subseteq DOMAIN messages
    BY DEF Earlier
  <2>2. pc' \in [Calls -> Points] /\ answer' \in [Calls -> Ids \cup {0}]
    <3>1. ASSUME NEW i \in DOMAIN messages, Repeats(c, i)
          PROVE  pc' \in [Calls -> Points] /\ answer' \in [Calls -> Ids \cup {0}]
      BY <3>1, RepeatsType
    <3>2. CASE Earlier(c, FALSE) # {} \/ Earlier(c, TRUE) # {}
      BY <1>3, <2>1, <3>1, <3>2 DEF Find
    <3>3. CASE Earlier(c, FALSE) = {} /\ Earlier(c, TRUE) = {}
      BY <1>3, <3>3, EndsType DEF Find, Points
    <3> QED
      BY <3>2, <3>3
  <2> QED
    BY <1>3, <2>2, CallTypes DEF Find, TypeOK
<1>4. ASSUME NEW c \in Calls, Ensure(c) PROVE TypeOK'
  BY <1>0, <1>4, CallTypes DEF Ensure, TypeOK, Points
<1>5. ASSUME NEW c \in Calls, CreateConversation(c) PROVE TypeOK'
  <2>1. conversation' \in Conversation
    BY <1>5 DEF CreateConversation, NoConversation, TypeOK, Conversation
  <2> QED
    BY <1>5, <2>1 DEF CreateConversation, TypeOK, Conversation, readVars, deviceVars,
       cacheVars
<1>6. ASSUME NEW c \in Calls, InsertDuplicate(c) PROVE TypeOK'
  <2>1. PICK i \in DOMAIN messages : Repeats(c, i)
    BY <1>6 DEF InsertDuplicate, Earlier
  <2> QED
    BY <1>6, <2>1, RepeatsType, CallTypes DEF InsertDuplicate, TypeOK
<1>7. ASSUME NEW c \in Calls, Commit(c) PROVE TypeOK'
  <2>1. request[c] \in Requests
    BY <1>0, <1>7 DEF Commit, CallInv
  <2>2. CASE TakesMessages
    <3>1. PICK id \in Ids \ DOMAIN messages :
            /\ messages' = WithMessage(c, id)
            /\ conversation' = Updated(request[c], id)
            /\ lag' = lag \cup {id}
            /\ Ends(c, "publish", id)
      BY <1>7, <2>2 DEF Commit
    <3>2. /\ DOMAIN messages' \subseteq Ids
          /\ \A i \in DOMAIN messages' : messages'[i] \in Message
      BY <2>1, <3>1, InsertedMessages
    <3>3. conversation' \in Conversation
      BY <2>1, <3>1, UpdatedType
    <3>4. pc' \in [Calls -> Points] /\ answer' \in [Calls -> Ids \cup {0}]
      BY <3>1, EndsType DEF Points
    <3>5. lag' \subseteq Ids
      BY <3>1 DEF TypeOK
    <3> QED
      BY <1>7, <3>2, <3>3, <3>4, <3>5
      DEF Commit, TypeOK, Conversation, Points, readVars, deviceVars, cacheVars
  <2>3. CASE ~ TakesMessages
    <3>1. pc' \in [Calls -> Points] /\ answer' \in [Calls -> Ids \cup {0}]
      BY <1>7, <2>3, EndsType DEF Commit, Points
    <3> QED
      BY <1>7, <2>3, <3>1, CallTypes DEF Commit, TypeOK, cacheVars
  <2> QED
    BY <2>2, <2>3
<1>8. ASSUME NEW c \in Calls, InsertMessage(c) PROVE TypeOK'
  <2>1. request[c] \in Requests
    BY <1>0, <1>8 DEF InsertMessage, CallInv
  <2>2. PICK id \in Ids \ DOMAIN messages :
          /\ messages' = WithMessage(c, id)
          /\ lag' = lag \cup {id}
          /\ Ends(c, "update", id)
    BY <1>8 DEF InsertMessage
  <2>3. /\ DOMAIN messages' \subseteq Ids
        /\ \A i \in DOMAIN messages' : messages'[i] \in Message
    BY <2>1, <2>2, InsertedMessages
  <2>4. pc' \in [Calls -> Points] /\ answer' \in [Calls -> Ids \cup {0}]
    BY <2>2, EndsType DEF Points
  <2>5. lag' \subseteq Ids
    BY <2>2 DEF TypeOK
  <2> QED
    BY <1>8, <2>3, <2>4, <2>5 DEF InsertMessage, TypeOK, Points, readVars, deviceVars,
       cacheVars
<1>9. ASSUME NEW c \in Calls, UpdateConversation(c) PROVE TypeOK'
  <2>1. request[c] \in Requests /\ answer[c] \in Ids
    BY <1>0, <1>9, MessageFields DEF UpdateConversation, CallInv
  <2>2. CASE TakesMessages
    <3>1. conversation' \in Conversation
      BY <1>9, <2>1, <2>2, UpdatedType DEF UpdateConversation
    <3>2. pc' \in [Calls -> Points] /\ answer' \in [Calls -> Ids \cup {0}]
      BY <1>9, <2>1, <2>2, EndsType DEF UpdateConversation, Points
    <3> QED
      BY <1>9, <3>1, <3>2
      DEF UpdateConversation, TypeOK, Conversation, Points, readVars, deviceVars,
      cacheVars
  <2>3. CASE ~ TakesMessages
    <3>1. pc' \in [Calls -> Points] /\ answer' \in [Calls -> Ids \cup {0}]
      BY <1>9, <2>3, EndsType DEF UpdateConversation, Points
    <3> QED
      BY <1>9, <2>3, <3>1, CallTypes DEF UpdateConversation, TypeOK
  <2> QED
    BY <2>2, <2>3
<1>10. ASSUME NEW c \in Calls, Publish(c) PROVE TypeOK'
  <2>1. answer[c] \in Ids
    BY <1>0, <1>10, MessageFields DEF Publish, CallInv
  <2>2. seen' \subseteq Ids
    BY <1>10, <2>1 DEF Publish, TypeOK
  <2> QED
    BY <1>10, <2>2 DEF Publish, TypeOK, readVars, cacheVars
<1>11. ASSUME NEW c \in Calls, LoseCall(c) PROVE TypeOK'
  <2>1. pc' \in [Calls -> Points] /\ answer' \in [Calls -> Ids \cup {0}]
    BY <1>11, EndsType DEF LoseCall, Points
  <2>2. faults' \in 0..MaxFaults
    BY <1>11, EcommerceAssumption DEF LoseCall, Fault, TypeOK, EcommerceAssumption
  <2> QED
    BY <1>11, <2>1, <2>2 DEF LoseCall, TypeOK, Points, readVars, deviceVars, cacheVars
<1>12. ASSUME NEW r \in Readers, StartRead(r) PROVE TypeOK'
  BY <1>12 DEF StartRead, TypeOK, callVars, deviceVars, cacheVars
<1>13. ASSUME NEW r \in Readers, MarkRead(r) PROVE TypeOK'
  <2> DEFINE ids == Unread(side[r])
  <2>1. messages' = Marked(ids)
    BY <1>13 DEF MarkRead
  <2>2. /\ DOMAIN messages' \subseteq Ids
        /\ \A i \in DOMAIN messages' : messages'[i] \in Message
    BY <2>1, MarkedMessages DEF TypeOK
  <2>3. Cardinality(ids) \in Nat
    BY UnreadFinite
  <2>4. conversation' \in Conversation
    <3>1. CASE transactions \/ ids = {}
      BY <1>13, <2>3, <3>1, CountedType DEF MarkRead
    <3>2. CASE ~ (transactions \/ ids = {})
      BY <1>13, <3>2 DEF MarkRead, TypeOK, Conversation
    <3> QED
      BY <3>1, <3>2
  <2>5. /\ modified' \in [Readers -> Nat]
        /\ reading' \in [Readers -> {"idle", "mark", "count", "announce", "done"}]
    BY <1>13, <2>3 DEF MarkRead, TypeOK
  <2> QED
    BY <1>13, <2>2, <2>4, <2>5 DEF MarkRead, TypeOK, Conversation, callVars, deviceVars,
       cacheVars
<1>14. ASSUME NEW r \in Readers, CountRead(r) PROVE TypeOK'
  <2>1. modified[r] \in Nat
    BY DEF TypeOK
  <2>2. conversation' \in Conversation
    BY <1>14, <2>1, CountedType DEF CountRead
  <2> QED
    BY <1>14, <2>2 DEF CountRead, TypeOK, Conversation, callVars, deviceVars, cacheVars
<1>15. ASSUME NEW r \in Readers, LoseReader(r) PROVE TypeOK'
  <2>1. faults' \in 0..MaxFaults
    BY <1>15, EcommerceAssumption DEF LoseReader, Fault, TypeOK, EcommerceAssumption
  <2> QED
    BY <1>15, <2>1 DEF LoseReader, TypeOK, callVars, deviceVars, cacheVars
<1>16. CASE Connect \/ Synchronize \/ BecomeReady \/ Disconnect
  <2>1. seen' \subseteq Ids /\ hidden' \subseteq Ids
    BY <1>16 DEF Connect, Synchronize, BecomeReady, Disconnect, TypeOK
  <2> QED
    BY <1>16, <2>1
    DEF Connect, Synchronize, BecomeReady, Disconnect, TypeOK, callVars, readVars,
        cacheVars
<1>17. CASE CloseConversation
  <2>1. conversation' \in Conversation
    BY <1>17 DEF CloseConversation, TypeOK, Conversation
  <2> QED
    BY <1>17, <2>1 DEF CloseConversation, TypeOK, Conversation, callVars, readVars,
       deviceVars, cacheVars
<1>18. ASSUME NEW c \in Calls, Invalidate(c) PROVE TypeOK'
  <2>1. lag' \subseteq Ids /\ swallowed' \subseteq Ids /\ faults' \in 0..MaxFaults
    BY <1>18, BumpTypes DEF Invalidate
  <2> QED
    BY <1>18, <2>1 DEF Invalidate, TypeOK, readVars, deviceVars
<1>19. ASSUME NEW r \in Readers, AnnounceRead(r) PROVE TypeOK'
  <2>1. lag' \subseteq Ids /\ swallowed' \subseteq Ids /\ faults' \in 0..MaxFaults
    BY <1>19, BumpTypes DEF AnnounceRead
  <2> QED
    BY <1>19, <2>1 DEF AnnounceRead, TypeOK, callVars, deviceVars
<1> QED
  BY <1>1, <1>2, <1>3, <1>4, <1>5, <1>6, <1>7, <1>8, <1>9, <1>10, <1>11, <1>12, <1>13,
     <1>14, <1>15, <1>16, <1>17, <1>18, <1>19
  DEF Next, CallStep, ReadStep

-----------------------------------------------------------------------------
(* What every step keeps *)

\* Nothing reopens a closed conversation, or removes one.
Onward ==
  /\ transactions' = transactions
  /\ faults <= faults'
  /\ conversation.last <= conversation'.last
  /\ conversation'.status = "none" => conversation.status = "none"
  /\ Closed => Closed'
  /\ MessagesKept

LEMMA SameMessages ==
  ASSUME UNCHANGED messages
  PROVE  MessagesKept
BY DEF MessagesKept

LEMMA UpdatedFields ==
  ASSUME TypeOK, NEW r \in Requests, NEW id \in Ids, conversation' = Updated(r, id)
  PROVE  /\ conversation'.status =
              IF r.from = Customer THEN conversation.status ELSE "open"
         /\ conversation'.last = IF conversation.last < id THEN id ELSE conversation.last
         /\ conversation'.last_from =
              IF conversation.last < id THEN r.from ELSE conversation.last_from
         /\ conversation'.unread_store =
              IF r.from = Customer THEN conversation.unread_store + 1
              ELSE conversation.unread_store
         /\ conversation'.unread_customer =
              IF r.from = Customer THEN conversation.unread_customer
              ELSE conversation.unread_customer + 1
<1>1. conversation \in Conversation
  BY DEF TypeOK, Conversation
<1> QED
  BY <1>1 DEF Updated, Newest, Conversation

LEMMA CountedFields ==
  ASSUME TypeOK, NEW who, NEW n, conversation' = Counted(who, n)
  PROVE  /\ conversation'.status = conversation.status
         /\ conversation'.last = conversation.last
         /\ conversation'.last_from = conversation.last_from
         /\ conversation'.responsible = conversation.responsible
         /\ conversation'.unread_store =
              IF who = "customer" THEN conversation.unread_store
              ELSE Less(conversation.unread_store, n)
         /\ conversation'.unread_customer =
              IF who = "customer" THEN Less(conversation.unread_customer, n)
              ELSE conversation.unread_customer
<1>1. conversation \in Conversation
  BY DEF TypeOK, Conversation
<1> QED
  BY <1>1 DEF Counted, Conversation

LEMMA NumberTypes ==
  ASSUME TypeOK
  PROVE  conversation.last \in Nat /\ faults \in Nat
<1>1. Ids \cup {0} \subseteq Nat
  BY EcommerceAssumption DEF Ids, EcommerceAssumption
<1> QED
  BY <1>1, EcommerceAssumption DEF TypeOK, EcommerceAssumption

LEMMA OnwardStep ==
  ASSUME TypeOK, CallsInv, NoneInv, Next
  PROVE  Onward
<1>0. conversation.last \in Nat /\ faults \in Nat
  BY NumberTypes
<1>1. ASSUME NEW c \in Calls, Commit(c) PROVE Onward
  <2>1. request[c] \in Requests
    BY <1>1 DEF Commit, CallsInv, CallInv
  <2>2. CASE TakesMessages
    <3>1. PICK id \in Ids \ DOMAIN messages :
            messages' = WithMessage(c, id) /\ conversation' = Updated(request[c], id)
      BY <1>1, <2>2 DEF Commit
    <3>2. MessagesKept
      BY <2>1, <3>1, InsertedMessages
    <3>3. id \in Nat
      BY EcommerceAssumption DEF Ids, EcommerceAssumption
    <3>4. /\ conversation'.status =
               IF request[c].from = Customer THEN conversation.status ELSE "open"
          /\ conversation'.last =
               IF conversation.last < id THEN id ELSE conversation.last
      BY <2>1, <3>1, UpdatedFields
    <3>5. transactions' = transactions /\ faults' = faults
      BY <1>1 DEF Commit
    <3> QED
      BY <1>0, <2>2, <3>2, <3>3, <3>4, <3>5 DEF Onward, TakesMessages, Closed
  <2>3. CASE ~ TakesMessages
    BY <1>0, <1>1, <2>3, SameMessages DEF Commit, Onward, Closed
  <2> QED
    BY <2>2, <2>3
<1>2. ASSUME NEW c \in Calls, InsertMessage(c) PROVE Onward
  <2>1. request[c] \in Requests
    BY <1>2 DEF InsertMessage, CallsInv, CallInv
  <2>2. MessagesKept
    BY <1>2, <2>1, InsertedMessages DEF InsertMessage
  <2> QED
    BY <1>0, <1>2, <2>2 DEF InsertMessage, Onward, Closed
<1>3. ASSUME NEW c \in Calls, UpdateConversation(c) PROVE Onward
  <2>1. request[c] \in Requests /\ answer[c] \in Ids /\ answer[c] \in Nat
    BY <1>3, MessageFields DEF UpdateConversation, CallsInv, CallInv
  <2>2. CASE TakesMessages
    <3>1. conversation' = Updated(request[c], answer[c])
      BY <1>3, <2>2 DEF UpdateConversation
    <3>2. /\ conversation'.status =
               IF request[c].from = Customer THEN conversation.status ELSE "open"
          /\ conversation'.last =
               IF conversation.last < answer[c] THEN answer[c] ELSE conversation.last
      BY <2>1, <3>1, UpdatedFields
    <3>3. transactions' = transactions /\ faults' = faults /\ MessagesKept
      BY <1>3, SameMessages DEF UpdateConversation
    <3> QED
      BY <1>0, <2>1, <2>2, <3>2, <3>3 DEF Onward, TakesMessages, Closed
  <2>3. CASE ~ TakesMessages
    BY <1>0, <1>3, <2>3, SameMessages DEF UpdateConversation, Onward, Closed
  <2> QED
    BY <2>2, <2>3
<1>4. ASSUME NEW c \in Calls, CreateConversation(c) PROVE Onward
  <2>1. CASE conversation.status = "none"
    BY <1>0, <1>4, <2>1, SameMessages
    DEF CreateConversation, NoConversation, NoneInv, Onward, Closed
  <2>2. CASE conversation.status # "none"
    BY <1>0, <1>4, <2>2, SameMessages DEF CreateConversation, Onward, Closed
  <2> QED
    BY <2>1, <2>2
<1>5. ASSUME NEW c \in Calls,
             \/ Send(c) \/ LookUp(c) \/ Find(c) \/ Ensure(c) \/ InsertDuplicate(c)
             \/ Invalidate(c) \/ Publish(c) \/ LoseCall(c)
      PROVE  Onward
  <2>1. UNCHANGED <<transactions, messages, conversation>>
    BY <1>5 DEF Send, LookUp, Find, Ensure, InsertDuplicate, Invalidate, Publish, LoseCall
  <2>2. faults' = faults \/ faults' = faults + 1
    <3>1. CASE Invalidate(c)
      BY <3>1, BumpFacts DEF Invalidate
    <3> QED
      BY <1>5, <3>1
      DEF Send, LookUp, Find, Ensure, InsertDuplicate, Invalidate, Publish, LoseCall,
      Fault
  <2> QED
    BY <1>0, <2>1, <2>2, SameMessages DEF Onward, Closed
<1>6. ASSUME NEW r \in Readers, MarkRead(r) PROVE Onward
  <2>1. MessagesKept
    BY <1>6, MarkedMessages DEF MarkRead
  <2>2. conversation'.status = conversation.status /\ conversation'.last = conversation.last
    <3>1. CASE transactions \/ Unread(side[r]) = {}
      BY <1>6, <3>1, CountedFields DEF MarkRead
    <3>2. CASE ~ (transactions \/ Unread(side[r]) = {})
      BY <1>6, <3>2 DEF MarkRead
    <3> QED
      BY <3>1, <3>2
  <2> QED
    BY <1>0, <1>6, <2>1, <2>2 DEF MarkRead, Onward, Closed
<1>7. ASSUME NEW r \in Readers, CountRead(r) PROVE Onward
  <2>1. conversation'.status = conversation.status /\ conversation'.last = conversation.last
    BY <1>7, CountedFields DEF CountRead
  <2> QED
    BY <1>0, <1>7, <2>1, SameMessages DEF CountRead, Onward, Closed
<1>8. ASSUME NEW r \in Readers, StartRead(r) \/ AnnounceRead(r) \/ LoseReader(r)
      PROVE  Onward
  <2>1. UNCHANGED <<transactions, messages, conversation>>
    BY <1>8 DEF StartRead, AnnounceRead, LoseReader
  <2>2. faults' = faults \/ faults' = faults + 1
    BY <1>8, BumpFacts DEF StartRead, AnnounceRead, LoseReader, Fault
  <2> QED
    BY <1>0, <2>1, <2>2, SameMessages DEF Onward, Closed
<1>9. CASE Connect \/ Synchronize \/ BecomeReady \/ Disconnect
  <2>1. UNCHANGED <<transactions, messages, conversation, faults>>
    BY <1>9 DEF Connect, Synchronize, BecomeReady, Disconnect
  <2> QED
    BY <1>0, <2>1, SameMessages DEF Onward, Closed
<1>10. CASE CloseConversation
  <2>1. conversation'.status = "closed" /\ conversation'.last = conversation.last
    BY <1>10 DEF CloseConversation, TypeOK
  <2> QED
    BY <1>0, <1>10, <2>1, SameMessages DEF CloseConversation, Onward, Closed
<1> QED
  BY <1>1, <1>2, <1>3, <1>4, <1>5, <1>6, <1>7, <1>8, <1>9, <1>10
  DEF Next, CallStep, ReadStep
-----------------------------------------------------------------------------
(* What the calls know *)

LEMMA CallFrame ==
  ASSUME CallsInv, Onward, NEW c \in Calls,
         pc'[c] = pc[c], request'[c] = request[c], answer'[c] = answer[c]
  PROVE  CallInv(c)'
<1>1. CallInv(c)
  BY DEF CallsInv
<1>2. Earlier(c, TRUE) = {} => Earlier(c, TRUE)' = {}
  BY DEF Earlier, Onward, MessagesKept
<1>3. pc[c] \in {"update", "publish", "emit", "ok"} =>
        /\ answer[c] \in DOMAIN messages'
        /\ messages'[answer[c]].from = request[c].from
        /\ messages'[answer[c]].key = request[c].key
        /\ messages'[answer[c]].body = request[c].body
  BY <1>1 DEF CallInv, Onward, MessagesKept
<1> QED
  BY <1>1, <1>2, <1>3 DEF CallInv, Onward

\* A step of a call is about that call only.
LEMMA OtherCalls ==
  ASSUME TypeOK, NEW c \in Calls, CallStep(c), NEW d \in Calls, d # c
  PROVE  pc'[d] = pc[d] /\ request'[d] = request[d] /\ answer'[d] = answer[d]
<1>1. CASE \/ Send(c) \/ LookUp(c) \/ Ensure(c) \/ CreateConversation(c)
           \/ Invalidate(c) \/ Publish(c)
  BY <1>1 DEF Send, LookUp, Ensure, CreateConversation, Invalidate, Publish, TypeOK
<1>2. CASE Find(c) \/ InsertDuplicate(c)
  <2>1. request' = request /\ \E how, id : Ends(c, how, id)
    BY <1>2 DEF Find, InsertDuplicate, Repeats
  <2> QED
    BY <2>1 DEF Ends, TypeOK
<1>3. CASE Commit(c) \/ InsertMessage(c) \/ UpdateConversation(c) \/ LoseCall(c)
  <2>1. request' = request /\ \E how, id : Ends(c, how, id)
    BY <1>3 DEF Commit, InsertMessage, UpdateConversation, LoseCall
  <2> QED
    BY <2>1 DEF Ends, TypeOK
<1> QED
  BY <1>1, <1>2, <1>3 DEF CallStep

\* The message a call repeats is its own.
LEMMA RepeatsOwn ==
  ASSUME TypeOK, CallsInv, NEW c \in Calls, pc[c] \in {"find", "insert"},
         NEW b, NEW i \in Earlier(c, b), Repeats(c, i),
         UNCHANGED <<messages, request>>
  PROVE  CallInv(c)'
<1>1. request[c] \in Requests
  BY DEF CallsInv, CallInv
<1>2. /\ i \in DOMAIN messages /\ messages[i].from = request[c].from
      /\ messages[i].key = request[c].key
  BY DEF Earlier
<1>3. CASE SameBody(c, i)
  <2>1. pc'[c] = "publish" /\ answer'[c] = i
    BY <1>3 DEF Repeats, Ends, TypeOK
  <2> QED
    BY <1>1, <1>2, <1>3, <2>1 DEF CallInv, SameBody
<1>4. CASE ~ SameBody(c, i)
  <2>1. pc'[c] = "error"
    BY <1>4 DEF Repeats, Ends, TypeOK
  <2> QED
    BY <1>1, <2>1 DEF CallInv
<1> QED
  BY <1>3, <1>4

\* A call that failed knows its input only.
LEMMA FailedCall ==
  ASSUME CallsInv, NEW c \in Calls, pc[c] # "idle", pc'[c] = "error",
         request' = request
  PROVE  CallInv(c)'
BY DEF CallsInv, CallInv

LEMMA OwnStep ==
  ASSUME TypeOK, CallsInv, NoneInv, Onward, NEW c \in Calls, CallStep(c)
  PROVE  CallInv(c)'
<1>0. CallInv(c) /\ c \in DOMAIN pc /\ c \in DOMAIN answer /\ c \in DOMAIN request
  BY DEF CallsInv, TypeOK
<1>1. CASE Send(c)
  <2>1. PICK r \in Requests :
          /\ request' = [request EXCEPT ![c] = r]
          /\ pc' = [pc EXCEPT ![c] = IF r.from = Customer THEN "find" ELSE "lookup"]
    BY <1>1 DEF Send
  <2>2. /\ request'[c] \in Requests
        /\ pc'[c] = IF request'[c].from = Customer THEN "find" ELSE "lookup"
    BY <1>0, <2>1
  <2> QED
    BY <2>2 DEF CallInv
<1>2. CASE LookUp(c)
  <2>1. pc'[c] = IF conversation.status \in {"none", "closed"} THEN "error" ELSE "find"
    BY <1>0, <1>2 DEF LookUp
  <2> QED
    BY <1>0, <1>2, <2>1 DEF LookUp, CallInv
<1>3. CASE Find(c)
  <2>1. CASE \E b \in BOOLEAN : \E i \in Earlier(c, b) : Repeats(c, i)
    BY <1>3, <2>1, RepeatsOwn DEF Find
  <2>2. CASE /\ Earlier(c, TRUE) = {}
             /\ Ends(c, IF request[c].from = Customer THEN "ensure" ELSE "insert", 0)
    <3>1. pc'[c] = IF request[c].from = Customer THEN "ensure" ELSE "insert"
      BY <1>0, <2>2 DEF Ends
    <3>2. Earlier(c, TRUE)' = {}
      BY <1>3, <2>2 DEF Find, Earlier
    <3> QED
      BY <1>0, <1>3, <3>1, <3>2 DEF Find, CallInv
  <2> QED
    BY <1>3, <2>1, <2>2 DEF Find
<1>4. CASE Ensure(c)
  <2>1. pc'[c] = IF conversation.status = "none" THEN "create"
                 ELSE IF Closed THEN "error" ELSE "insert"
    BY <1>0, <1>4 DEF Ensure
  <2>2. Earlier(c, TRUE)' = {}
    BY <1>0, <1>4 DEF Ensure, Earlier, CallInv
  <2> QED
    BY <1>0, <1>4, <2>1, <2>2 DEF Ensure, CallInv
<1>5. CASE CreateConversation(c)
  <2>1. pc'[c] = IF Closed THEN "error" ELSE "insert"
    BY <1>0, <1>5 DEF CreateConversation
  <2>2. Earlier(c, TRUE)' = {}
    BY <1>0, <1>5 DEF CreateConversation, Earlier, CallInv
  <2>3. conversation'.status # "none"
    BY <1>5 DEF CreateConversation, NoConversation
  <2> QED
    BY <1>0, <1>5, <2>1, <2>2, <2>3 DEF CreateConversation, CallInv
<1>6. CASE InsertDuplicate(c)
  BY <1>6, RepeatsOwn DEF InsertDuplicate
<1>7. CASE Commit(c)
  <2>1. request[c] \in Requests /\ request' = request
    BY <1>0, <1>7 DEF Commit, CallInv
  <2>2. CASE TakesMessages
    <3>1. PICK id \in Ids \ DOMAIN messages :
            messages' = WithMessage(c, id) /\ Ends(c, "publish", id)
      BY <1>7, <2>2 DEF Commit
    <3>2. pc'[c] = "publish" /\ answer'[c] = id
      BY <1>0, <3>1 DEF Ends
    <3>3. id \in DOMAIN messages' /\ messages'[id] = Stored(request[c], FALSE)
      BY <2>1, <3>1, InsertedMessages
    <3> QED
      BY <2>1, <3>2, <3>3 DEF CallInv, Stored
  <2>3. CASE ~ TakesMessages
    <3>1. pc'[c] = "error"
      BY <1>0, <1>7, <2>3 DEF Commit, Ends
    <3> QED
      BY <1>7, <2>1, <3>1, FailedCall DEF Commit
  <2> QED
    BY <2>2, <2>3
<1>8. CASE InsertMessage(c)
  <2>1. request[c] \in Requests /\ request' = request /\ conversation' = conversation
    BY <1>0, <1>8 DEF InsertMessage, CallInv
  <2>2. PICK id \in Ids \ DOMAIN messages :
          messages' = WithMessage(c, id) /\ Ends(c, "update", id)
    BY <1>8 DEF InsertMessage
  <2>3. pc'[c] = "update" /\ answer'[c] = id
    BY <1>0, <2>2 DEF Ends
  <2>4. id \in DOMAIN messages' /\ messages'[id] = Stored(request[c], FALSE)
    BY <2>1, <2>2, InsertedMessages
  <2>5. ~ transactions' /\ conversation'.status # "none"
    BY <1>0, <1>8, <2>1 DEF InsertMessage, CallInv
  <2> QED
    BY <2>1, <2>3, <2>4, <2>5 DEF CallInv, Stored
<1>9. CASE UpdateConversation(c)
  <2>1. CASE TakesMessages
    <3>1. pc'[c] = "publish" /\ answer'[c] = answer[c]
      BY <1>0, <1>9, <2>1 DEF UpdateConversation, Ends
    <3> QED
      BY <1>0, <1>9, <3>1 DEF UpdateConversation, CallInv
  <2>2. CASE ~ TakesMessages
    <3>1. pc'[c] = "error"
      BY <1>0, <1>9, <2>2 DEF UpdateConversation, Ends
    <3> QED
      BY <1>9, <3>1, FailedCall DEF UpdateConversation
  <2> QED
    BY <2>1, <2>2
<1>10. CASE Publish(c)
  <2>1. pc'[c] = "ok"
    BY <1>0, <1>10 DEF Publish
  <2> QED
    BY <1>0, <1>10, <2>1 DEF Publish, CallInv
<1>11. CASE LoseCall(c)
  <2>1. pc'[c] = "error"
    BY <1>0, <1>11 DEF LoseCall, Ends
  <2> QED
    BY <1>11, <2>1, FailedCall DEF LoseCall
<1>12. CASE Invalidate(c)
  <2>1. pc'[c] = "emit"
    BY <1>0, <1>12 DEF Invalidate
  <2> QED
    BY <1>0, <1>12, <2>1 DEF Invalidate, CallInv
<1> QED
  BY <1>1, <1>2, <1>3, <1>4, <1>5, <1>6, <1>7, <1>8, <1>9, <1>10, <1>11, <1>12
  DEF CallStep

\* Steps of the readers, the device and the store's system move no call.
LEMMA OtherSteps ==
  ASSUME Next, \A c \in Calls : ~ CallStep(c)
  PROVE  UNCHANGED callVars
BY DEF Next, ReadStep, StartRead, MarkRead, CountRead, AnnounceRead, LoseReader, Connect,
   Synchronize,
   BecomeReady, Disconnect, CloseConversation, callVars

LEMMA CallsStep ==
  ASSUME TypeOK, CallsInv, NoneInv, Next
  PROVE  CallsInv'
<1>1. Onward
  BY OnwardStep
<1>2. ASSUME NEW c \in Calls, CallStep(c)
      PROVE  CallsInv'
  BY <1>1, <1>2, OwnStep, OtherCalls, CallFrame DEF CallsInv
<1>3. CASE \A c \in Calls : ~ CallStep(c)
  BY <1>1, <1>3, OtherSteps, CallFrame DEF CallsInv, callVars
<1> QED
  BY <1>2, <1>3
-----------------------------------------------------------------------------
(* Messages are not repeated, readers, and the device *)

\* The steps that change what messages there are, or what they say.
LEMMA KeysFrame ==
  ASSUME KeysInv, MessagesKept, DOMAIN messages' = DOMAIN messages
  PROVE  KeysInv'
BY DEF KeysInv, MessagesKept

LEMMA KeysInserted ==
  ASSUME TypeOK, CallsInv, KeysInv, NEW c \in Calls, pc[c] = "insert", ~ Duplicate(c),
         NEW id \in Ids \ DOMAIN messages, messages' = WithMessage(c, id)
  PROVE  KeysInv'
<1>1. request[c] \in Requests /\ Earlier(c, TRUE) = {} /\ Earlier(c, FALSE) = {}
  BY DEF CallsInv, CallInv, Duplicate
<1>2. /\ DOMAIN messages' = DOMAIN messages \cup {id}
      /\ messages'[id] = Stored(request[c], FALSE)
      /\ \A i \in DOMAIN messages : messages'[i] = messages[i] /\ i # id
  BY <1>1, InsertedMessages
<1>3. messages'[id].from = request[c].from /\ messages'[id].key = request[c].key
  BY <1>2 DEF Stored
<1>4. ASSUME NEW i \in DOMAIN messages, request[c].key # NoKey
      PROVE  messages[i].from # request[c].from \/ messages[i].key # request[c].key
  <2>1. messages[i].legacy = TRUE \/ messages[i].legacy = FALSE
    BY MessageFields DEF Message
  <2> QED
    BY <1>1, <1>4, <2>1 DEF Earlier
<1>5. ASSUME NEW i \in DOMAIN messages', NEW j \in DOMAIN messages',
             messages'[i].key # NoKey, messages'[i].key = messages'[j].key,
             messages'[i].from = messages'[j].from
      PROVE  i = j
  <2>1. CASE i \in DOMAIN messages /\ j \in DOMAIN messages
    <3>1. messages'[i] = messages[i] /\ messages'[j] = messages[j]
      BY <1>2, <2>1
    <3> QED
      BY <1>5, <2>1, <3>1 DEF KeysInv
  <2>2. CASE i = id /\ j \in DOMAIN messages
    <3>1. messages'[j] = messages[j]
      BY <1>2, <2>2
    <3> QED
      BY <1>3, <1>4, <1>5, <2>2, <3>1
  <2>3. CASE i \in DOMAIN messages /\ j = id
    <3>1. messages'[i] = messages[i]
      BY <1>2, <2>3
    <3> QED
      BY <1>3, <1>4, <1>5, <2>3, <3>1
  <2> QED
    BY <1>2, <2>1, <2>2, <2>3
<1> QED
  BY <1>5 DEF KeysInv

LEMMA KeysStep ==
  ASSUME TypeOK, CallsInv, KeysInv, Next, Onward
  PROVE  KeysInv'
<1>1. ASSUME NEW c \in Calls, Commit(c) PROVE KeysInv'
  <2>1. CASE TakesMessages
    BY <1>1, <2>1, KeysInserted DEF Commit
  <2>2. CASE ~ TakesMessages
    BY <1>1, <2>2, KeysFrame DEF Commit, Onward
  <2> QED
    BY <2>1, <2>2
<1>2. ASSUME NEW c \in Calls, InsertMessage(c) PROVE KeysInv'
  BY <1>2, KeysInserted DEF InsertMessage
<1>3. ASSUME NEW r \in Readers, MarkRead(r) PROVE KeysInv'
  BY <1>3, MarkedMessages, KeysFrame DEF MarkRead
<1>4. ASSUME NEW c \in Calls, CallStep(c), ~ Commit(c), ~ InsertMessage(c) PROVE KeysInv'
  <2>1. UNCHANGED messages
    BY <1>4 DEF CallStep, Send, LookUp, Find, Ensure, CreateConversation, InsertDuplicate,
       UpdateConversation, Invalidate, Publish, LoseCall
  <2> QED
    BY <2>1, KeysFrame DEF Onward
<1>5. ASSUME NEW r \in Readers,
             StartRead(r) \/ CountRead(r) \/ AnnounceRead(r) \/ LoseReader(r)
      PROVE  KeysInv'
  BY <1>5, KeysFrame DEF StartRead, CountRead, AnnounceRead, LoseReader, Onward
<1>6. CASE Connect \/ Synchronize \/ BecomeReady \/ Disconnect \/ CloseConversation
  BY <1>6, KeysFrame
  DEF Connect, Synchronize, BecomeReady, Disconnect, CloseConversation, Onward
<1> QED
  BY <1>1, <1>2, <1>3, <1>4, <1>5, <1>6 DEF Next, ReadStep

LEMMA ReadersStep ==
  ASSUME TypeOK, ReadersInv, Next, Onward
  PROVE  ReadersInv'
<1>1. transactions' = transactions
  BY DEF Onward
<1>2. ASSUME NEW r \in Readers, ReadStep(r) PROVE ReadersInv'
  <2>1. \A q \in Readers \ {r} : reading'[q] = reading[q]
    BY <1>2 DEF ReadStep, StartRead, MarkRead, CountRead, AnnounceRead, LoseReader, TypeOK
  <2>2. reading'[r] = "count" => ~ transactions
    BY <1>2 DEF ReadStep, StartRead, MarkRead, CountRead, AnnounceRead, LoseReader, TypeOK
  <2> QED
    BY <1>1, <2>1, <2>2 DEF ReadersInv
<1>3. ASSUME NEW c \in Calls, CallStep(c) PROVE ReadersInv'
  <2>1. UNCHANGED readVars
    BY <1>3 DEF CallStep, Send, LookUp, Find, Ensure, CreateConversation, InsertDuplicate,
       Commit, InsertMessage, UpdateConversation, Invalidate, Publish, LoseCall
  <2> QED
    BY <1>1, <2>1 DEF ReadersInv, readVars
<1>4. CASE Connect \/ Synchronize \/ BecomeReady \/ Disconnect \/ CloseConversation
  <2>1. UNCHANGED readVars
    BY <1>4 DEF Connect, Synchronize, BecomeReady, Disconnect, CloseConversation
  <2> QED
    BY <1>1, <2>1 DEF ReadersInv, readVars
<1> QED
  BY <1>2, <1>3, <1>4 DEF Next

LEMMA NoneStep ==
  ASSUME TypeOK, CallsInv, NoneInv, Next, Onward
  PROVE  NoneInv'
<1> SUFFICES ASSUME conversation'.status = "none", conversation.status = "none"
             PROVE  conversation' = conversation
  BY DEF NoneInv, Onward, NoConversation
<1>1. ASSUME NEW c \in Calls, CallStep(c) PROVE conversation' = conversation
  <2>1. pc[c] \notin {"insert", "update"}
    BY DEF CallsInv, CallInv
  <2>2. CASE CreateConversation(c)
    BY <2>2 DEF CreateConversation, NoConversation
  <2> QED
    BY <1>1, <2>1, <2>2 DEF CallStep, Send, LookUp, Find, Ensure, InsertDuplicate, Commit,
       InsertMessage, UpdateConversation, Invalidate, Publish, LoseCall
<1>2. ASSUME NEW who, NEW n \in Nat, conversation' = Counted(who, n)
      PROVE  conversation' = conversation
  <2>1. conversation = NoConversation
    BY DEF NoneInv
  <2>2. Less(0, n) = 0
    BY <1>2 DEF Less
  <2> QED
    BY <1>2, <2>1, <2>2 DEF Counted, NoConversation
<1>3. ASSUME NEW r \in Readers, ReadStep(r) PROVE conversation' = conversation
  <2>1. modified[r] \in Nat /\ Cardinality(Unread(side[r])) \in Nat
    BY UnreadFinite DEF TypeOK
  <2> QED
    BY <1>2, <1>3, <2>1 DEF ReadStep, StartRead, MarkRead, CountRead, AnnounceRead,
       LoseReader
<1>4. CASE Connect \/ Synchronize \/ BecomeReady \/ Disconnect \/ CloseConversation
  BY <1>4 DEF Connect, Synchronize, BecomeReady, Disconnect, CloseConversation
<1> QED
  BY <1>1, <1>3, <1>4 DEF Next

\* Only an invalidation, swallowed or not, leads to the emission and the answer.
LEMMA NotYetEmitted ==
  ASSUME TypeOK, NEW c \in Calls, CallStep(c), ~ Invalidate(c), ~ Publish(c)
  PROVE  pc'[c] \notin {"emit", "ok"}
<1>1. CASE Send(c) \/ LookUp(c) \/ Ensure(c) \/ CreateConversation(c)
  BY <1>1 DEF Send, LookUp, Ensure, CreateConversation, TypeOK
<1>2. CASE Find(c) \/ InsertDuplicate(c)
  <2>1. ASSUME NEW i, Repeats(c, i)
        PROVE  Ends(c, "publish", i) \/ Ends(c, "error", 0)
    BY <2>1 DEF Repeats
  <2>2. \/ \E i : Ends(c, "publish", i)
        \/ Ends(c, "error", 0)
        \/ Ends(c, "ensure", 0) \/ Ends(c, "insert", 0)
    BY <1>2, <2>1 DEF Find, InsertDuplicate
  <2> QED
    BY <2>2 DEF Ends, TypeOK
<1>3. CASE Commit(c) \/ InsertMessage(c) \/ UpdateConversation(c) \/ LoseCall(c)
  <2>1. \E how, id : Ends(c, how, id) /\ how \notin {"emit", "ok"}
    BY <1>3 DEF Commit, InsertMessage, UpdateConversation, LoseCall
  <2> QED
    BY <2>1 DEF Ends, TypeOK
<1> QED
  BY <1>1, <1>2, <1>3 DEF CallStep

\* No step makes the cache miss again what was emitted.
LEMMA LagStep ==
  ASSUME TypeOK, CallsInv, LagInv, Next
  PROVE  LagInv'
<1>0. \A d \in Calls : pc[d] \in {"emit", "ok"} => answer[d] \in DOMAIN messages
  BY DEF CallsInv, CallInv
<1>1. ASSUME NEW c \in Calls, Invalidate(c) PROVE LagInv'
  <2>1. Bump({answer[c]}) /\ answer' = answer /\ pc' = [pc EXCEPT ![c] = "emit"]
    BY <1>1 DEF Invalidate
  <2>2. \A d \in Calls : d # c => pc'[d] = pc[d]
    BY <2>1 DEF TypeOK
  <2>3. \A d \in Calls :
          pc'[d] \in {"emit", "ok"} =>
            \/ d = c
            \/ answer[d] \notin lag \/ answer[d] \in swallowed
    BY <2>2 DEF LagInv
  <2>4. \A d \in Calls :
          pc'[d] \in {"emit", "ok"} => answer[d] \notin lag' \/ answer[d] \in swallowed'
    BY <2>1, <2>3, BumpFacts
  <2> QED
    BY <2>1, <2>4 DEF LagInv
<1>2. ASSUME NEW c \in Calls, Publish(c) PROVE LagInv'
  <2>1. /\ UNCHANGED <<answer, lag, swallowed>> /\ pc[c] = "emit"
        /\ pc' = [pc EXCEPT ![c] = "ok"]
    BY <1>2 DEF Publish, cacheVars
  <2>2. \A d \in Calls : pc'[d] \in {"emit", "ok"} => pc[d] \in {"emit", "ok"}
    BY <2>1 DEF TypeOK
  <2> QED
    BY <2>1, <2>2 DEF LagInv
<1>3. ASSUME NEW c \in Calls, CallStep(c), ~ Invalidate(c), ~ Publish(c)
      PROVE  LagInv'
  <2>1. swallowed' = swallowed /\ \A i \in lag' : i \in lag \/ i \notin DOMAIN messages
    BY <1>3 DEF CallStep, Send, LookUp, Find, Ensure, CreateConversation, InsertDuplicate,
       Commit, InsertMessage, UpdateConversation, LoseCall, cacheVars
  <2>2. \A d \in Calls \ {c} : pc'[d] = pc[d] /\ answer'[d] = answer[d]
    BY <1>3, OtherCalls
  <2>3. pc'[c] \notin {"emit", "ok"}
    BY <1>3, NotYetEmitted
  <2> QED
    BY <1>0, <2>1, <2>2, <2>3 DEF LagInv
<1>4. ASSUME NEW r \in Readers, AnnounceRead(r) PROVE LagInv'
  <2>1. Bump({}) /\ UNCHANGED callVars
    BY <1>4 DEF AnnounceRead
  <2> QED
    BY <2>1, BumpFacts DEF LagInv, callVars
<1>5. ASSUME \/ Connect \/ Synchronize \/ BecomeReady \/ Disconnect \/ CloseConversation
             \/ \E r \in Readers : ReadStep(r) /\ ~ AnnounceRead(r)
      PROVE  LagInv'
  <2>1. UNCHANGED <<callVars, cacheVars>>
    BY <1>5 DEF Connect, Synchronize, BecomeReady, Disconnect, CloseConversation,
       ReadStep, StartRead, MarkRead, CountRead, LoseReader
  <2> QED
    BY <2>1 DEF LagInv, callVars, cacheVars
<1> QED
  BY <1>1, <1>2, <1>3, <1>4, <1>5 DEF Next

LEMMA DeviceStep ==
  ASSUME TypeOK, CallsInv, LagInv, DeviceInv, Next
  PROVE  DeviceInv'
<1>1. ASSUME NEW c \in Calls, Publish(c) PROVE DeviceInv'
  <2>1. /\ device' = device /\ answer' = answer
        /\ pc' = [pc EXCEPT ![c] = "ok"]
    BY <1>1 DEF Publish
  <2>2. /\ device' \in {"synchronized", "ready"} => seen' = seen \cup {answer[c]}
        /\ hidden' = hidden
    BY <1>1, <2>1 DEF Publish, InRoom
  <2>3. \A d \in Calls : pc'[d] = "ok" => d = c \/ pc[d] = "ok"
    BY <2>1 DEF TypeOK
  <2> QED
    BY <2>1, <2>2, <2>3 DEF DeviceInv
<1>2. ASSUME NEW c \in Calls, CallStep(c), ~ Publish(c) PROVE DeviceInv'
  <2>1. UNCHANGED deviceVars
    BY <1>2 DEF CallStep, Send, LookUp, Find, Ensure, CreateConversation, InsertDuplicate,
       Commit, InsertMessage, UpdateConversation, Invalidate, LoseCall
  <2>2. ASSUME NEW d \in Calls, pc'[d] = "ok"
        PROVE  pc[d] = "ok" /\ answer'[d] = answer[d]
    <3>1. CASE d # c
      BY <1>2, <2>2, <3>1, OtherCalls
    <3>2. CASE d = c
      <4>1. pc'[c] # "ok"
        BY <1>2, NotYetEmitted DEF Invalidate, TypeOK
      <4> QED
        BY <2>2, <3>2, <4>1
    <3> QED
      BY <3>1, <3>2
  <2> QED
    BY <2>1, <2>2 DEF DeviceInv, deviceVars, cacheVars
<1>3. CASE Synchronize
  <2>1. \A c \in Calls : pc[c] = "ok" => answer[c] \in DOMAIN messages
    BY DEF CallsInv, CallInv
  <2>2. PICK missed \in SUBSET lag :
          /\ seen' = seen \cup (DOMAIN messages \ missed)
          /\ hidden' = missed \cap swallowed
    BY <1>3 DEF Synchronize
  <2>3. \A c \in Calls : pc[c] = "ok" => answer[c] \notin lag \/ answer[c] \in swallowed
    BY DEF LagInv
  <2>4. \A c \in Calls : pc[c] = "ok" => answer[c] \in seen' \cup hidden'
    BY <2>1, <2>2, <2>3
  <2> QED
    BY <1>3, <2>4 DEF Synchronize, DeviceInv, callVars
<1>4. CASE Connect \/ BecomeReady \/ Disconnect
  BY <1>4 DEF Connect, BecomeReady, Disconnect, DeviceInv, callVars
<1>5. ASSUME CloseConversation \/ \E r \in Readers : ReadStep(r)
      PROVE  DeviceInv'
  <2>1. UNCHANGED <<callVars, deviceVars>>
    BY <1>5 DEF CloseConversation, ReadStep, StartRead, MarkRead, CountRead,
       AnnounceRead, LoseReader
  <2> QED
    BY <2>1 DEF DeviceInv, callVars, deviceVars, cacheVars
<1> QED
  BY <1>1, <1>2, <1>3, <1>4, <1>5 DEF Next
-----------------------------------------------------------------------------
(* The newest message *)

\* While nothing was lost or refused between the two writes of a call.
Sound == transactions \/ (faults = 0 /\ ~ Closed)

\* The first part: the message shown is there, and its sender is right.
LastIsThere ==
  conversation.last # 0 =>
    /\ conversation.last \in DOMAIN messages
    /\ conversation.last_from = messages[conversation.last].from

AllReached == Sound => \A i \in DOMAIN messages : Reached(i)

LEMMA LastParts == LastInv <=> LastIsThere /\ AllReached
BY DEF LastInv, LastIsThere, AllReached, Sound

LEMMA StillSound ==
  ASSUME TypeOK, Onward, faults' \in Nat, Sound'
  PROVE  Sound
BY NumberTypes DEF Sound, Onward

LEMMA ThereFrame ==
  ASSUME LastIsThere, MessagesKept, conversation'.last = conversation.last,
         conversation'.last_from = conversation.last_from
  PROVE  LastIsThere'
BY DEF LastIsThere, MessagesKept

LEMMA ThereUpdated ==
  ASSUME TypeOK, LastIsThere, MessagesKept, NEW r \in Requests, NEW id \in Ids,
         conversation' = Updated(r, id), id \in DOMAIN messages',
         messages'[id].from = r.from
  PROVE  LastIsThere'
<1>1. /\ conversation'.last = IF conversation.last < id THEN id ELSE conversation.last
      /\ conversation'.last_from =
           IF conversation.last < id THEN r.from ELSE conversation.last_from
  BY UpdatedFields
<1> QED
  BY <1>1 DEF LastIsThere, MessagesKept

LEMMA ThereStep ==
  ASSUME TypeOK, CallsInv, NoneInv, LastIsThere, Next, Onward
  PROVE  LastIsThere'
<1>0. MessagesKept
  BY DEF Onward
<1>1. ASSUME NEW c \in Calls, Commit(c) PROVE LastIsThere'
  <2>1. request[c] \in Requests
    BY <1>1 DEF Commit, CallsInv, CallInv
  <2>2. CASE TakesMessages
    <3>1. PICK id \in Ids \ DOMAIN messages :
            messages' = WithMessage(c, id) /\ conversation' = Updated(request[c], id)
      BY <1>1, <2>2 DEF Commit
    <3>2. id \in DOMAIN messages' /\ messages'[id] = Stored(request[c], FALSE)
      BY <2>1, <3>1, InsertedMessages
    <3>3. messages'[id].from = request[c].from
      BY <3>2 DEF Stored
    <3> QED
      BY <1>0, <2>1, <3>1, <3>2, <3>3, ThereUpdated
  <2>3. CASE ~ TakesMessages
    BY <1>0, <1>1, <2>3, ThereFrame DEF Commit
  <2> QED
    BY <2>2, <2>3
<1>2. ASSUME NEW c \in Calls, UpdateConversation(c) PROVE LastIsThere'
  <2>1. /\ request[c] \in Requests /\ answer[c] \in DOMAIN messages
        /\ messages[answer[c]].from = request[c].from
    BY <1>2 DEF UpdateConversation, CallsInv, CallInv
  <2>2. answer[c] \in Ids
    BY <2>1, MessageFields
  <2>3. CASE TakesMessages
    <3>1. conversation' = Updated(request[c], answer[c]) /\ messages' = messages
      BY <1>2, <2>3 DEF UpdateConversation
    <3> QED
      BY <1>0, <2>1, <2>2, <3>1, ThereUpdated
  <2>4. CASE ~ TakesMessages
    BY <1>0, <1>2, <2>4, ThereFrame DEF UpdateConversation
  <2> QED
    BY <2>3, <2>4
<1>3. ASSUME NEW c \in Calls, CreateConversation(c) PROVE LastIsThere'
  <2>1. /\ conversation'.last = conversation.last
        /\ conversation'.last_from = conversation.last_from
    BY <1>3 DEF CreateConversation, NoneInv, NoConversation
  <2> QED
    BY <1>0, <2>1, ThereFrame
<1>4. ASSUME NEW c \in Calls, CallStep(c), ~ Commit(c), ~ UpdateConversation(c),
             ~ CreateConversation(c)
      PROVE  LastIsThere'
  <2>1. UNCHANGED conversation
    BY <1>4 DEF CallStep, Send, LookUp, Find, Ensure, InsertDuplicate, InsertMessage,
       Invalidate, Publish, LoseCall
  <2> QED
    BY <1>0, <2>1, ThereFrame
<1>5. ASSUME NEW r \in Readers, ReadStep(r) PROVE LastIsThere'
  <2>1. conversation' = conversation \/ \E who, n : conversation' = Counted(who, n)
    BY <1>5 DEF ReadStep, StartRead, MarkRead, CountRead, AnnounceRead, LoseReader
  <2>2. /\ conversation'.last = conversation.last
        /\ conversation'.last_from = conversation.last_from
    BY <2>1, CountedFields
  <2> QED
    BY <1>0, <2>2, ThereFrame
<1>6. CASE Connect \/ Synchronize \/ BecomeReady \/ Disconnect \/ CloseConversation
  <2>1. /\ conversation'.last = conversation.last
        /\ conversation'.last_from = conversation.last_from
    BY <1>6 DEF Connect, Synchronize, BecomeReady, Disconnect, CloseConversation, TypeOK
  <2> QED
    BY <1>0, <2>1, ThereFrame
<1> QED
  BY <1>1, <1>2, <1>3, <1>4, <1>5, <1>6 DEF Next

\* Nothing is inserted and the calls that are between their writes stay there.
LEMMA ReachedFrame ==
  ASSUME TypeOK, TypeOK', AllReached, Onward, DOMAIN messages' = DOMAIN messages,
         \A c \in Calls : pc[c] = "update" => pc'[c] = "update" /\ answer'[c] = answer[c]
  PROVE  AllReached'
<1> SUFFICES ASSUME Sound', NEW i \in DOMAIN messages PROVE Reached(i)'
  BY DEF AllReached
<1>1. faults' \in Nat
  BY EcommerceAssumption DEF TypeOK, EcommerceAssumption
<1>2. Reached(i)
  BY <1>1, StillSound DEF AllReached
<1>3. /\ i \in Nat /\ conversation.last \in Nat /\ conversation'.last \in Nat
      /\ conversation.last <= conversation'.last
  <2>1. Ids \cup {0} \subseteq Nat
    BY EcommerceAssumption DEF Ids, EcommerceAssumption
  <2> QED
    BY <2>1, MessageFields DEF TypeOK, Onward
<1> QED
  BY <1>2, <1>3 DEF Reached

LEMMA ReachedStep ==
  ASSUME TypeOK, TypeOK', CallsInv, AllReached, Next, Onward
  PROVE  AllReached'
<1>0. /\ Ids \cup {0} \subseteq Nat /\ conversation.last \in Nat
      /\ conversation'.last \in Nat /\ conversation.last <= conversation'.last
  <2>1. Ids \cup {0} \subseteq Nat
    BY EcommerceAssumption DEF Ids, EcommerceAssumption
  <2> QED
    BY <2>1 DEF TypeOK, Onward
<1>1. faults' \in Nat /\ (Sound' => Sound)
  <2>1. faults' \in Nat
    BY EcommerceAssumption DEF TypeOK, EcommerceAssumption
  <2> QED
    BY <2>1, StillSound
<1>2. ASSUME NEW c \in Calls, Commit(c), TakesMessages PROVE AllReached'
  <2>1. request[c] \in Requests /\ transactions
    BY <1>2 DEF Commit, CallsInv, CallInv
  <2>2. PICK id \in Ids \ DOMAIN messages :
          messages' = WithMessage(c, id) /\ conversation' = Updated(request[c], id)
    BY <1>2 DEF Commit
  <2>3. DOMAIN messages' = DOMAIN messages \cup {id}
    BY <2>1, <2>2, InsertedMessages
  <2>4. conversation'.last = IF conversation.last < id THEN id ELSE conversation.last
    BY <2>1, <2>2, UpdatedFields
  <2>5. id \in Nat /\ id <= conversation'.last
    BY <1>0, <2>4
  <2>6. \A i \in DOMAIN messages : i \in Nat /\ i <= conversation.last
    <3>1. \A d \in Calls : pc[d] # "update"
      BY <2>1 DEF CallsInv, CallInv
    <3>2. Sound
      BY <2>1 DEF Sound
    <3> QED
      BY <3>1, <3>2, MessageFields DEF AllReached, Reached
  <2>7. \A i \in DOMAIN messages' : i <= conversation'.last
    BY <1>0, <2>3, <2>5, <2>6
  <2> QED
    BY <2>7 DEF AllReached, Reached
<1>3. ASSUME NEW c \in Calls, InsertMessage(c) PROVE AllReached'
  <2>1. request[c] \in Requests /\ conversation' = conversation
    BY <1>3 DEF InsertMessage, CallsInv, CallInv
  <2>2. PICK id \in Ids \ DOMAIN messages :
          messages' = WithMessage(c, id) /\ Ends(c, "update", id)
    BY <1>3 DEF InsertMessage
  <2>3. DOMAIN messages' = DOMAIN messages \cup {id}
    BY <2>1, <2>2, InsertedMessages
  <2>4. pc'[c] = "update" /\ answer'[c] = id
    BY <2>2 DEF Ends, TypeOK
  <2>5. \A d \in Calls : pc[d] = "update" => pc'[d] = "update" /\ answer'[d] = answer[d]
    <3>1. pc[c] # "update"
      BY <1>3 DEF InsertMessage
    <3>2. \A d \in Calls \ {c} : pc'[d] = pc[d] /\ answer'[d] = answer[d]
      BY <2>2 DEF Ends, TypeOK
    <3> QED
      BY <3>1, <3>2
  <2>6. ASSUME Sound', NEW i \in DOMAIN messages PROVE Reached(i)'
    <3>1. Reached(i)
      BY <1>1, <2>6 DEF AllReached
    <3> QED
      BY <2>1, <2>5, <3>1 DEF Reached
  <2>7. Reached(id)'
    BY <2>4 DEF Reached
  <2> QED
    BY <2>3, <2>6, <2>7 DEF AllReached
<1>4. ASSUME NEW c \in Calls, UpdateConversation(c) PROVE AllReached'
  <2>1. /\ request[c] \in Requests /\ answer[c] \in Ids /\ ~ transactions
        /\ messages' = messages
    BY <1>4, MessageFields DEF UpdateConversation, CallsInv, CallInv
  <2>2. CASE TakesMessages
    <3>1. conversation' = Updated(request[c], answer[c]) /\ Ends(c, "publish", answer[c])
      BY <1>4, <2>2 DEF UpdateConversation
    <3>2. answer[c] <= conversation'.last
      <4>1. conversation'.last =
              IF conversation.last < answer[c] THEN answer[c] ELSE conversation.last
        BY <2>1, <3>1, UpdatedFields
      <4> QED
        BY <1>0, <2>1, <4>1
    <3>3. \A d \in Calls \ {c} : pc'[d] = pc[d] /\ answer'[d] = answer[d]
      BY <3>1 DEF Ends, TypeOK
    <3>4. ASSUME Sound', NEW i \in DOMAIN messages PROVE Reached(i)'
      <4>1. Reached(i) /\ i \in Nat
        BY <1>1, <3>4, MessageFields DEF AllReached
      <4>2. CASE i <= conversation.last
        BY <1>0, <4>1, <4>2 DEF Reached
      <4>3. ASSUME NEW d \in Calls, pc[d] = "update", answer[d] = i
            PROVE  Reached(i)'
        BY <3>2, <3>3, <4>3 DEF Reached
      <4> QED
        BY <4>1, <4>2, <4>3 DEF Reached
    <3> QED
      BY <2>1, <3>4 DEF AllReached
  <2>3. CASE ~ TakesMessages
    <3>1. ~ Sound'
      BY <1>1, <2>1, <2>3 DEF Sound, TakesMessages
    <3> QED
      BY <3>1 DEF AllReached
  <2> QED
    BY <2>2, <2>3
<1>5. ASSUME NEW c \in Calls, LoseCall(c) PROVE AllReached'
  <2>1. messages' = messages /\ conversation' = conversation /\ faults' = faults + 1
    BY <1>5 DEF LoseCall, Fault
  <2>2. CASE transactions
    <3>1. \A d \in Calls : pc[d] # "update"
      BY <2>2 DEF CallsInv, CallInv
    <3>2. \A i \in DOMAIN messages : i <= conversation.last
      BY <2>2, <3>1 DEF AllReached, Reached, Sound
    <3> QED
      BY <2>1, <3>2 DEF AllReached, Reached
  <2>3. CASE ~ transactions
    <3>1. ~ Sound'
      <4>1. faults' # 0
        BY <2>1, NumberTypes
      <4> QED
        BY <2>3, <4>1 DEF Sound, Onward
    <3> QED
      BY <3>1 DEF AllReached
  <2> QED
    BY <2>2, <2>3
<1>6. ASSUME NEW c \in Calls,
             \/ Commit(c) /\ ~ TakesMessages
             \/ /\ CallStep(c) /\ ~ Commit(c) /\ ~ InsertMessage(c)
                /\ ~ UpdateConversation(c) /\ ~ LoseCall(c)
      PROVE  AllReached'
  <2>1. messages' = messages
    BY <1>6 DEF Commit, CallStep, Send, LookUp, Find, Ensure, CreateConversation,
       InsertDuplicate, Invalidate, Publish
  <2>2. CallStep(c)
    BY <1>6 DEF CallStep
  <2>3. pc[c] # "update"
    BY <1>6 DEF Commit, CallStep, Send, LookUp, Find, Ensure, CreateConversation,
       InsertDuplicate, Invalidate, Publish
  <2> QED
    BY <2>1, <2>2, <2>3, OtherCalls, ReachedFrame
<1>7. ASSUME NEW r \in Readers, ReadStep(r) PROVE AllReached'
  <2>1. DOMAIN messages' = DOMAIN messages
    BY <1>7, MarkedMessages DEF ReadStep, StartRead, MarkRead, CountRead, AnnounceRead,
       LoseReader
  <2>2. UNCHANGED callVars
    BY <1>7 DEF ReadStep, StartRead, MarkRead, CountRead, AnnounceRead, LoseReader
  <2> QED
    BY <2>1, <2>2, ReachedFrame DEF callVars
<1>8. CASE Connect \/ Synchronize \/ BecomeReady \/ Disconnect \/ CloseConversation
  <2>1. messages' = messages /\ UNCHANGED callVars
    BY <1>8 DEF Connect, Synchronize, BecomeReady, Disconnect, CloseConversation
  <2> QED
    BY <2>1, ReachedFrame DEF callVars
<1> QED
  BY <1>2, <1>3, <1>4, <1>5, <1>6, <1>7, <1>8 DEF Next, CallStep
-----------------------------------------------------------------------------
(* The counters *)

LEMMA CountersFrame ==
  ASSUME CountersMatch, transactions' = transactions, messages' = messages,
         transactions =>
           /\ conversation'.unread_store = conversation.unread_store
           /\ conversation'.unread_customer = conversation.unread_customer
  PROVE  CountersMatch'
<1>1. Unread("store")' = Unread("store") /\ Unread("customer")' = Unread("customer")
  BY DEF Unread
<1> QED
  BY <1>1 DEF CountersMatch

LEMMA CountersCommitted ==
  ASSUME TypeOK, CountersMatch, transactions, transactions', NEW c \in Calls,
         request[c] \in Requests, NEW id \in Ids \ DOMAIN messages,
         messages' = WithMessage(c, id), conversation' = Updated(request[c], id)
  PROVE  CountersMatch'
<1>1. /\ DOMAIN messages' = DOMAIN messages \cup {id}
      /\ messages'[id] = Stored(request[c], FALSE)
      /\ \A i \in DOMAIN messages : messages'[i] = messages[i] /\ i # id
  BY InsertedMessages
<1>2. messages'[id].from = request[c].from /\ messages'[id].read = FALSE
  BY <1>1 DEF Stored
<1>3. /\ IsFiniteSet(Unread("store")) /\ Cardinality(Unread("store")) \in Nat
      /\ IsFiniteSet(Unread("customer")) /\ Cardinality(Unread("customer")) \in Nat
      /\ id \notin Unread("store") /\ id \notin Unread("customer")
  BY UnreadFinite DEF Unread
<1>4. /\ conversation'.unread_store =
           IF request[c].from = Customer THEN conversation.unread_store + 1
           ELSE conversation.unread_store
      /\ conversation'.unread_customer =
           IF request[c].from = Customer THEN conversation.unread_customer
           ELSE conversation.unread_customer + 1
  BY UpdatedFields
<1>5. CASE request[c].from = Customer
  <2>1. Unread("store")' = Unread("store") \cup {id}
    BY <1>1, <1>2, <1>5 DEF Unread
  <2>2. Unread("customer")' = Unread("customer")
    BY <1>1, <1>2, <1>5 DEF Unread
  <2>3. Cardinality(Unread("store") \cup {id}) = Cardinality(Unread("store")) + 1
    BY <1>3, FS_AddElement
  <2> QED
    BY <1>4, <1>5, <2>1, <2>2, <2>3 DEF CountersMatch
<1>6. CASE request[c].from # Customer
  <2>1. Unread("store")' = Unread("store")
    BY <1>1, <1>2, <1>6 DEF Unread
  <2>2. Unread("customer")' = Unread("customer") \cup {id}
    BY <1>1, <1>2, <1>6 DEF Unread
  <2>3. Cardinality(Unread("customer") \cup {id}) = Cardinality(Unread("customer")) + 1
    BY <1>3, FS_AddElement
  <2> QED
    BY <1>4, <1>6, <2>1, <2>2, <2>3 DEF CountersMatch
<1> QED
  BY <1>5, <1>6

LEMMA CountersRead ==
  ASSUME TypeOK, CountersMatch, NEW r \in Readers, MarkRead(r)
  PROVE  CountersMatch'
<1> SUFFICES ASSUME transactions, transactions'
             PROVE  CountersMatch'
  BY DEF MarkRead, CountersMatch
<1> DEFINE who == side[r]
           n == Cardinality(Unread(who))
<1>1. who \in {"store", "customer"} /\ n \in Nat
  BY UnreadFinite DEF TypeOK
<1>2. messages' = Marked(Unread(who)) /\ conversation' = Counted(who, n)
  BY DEF MarkRead
<1>3. /\ DOMAIN messages' = DOMAIN messages
      /\ \A i \in DOMAIN messages :
           /\ messages'[i].read = (messages[i].read \/ i \in Unread(who))
           /\ messages'[i].from = messages[i].from
           /\ messages[i].read \in BOOLEAN
  <2>1. /\ DOMAIN messages' = DOMAIN messages
        /\ \A i \in DOMAIN messages :
             messages'[i].read = (messages[i].read \/ i \in Unread(who))
        /\ MessagesKept
    BY <1>2, MarkedMessages
  <2>2. \A i \in DOMAIN messages : messages[i].read \in BOOLEAN
    BY MessageFields DEF Message
  <2> QED
    BY <2>1, <2>2 DEF MessagesKept
<1>4. Less(n, n) = 0
  BY <1>1 DEF Less
<1>5. CASE who = "store"
  <2>1. Unread("store")' = {}
    BY <1>3, <1>5 DEF Unread
  <2>2. Unread("customer")' = Unread("customer")
    BY <1>3, <1>5 DEF Unread
  <2>3. /\ conversation'.unread_store = Less(conversation.unread_store, n)
        /\ conversation'.unread_customer = conversation.unread_customer
    BY <1>2, <1>5, CountedFields
  <2>4. conversation.unread_store = n
    BY <1>5 DEF CountersMatch
  <2> QED
    BY <1>4, <2>1, <2>2, <2>3, <2>4, FS_EmptySet DEF CountersMatch
<1>6. CASE who = "customer"
  <2>1. Unread("customer")' = {}
    BY <1>3, <1>6 DEF Unread
  <2>2. Unread("store")' = Unread("store")
    BY <1>3, <1>6 DEF Unread
  <2>3. /\ conversation'.unread_customer = Less(conversation.unread_customer, n)
        /\ conversation'.unread_store = conversation.unread_store
    BY <1>2, <1>6, CountedFields
  <2>4. conversation.unread_customer = n
    BY <1>6 DEF CountersMatch
  <2> QED
    BY <1>4, <2>1, <2>2, <2>3, <2>4, FS_EmptySet DEF CountersMatch
<1> QED
  BY <1>1, <1>5, <1>6

LEMMA CountersStep ==
  ASSUME TypeOK, CallsInv, ReadersInv, NoneInv, CountersMatch, Next, Onward
  PROVE  CountersMatch'
<1>0. transactions' = transactions
  BY DEF Onward
<1>1. ASSUME NEW c \in Calls, Commit(c) PROVE CountersMatch'
  <2>1. request[c] \in Requests /\ transactions
    BY <1>1 DEF Commit, CallsInv, CallInv
  <2>2. CASE TakesMessages
    BY <1>0, <1>1, <2>1, <2>2, CountersCommitted DEF Commit
  <2>3. CASE ~ TakesMessages
    BY <1>0, <1>1, <2>3, CountersFrame DEF Commit
  <2> QED
    BY <2>2, <2>3
<1>2. ASSUME NEW c \in Calls, InsertMessage(c) \/ UpdateConversation(c)
      PROVE  CountersMatch'
  <2>1. ~ transactions
    BY <1>2 DEF InsertMessage, UpdateConversation, CallsInv, CallInv
  <2> QED
    BY <1>0, <2>1 DEF CountersMatch
<1>3. ASSUME NEW c \in Calls, CreateConversation(c) PROVE CountersMatch'
  <2>1. /\ conversation'.unread_store = conversation.unread_store
        /\ conversation'.unread_customer = conversation.unread_customer
    BY <1>3 DEF CreateConversation, NoneInv, NoConversation
  <2> QED
    BY <1>0, <1>3, <2>1, CountersFrame DEF CreateConversation
<1>4. ASSUME NEW c \in Calls, CallStep(c), ~ Commit(c), ~ InsertMessage(c),
             ~ UpdateConversation(c), ~ CreateConversation(c)
      PROVE  CountersMatch'
  <2>1. messages' = messages /\ conversation' = conversation
    BY <1>4 DEF CallStep, Send, LookUp, Find, Ensure, InsertDuplicate, Invalidate,
       Publish, LoseCall
  <2> QED
    BY <1>0, <2>1, CountersFrame
<1>5. ASSUME NEW r \in Readers, CountRead(r) PROVE CountersMatch'
  <2>1. ~ transactions
    BY <1>5 DEF CountRead, ReadersInv
  <2> QED
    BY <1>0, <2>1 DEF CountersMatch
<1>6. ASSUME NEW r \in Readers, StartRead(r) \/ AnnounceRead(r) \/ LoseReader(r)
      PROVE  CountersMatch'
  BY <1>0, <1>6, CountersFrame DEF StartRead, AnnounceRead, LoseReader
<1>7. ASSUME Connect \/ Synchronize \/ BecomeReady \/ Disconnect \/ CloseConversation
      PROVE  CountersMatch'
  <2>1. /\ messages' = messages
        /\ conversation'.unread_store = conversation.unread_store
        /\ conversation'.unread_customer = conversation.unread_customer
    BY <1>7
    DEF Connect, Synchronize, BecomeReady, Disconnect, CloseConversation, TypeOK
  <2> QED
    BY <1>0, <2>1, CountersFrame
<1> QED
  BY <1>1, <1>2, <1>3, <1>4, <1>5, <1>6, <1>7, CountersRead DEF Next, ReadStep

-----------------------------------------------------------------------------
(* The theorems *)

IInv ==
  TypeOK /\ CallsInv /\ KeysInv /\ ReadersInv /\ NoneInv /\ LagInv /\ DeviceInv
  /\ LastInv /\ CountersMatch

LEMMA InvariantStep ==
  ASSUME IInv, [Next]_vars
  PROVE  IInv'
<1>1. CASE Next
  <2>1. TypeOK' /\ CallsInv' /\ Onward
    BY <1>1, TypeStep, CallsStep, OnwardStep DEF IInv
  <2>2. KeysInv' /\ ReadersInv' /\ NoneInv' /\ LagInv' /\ DeviceInv' /\ CountersMatch'
    BY <1>1, <2>1, KeysStep, ReadersStep, NoneStep, LagStep, DeviceStep, CountersStep
    DEF IInv
  <2>3. LastIsThere' /\ AllReached'
    BY <1>1, <2>1, ThereStep, ReachedStep, LastParts DEF IInv
  <2>4. LastInv'
    BY <2>3 DEF LastInv, LastIsThere, AllReached, Sound
  <2> QED
    BY <2>1, <2>2, <2>4 DEF IInv
<1>2. CASE UNCHANGED vars
  <2>1. /\ UNCHANGED <<transactions, messages, conversation, faults>>
        /\ UNCHANGED callVars /\ UNCHANGED readVars /\ UNCHANGED deviceVars
        /\ UNCHANGED cacheVars
    BY <1>2 DEF vars
  <2>2. UNCHANGED <<transactions, messages, conversation, faults, pc, request, answer,
                    side, reading, modified, device, seen, hidden, lag, swallowed>>
    BY <2>1 DEF callVars, readVars, deviceVars, cacheVars
  <2>3. TypeOK'
    BY <2>2 DEF IInv, TypeOK
  <2>4. CallsInv' /\ KeysInv' /\ ReadersInv' /\ NoneInv' /\ LagInv' /\ DeviceInv'
    BY <2>2
    DEF IInv, CallsInv, CallInv, Earlier, KeysInv, ReadersInv, NoneInv, LagInv, DeviceInv
  <2>5. LastInv'
    BY <2>2 DEF IInv, LastInv, Reached, Closed
  <2>6. CountersMatch'
    BY <2>2 DEF IInv, CountersMatch, Unread
  <2> QED
    BY <2>3, <2>4, <2>5, <2>6 DEF IInv
<1> QED
  BY <1>1, <1>2

LEMMA Invariance == Spec => []IInv
<1>1. Init => IInv
  BY InitTypes DEF IInv
<1>2. IInv /\ [Next]_vars => IInv'
  BY InvariantStep
<1> QED
  BY <1>1, <1>2, PTL DEF Spec

\* Every variable keeps its type.
THEOREM TypeCorrect == Spec => []TypeOK
<1>1. IInv => TypeOK
  BY DEF IInv
<1> QED
  BY <1>1, Invariance, PTL

\* An acknowledged send answers a stored message that is its own, and repetitions of
\* one client_message_id are answered with one message: nothing inserts a second
\* message of a sender with a key, whether the first has the canonical key or that of
\* an earlier release.
THEOREM FaithfulAnswers == Spec => []AnswersAreFaithful
<1>1. ASSUME IInv PROVE AnswersAreFaithful
  <2>1. ASSUME NEW c \in Calls, pc[c] = "ok"
        PROVE  /\ answer[c] \in DOMAIN messages
               /\ messages[answer[c]].from = request[c].from
               /\ messages[answer[c]].key = request[c].key
               /\ messages[answer[c]].body = request[c].body
    BY <1>1, <2>1 DEF IInv, CallsInv, CallInv
  <2>2. ASSUME NEW c \in Calls, NEW d \in Calls, pc[c] = "ok", pc[d] = "ok",
               request[c].key # NoKey, request[d].from = request[c].from,
               request[d].key = request[c].key
        PROVE  answer[d] = answer[c]
    BY <1>1, <2>1, <2>2 DEF IInv, KeysInv
  <2> QED
    BY <2>1, <2>2 DEF AnswersAreFaithful
<1> QED
  BY <1>1, Invariance, PTL

\* A device that is ready shows every message acknowledged to its sender, but those
\* its cached page missed because their invalidation had been swallowed: what any
\* other invalidation reached is in every page since, and the rest is emitted to it.
THEOREM AcknowledgedAreSeen == Spec => []AcknowledgedIsSeen
<1>1. IInv => AcknowledgedIsSeen
  BY DEF IInv, DeviceInv, AcknowledgedIsSeen
<1> QED
  BY <1>1, Invariance, PTL

\* The conversation agrees with its messages: the unread counters with transactions,
\* the newest message whenever no writer is between its two writes.
THEOREM ConversationStaysCurrent == Spec => []ConversationIsCurrent
<1>1. ASSUME IInv PROVE ConversationIsCurrent
  <2>1. ASSUME Settled, DOMAIN messages # {}
        PROVE  /\ conversation.last = Max(DOMAIN messages)
               /\ conversation.last_from = messages[conversation.last].from
    <3>1. \A c \in Calls : pc[c] # "update"
      BY <1>1, <2>1 DEF IInv, Settled, CallsInv, CallInv
    <3>2. \A i \in DOMAIN messages : i \in Nat /\ i # 0 /\ i <= conversation.last
      BY <1>1, <2>1, <3>1, MessageFields DEF IInv, LastInv, Settled, Reached
    <3>3. /\ conversation.last \in DOMAIN messages
          /\ conversation.last_from = messages[conversation.last].from
      <4>1. conversation.last # 0
        BY <2>1, <3>2
      <4> QED
        BY <1>1, <4>1 DEF IInv, LastInv
    <3>4. \A m \in DOMAIN messages :
            (\A i \in DOMAIN messages : m >= i) => m = conversation.last
      BY <3>2, <3>3
    <3>5. \A i \in DOMAIN messages : conversation.last >= i
      BY <3>2, <3>3
    <3>6. Max(DOMAIN messages) = conversation.last
      BY <3>3, <3>4, <3>5 DEF Max
    <3> QED
      BY <3>3, <3>6
  <2> QED
    BY <1>1, <2>1 DEF IInv, ConversationIsCurrent, LatestIsNewest
<1> QED
  BY <1>1, Invariance, PTL

\* With transactions no step adds a message to a conversation that is closed, though
\* the calls read its status steps before they write.
THEOREM ClosedStayClosed == Spec => ClosedStaysClosed
<1>1. ASSUME IInv, Next, transactions, Closed
      PROVE  DOMAIN messages' = DOMAIN messages
  <2>1. ASSUME NEW c \in Calls, CallStep(c) PROVE messages' = messages
    BY <1>1, <2>1 DEF CallStep, Send, LookUp, Find, Ensure, CreateConversation,
       InsertDuplicate, Commit, TakesMessages, InsertMessage, UpdateConversation,
       Invalidate, Publish, LoseCall
  <2>2. ASSUME NEW r \in Readers, ReadStep(r) PROVE DOMAIN messages' = DOMAIN messages
    BY <2>2 DEF ReadStep, StartRead, MarkRead, Marked, CountRead, AnnounceRead, LoseReader
  <2>3. CASE Connect \/ Synchronize \/ BecomeReady \/ Disconnect \/ CloseConversation
    BY <2>3 DEF Connect, Synchronize, BecomeReady, Disconnect, CloseConversation
  <2> QED
    BY <1>1, <2>1, <2>2, <2>3 DEF Next
<1>2. IInv /\ [Next]_vars
      => [transactions /\ Closed => DOMAIN messages' = DOMAIN messages]_vars
  BY <1>1
<1> QED
  BY <1>2, Invariance, PTL DEF Spec, ClosedStaysClosed

=============================================================================
