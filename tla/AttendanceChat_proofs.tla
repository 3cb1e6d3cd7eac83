-------------------------- MODULE AttendanceChat_proofs --------------------------
(***************************************************************************)
(* Proofs about AttendanceChat, for any calls, sellers, keys and numbers   *)
(* of messages, changes and faults, with and without transactions.         *)
(***************************************************************************)
EXTENDS AttendanceChat, TLAPS

-----------------------------------------------------------------------------
(* Types, and what a call knows at each point: its input, and a message of *)
(* its own once it has an answer.                                          *)

Answered == {"authorize", "allow", "update", "describe", "publish", "ok"}

CallsInv ==
  \A c \in Calls :
    /\ pc[c] # "idle" => request[c] \in Requests
    /\ pc[c] \in Answered =>
         /\ answer[c] \in DOMAIN messages
         /\ messages[answer[c]].user = request[c].user
         /\ messages[answer[c]].key = request[c].key

\* Two messages of a store with one client_message_id are the same.
KeysInv ==
  \A i, j \in DOMAIN messages :
    /\ messages[i].key # NoKey
    /\ messages[i].key = messages[j].key
    /\ StoreOf[messages[i].user] = StoreOf[messages[j].user]
    => i = j

\* With transactions no call takes the path of single writes, and writes are of
\* a thread that exists.
PathInv ==
  \A c \in Calls :
    /\ transactions => pc[c] \notin {"assign", "reread", "insert", "update"}
    /\ pc[c] \in {"commit", "assign", "reread", "insert", "update"} => status # "none"

BaseInv == TypeOK /\ CallsInv /\ KeysInv /\ PathInv

-----------------------------------------------------------------------------
(* When nobody outside transfers a side or changes a setting *)

Working == {"thread", "create", "commit", "assign", "reread", "insert"}

\* A call works with the setting as it is, and one that has assigned its side,
\* or found it so, keeps it.
VoiceOf(c) ==
  /\ pc[c] \in Working => single[c] = setting[Side(c)]
  /\ pc[c] = "reread" /\ single[c] /\ status # "closed" => responsible[Side(c)] # None
  /\ pc[c] = "insert" /\ single[c] => responsible[Side(c)] = request[c].user
CallVoice == \A c \in Calls : VoiceOf(c)

\* The responsible of a side is of its store, and the messages keep theirs.
SidesInv ==
  \A s \in Stores :
    /\ responsible[s] # None => StoreOf[responsible[s]] = s
    /\ \A i \in DOMAIN messages :
         messages[i].sides[s] # None => responsible[s] = messages[i].sides[s]

VoiceInv == changes = 0 => OneVoice /\ CallVoice /\ SidesInv

SellersOf(s) == {u \in Users : StoreOf[u] = s}

\* What a call is about to publish with: no responsible but the one there is, and
\* the one there was when the message was stored.
Ready(c, s) ==
  pc[c] = "publish" =>
    /\ copy[c][s] \in {None, responsible[s]}
    /\ messages[answer[c]].sides[s] # None => copy[c][s] = messages[answer[c]].sides[s]

\* Whom the publication of a call has reached.
Reached(c, s) ==
  pc[c] = "ok" =>
    IF responsible[s] = None THEN SellersOf(s) \subseteq received[answer[c]]
                             ELSE responsible[s] \in received[answer[c]]

\* Whom no publication has reached.
Spared(i, s) ==
  messages[i].sides[s] # None
    => received[i] \cap SellersOf(s) \subseteq {messages[i].sides[s]}

PublishInv ==
  changes = 0 =>
    \A s \in Stores : setting[s] =>
      /\ \A c \in Calls : Ready(c, s) /\ Reached(c, s)
      /\ \A i \in DOMAIN messages : Spared(i, s)

UnsentInv == \A i \in Ids \ DOMAIN messages : received[i] = {}

-----------------------------------------------------------------------------
(* The summary of the thread *)

Pending(i) == \E c \in Calls : pc[c] = "update" /\ answer[c] = i

Undisturbed == transactions \/ (faults = 0 /\ status # "closed")

\* A message the summary has not taken has a call that is about to update it.
SummaryInv ==
  /\ last \in DOMAIN messages \cup {0}
  /\ Undisturbed => \A i \in DOMAIN messages : i <= last \/ Pending(i)

StatusInv ==
  Undisturbed =>
    /\ status = "none" => DOMAIN messages = {}
    /\ \A i \in DOMAIN messages :
         status = "waiting" /\ StoreOf[messages[i].user] = Target => Pending(i)
    /\ transactions =>
         /\ status = "waiting" => ~ BothAssigned
         /\ status = "open" => Replied \/ BothAssigned

-----------------------------------------------------------------------------
(* Steps of the thread *)

Phases == {"idle", "find", "authorize", "allow", "setting", "thread", "create",
           "commit", "assign", "reread", "insert", "update", "describe", "publish",
           "ok", "error"}

LEMMA GoesType ==
  ASSUME pc \in [Calls -> Phases], NEW c \in Calls, NEW to \in Phases, Goes(c, to)
  PROVE  pc' \in [Calls -> Phases]
BY DEF Goes

LEMMA SideType ==
  ASSUME NEW c \in Calls, request[c] \in Requests
  PROVE  /\ request[c].user \in Users
         /\ request[c].key \in Keys \cup {NoKey}
         /\ Side(c) \in Stores
         /\ StoreOf[request[c].user] = Side(c)
BY AttendanceAssumption DEF AttendanceAssumption, Requests, Side

LEMMA AssignedType ==
  ASSUME responsible \in Responsibles, NEW c \in Calls, request[c] \in Requests
  PROVE  Assigned(c) \in Responsibles
<1>1. request[c].user \in Users /\ Side(c) \in Stores
  BY SideType
<1> QED
  BY <1>1 DEF Assigned, Responsibles

LEMMA MessageType ==
  ASSUME NEW c \in Calls, request[c] \in Requests, responsible' \in Responsibles,
         NEW id \in Ids, DOMAIN messages \subseteq Ids,
         \A i \in DOMAIN messages : messages[i] \in Message
  PROVE  /\ DOMAIN WithMessage(c, id) = DOMAIN messages \cup {id}
         /\ DOMAIN WithMessage(c, id) \subseteq Ids
         /\ \A i \in DOMAIN WithMessage(c, id) : WithMessage(c, id)[i] \in Message
         /\ \A i \in DOMAIN messages \ {id} : WithMessage(c, id)[i] = messages[i]
         /\ WithMessage(c, id)[id] = [user |-> request[c].user, key |-> request[c].key,
                                      sides |-> responsible']
<1>1. request[c].user \in Users /\ request[c].key \in Keys \cup {NoKey}
  BY SideType
<1>2. [user |-> request[c].user, key |-> request[c].key, sides |-> responsible']
        \in Message
  BY <1>1 DEF Message
<1> QED
  BY <1>2 DEF WithMessage

LEMMA UpdateType ==
  ASSUME last \in Ids \cup {0}, NEW id \in Ids, NEW opens \in BOOLEAN,
         UpdateThread(id, opens)
  PROVE  /\ last' \in Ids \cup {0}
         /\ status' \in {"waiting", "open", "closed"}
BY DEF UpdateThread, Newest

LEMMA TypeStep ==
  ASSUME TypeOK, CallsInv, [Next]_vars
  PROVE  TypeOK'
<1> USE DEF threadVars, callVars
<1>0. /\ pc \in [Calls -> Phases]
      /\ \A c \in Calls : pc[c] # "idle" => request[c] \in Requests
  BY DEF TypeOK, Phases, CallsInv
<1>1. ASSUME NEW c \in Calls, Send(c) PROVE TypeOK'
  <2>1. request' \in [Calls -> Requests \cup {NoRequest}]
    BY <1>1 DEF Send, TypeOK
  <2> QED
    BY <1>1, <2>1 DEF Send, Goes, TypeOK
<1>2. ASSUME NEW c \in Calls, Find(c) PROVE TypeOK'
  <2>1. answer' \in [Calls -> Ids \cup {0}]
    BY <1>2 DEF Find, Found, Earlier, TypeOK
  <2>2. pc' \in [Calls -> Phases]
    BY <1>0, <1>2 DEF Find, Found, Goes, Phases
  <2> QED
    BY <1>2, <2>1, <2>2 DEF Find, TypeOK, Phases
<1>3. ASSUME NEW c \in Calls, Authorize(c) PROVE TypeOK'
  BY <1>3 DEF Authorize, Goes, TypeOK
<1>4. ASSUME NEW c \in Calls, Allow(c) PROVE TypeOK'
  BY <1>4 DEF Allow, Goes, TypeOK
<1>5. ASSUME NEW c \in Calls, ReadSetting(c) PROVE TypeOK'
  <2>1. Side(c) \in Stores
    BY <1>0, <1>5, SideType DEF ReadSetting
  <2> QED
    BY <1>5, <2>1 DEF ReadSetting, Goes, TypeOK
<1>6. ASSUME NEW c \in Calls, EnsureThread(c) PROVE TypeOK'
  BY <1>6 DEF EnsureThread, Enter, Goes, TypeOK
<1>7. ASSUME NEW c \in Calls, CreateThread(c) PROVE TypeOK'
  BY <1>7 DEF CreateThread, Enter, Goes, TypeOK
<1>8. ASSUME NEW c \in Calls, InsertDuplicate(c) PROVE TypeOK'
  <2>1. answer' \in [Calls -> Ids \cup {0}]
    BY <1>8 DEF InsertDuplicate, Found, Earlier, TypeOK
  <2>2. pc' \in [Calls -> Phases]
    BY <1>0, <1>8 DEF InsertDuplicate, Found, Goes, Phases
  <2> QED
    BY <1>8, <2>1, <2>2 DEF InsertDuplicate, TypeOK, Phases
<1>9. ASSUME NEW c \in Calls, Commit(c) PROVE TypeOK'
  <2>0. pc' \in [Calls -> Phases] /\ request[c] \in Requests
    BY <1>0, <1>9 DEF Commit, Goes, Phases
  <2>1. CASE TakesMessages /\ (single[c] => MayHandle(c, responsible))
    <3>1. PICK id \in Ids \ DOMAIN messages :
            /\ messages' = WithMessage(c, id)
            /\ UpdateThread(id, Opens(c, responsible'))
            /\ answer' = [answer EXCEPT ![c] = id]
      BY <1>9, <2>1 DEF Commit
    <3>2. responsible' \in Responsibles
      BY <1>9, <2>0, <2>1, AssignedType DEF Commit, TypeOK
    <3>3. DOMAIN messages' \subseteq Ids /\ \A i \in DOMAIN messages' : messages'[i] \in Message
      BY <2>0, <3>1, <3>2, MessageType DEF TypeOK
    <3>4. last' \in Ids \cup {0} /\ status' \in {"waiting", "open", "closed"}
      BY <3>1, UpdateType DEF TypeOK, Opens
    <3>5. answer' \in [Calls -> Ids \cup {0}]
      BY <3>1 DEF TypeOK
    <3> QED
      BY <1>9, <2>0, <3>2, <3>3, <3>4, <3>5 DEF Commit, TypeOK, Phases
  <2>2. CASE ~ (TakesMessages /\ (single[c] => MayHandle(c, responsible)))
    BY <1>9, <2>0, <2>2 DEF Commit, TypeOK, Phases
  <2> QED
    BY <2>1, <2>2
<1>10. ASSUME NEW c \in Calls, Assign(c) PROVE TypeOK'
  <2>1. responsible' \in Responsibles
    BY <1>0, <1>10, AssignedType DEF Assign, TypeOK
  <2> QED
    BY <1>10, <2>1 DEF Assign, Goes, TypeOK
<1>11. ASSUME NEW c \in Calls, Reread(c) PROVE TypeOK'
  BY <1>11 DEF Reread, Goes, TypeOK
<1>12. ASSUME NEW c \in Calls, InsertMessage(c) PROVE TypeOK'
  <2>1. PICK id \in Ids \ DOMAIN messages : /\ messages' = WithMessage(c, id)
                                            /\ answer' = [answer EXCEPT ![c] = id]
    BY <1>12 DEF InsertMessage
  <2>2. DOMAIN messages' \subseteq Ids /\ \A i \in DOMAIN messages' : messages'[i] \in Message
    BY <1>0, <1>12, <2>1, MessageType DEF InsertMessage, TypeOK
  <2> QED
    BY <1>12, <2>1, <2>2 DEF InsertMessage, Goes, TypeOK
<1>13. ASSUME NEW c \in Calls, UpdateAfter(c) PROVE TypeOK'
  <2>1. answer[c] \in Ids
    BY <1>13 DEF UpdateAfter, CallsInv, Answered, TypeOK
  <2>2. last' \in Ids \cup {0} /\ status' \in {"none", "waiting", "open", "closed"}
    BY <1>13, <2>1, UpdateType DEF UpdateAfter, TypeOK, Opens
  <2> QED
    BY <1>13, <2>2 DEF UpdateAfter, Goes, TypeOK
<1>14. ASSUME NEW c \in Calls, Describe(c) PROVE TypeOK'
  <2>1. [s \in Stores |-> IF setting[s] THEN responsible[s] ELSE None] \in Responsibles
    BY DEF TypeOK, Responsibles
  <2>2. copy' \in [Calls -> Responsibles]
    BY <1>14, <2>1 DEF Describe, TypeOK
  <2> QED
    BY <1>14, <2>2 DEF Describe, Goes, TypeOK
<1>15. ASSUME NEW c \in Calls, Publish(c) PROVE TypeOK'
  <2>1. answer[c] \in Ids /\ messages[answer[c]].user \in Users
    BY <1>15 DEF Publish, CallsInv, Answered, TypeOK, Message
  <2>2. received' \in [Ids -> SUBSET Users]
    BY <1>15, <2>1 DEF Publish, VisibleTo, TypeOK
  <2> QED
    BY <1>15, <2>2 DEF Publish, Goes, TypeOK
<1>16. ASSUME NEW c \in Calls, Lose(c) PROVE TypeOK'
  BY <1>16, AttendanceAssumption DEF AttendanceAssumption, Lose, Goes, TypeOK
<1>17. ASSUME NEW s \in Stores, Transfer(s) PROVE TypeOK'
  <2>1. responsible' \in Responsibles
    BY <1>17 DEF Transfer, TypeOK, Responsibles
  <2> QED
    BY <1>17, <2>1, AttendanceAssumption DEF AttendanceAssumption, Transfer, Change, TypeOK
<1>18. ASSUME NEW s \in Stores, ChangeSetting(s) PROVE TypeOK'
  BY <1>18, AttendanceAssumption DEF AttendanceAssumption, ChangeSetting, Change, TypeOK
<1>19. CASE CloseThread
  BY <1>19 DEF CloseThread, TypeOK
<1>20. CASE UNCHANGED vars
  BY <1>20 DEF vars, TypeOK
<1> QED
  BY <1>1, <1>2, <1>3, <1>4, <1>5, <1>6, <1>7, <1>8, <1>9, <1>10, <1>11, <1>12, <1>13,
     <1>14, <1>15, <1>16, <1>17, <1>18, <1>19, <1>20 DEF Next, CallStep

-----------------------------------------------------------------------------
(* Messages are only added, by calls that have just made sure that they are  *)
(* new.                                                                      *)

Adds(c, id) ==
  /\ request[c] \in Requests
  /\ Earlier(c) = {}
  /\ id \in Ids \ DOMAIN messages
  /\ messages' = WithMessage(c, id)
  /\ responsible' \in Responsibles
  /\ answer' = [answer EXCEPT ![c] = id]
  /\ UNCHANGED <<request, received, transactions, setting, single, copy, changes, faults>>
  /\ \/ /\ pc[c] = "commit"
        /\ pc' = [pc EXCEPT ![c] = "describe"]
        /\ TakesMessages
        /\ single[c] => MayHandle(c, responsible)
        /\ responsible' = IF single[c] THEN Assigned(c) ELSE responsible
        /\ UpdateThread(id, Opens(c, responsible'))
     \/ /\ pc[c] = "insert"
        /\ pc' = [pc EXCEPT ![c] = "update"]
        /\ UNCHANGED threadVars

LEMMA MessagesStep ==
  ASSUME TypeOK, CallsInv, [Next]_vars
  PROVE  UNCHANGED messages \/ \E c \in Calls, id \in Ids : Adds(c, id)
<1>1. ASSUME NEW c \in Calls, Commit(c) PROVE UNCHANGED messages \/ \E id \in Ids : Adds(c, id)
  <2>1. CASE TakesMessages /\ (single[c] => MayHandle(c, responsible))
    <3>1. PICK id \in Ids \ DOMAIN messages :
            /\ messages' = WithMessage(c, id)
            /\ UpdateThread(id, Opens(c, responsible'))
            /\ answer' = [answer EXCEPT ![c] = id]
      BY <1>1, <2>1 DEF Commit
    <3>2. request[c] \in Requests /\ responsible' \in Responsibles
      BY <1>1, <2>1, AssignedType DEF Commit, CallsInv, TypeOK
    <3>3. Adds(c, id)
      BY <1>1, <2>1, <3>1, <3>2 DEF Commit, Goes, Adds
    <3> QED
      BY <3>3
  <2>2. CASE ~ (TakesMessages /\ (single[c] => MayHandle(c, responsible)))
    BY <1>1, <2>2 DEF Commit
  <2> QED
    BY <2>1, <2>2
<1>2. ASSUME NEW c \in Calls, InsertMessage(c) PROVE \E id \in Ids : Adds(c, id)
  <2>1. PICK id \in Ids \ DOMAIN messages : /\ messages' = WithMessage(c, id)
                                            /\ answer' = [answer EXCEPT ![c] = id]
    BY <1>2 DEF InsertMessage
  <2>2. request[c] \in Requests /\ responsible' \in Responsibles
    BY <1>2 DEF InsertMessage, CallsInv, TypeOK, threadVars
  <2>3. Adds(c, id)
    BY <1>2, <2>1, <2>2 DEF InsertMessage, Goes, Adds
  <2> QED
    BY <2>3
<1>3. CASE UNCHANGED vars
  BY <1>3 DEF vars
<1> QED
  BY <1>1, <1>2, <1>3 DEF Next, CallStep, Send, Find, Authorize, Allow, ReadSetting,
     EnsureThread, CreateThread, InsertDuplicate, Assign, Reread, UpdateAfter, Describe,
     Publish, Lose, Transfer, ChangeSetting, CloseThread

\* What an added message is.
LEMMA AddedMessage ==
  ASSUME TypeOK, NEW c \in Calls, NEW id \in Ids, Adds(c, id)
  PROVE  /\ DOMAIN messages' = DOMAIN messages \cup {id}
         /\ \A i \in DOMAIN messages : messages'[i] = messages[i]
         /\ messages'[id].user = request[c].user
         /\ messages'[id].key = request[c].key
         /\ messages'[id].sides = responsible'
<1>1. /\ request[c] \in Requests
      /\ responsible' \in Responsibles
      /\ id \notin DOMAIN messages
      /\ messages' = WithMessage(c, id)
  BY DEF Adds
<1>2. DOMAIN messages \subseteq Ids /\ \A i \in DOMAIN messages : messages[i] \in Message
  BY DEF TypeOK
<1>3. /\ DOMAIN WithMessage(c, id) = DOMAIN messages \cup {id}
      /\ \A i \in DOMAIN messages \ {id} : WithMessage(c, id)[i] = messages[i]
      /\ WithMessage(c, id)[id] = [user |-> request[c].user, key |-> request[c].key,
                                   sides |-> responsible']
  BY <1>1, <1>2, MessageType
<1>4. messages'[id] = [user |-> request[c].user, key |-> request[c].key,
                       sides |-> responsible']
  BY <1>1, <1>3
<1> QED
  BY <1>1, <1>3, <1>4

LEMMA KeysStep ==
  ASSUME TypeOK, CallsInv, KeysInv, [Next]_vars
  PROVE  KeysInv'
<1>1. CASE UNCHANGED messages
  BY <1>1 DEF KeysInv
<1>2. ASSUME NEW c \in Calls, NEW id \in Ids, Adds(c, id) PROVE KeysInv'
  <2>1. /\ DOMAIN messages' = DOMAIN messages \cup {id}
        /\ \A i \in DOMAIN messages : messages'[i] = messages[i]
        /\ messages'[id].user = request[c].user
        /\ messages'[id].key = request[c].key
    BY <1>2, AddedMessage
  <2>2. ASSUME NEW i \in DOMAIN messages, messages[i].key # NoKey,
               messages[i].key = request[c].key,
               StoreOf[messages[i].user] = StoreOf[request[c].user]
        PROVE  FALSE
    BY <1>2, <2>2 DEF Adds, Earlier, Side
  <2> QED
    BY <2>1, <2>2 DEF KeysInv
<1> QED
  BY <1>1, <1>2, MessagesStep

LEMMA PathStep ==
  ASSUME TypeOK, PathInv, [Next]_vars
  PROVE  PathInv'
<1> USE DEF Goes
<1>1. \A c \in Calls : CallStep(c) => PathInv'
  <2>1. ASSUME NEW c \in Calls, EnsureThread(c) \/ CreateThread(c) PROVE PathInv'
    <3>1. /\ \A d \in Calls \ {c} : pc'[d] = pc[d]
          /\ transactions' = transactions
          /\ transactions => pc'[c] \notin {"assign", "reread", "insert", "update"}
          /\ status # "none" => status' # "none"
      BY <2>1 DEF EnsureThread, CreateThread, Enter, TypeOK, threadVars
    <3>2. pc'[c] \in {"commit", "assign", "reread", "insert", "update"} => status' # "none"
      BY <2>1 DEF EnsureThread, CreateThread, Enter, TypeOK, threadVars
    <3> QED
      BY <3>1, <3>2 DEF PathInv
  <2>2. ASSUME NEW c \in Calls, Commit(c) PROVE PathInv'
    <3>1. pc' = [pc EXCEPT ![c] = "describe"] \/ pc' = [pc EXCEPT ![c] = "error"]
      BY <2>2 DEF Commit
    <3>2. status # "none" => status' # "none"
      BY <2>2 DEF Commit, UpdateThread, threadVars
    <3>3. transactions' = transactions
      BY <2>2 DEF Commit
    <3> QED
      BY <3>1, <3>2, <3>3 DEF PathInv, TypeOK
  <2>3. ASSUME NEW c \in Calls, Assign(c) \/ Reread(c) \/ InsertMessage(c) \/ UpdateAfter(c)
        PROVE PathInv'
    BY <2>3 DEF Assign, Reread, InsertMessage, UpdateAfter, UpdateThread, PathInv, TypeOK,
       threadVars
  <2>4. ASSUME NEW c \in Calls, Send(c) \/ Authorize(c) \/ Allow(c)
                                  \/ ReadSetting(c) \/ Describe(c) \/ Publish(c) \/ Lose(c)
        PROVE PathInv'
    BY <2>4 DEF Send, Authorize, Allow, ReadSetting, Describe, Publish,
       Lose, PathInv, TypeOK, threadVars
  <2>5. ASSUME NEW c \in Calls, Find(c) \/ InsertDuplicate(c) PROVE PathInv'
    BY <2>5 DEF Find, Found, InsertDuplicate, PathInv, TypeOK, threadVars
  <2> QED
    BY <2>1, <2>2, <2>3, <2>4, <2>5 DEF CallStep
<1>2. ASSUME NEW s \in Stores, Transfer(s) \/ ChangeSetting(s) PROVE PathInv'
  BY <1>2 DEF Transfer, ChangeSetting, PathInv, callVars, threadVars
<1>3. CASE CloseThread
  BY <1>3 DEF CloseThread, PathInv, callVars
<1>4. CASE UNCHANGED vars
  BY <1>4 DEF vars, PathInv, callVars, threadVars
<1> QED
  BY <1>1, <1>2, <1>3, <1>4 DEF Next

LEMMA CallsStep ==
  ASSUME TypeOK, CallsInv, [Next]_vars
  PROVE  CallsInv'
<1> USE DEF Goes, Answered
<1>1. ASSUME NEW c \in Calls, NEW id \in Ids, Adds(c, id) PROVE CallsInv'
  <2>1. /\ DOMAIN messages' = DOMAIN messages \cup {id}
        /\ \A i \in DOMAIN messages : messages'[i] = messages[i]
        /\ messages'[id].user = request[c].user
        /\ messages'[id].key = request[c].key
    BY <1>1, AddedMessage
  <2>2. request' = request /\ answer' = [answer EXCEPT ![c] = id]
    BY <1>1 DEF Adds
  <2>3. \A d \in Calls \ {c} : pc'[d] = pc[d]
    BY <1>1 DEF Adds, TypeOK
  <2>4. pc[c] # "idle"
    BY <1>1 DEF Adds
  <2> QED
    BY <2>1, <2>2, <2>3, <2>4 DEF CallsInv, TypeOK
<1>2. ASSUME UNCHANGED messages PROVE CallsInv'
  <2>1. ASSUME NEW c \in Calls, Send(c) PROVE CallsInv'
    <3>1. request'[c] \in Requests /\ pc'[c] = "find"
      BY <2>1 DEF Send, TypeOK
    <3> QED
      BY <1>2, <2>1, <3>1 DEF Send, CallsInv, TypeOK
  <2>2. ASSUME NEW c \in Calls, NEW i \in Earlier(c), Found(c, i), pc[c] # "idle",
               UNCHANGED request
        PROVE  CallsInv'
    <3>1. /\ i \in DOMAIN messages
          /\ messages[i].key = request[c].key
          /\ pc'[c] \in {"authorize", "error"}
          /\ pc'[c] = "authorize" => messages[i].user = request[c].user
      BY <2>2 DEF Earlier, Found, SameUser, TypeOK
    <3>2. answer'[c] = i
      BY <2>2 DEF Found, TypeOK
    <3>3. \A d \in Calls \ {c} : pc'[d] = pc[d] /\ answer'[d] = answer[d]
      BY <2>2 DEF Found, TypeOK
    <3>4. request'[c] \in Requests
      BY <2>2 DEF CallsInv
    <3> QED
      BY <1>2, <2>2, <3>1, <3>2, <3>3, <3>4 DEF CallsInv
  <2>3. ASSUME NEW c \in Calls, Find(c) \/ InsertDuplicate(c) PROVE CallsInv'
    <3>1. CASE UNCHANGED answer
      BY <1>2, <2>3, <3>1, <2>2 DEF Find, InsertDuplicate, CallsInv, TypeOK
    <3>2. CASE \E i \in Earlier(c) : Found(c, i)
      BY <2>2, <2>3, <3>2 DEF Find, InsertDuplicate
    <3> QED
      BY <2>3, <3>1, <3>2 DEF Find, InsertDuplicate
  <2>4. ASSUME NEW c \in Calls,
               Authorize(c) \/ Allow(c) \/ ReadSetting(c) \/ EnsureThread(c) \/ CreateThread(c)
        PROVE  CallsInv'
    BY <1>2, <2>4 DEF Authorize, Allow, ReadSetting, EnsureThread, CreateThread, Enter,
       CallsInv, TypeOK
  <2>5. ASSUME NEW c \in Calls,
               Assign(c) \/ Reread(c) \/ UpdateAfter(c) \/ Describe(c) \/ Publish(c) \/ Lose(c)
        PROVE  CallsInv'
    BY <1>2, <2>5 DEF Assign, Reread, UpdateAfter, Describe, Publish, Lose, CallsInv, TypeOK
  <2>6. ASSUME NEW c \in Calls, Commit(c) PROVE CallsInv'
    <3>1. CASE TakesMessages /\ (single[c] => MayHandle(c, responsible))
      <4>1. PICK id \in Ids \ DOMAIN messages : messages' = WithMessage(c, id)
        BY <2>6, <3>1 DEF Commit
      <4> QED
        BY <1>2, <4>1 DEF WithMessage
    <3>2. CASE ~ (TakesMessages /\ (single[c] => MayHandle(c, responsible)))
      BY <1>2, <2>6, <3>2 DEF Commit, CallsInv, TypeOK
    <3> QED
      BY <3>1, <3>2
  <2>7. ASSUME NEW c \in Calls, InsertMessage(c) PROVE CallsInv'
    BY <1>2, <2>7 DEF InsertMessage, WithMessage, CallsInv, TypeOK
  <2>8. ASSUME NEW s \in Stores, Transfer(s) \/ ChangeSetting(s) PROVE CallsInv'
    BY <1>2, <2>8 DEF Transfer, ChangeSetting, CallsInv, callVars
  <2>9. CASE CloseThread \/ UNCHANGED vars
    BY <1>2, <2>9 DEF CloseThread, vars, CallsInv, callVars
  <2> QED
    BY <2>1, <2>3, <2>4, <2>5, <2>6, <2>7, <2>8, <2>9 DEF Next, CallStep
<1> QED
  BY <1>1, <1>2, MessagesStep

LEMMA BaseInvariant == Spec => []BaseInv
<1>1. Init => BaseInv
  <2> SUFFICES ASSUME Init PROVE BaseInv
    OBVIOUS
  <2>1. Nobody \in Responsibles /\ messages = [i \in {} |-> 0] /\ DOMAIN messages = {}
    BY DEF Init, Nobody, Responsibles
  <2>2. TypeOK
    BY <2>1, AttendanceAssumption DEF AttendanceAssumption, Init, TypeOK
  <2> QED
    BY <2>1, <2>2 DEF Init, BaseInv, CallsInv, KeysInv, PathInv, Answered
<1>2. BaseInv /\ [Next]_vars => BaseInv'
  BY TypeStep, CallsStep, KeysStep, PathStep DEF BaseInv
<1> QED
  BY <1>1, <1>2, PTL DEF Spec

\* Every variable keeps its type.
THEOREM TypeCorrect == Spec => []TypeOK
<1>1. BaseInv => TypeOK
  BY DEF BaseInv
<1> QED
  BY <1>1, BaseInvariant, PTL

\* Whatever repeats, races and failures, an acknowledged chat:send answers a
\* stored message of its own user and client_message_id, and two calls of a store
\* with one client_message_id get the same message.
THEOREM FaithfulAnswers == Spec => []AnswersAreFaithful
<1>1. ASSUME BaseInv PROVE AnswersAreFaithful
  <2> SUFFICES ASSUME NEW c \in Calls, pc[c] = "ok" PROVE AnswersAreFaithful!(c)!2
    BY DEF AnswersAreFaithful
  <2>1. \A d \in Calls : pc[d] = "ok" =>
          /\ answer[d] \in DOMAIN messages
          /\ messages[answer[d]].user = request[d].user
          /\ messages[answer[d]].key = request[d].key
    BY <1>1 DEF BaseInv, CallsInv, Answered
  <2>2. ASSUME NEW d \in Calls, pc[d] = "ok", request[c].key # NoKey,
               request[d].key = request[c].key, Side(d) = Side(c)
        PROVE  answer[d] = answer[c]
    BY <1>1, <2>1, <2>2 DEF BaseInv, KeysInv, Side
  <2> QED
    BY <2>1, <2>2
<1> QED
  BY <1>1, BaseInvariant, PTL

\* With transactions a closed thread takes no message, however late the call that
\* found it open.
THEOREM ClosedThreadsStayClosed == Spec => ClosedStaysClosed
<1>1. ASSUME BaseInv, [Next]_vars, transactions, status = "closed"
      PROVE  DOMAIN messages' = DOMAIN messages
  <2>1. ASSUME NEW c \in Calls, NEW id \in Ids, Adds(c, id) PROVE FALSE
    BY <1>1, <2>1 DEF Adds, TakesMessages, BaseInv, PathInv
  <2> QED
    BY <1>1, <2>1, MessagesStep DEF BaseInv
<1>2. BaseInv /\ [Next]_vars
        => [transactions /\ status = "closed" => DOMAIN messages' = DOMAIN messages]_vars
  BY <1>1
<1> QED
  BY <1>2, BaseInvariant, PTL DEF Spec, ClosedStaysClosed
-----------------------------------------------------------------------------
(* One voice per side                                                        *)

\* Calls alone leave the settings, take no side from anybody, and leave a closed
\* thread closed.
LEMMA Quiet ==
  ASSUME BaseInv, [Next]_vars, changes' = 0
  PROVE  /\ changes = 0
         /\ setting' = setting
         /\ transactions' = transactions
         /\ \A s \in Stores :
              \/ responsible'[s] = responsible[s]
              \/ /\ responsible[s] = None
                 /\ responsible'[s] # None
                 /\ StoreOf[responsible'[s]] = s
         /\ status = "closed" => status' = "closed"
<1> USE DEF threadVars
<1>1. ASSUME NEW c \in Calls, request[c] \in Requests, NEW s \in Stores
      PROVE  \/ Assigned(c)[s] = responsible[s]
             \/ /\ responsible[s] = None
                /\ Assigned(c)[s] # None
                /\ StoreOf[Assigned(c)[s]] = s
  <2>1. request[c].user \in Users /\ Side(c) \in Stores /\ StoreOf[request[c].user] = Side(c)
    BY <1>1, SideType
  <2> QED
    BY <1>1, <2>1, AttendanceAssumption
    DEF AttendanceAssumption, Assigned, BaseInv, TypeOK, Responsibles
<1>2. ASSUME NEW c \in Calls, Commit(c) \/ Assign(c) PROVE
        /\ responsible' = responsible \/ responsible' = Assigned(c)
        /\ request[c] \in Requests
        /\ changes' = changes
        /\ setting' = setting /\ transactions' = transactions
        /\ status = "closed" => status' = "closed"
  BY <1>2 DEF Commit, Assign, UpdateThread, BaseInv, CallsInv
<1>3. ASSUME NEW c \in Calls, CallStep(c), ~ (Commit(c) \/ Assign(c)) PROVE
        /\ responsible' = responsible
        /\ changes' = changes
        /\ setting' = setting /\ transactions' = transactions
        /\ status = "closed" => status' = "closed"
  BY <1>3 DEF CallStep, Send, Find, Authorize, Allow, ReadSetting, EnsureThread,
     CreateThread, InsertDuplicate, Reread, InsertMessage, UpdateAfter, UpdateThread,
     Describe, Publish, Lose
<1>4. ASSUME NEW s \in Stores, Transfer(s) \/ ChangeSetting(s) PROVE FALSE
  BY <1>4 DEF Transfer, ChangeSetting, Change, BaseInv, TypeOK
<1>5. CASE CloseThread
  BY <1>5 DEF CloseThread
<1>6. CASE UNCHANGED vars
  BY <1>6 DEF vars
<1> QED
  BY <1>1, <1>2, <1>3, <1>4, <1>5, <1>6 DEF Next

\* The side of an added message is of its sender, if the store is in the mode.
LEMMA AddedVoice ==
  ASSUME BaseInv, CallVoice, NEW c \in Calls, NEW id \in Ids, Adds(c, id),
         setting[Side(c)]
  PROVE  responsible'[Side(c)] = request[c].user
<1>1. request[c].user \in Users /\ Side(c) \in Stores
  BY SideType DEF Adds
<1>2. single[c]
  BY DEF Adds, CallVoice, VoiceOf, Working
<1>3. CASE pc[c] = "commit"
  BY <1>1, <1>2, <1>3, AttendanceAssumption
  DEF AttendanceAssumption, Adds, MayHandle, Assigned, BaseInv, TypeOK, Responsibles
<1>4. CASE pc[c] = "insert"
  BY <1>2, <1>4 DEF Adds, CallVoice, VoiceOf, threadVars
<1> QED
  BY <1>3, <1>4 DEF Adds

LEMMA SidesStep ==
  ASSUME BaseInv, SidesInv, [Next]_vars, changes' = 0
  PROVE  SidesInv'
<1> SUFFICES ASSUME NEW s \in Stores
    PROVE  /\ responsible'[s] # None => StoreOf[responsible'[s]] = s
           /\ \A i \in DOMAIN messages' :
                messages'[i].sides[s] # None => responsible'[s] = messages'[i].sides[s]
  BY DEF SidesInv
<1>1. \/ responsible'[s] = responsible[s]
      \/ /\ responsible[s] = None
         /\ responsible'[s] # None
         /\ StoreOf[responsible'[s]] = s
  BY Quiet
<1>2. responsible'[s] # None => StoreOf[responsible'[s]] = s
  BY <1>1 DEF SidesInv
<1>3. \A i \in DOMAIN messages : messages[i].sides[s] # None => responsible'[s] = messages[i].sides[s]
  BY <1>1 DEF SidesInv
<1>4. ASSUME NEW c \in Calls, NEW id \in Ids, Adds(c, id),
             NEW i \in DOMAIN messages', messages'[i].sides[s] # None
      PROVE  responsible'[s] = messages'[i].sides[s]
  <2>1. /\ DOMAIN messages' = DOMAIN messages \cup {id}
        /\ \A j \in DOMAIN messages : messages'[j] = messages[j]
        /\ messages'[id].sides = responsible'
    BY <1>4, AddedMessage DEF BaseInv
  <2> QED
    BY <1>3, <1>4, <2>1
<1> QED
  BY <1>2, <1>3, <1>4, MessagesStep DEF BaseInv

LEMMA OneVoiceStep ==
  ASSUME BaseInv, CallVoice, OneVoice, changes = 0, [Next]_vars, changes' = 0
  PROVE  OneVoice'
<1> SUFFICES ASSUME NEW i \in DOMAIN messages', setting'[StoreOf[messages'[i].user]]
    PROVE  responsible'[StoreOf[messages'[i].user]] = messages'[i].user
  BY DEF OneVoice
<1>1. ASSUME i \in DOMAIN messages, messages'[i] = messages[i]
      PROVE  responsible'[StoreOf[messages'[i].user]] = messages'[i].user
  <2>1. messages[i].user \in Users
    BY <1>1 DEF BaseInv, TypeOK, Message
  <2>2. StoreOf[messages[i].user] \in Stores
    BY <2>1, AttendanceAssumption DEF AttendanceAssumption
  <2>3. setting' = setting
    BY Quiet
  <2>4. responsible[StoreOf[messages[i].user]] = messages[i].user
    BY <1>1, <2>3 DEF OneVoice
  <2>5. responsible'[StoreOf[messages[i].user]] = responsible[StoreOf[messages[i].user]]
    BY <2>1, <2>2, <2>4, Quiet, AttendanceAssumption DEF AttendanceAssumption
  <2> QED
    BY <1>1, <2>4, <2>5
<1>2. ASSUME NEW c \in Calls, NEW id \in Ids, Adds(c, id)
      PROVE  responsible'[StoreOf[messages'[i].user]] = messages'[i].user
  <2>1. CASE i = id
    <3>1. messages'[i].user = request[c].user
      BY <1>2, <2>1, AddedMessage DEF BaseInv
    <3>2. setting[Side(c)]
      BY <3>1, Quiet DEF Side
    <3> QED
      BY <1>2, <3>1, <3>2, AddedVoice DEF Side
  <2>2. CASE i # id
    <3>1. i \in DOMAIN messages /\ messages'[i] = messages[i]
      BY <1>2, <2>2, AddedMessage DEF BaseInv
    <3> QED
      BY <1>1, <3>1
  <2> QED
    BY <2>1, <2>2
<1> QED
  BY <1>1, <1>2, MessagesStep DEF BaseInv

LEMMA CallVoiceStep ==
  ASSUME BaseInv, CallVoice, [Next]_vars, changes' = 0
  PROVE  CallVoice'
<1> USE DEF Goes, Working
<1>1. /\ setting' = setting
      /\ \A s \in Stores : responsible[s] # None => responsible'[s] = responsible[s]
      /\ status = "closed" => status' = "closed"
  BY Quiet
<1>2. ASSUME NEW c \in Calls, CallStep(c), NEW d \in Calls \ {c}
      PROVE  pc'[d] = pc[d] /\ request'[d] = request[d] /\ single'[d] = single[d]
  BY <1>2 DEF CallStep, Send, Find, Found, Authorize, Allow, ReadSetting, EnsureThread,
     CreateThread, Enter, InsertDuplicate, Commit, Assign, Reread, InsertMessage,
     UpdateAfter, Describe, Publish, Lose, BaseInv, TypeOK
<1>3. ASSUME NEW d \in Calls, pc'[d] = pc[d], request'[d] = request[d],
             single'[d] = single[d]
      PROVE  VoiceOf(d)'
  <2>1. pc[d] # "idle" => Side(d) \in Stores /\ request[d].user \in Users
    BY SideType DEF BaseInv, CallsInv
  <2>2. Side(d)' = Side(d)
    BY <1>3 DEF Side
  <2> QED
    BY <1>1, <1>3, <2>1, <2>2, AttendanceAssumption
    DEF AttendanceAssumption, CallVoice, VoiceOf
<1>4. ASSUME NEW c \in Calls, CallStep(c) PROVE VoiceOf(c)'
  <2>0. VoiceOf(c) /\ Side(c)' = StoreOf[request'[c].user]
    BY DEF CallVoice, Side
  <2>1. CASE pc'[c] \notin Working
    BY <2>1 DEF VoiceOf
  <2>2. CASE ReadSetting(c)
    BY <1>1, <2>0, <2>2 DEF ReadSetting, VoiceOf, Side, BaseInv, TypeOK
  <2>3. CASE EnsureThread(c) \/ CreateThread(c)
    BY <1>1, <2>0, <2>3 DEF EnsureThread, CreateThread, Enter, VoiceOf, Side, BaseInv, TypeOK
  <2>4. CASE Assign(c)
    <3>1. Side(c) \in Stores /\ request[c].user \in Users
      BY <2>4, SideType DEF Assign, BaseInv, CallsInv
    <3>2. single[c] /\ status # "closed" => responsible'[Side(c)] # None
      BY <2>4, <3>1, AttendanceAssumption
      DEF AttendanceAssumption, Assign, Assigned, BaseInv, TypeOK, Responsibles
    <3> QED
      BY <1>1, <2>0, <2>4, <3>2 DEF Assign, VoiceOf, Side, BaseInv, TypeOK
  <2>5. CASE Reread(c)
    BY <1>1, <2>0, <2>5 DEF Reread, threadVars, MayHandle, VoiceOf, Side, BaseInv, TypeOK
  <2>6. CASE Find(c) \/ InsertDuplicate(c)
    BY <1>1, <2>0, <2>6 DEF Find, InsertDuplicate, Found, VoiceOf, BaseInv, TypeOK
  <2>7. CASE Send(c) \/ Authorize(c) \/ Allow(c) \/ Commit(c) \/ InsertMessage(c)
               \/ UpdateAfter(c) \/ Describe(c) \/ Publish(c) \/ Lose(c)
    <3>1. pc'[c] \notin Working
      BY <2>7 DEF Send, Authorize, Allow, Commit, InsertMessage, UpdateAfter, Describe,
         Publish, Lose, BaseInv, TypeOK
    <3> QED
      BY <2>1, <3>1
  <2> QED
    BY <1>4, <2>2, <2>3, <2>4, <2>5, <2>6, <2>7 DEF CallStep
<1>5. ASSUME UNCHANGED callVars PROVE CallVoice'
  BY <1>3, <1>5 DEF callVars, CallVoice
<1>6. ASSUME NEW s \in Stores, Transfer(s) \/ ChangeSetting(s) PROVE UNCHANGED callVars
  BY <1>6 DEF Transfer, ChangeSetting
<1>7. CloseThread \/ UNCHANGED vars => UNCHANGED callVars
  BY DEF CloseThread, vars
<1> QED
  BY <1>2, <1>3, <1>4, <1>5, <1>6, <1>7 DEF Next, CallVoice

LEMMA VoiceInvariant == Spec => [](BaseInv /\ VoiceInv)
<1>1. Init => VoiceInv
  <2> SUFFICES ASSUME Init PROVE OneVoice /\ CallVoice /\ SidesInv
    BY DEF VoiceInv
  <2>1. DOMAIN messages = {} /\ \A s \in Stores : responsible[s] = None
    BY DEF Init, Nobody
  <2> QED
    BY <2>1 DEF Init, OneVoice, CallVoice, VoiceOf, SidesInv, Working
<1>2. ASSUME BaseInv, VoiceInv, [Next]_vars PROVE VoiceInv'
  <2> SUFFICES ASSUME changes' = 0 PROVE OneVoice' /\ CallVoice' /\ SidesInv'
    BY DEF VoiceInv
  <2>1. changes = 0
    BY <1>2, Quiet
  <2> QED
    BY <1>2, <2>1, OneVoiceStep, CallVoiceStep, SidesStep DEF VoiceInv
<1> QED
  BY <1>1, <1>2, BaseInvariant, PTL DEF Spec

\* In single-attendant mode every message of a side is of its responsible, however
\* many sellers found the side free at the same time.
THEOREM OneVoicePerSide == Spec => []OneVoice
<1>1. BaseInv /\ VoiceInv => OneVoice
  BY DEF VoiceInv, OneVoice
<1> QED
  BY <1>1, VoiceInvariant, PTL
-----------------------------------------------------------------------------
(* The summary of the thread                                                 *)

\* What may happen to the messages and the summary.
LEMMA ThreadStep ==
  ASSUME TypeOK, CallsInv, [Next]_vars
  PROVE  \/ \E c \in Calls, id \in Ids : Adds(c, id)
         \/ \E c \in Calls : UpdateAfter(c)
         \/ /\ UNCHANGED <<messages, last, transactions>>
            /\ \/ status' = status
               \/ status = "none" /\ status' = "waiting"
               \/ status' = "closed"
<1> USE DEF threadVars
<1>1. ASSUME UNCHANGED messages, NEW c \in Calls, Commit(c)
      PROVE  UNCHANGED <<last, status, transactions>>
  <2>1. CASE TakesMessages /\ (single[c] => MayHandle(c, responsible))
    <3>1. PICK id \in Ids \ DOMAIN messages : messages' = WithMessage(c, id)
      BY <1>1, <2>1 DEF Commit
    <3> QED
      BY <1>1, <3>1 DEF WithMessage
  <2>2. CASE ~ (TakesMessages /\ (single[c] => MayHandle(c, responsible)))
    BY <1>1, <2>2 DEF Commit
  <2> QED
    BY <2>1, <2>2
<1>2. ASSUME NEW c \in Calls, CallStep(c), ~ Commit(c), ~ UpdateAfter(c)
      PROVE  /\ last' = last /\ transactions' = transactions
             /\ status' = status \/ (status = "none" /\ status' = "waiting")
  BY <1>2 DEF CallStep, Send, Find, Authorize, Allow, ReadSetting, EnsureThread,
     CreateThread, InsertDuplicate, Assign, Reread, InsertMessage, Describe, Publish, Lose
<1>3. ASSUME NEW s \in Stores, Transfer(s) \/ ChangeSetting(s)
      PROVE  UNCHANGED <<last, status, transactions>>
  BY <1>3 DEF Transfer, ChangeSetting
<1>4. CASE CloseThread
  BY <1>4 DEF CloseThread
<1>5. CASE UNCHANGED vars
  BY <1>5 DEF vars
<1> QED
  BY <1>1, <1>2, <1>3, <1>4, <1>5, MessagesStep DEF Next

\* A call that is about to update the thread stays so until it does, or is lost.
LEMMA PendingStep ==
  ASSUME TypeOK, [Next]_vars, NEW c \in Calls, pc[c] = "update"
  PROVE  \/ UpdateAfter(c)
         \/ Lose(c)
         \/ pc'[c] = "update" /\ answer'[c] = answer[c]
<1>1. ASSUME NEW d \in Calls \ {c}, CallStep(d) PROVE pc'[c] = pc[c] /\ answer'[c] = answer[c]
  BY <1>1 DEF CallStep, Send, Find, Found, Authorize, Allow, ReadSetting, EnsureThread,
     CreateThread, Enter, InsertDuplicate, Commit, Assign, Reread, InsertMessage,
     UpdateAfter, Describe, Publish, Lose, Goes, TypeOK
<1>2. ASSUME CallStep(c) PROVE UpdateAfter(c) \/ Lose(c)
  BY <1>2 DEF CallStep, Send, Find, Authorize, Allow, ReadSetting, EnsureThread,
     CreateThread, InsertDuplicate, Commit, Assign, Reread, InsertMessage, Describe, Publish
<1>3. ASSUME NEW s \in Stores, Transfer(s) \/ ChangeSetting(s) PROVE UNCHANGED callVars
  BY <1>3 DEF Transfer, ChangeSetting
<1>4. CloseThread \/ UNCHANGED vars => UNCHANGED callVars
  BY DEF CloseThread, vars
<1> QED
  BY <1>1, <1>2, <1>3, <1>4 DEF Next, callVars

\* Failures and a closed thread stay.
LEMMA DisturbedStays ==
  ASSUME TypeOK, [Next]_vars, Undisturbed'
  PROVE  /\ Undisturbed
         /\ transactions' = transactions
         /\ ~ transactions => status' # "closed" /\ \A c \in Calls : ~ Lose(c)
<1>1. /\ transactions' = transactions
      /\ faults' = faults \/ faults' = faults + 1
      /\ status = "closed" => status' = "closed"
  BY DEF Next, CallStep, Send, Find, Found, Authorize, Allow, ReadSetting, EnsureThread,
     CreateThread, Enter, InsertDuplicate, Commit, Assign, Reread, InsertMessage,
     UpdateAfter, Describe, Publish, Lose, Transfer, ChangeSetting, Change, CloseThread,
     UpdateThread, vars, threadVars, callVars
<1>2. faults \in Nat
  BY AttendanceAssumption DEF AttendanceAssumption, TypeOK
<1> QED
  BY <1>1, <1>2 DEF Undisturbed, Lose

\* A pending message stays pending until it is in the summary.
LEMMA PendingStays ==
  ASSUME BaseInv, [Next]_vars, Undisturbed', NEW i \in DOMAIN messages, Pending(i)
  PROVE  \/ Pending(i)'
         \/ \E c \in Calls : UpdateAfter(c) /\ answer[c] = i /\ status' # "closed"
<1>1. PICK c \in Calls : pc[c] = "update" /\ answer[c] = i
  BY DEF Pending
<1>2. ~ transactions
  BY <1>1 DEF BaseInv, PathInv
<1>3. status' # "closed" /\ ~ Lose(c)
  BY <1>2, DisturbedStays DEF BaseInv
<1> QED
  BY <1>1, <1>3, PendingStep DEF BaseInv, Pending

LEMMA SummaryStep ==
  ASSUME BaseInv, SummaryInv, [Next]_vars
  PROVE  SummaryInv'
<1>0. last \in Nat /\ DOMAIN messages \subseteq Nat /\ \A c \in Calls : answer[c] \in Nat
  BY AttendanceAssumption DEF AttendanceAssumption, BaseInv, TypeOK, Ids
<1>1. ASSUME NEW c \in Calls, NEW id \in Ids, Adds(c, id) PROVE SummaryInv'
  <2>1. DOMAIN messages' = DOMAIN messages \cup {id} /\ id \in Nat
    BY <1>1, AddedMessage DEF BaseInv, Ids
  <2>2. /\ last' = last /\ pc'[c] = "update" /\ answer'[c] = id
        \/ last' = (IF last < id THEN id ELSE last)
    BY <1>1 DEF Adds, UpdateThread, Newest, threadVars, BaseInv, TypeOK
  <2>3. last' \in DOMAIN messages' \cup {0}
    BY <2>1, <2>2 DEF SummaryInv
  <2>4. ASSUME Undisturbed', NEW i \in DOMAIN messages' PROVE i <= last' \/ Pending(i)'
    <3>1. CASE i = id
      BY <1>0, <2>1, <2>2, <3>1 DEF Pending
    <3>2. CASE i # id
      <4>1. i \in DOMAIN messages /\ (i <= last \/ Pending(i))
        BY <2>1, <2>4, <3>2, DisturbedStays DEF SummaryInv, BaseInv
      <4>2. \A d \in Calls : ~ UpdateAfter(d) \/ d = c
        BY <1>1 DEF Adds, UpdateAfter, Goes, BaseInv, TypeOK
      <4>3. ~ UpdateAfter(c)
        BY <1>1 DEF Adds, UpdateAfter
      <4> QED
        BY <1>0, <2>1, <2>2, <2>4, <4>1, <4>2, <4>3, PendingStays
    <3> QED
      BY <3>1, <3>2
  <2> QED
    BY <2>3, <2>4 DEF SummaryInv
<1>2. ASSUME NEW c \in Calls, UpdateAfter(c) PROVE SummaryInv'
  <2>1. answer[c] \in DOMAIN messages /\ messages' = messages
    BY <1>2 DEF UpdateAfter, BaseInv, CallsInv, Answered
  <2>2. \/ last' = IF last < answer[c] THEN answer[c] ELSE last
        \/ last' = last /\ status' = "closed" /\ status = "closed"
    <3>1. CASE TakesMessages
      <4>1. UpdateThread(answer[c], Opens(c, copy[c]))
        BY <1>2, <3>1 DEF UpdateAfter
      <4> QED
        BY <4>1 DEF UpdateThread, Newest
    <3>2. CASE ~ TakesMessages
      BY <1>2, <3>2 DEF UpdateAfter, TakesMessages
    <3> QED
      BY <3>1, <3>2
  <2>3. last' \in DOMAIN messages' \cup {0}
    BY <2>1, <2>2 DEF SummaryInv
  <2>4. ASSUME Undisturbed', NEW i \in DOMAIN messages' PROVE i <= last' \/ Pending(i)'
    <3>1. i \in DOMAIN messages /\ (i <= last \/ Pending(i))
      BY <2>1, <2>4, DisturbedStays DEF SummaryInv, BaseInv
    <3>2. ASSUME NEW d \in Calls, UpdateAfter(d), answer[d] = i, status' # "closed"
          PROVE  i <= last'
      <4>1. TakesMessages
        BY <3>2 DEF UpdateAfter, TakesMessages
      <4>2. last' = IF last < i THEN i ELSE last
        BY <3>2, <4>1 DEF UpdateAfter, UpdateThread, Newest
      <4>3. i \in Nat /\ last \in Nat
        BY <1>0, <3>1
      <4> QED
        BY <4>2, <4>3
    <3> QED
      BY <1>0, <2>1, <2>2, <2>4, <3>1, <3>2, PendingStays
  <2> QED
    BY <2>3, <2>4 DEF SummaryInv
<1>3. ASSUME UNCHANGED <<messages, last>>, \A c \in Calls : ~ UpdateAfter(c)
      PROVE  SummaryInv'
  BY <1>3, DisturbedStays, PendingStays DEF SummaryInv, BaseInv
<1> QED
  BY <1>1, <1>2, <1>3, ThreadStep DEF BaseInv
\* The messages a step adds keep those there were.
LEMMA OpenedByMessages ==
  ASSUME BaseInv, NEW c \in Calls, NEW id \in Ids, Adds(c, id)
  PROVE  /\ Replied' <=> Replied \/ Side(c) = Target
         /\ BothAssigned' <=> BothAssigned \/ \A s \in Stores : responsible'[s] # None
<1>1. /\ DOMAIN messages' = DOMAIN messages \cup {id}
      /\ \A i \in DOMAIN messages : messages'[i] = messages[i]
      /\ messages'[id].user = request[c].user
      /\ messages'[id].sides = responsible'
  BY AddedMessage DEF BaseInv
<1>2. Replied' <=> Replied \/ Side(c) = Target
  BY <1>1 DEF Replied, Side
<1>3. BothAssigned' <=> BothAssigned \/ \A s \in Stores : responsible'[s] # None
  BY <1>1 DEF BothAssigned
<1> QED
  BY <1>2, <1>3

LEMMA StatusStep ==
  ASSUME BaseInv, StatusInv, [Next]_vars
  PROVE  StatusInv'
<1> SUFFICES ASSUME Undisturbed'
    PROVE  /\ status' = "none" => DOMAIN messages' = {}
           /\ \A i \in DOMAIN messages' :
                status' = "waiting" /\ StoreOf[messages'[i].user] = Target => Pending(i)'
           /\ transactions' =>
                /\ status' = "waiting" => ~ BothAssigned'
                /\ status' = "open" => Replied' \/ BothAssigned'
  BY DEF StatusInv
<1>1. /\ Undisturbed
      /\ transactions' = transactions
      /\ ~ transactions => status' # "closed"
  BY DisturbedStays DEF BaseInv
<1>2. ASSUME NEW i \in DOMAIN messages, status = "waiting",
             StoreOf[messages[i].user] = Target, status' = "waiting"
      PROVE  Pending(i)'
  <2>1. Pending(i)
    BY <1>1, <1>2 DEF StatusInv
  <2>2. ASSUME NEW d \in Calls, UpdateAfter(d), answer[d] = i PROVE FALSE
    <3>1. TakesMessages /\ UpdateThread(answer[d], Opens(d, copy[d]))
      BY <1>2, <2>2 DEF UpdateAfter, TakesMessages
    <3>2. Side(d) = Target
      BY <1>2, <2>2 DEF UpdateAfter, BaseInv, CallsInv, Answered, Side
    <3> QED
      BY <1>2, <3>1, <3>2 DEF UpdateThread, Opens
  <2> QED
    BY <2>1, <2>2, PendingStays
<1>3. ASSUME NEW c \in Calls, NEW id \in Ids, Adds(c, id)
      PROVE  /\ status # "none" /\ status' # "none"
             /\ status' = "waiting" => status = "waiting"
             /\ status' = status \/ (status' = "open" /\ Opens(c, responsible'))
             /\ status' = "waiting" /\ pc[c] = "commit" => ~ Opens(c, responsible')
             /\ pc[c] = "insert" => ~ transactions /\ Pending(id)'
  <2>1. status # "none" /\ (pc[c] = "insert" => ~ transactions)
    BY <1>3 DEF Adds, BaseInv, PathInv
  <2>2. CASE pc[c] = "commit"
    BY <1>3, <2>1, <2>2 DEF Adds, UpdateThread, TakesMessages, BaseInv, TypeOK
  <2>3. CASE pc[c] = "insert"
    BY <1>3, <2>1, <2>3 DEF Adds, threadVars, Pending, BaseInv, TypeOK
  <2> QED
    BY <1>3, <2>2, <2>3 DEF Adds
<1>4. ASSUME NEW c \in Calls, NEW id \in Ids, Adds(c, id),
             NEW i \in DOMAIN messages', status' = "waiting",
             StoreOf[messages'[i].user] = Target
      PROVE  Pending(i)'
  <2>1. \/ i \in DOMAIN messages /\ messages'[i] = messages[i]
        \/ i = id /\ messages'[id].user = request[c].user
    BY <1>4, AddedMessage DEF BaseInv
  <2>2. CASE i \in DOMAIN messages /\ messages'[i] = messages[i]
    BY <1>2, <1>3, <1>4, <2>2
  <2>3. CASE i = id /\ messages'[id].user = request[c].user
    <3>1. Opens(c, responsible')
      BY <1>4, <2>3 DEF Opens, Side
    <3> QED
      BY <1>3, <1>4, <2>3, <3>1 DEF Adds
  <2> QED
    BY <2>1, <2>2, <2>3
<1>5. ASSUME NEW c \in Calls, NEW id \in Ids, Adds(c, id), transactions
      PROVE  /\ status' = "waiting" => ~ BothAssigned'
             /\ status' = "open" => Replied' \/ BothAssigned'
  <2>1. pc[c] = "commit"
    BY <1>3, <1>5 DEF Adds
  <2>2. /\ status = "waiting" => ~ BothAssigned
        /\ status = "open" => Replied \/ BothAssigned
    BY <1>1, <1>5 DEF StatusInv
  <2> QED
    BY <1>3, <1>5, <2>1, <2>2, OpenedByMessages DEF Opens
<1>6. ASSUME NEW c \in Calls, UpdateAfter(c)
      PROVE  /\ messages' = messages
             /\ ~ transactions
             /\ status # "none"
             /\ status' # "none"
             /\ status' = "waiting" => status = "waiting"
  <2>1. messages' = messages /\ ~ transactions /\ status # "none"
    BY <1>6 DEF UpdateAfter, BaseInv, PathInv
  <2>2. TakesMessages /\ UpdateThread(answer[c], Opens(c, copy[c]))
    BY <1>1, <1>6, <2>1 DEF UpdateAfter, TakesMessages
  <2> QED
    BY <2>1, <2>2 DEF UpdateThread, BaseInv, TypeOK
<1>7. ASSUME UNCHANGED <<messages, transactions>>,
             \/ status' = status
             \/ status = "none" /\ status' = "waiting"
             \/ status' = "closed"
      PROVE  /\ status' = "none" => DOMAIN messages' = {}
             /\ \A i \in DOMAIN messages' :
                  status' = "waiting" /\ StoreOf[messages'[i].user] = Target
                    => Pending(i)'
             /\ transactions' =>
                  /\ status' = "waiting" => ~ BothAssigned'
                  /\ status' = "open" => Replied' \/ BothAssigned'
  <2>1. (Replied' <=> Replied) /\ (BothAssigned' <=> BothAssigned)
    BY <1>7 DEF Replied, BothAssigned
  <2>2. status = "none" => ~ BothAssigned
    BY <1>1 DEF StatusInv, BothAssigned
  <2>3. transactions' =>
          /\ status' = "waiting" => ~ BothAssigned'
          /\ status' = "open" => Replied' \/ BothAssigned'
    BY <1>1, <1>7, <2>1, <2>2 DEF StatusInv
  <2>4. ASSUME NEW i \in DOMAIN messages', status' = "waiting",
               StoreOf[messages'[i].user] = Target
        PROVE  Pending(i)'
    BY <1>1, <1>2, <1>7, <2>4 DEF StatusInv
  <2> QED
    BY <1>1, <1>7, <2>3, <2>4 DEF StatusInv
<1>8. ASSUME NEW c \in Calls, NEW id \in Ids, Adds(c, id)
      PROVE  /\ status' = "none" => DOMAIN messages' = {}
             /\ \A i \in DOMAIN messages' :
                  status' = "waiting" /\ StoreOf[messages'[i].user] = Target
                    => Pending(i)'
             /\ transactions' =>
                  /\ status' = "waiting" => ~ BothAssigned'
                  /\ status' = "open" => Replied' \/ BothAssigned'
  BY <1>1, <1>3, <1>4, <1>5, <1>8
<1>9. ASSUME NEW c \in Calls, UpdateAfter(c)
      PROVE  /\ status' = "none" => DOMAIN messages' = {}
             /\ \A i \in DOMAIN messages' :
                  status' = "waiting" /\ StoreOf[messages'[i].user] = Target
                    => Pending(i)'
             /\ transactions' =>
                  /\ status' = "waiting" => ~ BothAssigned'
                  /\ status' = "open" => Replied' \/ BothAssigned'
  BY <1>1, <1>2, <1>6, <1>9
<1> QED
  BY <1>7, <1>8, <1>9, ThreadStep DEF BaseInv

LEMMA SummaryInvariant == Spec => [](BaseInv /\ SummaryInv /\ StatusInv)
<1>1. Init => SummaryInv /\ StatusInv
  <2> SUFFICES ASSUME Init PROVE SummaryInv /\ StatusInv
    OBVIOUS
  <2>1. DOMAIN messages = {} /\ last = 0 /\ status = "none"
    BY DEF Init
  <2> QED
    BY <2>1 DEF SummaryInv, StatusInv
<1>2. BaseInv /\ SummaryInv /\ StatusInv /\ [Next]_vars => SummaryInv' /\ StatusInv'
  BY SummaryStep, StatusStep
<1> QED
  BY <1>1, <1>2, BaseInvariant, PTL DEF Spec

\* When no call is half way through its writes, the thread shows its newest
\* message and does not wait after a reply, and with transactions it is open
\* exactly when the messages opened it.
THEOREM ThreadShowsMessages == Spec => []ThreadFollowsMessages
<1>1. ASSUME BaseInv, SummaryInv, StatusInv PROVE ThreadFollowsMessages
  <2> SUFFICES ASSUME Settled, DOMAIN messages # {}
      PROVE  /\ last = Max(DOMAIN messages)
             /\ status = "waiting" => ~ Replied
             /\ transactions =>
                  /\ status = "waiting" => ~ BothAssigned
                  /\ status = "open" => Replied \/ BothAssigned
    BY DEF ThreadFollowsMessages
  <2>1. Undisturbed
    BY DEF Settled, Undisturbed
  <2>2. \A i \in DOMAIN messages : ~ Pending(i)
    BY <1>1 DEF Settled, Pending, BaseInv, PathInv
  <2>3. /\ \A i \in DOMAIN messages : i \in Nat /\ 0 < i /\ i <= last
        /\ last \in DOMAIN messages \cup {0}
    BY <1>1, <2>1, <2>2, AttendanceAssumption
    DEF AttendanceAssumption, SummaryInv, BaseInv, TypeOK, Ids
  <2>4. last \in DOMAIN messages
    <3>1. PICK i \in DOMAIN messages : TRUE
      OBVIOUS
    <3> QED
      BY <2>3, <3>1
  <2>5. ASSUME NEW i \in DOMAIN messages, \A j \in DOMAIN messages : i >= j
        PROVE  i = last
    <3>1. i \in Nat /\ last \in Nat /\ i <= last /\ i >= last
      BY <2>3, <2>4, <2>5
    <3> QED
      BY <3>1
  <2>6. last = Max(DOMAIN messages)
    BY <2>3, <2>4, <2>5 DEF Max
  <2> QED
    BY <1>1, <2>1, <2>2, <2>6 DEF StatusInv, Replied
<1> QED
  BY <1>1, SummaryInvariant, PTL
-----------------------------------------------------------------------------
(* Who receives a message                                                    *)

\* A step is of one call, and only two of them touch what is published.
LEMMA CallOnly ==
  ASSUME TypeOK, NEW c \in Calls, CallStep(c)
  PROVE  /\ \A d \in Calls \ {c} :
              pc'[d] = pc[d] /\ answer'[d] = answer[d] /\ copy'[d] = copy[d]
         /\ pc'[c] = "publish" => Describe(c)
         /\ pc'[c] = "ok" => Publish(c)
         /\ Publish(c) \/ received' = received
<1>1. CASE Describe(c)
  BY <1>1 DEF Describe, Goes, TypeOK
<1>2. CASE Publish(c)
  BY <1>2 DEF Publish, Goes, TypeOK
<1>3. CASE ~ Describe(c) /\ ~ Publish(c)
  <2>1. /\ \A d \in Calls \ {c} :
             pc'[d] = pc[d] /\ answer'[d] = answer[d] /\ copy'[d] = copy[d]
        /\ received' = received
    BY <1>3 DEF CallStep, Send, Find, Found, Authorize, Allow, ReadSetting,
       EnsureThread, CreateThread, Enter, InsertDuplicate, Commit, Assign, Reread,
       InsertMessage, UpdateAfter, Lose, Goes, TypeOK
  <2>2. pc'[c] \notin {"publish", "ok"}
    BY <1>3 DEF CallStep, Send, Find, Found, Authorize, Allow, ReadSetting,
       EnsureThread, CreateThread, Enter, InsertDuplicate, Commit, Assign, Reread,
       InsertMessage, UpdateAfter, Lose, Goes, TypeOK
  <2> QED
    BY <2>1, <2>2
<1> QED
  BY <1>1, <1>2, <1>3

LEMMA MessagesStay ==
  ASSUME BaseInv, [Next]_vars, NEW i \in DOMAIN messages
  PROVE  i \in DOMAIN messages' /\ messages'[i] = messages[i]
BY MessagesStep, AddedMessage DEF BaseInv

\* What a publication adds to the receivers of its message.
LEMMA Published ==
  ASSUME BaseInv, NEW c \in Calls, Publish(c)
  PROVE  /\ pc[c] = "publish"
         /\ answer[c] \in Ids
         /\ received'[answer[c]] =
              received[answer[c]] \cup {messages[answer[c]].user}
                \cup UNION {VisibleTo(s, copy[c]) : s \in Stores}
         /\ \A i \in Ids \ {answer[c]} : received'[i] = received[i]
         /\ UNCHANGED <<messages, responsible, setting, copy, answer>>
<1>1. answer[c] \in Ids /\ received \in [Ids -> SUBSET Users]
  BY DEF Publish, BaseInv, TypeOK, CallsInv, Answered
<1>2. received' = [received EXCEPT ![answer[c]] =
        @ \cup {messages[answer[c]].user}
          \cup UNION {VisibleTo(s, copy[c]) : s \in Stores}]
  BY DEF Publish
<1> QED
  BY <1>1, <1>2 DEF Publish, threadVars

LEMMA UnsentStep ==
  ASSUME BaseInv, UnsentInv, [Next]_vars
  PROVE  UnsentInv'
<1>1. ASSUME NEW c \in Calls, Publish(c) PROVE UnsentInv'
  <2>1. answer[c] \in DOMAIN messages
    BY <1>1 DEF Publish, BaseInv, CallsInv, Answered
  <2> QED
    BY <1>1, <2>1, Published DEF UnsentInv
<1>2. CASE received' = received
  BY <1>2, MessagesStay DEF UnsentInv
<1>3. ASSUME NEW c \in Calls, CallStep(c) PROVE Publish(c) \/ received' = received
  BY <1>3, CallOnly DEF BaseInv
<1> QED
  BY <1>1, <1>2, <1>3 DEF Next, Transfer, ChangeSetting, CloseThread, vars

LEMMA PublishStep ==
  ASSUME BaseInv, OneVoice, SidesInv, PublishInv, UnsentInv,
         [Next]_vars, changes = 0, changes' = 0
  PROVE  PublishInv'
<1> SUFFICES ASSUME NEW s \in Stores, setting'[s]
    PROVE  /\ \A c \in Calls : Ready(c, s)' /\ Reached(c, s)'
           /\ \A i \in DOMAIN messages' : Spared(i, s)'
  BY DEF PublishInv
<1>1. /\ setting[s]
      /\ \/ responsible'[s] = responsible[s]
         \/ /\ responsible[s] = None
            /\ responsible'[s] # None
            /\ StoreOf[responsible'[s]] = s
      /\ responsible'[s] # None => responsible'[s] \in SellersOf(s)
  <2>1. TypeOK'
    BY TypeStep DEF BaseInv
  <2>2. responsible'[s] # None => responsible'[s] \in Users /\ StoreOf[responsible'[s]] = s
    BY <2>1, SidesStep DEF TypeOK, Responsibles, SidesInv
  <2> QED
    BY <2>2, Quiet DEF SellersOf
<1>2. /\ \A c \in Calls : Ready(c, s) /\ Reached(c, s)
      /\ \A i \in DOMAIN messages : Spared(i, s)
  BY <1>1 DEF PublishInv
<1>3. ASSUME NEW i \in Ids PROVE received[i] \subseteq received'[i]
  <2>1. ASSUME NEW c \in Calls, Publish(c) PROVE received[i] \subseteq received'[i]
    BY <2>1, Published
  <2>2. ASSUME NEW c \in Calls, CallStep(c) PROVE Publish(c) \/ received' = received
    BY <2>2, CallOnly DEF BaseInv
  <2> QED
    BY <2>1, <2>2 DEF Next, Transfer, ChangeSetting, CloseThread, vars
<1>4. ASSUME NEW c \in Calls, pc'[c] = pc[c], answer'[c] = answer[c], copy'[c] = copy[c]
      PROVE  Ready(c, s)' /\ Reached(c, s)'
  <2>1. ASSUME pc[c] \in {"publish", "ok"}
        PROVE  /\ answer[c] \in Ids
               /\ messages'[answer[c]] = messages[answer[c]]
               /\ received[answer[c]] \subseteq received'[answer[c]]
    BY <1>3, <2>1, MessagesStay DEF BaseInv, CallsInv, Answered, TypeOK
  <2>2. Ready(c, s)'
    BY <1>1, <1>2, <1>4, <2>1 DEF Ready
  <2>3. Reached(c, s)'
    BY <1>1, <1>2, <1>4, <2>1 DEF Reached
  <2> QED
    BY <2>2, <2>3
<1>5. ASSUME NEW c \in Calls, Describe(c) PROVE Ready(c, s)' /\ Reached(c, s)'
  <2>1. /\ pc'[c] = "publish"
        /\ copy'[c][s] = responsible[s]
        /\ responsible' = responsible
        /\ messages' = messages
        /\ answer' = answer
        /\ answer[c] \in DOMAIN messages
    BY <1>1, <1>5
    DEF Describe, Goes, threadVars, BaseInv, TypeOK, CallsInv, Answered
  <2> QED
    BY <2>1 DEF Ready, Reached, SidesInv
<1>6. ASSUME NEW c \in Calls, Publish(c) PROVE Ready(c, s)' /\ Reached(c, s)'
  <2>1. /\ pc[c] = "publish"
        /\ pc'[c] = "ok"
        /\ answer'[c] = answer[c]
        /\ responsible' = responsible
    BY <1>6, Published DEF Publish, Goes, BaseInv, TypeOK
  <2>2. VisibleTo(s, copy[c]) \subseteq received'[answer[c]]
    BY <1>6, Published
  <2>3. copy[c][s] \in {None, responsible[s]}
    BY <1>2, <2>1 DEF Ready
  <2>4. Reached(c, s)'
    BY <1>1, <2>1, <2>2, <2>3 DEF Reached, SellersOf, VisibleTo
  <2> QED
    BY <2>1, <2>4 DEF Ready
<1>7. ASSUME NEW c \in Calls, Publish(c), NEW i \in DOMAIN messages' PROVE Spared(i, s)'
  <2>1. messages' = messages /\ i \in Ids
    BY <1>7, Published DEF BaseInv, TypeOK
  <2>2. CASE i # answer[c]
    BY <1>2, <1>7, <2>1, <2>2, Published DEF Spared
  <2>3. CASE i = answer[c]
    <3> SUFFICES ASSUME messages[i].sides[s] # None,
                        NEW u \in received'[i], u \in SellersOf(s)
        PROVE  u = messages[i].sides[s]
      BY <2>1 DEF Spared
    <3>1. copy[c][s] = messages[i].sides[s] /\ responsible[s] = messages[i].sides[s]
      BY <1>2, <1>7, <2>1, <2>3, Published DEF Ready, SidesInv
    <3>2. \/ u \in received[i]
          \/ u = messages[i].user
          \/ \E t \in Stores : u \in VisibleTo(t, copy[c])
      BY <1>7, <2>3, Published
    <3>3. CASE u \in received[i]
      BY <1>2, <2>1, <3>3 DEF Spared
    <3>4. CASE u = messages[i].user
      BY <1>1, <2>1, <3>1, <3>4 DEF OneVoice, SellersOf
    <3>5. CASE \E t \in Stores : u \in VisibleTo(t, copy[c])
      BY <3>1, <3>5 DEF VisibleTo, SellersOf
    <3> QED
      BY <3>2, <3>3, <3>4, <3>5
  <2> QED
    BY <2>2, <2>3
<1>8. ASSUME received' = received, NEW i \in DOMAIN messages' PROVE Spared(i, s)'
  <2>1. CASE i \in DOMAIN messages
    BY <1>2, <1>8, <2>1, MessagesStay DEF Spared
  <2>2. CASE i \notin DOMAIN messages
    <3>1. i \in Ids
      BY <1>8, TypeStep DEF BaseInv, TypeOK
    <3> QED
      BY <1>8, <2>2, <3>1 DEF Spared, UnsentInv
  <2> QED
    BY <2>1, <2>2
<1>9. ASSUME NEW c \in Calls, CallStep(c), NEW d \in Calls
      PROVE  Ready(d, s)' /\ Reached(d, s)'
  <2>1. CASE d # c
    BY <1>4, <1>9, <2>1, CallOnly DEF BaseInv
  <2>2. CASE d = c
    BY <1>5, <1>6, <1>9, <2>2, CallOnly DEF BaseInv, Ready, Reached
  <2> QED
    BY <2>1, <2>2
<1>10. ASSUME NEW c \in Calls, CallStep(c) PROVE Publish(c) \/ received' = received
  BY <1>10, CallOnly DEF BaseInv
<1>11. ASSUME NEW t \in Stores, Transfer(t) \/ ChangeSetting(t)
       PROVE  UNCHANGED <<callVars, received>>
  BY <1>11 DEF Transfer, ChangeSetting
<1>12. CloseThread \/ UNCHANGED vars => UNCHANGED <<callVars, received>>
  BY DEF CloseThread, vars
<1> QED
  BY <1>4, <1>7, <1>8, <1>9, <1>10, <1>11, <1>12 DEF Next, callVars

LEMMA PublishInvariant == Spec => [](BaseInv /\ VoiceInv /\ PublishInv /\ UnsentInv)
<1>1. Init => PublishInv /\ UnsentInv
  BY DEF Init, PublishInv, Ready, Reached, Spared, UnsentInv
<1>2. ASSUME BaseInv, VoiceInv, PublishInv, UnsentInv, [Next]_vars
      PROVE  PublishInv' /\ UnsentInv'
  <2>1. ASSUME changes' = 0 PROVE PublishInv'
    <3>1. changes = 0
      BY <1>2, <2>1, Quiet
    <3> QED
      BY <1>2, <2>1, <3>1, PublishStep DEF VoiceInv
  <2> QED
    BY <1>2, <2>1, UnsentStep DEF PublishInv
<1> QED
  BY <1>1, <1>2, VoiceInvariant, PTL DEF Spec

\* The publication of an acknowledged message has reached the responsible of each
\* side in single-attendant mode, and nobody else of a side that had one when the
\* message was stored.
THEOREM SellersSeeTheirs == Spec => []VisibilityIsRight
<1>1. ASSUME BaseInv, VoiceInv, PublishInv PROVE VisibilityIsRight
  <2> SUFFICES ASSUME changes = 0, NEW c \in Calls, pc[c] = "ok",
                      NEW s \in Stores, setting[s]
      PROVE  LET sellers == {u \in received[answer[c]] : StoreOf[u] = s}
                 before == messages[answer[c]].sides[s]
             IN /\ responsible[s] # None => responsible[s] \in sellers
                /\ before # None => sellers = {before}
    BY DEF VisibilityIsRight
  <2> DEFINE i == answer[c]
             sellers == {u \in received[i] : StoreOf[u] = s}
             before == messages[i].sides[s]
  <2>1. i \in DOMAIN messages /\ i \in Ids /\ received[i] \subseteq Users
    BY <1>1 DEF BaseInv, CallsInv, Answered, TypeOK
  <2>2. Reached(c, s) /\ Spared(i, s)
    BY <1>1, <2>1 DEF PublishInv
  <2>3. SidesInv
    BY <1>1 DEF VoiceInv
  <2>4. sellers = received[i] \cap SellersOf(s)
    BY <2>1 DEF SellersOf
  <2>5. responsible[s] # None => responsible[s] \in sellers
    BY <2>2, <2>3 DEF Reached, SidesInv
  <2>6. before # None => sellers = {before}
    <3>1. before # None => responsible[s] = before
      BY <2>1, <2>3 DEF SidesInv
    <3> QED
      BY <2>2, <2>4, <2>5, <3>1 DEF Spared
  <2> QED
    BY <2>5, <2>6
<1> QED
  BY <1>1, PublishInvariant, PTL

=============================================================================
