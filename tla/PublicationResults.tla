------------------------- MODULE PublicationResults -------------------------
(***************************************************************************)
(* POST /internal/publication-results for one idempotency key: the HTTP    *)
(* handler of http/app.ts and the receipts of                              *)
(* repositories/publication_result_repository.ts.  The Queue may send the  *)
(* same result many times and to many server processes, so every request   *)
(* is a process of its own; between any two of its awaits the others run.  *)
(*                                                                         *)
(* A request resolves the canonical inventory_item_integrations document,  *)
(* claims the receipt, persists the error notification, emits              *)
(* publication:result and notification:new, and marks the receipt          *)
(* published.  MongoDB may fail any operation, before or after applying    *)
(* it; the process of a request may crash; the TTL index removes receipts. *)
(***************************************************************************)
EXTENDS Naturals, FiniteSets

CONSTANTS
  Requests,      \* HTTP requests; each takes one claim_id, so r names its claim
  Bodies,        \* what tells two inputs of the same key apart (finished_at...)
  Messages,      \* error texts of the canonical document
  LockTimeout,   \* the 60 s after which a publishing receipt may be reclaimed
  ReceiptLife,   \* the 7 days of expires_at
  MaxTime,       \* bound on the clock
  MaxWrites,     \* bound on the writes of the canonical document
  MaxFaults      \* bound on MongoDB failures and crashes together

ASSUME ClockAssumption ==
  /\ LockTimeout \in Nat \ {0}
  /\ ReceiptLife \in Nat \ {0}
  /\ MaxTime \in Nat

ASSUME BudgetAssumption == MaxWrites \in Nat /\ MaxFaults \in Nat

VARIABLES
  doc,       \* the canonical document, written by the Queue
  receipt,   \* the row of websocket_publication_result_receipts, or NoReceipt
  note,      \* the persisted listing_error notification, or NoNote
  now,       \* the clock
  writes,    \* writes of doc so far
  faults,    \* failures so far
  pc,        \* where each request stands
  input,     \* its parsed payload
  snapshot,  \* the document it resolved
  at,        \* "now" as its claim() read it
  born,      \* created_at of the receipt it claimed
  seen,      \* the receipt claim() read after a duplicate key
  outcome,   \* the answer it sends
  emitted,   \* requests that emitted publication:result
  notified   \* requests that emitted notification:new

requestVars == <<pc, input, snapshot, at, born, seen, outcome>>
vars == <<doc, receipt, note, now, writes, faults, requestVars,
          emitted, notified>>

-----------------------------------------------------------------------------
(* Values *)

Statuses == {"active", "error"}
Input == [status : Statuses, body : Bodies]

\* The execution_id of the document: the one of the result, another attempt
\* of the same event and delivery, or something else.
Executions == {"same", "other_attempt", "other"}

NoMessage == "no_message"
NoDoc == [status |-> "missing", execution |-> "other", message |-> NoMessage]
Docs ==
  {NoDoc}
    \cup [status : {"processing", "active", "paused"}, execution : Executions,
          message : {NoMessage}]
    \cup [status : {"error"}, execution : Executions, message : Messages]

Time == 0..MaxTime
NoReceipt == [state |-> "none"]
Receipts == [state : {"publishing", "published"}, input : Input,
             claim : Requests, locked_at : Time, created_at : Time]

NoNote == [message |-> NoMessage]
Notes == [body : Bodies, message : Messages]

Phases == {"idle", "resolve", "insert", "read", "reclaim", "notify", "emit",
           "emit_note", "mark", "release", "done", "crashed"}
Running == Phases \ {"idle", "done", "crashed"}
\* from a successful claim to the end of the try block
Claimed == {"notify", "emit", "emit_note", "mark"}
Outcomes == {"none", "published", "duplicate", "suppressed", "not_ready",
             "in_flight", "conflict", "failed"}

-----------------------------------------------------------------------------
Init ==
  /\ doc \in Docs
  /\ receipt = NoReceipt
  /\ note = NoNote
  /\ now = 0
  /\ writes = 0
  /\ faults = 0
  /\ pc = [r \in Requests |-> "idle"]
  /\ input \in [Requests -> Input]
  /\ snapshot = [r \in Requests |-> NoDoc]
  /\ at = [r \in Requests |-> 0]
  /\ born = [r \in Requests |-> 0]
  /\ seen = [r \in Requests |-> NoReceipt]
  /\ outcome = [r \in Requests |-> "none"]
  /\ emitted = {}
  /\ notified = {}

Goto(r, phase) == pc' = [pc EXCEPT ![r] = phase]
Answer(r, reply) == Goto(r, "done") /\ outcome' = [outcome EXCEPT ![r] = reply]
\* catch, once there is a claim: release it, then answer
Throw(r, reply) == Goto(r, "release") /\ outcome' = [outcome EXCEPT ![r] = reply]

-----------------------------------------------------------------------------
(* resolve() *)

Receive(r) ==
  /\ pc[r] = "idle"
  /\ Goto(r, "resolve")
  /\ UNCHANGED <<doc, receipt, note, now, writes, faults, input, snapshot, at,
                 born, seen, outcome, emitted, notified>>

\* What resolve() makes of the document for this input.
Resolution(d, in) ==
  IF d = NoDoc THEN "suppressed"
  ELSE IF d.status = "processing"
    THEN IF d.execution = "other" THEN "suppressed" ELSE "not_ready"
  ELSE IF d.status \in Statuses /\ d.execution = "same" /\ d.status = in.status
    THEN "accepted"
  ELSE "suppressed"

Resolve(r) ==
  /\ pc[r] = "resolve"
  /\ LET resolution == Resolution(doc, input[r]) IN
       IF resolution = "accepted"
         THEN /\ snapshot' = [snapshot EXCEPT ![r] = doc]
              /\ at' = [at EXCEPT ![r] = now]
              /\ Goto(r, "insert")
              /\ UNCHANGED outcome
         ELSE Answer(r, resolution) /\ UNCHANGED <<snapshot, at>>
  /\ UNCHANGED <<doc, receipt, note, now, writes, faults, input, born, seen,
                 emitted, notified>>

-----------------------------------------------------------------------------
(* claim() *)

\* Mutant: locked_at holds the end of the lock, not its start.
FreshLockedUntil(r) == [state |-> "publishing", input |-> input[r], claim |-> r,
                        locked_at |-> at[r] + LockTimeout, created_at |-> at[r]]

Fresh(r) == [state |-> "publishing", input |-> input[r], claim |-> r,
             locked_at |-> at[r], created_at |-> at[r]]

Insert(r) ==
  /\ pc[r] = "insert"
  /\ IF receipt = NoReceipt
       THEN /\ receipt' = Fresh(r)
            /\ born' = [born EXCEPT ![r] = at[r]]
            /\ Goto(r, "notify")
       ELSE Goto(r, "read") /\ UNCHANGED <<receipt, born>>
  /\ UNCHANGED <<doc, note, now, writes, faults, input, snapshot, at, seen,
                 outcome, emitted, notified>>

\* Mutant: a reused key with another payload counts as a duplicate.
ReadVerdictAnyInput(existing, in, started) ==
  CASE existing = NoReceipt -> "in_flight"
    [] existing.state = "published" -> "duplicate"
    [] OTHER -> IF existing.locked_at + LockTimeout > started
                  THEN "in_flight" ELSE "reclaim"

\* Mutant: any publishing receipt may be taken over.
ReadVerdictNoLock(existing, in, started) ==
  CASE existing = NoReceipt -> "in_flight"
    [] existing.input # in -> "conflict"
    [] existing.state = "published" -> "duplicate"
    [] OTHER -> "reclaim"

\* Mutant: a publishing receipt is never taken over.
ReadVerdictNoReclaim(existing, in, started) ==
  CASE existing = NoReceipt -> "in_flight"
    [] existing.input # in -> "conflict"
    [] existing.state = "published" -> "duplicate"
    [] OTHER -> "in_flight"

\* The fingerprint is a digest of the whole input; locked_at is compared with
\* the clock read when claim() began.
ReadVerdict(existing, in, started) ==
  IF existing = NoReceipt THEN "in_flight"
  ELSE IF existing.input # in THEN "conflict"
  ELSE IF existing.state = "published" THEN "duplicate"
  ELSE IF existing.locked_at + LockTimeout > started THEN "in_flight"
  ELSE "reclaim"

Read(r) ==
  /\ pc[r] = "read"
  /\ LET verdict == ReadVerdict(receipt, input[r], at[r]) IN
       IF verdict = "reclaim"
         THEN /\ seen' = [seen EXCEPT ![r] = receipt]
              /\ Goto(r, "reclaim")
              /\ UNCHANGED outcome
         ELSE Answer(r, verdict) /\ UNCHANGED seen
  /\ UNCHANGED <<doc, receipt, note, now, writes, faults, input, snapshot, at,
                 born, emitted, notified>>

\* Mutant: the filter forgets the claim_id, so two readers may both reclaim.
ReclaimableAnyClaim(existing, r) ==
  /\ existing # NoReceipt
  /\ existing.state = "publishing"
  /\ existing.input = input[r]

\* The findOneAndUpdate filter of claim(): the same row, still publishing, the
\* same fingerprint and the claim_id that was read.
Reclaimable(existing, r) ==
  /\ existing # NoReceipt
  /\ existing.state = "publishing"
  /\ existing.input = input[r]
  /\ existing.claim = seen[r].claim

Taken(r) == [receipt EXCEPT !.claim = r, !.locked_at = at[r]]

Reclaim(r) ==
  /\ pc[r] = "reclaim"
  /\ IF Reclaimable(receipt, r)
       THEN /\ receipt' = Taken(r)
            /\ born' = [born EXCEPT ![r] = receipt.created_at]
            /\ Goto(r, "notify")
            /\ UNCHANGED outcome
       ELSE Answer(r, "in_flight") /\ UNCHANGED <<receipt, born>>
  /\ UNCHANGED <<doc, note, now, writes, faults, input, snapshot, at, seen,
                 emitted, notified>>

-----------------------------------------------------------------------------
(* The claimed part of the handler *)

\* create_notification is a get-or-insert on a unique index: whoever inserts
\* first fixes the content, and a different content is a conflict.
NoteOf(r) == [body |-> input[r].body, message |-> snapshot[r].message]

\* Mutant: the stored notification of the key is taken as it is.
CreateNotificationOfKey(r) ==
  /\ pc[r] = "notify"
  /\ IF snapshot[r].status = "error" /\ note = NoNote
       THEN note' = NoteOf(r) ELSE UNCHANGED note
  /\ Goto(r, "emit")
  /\ UNCHANGED <<doc, receipt, now, writes, faults, input, snapshot, at, born,
                 seen, outcome, emitted, notified>>

CreateNotification(r) ==
  /\ pc[r] = "notify"
  /\ IF snapshot[r].status = "error"
       THEN IF note \in {NoNote, NoteOf(r)}
              THEN note' = NoteOf(r) /\ Goto(r, "emit") /\ UNCHANGED outcome
              ELSE Throw(r, "conflict") /\ UNCHANGED note
       ELSE Goto(r, "emit") /\ UNCHANGED <<note, outcome>>
  /\ UNCHANGED <<doc, receipt, now, writes, faults, input, snapshot, at, born,
                 seen, emitted, notified>>

EmitResult(r) ==
  /\ pc[r] = "emit"
  /\ emitted' = emitted \cup {r}
  /\ Goto(r, IF snapshot[r].status = "error" THEN "emit_note" ELSE "mark")
  /\ UNCHANGED <<doc, receipt, note, now, writes, faults, input, snapshot, at,
                 born, seen, outcome, notified>>

\* publish_notification: the cache invalidation it awaits first never rejects.
EmitNotification(r) ==
  /\ pc[r] = "emit_note"
  /\ notified' = notified \cup {r}
  /\ Goto(r, "mark")
  /\ UNCHANGED <<doc, receipt, note, now, writes, faults, input, snapshot, at,
                 born, seen, outcome, emitted>>

\* The filter shared by mark_published and release.
Holds(r) ==
  /\ receipt # NoReceipt
  /\ receipt.state = "publishing"
  /\ receipt.input = input[r]
  /\ receipt.claim = r

Published == [receipt EXCEPT !.state = "published", !.locked_at = 0]

MarkPublished(r) ==
  /\ pc[r] = "mark"
  /\ IF Holds(r)
       THEN receipt' = Published /\ Answer(r, "published")
       ELSE Throw(r, "failed") /\ UNCHANGED receipt
  /\ UNCHANGED <<doc, note, now, writes, faults, input, snapshot, at, born,
                 seen, emitted, notified>>

\* Mutant: release forgets the state filter.
ReleasedAnyState(r) ==
  IF receipt # NoReceipt /\ receipt.claim = r THEN NoReceipt ELSE receipt

\* Mutant: release deletes by key, whoever holds the claim.
ReleasedAnyClaim(r) ==
  IF receipt # NoReceipt /\ receipt.state = "publishing"
    THEN NoReceipt ELSE receipt

Released(r) == IF Holds(r) THEN NoReceipt ELSE receipt

Release(r) ==
  /\ pc[r] = "release"
  /\ receipt' = Released(r)
  /\ Goto(r, "done")
  /\ UNCHANGED <<doc, note, now, writes, faults, input, snapshot, at, born,
                 seen, outcome, emitted, notified>>

-----------------------------------------------------------------------------
(* Failures *)

\* What the operation a request awaits may have done although it rejects.
Applied(r) ==
  /\ receipt' \in
       {receipt} \cup
       (CASE pc[r] = "insert" /\ receipt = NoReceipt -> {Fresh(r)}
          [] pc[r] = "reclaim" /\ Reclaimable(receipt, r) -> {Taken(r)}
          [] pc[r] = "mark" /\ Holds(r) -> {Published}
          [] pc[r] = "release" -> {Released(r)}
          [] OTHER -> {})
  /\ note' \in
       {note} \cup
       (IF pc[r] = "notify" /\ note = NoNote /\ snapshot[r].status = "error"
          THEN {NoteOf(r)} ELSE {})

\* A MongoDB operation rejects.  Without a claim_id the handler just answers;
\* with one it releases the claim; a failed release is logged and forgotten.
MongoFails(r) ==
  /\ faults < MaxFaults
  /\ pc[r] \in {"resolve", "insert", "read", "reclaim", "notify", "mark", "release"}
  /\ pc[r] = "notify" => snapshot[r].status = "error"
  /\ faults' = faults + 1
  /\ Applied(r)
  /\ CASE pc[r] \in Claimed -> Throw(r, "failed")
       [] pc[r] = "release" -> Goto(r, "done") /\ UNCHANGED outcome
       [] OTHER -> Answer(r, "failed")
  /\ UNCHANGED <<doc, now, writes, input, snapshot, at, born, seen, emitted,
                 notified>>

\* The server process of r dies: no answer, and whatever it held stays.
Crash(r) ==
  /\ faults < MaxFaults
  /\ pc[r] \in Running
  /\ faults' = faults + 1
  /\ Goto(r, "crashed")
  /\ UNCHANGED <<doc, receipt, note, now, writes, input, snapshot, at, born,
                 seen, outcome, emitted, notified>>

-----------------------------------------------------------------------------
(* The environment *)

\* The Queue rewrites the canonical document: another attempt starts, this one
\* finishes, the link is paused or removed.
QueueWrites ==
  /\ writes < MaxWrites
  /\ doc' \in Docs \ {doc}
  /\ writes' = writes + 1
  /\ UNCHANGED <<receipt, note, now, faults, requestVars, emitted, notified>>

Tick ==
  /\ now < MaxTime
  /\ now' = now + 1
  /\ UNCHANGED <<doc, receipt, note, writes, faults, requestVars, emitted,
                 notified>>

\* The TTL index on expires_at; MongoDB removes the row some time after it.
Expire ==
  /\ receipt # NoReceipt
  /\ receipt.created_at + ReceiptLife <= now
  /\ receipt' = NoReceipt
  /\ UNCHANGED <<doc, note, now, writes, faults, requestVars, emitted,
                 notified>>

-----------------------------------------------------------------------------
Step(r) ==
  \/ Receive(r) \/ Resolve(r) \/ Insert(r) \/ Read(r) \/ Reclaim(r)
  \/ CreateNotification(r) \/ EmitResult(r) \/ EmitNotification(r)
  \/ MarkPublished(r) \/ Release(r)

Next ==
  \/ \E r \in Requests : Step(r) \/ MongoFails(r) \/ Crash(r)
  \/ QueueWrites \/ Tick \/ Expire

Spec == Init /\ [][Next]_vars

\* Node runs every ready continuation, and MongoDB operations settle.
FairSpec == Spec /\ \A r \in Requests : WF_vars(Step(r))

-----------------------------------------------------------------------------
(* Properties *)

TypeOK ==
  /\ doc \in Docs
  /\ receipt \in Receipts \cup {NoReceipt}
  /\ note \in Notes \cup {NoNote}
  /\ now \in Time
  /\ writes \in 0..MaxWrites
  /\ faults \in 0..MaxFaults
  /\ pc \in [Requests -> Phases]
  /\ input \in [Requests -> Input]
  /\ snapshot \in [Requests -> Docs]
  /\ at \in [Requests -> Time]
  /\ born \in [Requests -> Time]
  /\ seen \in [Requests -> Receipts \cup {NoReceipt}]
  /\ outcome \in [Requests -> Outcomes]
  /\ emitted \in SUBSET Requests
  /\ notified \in SUBSET Requests

\* What the Queue and the site rely on: the result of this input went out and,
\* for an error, its notification is persisted and went out too.
Deliverers ==
  {r \in emitted : input[r].status = "error" => r \in notified /\ note # NoNote}
Delivered(in) == \E r \in Deliverers : input[r] = in

\* A published receipt stands for a delivery that happened, whoever crashed,
\* was reclaimed or lost the answer of a write (mark_published comes last).
PublishedMeansDelivered ==
  receipt # NoReceipt /\ receipt.state = "published" => Delivered(receipt.input)

\* The Queue stops after a 202 "published" or "duplicate_publication_result",
\* so each of the two must rest on a delivery of exactly that input, by this
\* request or by another one.
AcceptedMeansDelivered ==
  \A r \in Requests :
    pc[r] = "done" /\ outcome[r] \in {"published", "duplicate"}
      => Delivered(input[r])

\* The endpoint implements what DeliveryLog promises the Queue: nothing is
\* answered "published" or "duplicate" of an input that did not go out, by the
\* request itself or by another one, whatever fails, crashes or is reclaimed,
\* and an answer is final.
ReplyOf(r) ==
  IF pc[r] = "crashed" THEN "lost"
  ELSE IF pc[r] # "done" THEN "none"
  ELSE IF outcome[r] \in {"published", "duplicate"} THEN outcome[r]
  ELSE "refused"

Log == INSTANCE DeliveryLog WITH
  Inputs <- Input,
  asked <- input,
  delivered <- Deliverers,
  reply <- [r \in Requests |-> ReplyOf(r)]

KeepsPromise == Log!LogSpec

\* Clients keep the first event of a key and drop the rest, and correlate it
\* with the notification by that key (docs/PUBLICATION_RESULTS.md, client
\* steps 2 and 5).  So all error results ever emitted under the key, and the
\* notification stored under it, tell one error: whatever the Queue writes
\* between resolve() and the emission, or between an attempt that failed or
\* died and its retry, and whichever request stores the notification first.
ReportsAgree ==
  \A r \in emitted : input[r].status = "error" => note = NoteOf(r)

Lapsed(r) == at[r] + LockTimeout <= now \/ born[r] + ReceiptLife <= now

\* Two requests hold the claim at once only when one of them outlived its lock
\* or its receipt outlived the TTL: the claim is a lease.
ClaimIsALease ==
  \A r, q \in Requests :
    r # q /\ pc[r] \in Claimed /\ pc[q] \in Claimed => Lapsed(r) \/ Lapsed(q)

\* A result goes out a second time only after a failure or a crash of the
\* request that emitted it, or a lease that lapsed: a plain duplicate delivery
\* never re-emits (docs/PUBLICATION_RESULTS.md, "Cerca de execução").
ReemitsOnlyAfterLoss ==
  [][\A r \in emitted' \ emitted, q \in emitted :
       \/ pc[q] = "crashed" \/ outcome[q] = "failed"
       \/ Lapsed(q) \/ Lapsed(r)]_vars

\* Nothing takes back a published receipt before its seven days are over: not
\* a late release, not a reclaim whose read is old, not a second insert.
PublishedIsFinal ==
  [][receipt # NoReceipt /\ receipt.state = "published"
       => receipt' = receipt
          \/ (receipt' = NoReceipt /\ receipt.created_at + ReceiptLife <= now)
    ]_vars

\* A request ends a receipt of another one only by reclaiming it after the
\* lock time: a release never deletes the claim of somebody else.
OthersClaimIsKept ==
  [][\A r \in Requests :
       /\ Holds(r)
       /\ pc'[r] = pc[r]
       /\ ~ Lapsed(r)
       /\ pc[r] \in Claimed
       => receipt' = receipt]_vars

\* r begins its claim when every other request is over or dead and its lock
\* time has passed, and nothing fails any more.
AloneAfterLosses(r) ==
  /\ pc[r] = "insert"
  /\ faults = MaxFaults
  /\ \A q \in Requests \ {r} : /\ pc[q] \in {"done", "crashed"}
                               /\ at[q] + LockTimeout <= at[r]

\* Crash recovery: such a request is never turned away with 425 because of a
\* claim that a dead request left; it delivers, or finds the delivery or a
\* conflict, unless it is itself slower than its lease.
RecoversAfterCrash ==
  \A r \in Requests :
    AloneAfterLosses(r)
      ~> \/ pc[r] = "done" /\ outcome[r] \in {"published", "duplicate", "conflict"}
         \/ Lapsed(r)

=============================================================================
