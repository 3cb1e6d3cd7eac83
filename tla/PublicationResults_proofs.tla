---------------------- MODULE PublicationResults_proofs ----------------------
(***************************************************************************)
(* Proofs about PublicationResults, for any number of requests, payloads   *)
(* and error texts, any lock time and receipt life, and any bounds.        *)
(***************************************************************************)
EXTENDS PublicationResults, TLAPS

-----------------------------------------------------------------------------
(* What the operators of the model return *)

LEMMA ResolutionRange ==
  ASSUME NEW d, NEW in
  PROVE  Resolution(d, in) \in {"accepted", "suppressed", "not_ready"}
  BY DEF Resolution

\* The fence: an accepted document is the same execution, in that status.
LEMMA ResolutionFence ==
  ASSUME NEW d, NEW in, Resolution(d, in) = "accepted"
  PROVE  d.execution = "same" /\ d.status = in.status /\ d.status \in Statuses
  BY DEF Resolution

LEMMA ReadVerdictRange ==
  ASSUME NEW e, NEW in, NEW t
  PROVE  ReadVerdict(e, in, t)
           \in {"in_flight", "conflict", "duplicate", "reclaim"}
  BY DEF ReadVerdict

LEMMA NoReceiptIsNone == NoReceipt \notin Receipts
  BY DEF NoReceipt, Receipts

LEMMA NoNoteIsNone == NoNote \notin Notes
  BY DEF NoNote, Notes

LEMMA FreshType ==
  ASSUME TypeOK, NEW r \in Requests
  PROVE  Fresh(r) \in Receipts
  BY DEF TypeOK, Fresh, Receipts

LEMMA TakenType ==
  ASSUME TypeOK, receipt \in Receipts, NEW r \in Requests
  PROVE  Taken(r) \in Receipts
  BY DEF TypeOK, Taken, Receipts

LEMMA PublishedType ==
  ASSUME receipt \in Receipts
  PROVE  Published \in Receipts
<1>1. 0 \in Time
  BY ClockAssumption DEF ClockAssumption, Time
<1> QED
  BY <1>1 DEF Published, Receipts

\* Only an error document is the source of a notification.
LEMMA NoteType ==
  ASSUME TypeOK, NEW r \in Requests, snapshot[r].status = "error"
  PROVE  NoteOf(r) \in Notes
<1>1. snapshot[r] \in Docs /\ input[r] \in Input
  BY DEF TypeOK
<1>2. snapshot[r].message \in Messages
  BY <1>1 DEF Docs, NoDoc
<1>3. input[r].body \in Bodies
  BY <1>1 DEF Input
<1> QED
  BY <1>2, <1>3 DEF NoteOf, Notes

-----------------------------------------------------------------------------
(* Type correctness *)

\* What a failing operation leaves in the two collections.
LEMMA AppliedType ==
  ASSUME TypeOK, NEW r \in Requests, Applied(r)
  PROVE  receipt' \in Receipts \cup {NoReceipt} /\ note' \in Notes \cup {NoNote}
<1>1. receipt' \in Receipts \cup {NoReceipt}
  <2>1. CASE receipt' = receipt
    BY <2>1 DEF TypeOK
  <2>2. CASE receipt' = Fresh(r)
    BY <2>2, FreshType
  <2>3. CASE Reclaimable(receipt, r) /\ receipt' = Taken(r)
    BY <2>3, TakenType DEF TypeOK, Reclaimable
  <2>4. CASE Holds(r) /\ receipt' = Published
    BY <2>4, PublishedType DEF TypeOK, Holds
  <2>5. CASE receipt' = Released(r)
    BY <2>5 DEF TypeOK, Released
  <2> QED
    BY <2>1, <2>2, <2>3, <2>4, <2>5 DEF Applied
<1>2. note' \in Notes \cup {NoNote}
  BY NoteType DEF Applied, TypeOK
<1> QED
  BY <1>1, <1>2

\* Every variable keeps its type.
THEOREM TypeCorrect == Spec => []TypeOK
<1> USE ClockAssumption, BudgetAssumption DEF ClockAssumption, BudgetAssumption
<1>1. Init => TypeOK
  BY DEF Init, TypeOK, Phases, Outcomes, Docs, Time
<1>2. TypeOK /\ [Next]_vars => TypeOK'
  <2> SUFFICES ASSUME TypeOK, [Next]_vars PROVE TypeOK'
    OBVIOUS
  <2> USE DEF TypeOK, Goto, Answer, Throw, Phases, Outcomes
  <2>1. ASSUME NEW r \in Requests, Receive(r) PROVE TypeOK'
    BY <2>1 DEF Receive
  <2>2. ASSUME NEW r \in Requests, Resolve(r) PROVE TypeOK'
    BY <2>2, ResolutionRange DEF Resolve
  <2>3. ASSUME NEW r \in Requests, Insert(r) PROVE TypeOK'
    BY <2>3, FreshType DEF Insert
  <2>4. ASSUME NEW r \in Requests, Read(r) PROVE TypeOK'
    BY <2>4, ReadVerdictRange DEF Read
  <2>5. ASSUME NEW r \in Requests, Reclaim(r) PROVE TypeOK'
    <3>1. CASE Reclaimable(receipt, r)
      <4>0. receipt \in Receipts /\ at[r] \in Time
        BY <3>1 DEF Reclaimable
      <4>1. receipt' \in Receipts
        BY <2>5, <3>1, <4>0, TakenType DEF Reclaim
      <4>2. receipt.created_at \in Time
        BY <4>0 DEF Receipts
      <4> QED
        BY <2>5, <3>1, <4>1, <4>2 DEF Reclaim
    <3>2. CASE ~ Reclaimable(receipt, r)
      BY <2>5, <3>2 DEF Reclaim
    <3> QED
      BY <3>1, <3>2
  <2>6. ASSUME NEW r \in Requests, CreateNotification(r) PROVE TypeOK'
    BY <2>6, NoteType DEF CreateNotification
  <2>7. ASSUME NEW r \in Requests, EmitResult(r) PROVE TypeOK'
    BY <2>7 DEF EmitResult
  <2>8. ASSUME NEW r \in Requests, EmitNotification(r) PROVE TypeOK'
    BY <2>8 DEF EmitNotification
  <2>9. ASSUME NEW r \in Requests, MarkPublished(r) PROVE TypeOK'
    BY <2>9, PublishedType DEF MarkPublished, Holds
  <2>10. ASSUME NEW r \in Requests, Release(r) PROVE TypeOK'
    BY <2>10 DEF Release, Released
  <2>11. ASSUME NEW r \in Requests, MongoFails(r) PROVE TypeOK'
    <3>1. receipt' \in Receipts \cup {NoReceipt} /\ note' \in Notes \cup {NoNote}
      BY <2>11, AppliedType DEF MongoFails
    <3>2. faults' \in 0..MaxFaults
      BY <2>11 DEF MongoFails
    <3>3. pc' \in [Requests -> Phases] /\ outcome' \in [Requests -> Outcomes]
      BY <2>11 DEF MongoFails
    <3> QED
      BY <2>11, <3>1, <3>2, <3>3 DEF MongoFails
  <2>12. ASSUME NEW r \in Requests, Crash(r) PROVE TypeOK'
    BY <2>12 DEF Crash
  <2>13. CASE QueueWrites
    BY <2>13 DEF QueueWrites, requestVars
  <2>14. CASE Tick
    BY <2>14 DEF Tick, requestVars, Time
  <2>15. CASE Expire
    BY <2>15 DEF Expire, requestVars
  <2>16. CASE UNCHANGED vars
    BY <2>16 DEF vars, requestVars
  <2> QED
    BY <2>1, <2>2, <2>3, <2>4, <2>5, <2>6, <2>7, <2>8, <2>9, <2>10, <2>11,
       <2>12, <2>13, <2>14, <2>15, <2>16 DEF Next, Step
<1> QED
  BY <1>1, <1>2, PTL DEF Spec

-----------------------------------------------------------------------------
(* The three receipts a step can write *)

LEMMA FreshFields ==
  ASSUME TypeOK, NEW r \in Requests
  PROVE  /\ Fresh(r) # NoReceipt
         /\ Fresh(r).state = "publishing" /\ Fresh(r).claim = r
         /\ Fresh(r).input = input[r]
         /\ Fresh(r).locked_at = at[r] /\ Fresh(r).created_at = at[r]
  BY FreshType, NoReceiptIsNone DEF Fresh

LEMMA TakenFields ==
  ASSUME TypeOK, receipt \in Receipts, NEW r \in Requests
  PROVE  /\ Taken(r) # NoReceipt
         /\ Taken(r).state = receipt.state /\ Taken(r).claim = r
         /\ Taken(r).input = receipt.input
         /\ Taken(r).locked_at = at[r]
         /\ Taken(r).created_at = receipt.created_at
<1>1. Taken(r) # NoReceipt
  BY TakenType, NoReceiptIsNone
<1> QED
  BY <1>1 DEF Taken, Receipts

LEMMA PublishedFields ==
  ASSUME receipt \in Receipts
  PROVE  /\ Published # NoReceipt
         /\ Published.state = "published" /\ Published.claim = receipt.claim
         /\ Published.input = receipt.input
         /\ Published.created_at = receipt.created_at
<1>1. Published # NoReceipt
  BY PublishedType, NoReceiptIsNone
<1> QED
  BY <1>1 DEF Published, Receipts

\* Everything that can happen to the receipt in one step.
ReceiptStep ==
  \/ receipt' = receipt
  \/ \E r \in Requests :
       \/ receipt = NoReceipt /\ pc[r] = "insert" /\ receipt' = Fresh(r)
       \/ Reclaimable(receipt, r) /\ pc[r] = "reclaim" /\ receipt' = Taken(r)
       \/ Holds(r) /\ pc[r] = "mark" /\ pc'[r] \notin Claimed /\ receipt' = Published
       \/ Holds(r) /\ pc[r] = "release" /\ receipt' = NoReceipt
  \/ /\ receipt # NoReceipt
     /\ receipt.created_at + ReceiptLife <= now
     /\ receipt' = NoReceipt

LEMMA ReceiptSteps ==
  ASSUME TypeOK, [Next]_vars
  PROVE  ReceiptStep
<1>1. ASSUME NEW r \in Requests, Step(r) PROVE ReceiptStep
  BY <1>1 DEF Step, Receive, Resolve, Insert, Read, Reclaim, CreateNotification,
       EmitResult, EmitNotification, MarkPublished, Release, Released, ReceiptStep,
       Goto, Answer, TypeOK, Claimed
<1>2. ASSUME NEW r \in Requests, MongoFails(r) PROVE ReceiptStep
  <2>1. pc[r] = "mark" => pc'[r] \notin Claimed
    BY <1>2 DEF MongoFails, Claimed, Throw, Goto, TypeOK
  <2> QED
    BY <1>2, <2>1 DEF MongoFails, Applied, Released, ReceiptStep
<1>3. ASSUME NEW r \in Requests, Crash(r) PROVE ReceiptStep
  BY <1>3 DEF Crash, ReceiptStep
<1>4. CASE QueueWrites \/ Tick \/ Expire \/ UNCHANGED vars
  BY <1>4 DEF QueueWrites, Tick, Expire, vars, ReceiptStep
<1> QED
  BY <1>1, <1>2, <1>3, <1>4 DEF Next

\* A published receipt is final until it expires.
THEOREM PublishedFinality == Spec => PublishedIsFinal
<1>1. TypeOK /\ [Next]_vars
        => [receipt # NoReceipt /\ receipt.state = "published"
              => receipt' = receipt
                 \/ (receipt' = NoReceipt
                     /\ receipt.created_at + ReceiptLife <= now)]_vars
  BY ReceiptSteps DEF ReceiptStep, Reclaimable, Holds
<1> QED
  BY <1>1, TypeCorrect, PTL DEF Spec, PublishedIsFinal

-----------------------------------------------------------------------------
(* What a request has done, and what its reports tell *)

\* What a request has done when it stands at a phase.
PhaseInv ==
  \A r \in Requests :
    /\ \/ pc[r] \in {"insert", "read", "reclaim"} \cup Claimed
       \/ r \in emitted
       => /\ snapshot[r].execution = "same"
          /\ snapshot[r].status = input[r].status
    /\ r \in emitted
         => pc[r] \in {"emit_note", "mark", "release", "done", "crashed"}
    /\ pc[r] \in {"emit_note", "mark"} => r \in emitted
    /\ pc[r] \in {"emit", "emit_note", "mark"} /\ snapshot[r].status = "error"
         => note # NoNote
    /\ pc[r] = "mark" /\ snapshot[r].status = "error" => r \in notified

\* A stored notification stays.
LEMMA NoteStays ==
  ASSUME TypeOK, [Next]_vars, note # NoNote
  PROVE  note' # NoNote
<1>1. ASSUME NEW r \in Requests, Step(r) PROVE note' # NoNote
  <2>1. CASE CreateNotification(r)
    BY <2>1, NoteType, NoNoteIsNone DEF CreateNotification, TypeOK
  <2> QED
    BY <1>1, <2>1 DEF Step, Receive, Resolve, Insert, Read, Reclaim,
         EmitResult, EmitNotification, MarkPublished, Release
<1>2. ASSUME NEW r \in Requests, MongoFails(r) PROVE note' # NoNote
  BY <1>2 DEF MongoFails, Applied
<1>3. ASSUME NEW r \in Requests, Crash(r) PROVE note' # NoNote
  BY <1>3 DEF Crash
<1>4. CASE QueueWrites \/ Tick \/ Expire \/ UNCHANGED vars
  BY <1>4 DEF QueueWrites, Tick, Expire, vars
<1> QED
  BY <1>1, <1>2, <1>3, <1>4 DEF Next

LEMMA PhaseStep ==
  ASSUME TypeOK, PhaseInv, [Next]_vars
  PROVE  PhaseInv'
<1> USE DEF TypeOK, Goto, Answer, Throw, Phases, Claimed
<1> note # NoNote => note' # NoNote
  BY NoteStays
<1>1. ASSUME NEW r \in Requests, Receive(r) PROVE PhaseInv'
  BY <1>1 DEF Receive, PhaseInv
<1>2. ASSUME NEW r \in Requests, Resolve(r) PROVE PhaseInv'
  BY <1>2, ResolutionRange, ResolutionFence DEF Resolve, PhaseInv
<1>3. ASSUME NEW r \in Requests, Insert(r) PROVE PhaseInv'
  BY <1>3 DEF Insert, PhaseInv
<1>4. ASSUME NEW r \in Requests, Read(r) PROVE PhaseInv'
  BY <1>4 DEF Read, PhaseInv
<1>5. ASSUME NEW r \in Requests, Reclaim(r) PROVE PhaseInv'
  BY <1>5 DEF Reclaim, PhaseInv
<1>6. ASSUME NEW r \in Requests, CreateNotification(r) PROVE PhaseInv'
  <2>1. snapshot[r].status = "error" => NoteOf(r) # NoNote
    BY NoteType, NoNoteIsNone
  <2> QED
    BY <1>6, <2>1 DEF CreateNotification, PhaseInv
<1>7. ASSUME NEW r \in Requests, EmitResult(r) PROVE PhaseInv'
  BY <1>7 DEF EmitResult, PhaseInv
<1>8. ASSUME NEW r \in Requests, EmitNotification(r) PROVE PhaseInv'
  BY <1>8 DEF EmitNotification, PhaseInv
<1>9. ASSUME NEW r \in Requests, MarkPublished(r) PROVE PhaseInv'
  BY <1>9 DEF MarkPublished, PhaseInv
<1>10. ASSUME NEW r \in Requests, Release(r) PROVE PhaseInv'
  BY <1>10 DEF Release, PhaseInv
<1>11. ASSUME NEW r \in Requests, MongoFails(r) PROVE PhaseInv'
  BY <1>11 DEF MongoFails, PhaseInv
<1>12. ASSUME NEW r \in Requests, Crash(r) PROVE PhaseInv'
  BY <1>12 DEF Crash, PhaseInv
<1>13. CASE QueueWrites \/ Tick \/ Expire \/ UNCHANGED vars
  BY <1>13 DEF QueueWrites, Tick, Expire, vars, requestVars, PhaseInv
<1> QED
  BY <1>1, <1>2, <1>3, <1>4, <1>5, <1>6, <1>7, <1>8, <1>9, <1>10, <1>11,
     <1>12, <1>13 DEF Next, Step

LEMMA PhaseInvariant == Spec => []PhaseInv
<1>1. Init => PhaseInv
  BY DEF Init, PhaseInv, Claimed
<1> QED
  BY <1>1, PhaseStep, TypeCorrect, PTL DEF Spec

\* Once stored, the notification of the key keeps its content.
LEMMA NoteKept ==
  ASSUME TypeOK, [Next]_vars, note # NoNote
  PROVE  note' = note
<1>1. ASSUME NEW r \in Requests, Step(r) PROVE note' = note
  <2>1. CASE CreateNotification(r)
    BY <2>1 DEF CreateNotification
  <2> QED
    BY <1>1, <2>1 DEF Step, Receive, Resolve, Insert, Read, Reclaim,
         EmitResult, EmitNotification, MarkPublished, Release
<1>2. ASSUME NEW r \in Requests, MongoFails(r) PROVE note' = note
  BY <1>2 DEF MongoFails, Applied
<1>3. ASSUME NEW r \in Requests, Crash(r) PROVE note' = note
  BY <1>3 DEF Crash
<1>4. CASE QueueWrites \/ Tick \/ Expire \/ UNCHANGED vars
  BY <1>4 DEF QueueWrites, Tick, Expire, vars
<1> QED
  BY <1>1, <1>2, <1>3, <1>4 DEF Next

\* A request that has stored its notification, and one that has emitted.
Reporting(r) == pc[r] \in {"emit", "emit_note", "mark"} \/ r \in emitted

\* The strengthening of ReportsAgree: from the moment a request has stored or
\* compared the notification of its error, that is the notification.
ReportInv ==
  \A r \in Requests :
    Reporting(r) /\ snapshot[r].status = "error" => note = NoteOf(r)

\* A request that reports has its document, and began to report by storing.
LEMMA ReportingSteps ==
  ASSUME TypeOK, PhaseInv, [Next]_vars, NEW q \in Requests, Reporting(q)'
  PROVE  \/ Reporting(q) /\ snapshot'[q] = snapshot[q]
         \/ /\ CreateNotification(q) /\ snapshot' = snapshot
            /\ snapshot[q].status = "error" => note' = NoteOf(q)
<1> USE DEF TypeOK, Goto, Answer, Throw, Phases, Reporting
<1>1. ASSUME NEW r \in Requests, Resolve(r)
      PROVE  Reporting(q) /\ snapshot'[q] = snapshot[q]
  BY <1>1, ResolutionRange DEF Resolve, PhaseInv
<1>2. ASSUME NEW r \in Requests, CreateNotification(r)
      PROVE  \/ Reporting(q) /\ snapshot'[q] = snapshot[q]
             \/ /\ CreateNotification(q) /\ snapshot' = snapshot
                /\ snapshot[q].status = "error" => note' = NoteOf(q)
  BY <1>2 DEF CreateNotification
<1>3. ASSUME NEW r \in Requests,
             Step(r), ~ Resolve(r), ~ CreateNotification(r)
      PROVE  Reporting(q) /\ snapshot'[q] = snapshot[q]
  BY <1>3, ReadVerdictRange
     DEF Step, Receive, Insert, Read, Reclaim, EmitResult, EmitNotification,
         MarkPublished, Release, PhaseInv
<1>4. ASSUME NEW r \in Requests, MongoFails(r) \/ Crash(r)
      PROVE  Reporting(q) /\ snapshot'[q] = snapshot[q]
  BY <1>4 DEF MongoFails, Crash
<1>5. CASE QueueWrites \/ Tick \/ Expire \/ UNCHANGED vars
  BY <1>5 DEF QueueWrites, Tick, Expire, vars, requestVars
<1> QED
  BY <1>1, <1>2, <1>3, <1>4, <1>5 DEF Next

LEMMA ReportStep ==
  ASSUME TypeOK, PhaseInv, ReportInv, [Next]_vars
  PROVE  ReportInv'
<1> SUFFICES ASSUME NEW q \in Requests, Reporting(q)',
                    snapshot'[q].status = "error"
             PROVE  note' = NoteOf(q)'
  BY DEF ReportInv
<1>1. input' = input
  BY DEF Next, Step, Receive, Resolve, Insert, Read, Reclaim, CreateNotification,
         EmitResult, EmitNotification, MarkPublished, Release, MongoFails, Crash,
         QueueWrites, Tick, Expire, vars, requestVars
<1>2. CASE Reporting(q) /\ snapshot'[q] = snapshot[q]
  <2>1. note = NoteOf(q) /\ NoteOf(q)' = NoteOf(q)
    BY <1>1, <1>2 DEF ReportInv, NoteOf
  <2>2. note # NoNote
    BY <1>2, <2>1, NoteType, NoNoteIsNone
  <2> QED
    BY <2>1, <2>2, NoteKept
<1>3. CASE /\ CreateNotification(q) /\ snapshot' = snapshot
           /\ snapshot[q].status = "error" => note' = NoteOf(q)
  BY <1>1, <1>3 DEF NoteOf
<1> QED
  BY <1>2, <1>3, ReportingSteps

\* All error results emitted under the key, and the notification stored under
\* it, tell one error.
THEOREM OneErrorIsTold == Spec => []ReportsAgree
<1>1. Init => ReportInv
  BY DEF Init, ReportInv, Reporting
<1>2. TypeOK /\ PhaseInv /\ ReportInv => ReportsAgree
  BY DEF TypeOK, PhaseInv, ReportInv, Reporting, ReportsAgree
<1> QED
  BY <1>1, <1>2, ReportStep, TypeCorrect, PhaseInvariant, PTL DEF Spec

-----------------------------------------------------------------------------
(* Accepted answers and published receipts rest on a delivery *)

\* The strengthening: the answer is decided before it is sent.
DeliveryInv ==
  /\ PublishedMeansDelivered
  /\ \A r \in Requests :
       outcome[r] \in {"published", "duplicate"} => Delivered(input[r])

\* Nothing undoes a delivery.
LEMMA DeliveriesStay ==
  ASSUME TypeOK, [Next]_vars
  PROVE  /\ input' = input
         /\ emitted \subseteq emitted'
         /\ notified \subseteq notified'
         /\ note # NoNote => note' # NoNote
<1>1. input' = input /\ emitted \subseteq emitted' /\ notified \subseteq notified'
  BY DEF Next, Step, Receive, Resolve, Insert, Read, Reclaim, CreateNotification,
         EmitResult, EmitNotification, MarkPublished, Release, MongoFails, Crash,
         QueueWrites, Tick, Expire, vars, requestVars
<1> QED
  BY <1>1, NoteStays

\* A request that holds its claim at the last step has delivered.
LEMMA MarkDelivers ==
  ASSUME TypeOK, PhaseInv, NEW r \in Requests, pc[r] = "mark"
  PROVE  Delivered(input[r])
<1>1. r \in emitted /\ snapshot[r].status = input[r].status
  BY DEF PhaseInv, Claimed
<1>2. snapshot[r].status = "error" => r \in notified /\ note # NoNote
  BY DEF PhaseInv
<1> QED
  BY <1>1, <1>2 DEF Delivered, Deliverers, TypeOK

LEMMA DeliveryStep ==
  ASSUME TypeOK, PhaseInv, DeliveryInv, [Next]_vars
  PROVE  DeliveryInv'
<1>1. PublishedMeansDelivered'
  <2> SUFFICES ASSUME receipt' # NoReceipt, receipt'.state = "published"
               PROVE  Delivered(receipt.input)'
    BY DEF PublishedMeansDelivered
  <2>1. CASE receipt' = receipt
    BY <2>1, DeliveriesStay DEF DeliveryInv, PublishedMeansDelivered, Delivered, Deliverers
  <2>2. ASSUME NEW r \in Requests, receipt' = Fresh(r) PROVE FALSE
    BY <2>2, FreshFields
  <2>3. ASSUME NEW r \in Requests, Reclaimable(receipt, r), receipt' = Taken(r)
        PROVE FALSE
    BY <2>3, TakenFields DEF Reclaimable, TypeOK
  <2>4. ASSUME NEW r \in Requests, Holds(r), pc[r] = "mark", receipt' = Published
        PROVE Delivered(receipt.input)'
    <3>1. receipt'.input = input[r]
      BY <2>4, PublishedFields DEF Holds, TypeOK
    <3>2. Delivered(input[r])
      BY <2>4, MarkDelivers
    <3> QED
      BY <3>1, <3>2, DeliveriesStay DEF Delivered, Deliverers
  <2> QED
    BY <2>1, <2>2, <2>3, <2>4, ReceiptSteps DEF ReceiptStep
<1>2. ASSUME NEW q \in Requests, outcome'[q] \in {"published", "duplicate"}
      PROVE  Delivered(input[q])'
  <2>1. Delivered(input[q]) => Delivered(input[q])'
    BY DeliveriesStay DEF Delivered, Deliverers
  <2>2. CASE outcome'[q] = outcome[q]
    BY <1>2, <2>1, <2>2 DEF DeliveryInv
  <2>3. CASE Read(q)
    <3>1. CASE outcome'[q] # outcome[q]
      <4>1. ReadVerdict(receipt, input[q], at[q]) = "duplicate"
        BY <1>2, <2>3, <3>1, ReadVerdictRange DEF Read, Answer, TypeOK
      <4>2. receipt # NoReceipt /\ receipt.input = input[q]
              /\ receipt.state = "published"
        BY <4>1 DEF ReadVerdict
      <4>3. Delivered(input[q])
        BY <4>2 DEF DeliveryInv, PublishedMeansDelivered
      <4> QED
        BY <4>3, <2>1
    <3> QED
      BY <2>2, <3>1
  <2>4. CASE MarkPublished(q)
    BY <2>1, <2>4, MarkDelivers DEF MarkPublished
  <2>5. CASE outcome'[q] # outcome[q] /\ ~ Read(q) /\ ~ MarkPublished(q)
    <3>1. ASSUME NEW r \in Requests, Step(r) PROVE FALSE
      BY <1>2, <2>5, <3>1, ResolutionRange
         DEF Step, Receive, Resolve, Insert, Read, Reclaim, CreateNotification,
             EmitResult, EmitNotification, MarkPublished, Release, Answer, Throw,
             TypeOK
    <3>2. ASSUME NEW r \in Requests, MongoFails(r) PROVE FALSE
      BY <1>2, <2>5, <3>2 DEF MongoFails, Answer, Throw, TypeOK
    <3>3. CASE (\E r \in Requests : Crash(r)) \/ QueueWrites \/ Tick \/ Expire
                  \/ UNCHANGED vars
      BY <2>5, <3>3 DEF Crash, QueueWrites, Tick, Expire, vars, requestVars
    <3> QED
      BY <3>1, <3>2, <3>3 DEF Next
  <2> QED
    BY <2>2, <2>3, <2>4, <2>5
<1> QED
  BY <1>1, <1>2 DEF DeliveryInv

LEMMA DeliveryInvariant == Spec => []DeliveryInv
<1>1. Init => DeliveryInv
  BY DEF Init, DeliveryInv, PublishedMeansDelivered
<1> QED
  BY <1>1, DeliveryStep, TypeCorrect, PhaseInvariant, PTL DEF Spec

\* A published receipt stands for a delivery.
THEOREM PublishedIsDelivered == Spec => []PublishedMeansDelivered
BY DeliveryInvariant, PTL DEF DeliveryInv

\* The Queue is told "published" or "duplicate" only of what was delivered.
THEOREM AcceptedIsDelivered == Spec => []AcceptedMeansDelivered
<1>1. DeliveryInv => AcceptedMeansDelivered
  BY DEF DeliveryInv, AcceptedMeansDelivered
<1> QED
  BY <1>1, DeliveryInvariant, PTL

-----------------------------------------------------------------------------
(* The endpoint implements DeliveryLog *)

\* What the mapping needs besides: notifications go out for errors, after they
\* were stored, and no accepting answer waits for the release of a claim.
LogInv ==
  \A r \in Requests :
    /\ pc[r] = "emit_note" => snapshot[r].status = "error"
    /\ r \in notified => note # NoNote
    /\ pc[r] = "release" => outcome[r] \notin {"published", "duplicate"}

LEMMA LogInvStep ==
  ASSUME TypeOK, PhaseInv, LogInv, [Next]_vars
  PROVE  LogInv'
<1> USE DEF TypeOK, Goto, Answer, Throw, Phases, Claimed
<1>1. note # NoNote => note' # NoNote
  BY NoteStays
<1>2. ASSUME NEW r \in Requests, Step(r) PROVE LogInv'
  <2>1. CASE EmitNotification(r)
    <3>1. note # NoNote
      BY <2>1 DEF EmitNotification, LogInv, PhaseInv
    <3> QED
      BY <2>1, <3>1 DEF EmitNotification, LogInv
  <2>2. CASE CreateNotification(r)
    BY <1>1, <2>2 DEF CreateNotification, LogInv
  <2>3. CASE EmitResult(r) \/ MarkPublished(r) \/ Release(r)
    BY <2>3 DEF EmitResult, MarkPublished, Release, LogInv
  <2>4. CASE Receive(r) \/ Insert(r) \/ Reclaim(r)
    BY <2>4 DEF Receive, Insert, Reclaim, LogInv
  <2>5. CASE Resolve(r) \/ Read(r)
    BY <2>5, ResolutionRange, ReadVerdictRange DEF Resolve, Read, LogInv
  <2> QED
    BY <1>2, <2>1, <2>2, <2>3, <2>4, <2>5 DEF Step
<1>3. ASSUME NEW r \in Requests, MongoFails(r) PROVE LogInv'
  BY <1>1, <1>3 DEF MongoFails, LogInv
<1>4. ASSUME NEW r \in Requests, Crash(r) PROVE LogInv'
  BY <1>4 DEF Crash, LogInv
<1>5. CASE QueueWrites \/ Tick \/ Expire \/ UNCHANGED vars
  BY <1>5 DEF QueueWrites, Tick, Expire, vars, requestVars, LogInv
<1> QED
  BY <1>2, <1>3, <1>4, <1>5 DEF Next

LEMMA LogInvariant == Spec => []LogInv
<1>1. Init => LogInv
  BY DEF Init, LogInv
<1> QED
  BY <1>1, LogInvStep, TypeCorrect, PhaseInvariant, PTL DEF Spec

\* A step that delivers nothing and answers nobody is a stutter of the log.
LEMMA LogStutters ==
  ASSUME input' = input, Deliverers' = Deliverers,
         \A q \in Requests : ReplyOf(q)' = ReplyOf(q)
  PROVE  UNCHANGED Log!logVars
BY DEF Log!logVars

\* A step that answers one request.
LEMMA LogReplies ==
  ASSUME input' = input, Deliverers' = Deliverers, NEW r \in Requests,
         ReplyOf(r) = "none",
         \A q \in Requests \ {r} : ReplyOf(q)' = ReplyOf(q)
  PROVE  Log!Reply(r, ReplyOf(r)')
BY DEF Log!Reply

\* Only the step of a request changes its phase and answer.
LEMMA OthersReplyStays ==
  ASSUME TypeOK, NEW r \in Requests, Step(r) \/ MongoFails(r) \/ Crash(r)
  PROVE  /\ input' = input
         /\ \A q \in Requests \ {r} : ReplyOf(q)' = ReplyOf(q)
BY DEF Step, Receive, Resolve, Insert, Read, Reclaim, CreateNotification, EmitResult,
       EmitNotification, MarkPublished, Release, MongoFails, Crash, Goto, Answer,
       Throw, TypeOK, ReplyOf

\* Only emissions make deliverers.
LEMMA DeliverersStay ==
  ASSUME TypeOK, LogInv, input' = input, emitted' = emitted, notified' = notified,
         note # NoNote => note' # NoNote
  PROVE  Deliverers' = Deliverers
BY DEF LogInv, TypeOK, Deliverers

\* Every step of the endpoint is one of the log or a stutter.
LEMMA LogStep ==
  ASSUME TypeOK, PhaseInv, DeliveryInv, LogInv, [Next]_vars
  PROVE  [Log!LogNext]_(Log!logVars)
<1> USE DEF Goto, Answer, Throw
<1>1. ASSUME NEW r \in Requests, EmitResult(r) \/ EmitNotification(r)
      PROVE  Log!Deliver(r) \/ UNCHANGED Log!logVars
  <2>1. ReplyOf(r) = "none" /\ ReplyOf(r)' = "none"
    BY <1>1 DEF EmitResult, EmitNotification, TypeOK, ReplyOf
  <2>2. input' = input /\ \A q \in Requests : ReplyOf(q)' = ReplyOf(q)
    BY <1>1, <2>1, OthersReplyStays DEF Step
  <2>3. Deliverers' = Deliverers \/ Deliverers' = Deliverers \cup {r}
    BY <1>1 DEF EmitResult, EmitNotification, TypeOK, Deliverers
  <2> QED
    BY <2>1, <2>2, <2>3, LogStutters DEF Log!Deliver
<1>2. ASSUME NEW r \in Requests, Read(r)
      PROVE  [Log!LogNext]_(Log!logVars)
  <2>1. r \notin Deliverers /\ ReplyOf(r) = "none"
    BY <1>2 DEF Read, PhaseInv, Deliverers, ReplyOf
  <2>2. Deliverers' = Deliverers /\ input' = input
    BY <1>2, DeliverersStay DEF Read
  <2>3. CASE ReplyOf(r)' = "duplicate"
    <3>1. ReadVerdict(receipt, input[r], at[r]) = "duplicate"
      BY <1>2, <2>3, ReadVerdictRange DEF Read, TypeOK, ReplyOf
    <3>2. Delivered(input[r])
      BY <3>1 DEF ReadVerdict, DeliveryInv, PublishedMeansDelivered
    <3>3. Log!Reply(r, "duplicate")
      BY <1>2, <2>1, <2>2, <2>3, OthersReplyStays, LogReplies DEF Step
    <3>4. Log!Duplicate(r)
      BY <2>1, <3>2, <3>3 DEF Log!Duplicate, Delivered
    <3> QED
      BY <3>4 DEF Log!LogNext
  <2>4. CASE ReplyOf(r)' = "refused"
    <3>1. Log!Refuse(r)
      BY <1>2, <2>1, <2>2, <2>4, OthersReplyStays, LogReplies DEF Step, Log!Refuse
    <3> QED
      BY <3>1 DEF Log!LogNext
  <2>5. CASE ReplyOf(r)' = "none"
    BY <1>2, <2>1, <2>2, <2>5, OthersReplyStays, LogStutters DEF Step
  <2>6. ReplyOf(r)' \in {"duplicate", "refused", "none"}
    BY <1>2, ReadVerdictRange DEF Read, TypeOK, ReplyOf
  <2> QED
    BY <2>3, <2>4, <2>5, <2>6
<1>3. ASSUME NEW r \in Requests, MarkPublished(r)
      PROVE  [Log!LogNext]_(Log!logVars)
  <2>1. r \in Deliverers /\ ReplyOf(r) = "none"
    BY <1>3 DEF MarkPublished, PhaseInv, Claimed, Deliverers, ReplyOf
  <2>2. Deliverers' = Deliverers /\ input' = input
    BY <1>3, DeliverersStay DEF MarkPublished
  <2>3. CASE ReplyOf(r)' = "published"
    <3>1. Log!Publish(r)
      BY <1>3, <2>1, <2>2, <2>3, OthersReplyStays, LogReplies DEF Step, Log!Publish
    <3> QED
      BY <3>1 DEF Log!LogNext
  <2>4. CASE ReplyOf(r)' = "none"
    BY <1>3, <2>1, <2>2, <2>4, OthersReplyStays, LogStutters DEF Step
  <2>5. ReplyOf(r)' \in {"published", "none"}
    BY <1>3 DEF MarkPublished, TypeOK, ReplyOf
  <2> QED
    BY <2>3, <2>4, <2>5
<1>4. ASSUME NEW r \in Requests,
             \/ Receive(r) \/ Resolve(r) \/ Insert(r) \/ Reclaim(r)
             \/ CreateNotification(r) \/ Release(r) \/ MongoFails(r) \/ Crash(r)
      PROVE  [Log!LogNext]_(Log!logVars)
  <2>1. ReplyOf(r) = "none"
    BY <1>4 DEF Receive, Resolve, Insert, Reclaim, CreateNotification, Release,
                MongoFails, Crash, Running, Phases, ReplyOf
  <2>2. emitted' = emitted /\ notified' = notified
    BY <1>4 DEF Receive, Resolve, Insert, Reclaim, CreateNotification, Release,
                MongoFails, Crash
  <2>3. /\ input' = input
        /\ \A q \in Requests \ {r} : ReplyOf(q)' = ReplyOf(q)
    BY <1>4, OthersReplyStays DEF Step
  <2>4. Deliverers' = Deliverers
    BY <2>2, <2>3, DeliverersStay, NoteStays
  <2>5. ReplyOf(r)' \in {"none", "refused", "lost"}
    <3>1. CASE Receive(r) \/ Insert(r) \/ Reclaim(r) \/ CreateNotification(r)
      BY <3>1 DEF Receive, Insert, Reclaim, CreateNotification, TypeOK, ReplyOf
    <3>2. CASE Resolve(r)
      BY <3>2, ResolutionRange DEF Resolve, TypeOK, ReplyOf
    <3>3. CASE Release(r)
      BY <3>3 DEF Release, LogInv, TypeOK, ReplyOf
    <3>4. CASE MongoFails(r)
      BY <3>4 DEF MongoFails, LogInv, TypeOK, ReplyOf
    <3>5. CASE Crash(r)
      BY <3>5 DEF Crash, TypeOK, ReplyOf
    <3> QED
      BY <1>4, <3>1, <3>2, <3>3, <3>4, <3>5
  <2>6. CASE ReplyOf(r)' = "none"
    BY <2>1, <2>3, <2>4, <2>6, LogStutters
  <2>7. CASE ReplyOf(r)' # "none"
    <3>1. Log!Reply(r, ReplyOf(r)')
      BY <2>1, <2>3, <2>4, LogReplies
    <3>2. Log!Refuse(r) \/ Log!Lose(r)
      BY <2>5, <2>7, <3>1 DEF Log!Refuse, Log!Lose
    <3> QED
      BY <3>2 DEF Log!LogNext
  <2> QED
    BY <2>6, <2>7
<1>5. CASE QueueWrites \/ Tick \/ Expire \/ UNCHANGED vars
  <2>1. /\ input' = input /\ pc' = pc /\ outcome' = outcome /\ note' = note
        /\ emitted' = emitted /\ notified' = notified
    BY <1>5 DEF QueueWrites, Tick, Expire, vars, requestVars
  <2>2. Deliverers' = Deliverers
    BY <2>1 DEF Deliverers
  <2>3. \A q \in Requests : ReplyOf(q)' = ReplyOf(q)
    BY <2>1 DEF ReplyOf
  <2> QED
    BY <2>1, <2>2, <2>3, LogStutters
<1> QED
  BY <1>1, <1>2, <1>3, <1>4, <1>5 DEF Next, Step, Log!LogNext

\* The endpoint keeps what DeliveryLog promises the Queue.
THEOREM EndpointKeepsPromise == Spec => KeepsPromise
<1>1. Init => Log!LogInit
  BY DEF Init, Log!LogInit, Deliverers, ReplyOf
<1>2. TypeOK /\ PhaseInv /\ DeliveryInv /\ LogInv /\ [Next]_vars
        => [Log!LogNext]_(Log!logVars)
  BY LogStep
<1> QED
  BY <1>1, <1>2, TypeCorrect, PhaseInvariant, DeliveryInvariant, LogInvariant, PTL
     DEF Spec, KeepsPromise, Log!LogSpec

-----------------------------------------------------------------------------
(* The claim is a lease *)

\* The lock time of a receipt is the time at which its claimant began.
Dated(e) == /\ e.locked_at = at[e.claim]
            /\ pc[e.claim] \notin {"idle", "resolve"}

\* r's claim stands in the collection.
Owns(r) == Holds(r) /\ receipt.created_at = born[r]

LeaseInv ==
  /\ receipt # NoReceipt /\ receipt.state = "publishing" => Dated(receipt)
  /\ \A r \in Requests :
       /\ at[r] <= now
       /\ pc[r] = "reclaim"
            => /\ seen[r] \in Receipts
               /\ Dated(seen[r])
               /\ seen[r].locked_at + LockTimeout <= at[r]
       /\ pc[r] \in Claimed => Owns(r) \/ Lapsed(r)

\* A claim that is read as old belongs to a request whose lock has lapsed.
LEMMA ReclaimedIsLapsed ==
  ASSUME TypeOK, LeaseInv, NEW q \in Requests, NEW r \in Requests,
         pc[q] = "reclaim", Reclaimable(receipt, q), Holds(r)
  PROVE  Lapsed(r)
<1>1. seen[q] \in Receipts /\ seen[q].claim = r /\ Dated(seen[q])
  BY DEF LeaseInv, Reclaimable, Holds
<1>2. at[r] + LockTimeout <= at[q] /\ at[q] <= now
  BY <1>1 DEF LeaseInv, Dated
<1>3. at[r] \in Nat /\ at[q] \in Nat /\ now \in Nat
  BY ClockAssumption DEF ClockAssumption, TypeOK, Time
<1> QED
  BY <1>2, <1>3, ClockAssumption DEF ClockAssumption, Lapsed

\* An owner whose lease has not lapsed keeps its row while it works.
LEMMA OwnerKeeps ==
  ASSUME TypeOK, LeaseInv, [Next]_vars, NEW r \in Requests,
         Owns(r), ~ Lapsed(r), pc[r] \in Claimed, pc'[r] \in Claimed
  PROVE  receipt' = receipt
<1>1. receipt \in Receipts
  BY DEF Owns, Holds, TypeOK
<1>2. ASSUME NEW q \in Requests, Reclaimable(receipt, q), pc[q] = "reclaim"
      PROVE FALSE
  BY <1>2, ReclaimedIsLapsed DEF Owns
<1>3. \A q \in Requests : Holds(q) => q = r
  BY DEF Owns, Holds
<1> QED
  BY <1>2, <1>3, ReceiptSteps DEF ReceiptStep, Owns, Holds, Lapsed, Claimed

\* The clock only advances, and what a request noted at its claim stays.
LEMMA DatesStay ==
  ASSUME TypeOK, [Next]_vars
  PROVE  /\ now <= now' /\ now' \in Time
         /\ \A c \in Requests :
              /\ pc[c] \notin {"idle", "resolve"}
                   => at'[c] = at[c] /\ pc'[c] \notin {"idle", "resolve"}
              /\ pc[c] \notin {"insert", "reclaim"} => born'[c] = born[c]
              /\ pc'[c] = "reclaim" /\ pc[c] = "reclaim" => seen'[c] = seen[c]
              /\ at'[c] \in {at[c], now}
<1> USE DEF TypeOK, Goto, Answer, Throw, Claimed
<1>1. ASSUME NEW r \in Requests, Step(r) \/ MongoFails(r) \/ Crash(r)
      PROVE  /\ now' = now
             /\ \A c \in Requests :
                  /\ pc[c] \notin {"idle", "resolve"}
                       => at'[c] = at[c] /\ pc'[c] \notin {"idle", "resolve"}
                  /\ pc[c] \notin {"insert", "reclaim"} => born'[c] = born[c]
                  /\ pc'[c] = "reclaim" /\ pc[c] = "reclaim" => seen'[c] = seen[c]
                  /\ at'[c] \in {at[c], now}
  BY <1>1 DEF Step, Receive, Resolve, Insert, Read, Reclaim, CreateNotification,
       EmitResult, EmitNotification, MarkPublished, Release, MongoFails, Crash
<1>2. CASE QueueWrites \/ Tick \/ Expire \/ UNCHANGED vars
  BY <1>2, ClockAssumption
     DEF QueueWrites, Tick, Expire, vars, requestVars, Time, ClockAssumption
<1> QED
  BY <1>1, <1>2, ClockAssumption DEF Next, Time, ClockAssumption

LEMMA LapsedStays ==
  ASSUME TypeOK, TypeOK', [Next]_vars, NEW r \in Requests,
         pc[r] \notin {"idle", "resolve", "insert", "reclaim"}, Lapsed(r)
  PROVE  Lapsed(r)'
<1>1. now <= now' /\ at'[r] = at[r] /\ born'[r] = born[r]
  BY DatesStay
<1>2. at[r] \in Nat /\ born[r] \in Nat /\ now \in Nat /\ now' \in Nat
  BY ClockAssumption DEF ClockAssumption, TypeOK, Time
<1> QED
  BY <1>1, <1>2, ClockAssumption DEF ClockAssumption, Lapsed

LEMMA LeaseStep ==
  ASSUME TypeOK, TypeOK', LeaseInv, [Next]_vars
  PROVE  LeaseInv'
<1>1. ASSUME receipt' # NoReceipt, receipt'.state = "publishing"
      PROVE  Dated(receipt)'
  <2>1. CASE receipt' = receipt
    <3>1. receipt \in Receipts /\ receipt.claim \in Requests
      BY <1>1, <2>1 DEF TypeOK, Receipts
    <3> QED
      BY <1>1, <2>1, <3>1, DatesStay DEF LeaseInv, Dated
  <2>2. ASSUME NEW r \in Requests, pc[r] = "insert", receipt' = Fresh(r)
        PROVE  Dated(receipt)'
    BY <2>2, FreshFields, DatesStay DEF Dated
  <2>3. ASSUME NEW r \in Requests, receipt \in Receipts, pc[r] = "reclaim",
               receipt' = Taken(r)
        PROVE  Dated(receipt)'
    BY <2>3, TakenFields, DatesStay DEF Dated
  <2>4. ASSUME NEW r \in Requests, Holds(r), receipt' = Published
        PROVE  FALSE
    BY <1>1, <2>4, PublishedFields DEF Holds, TypeOK
  <2> QED
    BY <1>1, <2>1, <2>2, <2>3, <2>4, ReceiptSteps
       DEF ReceiptStep, Reclaimable, TypeOK
<1>2. ASSUME NEW r \in Requests
      PROVE  at'[r] <= now'
  <2>1. at[r] \in Nat /\ now \in Nat /\ now' \in Nat
    BY ClockAssumption DEF ClockAssumption, TypeOK, Time
  <2> QED
    BY <2>1, DatesStay DEF LeaseInv
<1>3. ASSUME NEW r \in Requests, pc'[r] = "reclaim"
      PROVE  /\ seen'[r] \in Receipts
             /\ Dated(seen[r])'
             /\ seen'[r].locked_at + LockTimeout <= at'[r]
  <2>1. CASE pc[r] = "reclaim"
    <3>1. seen[r] \in Receipts /\ seen[r].claim \in Requests /\ Dated(seen[r])
      BY <2>1 DEF LeaseInv, Receipts
    <3> QED
      BY <1>3, <2>1, <3>1, DatesStay DEF LeaseInv, Dated
  <2>2. CASE Read(r)
    <3>1. /\ seen'[r] = receipt /\ at' = at
          /\ ReadVerdict(receipt, input[r], at[r]) = "reclaim"
      BY <1>3, <2>2 DEF Read, Answer, Goto, TypeOK
    <3>2. /\ receipt # NoReceipt /\ receipt.state # "published"
          /\ ~ (receipt.locked_at + LockTimeout > at[r])
      BY <3>1 DEF ReadVerdict
    <3>3. receipt \in Receipts /\ receipt.state = "publishing"
          /\ receipt.claim \in Requests /\ receipt.locked_at \in Nat /\ at[r] \in Nat
      BY <3>2, ClockAssumption DEF TypeOK, Receipts, Time, ClockAssumption
    <3>4. receipt.locked_at + LockTimeout <= at[r]
      BY <3>2, <3>3, ClockAssumption DEF ClockAssumption
    <3>5. Dated(receipt)
      BY <3>2, <3>3 DEF LeaseInv
    <3> QED
      BY <3>1, <3>3, <3>4, <3>5, DatesStay DEF Dated
  <2>3. CASE pc[r] # "reclaim" /\ ~ Read(r)
    <3>1. ASSUME NEW q \in Requests, Step(q) \/ MongoFails(q) \/ Crash(q) PROVE FALSE
      BY <1>3, <2>3, <3>1
         DEF Step, Receive, Resolve, Insert, Reclaim, Read, CreateNotification,
             EmitResult, EmitNotification, MarkPublished, Release, MongoFails,
             Crash, Goto, Answer, Throw, TypeOK
    <3> QED
      BY <1>3, <2>3, <3>1 DEF Next, QueueWrites, Tick, Expire, vars, requestVars
  <2> QED
    BY <2>1, <2>2, <2>3
<1>4. ASSUME NEW r \in Requests, pc'[r] \in Claimed
      PROVE  Owns(r)' \/ Lapsed(r)'
  <2>1. CASE pc[r] \in Claimed
    <3>1. CASE Lapsed(r)
      BY <2>1, <3>1, LapsedStays DEF Claimed
    <3>2. CASE Owns(r) /\ ~ Lapsed(r)
      <4>1. receipt' = receipt
        BY <1>4, <2>1, <3>2, OwnerKeeps
      <4>2. born'[r] = born[r] /\ input' = input
        BY <2>1, DatesStay, DeliveriesStay DEF Claimed
      <4> QED
        BY <3>2, <4>1, <4>2 DEF Owns, Holds
    <3> QED
      BY <2>1, <3>1, <3>2 DEF LeaseInv
  <2>2. CASE Insert(r) /\ receipt = NoReceipt
    BY <2>2, FreshFields DEF Insert, Owns, Holds, TypeOK
  <2>3. CASE Reclaim(r) /\ Reclaimable(receipt, r)
    BY <2>3, TakenFields DEF Reclaim, Reclaimable, Owns, Holds, TypeOK
  <2>4. CASE pc[r] \notin Claimed /\ ~ (Insert(r) /\ receipt = NoReceipt)
             /\ ~ (Reclaim(r) /\ Reclaimable(receipt, r))
    <3>1. ASSUME NEW q \in Requests, Step(q) \/ MongoFails(q) \/ Crash(q) PROVE FALSE
      BY <1>4, <2>4, <3>1
         DEF Step, Receive, Resolve, Insert, Reclaim, Read, CreateNotification,
             EmitResult, EmitNotification, MarkPublished, Release, MongoFails,
             Crash, Goto, Answer, Throw, TypeOK, Claimed
    <3> QED
      BY <1>4, <2>4, <3>1 DEF Next, QueueWrites, Tick, Expire, vars, requestVars
  <2> QED
    BY <2>1, <2>2, <2>3, <2>4
<1> QED
  BY <1>1, <1>2, <1>3, <1>4 DEF LeaseInv

LEMMA LeaseInvariant == Spec => []LeaseInv
<1>1. Init => LeaseInv
  BY DEF Init, LeaseInv, Claimed
<1> QED
  BY <1>1, LeaseStep, TypeCorrect, PTL DEF Spec

\* Two requests hold the claim only when one of them has lapsed.
THEOREM Lease == Spec => []ClaimIsALease
<1>1. TypeOK /\ LeaseInv => ClaimIsALease
  BY DEF LeaseInv, ClaimIsALease, Owns, Holds
<1> QED
  BY <1>1, TypeCorrect, LeaseInvariant, PTL

\* No other request removes or takes a claim within its lease.
THEOREM OthersKeepTheClaim == Spec => OthersClaimIsKept
<1>1. TypeOK /\ LeaseInv /\ [Next]_vars
        => [\A r \in Requests :
              /\ Holds(r)
              /\ pc'[r] = pc[r]
              /\ ~ Lapsed(r)
              /\ pc[r] \in Claimed
              => receipt' = receipt]_vars
  BY OwnerKeeps DEF LeaseInv
<1> QED
  BY <1>1, TypeCorrect, LeaseInvariant, PTL DEF Spec, OthersClaimIsKept

-----------------------------------------------------------------------------
(* A second emission needs a failure or a lapsed lease *)

\* How a request that emitted ends, and what its answer leaves behind.
SettledInv ==
  /\ \A q \in emitted :
       pc[q] \in {"release", "done"} => outcome[q] \in {"failed", "published"}
  /\ \A q \in Requests :
       outcome[q] = "published"
         => /\ pc[q] = "done"
            /\ \/ /\ receipt # NoReceipt
                  /\ receipt.state = "published"
                  /\ receipt.claim = q
                  /\ receipt.created_at = born[q]
               \/ Lapsed(q)

LEMMA SettledStep ==
  ASSUME TypeOK, TypeOK', PhaseInv, LeaseInv, SettledInv, [Next]_vars
  PROVE  SettledInv'
<1>1. ASSUME NEW q \in emitted', pc'[q] \in {"release", "done"}
      PROVE  outcome'[q] \in {"failed", "published"}
  <2>1. ASSUME NEW r \in Requests, Step(r)
        PROVE  outcome'[q] \in {"failed", "published"}
    BY <1>1, <2>1
       DEF Step, Receive, Resolve, Insert, Read, Reclaim, CreateNotification,
           EmitResult, EmitNotification, MarkPublished, Release, Goto, Answer,
           Throw, TypeOK, PhaseInv, SettledInv
  <2>2. ASSUME NEW r \in Requests, MongoFails(r)
        PROVE  outcome'[q] \in {"failed", "published"}
    BY <1>1, <2>2
       DEF MongoFails, Goto, Answer, Throw, TypeOK, PhaseInv, SettledInv
  <2>3. CASE (\E r \in Requests : Crash(r)) \/ QueueWrites \/ Tick \/ Expire
                \/ UNCHANGED vars
    BY <1>1, <2>3 DEF Crash, Goto, QueueWrites, Tick, Expire, vars, requestVars,
         TypeOK, SettledInv
  <2> QED
    BY <2>1, <2>2, <2>3 DEF Next
<1>2. ASSUME NEW q \in Requests, outcome'[q] = "published"
      PROVE  /\ pc'[q] = "done"
             /\ \/ /\ receipt' # NoReceipt
                   /\ receipt'.state = "published"
                   /\ receipt'.claim = q
                   /\ receipt'.created_at = born'[q]
                \/ Lapsed(q)'
  <2>1. CASE outcome[q] = "published"
    <3>1. pc[q] = "done" /\ born'[q] = born[q]
      BY <2>1, DatesStay DEF SettledInv
    <3>2. pc'[q] = "done"
      BY <3>1 DEF Next, Step, Receive, Resolve, Insert, Read, Reclaim,
           CreateNotification, EmitResult, EmitNotification, MarkPublished,
           Release, MongoFails, Crash, QueueWrites, Tick, Expire, vars,
           requestVars, Goto, Answer, Throw, TypeOK, Running, Phases
    <3>3. CASE Lapsed(q)
      BY <3>1, <3>2, <3>3, LapsedStays
    <3>4. CASE ~ Lapsed(q)
      BY <2>1, <3>1, <3>2, <3>4, ReceiptSteps
         DEF SettledInv, ReceiptStep, Reclaimable, Holds, Lapsed
    <3> QED
      BY <3>3, <3>4
  <2>2. CASE MarkPublished(q) /\ Holds(q)
    <3>1. receipt \in Receipts /\ receipt' = Published /\ pc'[q] = "done"
            /\ born' = born
      BY <2>2 DEF MarkPublished, Answer, Goto, Holds, TypeOK
    <3>2. Owns(q) \/ Lapsed(q)
      BY <2>2 DEF MarkPublished, LeaseInv, Claimed
    <3>3. CASE Owns(q)
      BY <3>1, <3>3, PublishedFields DEF Owns, Holds
    <3>4. CASE Lapsed(q)
      BY <2>2, <3>1, <3>4, LapsedStays DEF MarkPublished
    <3> QED
      BY <3>2, <3>3, <3>4
  <2>3. CASE outcome[q] # "published" /\ ~ (MarkPublished(q) /\ Holds(q))
    <3>1. ASSUME NEW r \in Requests, Step(r) PROVE FALSE
      BY <1>2, <2>3, <3>1, ResolutionRange, ReadVerdictRange
         DEF Step, Receive, Resolve, Insert, Read, Reclaim, CreateNotification,
             EmitResult, EmitNotification, MarkPublished, Release, Answer, Throw,
             Goto, TypeOK
    <3>2. ASSUME NEW r \in Requests, MongoFails(r) PROVE FALSE
      BY <1>2, <2>3, <3>2 DEF MongoFails, Answer, Throw, TypeOK
    <3> QED
      BY <1>2, <2>3, <3>1, <3>2
         DEF Next, Crash, QueueWrites, Tick, Expire, vars, requestVars
  <2> QED
    BY <2>1, <2>2, <2>3
<1> QED
  BY <1>1, <1>2 DEF SettledInv

LEMMA SettledInvariant == Spec => []SettledInv
<1>1. Init => SettledInv
  BY DEF Init, SettledInv
<1> QED
  BY <1>1, SettledStep, TypeCorrect, PhaseInvariant, LeaseInvariant, PTL DEF Spec

\* A plain duplicate never emits again.
THEOREM NoPlainReemission == Spec => ReemitsOnlyAfterLoss
<1>1. TypeOK /\ PhaseInv /\ LeaseInv /\ SettledInv /\ [Next]_vars
        => [\A r \in emitted' \ emitted, q \in emitted :
              \/ pc[q] = "crashed" \/ outcome[q] = "failed"
              \/ Lapsed(q) \/ Lapsed(r)]_vars
  <2> SUFFICES ASSUME TypeOK, PhaseInv, LeaseInv, SettledInv, [Next]_vars,
                      NEW r \in emitted' \ emitted, NEW q \in emitted,
                      pc[q] # "crashed", outcome[q] # "failed",
                      ~ Lapsed(q), ~ Lapsed(r)
               PROVE  FALSE
    OBVIOUS
  <2>1. r \in Requests /\ pc[r] = "emit"
    BY DEF Next, Step, Receive, Resolve, Insert, Read, Reclaim,
         CreateNotification, EmitResult, EmitNotification, MarkPublished,
         Release, MongoFails, Crash, QueueWrites, Tick, Expire, vars
  <2>2. Owns(r)
    BY <2>1 DEF LeaseInv, Claimed
  <2>3. q \in Requests /\ r # q
    BY DEF TypeOK
  <2>4. ~ Owns(q)
    BY <2>2, <2>3 DEF Owns, Holds
  <2>5. pc[q] \in {"release", "done"}
    BY <2>3, <2>4 DEF PhaseInv, LeaseInv, Claimed
  <2>6. receipt.state = "published"
    BY <2>3, <2>5 DEF SettledInv
  <2> QED
    BY <2>2, <2>6 DEF Owns, Holds
<1> QED
  BY <1>1, TypeCorrect, PhaseInvariant, LeaseInvariant, SettledInvariant, PTL
     DEF Spec, ReemitsOnlyAfterLoss

=============================================================================
