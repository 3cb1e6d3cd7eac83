----------------------------- MODULE DeliveryLog -----------------------------
(***************************************************************************)
(* What POST /internal/publication-results promises the Queue, which calls *)
(* it until it is answered "published" or "duplicate_publication_result":  *)
(* a request is answered so only when its own input has been delivered,    *)
(* by itself or, for a duplicate, by another request.  How many processes  *)
(* serve the requests, receipts, locks and failures do not appear.         *)
(***************************************************************************)
CONSTANTS
  Requests,
  Inputs

VARIABLES
  asked,      \* the input of each request
  delivered,  \* requests that have delivered their input to the site
  reply       \* what each request was answered

logVars == <<asked, delivered, reply>>

LogInit ==
  /\ asked \in [Requests -> Inputs]
  /\ delivered = {}
  /\ reply = [r \in Requests |-> "none"]

Reply(r, answer) ==
  /\ reply[r] = "none"
  /\ reply' = [reply EXCEPT ![r] = answer]
  /\ UNCHANGED <<asked, delivered>>

\* A request delivers at most once, while its caller waits.
Deliver(r) ==
  /\ reply[r] = "none"
  /\ r \notin delivered
  /\ delivered' = delivered \cup {r}
  /\ UNCHANGED <<asked, reply>>

Publish(r) == r \in delivered /\ Reply(r, "published")

Duplicate(r) ==
  /\ r \notin delivered
  /\ \E q \in delivered : asked[q] = asked[r]
  /\ Reply(r, "duplicate")

\* Told to retry, or not to, or never told anything.
Refuse(r) == Reply(r, "refused")
Lose(r) == Reply(r, "lost")

LogNext ==
  \E r \in Requests :
    Deliver(r) \/ Publish(r) \/ Duplicate(r) \/ Refuse(r) \/ Lose(r)

LogSpec == LogInit /\ [][LogNext]_logVars

=============================================================================
