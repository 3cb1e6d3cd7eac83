---------------------------- MODULE SnapshotReads ----------------------------
(***************************************************************************)
(* What a caller of get_or_load may count on, with no cache, generation,   *)
(* shared load or retry in sight: the call fails, or is answered with      *)
(* versions of the data that were committed before the answer, none of     *)
(* them older than the last invalidation before the call.                  *)
(***************************************************************************)
EXTENDS Naturals

CONSTANTS
  Scopes,
  Callers

VARIABLES
  data,    \* version of the data of each scope
  fence,   \* the version at its last invalidation
  since,   \* the fence when a caller asked
  status,  \* of each caller
  result   \* what it was answered with

readVars == <<data, fence, since, status, result>>

None == [s \in Scopes |-> 0]

ReadInit ==
  /\ data = None
  /\ fence = None
  /\ since = [c \in Callers |-> None]
  /\ status = [c \in Callers |-> "idle"]
  /\ result = [c \in Callers |-> None]

Change(S) ==
  /\ UNCHANGED <<fence, since, status, result>>
  /\ data' = [s \in Scopes |-> IF s \in S THEN data[s] + 1 ELSE data[s]]

Invalidate(s) ==
  /\ UNCHANGED <<data, since, status, result>>
  /\ fence' = [fence EXCEPT ![s] = data[s]]

Ask(c) ==
  /\ status[c] = "idle"
  /\ status' = [status EXCEPT ![c] = "asked"]
  /\ since' = [since EXCEPT ![c] = fence]
  /\ UNCHANGED <<data, fence, result>>

Waiting == {c \in Callers : status[c] = "asked"}

\* Callers may be answered, and fail, together.
End(C, how) ==
  /\ UNCHANGED <<data, fence, since>>
  /\ status' = [c \in Callers |-> IF c \in C THEN how ELSE status[c]]

\* The versions between those two.
Between(low, high) ==
  {v \in [Scopes -> UNION {low[s]..high[s] : s \in Scopes}] :
     \A s \in Scopes : v[s] \in low[s]..high[s]}

Answer(C) ==
  /\ End(C, "answered")
  /\ \E v \in Between(None, data) :
       /\ \A c \in C : v \in Between(since[c], data)
       /\ result' = [c \in Callers |-> IF c \in C THEN v ELSE result[c]]

Fail(C) == End(C, "failed") /\ UNCHANGED result

ReadNext ==
  \/ \E S \in SUBSET Scopes : Change(S)
  \/ \E s \in Scopes : Invalidate(s)
  \/ \E c \in Callers : Ask(c)
  \/ \E C \in SUBSET Waiting : Answer(C) \/ Fail(C)

ReadSpec == ReadInit /\ [][ReadNext]_readVars

=============================================================================
