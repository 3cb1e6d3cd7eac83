------------------------------ MODULE SyncCache ------------------------------
(***************************************************************************)
(* The versioned cache of initial snapshots: services/sync_cache.ts, and   *)
(* the order in which its callers use it (commit to MongoDB, bump the      *)
(* generations, then emit).                                                *)
(*                                                                         *)
(* One snapshot identity, whose data depends on several version scopes     *)
(* (chat, notifications of the store, notifications of the user).  Readers *)
(* are socket connections that need the snapshot, each served by its own   *)
(* server instance; writers are the operations that change it.  Every step *)
(* is one Redis command, one MongoDB read or one in-memory continuation.   *)
(*                                                                         *)
(* A version key that is absent reads as generation 0.  Any Redis command  *)
(* may fail at any time, and the client may be "not ready" at any time.    *)
(***************************************************************************)
EXTENDS Naturals, FiniteSets

CONSTANTS
  Scopes,         \* version scopes of the snapshot
  Readers,        \* get_or_load calls
  Writers,        \* changes of the data, each followed by bump_versions
  Touches,        \* scopes whose data each change touches
  Instances,      \* server instances
  Home,           \* the instance that serves each reader
  CacheTTL,       \* redis_sync_cache_time_to_live_seconds
  GenerationTTL,  \* max(60, 3 * CacheTTL)
  LoadTime,       \* how long an attempt may take from its MGET to its store
  MaxAttempts     \* maximum_attempts of get_or_load (3 in the code)

ASSUME CacheAssumption ==
  /\ Home \in [Readers -> Instances]
  /\ Touches \in [Writers -> SUBSET Scopes]
  /\ CacheTTL \in Nat \ {0}
  /\ GenerationTTL \in Nat
  /\ 3 * CacheTTL <= GenerationTTL
  /\ LoadTime \in Nat
  /\ MaxAttempts \in Nat \ {0}

VARIABLES
  db,        \* committed version of the data of each scope
  settled,   \* db[s] when the generation of s was last replaced
  gen,       \* generation of each scope in Redis, 0 when its key is absent
  gen_left,  \* what is left of its time to live
  tokens,    \* random tokens handed out so far
  cache,     \* snapshots stored in Redis
  todo,      \* scopes each writer still has to bump
  wrote,     \* writers that committed
  pc,
  attempt,   \* turn of the loop a call is in
  versions,  \* generations it got from its MGET
  age,       \* time since that MGET
  owner,     \* the call whose in-flight load it awaits
  pending,   \* scopes its loader still has to read
  value,     \* what it has read, or received
  floor      \* "settled" when the call began

storeVars == <<db, settled, gen, gen_left, tokens, todo, wrote>>
loopVars == <<attempt, versions, age, owner>>
readerVars == <<pc, loopVars, pending, value, floor>>
vars == <<storeVars, cache, readerVars>>

Snapshot == [Scopes -> Nat]
Generations == [Scopes -> Nat]
Entry == [versions : Generations, value : Snapshot, left : Nat]
Phases == {"idle", "mget", "check", "load", "store", "join", "direct", "done",
           "failed"}
\* an attempt that works with the generations it has read
Attempting == {"check", "load", "store"}
Loading == {"load", "store"}
Zero == [s \in Scopes |-> 0]

Init ==
  /\ db = Zero
  /\ settled = Zero
  /\ gen = Zero
  /\ gen_left = Zero
  /\ tokens = 0
  /\ cache = {}
  /\ todo = [w \in Writers |-> {}]
  /\ wrote = {}
  /\ pc = [r \in Readers |-> "idle"]
  /\ attempt = [r \in Readers |-> 0]
  /\ versions = [r \in Readers |-> Zero]
  /\ age = [r \in Readers |-> 0]
  /\ owner = [r \in Readers |-> r]
  /\ pending = [r \in Readers |-> {}]
  /\ value = [r \in Readers |-> Zero]
  /\ floor = [r \in Readers |-> Zero]

Goto(r, phase) == pc' = [pc EXCEPT ![r] = phase]

\* The calls in R leave the loop of get_or_load: its locals are gone.
LeaveLoop(R) ==
  /\ attempt' = [r \in Readers |-> IF r \in R THEN 0 ELSE attempt[r]]
  /\ versions' = [r \in Readers |-> IF r \in R THEN Zero ELSE versions[r]]
  /\ age' = [r \in Readers |-> IF r \in R THEN 0 ELSE age[r]]
  /\ owner' = [r \in Readers |-> IF r \in R THEN r ELSE owner[r]]

\* return loader()
Direct(r) ==
  /\ Goto(r, "direct")
  /\ pending' = [pending EXCEPT ![r] = Scopes]
  /\ LeaveLoop({r})

-----------------------------------------------------------------------------
(* Writers: commit, then bump every scope the change touches *)

Commit(w) ==
  /\ w \notin wrote
  /\ db' = [s \in Scopes |-> IF s \in Touches[w] THEN db[s] + 1 ELSE db[s]]
  /\ todo' = [todo EXCEPT ![w] = Touches[w]]
  /\ wrote' = wrote \cup {w}
  /\ UNCHANGED <<settled, gen, gen_left, tokens, cache, readerVars>>

\* Mutant: the generation is a fixed marker instead of a random token.
FixedToken == 1
Token == tokens + 1

Bump(w, s) ==
  /\ s \in todo[w]
  /\ gen' = [gen EXCEPT ![s] = Token]
  /\ gen_left' = [gen_left EXCEPT ![s] = GenerationTTL]
  /\ settled' = [settled EXCEPT ![s] = db[s]]
  /\ tokens' = tokens + 1
  /\ todo' = [todo EXCEPT ![w] = @ \ {s}]
  /\ UNCHANGED <<db, wrote, cache, readerVars>>

\* The client is not ready or the command is lost: the failure is logged, the
\* publication goes on, and snapshots may be stale for CacheTTL.
BumpFails(w, s) ==
  /\ s \in todo[w]
  /\ todo' = [todo EXCEPT ![w] = @ \ {s}]
  /\ UNCHANGED <<db, settled, gen, gen_left, tokens, wrote, cache, readerVars>>

-----------------------------------------------------------------------------
(* Readers: get_or_load *)

Begin(r) ==
  /\ pc[r] = "idle"
  /\ floor' = [floor EXCEPT ![r] = settled]
  /\ Goto(r, "mget")
  /\ UNCHANGED <<storeVars, cache, loopVars, pending, value>>

BeginWithoutRedis(r) ==
  /\ pc[r] = "idle"
  /\ floor' = [floor EXCEPT ![r] = settled]
  /\ Direct(r)
  /\ UNCHANGED <<storeVars, cache, value>>

ReadVersions(r) ==
  /\ pc[r] = "mget"
  /\ versions' = [versions EXCEPT ![r] = gen]
  /\ Goto(r, "check")
  /\ UNCHANGED <<storeVars, cache, attempt, age, owner, pending, value, floor>>

\* MGET or the read script rejects.
ReadFails(r) ==
  /\ pc[r] \in {"mget", "check"}
  /\ Direct(r)
  /\ UNCHANGED <<storeVars, cache, value, floor>>

\* Mutant: the scripts do not compare the generations.
AnyVersions(r) == TRUE
\* What both Lua scripts test before they read or write the entry.
VersionsMatch(r) == versions[r] = gen

\* Mutant: one attempt too many.
LastAttemptLate(r) == attempt[r] = MaxAttempts
LastAttempt(r) == attempt[r] + 1 = MaxAttempts

\* The next turn of the loop for the calls in R, or the loader itself.
Retry(R) ==
  /\ pc' = [r \in Readers |->
       IF r \notin R THEN pc[r] ELSE IF LastAttempt(r) THEN "direct" ELSE "mget"]
  /\ attempt' = [r \in Readers |->
       IF r \notin R THEN attempt[r]
       ELSE IF LastAttempt(r) THEN 0 ELSE attempt[r] + 1]
  /\ pending' = [r \in Readers |->
       IF r \in R /\ LastAttempt(r) THEN Scopes ELSE pending[r]]
  /\ versions' = [r \in Readers |-> IF r \in R THEN Zero ELSE versions[r]]
  /\ age' = [r \in Readers |-> IF r \in R THEN 0 ELSE age[r]]
  /\ owner' = [r \in Readers |-> IF r \in R THEN r ELSE owner[r]]
  /\ value' = [r \in Readers |-> IF r \in R THEN Zero ELSE value[r]]

CheckFails(r) ==
  /\ pc[r] = "check"
  /\ ~ VersionsMatch(r)
  /\ Retry({r})
  /\ UNCHANGED <<storeVars, cache, floor>>

Hit(r) ==
  /\ pc[r] = "check"
  /\ VersionsMatch(r)
  /\ \E e \in cache : /\ e.versions = versions[r]
                      /\ value' = [value EXCEPT ![r] = e.value]
  /\ Goto(r, "done")
  /\ LeaveLoop({r})
  /\ UNCHANGED <<storeVars, cache, pending, floor>>

Missed(r) ==
  /\ pc[r] = "check"
  /\ VersionsMatch(r)
  /\ \A e \in cache : e.versions # versions[r]

\* in_flight_loads of the instance, by cache key.
InFlight(r) ==
  {q \in Readers : /\ pc[q] \in Loading
                   /\ Home[q] = Home[r]
                   /\ versions[q] = versions[r]}

StartLoad(r) ==
  /\ Missed(r)
  /\ InFlight(r) = {}
  /\ pending' = [pending EXCEPT ![r] = Scopes]
  /\ Goto(r, "load")
  /\ UNCHANGED <<storeVars, cache, loopVars, value, floor>>

JoinLoad(r) ==
  /\ Missed(r)
  /\ \E q \in InFlight(r) : owner' = [owner EXCEPT ![r] = q]
  /\ Goto(r, "join")
  /\ UNCHANGED <<storeVars, cache, attempt, versions, age, pending, value,
                 floor>>

\* The loader reads the data of one scope; it is no transaction.
ReadScope(r, s) ==
  /\ pc[r] \in {"load", "direct"}
  /\ s \in pending[r]
  /\ value' = [value EXCEPT ![r] = [@ EXCEPT ![s] = db[s]]]
  /\ pending' = [pending EXCEPT ![r] = @ \ {s}]
  /\ IF pending[r] # {s}
       THEN UNCHANGED pc
       ELSE Goto(r, IF pc[r] = "load" THEN "store" ELSE "done")
  /\ UNCHANGED <<storeVars, cache, loopVars, floor>>

\* Mutant: only the caller that started the load is answered.
AwaitingCallerOnly(r) == {r}
\* The callers that await the load of r.
Awaiting(r) == {r} \cup {q \in Readers : pc[q] = "join" /\ owner[q] = r}

Answer(r) ==
  /\ value' = [q \in Readers |-> IF q \in Awaiting(r) THEN value[r] ELSE value[q]]
  /\ pc' = [q \in Readers |-> IF q \in Awaiting(r) THEN "done" ELSE pc[q]]
  /\ LeaveLoop(Awaiting(r))

\* SET with EX of the write script.
Stored(r) ==
  {e \in cache : e.versions # versions[r]}
    \cup {[versions |-> versions[r], value |-> value[r], left |-> CacheTTL]}

Store(r) ==
  /\ pc[r] = "store"
  /\ VersionsMatch(r)
  /\ cache' = Stored(r)
  /\ Answer(r)
  /\ UNCHANGED <<storeVars, pending, floor>>

StoreIsStale(r) ==
  /\ pc[r] = "store"
  /\ ~ VersionsMatch(r)
  /\ Retry(Awaiting(r))
  /\ UNCHANGED <<storeVars, cache, floor>>

\* The write rejects, whether or not Redis ran it: the value is returned.
StoreFails(r) ==
  /\ pc[r] = "store"
  /\ \/ cache' = cache
     \/ VersionsMatch(r) /\ cache' = Stored(r)
  /\ Answer(r)
  /\ UNCHANGED <<storeVars, pending, floor>>

\* MongoDB rejects: so do all the calls that await this load.
LoaderFails(r) ==
  /\ pc[r] \in {"load", "direct"}
  /\ pc' = [q \in Readers |-> IF q \in Awaiting(r) THEN "failed" ELSE pc[q]]
  /\ value' = [q \in Readers |-> IF q \in Awaiting(r) THEN Zero ELSE value[q]]
  /\ pending' = [pending EXCEPT ![r] = {}]
  /\ LeaveLoop(Awaiting(r))
  /\ UNCHANGED <<storeVars, cache, floor>>

-----------------------------------------------------------------------------
(* Time: keys disappear when they expire *)

Tick ==
  /\ \A r \in Readers : pc[r] \in Attempting => age[r] < LoadTime
  /\ age' = [r \in Readers |-> IF pc[r] \in Attempting THEN age[r] + 1 ELSE age[r]]
  /\ gen_left' = [s \in Scopes |-> IF gen_left[s] > 0 THEN gen_left[s] - 1 ELSE 0]
  /\ gen' = [s \in Scopes |-> IF gen_left[s] <= 1 THEN 0 ELSE gen[s]]
  /\ cache' = {[e EXCEPT !.left = @ - 1] : e \in {f \in cache : f.left > 1}}
  /\ UNCHANGED <<db, settled, tokens, todo, wrote, pc, attempt, versions, owner,
                 pending, value, floor>>

-----------------------------------------------------------------------------
Read(r) ==
  \/ Begin(r) \/ BeginWithoutRedis(r) \/ ReadVersions(r) \/ ReadFails(r)
  \/ CheckFails(r) \/ Hit(r) \/ StartLoad(r) \/ JoinLoad(r)
  \/ (\E s \in Scopes : ReadScope(r, s))
  \/ Store(r) \/ StoreIsStale(r) \/ StoreFails(r) \/ LoaderFails(r)

Write(w) == Commit(w) \/ \E s \in Scopes : Bump(w, s) \/ BumpFails(w, s)

Next == (\E r \in Readers : Read(r)) \/ (\E w \in Writers : Write(w)) \/ Tick

Spec == Init /\ [][Next]_vars
FairSpec == Spec /\ \A r \in Readers : WF_vars(Read(r))

-----------------------------------------------------------------------------
(* Properties *)

TypeOK ==
  /\ db \in Snapshot
  /\ settled \in Snapshot
  /\ gen \in Generations
  /\ gen_left \in [Scopes -> Nat]
  /\ tokens \in Nat
  /\ cache \subseteq Entry
  /\ todo \in [Writers -> SUBSET Scopes]
  /\ wrote \subseteq Writers
  /\ pc \in [Readers -> Phases]
  /\ attempt \in [Readers -> 0..MaxAttempts - 1]
  /\ versions \in [Readers -> Generations]
  /\ age \in [Readers -> Nat]
  /\ owner \in [Readers -> Readers]
  /\ pending \in [Readers -> SUBSET Scopes]
  /\ value \in [Readers -> Snapshot]
  /\ floor \in [Readers -> Snapshot]

AtLeast(a, b) == \A s \in Scopes : a[s] >= b[s]

\* A snapshot holds every change whose generation had been replaced when the
\* call began.
Fresh == \A r \in Readers : pc[r] = "done" => AtLeast(value[r], floor[r])

\* An entry a reader can still find is as recent as the last invalidation: no
\* generation that comes back makes an old entry visible again.
ReachableEntriesAreCurrent ==
  \A e \in cache : e.versions = gen => AtLeast(e.value, settled)

\* A result that one of the scripts checked is current when it is returned,
\* also to callers that share the load and when invalidations ran during it.
CheckedResultsAreCurrent ==
  [][\A r, q \in Readers :
       (Hit(r) \/ Store(r)) /\ pc[q] # "done" /\ pc'[q] = "done"
         => AtLeast(value'[q], settled)]_vars

\* The abstract status and result of a call.
StatusOf(r) ==
  CASE pc[r] = "idle" -> "idle"
    [] pc[r] = "done" -> "answered"
    [] pc[r] = "failed" -> "failed"
    [] OTHER -> "asked"
ResultOf(r) == IF pc[r] = "done" THEN value[r] ELSE Zero

Reads == INSTANCE SnapshotReads WITH
  Callers <- Readers,
  data <- db,
  fence <- settled,
  since <- floor,
  status <- [r \in Readers |-> StatusOf(r)],
  result <- [r \in Readers |-> ResultOf(r)]

\* The cache cannot be told from reads of the data: each call is answered once,
\* with versions that were committed and are not older than the invalidations
\* before the call, so a socket that joined its rooms before it misses no change
\* between the snapshot and the events, however loads are shared, retried or
\* answered without Redis.
LooksUncached == Reads!ReadSpec

\* Every call returns or fails: no caller hangs on the load of another one, or
\* retries for ever against a stream of invalidations.
EveryReadEnds == \A r \in Readers : pc[r] = "mget" ~> pc[r] \in {"done", "failed"}

=============================================================================
