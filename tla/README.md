# Formal models of the DriveParts WebSocket server

This directory holds TLA+ specifications of the server in `src/`, the TLC
configurations that check them on small instances, and theorems about them that
the TLA+ proof system (TLAPS) checks for every value of the constants. Names in
the modules are those of the code wherever TLA+ allows it; `PROJECT.json` gives,
for every definition, the lines it was translated from.

Paths below are relative to `src/src/` unless they begin with `docs/` or
`tests/`.

## 1. The system

The server is a Node process, run in several *instances* behind a balancer. It
holds Socket.IO connections of store users, of visitors of the public site
(`customer`) and of marketplace users. It shares MongoDB with the stores' own
system, which it does not own, and Redis with its sister instances. Inside an
instance the code between two `await`s is atomic; at an `await` anything may run,
on this instance or another. All the hard behaviour comes from there.

| component | code | state it keeps | operations |
|---|---|---|---|
| publication results | `http/app.ts` (POST `/internal/publication-results`), `repositories/publication_result_repository.ts` | a receipt per idempotency key in MongoDB, with the claim of the request that works on it | resolve, claim (insert, read, reclaim after 60 s), mark published, release |
| notifications | `repositories/notification_repository.ts`, `socket/handlers/store_notifications.ts`, `http/app.ts` | notifications in MongoDB, published mark, read marks | create once, mark published, list, mark read |
| sync cache | `services/sync_cache.ts`; callers in `socket/realtime_gateway.ts`, `socket/handlers/store.ts` | snapshots and a generation per version scope in Redis, shared loads in memory | get_or_load, bump_versions |
| presence | `services/presence_service.ts`; callers in `socket/handlers/store.ts`, `customer.ts` | a sorted set of sockets per store in Redis, eight maps in memory | register, unregister, list, set_observed_presence, clear_observer, heartbeat, close |
| e-commerce chat | `repositories/ecommerce_chat_repository.ts`, `socket/handlers/customer.ts`, `store.ts` | conversation and messages in MongoDB, unread counters | send (visitor, attendant), read, list |
| attendance chat | `repositories/chat_repository.ts`, `socket/realtime_gateway.ts` | thread between two stores, responsibles of its sides, messages | send, read, list, rooms of a message |
| marketplace chat | `repositories/marketplace_chat_repository.ts` | read marks of conversations other systems write | list, read |
| support requests | `repositories/support_request_repository.ts`, `socket/handlers/store_support_requests.ts` | none of its own | snapshots |
| sessions | `socket/auth.ts`, `socket/register_handlers.ts`, `socket/handlers/store.ts`, `customer.ts` | rooms of a socket, expiry timer, sessions kept for a reconnection | connect, recover, bootstrap, disconnect, clean up |
| rate limiter | `services/customer_rate_limiter.ts` | windows per visitor, in Redis or in memory | allow |
| work tracking and shutdown | `socket/handlers/shared.ts`, `socket/server.ts`, `index.ts` | events and background work in flight | run_event, run_background, begin_drain, drain |
| gateway | `socket/realtime_gateway.ts` | none; invalidates the cache, then emits to rooms | publish_* |
| HTTP surface | `http/app.ts`, `http/internal_auth.ts` | none | health, internal routes |
| Redis runtime | `redis/runtime.ts` | two connections (commands, Streams adapter) | start, status, close |
| MongoDB | `db/mongo.ts` | connection, indexes | connect, ensure indexes, ping |
| contracts, configuration, serialisation, logging | `contracts/`, `serializers/`, `config/`, `utils/` | none | pure functions |

How they interact: a handler calls a repository (MongoDB), awaits
`SyncCache.bump_versions` (Redis), and then emits through the gateway, whose
rooms the Streams adapter carries to the sister instances. A connecting socket
joins its rooms first and loads its snapshot through the cache afterwards, so a
change is either in the snapshot or in an event. Presence is called at the end of
a store socket's bootstrap and in its disconnect handler. The Queue, another
service, posts publication results and repeats them until it is told to stop. At
shutdown `socket/server.ts` drains, closes the sockets (whose disconnect handlers
start new work), drains again, and then closes presence and Redis.

What each has to get right, and the behaviours that make it hard:

* **Publication results.** The Queue stops only when the result was delivered;
  two workers do not work under one claim; a dead one does not block the key.
  Crashes between emission and mark, lost answers of writes, reclaims after the
  lock time, the TTL index.
* **Sync cache.** A snapshot never misses a change invalidated before the call;
  an entry of the past never becomes reachable again. Loads shared among
  callers, generations that expire, scopes replaced one at a time.
* **Presence.** What observers see converges to what is connected; a socket that
  left does not come back; the maps do not leak. Commands that time out and still
  run, heartbeats that raced with registrations, dead instances, lost data.
* **Chats.** Counters and summaries follow the messages, repeated sends get one
  message, one seller speaks per side. Concurrent writers, with and without
  MongoDB transactions, retries that meet the first attempt at any point.
* **Notifications.** What was accepted was emitted, a retry of it emits nothing,
  and a screen has every unread one. Repeated posts, processes that die between
  emission and mark, pages from a cache, ids that are not in the order of the
  insertions.
* **Sessions.** Rooms follow the present token; *ready* means complete. A session
  is recovered with another token, in the middle of a bootstrap, or while the
  cleanup of its former socket runs.
* **Shutdown.** It waits for everything that uses what it closes, and ends. Closing
  the sockets starts new work; cleanups wait for registrations, error handlers
  for cleanups.

## 2. Modules

| module | models | proofs | instance |
|---|---|---|---|
| `PublicationResults` | the POST handler and the receipts | `PublicationResults_proofs` | `MCPublicationResults` |
| `DeliveryLog` | what that handler promises the Queue (abstract) | with the former | with the former |
| `Notifications` | the notifications of a store: POST, reading, screens | `Notifications_proofs` | `MCNotifications` |
| `SocketServer` | the sockets of a process, from connection to shutdown | `SocketServer_proofs` | `MCSocketServer` |
| `SyncCache` | `get_or_load`, `bump_versions`, expiry | `SyncCache_proofs` | `MCSyncCache` |
| `SnapshotReads` | what `get_or_load` promises its callers (abstract) | with the former | with the former |
| `Presence` | the presence service and its callers, one store | `Presence_proofs` | `MCPresence` |
| `EcommerceChat` | one visitor's conversation with a store | `EcommerceChat_proofs` | `MCEcommerceChat` |
| `AttendanceChat` | one thread between two stores | `AttendanceChat_proofs` | `MCAttendanceChat` |

The conventions are the same in all of them. A call of the code is a process with
a program counter `pc`; an action is the code from one `await` to the next, with
its early returns as alternatives; `UNCHANGED` names what it leaves alone. Ids,
bodies, keys and texts are members of small sets. Budgets (`MaxFaults`,
`MaxWrites`, `MaxChanges`, `MaxId`, `MaxTime`, `MaxRequests`, `Plans`) bound what
the environment does and are all constants. A definition marked *Mutant* is a
plausible bug: no specification uses it, and replacing the definition it precedes
by it makes one property fail, as `PROJECT.json` lists.

### PublicationResults

State: `doc` is the canonical document the Queue writes, `receipt` the row of the
key (`NoReceipt` when absent), `note` the persisted notification, and `pc`,
`input`, `snapshot`, `at`, `born`, `seen`, `outcome` the locals of each request.
`Resolve` is `resolve()`, `Insert`/`Read`/`Reclaim` the three operations of
`claim()`, `CreateNotification` to `MarkPublished` the `try` block of the handler,
`Release` its `catch`. `MongoFails` makes any operation reject, before or after
being applied; `Crash` kills the process of a request; `Expire` is the TTL
index, which is free to be late. `Tick` moves the clock only between steps, so a
request may take arbitrarily long between any two of them and outlive its lock.
The redaction of error texts is wording and left out.

Between `Resolve` and `Emit` the Queue may write the document again: `Emit` then
announces a state that is older than the document, which the code accepts, since the
client fetches the publication by its id. What must not happen is that two reports of
one key differ, the error text in the events and the one in the notification, as the
client keeps the first and drops the rest; `ReportsAgree` says so, whatever is
written to the document and whichever attempt stores the notification.

`DeliveryLog` is the promise behind it, with no receipt, lock, claim or failure: a
request delivers its input at most once, and is answered *published* after it did,
or *duplicate* after another request delivered the same input. `Log` in
`PublicationResults` maps the detailed state to it (`Deliverers`, `ReplyOf`), and
`KeepsPromise` says that every step of the handlers, crashes and reclaims included,
is a step of the log or none.

### Notifications

State: `notes`, `published` and `read` are the collection; `lag` the ids whose last
change a cached snapshot may miss, `swallowed` those among them whose handler went on
after a bump that did not take effect; per POST its `pc`, `body` and `note`; per screen
how far it has come (`stage`), the page on its way and what it was sent (`listed`,
`heard`, `told`, and `hidden`, the swallowed changes its first page missed). A POST finds or inserts, invalidates, emits and marks, in this
order, each an action; `Lose` ends it after any of them. The cache itself is
`SyncCache`; here it is what that module's `Fresh` promises: a page of the cache
misses no change that a bump has reached, and may miss those in `lag`. `Bump` is
`bump_versions`: it replaces the generation of each audience or, when Redis is not
ready or fails, of only some, and returns all the same
(`services/sync_cache.ts:214`, `:231`), so the handler emits and marks while an old
page stays reachable. A screen joins its rooms before it loads (`socket/handlers/store.ts`), and asks for
older pages one at a time. `late` records, for the properties, whether the key of
a POST had been accepted before it began. A notification that was emitted as new
after it had been read elsewhere is not claimed to be shown as read, and a
`notification:read_all` leaves out what is inserted while it runs.

### SocketServer

State: `sessions` are those the adapter of Socket.IO keeps; `token`, `id`,
`recovered`, `boot`, `rooms`, `seen`, `ready` and `clean` belong to a connection:
its identity and permissions, the id it may share with the connection it recovers,
where the bootstrap stands, and its `cleanup_promise`; `members` are the ids in
`PresenceService`, `active` the calls in flight that `SocketWorkTracker` counts,
`server` and `report` the shutdown. `Connect` and `Recover` run the middleware and
the bootstrap up to its first I/O; then each load is an action, and so is its
failure (`Fails`), after which a store socket cleans up before it is
disconnected (`Failed`) and a customer is disconnected at once. `Lose` is a
disconnection after which the adapter keeps the session, `Leave` one after which it
does not, the expiry of the token among them. A permission is *early* when only a
new session joins its rooms and gets its snapshot (chat, notifications, the rooms
of customers), and *late* when recovered sessions are served too (publications,
support requests). `OldSessions` are sessions other processes have left, perhaps
of a release that did not know the late rooms. `whole` is history: no bootstrap of
the session was left unfinished.

`http` counts the HTTP requests whose client waits for the answer, `orphans` the
handlers whose client has hung up (`HttpAborts`). `io.close` calls back when the HTTP
server has no connection left (`socket/server.ts:116-118`), so `HttpClosed` waits for
`http`, and for nothing else: an orphan is in no tracker, may run on after MongoDB and
Redis are closed, and fails there. `NothingIsCutOff` is about what the shutdown
waits for, and leaves orphans out.

Signal, first drain, `io.close`, HTTP, second drain, presence, stores: `Advance`
gives their order, and `Drained` is the condition both drains wait for. Work that
is in flight is a step that has not happened yet, so a drain is a guard and not a
loop. The process's exit and signals that come again change nothing and are left out.

### SyncCache

State: `db` counts the commits per scope, `gen` is the generation in Redis with
0 for an absent key (the code's `'0'`), `cache` the stored entries, each with the
generations it is filed under and its time left; per reader, `versions`, `value`,
`owner` (whose load it shares) and `attempt`. Random tokens are fresh numbers. Two
variables only observe: `settled`, the data when a scope's generation was last
replaced, and `floor`, `settled` when a call began. A writer commits, then bumps
its scopes one by one (`bump_versions` awaits a `Promise.all`, so any order), each
of which may fail. `Tick` ages everything; `LoadTime` bounds the age of an attempt
that has read its generations.

`SnapshotReads` is what a caller may count on, with no cache, generation, shared load
or retry: data that changes and is invalidated, and calls that fail or are answered,
alone or together, with versions that were committed and are none of them older than
the last invalidation before the call. `Reads` in `SyncCache` maps the detailed state
to it (`StatusOf`, `ResultOf`): a call is answered when `get_or_load` returns, by a hit,
a load of its own or one it shares, and `LooksUncached` says that nothing else shows.
`Fresh`, the part of it the callers rely on most, is stated on its own for the proofs.

### Presence

State: `score` is the sorted set of the one store; `wire[i]` the commands the
instance's connection has not answered, in order, since ioredis sends and answers
them so; `client`, `up` and `beat` the connection, the process and the heartbeat
in flight; `local`, `auth`, `observed`, `count`, `gen`, `next_gen` the maps of the
service for this store; `phase` each store socket, `view`, `snap` and `shown` each
observer. A command times out by being rejected while it stays on the wire (`cut`
or `orphan`); a lost connection rejects all of them, each of which may or may not
have run. `Plans` are the sequences of faults and of `presence:sync` calls an instance of
the model may see. Time runs in rounds of one heartbeat interval: the timer of every live
instance fires in each, and a member lives for `Life` rounds (3 in the code's
ratio of 45 s to 15 s; 1 or 2 here, as smaller lives expire sooner and expose more).
The model keeps the tracking generations, which the heartbeat compares before it
applies a result. `last_seen_at`, its gate and its persistence are left out (with
`local_last_seen_at` and `local_next_persist_at`, of which `NothingLeaks` says
nothing), and so is the loss of a volatile emission. With no Redis (`client = "none"`) presence
is local to an instance, as the code has it, and the observer of another instance
sees nothing; no liveness is claimed there.

### EcommerceChat and AttendanceChat

Both have `transactions` as a variable chosen initially, because
`MONGODB_TRANSACTIONS_ENABLED` changes the unit of atomicity. With it, the writes
of a call are the one action `Commit`: two transactions that touch the same
document conflict, the server retries one of them, and what commits is
serialisable on that document. Without it, each write is an action. Ids are
drawn in any order (`\E id \in Ids \ DOMAIN messages`): ObjectIds of different
instances are not in the order of their insertion, and the monotonic updates
(`Newest`, `UpdateThread`) exist for this reason.

`EcommerceChat`: `Earlier` finds a repeated `client_message_id` in the present
or in the old form of the idempotency key; readers mark messages and then
correct the counter; `device` joins its room, receives its first page and then lives
on events; `seen` is what it shows. The page comes through `SyncCache`, as in
`Notifications`: it may miss the messages in `lag`, those stored since the last bump
that took effect. `Publish` emits and acknowledges also when the bump of `Invalidate`
was swallowed; then `swallowed` has the message, and `hidden` if the device's page
missed it. The bumps of `ecommerce_chat:contact` and of a changed identity at the
bootstrap, which only make pages younger, are left out.

`AttendanceChat`: `Assigned` is the assignment of a free side to the first writer,
`MayHandle` the check that it is his, `Opens` and `UpdateThread` the status and the
summary, `Describe` and `VisibleTo` the rooms of the event. `sides` in a message is
not a field of the document: it records the responsibles at the moment of the
write, for the properties. Transfers, changed settings and closing come from the
stores' system, outside this repository. Masters see every message and are left
out.

## 3. Properties

Each is stated, with the behaviour of the code it is about, above its definition.

| module | property | says |
|---|---|---|
| PublicationResults | `KeepsPromise` | refinement of `DeliveryLog`: answers that make the Queue stop rest on deliveries |
| | `ReportsAgree` | the error events of a key and its stored notification tell one error |
| | `ClaimIsALease` | two requests hold the claim only if one outlived its lock |
| | `OthersClaimIsKept` | nobody touches the receipt of a claimant within its lease |
| | `PublishedIsFinal` | only the TTL takes back a published receipt |
| | `ReemitsOnlyAfterLoss` | a second emission needs a failure, a crash or a lapsed lease |
| | `RecoversAfterCrash` | a claim that a dead request left blocks nobody for good |
| SyncCache | `LooksUncached` | refinement of `SnapshotReads`: a call is answered once, with committed versions, and misses no change invalidated before it began |
| | `ReachableEntriesAreCurrent` | no old entry becomes reachable again |
| | `CheckedResultsAreCurrent` | what a script checked is current for all who share it |
| | `EveryReadEnds` | every call returns or fails |
| Presence | `NothingLeaks` | each entry of the maps that are modelled has an owner that will remove it |
| | `GoneStaysOut` | a socket that left is not added back |
| | `HeartbeatsAreCurrent` | a heartbeat does not forget a store with a registered socket |
| | `OfflineIsForgotten` | members nobody removed lapse, and instances forget an offline store nobody observes |
| | `OfflineIsReported` | observers end up showing an offline store offline |
| | `OnlineIsReported` | ... and an online one online: **refuted** |
| EcommerceChat | `ConversationIsCurrent` | the conversation shows its newest message and, with transactions, counts the unread ones (`LatestIsNewest`, `CountersMatch`) |
| | `AnswersAreFaithful` | an acknowledged send is stored once, and is its own |
| | `AcknowledgedIsSeen` | a ready device shows what was acknowledged, but for a message its cached page missed because the bump was swallowed |
| | `ClosedStaysClosed` | with transactions no message enters a closed conversation |
| AttendanceChat | `OneVoice` | every message of a side is of its responsible |
| | `ThreadFollowsMessages` | summary and status follow from the messages |
| | `VisibilityIsRight` | a message reaches the right sellers and no others |
| | `AnswersAreFaithful`, `ClosedStaysClosed` | as above, for a thread |
| Notifications | `AcceptedMeansPublished` | a 202 means that this content is stored and was emitted |
| | `RetriesAreSilent` | a POST that begins after its key was accepted emits nothing |
| | `ScreensAreComplete` | a screen has every unread notification down to its last page, and nobody else's, but for an insertion its cached page missed because the bump was swallowed |
| | `ReadingsReachScreens` | a screen that shows one as unread is told when it is read, with the same exception |
| SocketServer | `RoomsAreAllowed` | a socket hears only what its present token allows |
| | `ReadyIsComplete` | ready means: rooms joined, snapshots sent, presence registered |
| | `NothingIsCutOff` | what work uses is closed after the work of every socket and the requests clients wait for; sessions left are of finished bootstraps |
| | `ShutdownEnds` | a shutdown that has begun ends |

Every module has one type invariant, `TypeOK`, besides.

## 4. Runs

To repeat one: `tlc -workers 2 -config SyncCache.cfg MCSyncCache`. All runs say
`CHECK_DEADLOCK FALSE`: the calls and budgets of an instance are finite, and when
they are used up the system really has nothing left to do.

| run | configuration | instance | shows |
|---|---|---|---|
| `publication_safety` | `PublicationResults_safety.cfg` | three requests of one input, 2 failures or crashes, lock 1, life 3, clock 3 | type correctness and four safety properties under crashes, reclaims and expiry |
| `publication_recovery` | `PublicationResults_recovery.cfg` | two requests whose inputs may differ, 1 write of the document with two error texts, 1 failure, fair | the handlers implement `DeliveryLog`, all reports of an error agree, a dead claim is taken over |
| `sync_cache` | `SyncCache.cfg` | two calls of one instance, two scopes, two changes, two attempts | the cache implements `SnapshotReads`; entries and checked results are current |
| `sync_cache_ends` | `SyncCache_ends.cfg` | two calls, one scope, three attempts, fair | every call ends |
| `sync_cache_slow_load` | `SyncCache_slow_load.cfg` | as the first, one scope, loads longer than a generation lives | **violation**, finding 1 |
| `presence_safety` | `Presence_safety.cfg` | two instances with a socket each, an observer, with and without Redis, one timeout, instances that close | maps do not leak, nobody comes back, heartbeats are current |
| `presence_liveness` | `Presence_liveness.cfg` | a socket and an observer apart; up to two timeouts, or one lost connection, emptied Redis or dead instance and then a `presence:sync`; fair | ghosts expire, instances forget, the observer ends up showing offline |
| `presence_online` | `Presence_online.cfg` | one instance, a socket, an observer, no fault, fair | **violation**, finding 2 |
| `ecommerce_chat` | `EcommerceChat.cfg` | two calls (visitor or attendant, same or different key and body), a reader, a device with a cached first page, two ids, two failures or swallowed invalidations, both modes | its five properties |
| `attendance_chat` | `AttendanceChat.cfg` | two calls of three sellers (two of one store), two ids, one transfer or change of setting, one failure, both modes | the six properties |
| `notifications` | `Notifications.cfg` | two POSTs (same or different key, user, content), a reader of either user, a screen, three ids (an earlier notification has the oldest), pages of one, one failure, death or swallowed invalidation | the five properties |
| `socket_server` | `SocketServer.cfg` | two connections, three tokens (a store user with all permissions or fewer, a customer), a session of an earlier release, one call and two HTTP requests at a time, clients that hang up, fair | the five properties |

Why the bounds are enough for what is asked:

* *Publication results.* Every hazard is a matter of a claimant, another that
  reclaims from it, and a third whose read or write is late; three requests and
  two failures give every one of them. With a lock of one tick and a life of
  three a claim can lapse, be renewed and lapse again before its receipt
  expires. The theorems remove the bounds for safety.
* *Sync cache.* A stale entry needs a loader, a change that overtakes it and a
  reader; a shared one needs two callers; a change half done needs two scopes.
  Two changes are needed for a generation to be replaced and to expire in
  between. Theorems again hold for all values.
* *Presence.* Races are between a registration or unregistration on one instance
  and a heartbeat of the same or the other; one observer sees whatever an
  observer can. One fault of each kind is in some run. An instance with the
  two sockets apart, `Life` 2 and one timeout (a million states) was checked
  for `OfflineIsReported` as well and is not kept for its cost.
* *Chats.* Each interleaving hazard is between two writers, or a writer and a
  reader. Two keys, or a key and none, and two bodies give repetitions,
  conflicts and independent messages; two ids let the later of two messages be
  the older one, or leave one new message beside that of an earlier release. Two
  faults let a call be lost after its writes, and the invalidation of its
  repetition be swallowed.

* *Notifications.* A repetition needs two POSTs, a stale page a change, a cached
  load and a screen; with pages of one and three ids a screen has a page, an older
  one, and an insertion between the two.
* *Sockets.* A session passes from the old process through both connections, so
  three sockets share its id; two connections are together in the bootstrap, one
  recovering while the cleanup of the other waits, when the signal comes. A third
  one exceeds the time of a run; the theorems hold for any number.

Symmetry is used only where each temporal property of the configuration is an
action property or a refinement without fairness (`LooksUncached`), and only over
calls, and texts that are compared with nothing but each other, which the specification,
and the abstract one, treat alike.

### Fairness

`PublicationResults!FairSpec` and `SyncCache!FairSpec` ask weak fairness of each
call's steps: Node runs every ready continuation, Redis commands settle within
`commandTimeout` (1.5 s), and MongoDB operations settle. The last is an assumption
on the database and the network: the driver limits the choice of a server and
of a connection (`db/mongo.ts:17-19`), not an operation. Nothing is asked of
clocks, crashes, failures or the Queue. `RecoversAfterCrash` therefore starts when a request claims *after* the
lock time of the dead one; that the Queue retries is its own affair.
`Presence!FairSpec` asks weak fairness of each socket's and observer's handler,
each heartbeat, each connection (commands that are answered, or rejected by
`commandTimeout`) and of `Tick`, the passing of time, without which no member
lapses. `SocketServer!FairSpec` asks weak fairness of each bootstrap and cleanup, of
each call and request in flight, which end because MongoDB and Redis answer or
time out, as above, and of the steps of the shutdown. Nothing makes a user connect or leave, or a fault happen. Liveness is
stated as "once the store stays offline ...": the antecedent is about the users,
never about the service.

### Findings

1. *A generation is reused when its key expires* (`sync_cache_slow_load`). An
   absent key reads as the constant `'0'` (`services/sync_cache.ts:117`). A load
   that starts with no key and lasts longer than the life of the generation
   written meanwhile, `max(60, 3 * TTL)` seconds, stores its old snapshot under
   `'0'`, which is then current again. `docs/ATENDIMENTO_CHAT.md:327-330` says
   that random tokens avoid reusing a generation once its key has expired. They
   do for loads shorter than that life, which the theorems assume
   (`LoadTime < GenerationTTL`) and no timeout of the loader enforces.
2. *An older snapshot overtakes an online update* (`presence_online`).
   `bootstrap_customer_socket` joins the presence room, reads `list()`, awaits
   the rest of the snapshot and only then emits the presence it read
   (`socket/handlers/customer.ts:130-156`). A store that registers in between
   publishes *online* first; the stale *offline* comes last, and as the register
   has set `authoritative_online_by_store`, no heartbeat sees a transition to
   publish. `docs/ATENDIMENTO_CHAT.md:341-342` says that observed stores go on
   being reconciled.

Five limits are worth knowing without being findings. Without transactions
`EcommerceChat`'s unread counter may drift with no failure at all, when a reader
marks a message between its insertion and the increment; the documentation
(`docs/ATENDIMENTO_CHAT.md:396-399`) speaks only of failures, so `CountersMatch`
is stated for transactions; with them it rests on the atomicity of `Commit` and
`MarkRead`. `OfflineIsReported` holds with timeouts but not
with lost connections or data, nor when an instance closes between an unregister
whose answer timed out and its next heartbeat: then nobody is left who knew the
store online. And `ReadyIsComplete` excludes sessions of unfinished bootstraps
(`whole`): with connection recovery enabled, a client that loses its transport
during its bootstrap recovers a session that lacks snapshots, and for customers
rooms, which its second bootstrap does not repeat (`socket/handlers/store.ts:172`
and `:255`) before it says ready; the cleanup of the first socket then also
unregisters the id both have. `docs/ATENDIMENTO_CHAT.md:358-361` keeps recovery
disabled by default because this contract has not been validated. An invalidation that
Redis refuses is only logged (`services/sync_cache.ts:214`, `:231`), and a page cached
before it is served until it expires or the next bump: a screen or device that connects
meanwhile misses what its sender was told is delivered (`hidden`). And a shutdown
does not wait for HTTP handlers whose client has left (`orphans`).

## 5. Proofs

`tlapm PublicationResults_proofs.tla`, and likewise the others. All theorems hold
for any sets of requests, readers, calls, users, keys and so on, finite or not
(but for the observers of `Presence`, which are counted), and any bounds; the only
hypotheses are the named assumptions of the modules, `LoadTime < GenerationTTL` for
the freshness theorems, without which finding 1 refutes them, and `NoBreak` for one
theorem of `Presence`, explained there.

* **PublicationResults** (9 theorems: type correctness, all the safety properties,
  and the refinement). `PhaseInv` ties the program counter to what was resolved,
  persisted and emitted; with it `DeliveryInv` (an accepted outcome stands for a
  delivery) is inductive, because deliveries are never undone (`DeliveriesStay`).
  `ReportInv` says that a request past `CreateNotification` tells what is stored;
  it is inductive because a notification, once stored, is never replaced
  (`NoteKept`), and gives `OneErrorIsTold`. `LeaseInv` says that a claimant owns its receipt or has
  lapsed, and that what a reclaimer read is old enough; `ClaimIsALease` is not
  inductive without the latter, as the reclaim is a compare-and-set on what was
  *read*. `SettledInv` adds what is left of a request that ended, for
  `ReemitsOnlyAfterLoss`. `EndpointKeepsPromise` is the refinement: `LogStep`
  takes each action to a step of `DeliveryLog` or a stutter, given `LogInv`
  (what a request has emitted, and that a release answers no acceptance) and
  `DeliveryInv`.
* **SyncCache** (5 theorems: type correctness, `Fresh`, the two properties of entries
  and checked results, and the refinement). `EntriesInv` and `LoadsInv` say of every
  entry and every load in flight: it is current in a scope, or it is filed under
  another generation, and, if that is 0, will be gone before the present generation is.
  `CallsInv` carries the freshness of what a caller shares. The times to live
  are in the invariant, since what protects generation 0 is only that an entry
  expires sooner than the generation that hides it. `ReadsLookUncached` is the
  refinement, under the same hypothesis (an attempt is shorter than the life of a
  generation): `ReadsStep` takes each action to a step of `SnapshotReads` or a stutter,
  given `CallsAreFresh` (no answer is too old) and `CommittedInv` (whatever is read,
  cached or shared was committed, so that no answer is from nowhere).
* **EcommerceChat** (5 theorems: all five properties). `CallInv` says what a call
  knows at each point: the message it answers with is stored and is its own, and
  past `find` no earlier release has stored one. That second part is what makes
  `KeysInv` inductive: the unique index only sees keys of the present form.
  `LagInv` says that a message about to be emitted, or acknowledged, is in every page
  from then on unless its bump was swallowed; with it `DeviceInv` holds for a device
  that gets its page after the emission.
  `LastInv` lets a message be missing from the conversation only while a call is
  about to add it (`Reached`); `ReadersInv` and `NoneInv` rule out what would
  disturb the counters: a reader between its two writes with transactions, and a
  conversation created over one that exists. `Onward` collects what every step
  keeps (messages keep what they say, a closed conversation stays closed), so that a
  call that does not move keeps what it knows (`CallFrame`).
* **AttendanceChat** (6 theorems: all six properties). `CallsInv` is what a call
  knows at each point, `KeysInv` the unique index, `PathInv` which points exist
  with transactions. For `OneVoice`, `CallVoice` says that a call between the
  assignment and the insertion without transactions still finds its side its own:
  sides are only given when free, which is where the single update of
  `assign_thread_side_responsible_if_missing` matters. For the summary,
  `SummaryInv` and `StatusInv` let a message be missing from it as long as a
  call is about to add it (`Pending`). For the receivers, `Ready` relates what
  a call is about to publish with to the responsibles of now and of the write, and
  `Reached` and `Spared` what has been published.

* **Notifications** (5 theorems: type correctness and all four properties).
  `StoreInv` and `PostInv` say what a POST knows of the notification it found or
  inserted, `ReaderInv` what a reader has marked, `LagInv` that a change the cached
  pages may miss has a handler that has not invalidated yet, or is dead, or went on
  with the bump swallowed, and
  `ScreenInv` what a page on its way and the screen make up together: without the
  page `ScreensAreComplete` is not inductive, as the floor of a screen moves when it
  arrives.
* **SocketServer** (4 theorems: type correctness and the three safety properties).
  `LifeInv` ties bootstrap, connection and cleanup of one socket together,
  `ServerInv` says what the shutdown has left and that every id in the presence
  maps has a socket whose cleanup is to come, `IdInv` which sockets may share an id
  (one of them connected; the others have unregistered when the session is whole),
  and `CompleteInv` what rooms, snapshots and members a socket and a saved
  session have. Without `IdInv` nothing keeps the cleanup of a predecessor from
  unregistering a ready socket.

* **Presence** (5 theorems: type correctness and the three safety properties, for
  any plan of timeouts, lost connections, crashes and lost data). `MapsInv` ties
  the maps to the phases of the sockets and the observer counts to the cardinality of
  the observers of an instance; without it `RemoveObserver` could count below zero.
  `CommandsInv` says of every command on a wire whose promise has not settled that
  its caller waits for it, and `OneEach` that it has no other: together they make the
  settling of one promise leave all the others alone (`SettleCommands`). `GenInv` and
  `BeatInv` are the argument for the tracking generations: a store with local
  sockets has one, and as long as it is the one a heartbeat read, the local
  sockets are those it sent. For `HeartbeatsAreNotStale`, a result that says
  offline then lists no socket, since the refresh of a socket answers online
  (`CommandInv`). For `GoneStaysOut`, `OrderInv` says that on the wire of an
  instance whatever would add a socket that has left is followed by its removal.
  A lost connection breaks it: a heartbeat is cut off before Redis ran it, its socket
  leaves while the client is not ready, so that no removal is sent
  (`services/presence_service.ts:192`), and the client that reconnects resends the
  heartbeat (`autoResendUnfulfilledCommands`). If the member was not in the set then,
  it stays there until it lapses. `GoneUntilBroken` is therefore about behaviours
  up to the first lost connection (`Unbroken`), and `GoneSocketsStayOut` has the
  hypothesis that plans contain none (`NoBreak`), as in the run that checks it. The
  ghost lapses after `Life` heartbeats all the same, which `OfflineIsForgotten` checks
  with a lost connection.

The invariants were checked with TLC on the instances above before they were
proved. What stays with TLC: every liveness property (`RecoversAfterCrash`,
`EveryReadEnds`, `OfflineIsForgotten`, `OfflineIsReported`, `ShutdownEnds`), since
the prover handles neither fairness nor `ENABLED`. Every safety property of every
passing run is the statement of a theorem.

## 6. Not modelled

* *Rate limiter.* A quota of one visitor that no other component reads. With Redis
  it is one script, which a single step would restate; without, a local window.
* *Marketplace chat.* The messages, and the unread counter `mark_read` decrements,
  are written by a worker outside this repository; an invariant over both would be
  about a writer the source does not show.
* *Support requests.* Aggregations over collections other systems write. Two
  publications of snapshots may be emitted in the other order than they were
  read; the next one repairs it.
* *Presence repository* (`last_seen_at`, one `$max` upsert), contracts, serialisers,
  configuration and logging: no state, or none that is read back.
* *MongoDB's connection and the Streams adapter*: I/O and a library. What the models
  take from them is marked external in `PROJECT.json`.
* The chain of timers of a token that lives longer than 2^31 - 1 ms, the timeout of
  a bootstrap other than as a failure, and the reasons of refusals.
* Pages *after* an id (`ecommerce_chat` and notifications): the ids of different
  instances are not in the order of their insertion, so a client that only asks for
  what is newer can miss a message; the models synchronise completely, as a new
  connection does.
* Parts of modelled components that are left out are named in each component's
  `note` in `PROJECT.json`: reading an attendance thread, masters, contact data.

What could come next: reading in `AttendanceChat`; the presence rooms of recovered
sockets, whose `presence:sync` starts from an empty list of rooms (`socket/handlers/store.ts:724`).
