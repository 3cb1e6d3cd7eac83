--------------------------- MODULE SyncCache_proofs ---------------------------
(***************************************************************************)
(* Proofs about SyncCache, for any scopes, calls, changes and instances.   *)
(* Freshness needs an attempt to be shorter than the life of a generation; *)
(* the theorems say so in their hypothesis.                                *)
(***************************************************************************)
EXTENDS SyncCache, TLAPS

-----------------------------------------------------------------------------
(* Type correctness *)

LEMMA StoredType ==
  ASSUME TypeOK, NEW r \in Readers
  PROVE  Stored(r) \subseteq Entry
<1>1. [versions |-> versions[r], value |-> value[r], left |-> CacheTTL] \in Entry
  BY CacheAssumption DEF CacheAssumption, TypeOK, Entry
<1> QED
  BY <1>1 DEF TypeOK, Stored

LEMMA RetryType ==
  ASSUME TypeOK, NEW R, Retry(R)
  PROVE  /\ pc' \in [Readers -> Phases]
         /\ attempt' \in [Readers -> 0..MaxAttempts - 1]
         /\ pending' \in [Readers -> SUBSET Scopes]
         /\ versions' \in [Readers -> Generations]
         /\ age' \in [Readers -> Nat]
         /\ owner' \in [Readers -> Readers]
         /\ value' \in [Readers -> Snapshot]
<1>1. Zero \in Generations /\ Zero \in Snapshot
  BY DEF Zero, Generations, Snapshot
<1>2. attempt' \in [Readers -> 0..MaxAttempts - 1]
  BY CacheAssumption DEF CacheAssumption, TypeOK, Retry, LastAttempt
<1> QED
  BY <1>1, <1>2 DEF TypeOK, Retry, Phases

LEMMA LeaveType ==
  ASSUME TypeOK, NEW R, LeaveLoop(R)
  PROVE  /\ attempt' \in [Readers -> 0..MaxAttempts - 1]
         /\ versions' \in [Readers -> Generations]
         /\ age' \in [Readers -> Nat]
         /\ owner' \in [Readers -> Readers]
<1>1. Zero \in Generations
  BY DEF Zero, Generations
<1> QED
  BY <1>1, CacheAssumption DEF CacheAssumption, TypeOK, LeaveLoop

LEMMA TypeStep ==
  ASSUME TypeOK, [Next]_vars
  PROVE  TypeOK'
<1> USE DEF Goto, storeVars, loopVars, readerVars
<1>0. Zero \in Snapshot
  BY DEF Zero, Snapshot
<1>1. ASSUME NEW r \in Readers, Begin(r) PROVE TypeOK'
  BY <1>1 DEF Begin, TypeOK, Phases
<1>2. ASSUME NEW r \in Readers, BeginWithoutRedis(r) PROVE TypeOK'
  BY <1>2, LeaveType DEF BeginWithoutRedis, Direct, TypeOK, Phases
<1>3. ASSUME NEW r \in Readers, ReadVersions(r) PROVE TypeOK'
  BY <1>3 DEF ReadVersions, TypeOK, Phases
<1>4. ASSUME NEW r \in Readers, ReadFails(r) PROVE TypeOK'
  BY <1>4, LeaveType DEF ReadFails, Direct, TypeOK, Phases
<1>5. ASSUME NEW r \in Readers, CheckFails(r) PROVE TypeOK'
  BY <1>5, RetryType DEF CheckFails, TypeOK
<1>6. ASSUME NEW r \in Readers, Hit(r) PROVE TypeOK'
  <2>1. value' \in [Readers -> Snapshot]
    BY <1>6 DEF Hit, TypeOK, Entry
  <2> QED
    BY <1>6, <2>1, LeaveType DEF Hit, TypeOK, Phases
<1>7. ASSUME NEW r \in Readers, StartLoad(r) PROVE TypeOK'
  BY <1>7 DEF StartLoad, TypeOK, Phases
<1>8. ASSUME NEW r \in Readers, JoinLoad(r) PROVE TypeOK'
  BY <1>8 DEF JoinLoad, InFlight, TypeOK, Phases
<1>9. ASSUME NEW r \in Readers, NEW s \in Scopes, ReadScope(r, s) PROVE TypeOK'
  <2>1. value' \in [Readers -> Snapshot]
    BY <1>9 DEF ReadScope, TypeOK, Snapshot
  <2> QED
    BY <1>9, <2>1 DEF ReadScope, TypeOK, Phases
<1>10. ASSUME NEW r \in Readers, Store(r) PROVE TypeOK'
  BY <1>10, StoredType, LeaveType DEF Store, Answer, TypeOK, Phases
<1>11. ASSUME NEW r \in Readers, StoreIsStale(r) PROVE TypeOK'
  BY <1>11, RetryType DEF StoreIsStale, TypeOK
<1>12. ASSUME NEW r \in Readers, StoreFails(r) PROVE TypeOK'
  BY <1>12, StoredType, LeaveType DEF StoreFails, Answer, TypeOK, Phases
<1>13. ASSUME NEW r \in Readers, LoaderFails(r) PROVE TypeOK'
  BY <1>0, <1>13, LeaveType DEF LoaderFails, TypeOK, Phases
<1>14. ASSUME NEW w \in Writers, Commit(w) PROVE TypeOK'
  <2>1. db' \in Snapshot
    BY <1>14 DEF Commit, TypeOK, Snapshot
  <2> QED
    BY <1>14, <2>1, CacheAssumption DEF CacheAssumption, Commit, TypeOK
<1>15. ASSUME NEW w \in Writers, NEW s \in Scopes, Bump(w, s) PROVE TypeOK'
  BY <1>15, CacheAssumption
     DEF CacheAssumption, Bump, Token, TypeOK, Snapshot, Generations
<1>16. ASSUME NEW w \in Writers, NEW s \in Scopes, BumpFails(w, s) PROVE TypeOK'
  BY <1>16 DEF BumpFails, TypeOK
<1>17. CASE Tick
  <2>1. cache' \subseteq Entry
    BY <1>17 DEF Tick, TypeOK, Entry
  <2>2. gen_left' \in [Scopes -> Nat] /\ gen' \in Generations /\ age' \in [Readers -> Nat]
    BY <1>17 DEF Tick, TypeOK, Generations
  <2> QED
    BY <1>17, <2>1, <2>2 DEF Tick, TypeOK
<1>18. CASE UNCHANGED vars
  BY <1>18 DEF vars, TypeOK
<1> QED
  BY <1>1, <1>2, <1>3, <1>4, <1>5, <1>6, <1>7, <1>8, <1>9, <1>10, <1>11, <1>12,
     <1>13, <1>14, <1>15, <1>16, <1>17, <1>18 DEF Next, Read, Write

\* Every variable keeps its type.
THEOREM TypeCorrect == Spec => []TypeOK
<1>1. Init => TypeOK
  BY CacheAssumption
     DEF CacheAssumption, Init, TypeOK, Zero, Snapshot, Generations, Phases
<1> QED
  BY <1>1, TypeStep, PTL DEF Spec

-----------------------------------------------------------------------------
(* Bookkeeping: how the counters relate *)

BaseInv ==
  /\ \A s \in Scopes : /\ settled[s] <= db[s]
                       /\ gen[s] <= tokens
                       /\ gen[s] = 0 <=> gen_left[s] = 0
  /\ \A r \in Readers : /\ age[r] <= LoadTime
                        /\ pc[r] \notin {"load", "direct"} => pending[r] = {}
  /\ \A r \in Readers, s \in Scopes : /\ floor[r][s] <= settled[s]
                                      /\ versions[r][s] <= tokens
  /\ \A e \in cache : /\ e.left <= CacheTTL
                      /\ \A s \in Scopes : e.versions[s] <= tokens

LEMMA BaseStepOfReader ==
  ASSUME TypeOK, TypeOK', BaseInv, NEW r \in Readers, Read(r)
  PROVE  BaseInv'
<1> USE DEF Goto, loopVars
<1>0. UNCHANGED storeVars
  BY DEF Read, Begin, BeginWithoutRedis, ReadVersions, ReadFails, CheckFails, Hit,
         StartLoad, JoinLoad, ReadScope, Store, StoreIsStale, StoreFails, LoaderFails
<1>1. \A s \in Scopes : /\ settled'[s] <= db'[s]
                        /\ gen'[s] <= tokens'
                        /\ gen'[s] = 0 <=> gen_left'[s] = 0
  BY <1>0 DEF storeVars, BaseInv
<1>2. \A q \in Readers : age'[q] <= LoadTime
  BY CacheAssumption
     DEF CacheAssumption, BaseInv, Read, Begin, BeginWithoutRedis, ReadVersions,
         ReadFails, CheckFails, Hit, StartLoad, JoinLoad, ReadScope, Store,
         StoreIsStale, StoreFails, LoaderFails, Direct, LeaveLoop, Retry, Answer
<1>3. \A q \in Readers : pc'[q] \notin {"load", "direct"} => pending'[q] = {}
  <2>1. CASE StoreIsStale(r)
    BY <2>1 DEF StoreIsStale, Retry, Awaiting, BaseInv, TypeOK
  <2>2. CASE StoreFails(r) \/ Store(r)
    BY <2>2 DEF StoreFails, Store, Answer, Awaiting, BaseInv, TypeOK
  <2>3. CASE LoaderFails(r)
    BY <2>3 DEF LoaderFails, Awaiting, BaseInv, TypeOK
  <2>4. CASE CheckFails(r)
    BY <2>4 DEF CheckFails, Retry, BaseInv, TypeOK
  <2>5. CASE \E s \in Scopes : ReadScope(r, s)
    BY <2>5 DEF ReadScope, BaseInv, TypeOK
  <2>6. CASE Begin(r) \/ BeginWithoutRedis(r) \/ ReadVersions(r) \/ ReadFails(r)
    BY <2>6 DEF Begin, BeginWithoutRedis, ReadVersions, ReadFails, Direct, BaseInv,
                TypeOK
  <2>7. CASE Hit(r) \/ StartLoad(r) \/ JoinLoad(r)
    BY <2>7 DEF Hit, StartLoad, JoinLoad, Missed, BaseInv, TypeOK
  <2> QED
    BY <2>1, <2>2, <2>3, <2>4, <2>5, <2>6, <2>7 DEF Read
<1>4. \A q \in Readers, s \in Scopes : floor'[q][s] <= settled'[s]
  <2>1. floor' = floor \/ floor' = [floor EXCEPT ![r] = settled]
    BY DEF Read, Begin, BeginWithoutRedis, ReadVersions, ReadFails, CheckFails, Hit,
         StartLoad, JoinLoad, ReadScope, Store, StoreIsStale, StoreFails, LoaderFails
  <2> QED
    <3> SUFFICES ASSUME NEW q \in Readers, NEW s \in Scopes
                 PROVE  floor'[q][s] <= settled'[s]
      OBVIOUS
    <3>1. settled[s] \in Nat /\ floor[q][s] <= settled[s] /\ settled' = settled
      BY <1>0 DEF storeVars, BaseInv, TypeOK, Snapshot
    <3>2. floor'[q] = floor[q] \/ floor'[q] = settled
      BY <2>1 DEF TypeOK
    <3> QED
      BY <3>1, <3>2
<1>5. \A q \in Readers, s \in Scopes : versions'[q][s] <= tokens'
  <2>1. \A s \in Scopes : Zero[s] = 0
    BY DEF Zero
  <2>2. \A q \in Readers : versions'[q] \in {versions[q], gen, Zero}
    BY DEF TypeOK, Read, Begin, BeginWithoutRedis, ReadVersions, ReadFails,
         CheckFails, Hit, StartLoad, JoinLoad, ReadScope, Store, StoreIsStale,
         StoreFails, LoaderFails, Direct, LeaveLoop, Retry, Answer
  <2> QED
    <3> SUFFICES ASSUME NEW q \in Readers, NEW s \in Scopes
                 PROVE  versions'[q][s] <= tokens'
      OBVIOUS
    <3>1. /\ versions[q][s] <= tokens
          /\ gen[s] <= tokens
          /\ 0 <= tokens
          /\ tokens' = tokens
      BY <1>0 DEF storeVars, BaseInv, TypeOK
    <3> QED
      BY <2>1, <2>2, <3>1
<1>6. \A e \in cache' : /\ e.left <= CacheTTL
                        /\ \A s \in Scopes : e.versions[s] <= tokens'
  <2>1. \A q \in Readers : \A e \in Stored(q) :
           e.left <= CacheTTL /\ \A s \in Scopes : e.versions[s] <= tokens
    BY CacheAssumption DEF CacheAssumption, Stored, BaseInv
  <2>2. cache' = cache \/ \E q \in Readers : cache' = Stored(q)
    BY DEF Read, Begin, BeginWithoutRedis, ReadVersions, ReadFails, CheckFails, Hit,
         StartLoad, JoinLoad, ReadScope, Store, StoreIsStale, StoreFails, LoaderFails
  <2> QED
    BY <1>0, <2>1, <2>2 DEF storeVars, BaseInv
<1> QED
  BY <1>1, <1>2, <1>3, <1>4, <1>5, <1>6 DEF BaseInv

LEMMA BaseStep ==
  ASSUME TypeOK, TypeOK', BaseInv, [Next]_vars
  PROVE  BaseInv'
<1> USE DEF loopVars, readerVars
<1>1. ASSUME NEW w \in Writers, Commit(w) PROVE BaseInv'
  BY <1>1 DEF Commit, BaseInv, TypeOK, Snapshot
<1>2. ASSUME NEW w \in Writers, NEW s \in Scopes, Bump(w, s) PROVE BaseInv'
  <2>1. \A z \in Scopes : settled[z] <= settled'[z] /\ settled'[z] <= db'[z]
    BY <1>2 DEF Bump, BaseInv, TypeOK, Snapshot
  <2>2. \A z \in Scopes : /\ gen'[z] <= tokens'
                          /\ gen'[z] = 0 <=> gen_left'[z] = 0
    BY <1>2, CacheAssumption
       DEF Bump, Token, BaseInv, TypeOK, Generations, CacheAssumption
  <2>3. \A r \in Readers, z \in Scopes : /\ floor'[r][z] <= settled'[z]
                                         /\ versions'[r][z] <= tokens'
    BY <1>2, <2>1 DEF Bump, BaseInv, TypeOK, Snapshot, Generations
  <2>4. \A e \in cache' : \A z \in Scopes : e.versions[z] <= tokens'
    BY <1>2 DEF Bump, BaseInv, TypeOK, Entry, Generations
  <2> QED
    BY <1>2, <2>1, <2>2, <2>3, <2>4 DEF Bump, BaseInv
<1>3. ASSUME NEW w \in Writers, NEW s \in Scopes, BumpFails(w, s) PROVE BaseInv'
  BY <1>3 DEF BumpFails, BaseInv
<1>4. CASE Tick
  <2>1. \A z \in Scopes : gen'[z] <= tokens' /\ (gen'[z] = 0 <=> gen_left'[z] = 0)
    BY <1>4 DEF Tick, BaseInv, TypeOK, Generations
  <2>2. \A r \in Readers : age'[r] <= LoadTime
    BY <1>4, CacheAssumption DEF Tick, BaseInv, TypeOK, CacheAssumption
  <2>3. \A e \in cache' : /\ e.left <= CacheTTL
                          /\ \A s \in Scopes : e.versions[s] <= tokens'
    <3> SUFFICES ASSUME NEW e \in cache'
                 PROVE  e.left <= CacheTTL /\ \A s \in Scopes : e.versions[s] <= tokens'
      OBVIOUS
    <3>1. PICK f \in cache : f.left > 1 /\ e = [f EXCEPT !.left = @ - 1]
      BY <1>4 DEF Tick
    <3>2. f \in Entry
      BY DEF TypeOK
    <3>3. e.left = f.left - 1 /\ e.versions = f.versions
      BY <3>1, <3>2 DEF Entry
    <3> QED
      BY <1>4, <3>1, <3>2, <3>3, CacheAssumption
         DEF CacheAssumption, Tick, BaseInv, Entry
  <2> QED
    BY <1>4, <2>1, <2>2, <2>3 DEF Tick, BaseInv
<1>5. CASE UNCHANGED vars
  BY <1>5 DEF vars, storeVars, BaseInv
<1> QED
  BY <1>1, <1>2, <1>3, <1>4, <1>5, BaseStepOfReader DEF Next, Write

LEMMA BaseInvariant == Spec => []BaseInv
<1>1. Init => BaseInv
  BY CacheAssumption DEF CacheAssumption, Init, BaseInv, Zero
<1> QED
  BY <1>1, BaseStep, TypeCorrect, PTL DEF Spec

-----------------------------------------------------------------------------
(* Freshness: a stored snapshot, or one being loaded, either holds every     *)
(* change that was announced, or carries a generation that is no longer      *)
(* current and cannot come back while the snapshot can still be used.  Only  *)
(* generation 0 can come back, when the key expires.                         *)

EntriesInv ==
  \A e \in cache, s \in Scopes :
    \/ e.value[s] >= settled[s]
    \/ /\ e.versions[s] # gen[s]
       /\ e.versions[s] = 0 => e.left <= gen_left[s]

LoadsInv ==
  \A r \in Readers, s \in Scopes :
    pc[r] \in Loading /\ s \notin pending[r] =>
      \/ value[r][s] >= settled[s]
      \/ /\ versions[r][s] # gen[s]
         /\ versions[r][s] = 0 => LoadTime < gen_left[s] + age[r]

CallsInv ==
  /\ \A r \in Readers : pc[r] = "join" => pc[owner[r]] \in Loading
  /\ \A r \in Readers, s \in Scopes :
       /\ pc[r] \in {"load", "store", "direct", "done"} /\ s \notin pending[r]
            => value[r][s] >= floor[r][s]
       /\ pc[r] = "join" /\ s \notin pending[owner[r]]
            => value[owner[r]][s] >= floor[r][s]

FreshInv == EntriesInv /\ LoadsInv /\ CallsInv

LEMMA ReadersLeaveTheStore ==
  ASSUME NEW r \in Readers, Read(r)
  PROVE  UNCHANGED storeVars
BY DEF Read, Begin, BeginWithoutRedis, ReadVersions, ReadFails, CheckFails, Hit,
       StartLoad, JoinLoad, ReadScope, Store, StoreIsStale, StoreFails, LoaderFails

LEMMA OnlyCheckedStores ==
  ASSUME NEW r \in Readers, Read(r)
  PROVE  \/ cache' = cache
         \/ pc[r] = "store" /\ versions[r] = gen /\ cache' = Stored(r)
BY DEF Read, Begin, BeginWithoutRedis, ReadVersions, ReadFails, CheckFails, Hit,
       StartLoad, JoinLoad, ReadScope, Store, StoreIsStale, StoreFails, LoaderFails,
       VersionsMatch

LEMMA EntriesStep ==
  ASSUME TypeOK, TypeOK', BaseInv, EntriesInv, LoadsInv, [Next]_vars
  PROVE  EntriesInv'
<1>1. ASSUME NEW r \in Readers, Read(r) PROVE EntriesInv'
  <2>1. UNCHANGED storeVars
    BY <1>1, ReadersLeaveTheStore
  <2>2. CASE cache' = cache
    BY <2>1, <2>2 DEF storeVars, EntriesInv
  <2>3. CASE pc[r] = "store" /\ versions[r] = gen /\ cache' = Stored(r)
    <3>1. \A s \in Scopes : value[r][s] >= settled[s]
      BY <2>3 DEF LoadsInv, Loading, BaseInv
    <3> QED
      BY <2>1, <2>3, <3>1 DEF storeVars, Stored, EntriesInv
  <2> QED
    BY <1>1, <2>2, <2>3, OnlyCheckedStores
<1>2. ASSUME NEW w \in Writers, Commit(w) PROVE EntriesInv'
  BY <1>2 DEF Commit, EntriesInv
<1>3. ASSUME NEW w \in Writers, NEW z \in Scopes, Bump(w, z) PROVE EntriesInv'
  <2> SUFFICES ASSUME NEW e \in cache', NEW s \in Scopes
               PROVE  \/ e.value[s] >= settled'[s]
                      \/ /\ e.versions[s] # gen'[s]
                         /\ e.versions[s] = 0 => e.left <= gen_left'[s]
    BY DEF EntriesInv
  <2>1. e \in cache /\ e \in Entry
    BY <1>3 DEF Bump, TypeOK
  <2>2. CASE s # z
    BY <1>3, <2>1, <2>2 DEF Bump, EntriesInv, TypeOK, Snapshot, Generations
  <2>3. CASE s = z
    <3>1. gen'[s] = tokens + 1 /\ gen_left'[s] = GenerationTTL
      BY <1>3, <2>3 DEF Bump, Token, TypeOK, Generations
    <3>2. e.versions[s] <= tokens /\ e.left <= CacheTTL
      BY <2>1 DEF BaseInv
    <3> QED
      BY <2>1, <3>1, <3>2, CacheAssumption
         DEF CacheAssumption, Entry, Generations, TypeOK
  <2> QED
    BY <2>2, <2>3
<1>4. ASSUME NEW w \in Writers, NEW z \in Scopes, BumpFails(w, z) PROVE EntriesInv'
  BY <1>4 DEF BumpFails, EntriesInv
<1>5. CASE Tick
  <2> SUFFICES ASSUME NEW e \in cache', NEW s \in Scopes
               PROVE  \/ e.value[s] >= settled'[s]
                      \/ /\ e.versions[s] # gen'[s]
                         /\ e.versions[s] = 0 => e.left <= gen_left'[s]
    BY DEF EntriesInv
  <2>1. PICK f \in cache : f.left > 1 /\ e = [f EXCEPT !.left = @ - 1]
    BY <1>5 DEF Tick
  <2>2. f \in Entry
    BY DEF TypeOK
  <2>3. /\ e.left = f.left - 1 /\ e.versions = f.versions /\ e.value = f.value
        /\ f.left \in Nat /\ f.versions[s] \in Nat
    BY <2>1, <2>2 DEF Entry, Generations
  <2>4. /\ gen_left'[s] = IF gen_left[s] > 0 THEN gen_left[s] - 1 ELSE 0
        /\ gen'[s] = IF gen_left[s] <= 1 THEN 0 ELSE gen[s]
        /\ settled' = settled
        /\ gen_left[s] \in Nat /\ gen[s] \in Nat
        /\ gen[s] = 0 <=> gen_left[s] = 0
    BY <1>5 DEF Tick, TypeOK, Generations, BaseInv
  <2>5. \/ f.value[s] >= settled[s]
        \/ f.versions[s] # gen[s] /\ (f.versions[s] = 0 => f.left <= gen_left[s])
    BY DEF EntriesInv
  <2> QED
    BY <2>1, <2>3, <2>4, <2>5
<1>6. CASE UNCHANGED vars
  BY <1>6 DEF vars, storeVars, EntriesInv
<1> QED
  BY <1>1, <1>2, <1>3, <1>4, <1>5, <1>6 DEF Next, Write

\* What one step of a reader does to what a load has read.
LEMMA LoadsKeepTheirRead ==
  ASSUME TypeOK, NEW r \in Readers, Read(r), NEW q \in Readers, NEW s \in Scopes,
         pc'[q] \in Loading, s \notin pending'[q]
  PROVE  /\ pc[q] \in Loading
         /\ versions'[q] = versions[q]
         /\ age'[q] = age[q]
         /\ \/ s \notin pending[q] /\ value'[q][s] = value[q][s]
            \/ value'[q][s] = db[s]
<1> USE DEF Goto, loopVars, Loading
<1>1. CASE \E z \in Scopes : ReadScope(r, z)
  <2>1. PICK z \in Scopes : ReadScope(r, z)
    BY <1>1
  <2>2. CASE q = r
    <3>1. pc[q] = "load"
      BY <2>1, <2>2 DEF ReadScope, TypeOK
    <3>2. versions'[q] = versions[q] /\ age'[q] = age[q]
      BY <2>1 DEF ReadScope
    <3>3. /\ value'[q] = [value[q] EXCEPT ![z] = db[z]]
          /\ pending'[q] = pending[q] \ {z}
      BY <2>1, <2>2 DEF ReadScope, TypeOK
    <3>4. value[q] \in [Scopes -> Nat]
      BY DEF TypeOK, Snapshot
    <3> QED
      BY <3>1, <3>2, <3>3, <3>4
  <2>3. CASE q # r
    BY <2>1, <2>3 DEF ReadScope, TypeOK
  <2> QED
    BY <2>2, <2>3
<1>2. CASE StoreIsStale(r)
  BY <1>2 DEF StoreIsStale, Retry, TypeOK
<1>3. CASE StoreFails(r) \/ Store(r)
  BY <1>3 DEF StoreFails, Store, Answer, LeaveLoop, TypeOK
<1>4. CASE LoaderFails(r)
  BY <1>4 DEF LoaderFails, Awaiting, LeaveLoop, TypeOK
<1>5. CASE CheckFails(r)
  BY <1>5 DEF CheckFails, Retry, TypeOK
<1>6. CASE Begin(r) \/ BeginWithoutRedis(r) \/ ReadFails(r)
  BY <1>6 DEF Begin, BeginWithoutRedis, ReadFails, Direct, LeaveLoop, TypeOK
<1>7. CASE ReadVersions(r)
  BY <1>7 DEF ReadVersions, TypeOK
<1>8. CASE Hit(r)
  BY <1>8 DEF Hit, LeaveLoop, TypeOK
<1>9. CASE StartLoad(r)
  BY <1>9 DEF StartLoad, TypeOK
<1>10. CASE JoinLoad(r)
  BY <1>10 DEF JoinLoad, TypeOK
<1> QED
  BY <1>1, <1>2, <1>3, <1>4, <1>5, <1>6, <1>7, <1>8, <1>9, <1>10 DEF Read

LEMMA LoadsStep ==
  ASSUME LoadTime < GenerationTTL,
         TypeOK, TypeOK', BaseInv, LoadsInv, [Next]_vars
  PROVE  LoadsInv'
<1> SUFFICES ASSUME NEW q \in Readers, NEW s \in Scopes,
                    pc'[q] \in Loading, s \notin pending'[q]
             PROVE  \/ value'[q][s] >= settled'[s]
                    \/ /\ versions'[q][s] # gen'[s]
                       /\ versions'[q][s] = 0 => LoadTime < gen_left'[s] + age'[q]
  BY DEF LoadsInv
<1> USE DEF readerVars, loopVars
<1>0. /\ settled[s] \in Nat /\ db[s] \in Nat /\ settled[s] <= db[s]
      /\ gen[s] \in Nat /\ gen_left[s] \in Nat
      /\ versions[q][s] \in Nat /\ age[q] \in Nat /\ value[q][s] \in Nat
      /\ age[q] <= LoadTime /\ versions[q][s] <= tokens /\ tokens \in Nat
      /\ gen[s] = 0 <=> gen_left[s] = 0
      /\ LoadTime \in Nat /\ GenerationTTL \in Nat
  BY CacheAssumption DEF CacheAssumption, TypeOK, BaseInv, Snapshot, Generations
<1>1. ASSUME pc[q] \in Loading, s \notin pending[q]
      PROVE  \/ value[q][s] >= settled[s]
             \/ /\ versions[q][s] # gen[s]
                /\ versions[q][s] = 0 => LoadTime < gen_left[s] + age[q]
  BY <1>1 DEF LoadsInv
<1> DEFINE Kept == \/ value'[q][s] >= settled'[s]
                   \/ /\ versions'[q][s] # gen'[s]
                      /\ versions'[q][s] = 0 => LoadTime < gen_left'[s] + age'[q]
<1>2. ASSUME NEW r \in Readers, Read(r) PROVE Kept
  <2>1. /\ settled' = settled /\ gen' = gen /\ gen_left' = gen_left
    BY <1>2, ReadersLeaveTheStore DEF storeVars
  <2> QED
    BY <1>0, <1>1, <1>2, <2>1, LoadsKeepTheirRead
<1>3. ASSUME NEW w \in Writers, Commit(w) PROVE Kept
  BY <1>1, <1>3 DEF Commit
<1>4. ASSUME NEW w \in Writers, NEW z \in Scopes, Bump(w, z) PROVE Kept
  <2>1. CASE z # s
    BY <1>1, <1>4, <2>1 DEF Bump, TypeOK, Snapshot, Generations
  <2>2. CASE z = s
    <3>1. gen'[s] = tokens + 1 /\ gen_left'[s] = GenerationTTL
      BY <1>4, <2>2 DEF Bump, Token, TypeOK, Generations
    <3>2. versions' = versions /\ age' = age
      BY <1>4 DEF Bump
    <3> QED
      BY <1>0, <3>1, <3>2
  <2> QED
    BY <2>1, <2>2
<1>5. ASSUME NEW w \in Writers, NEW z \in Scopes, BumpFails(w, z) PROVE Kept
  BY <1>1, <1>5 DEF BumpFails
<1>6. CASE Tick
  <2>1. pc[q] \in Loading /\ s \notin pending[q]
    BY <1>6 DEF Tick
  <2>2. age[q] < LoadTime /\ age'[q] = age[q] + 1
    BY <1>6, <2>1 DEF Tick, Loading, Attempting
  <2>3. /\ gen_left'[s] = IF gen_left[s] > 0 THEN gen_left[s] - 1 ELSE 0
        /\ gen'[s] = IF gen_left[s] <= 1 THEN 0 ELSE gen[s]
        /\ settled' = settled /\ value' = value /\ versions' = versions
    BY <1>6 DEF Tick
  <2> QED
    BY <1>0, <1>1, <2>1, <2>2, <2>3
<1>7. CASE UNCHANGED vars
  BY <1>1, <1>7 DEF vars, storeVars
<1> QED
  BY <1>2, <1>3, <1>4, <1>5, <1>6, <1>7 DEF Next, Write

LEMMA CallsStepOfReader ==
  ASSUME TypeOK, TypeOK', BaseInv, FreshInv, NEW r \in Readers, Read(r)
  PROVE  CallsInv'
<1> USE DEF Goto, loopVars, Loading
<1>0. \A s \in Scopes : /\ db[s] >= settled[s]
                        /\ \A q \in Readers : settled[s] >= floor[q][s]
  BY DEF BaseInv, TypeOK, Snapshot
<1>00. /\ \A s \in Scopes : db[s] \in Nat /\ settled[s] \in Nat
       /\ \A q \in Readers, s \in Scopes : floor[q][s] \in Nat /\ value[q][s] \in Nat
  BY DEF TypeOK, Snapshot
<1>1. CASE Begin(r)
  BY <1>1 DEF Begin, FreshInv, CallsInv, TypeOK
<1>2. CASE BeginWithoutRedis(r)
  BY <1>2 DEF BeginWithoutRedis, Direct, LeaveLoop, FreshInv, CallsInv, TypeOK
<1>3. CASE ReadVersions(r)
  BY <1>3 DEF ReadVersions, FreshInv, CallsInv, TypeOK
<1>4. CASE ReadFails(r)
  BY <1>4 DEF ReadFails, Direct, LeaveLoop, FreshInv, CallsInv, TypeOK
<1>5. CASE CheckFails(r)
  BY <1>5 DEF CheckFails, Retry, FreshInv, CallsInv, TypeOK
<1>6. CASE Hit(r)
  <2>1. PICK e \in cache : e.versions = versions[r] /\ value' = [value EXCEPT ![r] = e.value]
    BY <1>6 DEF Hit
  <2>2. \A s \in Scopes : e.value[s] >= settled[s]
    <3>1. e.versions = gen
      BY <1>6, <2>1 DEF Hit, VersionsMatch
    <3> QED
      BY <3>1 DEF FreshInv, EntriesInv
  <2>3. \A s \in Scopes : value'[r][s] >= floor[r][s]
    <3>1. value'[r] = e.value
      BY <2>1 DEF TypeOK
    <3>2. \A s \in Scopes : e.value[s] \in Nat
      BY DEF TypeOK, Entry, Snapshot
    <3> QED
      BY <1>0, <1>00, <2>2, <3>1, <3>2
  <2> QED
    BY <1>6, <2>1, <2>3 DEF Hit, LeaveLoop, FreshInv, CallsInv, TypeOK
<1>7. CASE StartLoad(r)
  BY <1>7 DEF StartLoad, Missed, FreshInv, CallsInv, TypeOK
<1>8. CASE JoinLoad(r)
  <2>1. PICK q \in InFlight(r) : owner' = [owner EXCEPT ![r] = q]
    BY <1>8 DEF JoinLoad
  <2>2. /\ q \in Readers /\ pc[q] \in Loading /\ versions[q] = gen /\ q # r
    BY <1>8, <2>1 DEF JoinLoad, InFlight, Missed, VersionsMatch
  <2>3. \A s \in Scopes : s \notin pending[q] => value[q][s] >= settled[s]
    BY <2>2 DEF FreshInv, LoadsInv
  <2>4. \A s \in Scopes : s \notin pending[q] => value[q][s] >= floor[r][s]
    BY <1>0, <1>00, <2>2, <2>3
  <2> QED
    BY <1>8, <2>1, <2>2, <2>4 DEF JoinLoad, Missed, FreshInv, CallsInv, TypeOK
<1>9. CASE \E z \in Scopes : ReadScope(r, z)
  <2>1. PICK z \in Scopes : ReadScope(r, z)
    BY <1>9
  <2>2. /\ \A s \in Scopes : value'[r][s] = IF s = z THEN db[s] ELSE value[r][s]
        /\ \A q \in Readers : q # r => value'[q] = value[q]
    BY <2>1 DEF ReadScope, TypeOK, Snapshot
  <2>3. /\ pending'[r] = pending[r] \ {z}
        /\ \A q \in Readers : q # r => pending'[q] = pending[q]
        /\ UNCHANGED <<owner, floor>>
    BY <2>1 DEF ReadScope, TypeOK
  <2>4. /\ \A q \in Readers : q # r => pc'[q] = pc[q]
        /\ pc[r] = "load" => pc'[r] \in Loading
        /\ pc[r] = "direct" => pc'[r] \in {"direct", "done"}
        /\ pc[r] \in {"load", "direct"}
    BY <2>1 DEF ReadScope, TypeOK
  <2>5. \A q \in Readers, s \in Scopes : db[s] >= floor[q][s]
    BY <1>0, <1>00
  <2>6. ASSUME NEW q \in Readers, NEW s \in Scopes,
               pc'[q] \in {"load", "store", "direct", "done"}, s \notin pending'[q]
        PROVE  value'[q][s] >= floor[q][s]
    BY <2>2, <2>3, <2>4, <2>5, <2>6 DEF FreshInv, CallsInv
  <2>7. ASSUME NEW q \in Readers, pc'[q] = "join"
        PROVE  /\ pc'[owner[q]] \in Loading
               /\ \A s \in Scopes : s \notin pending'[owner[q]]
                    => value'[owner[q]][s] >= floor[q][s]
    <3>1. q # r /\ pc[q] = "join" /\ owner[q] \in Readers
      BY <2>4, <2>7 DEF TypeOK
    <3>2. /\ pc[owner[q]] \in Loading
          /\ \A s \in Scopes : s \notin pending[owner[q]]
               => value[owner[q]][s] >= floor[q][s]
      BY <3>1 DEF FreshInv, CallsInv
    <3> QED
      BY <2>2, <2>3, <2>4, <2>5, <3>1, <3>2
  <2> QED
    BY <2>3, <2>6, <2>7 DEF CallsInv
<1>10. CASE Store(r) \/ StoreFails(r)
  <2>1. Answer(r) /\ UNCHANGED <<pending, floor>> /\ pc[r] = "store"
    BY <1>10 DEF Store, StoreFails
  <2>2. \A q \in Awaiting(r), s \in Scopes : value[r][s] >= floor[q][s]
    BY <2>1 DEF Awaiting, BaseInv, FreshInv, CallsInv
  <2>3. \A q \in Readers : q \notin Awaiting(r) /\ pc[q] = "join"
           => owner[q] # r /\ owner[q] \notin Awaiting(r)
    BY <2>1 DEF Awaiting, FreshInv, CallsInv
  <2>4. \A q \in Readers : q \in Awaiting(r) => value'[q] = value[r] /\ pc'[q] = "done"
    BY <2>1 DEF Answer
  <2>5. \A q \in Readers : q \notin Awaiting(r)
           => value'[q] = value[q] /\ pc'[q] = pc[q] /\ owner'[q] = owner[q]
    BY <2>1 DEF Answer, LeaveLoop
  <2> QED
    BY <2>1, <2>2, <2>3, <2>4, <2>5 DEF FreshInv, CallsInv, TypeOK
<1>11. CASE StoreIsStale(r)
  <2>1. Retry(Awaiting(r)) /\ UNCHANGED floor /\ pc[r] = "store"
    BY <1>11 DEF StoreIsStale
  <2>2. \A q \in Readers : q \notin Awaiting(r) /\ pc[q] = "join"
           => owner[q] \notin Awaiting(r)
    BY <2>1 DEF Awaiting, FreshInv, CallsInv
  <2>3. \A q \in Readers : q \in Awaiting(r) =>
           pc'[q] = "mget" \/ (pc'[q] = "direct" /\ pending'[q] = Scopes)
    BY <2>1 DEF Retry
  <2>4. \A q \in Readers : q \notin Awaiting(r)
           => /\ value'[q] = value[q] /\ pc'[q] = pc[q] /\ owner'[q] = owner[q]
              /\ pending'[q] = pending[q]
    BY <2>1 DEF Retry
  <2>5. ASSUME NEW q \in Readers, NEW s \in Scopes,
               pc'[q] \in {"load", "store", "direct", "done"}, s \notin pending'[q]
        PROVE  value'[q][s] >= floor[q][s]
    <3>1. q \notin Awaiting(r)
      BY <2>3, <2>5
    <3> QED
      BY <2>4, <2>5, <3>1 DEF FreshInv, CallsInv
  <2>6. ASSUME NEW q \in Readers, pc'[q] = "join"
        PROVE  /\ pc'[owner'[q]] \in Loading
               /\ \A s \in Scopes : s \notin pending'[owner'[q]]
                    => value'[owner'[q]][s] >= floor[q][s]
    <3>1. q \notin Awaiting(r)
      BY <2>3, <2>6
    <3>2. /\ pc[q] = "join" /\ owner'[q] = owner[q]
          /\ owner[q] \in Readers /\ owner[q] \notin Awaiting(r)
      BY <2>2, <2>4, <2>6, <3>1 DEF TypeOK
    <3> QED
      BY <2>4, <3>2 DEF FreshInv, CallsInv
  <2> QED
    BY <2>1, <2>5, <2>6 DEF CallsInv
<1>12. CASE LoaderFails(r)
  <2>1. /\ LeaveLoop(Awaiting(r)) /\ UNCHANGED floor
        /\ pc[r] \in {"load", "direct"}
    BY <1>12 DEF LoaderFails
  <2>2. \A q \in Readers : q \notin Awaiting(r) /\ pc[q] = "join"
           => owner[q] \notin Awaiting(r)
    BY <2>1 DEF Awaiting, FreshInv, CallsInv
  <2>3. \A q \in Readers : q \in Awaiting(r) => pc'[q] = "failed"
    BY <1>12 DEF LoaderFails
  <2>4. \A q \in Readers : q \notin Awaiting(r)
           => /\ value'[q] = value[q] /\ pc'[q] = pc[q] /\ owner'[q] = owner[q]
              /\ pending'[q] = pending[q]
    BY <1>12, <2>1 DEF LoaderFails, LeaveLoop, Awaiting, TypeOK
  <2>5. ASSUME NEW q \in Readers, NEW s \in Scopes,
               pc'[q] \in {"load", "store", "direct", "done"}, s \notin pending'[q]
        PROVE  value'[q][s] >= floor[q][s]
    <3>1. q \notin Awaiting(r)
      BY <2>3, <2>5
    <3> QED
      BY <2>4, <2>5, <3>1 DEF FreshInv, CallsInv
  <2>6. ASSUME NEW q \in Readers, pc'[q] = "join"
        PROVE  /\ pc'[owner'[q]] \in Loading
               /\ \A s \in Scopes : s \notin pending'[owner'[q]]
                    => value'[owner'[q]][s] >= floor[q][s]
    <3>1. q \notin Awaiting(r)
      BY <2>3, <2>6
    <3>2. /\ pc[q] = "join" /\ owner'[q] = owner[q]
          /\ owner[q] \in Readers /\ owner[q] \notin Awaiting(r)
      BY <2>2, <2>4, <2>6, <3>1 DEF TypeOK
    <3> QED
      BY <2>4, <3>2 DEF FreshInv, CallsInv
  <2> QED
    BY <2>1, <2>5, <2>6 DEF CallsInv
<1> QED
  BY <1>1, <1>2, <1>3, <1>4, <1>5, <1>6, <1>7, <1>8, <1>9, <1>10, <1>11, <1>12 DEF Read

LEMMA FreshStep ==
  ASSUME LoadTime < GenerationTTL,
         TypeOK, TypeOK', BaseInv, FreshInv, [Next]_vars
  PROVE  FreshInv'
<1>1. EntriesInv'
  BY EntriesStep DEF FreshInv
<1>2. LoadsInv'
  BY LoadsStep DEF FreshInv
<1>3. CallsInv'
  <2>1. CASE UNCHANGED <<pc, pending, value, floor, owner>>
    BY <2>1 DEF FreshInv, CallsInv
  <2>2. CASE \E r \in Readers : Read(r)
    BY <2>2, CallsStepOfReader
  <2> QED
    BY <2>1, <2>2 DEF Next, Write, Commit, Bump, BumpFails, Tick, vars, readerVars,
                     loopVars
<1> QED
  BY <1>1, <1>2, <1>3 DEF FreshInv

LEMMA FreshInvariant ==
  ASSUME LoadTime < GenerationTTL
  PROVE  Spec => []FreshInv
<1>1. Init => FreshInv
  BY DEF Init, FreshInv, EntriesInv, LoadsInv, CallsInv, Loading, Zero
<1>2. TypeOK /\ TypeOK' /\ BaseInv /\ FreshInv /\ [Next]_vars => FreshInv'
  BY FreshStep
<1> QED
  BY <1>1, <1>2, BaseInvariant, TypeCorrect, PTL DEF Spec

-----------------------------------------------------------------------------

\* A call whose attempts are shorter than the life of a generation returns
\* every change invalidated before it began, whoever loaded the snapshot.
THEOREM CallsAreFresh ==
  ASSUME LoadTime < GenerationTTL
  PROVE  Spec => []Fresh
<1>1. TypeOK /\ BaseInv /\ FreshInv => Fresh
  BY DEF BaseInv, FreshInv, CallsInv, Fresh, AtLeast
<1> QED
  BY <1>1, FreshInvariant, BaseInvariant, TypeCorrect, PTL

\* Under the same hypothesis no generation that comes back, generation 0
\* included, makes an entry older than the last invalidation visible again.
THEOREM ReachableAreCurrent ==
  ASSUME LoadTime < GenerationTTL
  PROVE  Spec => []ReachableEntriesAreCurrent
<1>1. TypeOK /\ FreshInv => ReachableEntriesAreCurrent
  BY DEF FreshInv, EntriesInv, ReachableEntriesAreCurrent, AtLeast
<1> QED
  BY <1>1, FreshInvariant, TypeCorrect, PTL

\* Under the same hypothesis a result one of the scripts has checked is as
\* recent as the last invalidation when it is returned, shared or not.
THEOREM CheckedAreCurrent ==
  ASSUME LoadTime < GenerationTTL
  PROVE  Spec => CheckedResultsAreCurrent
<1>1. ASSUME TypeOK, BaseInv, FreshInv, NEW r \in Readers, NEW q \in Readers,
             Hit(r) \/ Store(r), pc[q] # "done", pc'[q] = "done"
      PROVE  AtLeast(value'[q], settled)
  <2>1. CASE Hit(r)
    <3>1. PICK e \in cache : /\ e.versions = versions[r]
                             /\ value' = [value EXCEPT ![r] = e.value]
      BY <2>1 DEF Hit
    <3>2. e.versions = gen
      BY <2>1, <3>1 DEF Hit, VersionsMatch
    <3>3. \A s \in Scopes : e.value[s] >= settled[s]
      BY <1>1, <3>2 DEF FreshInv, EntriesInv
    <3>4. q = r
      BY <1>1, <2>1 DEF Hit, Goto, TypeOK
    <3>5. value'[q] = e.value
      BY <1>1, <3>1, <3>4 DEF TypeOK
    <3> QED
      BY <3>3, <3>5 DEF AtLeast
  <2>2. CASE Store(r)
    <3>1. \A s \in Scopes : value[r][s] >= settled[s]
      BY <1>1, <2>2 DEF Store, VersionsMatch, Loading, BaseInv, FreshInv, LoadsInv
    <3>2. value'[q] = value[r]
      BY <1>1, <2>2 DEF Store, Answer
    <3> QED
      BY <3>1, <3>2 DEF AtLeast
  <2> QED
    BY <1>1, <2>1, <2>2
<1>2. TypeOK /\ BaseInv /\ FreshInv /\ [Next]_vars
        => [\A r, q \in Readers :
              (Hit(r) \/ Store(r)) /\ pc[q] # "done" /\ pc'[q] = "done"
                => AtLeast(value'[q], settled)]_vars
  BY <1>1
<1> QED
  BY <1>2, FreshInvariant, BaseInvariant, TypeCorrect, PTL
     DEF Spec, CheckedResultsAreCurrent
-----------------------------------------------------------------------------
(* Refinement: what is read, cached or shared was committed before, so that  *)
(* each answer is one SnapshotReads allows.                                  *)

CommittedInv ==
  /\ \A r \in Readers, s \in Scopes : value[r][s] <= db[s]
  /\ \A e \in cache : \A s \in Scopes : e.value[s] <= db[s]

LEMMA CommittedStepOfReader ==
  ASSUME TypeOK, CommittedInv, NEW r \in Readers, Read(r)
  PROVE  CommittedInv'
<1>0. UNCHANGED db
  BY ReadersLeaveTheStore DEF storeVars
<1>1. \A s \in Scopes : Zero[s] <= db[s]
  BY DEF Zero, TypeOK, Snapshot
<1>2. ASSUME NEW q \in Readers PROVE \A s \in Scopes : value'[q][s] <= db[s]
  <2>1. CASE UNCHANGED value
    BY <2>1 DEF CommittedInv
  <2>2. CASE CheckFails(r) \/ StoreIsStale(r) \/ LoaderFails(r)
    <3>1. value'[q] \in {value[q], Zero}
      BY <2>2 DEF CheckFails, StoreIsStale, LoaderFails, Retry
    <3> QED
      BY <1>1, <3>1 DEF CommittedInv
  <2>3. CASE Store(r) \/ StoreFails(r)
    <3>1. value'[q] \in {value[q], value[r]}
      BY <2>3 DEF Store, StoreFails, Answer
    <3> QED
      BY <3>1 DEF CommittedInv
  <2>4. CASE Hit(r)
    <3>1. value'[q] = value[q] \/ \E e \in cache : value'[q] = e.value
      BY <2>4 DEF Hit, TypeOK
    <3> QED
      BY <3>1 DEF CommittedInv
  <2>5. ASSUME NEW z \in Scopes, ReadScope(r, z)
        PROVE  \A s \in Scopes : value'[q][s] <= db[s]
    <3>1. \A s \in Scopes : value'[q][s] \in {value[q][s], db[s]}
      BY <2>5 DEF ReadScope, TypeOK, Snapshot
    <3>2. \A s \in Scopes : value[q][s] <= db[s] /\ db[s] <= db[s]
      BY DEF CommittedInv, TypeOK, Snapshot
    <3> QED
      BY <3>1, <3>2
  <2> QED
    BY <2>1, <2>2, <2>3, <2>4, <2>5
       DEF Read, Begin, BeginWithoutRedis, ReadVersions, ReadFails, StartLoad, JoinLoad
<1>3. ASSUME NEW e \in cache' PROVE \A s \in Scopes : e.value[s] <= db[s]
  BY <1>3, OnlyCheckedStores DEF Stored, CommittedInv
<1> QED
  BY <1>0, <1>2, <1>3 DEF CommittedInv

LEMMA CommittedStep ==
  ASSUME TypeOK, TypeOK', CommittedInv, [Next]_vars
  PROVE  CommittedInv'
<1>1. CASE \E r \in Readers : Read(r)
  BY <1>1, CommittedStepOfReader
<1>2. ASSUME NEW w \in Writers, Commit(w) PROVE CommittedInv'
  <2>1. \A s \in Scopes : db[s] <= db'[s]
    BY <1>2 DEF Commit, TypeOK, Snapshot
  <2>2. \A r \in Readers, s \in Scopes : value[r][s] \in Nat /\ db[s] \in Nat /\ db'[s] \in Nat
    BY DEF TypeOK, Snapshot
  <2>3. \A e \in cache : \A s \in Scopes : e.value[s] \in Nat /\ db[s] \in Nat /\ db'[s] \in Nat
    BY DEF TypeOK, Entry, Snapshot
  <2> QED
    BY <1>2, <2>1, <2>2, <2>3 DEF Commit, readerVars, CommittedInv
<1>3. CASE UNCHANGED <<db, cache, value>>
  BY <1>3 DEF CommittedInv
<1>4. CASE Tick
  <2>1. \A e \in cache' : \E f \in cache : e.value = f.value
    BY <1>4 DEF Tick, TypeOK, Entry
  <2> QED
    BY <1>4, <2>1 DEF Tick, CommittedInv
<1> QED
  BY <1>1, <1>2, <1>3, <1>4
     DEF Next, Write, Bump, BumpFails, vars, storeVars, readerVars

LEMMA CommittedInvariant == Spec => []CommittedInv
<1>1. Init => CommittedInv
  BY DEF Init, CommittedInv, Zero
<1> QED
  BY <1>1, CommittedStep, TypeCorrect, PTL DEF Spec

LEMMA BetweenMember ==
  ASSUME NEW low \in Snapshot, NEW high \in Snapshot, NEW v \in Snapshot,
         \A s \in Scopes : low[s] <= v[s] /\ v[s] <= high[s]
  PROVE  v \in Reads!Between(low, high)
<1>1. \A s \in Scopes : v[s] \in low[s]..high[s]
  BY DEF Snapshot
<1>2. v \in [Scopes -> UNION {low[s]..high[s] : s \in Scopes}]
  BY <1>1 DEF Snapshot
<1> QED
  BY <1>1, <1>2 DEF Reads!Between

\* A step that the abstract specification does not see.
LEMMA UnseenStep ==
  ASSUME UNCHANGED <<db, settled, floor>>,
         \A q \in Readers : StatusOf(q)' = StatusOf(q) /\ ResultOf(q)' = ResultOf(q)
  PROVE  UNCHANGED Reads!readVars
BY DEF Reads!readVars

LEMMA AskStep ==
  ASSUME TypeOK, NEW r \in Readers, Begin(r) \/ BeginWithoutRedis(r)
  PROVE  Reads!Ask(r)
<1>1. pc[r] = "idle" /\ pc'[r] \in {"mget", "direct"}
  BY DEF Begin, BeginWithoutRedis, Direct, Goto, TypeOK
<1>2. \A q \in Readers : q # r => pc'[q] = pc[q]
  BY DEF Begin, BeginWithoutRedis, Direct, Goto, TypeOK
<1>3. UNCHANGED <<db, settled, value>> /\ floor' = [floor EXCEPT ![r] = settled]
  BY DEF Begin, BeginWithoutRedis, storeVars
<1>4. \A q \in Readers : StatusOf(q)' = IF q = r THEN "asked" ELSE StatusOf(q)
  BY <1>1, <1>2 DEF StatusOf
<1>5. \A q \in Readers : ResultOf(q)' = ResultOf(q)
  BY <1>1, <1>2, <1>3 DEF ResultOf
<1>6. StatusOf(r) = "idle"
  BY <1>1 DEF StatusOf
<1> QED
  BY <1>3, <1>4, <1>5, <1>6 DEF Reads!Ask

\* The calls in C end together: answered with the same value, or failed.
LEMMA AnswerStep ==
  ASSUME TypeOK, TypeOK', BaseInv, CommittedInv', Fresh',
         NEW C \in SUBSET Readers, NEW r \in C,
         UNCHANGED <<db, settled, floor>>,
         \A q \in C : /\ pc[q] \notin {"idle", "done", "failed"}
                      /\ pc'[q] = "done" /\ value'[q] = value'[r],
         \A q \in Readers \ C : pc'[q] = pc[q] /\ value'[q] = value[q]
  PROVE  C \in SUBSET Reads!Waiting /\ Reads!Answer(C)
<1>1. \A q \in Readers : StatusOf(q)' = IF q \in C THEN "answered" ELSE StatusOf(q)
  BY DEF StatusOf
<1>2. \A q \in Readers : ResultOf(q)' = IF q \in C THEN value'[r] ELSE ResultOf(q)
  BY DEF ResultOf
<1>3. C \in SUBSET Reads!Waiting
  BY DEF Reads!Waiting, StatusOf
<1>4. Reads!End(C, "answered")
  BY <1>1 DEF Reads!End
<1>5. /\ db \in Snapshot /\ value'[r] \in Snapshot /\ Reads!None \in Snapshot
      /\ \A s \in Scopes : Reads!None[s] = 0 /\ 0 <= value'[r][s] /\ value'[r][s] <= db[s]
  BY DEF TypeOK, CommittedInv, Reads!None, Snapshot
<1>6. value'[r] \in Reads!Between(Reads!None, db)
  BY <1>5, BetweenMember
<1>7. ASSUME NEW q \in C PROVE value'[r] \in Reads!Between(floor[q], db)
  <2>1. floor[q] \in Snapshot
    BY DEF TypeOK
  <2>2. \A s \in Scopes : floor[q][s] <= value'[r][s]
    <3>1. AtLeast(value[q], floor[q])'
      BY DEF Fresh
    <3>2. \A s \in Scopes : value'[r][s] >= floor[q][s]
      BY <3>1 DEF AtLeast
    <3> QED
      BY <1>5, <2>1, <3>2 DEF Snapshot
  <2> QED
    BY <1>5, <2>1, <2>2, BetweenMember
<1> QED
  BY <1>2, <1>3, <1>4, <1>6, <1>7 DEF Reads!Answer

LEMMA FailStep ==
  ASSUME TypeOK, NEW C \in SUBSET Readers,
         UNCHANGED <<db, settled, floor>>,
         \A q \in C : pc[q] \notin {"idle", "done", "failed"} /\ pc'[q] = "failed",
         \A q \in Readers \ C : pc'[q] = pc[q] /\ value'[q] = value[q]
  PROVE  C \in SUBSET Reads!Waiting /\ Reads!Fail(C)
<1>1. \A q \in Readers : StatusOf(q)' = IF q \in C THEN "failed" ELSE StatusOf(q)
  BY DEF StatusOf
<1>2. \A q \in Readers : ResultOf(q)' = ResultOf(q)
  BY DEF ResultOf
<1>3. C \in SUBSET Reads!Waiting
  BY DEF Reads!Waiting, StatusOf
<1> QED
  BY <1>1, <1>2, <1>3 DEF Reads!Fail, Reads!End
\* Every other step leaves each call idle, asked or ended as it was.
LEMMA UnseenCallStep ==
  ASSUME TypeOK, NEW r \in Readers, Read(r),
         \A q \in Readers :
           \/ pc'[q] = pc[q] /\ pc[q] # "done"
           \/ pc'[q] = pc[q] /\ value'[q] = value[q]
           \/ {pc[q], pc'[q]} \cap {"idle", "done", "failed"} = {},
         UNCHANGED floor
  PROVE  UNCHANGED Reads!readVars
<1>1. UNCHANGED <<db, settled, floor>>
  BY ReadersLeaveTheStore DEF storeVars
<1>2. \A q \in Readers : StatusOf(q)' = StatusOf(q) /\ ResultOf(q)' = ResultOf(q)
  BY DEF StatusOf, ResultOf
<1> QED
  BY <1>1, <1>2, UnseenStep

LEMMA ReadsStepOfReader ==
  ASSUME TypeOK, TypeOK', BaseInv, CommittedInv', Fresh', NEW r \in Readers, Read(r)
  PROVE  [Reads!ReadNext]_Reads!readVars
<1>0. UNCHANGED <<db, settled>>
  BY ReadersLeaveTheStore DEF storeVars
<1>1. CASE Begin(r) \/ BeginWithoutRedis(r)
  BY <1>1, AskStep DEF Reads!ReadNext
<1>2. CASE Hit(r)
  <2>1. pc[r] = "check" /\ pc'[r] = "done" /\ UNCHANGED floor
    BY <1>2 DEF Hit, Goto, TypeOK
  <2>2. \A q \in Readers \ {r} : pc'[q] = pc[q] /\ value'[q] = value[q]
    BY <1>2 DEF Hit, Goto, TypeOK
  <2>3. Reads!Answer({r}) /\ {r} \in SUBSET Reads!Waiting
    BY <1>0, <2>1, <2>2, AnswerStep
  <2> QED
    BY <2>3 DEF Reads!ReadNext
<1>3. ASSUME NEW s \in Scopes, ReadScope(r, s)
      PROVE  [Reads!ReadNext]_Reads!readVars
  <2>1. /\ pc[r] \in {"load", "direct"} /\ UNCHANGED floor
        /\ pc'[r] \in {"load", "direct", "store", "done"}
        /\ pc'[r] = "done" => pc[r] = "direct"
    BY <1>3 DEF ReadScope, Goto, TypeOK
  <2>2. \A q \in Readers \ {r} : pc'[q] = pc[q] /\ value'[q] = value[q]
    BY <1>3 DEF ReadScope, Goto, TypeOK
  <2>3. CASE pc'[r] = "done"
    <3>1. \A q \in {r} : /\ pc[q] \notin {"idle", "done", "failed"}
                         /\ pc'[q] = "done" /\ value'[q] = value'[r]
      BY <2>1, <2>3
    <3>2. Reads!Answer({r}) /\ {r} \in SUBSET Reads!Waiting
      BY <1>0, <2>1, <2>2, <3>1, AnswerStep
    <3> QED
      BY <3>2 DEF Reads!ReadNext
  <2>4. CASE pc'[r] # "done"
    <3>1. UNCHANGED Reads!readVars
      BY <2>1, <2>2, <2>4, UnseenCallStep
    <3> QED
      BY <3>1
  <2> QED
    BY <2>3, <2>4
<1>4. CASE Store(r) \/ StoreFails(r)
  <2>1. /\ Answer(r) /\ UNCHANGED floor /\ pc[r] = "store"
        /\ r \in Awaiting(r) /\ Awaiting(r) \in SUBSET Readers
    BY <1>4 DEF Store, StoreFails, Awaiting
  <2>2. \A q \in Awaiting(r) : /\ pc[q] \notin {"idle", "done", "failed"}
                               /\ pc'[q] = "done" /\ value'[q] = value'[r]
    BY <2>1 DEF Answer, Awaiting
  <2>3. \A q \in Readers \ Awaiting(r) : pc'[q] = pc[q] /\ value'[q] = value[q]
    BY <2>1 DEF Answer
  <2>4. Reads!Answer(Awaiting(r)) /\ Awaiting(r) \in SUBSET Reads!Waiting
    BY <1>0, <2>1, <2>2, <2>3, AnswerStep
  <2> QED
    BY <2>4 DEF Reads!ReadNext
<1>5. CASE LoaderFails(r)
  <2>1. /\ UNCHANGED floor /\ pc[r] \in {"load", "direct"}
        /\ Awaiting(r) \in SUBSET Readers
    BY <1>5 DEF LoaderFails, Awaiting
  <2>2. \A q \in Awaiting(r) : /\ pc[q] \notin {"idle", "done", "failed"}
                               /\ pc'[q] = "failed"
    BY <1>5, <2>1 DEF LoaderFails, Awaiting
  <2>3. \A q \in Readers \ Awaiting(r) : pc'[q] = pc[q] /\ value'[q] = value[q]
    BY <1>5 DEF LoaderFails
  <2>4. Reads!Fail(Awaiting(r)) /\ Awaiting(r) \in SUBSET Reads!Waiting
    BY <1>0, <2>1, <2>2, <2>3, FailStep
  <2> QED
    BY <2>4 DEF Reads!ReadNext
<1>6. CASE CheckFails(r) \/ StoreIsStale(r)
  <2>1. PICK R \in SUBSET Readers :
           /\ Retry(R) /\ UNCHANGED floor
           /\ \A q \in R : pc[q] \in {"check", "store", "join"}
    BY <1>6 DEF CheckFails, StoreIsStale, Awaiting
  <2>2. \A q \in R : {pc[q], pc'[q]} \cap {"idle", "done", "failed"} = {}
    BY <2>1 DEF Retry
  <2>3. \A q \in Readers \ R : pc'[q] = pc[q] /\ value'[q] = value[q]
    BY <2>1 DEF Retry
  <2>4. UNCHANGED Reads!readVars
    BY <2>1, <2>2, <2>3, UnseenCallStep
  <2> QED
    BY <2>4
<1>7. CASE ReadVersions(r) \/ ReadFails(r) \/ StartLoad(r) \/ JoinLoad(r)
  <2>1. UNCHANGED <<value, floor>>
    BY <1>7 DEF ReadVersions, ReadFails, StartLoad, JoinLoad
  <2>2. /\ {pc[r], pc'[r]} \cap {"idle", "done", "failed"} = {}
        /\ \A q \in Readers \ {r} : pc'[q] = pc[q]
    BY <1>7 DEF ReadVersions, ReadFails, StartLoad, JoinLoad, Missed, Direct, Goto,
                TypeOK
  <2>3. UNCHANGED Reads!readVars
    BY <2>1, <2>2, UnseenCallStep
  <2> QED
    BY <2>3
<1> QED
  BY <1>1, <1>2, <1>3, <1>4, <1>5, <1>6, <1>7 DEF Read

LEMMA ReadsStep ==
  ASSUME TypeOK, TypeOK', BaseInv, CommittedInv', Fresh', [Next]_vars
  PROVE  [Reads!ReadNext]_Reads!readVars
<1>1. CASE \E r \in Readers : Read(r)
  BY <1>1, ReadsStepOfReader
<1>2. ASSUME UNCHANGED <<pc, value>>
      PROVE  /\ \A q \in Readers : StatusOf(q)' = StatusOf(q) /\ ResultOf(q)' = ResultOf(q)
             /\ [r \in Readers |-> StatusOf(r)]' = [r \in Readers |-> StatusOf(r)]
             /\ [r \in Readers |-> ResultOf(r)]' = [r \in Readers |-> ResultOf(r)]
  BY <1>2 DEF StatusOf, ResultOf
<1>3. ASSUME NEW w \in Writers, Commit(w) PROVE Reads!Change(Touches[w])
  BY <1>2, <1>3 DEF Commit, readerVars, Reads!Change
<1>4. ASSUME NEW w \in Writers, NEW s \in Scopes, Bump(w, s) PROVE Reads!Invalidate(s)
  BY <1>2, <1>4 DEF Bump, readerVars, Reads!Invalidate
<1>5. CASE UNCHANGED <<db, settled, floor, pc, value>>
  BY <1>2, <1>5, UnseenStep
<1>6. \A w \in Writers : Touches[w] \in SUBSET Scopes
  BY CacheAssumption DEF CacheAssumption
<1>7. CASE \E w \in Writers : Commit(w)
  BY <1>3, <1>6, <1>7 DEF Reads!ReadNext
<1>8. CASE \E w \in Writers, s \in Scopes : Bump(w, s)
  BY <1>4, <1>8 DEF Reads!ReadNext
<1> QED
  BY <1>1, <1>5, <1>7, <1>8
     DEF Next, Write, BumpFails, Tick, vars, storeVars, readerVars

LEMMA ReadsStart == Init => Reads!ReadInit
BY DEF Init, Reads!ReadInit, Reads!None, Zero, StatusOf, ResultOf

\* If an attempt is shorter than the life of a generation the cache implements
\* SnapshotReads: its answers are those reads of the data could have given.
THEOREM ReadsLookUncached ==
  ASSUME LoadTime < GenerationTTL
  PROVE  Spec => LooksUncached
<1>1. Init => Reads!ReadInit
  BY ReadsStart
<1>2. TypeOK /\ TypeOK' /\ BaseInv /\ CommittedInv' /\ Fresh' /\ [Next]_vars
        => [Reads!ReadNext]_Reads!readVars
  BY ReadsStep
<1> QED
  BY <1>1, <1>2, TypeCorrect, BaseInvariant, CommittedInvariant, CallsAreFresh, PTL
     DEF Spec, LooksUncached, Reads!ReadSpec

=============================================================================
