-------------------------- MODULE MultiStoreProofs ---------------------------
(***************************************************************************)
(* No sequence of requests, jobs, evictions, sweeps and shutdown opens the *)
(* database of a user twice, loses an open one, closes one in use without  *)
(* cause or leaves one open at the end, for any number of users, workers   *)
(* and places in the cache.                                                *)
(***************************************************************************)
EXTENDS MultiStore, FiniteSetTheorems, TLAPS

\* OpenIsCached is kept by put only because the user it stores is not in the
\* cache: nobody can have put it there since the lookup, under MultiStore.mu.
Opener(w) ==
  worker[w].at = "opening" => mu = w /\ worker[w].user \notin DOMAIN cache

IInv ==
  /\ DOMAIN worker = Workers
  /\ \A w \in Workers : Opener(w)
  /\ OpenIsCached

LEMMA InitIInv == Init => IInv
BY DEF Init, IInv, Opener, OpenIsCached, Cached, Idle

\* Dropping users from the cache and closing their stores loses nothing.
LEMMA DropKeepsCached ==
  ASSUME OpenIsCached, NEW out \in SUBSET DOMAIN cache,
         cache' = Without(cache, out),
         open' = open \ {<<u, cache[u].id>> : u \in out}
  PROVE  OpenIsCached' /\ DOMAIN cache' \subseteq DOMAIN cache
<1>1. DOMAIN cache' = DOMAIN cache \ out /\ \A u \in DOMAIN cache' : cache'[u] = cache[u]
  BY DEF Without
<1> QED
  BY <1>1 DEF OpenIsCached, Cached

LEMMA LookupKeeps ==
  ASSUME IInv, NEW w \in Workers, Lookup(w)
  PROVE  IInv'
<1> DEFINE u == worker[w].user
<1>1. CASE u \in DOMAIN cache
  <2>1. /\ DOMAIN cache' = DOMAIN cache
        /\ \A v \in DOMAIN cache : cache'[v].id = cache[v].id
        /\ UNCHANGED <<open, mu>>
    BY <1>1 DEF Lookup, With
  <2>2. OpenIsCached'
    BY <2>1 DEF IInv, OpenIsCached, Cached
  <2>3. DOMAIN worker' = Workers /\ \A v \in Workers : v # w => worker'[v] = worker[v]
    BY <1>1 DEF Lookup, Enter, IInv
  <2>4. worker'[w].at = "using"
    BY <1>1 DEF Lookup, Enter, Using, IInv
  <2> QED
    BY <2>1, <2>2, <2>3, <2>4 DEF IInv, Opener
<1>2. CASE u \notin DOMAIN cache
  <2>1. /\ DOMAIN worker' = Workers
        /\ worker'[w].user = u
        /\ \A v \in Workers : v # w => worker'[v] = worker[v]
        /\ mu = Nobody /\ mu' = w /\ UNCHANGED <<cache, open>>
    BY <1>2 DEF Lookup, Enter, IInv
  <2>2. \A v \in Workers : worker[v].at # "opening"
    BY <2>1, WorkersAssumption DEF IInv, Opener
  <2> QED
    BY <1>2, <2>1, <2>2 DEF IInv, Opener, OpenIsCached, Cached
<1> QED
  BY <1>1, <1>2

LEMMA PutKeeps ==
  ASSUME IInv, NEW w \in Workers, Put(w)
  PROVE  IInv'
<1> DEFINE u  == worker[w].user
           id == Fresh(u)
<1>1. PICK out \in Evicted : /\ cache' = With(Without(cache, out), u, id)
                             /\ open' = (open \ {<<v, cache[v].id>> : v \in out}) \cup {<<u, id>>}
  BY DEF Put
<1>2. out \subseteq DOMAIN cache /\ u \notin DOMAIN cache
  BY <1>1 DEF Evicted, IInv, Opener, Put
<1>3. /\ DOMAIN cache' = (DOMAIN cache \ out) \cup {u}
      /\ cache'[u].id = id
      /\ \A v \in DOMAIN cache \ out : cache'[v] = cache[v]
  BY <1>1, <1>2 DEF With, Without
<1>4. OpenIsCached'
  <2> HIDE DEF id
  <2> QED
    BY <1>1, <1>2, <1>3 DEF IInv, OpenIsCached, Cached
<1>5. /\ DOMAIN worker' = Workers /\ worker'[w].at = "using"
      /\ \A v \in Workers : v # w => worker'[v] = worker[v]
  BY DEF Put, Enter, Using, IInv
<1>6. \A v \in Workers : v # w => worker[v].at # "opening"
  BY DEF Put, IInv, Opener
<1> QED
  BY <1>4, <1>5, <1>6 DEF IInv, Opener

\* Steps that open nothing: the workers that were opening still are.
LEMMA QuietKeeps ==
  ASSUME IInv, UNCHANGED mu, OpenIsCached', DOMAIN cache' \subseteq DOMAIN cache,
         DOMAIN worker' = Workers,
         \A w \in Workers : worker'[w].at = "opening" => worker'[w] = worker[w]
  PROVE  IInv'
BY DEF IInv, Opener

LEMMA NextIInv == IInv /\ [Next]_vars => IInv'
<1> SUFFICES ASSUME IInv, [Next]_vars PROVE IInv'
  OBVIOUS
<1>1. ASSUME NEW r \in Requests, NEW u \in Users, Arrive(r, u) PROVE IInv'
  <2>1. r \in Workers
    BY DEF Workers
  <2>2. /\ DOMAIN worker' = Workers /\ worker'[r].at = "waiting"
        /\ \A w \in Workers : w # r => worker'[w] = worker[w]
    BY <1>1, <2>1 DEF Arrive, Enter, IInv
  <2> QED
    BY <1>1, <2>2, QuietKeeps DEF Arrive, IInv, OpenIsCached, Cached
<1>2. ASSUME NEW r \in Requests, NEW j \in Jobs, StartJob(r, j) PROVE IInv'
  <2>1. r \in Workers /\ j \in Workers
    BY DEF Workers
  <2>2. /\ DOMAIN worker' = Workers /\ worker'[j].at = "waiting" /\ worker'[r].at # "opening"
        /\ \A w \in Workers : w \notin {r, j} => worker'[w] = worker[w]
    BY <1>2, <2>1 DEF StartJob, IInv, Idle
  <2> QED
    BY <1>2, <2>2, QuietKeeps DEF StartJob, IInv, OpenIsCached, Cached
<1>3. ASSUME NEW w \in Workers, Lookup(w) PROVE IInv'
  BY <1>3, LookupKeeps
<1>4. ASSUME NEW w \in Workers, Put(w) PROVE IInv'
  BY <1>4, PutKeeps
<1>5. ASSUME NEW w \in Workers, OpenFails(w) \/ Finish(w) PROVE IInv'
  <2>1. /\ DOMAIN worker' = Workers /\ worker'[w].at = "idle"
        /\ \A v \in Workers : v # w => worker'[v] = worker[v]
        /\ UNCHANGED <<cache, open>>
    BY <1>5 DEF OpenFails, Finish, Enter, Idle, IInv
  <2>2. \A v \in Workers : v # w /\ worker[v].at = "opening" => mu' = mu
    BY <1>5 DEF OpenFails, Finish, IInv, Opener
  <2> QED
    BY <2>1, <2>2 DEF IInv, Opener, OpenIsCached, Cached
<1>6. CASE Tick
  <2>1. DOMAIN cache' = DOMAIN cache /\ \A u \in DOMAIN cache : cache'[u].id = cache[u].id
    BY <1>6 DEF Tick
  <2>2. OpenIsCached'
    BY <1>6, <2>1 DEF Tick, IInv, OpenIsCached, Cached
  <2>3. DOMAIN worker' = Workers
        /\ \A w \in Workers : worker'[w].at = "opening" => worker'[w] = worker[w]
    BY <1>6 DEF Tick, IInv
  <2> QED
    BY <1>6, <2>1, <2>2, <2>3, QuietKeeps DEF Tick
<1>7. CASE Sweep
  BY <1>7, DropKeepsCached, QuietKeeps DEF Sweep, IInv
<1>8. CASE CloseAll
  BY <1>8, DropKeepsCached, QuietKeeps DEF CloseAll, Cached, IInv
<1>9. CASE Shutdown \/ Drained \/ UNCHANGED vars
  BY <1>9, QuietKeeps DEF Shutdown, Drained, vars, IInv, OpenIsCached, Cached
<1> QED
  BY <1>1, <1>2, <1>3, <1>4, <1>5, <1>6, <1>7, <1>8, <1>9 DEF Next, Answer

\* The open stores are exactly the cached ones: eviction, sweep and Close can
\* reach every store that was opened, and the cache hands out no closed one.
THEOREM NoStoreLost == Spec => []OpenIsCached
<1>1. IInv => OpenIsCached
  BY DEF IInv
<1> QED
  BY <1>1, InitIInv, NextIInv, PTL DEF Spec

\* A user never has two open stores.
THEOREM NoStoreTwice == Spec => []OneStorePerUser
<1>1. IInv => OneStorePerUser
  BY DEF IInv, OpenIsCached, OneStorePerUser, Cached
<1> QED
  BY <1>1, InitIInv, NextIInv, PTL DEF Spec

-----------------------------------------------------------------------------
\* Types hold because a fresh id exists whenever a database is opened: the user
\* has no store open then, and every other id is held by a worker.
Types == TypeOK /\ IsFiniteSet(DOMAIN cache)

LEMMA InitTypes == Init => Types
BY FS_EmptySet, LimitsAssumption DEF Init, Types, TypeOK, WorkerState, Idle

LEMMA FreshIsFree ==
  ASSUME IInv, Types, NEW u, u \notin DOMAIN cache
  PROVE  Fresh(u) \in StoreIds /\ <<u, Fresh(u)>> \notin open \cup Held
<1> DEFINE Users_u == {w \in Workers : worker[w].at = "using" /\ worker[w].user = u}
           Ids     == {worker[w].id : w \in Users_u}
           holds   == [w \in Users_u |-> worker[w].id]
<1>1. IsFiniteSet(Users_u) /\ Cardinality(Users_u) <= Cardinality(Workers)
  BY FS_Subset, WorkersAssumption
<1>2. Cardinality(Workers) \in Nat /\ Cardinality(Users_u) \in Nat
  BY <1>1, FS_CardinalityType, WorkersAssumption
<1>3. holds \in Surjection(Users_u, Ids)
  BY DEF Surjection
<1>4. IsFiniteSet(Ids) /\ Cardinality(Ids) <= Cardinality(Users_u)
  BY <1>1, <1>3, FS_Surjection
<1>5. Cardinality(Ids) \in Nat
  BY <1>4, FS_CardinalityType
<1>6. Cardinality(StoreIds) = Cardinality(Workers) + 1
  <2> DEFINE n == Cardinality(Workers)
  <2>1. n \in Nat
    BY <1>2
  <2> HIDE DEF n
  <2>2. Cardinality(1 .. n + 1) = n + 1
    BY <2>1, FS_Interval
  <2> QED
    BY <2>2 DEF n, StoreIds
<1>7. ~ StoreIds \subseteq Ids
  <2>1. SUFFICES ASSUME StoreIds \subseteq Ids PROVE FALSE
    OBVIOUS
  <2>2. Cardinality(StoreIds) <= Cardinality(Ids)
    BY <1>4, <2>1, FS_Subset
  <2> HIDE DEF Ids, Users_u
  <2> QED
    BY <1>1, <1>2, <1>4, <1>5, <1>6, <2>2
<1>8. PICK n \in StoreIds : n \notin Ids
  BY <1>7
<1>9. <<u, n>> \notin open \cup Held
  BY <1>8 DEF IInv, OpenIsCached, Cached, Held
<1> QED
  BY <1>9 DEF Fresh

\* The cache has room for a new store: evictIfNeeded makes it.
LEMMA PutKeepsTypes ==
  ASSUME IInv, Types, NEW w \in Workers, Put(w)
  PROVE  Types'
<1> DEFINE u  == worker[w].user
           id == Fresh(u)
<1>1. PICK out \in Evicted : /\ cache' = With(Without(cache, out), u, id)
                             /\ open' = (open \ {<<v, cache[v].id>> : v \in out}) \cup {<<u, id>>}
  BY DEF Put
<1>2. u \in Users /\ u \notin DOMAIN cache
  BY DEF Put, IInv, Opener, Types, TypeOK, WorkerState, Idle
<1>3. id \in StoreIds
  BY <1>2, FreshIsFree
<1> HIDE DEF id
<1>4. DOMAIN cache' = (DOMAIN cache \ out) \cup {u}
  BY <1>1 DEF With, Without
<1>5. \A v \in DOMAIN cache' : cache'[v] \in [id : StoreIds, idle : Nat]
  BY <1>1, <1>3, <1>4 DEF With, Without, Types, TypeOK
<1>6. /\ IsFiniteSet(DOMAIN cache) /\ Cardinality(DOMAIN cache) \in Nat
      /\ Cardinality(DOMAIN cache) <= MaxStores
  BY FS_CardinalityType DEF Types, TypeOK
<1>7. IsFiniteSet(DOMAIN cache') /\ Cardinality(DOMAIN cache') <= MaxStores
  <2>1. CASE out = {}
    <3>1. Cardinality(DOMAIN cache) < MaxStores
      BY <2>1 DEF Evicted
    <3>2. /\ IsFiniteSet(DOMAIN cache \cup {u})
          /\ Cardinality(DOMAIN cache \cup {u}) = Cardinality(DOMAIN cache) + 1
      BY <1>2, <1>6, FS_AddElement
    <3>3. DOMAIN cache' = DOMAIN cache \cup {u}
      BY <1>4, <2>1
    <3> HIDE DEF u
    <3> QED
      BY <1>6, <3>1, <3>2, <3>3, LimitsAssumption
  <2>2. CASE out # {}
    <3>1. PICK v \in DOMAIN cache : out = {v}
      BY <1>1, <2>2 DEF Evicted
    <3>2. /\ IsFiniteSet(DOMAIN cache \ {v})
          /\ Cardinality(DOMAIN cache \ {v}) = Cardinality(DOMAIN cache) - 1
      BY <1>6, FS_RemoveElement
    <3>3. /\ IsFiniteSet((DOMAIN cache \ {v}) \cup {u})
          /\ Cardinality((DOMAIN cache \ {v}) \cup {u}) = Cardinality(DOMAIN cache \ {v}) + 1
      BY <1>2, <3>2, FS_AddElement
    <3>4. DOMAIN cache' = (DOMAIN cache \ {v}) \cup {u}
      BY <1>4, <3>1
    <3> HIDE DEF u
    <3> QED
      BY <1>6, <3>2, <3>3, <3>4, LimitsAssumption
  <2> QED
    BY <2>1, <2>2
<1>8. DOMAIN cache' \subseteq Users /\ open' \subseteq Users \X StoreIds
  BY <1>1, <1>2, <1>3, <1>4 DEF Types, TypeOK
<1>9. DOMAIN worker' = Workers /\ \A v \in Workers : WorkerState(worker'[v])
  <2>1. worker' = [worker EXCEPT ![w] = [at |-> "using", user |-> u, id |-> id, since |-> 0]]
    BY DEF Put, Enter, Using, id
  <2>2. WorkerState([at |-> "using", user |-> u, id |-> id, since |-> 0])
    BY <1>2, <1>3 DEF WorkerState
  <2> QED
    BY <2>1, <2>2 DEF Types, TypeOK
<1>10. mu' \in Workers \cup {Nobody} /\ phase' = phase
  BY DEF Put
<1> QED
  BY <1>5, <1>7, <1>8, <1>9, <1>10 DEF Types, TypeOK

\* Removing stores from the cache keeps the types.
LEMMA DropKeepsTypes ==
  ASSUME Types, NEW out \in SUBSET DOMAIN cache, cache' = Without(cache, out),
         open' \subseteq open, worker' = worker, mu' = mu,
         phase' \in {"serving", "draining", "joining", "overdue", "closed", "cut"}
  PROVE  Types'
<1>1. DOMAIN cache' = DOMAIN cache \ out /\ \A u \in DOMAIN cache' : cache'[u] = cache[u]
  BY DEF Without
<1>2. /\ IsFiniteSet(DOMAIN cache') /\ Cardinality(DOMAIN cache') <= Cardinality(DOMAIN cache)
      /\ Cardinality(DOMAIN cache') \in Nat /\ Cardinality(DOMAIN cache) \in Nat
  BY <1>1, FS_Subset, FS_CardinalityType DEF Types
<1> QED
  BY <1>1, <1>2, LimitsAssumption DEF Types, TypeOK

LEMMA LookupKeepsTypes ==
  ASSUME Types, NEW w \in Workers, Lookup(w)
  PROVE  Types'
<1> DEFINE u == worker[w].user
<1>1. u \in Users
  BY DEF Lookup, Types, TypeOK, WorkerState, Idle
<1>2. CASE u \in DOMAIN cache
  <2>1. cache' = With(cache, u, cache[u].id) /\ UNCHANGED <<open, mu, phase>>
    BY <1>2 DEF Lookup
  <2>2. DOMAIN cache' = DOMAIN cache /\ \A v \in DOMAIN cache' : cache'[v] \in [id : StoreIds, idle : Nat]
    BY <1>2, <2>1 DEF With, Types, TypeOK
  <2>3. worker' = [worker EXCEPT ![w] = [at |-> "using", user |-> u, id |-> cache[u].id, since |-> 0]]
    BY <1>2 DEF Lookup, Enter, Using
  <2>4. WorkerState([at |-> "using", user |-> u, id |-> cache[u].id, since |-> 0])
    BY <1>1, <1>2 DEF WorkerState, Types, TypeOK
  <2>5. DOMAIN worker' = Workers /\ \A v \in Workers : WorkerState(worker'[v])
    BY <2>3, <2>4 DEF Types, TypeOK
  <2> QED
    BY <2>1, <2>2, <2>5 DEF Types, TypeOK
<1>3. CASE u \notin DOMAIN cache
  <2>1. mu' = w /\ UNCHANGED <<cache, open, phase>>
    BY <1>3 DEF Lookup
  <2>2. worker' = [worker EXCEPT ![w] = [at |-> "opening", user |-> u]]
    BY <1>3 DEF Lookup, Enter
  <2>3. WorkerState([at |-> "opening", user |-> u])
    BY <1>1 DEF WorkerState
  <2>4. DOMAIN worker' = Workers /\ \A v \in Workers : WorkerState(worker'[v])
    BY <2>2, <2>3 DEF Types, TypeOK
  <2> QED
    BY <2>1, <2>4 DEF Types, TypeOK
<1> QED
  BY <1>2, <1>3

\* Steps of one worker, which the cache does not notice.
LEMMA EnterKeepsTypes ==
  ASSUME Types, UNCHANGED <<cache, open>>,
         DOMAIN worker' = Workers, \A w \in Workers : WorkerState(worker'[w]),
         mu' \in Workers \cup {Nobody},
         phase' \in {"serving", "draining", "joining", "overdue", "closed", "cut"}
  PROVE  Types'
BY DEF Types, TypeOK

LEMMA NextTypes == IInv /\ Types /\ [Next]_vars => Types'
<1> SUFFICES ASSUME IInv, Types, [Next]_vars PROVE Types'
  OBVIOUS
<1>a. WorkerState(Idle)
  BY DEF WorkerState
<1>1. ASSUME NEW r \in Requests, NEW u \in Users, Arrive(r, u) PROVE Types'
  <2>1. WorkerState([at |-> "waiting", user |-> u])
    BY DEF WorkerState
  <2>2. r \in Workers /\ worker' = [worker EXCEPT ![r] = [at |-> "waiting", user |-> u]]
    BY <1>1 DEF Arrive, Enter, Workers
  <2>3. DOMAIN worker' = Workers /\ \A v \in Workers : WorkerState(worker'[v])
    BY <2>1, <2>2 DEF Types, TypeOK
  <2> QED
    BY <1>1, <2>3, EnterKeepsTypes DEF Arrive, Types, TypeOK
<1>2. ASSUME NEW r \in Requests, NEW j \in Jobs, StartJob(r, j) PROVE Types'
  <2>1. WorkerState([at |-> "waiting", user |-> worker[r].user])
    BY <1>2 DEF WorkerState, StartJob, Types, TypeOK, Workers, Idle
  <2>2. /\ r \in Workers /\ j \in Workers
        /\ worker' = [worker EXCEPT ![r] = Idle, ![j] = [at |-> "waiting", user |-> worker[r].user]]
    BY <1>2 DEF StartJob, Workers
  <2>3. DOMAIN worker' = Workers /\ \A v \in Workers : WorkerState(worker'[v])
    BY <1>a, <2>1, <2>2 DEF Types, TypeOK
  <2> QED
    BY <1>2, <2>3, EnterKeepsTypes DEF StartJob, Types, TypeOK
<1>3. ASSUME NEW w \in Workers, Lookup(w) PROVE Types'
  BY <1>3, LookupKeepsTypes
<1>4. ASSUME NEW w \in Workers, Put(w) PROVE Types'
  BY <1>4, PutKeepsTypes
<1>5. ASSUME NEW w \in Workers, OpenFails(w) \/ Finish(w) PROVE Types'
  <2>1. worker' = [worker EXCEPT ![w] = Idle] /\ mu' \in {mu, Nobody}
    BY <1>5 DEF OpenFails, Finish, Enter
  <2>2. DOMAIN worker' = Workers /\ \A v \in Workers : WorkerState(worker'[v])
    BY <1>a, <2>1 DEF Types, TypeOK
  <2> QED
    BY <1>5, <2>1, <2>2, EnterKeepsTypes DEF OpenFails, Finish, Types, TypeOK
<1>6. CASE Tick
  <2>1. /\ DOMAIN cache' = DOMAIN cache
        /\ \A u \in DOMAIN cache' : cache'[u] \in [id : StoreIds, idle : Nat]
    BY <1>6 DEF Tick, Types, TypeOK
  <2>2. DOMAIN worker' = Workers
    BY <1>6 DEF Tick
  <2>3. ASSUME NEW w \in Workers PROVE WorkerState(worker'[w])
    <3>1. WorkerState(worker[w])
      BY DEF Types, TypeOK
    <3>2. CASE worker[w].at # "using"
      BY <1>6, <3>1, <3>2 DEF Tick
    <3>3. CASE worker[w].at = "using"
      <4>1. worker[w] \in [at : {"using"}, user : Users, id : StoreIds, since : Nat]
        BY <3>1, <3>3 DEF WorkerState, Idle
      <4>2. worker'[w] = [worker[w] EXCEPT !.since = @ + 1]
        BY <1>6, <3>3 DEF Tick
      <4>3. worker'[w] \in [at : {"using"}, user : Users, id : StoreIds, since : Nat]
        BY <4>1, <4>2
      <4> QED
        BY <4>3 DEF WorkerState
    <3> QED
      BY <3>2, <3>3
  <2> QED
    BY <1>6, <2>1, <2>2, <2>3 DEF Tick, Types, TypeOK
<1>7. CASE Sweep
  BY <1>7, DropKeepsTypes DEF Sweep, Types, TypeOK
<1>8. CASE CloseAll
  BY <1>8, DropKeepsTypes DEF CloseAll
<1>9. CASE Shutdown \/ Drained \/ UNCHANGED vars
  BY <1>9, EnterKeepsTypes DEF Shutdown, Drained, vars, Types, TypeOK
<1> QED
  BY <1>1, <1>2, <1>3, <1>4, <1>5, <1>6, <1>7, <1>8, <1>9 DEF Next, Answer

\* Every reachable state is type correct; in particular the cache never holds
\* more stores than maxCachedStores allows.
THEOREM TypeCorrect == Spec => []TypeOK
<1>1. Types => TypeOK
  BY DEF Types
<1> QED
  BY <1>1, InitIInv, NextIInv, InitTypes, NextTypes, PTL DEF Spec

-----------------------------------------------------------------------------
\* A request that is done has left, and only a request starts a job: nothing
\* begins any more once the requests are drained.
Stopping ==
  /\ phase \in {"joining", "closed"} => ~ Busy(Requests)
  /\ CleanShutdown

LEMMA InitStopping == Init => Stopping
BY DEF Init, Stopping, CleanShutdown

LEMMA NextStopping == IInv /\ Stopping /\ [Next]_vars => Stopping'
<1> SUFFICES ASSUME IInv, Stopping, [Next]_vars PROVE Stopping'
  OBVIOUS
<1> USE DEF Stopping, CleanShutdown, Busy
<1>1. ASSUME NEW r \in Requests, NEW u \in Users, Arrive(r, u) PROVE Stopping'
  BY <1>1 DEF Arrive
<1>2. ASSUME NEW r \in Requests, NEW j \in Jobs, StartJob(r, j) PROVE Stopping'
  BY <1>2 DEF StartJob, Idle, Workers
<1>3. ASSUME NEW w \in Workers, Answer(w) \/ Finish(w) PROVE Stopping'
  <2>1. worker[w] # Idle /\ phase # "closed" /\ phase' = phase
    BY <1>3 DEF Answer, Lookup, Put, OpenFails, Finish, Idle
  <2>2. \A v \in Workers : worker[v] = Idle => worker'[v] = Idle
    BY <1>3, <2>1 DEF Answer, Lookup, Put, OpenFails, Finish, Enter, IInv
  <2> QED
    BY <2>1, <2>2 DEF Workers
<1>4. CASE Tick
  BY <1>4 DEF Tick, Workers, Idle
<1>5. CASE Sweep
  BY <1>5 DEF Sweep
<1>6. CASE CloseAll
  BY <1>6 DEF CloseAll, IInv, OpenIsCached, Workers
<1>7. CASE Shutdown \/ Drained \/ UNCHANGED vars
  BY <1>7 DEF Shutdown, Drained, vars
<1> QED
  BY <1>1, <1>2, <1>3, <1>4, <1>5, <1>6, <1>7 DEF Next

\* When main has closed the stores in time, no request and no job is left and no
\* database is open, however many of them there were.
THEOREM ShutdownIsClean == Spec => []CleanShutdown
<1>1. Stopping => CleanShutdown
  BY DEF Stopping
<1> QED
  BY <1>1, InitIInv, NextIInv, InitStopping, NextStopping, PTL DEF Spec

-----------------------------------------------------------------------------
\* A cached store has lain idle for no longer than each of its workers has had
\* it, because every lookup touches it, and a new store has a new id.
Touched(w) ==
  LET u == worker[w].user
  IN  worker[w].at = "using" /\ u \in DOMAIN cache /\ cache[u].id = worker[w].id
        => cache[u].idle <= worker[w].since

AllTouched == \A w \in Workers : Touched(w)

LEMMA InitTouched == Init => AllTouched
BY DEF Init, AllTouched, Touched, Idle

LEMMA NextTouched == IInv /\ Types /\ AllTouched /\ [Next]_vars => AllTouched'
<1> SUFFICES ASSUME IInv, Types, AllTouched, [Next]_vars, NEW v \in Workers PROVE Touched(v)'
  BY DEF AllTouched
<1>a. Touched(v) /\ WorkerState(worker[v]) /\ DOMAIN worker = Workers
  BY DEF AllTouched, Types, TypeOK
<1>b. worker[v].at = "using" => worker[v].since \in Nat
  BY <1>a DEF WorkerState, Idle
<1>c. \A u \in DOMAIN cache : cache[u].idle \in Nat
  BY DEF Types, TypeOK
<1>1. ASSUME NEW r \in Requests, NEW u \in Users, Arrive(r, u) PROVE Touched(v)'
  <2>1. CASE v = r
    <3>1. worker'[v].at = "waiting"
      BY <1>1, <1>a, <2>1 DEF Arrive, Enter
    <3> QED
      BY <3>1 DEF Touched
  <2>2. CASE v # r
    BY <1>1, <1>a, <2>2 DEF Arrive, Enter, Touched
  <2> QED
    BY <2>1, <2>2
<1>2. ASSUME NEW r \in Requests, NEW j \in Jobs, StartJob(r, j) PROVE Touched(v)'
  <2>1. CASE v \in {r, j}
    <3>1. worker'[v].at \in {"waiting", "idle"}
      BY <1>2, <1>a, <2>1 DEF StartJob, Idle
    <3> QED
      BY <3>1 DEF Touched
  <2>2. CASE v \notin {r, j}
    BY <1>2, <1>a, <2>2 DEF StartJob, Touched
  <2> QED
    BY <2>1, <2>2
<1>3. ASSUME NEW w \in Workers, Lookup(w) PROVE Touched(v)'
  <2> DEFINE u == worker[w].user
  <2>1. CASE u \in DOMAIN cache
    <3>1. /\ DOMAIN cache' = DOMAIN cache
          /\ cache'[u] = [id |-> cache[u].id, idle |-> 0]
          /\ \A t \in DOMAIN cache : t # u => cache'[t] = cache[t]
      BY <1>3, <2>1 DEF Lookup, With
    <3>2. CASE v = w
      <4>1. worker'[v] = [at |-> "using", user |-> u, id |-> cache[u].id, since |-> 0]
        BY <1>3, <1>a, <2>1, <3>2 DEF Lookup, Enter, Using
      <4> QED
        BY <3>1, <4>1 DEF Touched
    <3>3. CASE v # w
      <4>1. worker'[v] = worker[v]
        BY <1>3, <1>a, <2>1, <3>3 DEF Lookup, Enter
      <4> QED
        BY <1>a, <1>b, <3>1, <4>1 DEF Touched
    <3> QED
      BY <3>2, <3>3
  <2>2. CASE u \notin DOMAIN cache
    <3>1. CASE v = w
      <4>1. worker'[v].at = "opening"
        BY <1>3, <1>a, <2>2, <3>1 DEF Lookup, Enter
      <4> QED
        BY <4>1 DEF Touched
    <3>2. CASE v # w
      BY <1>3, <1>a, <2>2, <3>2 DEF Lookup, Enter, Touched
    <3> QED
      BY <3>1, <3>2
  <2> QED
    BY <2>1, <2>2
<1>4. ASSUME NEW w \in Workers, Put(w) PROVE Touched(v)'
  <2> DEFINE u  == worker[w].user
             id == Fresh(u)
  <2>1. PICK out \in Evicted : cache' = With(Without(cache, out), u, id)
    BY <1>4 DEF Put
  <2>2. u \notin DOMAIN cache
    BY <1>4 DEF Put, IInv, Opener
  <2>3. <<u, id>> \notin Held
    BY <2>2, FreshIsFree
  <2>4. worker' = [worker EXCEPT ![w] = [at |-> "using", user |-> u, id |-> id, since |-> 0]]
    BY <1>4 DEF Put, Enter, Using
  <2> HIDE DEF id
  <2>5. /\ DOMAIN cache' = (DOMAIN cache \ out) \cup {u}
        /\ cache'[u] = [id |-> id, idle |-> 0]
        /\ \A t \in DOMAIN cache \ out : t # u => cache'[t] = cache[t]
    BY <2>1 DEF With, Without
  <2>6. CASE v = w
    <3>1. worker'[v] = [at |-> "using", user |-> u, id |-> id, since |-> 0]
      BY <1>a, <2>4, <2>6
    <3> QED
      BY <2>5, <3>1 DEF Touched
  <2>7. CASE v # w
    <3>1. worker'[v] = worker[v]
      BY <1>a, <2>4, <2>7
    <3>2. worker[v].at = "using" /\ worker[v].user = u => worker[v].id # id
      BY <2>3 DEF Held
    <3> QED
      BY <1>a, <2>5, <3>1, <3>2 DEF Touched
  <2> QED
    BY <2>6, <2>7
<1>5. ASSUME NEW w \in Workers, OpenFails(w) \/ Finish(w) PROVE Touched(v)'
  <2>1. CASE v = w
    <3>1. worker'[v].at = "idle"
      BY <1>5, <1>a, <2>1 DEF OpenFails, Finish, Enter, Idle
    <3> QED
      BY <3>1 DEF Touched
  <2>2. CASE v # w
    BY <1>5, <1>a, <2>2 DEF OpenFails, Finish, Enter, Touched
  <2> QED
    BY <2>1, <2>2
<1>6. CASE Tick
  <2>1. /\ DOMAIN cache' = DOMAIN cache
        /\ \A u \in DOMAIN cache : /\ cache'[u].id = cache[u].id
                                   /\ cache'[u].idle <= cache[u].idle + 1
    BY <1>6, <1>c DEF Tick
  <2>2. CASE worker[v].at = "using"
    <3>1. worker[v] \in [at : {"using"}, user : Users, id : StoreIds, since : Nat]
      BY <1>a, <2>2 DEF WorkerState, Idle
    <3>2. worker'[v] = [worker[v] EXCEPT !.since = @ + 1]
      BY <1>6, <2>2 DEF Tick
    <3>3. /\ worker'[v].user = worker[v].user /\ worker'[v].id = worker[v].id
          /\ worker'[v].since = worker[v].since + 1
      BY <3>1, <3>2
    <3>4. ASSUME NEW u \in DOMAIN cache PROVE cache'[u].idle \in Nat
      BY <1>6, <1>c DEF Tick
    <3> QED
      BY <1>a, <1>b, <1>c, <2>1, <2>2, <3>3, <3>4 DEF Touched
  <2>3. CASE worker[v].at # "using"
    BY <1>6, <2>3 DEF Tick, Touched
  <2> QED
    BY <2>2, <2>3
<1>7. ASSUME NEW out \in SUBSET DOMAIN cache, cache' = Without(cache, out), worker' = worker
      PROVE  Touched(v)'
  <2>1. DOMAIN cache' = DOMAIN cache \ out /\ \A u \in DOMAIN cache' : cache'[u] = cache[u]
    BY <1>7 DEF Without
  <2> QED
    BY <1>a, <1>7, <2>1 DEF Touched
<1>8. CASE Sweep \/ CloseAll
  BY <1>7, <1>8 DEF Sweep, CloseAll
<1>9. CASE Shutdown \/ Drained \/ UNCHANGED vars
  BY <1>a, <1>9 DEF Shutdown, Drained, vars, Touched
<1> QED
  BY <1>1, <1>2, <1>3, <1>4, <1>5, <1>6, <1>8, <1>9 DEF Next, Answer

\* What HeldStoresOpen says of one worker and one step.
MayClose(w) ==
  LET u == worker[w].user
  IN  worker[w].at = "using" /\ <<u, worker[w].id>> \in open \ open'
        => \/ phase' \in {"closed", "cut"}
           \/ worker[w].since > IdleMin
           \/ /\ Cardinality(DOMAIN cache) = MaxStores
              /\ \A v \in DOMAIN cache : cache[v].idle <= cache[u].idle
              /\ \E v \in DOMAIN cache' : v \notin DOMAIN cache

LEMMA StepMayClose ==
  ASSUME IInv, Types, AllTouched, [Next]_vars, NEW w \in Workers
  PROVE  MayClose(w)
<1> DEFINE u == worker[w].user
<1> SUFFICES ASSUME worker[w].at = "using", <<u, worker[w].id>> \in open, <<u, worker[w].id>> \notin open',
                    phase' \notin {"closed", "cut"}
             PROVE  \/ worker[w].since > IdleMin
                    \/ /\ Cardinality(DOMAIN cache) = MaxStores
                       /\ \A v \in DOMAIN cache : cache[v].idle <= cache[u].idle
                       /\ \E v \in DOMAIN cache' : v \notin DOMAIN cache
  BY DEF MayClose
<1>1. u \in DOMAIN cache /\ cache[u].id = worker[w].id
  BY DEF IInv, OpenIsCached, Cached
<1>2. Sweep \/ \E v \in Workers : Put(v)
  BY DEF Next, Answer, Arrive, StartJob, Lookup, OpenFails, Finish, Tick, Shutdown, Drained, CloseAll, vars
<1>3. CASE Sweep
  <2>1. cache[u].idle > IdleMin
    BY <1>1, <1>3 DEF Sweep
  <2>2. cache[u].idle <= worker[w].since
    BY <1>1 DEF AllTouched, Touched
  <2>3. cache[u].idle \in Nat /\ worker[w].since \in Nat
    BY <1>1 DEF Types, TypeOK, WorkerState, Idle
  <2> QED
    BY <2>1, <2>2, <2>3, LimitsAssumption
<1>4. ASSUME NEW p \in Workers, Put(p)
      PROVE  /\ Cardinality(DOMAIN cache) = MaxStores
             /\ \A v \in DOMAIN cache : cache[v].idle <= cache[u].idle
             /\ \E v \in DOMAIN cache' : v \notin DOMAIN cache
  <2> DEFINE n == worker[p].user
  <2>1. PICK out \in Evicted : /\ cache' = With(Without(cache, out), n, Fresh(n))
                               /\ open' = (open \ {<<v, cache[v].id>> : v \in out}) \cup {<<n, Fresh(n)>>}
    BY <1>4 DEF Put
  <2>2. n \notin DOMAIN cache /\ n \in DOMAIN cache'
    BY <1>4, <2>1 DEF Put, IInv, Opener, With
  <2>3. u \in out
    BY <2>1
  <2>4. ~ Cardinality(DOMAIN cache) < MaxStores /\ out = {u}
        /\ \A v \in DOMAIN cache : cache[v].idle <= cache[u].idle
    BY <2>1, <2>3 DEF Evicted
  <2>5. Cardinality(DOMAIN cache) \in Nat /\ Cardinality(DOMAIN cache) <= MaxStores
    BY FS_CardinalityType DEF Types, TypeOK
  <2> QED
    BY <2>2, <2>4, <2>5, LimitsAssumption
<1> QED
  BY <1>2, <1>3, <1>4

\* A store is closed under a worker only by the shutdown, after IdleMin with this
\* worker, or because a full cache chose the longest idle of its stores.
THEOREM StoresStayOpen == Spec => HeldStoresOpen
<1>1. IInv /\ Types /\ AllTouched /\ [Next]_vars
        => [\A w \in Workers : MayClose(w)]_vars
  BY StepMayClose
<1>2. HeldStoresOpen <=> [][\A w \in Workers : MayClose(w)]_vars
  BY DEF HeldStoresOpen, MayClose
<1> QED
  BY <1>1, <1>2, InitIInv, NextIInv, InitTypes, NextTypes, InitTouched, NextTouched, PTL DEF Spec

=============================================================================
