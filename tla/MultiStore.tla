----------------------------- MODULE MultiStore ------------------------------
(***************************************************************************)
(* The cache of per-user databases and everything that takes a store from  *)
(* it: HTTP requests, OCR jobs, the sweeper, and the shutdown of the       *)
(* server.  A worker asks ForUser for a store once and keeps the pointer   *)
(* for the rest of its run; the cache may close the store meanwhile.       *)
(*                                                                         *)
(* Time passes in ticks; only how long a store or a worker has been at it  *)
(* is kept.  Without authentication every request shares one legacy store, *)
(* which the cache never sees: that mode is not modelled.                  *)
(***************************************************************************)
EXTENDS Integers, FiniteSets

CONSTANTS
  Users,
  Requests, Jobs,   \* slots of concurrent requests and OCR jobs
  Nobody,           \* m.mu is free
  MaxStores,        \* capacity of the cache
  IdleMin,          \* ticks a store may lie idle
  Longest           \* ticks a worker may keep its store

Workers  == Requests \cup Jobs
StoreIds == 1 .. Cardinality(Workers) + 1

ASSUME WorkersAssumption == IsFiniteSet(Workers) /\ Nobody \notin Workers
ASSUME LimitsAssumption  == /\ MaxStores \in Nat \ {0}
                            /\ IdleMin \in Nat
                            /\ Longest \in [Workers -> Nat]

VARIABLES
  cache,    \* userStoreCache.stores: store and idle time of the cached users
  open,     \* the stores that are open, as pairs of user and id
  worker,   \* what each worker does
  mu,       \* the worker that holds MultiStore.mu
  phase     \* "serving", then the steps of the shutdown in main; it ends "closed",
            \* or "cut" if requests have outlasted the 15 s it gives them

vars == <<cache, open, worker, mu, phase>>

-----------------------------------------------------------------------------
Idle == [at |-> "idle"]

Busy(W)        == \E w \in W : worker[w] # Idle
Cached         == {<<u, cache[u].id>> : u \in DOMAIN cache}
Held           == {<<worker[w].user, worker[w].id>> : w \in {v \in Workers : worker[v].at = "using"}}
Without(c, U)  == [u \in DOMAIN c \ U |-> c[u]]
With(c, u, id) == [v \in DOMAIN c \cup {u} |-> IF v = u THEN [id |-> id, idle |-> 0] ELSE c[v]]
Enter(w, to)   == worker' = [worker EXCEPT ![w] = to]

Using(u, id) == [at |-> "using", user |-> u, id |-> id, since |-> 0]

\* A *Store no pointer refers to any more.
Fresh(u) == CHOOSE n \in StoreIds : <<u, n>> \notin open \cup Held

Init ==
  /\ cache = [u \in {} |-> [id |-> 1, idle |-> 0]]
  /\ open = {}
  /\ worker = [w \in Workers |-> Idle]
  /\ mu = Nobody
  /\ phase = "serving"

-----------------------------------------------------------------------------
\* authMiddleware: a request of user u calls ForUser.
Arrive(r, u) ==
  /\ worker[r] = Idle
  /\ phase = "serving"
  /\ Enter(r, [at |-> "waiting", user |-> u])
  /\ UNCHANGED <<cache, open, mu, phase>>

\* ForUser: a cached store is touched and returned; otherwise the lock is kept
\* while the database is opened and migrated.
Lookup(w) ==
  LET u == worker[w].user
  IN  /\ worker[w].at = "waiting"
      /\ mu = Nobody
      /\ IF u \in DOMAIN cache
         THEN /\ cache' = With(cache, u, cache[u].id)
              /\ Enter(w, Using(u, cache[u].id))
              /\ UNCHANGED mu
         ELSE /\ mu' = w
              /\ Enter(w, [at |-> "opening", user |-> u])
              /\ UNCHANGED cache
      /\ UNCHANGED <<open, phase>>

\* Mutant: the cache grows one store too far.
EvictedLate ==
  IF Cardinality(DOMAIN cache) <= MaxStores THEN {{}}
  ELSE {{u} : u \in {v \in DOMAIN cache : \A t \in DOMAIN cache : cache[t].idle <= cache[v].idle}}

\* The users evictIfNeeded may choose: one of the longest idle, when full.
Evicted ==
  IF Cardinality(DOMAIN cache) < MaxStores THEN {{}}
  ELSE {{u} : u \in {v \in DOMAIN cache : \A t \in DOMAIN cache : cache[t].idle <= cache[v].idle}}

\* Mutant: an evicted store is dropped from the cache and stays open.
PutWithoutClose(w) ==
  LET u  == worker[w].user
      id == Fresh(u)
  IN  /\ worker[w].at = "opening"
      /\ \E out \in Evicted :
           /\ cache' = With(Without(cache, out), u, id)
           /\ open' = open \cup {<<u, id>>}
      /\ Enter(w, Using(u, id))
      /\ mu' = Nobody
      /\ UNCHANGED phase

\* The database is open: put evicts, closes, and stores the new one.
Put(w) ==
  LET u  == worker[w].user
      id == Fresh(u)
  IN  /\ worker[w].at = "opening"
      /\ \E out \in Evicted :
           /\ cache' = With(Without(cache, out), u, id)
           /\ open' = (open \ {<<v, cache[v].id>> : v \in out}) \cup {<<u, id>>}
      /\ Enter(w, Using(u, id))
      /\ mu' = Nobody
      /\ UNCHANGED phase

\* Mutant: an error return leaves the lock taken.
OpenFailsLocked(w) ==
  /\ worker[w].at = "opening"
  /\ Enter(w, Idle)
  /\ UNCHANGED <<cache, open, mu, phase>>

\* Open or Migrate fails (and closes what it opened): no store.
OpenFails(w) ==
  /\ worker[w].at = "opening"
  /\ Enter(w, Idle)
  /\ mu' = Nobody
  /\ UNCHANGED <<cache, open, phase>>

Finish(w) ==
  /\ worker[w].at = "using"
  /\ Enter(w, Idle)
  /\ UNCHANGED <<cache, open, mu, phase>>

\* ocrStartSession ends and leaves a job, which asks for the store again.
StartJob(r, j) ==
  /\ worker[r].at = "using"
  /\ worker[j] = Idle
  /\ worker' = [worker EXCEPT ![r] = Idle, ![j] = [at |-> "waiting", user |-> worker[r].user]]
  /\ UNCHANGED <<cache, open, mu, phase>>

-----------------------------------------------------------------------------
\* Time passes, as far as the workers' longest runs allow.
Tick ==
  /\ \A w \in Workers : worker[w].at = "using" => worker[w].since < Longest[w]
  /\ cache' = [u \in DOMAIN cache |->
       [id |-> cache[u].id, idle |-> IF cache[u].idle > IdleMin THEN cache[u].idle ELSE cache[u].idle + 1]]
  /\ worker' = [w \in Workers |->
       IF worker[w].at = "using" THEN [worker[w] EXCEPT !.since = @ + 1] ELSE worker[w]]
  /\ UNCHANGED <<open, mu, phase>>

\* Mutant: a store is swept as soon as it has been idle for the limit.
SweepEarly ==
  LET out == {u \in DOMAIN cache : cache[u].idle >= IdleMin}
  IN  /\ phase \notin {"closed", "cut"}
      /\ out # {}
      /\ cache' = Without(cache, out)
      /\ open' = open \ {<<u, cache[u].id>> : u \in out}
      /\ UNCHANGED <<worker, mu, phase>>

\* sweepIdle, which does not take MultiStore.mu.
Sweep ==
  LET out == {u \in DOMAIN cache : cache[u].idle > IdleMin}
  IN  /\ phase \notin {"closed", "cut"}
      /\ out # {}
      /\ cache' = Without(cache, out)
      /\ open' = open \ {<<u, cache[u].id>> : u \in out}
      /\ UNCHANGED <<worker, mu, phase>>

-----------------------------------------------------------------------------
\* main, on SIGTERM: server.Shutdown accepts no request any more ...
Shutdown ==
  /\ phase = "serving"
  /\ phase' = "draining"
  /\ UNCHANGED <<cache, open, worker, mu>>

\* ... and returns when the requests are done, or after 15 s.
Drained ==
  /\ phase = "draining"
  /\ phase' = IF Busy(Requests) THEN "overdue" ELSE "joining"
  /\ UNCHANGED <<cache, open, worker, mu>>

\* Mutant: main does not wait for the OCR jobs.
CloseAtOnce ==
  /\ phase \in {"joining", "overdue"}
  /\ phase' = IF phase = "joining" THEN "closed" ELSE "cut"
  /\ open' = open \ Cached
  /\ cache' = Without(cache, DOMAIN cache)
  /\ UNCHANGED <<worker, mu>>

\* WaitForOCR, then MultiStore.Close, which does not take MultiStore.mu either.
CloseAll ==
  /\ phase \in {"joining", "overdue"}
  /\ ~ Busy(Jobs)
  /\ phase' = IF phase = "joining" THEN "closed" ELSE "cut"
  /\ open' = open \ Cached
  /\ cache' = Without(cache, DOMAIN cache)
  /\ UNCHANGED <<worker, mu>>

Answer(w) == Lookup(w) \/ Put(w) \/ OpenFails(w)

Next ==
  \/ \E r \in Requests, u \in Users : Arrive(r, u)
  \/ \E r \in Requests, j \in Jobs : StartJob(r, j)
  \/ \E w \in Workers : Answer(w) \/ Finish(w)
  \/ Tick
  \/ Sweep
  \/ Shutdown \/ Drained \/ CloseAll

Spec == Init /\ [][Next]_vars

\* sync.Mutex hands itself over to a goroutine that has waited for a while, so
\* a waiter gets its turn (strong fairness); opening a database ends.
FairSpec == Spec /\ \A w \in Workers : SF_vars(Lookup(w)) /\ WF_vars(Put(w) \/ OpenFails(w))

-----------------------------------------------------------------------------
WorkerState(x) ==
  \/ x = Idle
  \/ x \in [at : {"waiting", "opening"}, user : Users]
  \/ x \in [at : {"using"}, user : Users, id : StoreIds, since : Nat]

\* Types.  The cache never holds more stores than it may.
TypeOK ==
  /\ DOMAIN cache \subseteq Users
  /\ \A u \in DOMAIN cache : cache[u] \in [id : StoreIds, idle : Nat]
  /\ Cardinality(DOMAIN cache) <= MaxStores
  /\ open \subseteq Users \X StoreIds
  /\ DOMAIN worker = Workers /\ \A w \in Workers : WorkerState(worker[w])
  /\ mu \in Workers \cup {Nobody}
  /\ phase \in {"serving", "draining", "joining", "overdue", "closed", "cut"}

\* However many requests of a user arrive at once, its database is opened once:
\* no user has two stores, whose pools would not know of each other.
OneStorePerUser ==
  \A s, t \in open : s[1] = t[1] => s = t

\* What is open is what the cache can close again: eviction, sweep, overwriting
\* and Close leak no store and leave no closed one behind.
OpenIsCached == open = Cached

\* A store is closed under a worker for three reasons only: the cache was full and
\* this store idle the longest, the worker has had it for longer than IdleMin, or
\* the server stops.
HeldStoresOpen ==
  [][\A w \in Workers :
       LET u == worker[w].user
       IN  worker[w].at = "using" /\ <<u, worker[w].id>> \in open \ open'
             => \/ phase' \in {"closed", "cut"}
                \/ worker[w].since > IdleMin
                \/ /\ Cardinality(DOMAIN cache) = MaxStores
                   /\ \A v \in DOMAIN cache : cache[v].idle <= cache[u].idle
                   /\ \E v \in DOMAIN cache' : v \notin DOMAIN cache]_vars

\* When the stores have been closed, no request and no job runs on and nothing is
\* open, unless a request outlasted the time Shutdown gives it.
CleanShutdown ==
  phase = "closed" => ~ Busy(Workers) /\ open = {}

\* A job still can record its result: "the system SHALL mark the import session
\* as failed" (spec paper-entry-ocr-import).
JobsKeepTheirStore ==
  \A j \in Jobs : worker[j].at = "using" => <<worker[j].user, worker[j].id>> \in open

\* Nobody waits for a store for ever, whatever databases fail to open.
EveryWaiterAnswered ==
  \A w \in Workers : worker[w].at = "waiting" ~> worker[w].at \in {"using", "idle"}

=============================================================================
