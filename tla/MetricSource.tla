---------------------------- MODULE MetricSource ----------------------------
(***************************************************************************)
(* The worker threads of an svgd process (src/src/main.c, lsrp_handler;    *)
(* one worker is HTTP mode) answering metric requests: handler_process     *)
(* calls metric_source_fetch (src/src/metric_source.c, SRC_RRD branch),    *)
(* which goes through the shared cache of module RrdCache and reads the    *)
(* RRD file (src/src/rrd/reader.c) on a miss.  Nothing is locked between   *)
(* two calls of the cache, so workers interleave there and the clock runs. *)
(***************************************************************************)
EXTENDS RrdCache

CONSTANTS
    Workers,     \* threads of the pool
    Metrics,     \* SRC_RRD entries of config->metrics
    MetricPath,  \* the file each metric reads (template and parameter)
    MetricSum,   \* transform_type = "sum"
    MaxOom       \* bound on failed allocations in the life of a process

ASSUME SourceAssumption ==
    /\ MetricPath \in [Metrics -> Paths]
    /\ MetricSum \in [Metrics -> BOOLEAN]
    /\ MaxOom \in Nat

VARIABLES
    up,       \* the server runs
    pc,       \* where each worker is in metric_source_fetch / handler_process
    req,      \* the request it serves
    data,     \* its local `data' or `fresh_data'
    oom,      \* failed allocations so far
    fetched,  \* history: this request has read the file successfully
    starved,  \* history: an allocation failed during this request
    leaked    \* history: objects rrd_cache_put dropped

localVars == <<up, pc, req, data, oom, fetched, starved, leaked>>
vars == <<clock, cacheVars, localVars>>

Requests == [metric : Metrics, period : Periods, use_cache : BOOLEAN]
NoReq == [metric |-> "none"]
Points == {"idle", "get", "read", "put", "reget", "render", "fail"}

TypeOK ==
    /\ CacheTypeOK
    /\ up \in BOOLEAN
    /\ pc \in [Workers -> Points]
    /\ req \in [Workers -> Requests \cup {NoReq}]
    /\ \A w \in Workers : pc[w] # "idle" => req[w] \in Requests
    /\ data \in [Workers -> Objs \cup {NULL}]
    /\ oom \in 0..MaxOom
    /\ fetched \in [Workers -> BOOLEAN]
    /\ starved \in [Workers -> BOOLEAN]
    /\ leaked \in SUBSET Objs

Init ==
    /\ clock = 0
    /\ slots = [s \in Slots |-> <<>>]
    /\ ttl = DefaultTtl
    /\ initialized = FALSE
    /\ heap = [o \in Objs |-> Free]
    /\ up = FALSE
    /\ pc = [w \in Workers |-> "idle"]
    /\ req = [w \in Workers |-> NoReq]
    /\ data = [w \in Workers |-> NULL]
    /\ oom = 0
    /\ fetched = [w \in Workers |-> FALSE]
    /\ starved = [w \in Workers |-> FALSE]
    /\ leaked = {}

KeyOf(w) == build_cache_key(MetricPath[req[w].metric], req[w].period)

Goto(w, point) == pc' = [pc EXCEPT ![w] = point]
Take(w, obj)   == data' = [data EXCEPT ![w] = obj]

\* The response is on its way and the worker forgets the request.
Answer(w) ==
    /\ Goto(w, "idle")
    /\ req' = [req EXCEPT ![w] = NoReq]
    /\ fetched' = [fetched EXCEPT ![w] = FALSE]
    /\ starved' = [starved EXCEPT ![w] = FALSE]

\* An allocation on behalf of worker w fails.
AllocationFails(w) ==
    /\ oom < MaxOom
    /\ oom' = oom + 1
    /\ starved' = [starved EXCEPT ![w] = TRUE]

----------------------------------------------------------------------------
\* main: a fresh process loads the configuration and initialises the cache.
Start(ttl_seconds) ==
    /\ ~up
    /\ up' = TRUE
    /\ rrd_cache_init(ttl_seconds)
    /\ heap' = [o \in Objs |-> Free]
    /\ oom' = 0
    /\ leaked' = {}
    /\ UNCHANGED <<clock, slots, pc, req, data, fetched, starved>>

\* main: the server loop has returned, its workers are gone; clean up.
Stop ==
    /\ up
    /\ \A w \in Workers : pc[w] = "idle"
    /\ up' = FALSE
    /\ rrd_cache_free
    /\ UNCHANGED <<clock, ttl, pc, req, data, oom, fetched, starved, leaked>>

\* handler_process accepts a request for a configured metric and enters
\* metric_source_fetch; only grafana_query asks without the cache.
Request(w, r) ==
    /\ up
    /\ pc[w] = "idle"
    /\ req' = [req EXCEPT ![w] = r]
    /\ Goto(w, IF r.use_cache THEN "get" ELSE "read")
    /\ UNCHANGED <<clock, cacheVars, up, data, oom, fetched, starved, leaked>>

\* Mutant: the entry's own data is returned instead of a clone.
CacheHitNoClone(w) ==
    /\ pc[w] \in {"get", "reget"}
    /\ initialized
    /\ Hit(KeyOf(w))
    /\ LET chain == slots[cache_hash(KeyOf(w))]
       IN  Take(w, chain[Find(chain, KeyOf(w))].data)
    /\ Goto(w, "render")
    /\ UNCHANGED <<clock, cacheVars, up, req, oom, fetched, starved, leaked>>

\* rrd_cache_get finds an unexpired entry and returns a clone of its data.
CacheHit(w) ==
    /\ pc[w] \in {"get", "reget"}
    /\ initialized
    /\ Hit(KeyOf(w))
    /\ \E o \in FreeObjs : clone_metric_data(o, KeyOf(w)) /\ Take(w, o)
    /\ Goto(w, "render")
    /\ UNCHANGED <<clock, slots, ttl, initialized, up, req, oom, fetched, starved, leaked>>

\* Where metric_source_fetch continues after a NULL.
AfterNull(w) == IF pc[w] = "get" THEN "read" ELSE "fail"

\* rrd_cache_get finds nothing, or only an expired entry: NULL.  The first
\* call then reads the file, the call after the put gives up.
CacheMiss(w) ==
    /\ pc[w] \in {"get", "reget"}
    /\ ~initialized \/ ~Hit(KeyOf(w))
    /\ Goto(w, AfterNull(w))
    /\ UNCHANGED <<clock, cacheVars, up, req, data, oom, fetched, starved, leaked>>

\* rrd_cache_get finds an unexpired entry but cannot clone it: NULL as well.
CloneFails(w) ==
    /\ pc[w] \in {"get", "reget"}
    /\ initialized
    /\ Hit(KeyOf(w))
    /\ AllocationFails(w)
    /\ Goto(w, AfterNull(w))
    /\ UNCHANGED <<clock, cacheVars, up, req, data, fetched, leaked>>

\* rrd_fetch_data returns a new MetricData with the points up to now.
ReadFile(w) ==
    /\ pc[w] = "read"
    /\ \E o \in FreeObjs :
           /\ heap' = [heap EXCEPT ![o] =
                  [state |-> "live", path |-> MetricPath[req[w].metric],
                   period |-> req[w].period, sum |-> MetricSum[req[w].metric],
                   at |-> clock]]
           /\ Take(w, o)
    /\ fetched' = [fetched EXCEPT ![w] = TRUE]
    /\ Goto(w, IF req[w].use_cache THEN "put" ELSE "render")
    /\ UNCHANGED <<clock, slots, ttl, initialized, up, req, oom, starved, leaked>>

\* rrd_fetch_data returns NULL: no file, no points, no memory.
ReadFails(w) ==
    /\ pc[w] = "read"
    /\ Goto(w, "fail")
    /\ UNCHANGED <<clock, cacheVars, up, req, data, oom, fetched, starved, leaked>>

\* rrd_cache_put takes over the data.
CachePut(w) ==
    /\ pc[w] = "put"
    /\ initialized
    /\ PutReplace(KeyOf(w), data[w]) \/ PutAppend(KeyOf(w), data[w])
    /\ Take(w, NULL)
    /\ Goto(w, "reget")
    /\ UNCHANGED <<clock, ttl, initialized, up, req, oom, fetched, starved, leaked>>

\* rrd_cache_put cannot allocate an entry; the data is lost for good.
CachePutFails(w) ==
    /\ pc[w] = "put"
    /\ initialized
    /\ PutOutOfMemory(KeyOf(w))
    /\ AllocationFails(w)
    /\ leaked' = leaked \cup {data[w]}
    /\ Take(w, NULL)
    /\ Goto(w, "reget")
    /\ UNCHANGED <<clock, ttl, initialized, up, req, fetched>>

\* handler_process renders the data (or fails to) and frees it.
Render(w) ==
    /\ pc[w] = "render"
    /\ heap' = [heap EXCEPT ![data[w]] = Free]
    /\ Take(w, NULL)
    /\ Answer(w)
    /\ UNCHANGED <<clock, slots, ttl, initialized, up, oom, leaked>>

\* handler_process answers "Failed to fetch metric data".
Fail(w) ==
    /\ pc[w] = "fail"
    /\ Answer(w)
    /\ UNCHANGED <<clock, cacheVars, up, data, oom, leaked>>

Step(w) ==
    \/ CacheHit(w) \/ CacheMiss(w) \/ CloneFails(w)
    \/ ReadFile(w) \/ ReadFails(w)
    \/ CachePut(w) \/ CachePutFails(w)
    \/ Render(w) \/ Fail(w)

Second == Tick /\ UNCHANGED <<cacheVars, localVars>>

Next ==
    \/ \E t \in TtlSettings : Start(t)
    \/ Stop
    \/ Second
    \/ \E w \in Workers : Step(w) \/ \E r \in Requests : Request(w, r)

Spec == Init /\ [][Next]_vars

----------------------------------------------------------------------------
\* The live objects have one owner each: no cell is the data of two entries,
\* of an entry and a worker, or of two workers, and what somebody owns is
\* not freed.  This is what returning clones from rrd_cache_get and handing
\* fresh_data over to rrd_cache_put is for: a worker frees its data after
\* rendering while others still read the cached original.
EntriesApart ==
    \A s, t \in Slots : \A i \in DOMAIN slots[s] : \A j \in DOMAIN slots[t] :
        slots[s][i].data = slots[t][j].data => s = t /\ i = j
EntriesLive ==
    \A s \in Slots : \A i \in DOMAIN slots[s] :
        /\ heap[slots[s][i].data] # Free
        /\ \A w \in Workers : data[w] # slots[s][i].data
WorkersLive ==
    \A w \in Workers : data[w] # NULL =>
        /\ heap[data[w]] # Free
        /\ \A v \in Workers : data[v] = data[w] => v = w
OwnedOnce == EntriesApart /\ EntriesLive /\ WorkersLive

\* The control state behind it: a worker has an object in hand exactly
\* between getting one and giving it to the cache or freeing it, and a
\* stopped process has an empty cache and no request.
ControlInv ==
    /\ initialized = up
    /\ \A w \in Workers : data[w] # NULL <=> pc[w] \in {"put", "render"}
    /\ ~up => /\ \A s \in Slots : slots[s] = <<>>
              /\ \A w \in Workers : pc[w] = "idle"

CacheInv == TypeOK /\ ChainsWellFormed /\ OwnedOnce /\ ControlInv

\* A live object that nobody owns was dropped by rrd_cache_put running out of
\* memory for the entry: no other path through metric_source_fetch,
\* handler_process or rrd_cache_free leaks one.
OnlyFailedPutsLeak ==
    \A o \in Objs : heap[o] # Free =>
        \/ o \in leaked
        \/ \E w \in Workers : data[w] = o
        \/ \E s \in Slots : \E i \in DOMAIN slots[s] : slots[s][i].data = o

\* What a worker is about to render was read from the file of its metric,
\* unless the key lost its period for the period it was asked for, and with
\* its metric's transform unless another metric reads the same file: the key
\* says nothing of the transform, so metrics on one file share their entries.
AnswersTheQuestion ==
    \A w \in Workers : pc[w] = "render" =>
        LET m == req[w].metric
            d == heap[data[w]]
        IN  /\ d.path = MetricPath[m]
            /\ MetricPath[m] \notin LongPaths => d.period = req[w].period
            /\ \E n \in Metrics : MetricPath[n] = MetricPath[m] /\ MetricSum[n] = d.sum

\* Entries never disappear while the server runs: after its put a worker
\* finds the key again, whatever the others do, unless the entry could not be
\* allocated.  So the second rrd_cache_get returns NULL only for want of
\* memory or because the time to live has run out in between.
PutIsFound ==
    \A w \in Workers : pc[w] = "reget" /\ ~starved[w] =>
        Find(slots[cache_hash(KeyOf(w))], KeyOf(w)) # 0

\* An entry is never younger than its data and expires at most ttl seconds
\* from now, so no answer out of the cache is kept alive for longer than ttl
\* after the put that stored it (a get does not extend it).
TtlBoundsEntries ==
    \A s \in Slots : \A i \in DOMAIN slots[s] :
        LET e == slots[s][i]
        IN  /\ heap[e.data].at + ttl <= e.expires_at
            /\ e.expires_at <= clock + ttl

\* Within its time to live an entry is not read again by a request that
\* starts then: a worker that goes to the file found no valid entry at its
\* rrd_cache_get, could not clone it, or does not use the cache.
\* (src/src/main.c:146: "repeated requests within cache_ttl_seconds are
\* served from the RRD cache".)
RepeatsAreServedFromCache ==
    [][\A w \in Workers :
          pc[w] = "get" /\ pc'[w] = "read" =>
              \/ starved'[w]
              \/ ~\E s \in Slots : \E i \in DOMAIN slots[s] :
                      /\ slots[s][i].key = KeyOf(w)
                      /\ slots[s][i].expires_at > clock]_vars

\* metric_source.c:53-54 names one reason for the second rrd_cache_get to
\* return nothing after a successful read: the clone ran out of memory.
OnlyOomLosesFreshData ==
    \A w \in Workers : pc[w] = "fail" /\ fetched[w] => starved[w]

----------------------------------------------------------------------------
\* The cache seen through TtlMap: an entry by its key and by the content of
\* the object it owns, a worker by the key it asked for and by the content of
\* the copy it was given.  Requests that bypass the cache are invisible.
UsesCache(w) == pc[w] # "idle" /\ req[w].use_cache
StoreView ==
    [k \in Keys |->
        LET chain == slots[cache_hash(k)]
            i     == Find(chain, k)
        IN  IF i = 0 THEN NULL
            ELSE [value |-> heap[chain[i].data], expires |-> chain[i].expires_at]]
AskedView == [w \in Workers |-> IF UsesCache(w) THEN KeyOf(w) ELSE NULL]
ServedView ==
    [w \in Workers |->
        IF UsesCache(w) /\ pc[w] = "render" THEN heap[data[w]] ELSE NULL]

ASSUME ViewAssumption == NULL \notin [value : Data, expires : Nat]

Abstract == INSTANCE TtlMap WITH
    Values <- Data, Callers <- Workers, Absent <- NULL,
    now <- clock, life <- ttl,
    store <- StoreView, asked <- AskedView, served <- ServedView

\* The chained hash table under concurrent workers implements the map with a
\* time to live: every step of a worker is one step of the map or invisible.
\* In particular the content of an entry changes only by a put of its key,
\* and a copy is the value some put stored under the caller's key.
ImplementsTtlMap == Abstract!Spec
=============================================================================
