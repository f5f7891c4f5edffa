------------------------- MODULE MetricSourceProofs -------------------------
(***************************************************************************)
(* Proofs about MetricSource, for any number of workers, metrics, slots,   *)
(* objects, any hash function and any bound on the clock.                  *)
(***************************************************************************)
EXTENDS MetricSource, TLAPS

UniqueKeys(chain) ==
    \A i, j \in DOMAIN chain : chain[i].key = chain[j].key => i = j

\* The walk along a chain without duplicate keys: it stops at the entry with
\* the key if there is one, and at the end otherwise.
LEMMA FindLemma ==
    ASSUME NEW chain \in Seq(Entry), NEW key, UniqueKeys(chain)
    PROVE  /\ Find(chain, key) = 0 =>
                  \A i \in DOMAIN chain : chain[i].key # key
           /\ Find(chain, key) # 0 =>
                  /\ Find(chain, key) \in DOMAIN chain
                  /\ chain[Find(chain, key)].key = key
<1>1. CASE Holds(chain, key) = {}
  BY <1>1 DEF Holds, Find
<1>2. CASE Holds(chain, key) # {}
  <2>1. PICK i \in Holds(chain, key) : TRUE
    BY <1>2
  <2>2. \A j \in Holds(chain, key) : j = i
    BY <2>1 DEF Holds, UniqueKeys
  <2>3. i \in Nat \ {0}
    BY <2>1 DEF Holds
  <2>4. Find(chain, key) \in Holds(chain, key)
    <3>1. \A j \in Holds(chain, key) : i <= j
      BY <2>2, <2>3
    <3>2. \E k \in Holds(chain, key) : \A j \in Holds(chain, key) : k <= j
      BY <2>1, <3>1
    <3>. QED
      BY <1>2, <3>2, Zenon DEF Find
  <2>5. Find(chain, key) = i
    BY <2>2, <2>4
  <2>. QED
    BY <2>1, <2>3, <2>5 DEF Holds
<1>. QED
  BY <1>1, <1>2

\* An element of a chain is an entry.
LEMMA EntryLemma ==
    ASSUME NEW chain \in Seq(Entry), NEW i \in DOMAIN chain
    PROVE  chain[i] \in Entry /\ chain[i].data \in Objs /\ chain[i].key \in Keys
<1>1. chain[i] \in Entry
  OBVIOUS
<1>. QED
  BY <1>1 DEF Entry

\* The key of a request names a slot.
LEMMA KeyLemma ==
    ASSUME TypeOK, NEW w \in Workers, pc[w] # "idle"
    PROVE  KeyOf(w) \in Keys /\ cache_hash(KeyOf(w)) \in Slots
<1>1. req[w] \in Requests
  BY DEF TypeOK
<1>2. MetricPath[req[w].metric] \in Paths /\ req[w].period \in Periods
  BY <1>1, SourceAssumption DEF Requests
<1>. QED
  BY <1>2, CacheAssumption DEF KeyOf, build_cache_key, Keys, cache_hash

\* What rrd_cache_get returns on a hit is the content of a live object.
LEMMA HitLemma ==
    ASSUME CacheInv, NEW w \in Workers, pc[w] # "idle", Hit(KeyOf(w))
    PROVE  LET chain == slots[cache_hash(KeyOf(w))]
           IN  heap[chain[Find(chain, KeyOf(w))].data] \in Data
<1>. DEFINE s == cache_hash(KeyOf(w))
            chain == slots[s]
            i == Find(chain, KeyOf(w))
<1>1. s \in Slots
  BY KeyLemma DEF CacheInv
<1>2. chain \in Seq(Entry) /\ UniqueKeys(chain)
  BY <1>1 DEF CacheInv, TypeOK, CacheTypeOK, ChainsWellFormed, UniqueKeys
<1>3. i \in DOMAIN chain
  BY <1>2, FindLemma DEF Hit
<1>4. chain[i].data \in Objs /\ heap[chain[i].data] # Free
  BY <1>1, <1>2, <1>3, EntryLemma DEF CacheInv, OwnedOnce, EntriesLive
<1>. QED
  BY <1>4 DEF CacheInv, TypeOK, CacheTypeOK

\* A new process starts with an empty heap and an empty cache.
LEMMA StartStep ==
    ASSUME CacheInv, NEW t \in TtlSettings, Start(t)
    PROVE  CacheInv'
<1>. USE DEF CacheInv
<1>1. TypeOK'
  BY CacheAssumption, SourceAssumption
  DEF TypeOK, CacheTypeOK, ControlInv, Start, rrd_cache_init, Points, Requests, NoReq, Data
<1>2. ChainsWellFormed'
  BY DEF ChainsWellFormed, Start, rrd_cache_init
<1>3. EntriesApart'
  BY NullAssumption DEF OwnedOnce, EntriesApart, TypeOK, CacheTypeOK, Entry, ControlInv, Start, rrd_cache_init, Free
<1>4. EntriesLive'
  BY NullAssumption DEF OwnedOnce, EntriesLive, TypeOK, CacheTypeOK, Entry, ControlInv, Start, rrd_cache_init, Free
<1>5. WorkersLive'
  BY NullAssumption DEF OwnedOnce, WorkersLive, TypeOK, CacheTypeOK, Entry, ControlInv, Start, rrd_cache_init, Free
<1>6. ControlInv'
  BY NullAssumption DEF ControlInv, TypeOK, CacheTypeOK, Start, rrd_cache_init
<1>. QED
  BY <1>1, <1>2, <1>3, <1>4, <1>5, <1>6 DEF OwnedOnce

\* rrd_cache_free runs when no worker holds an object; it empties every chain.
LEMMA StopStep ==
    ASSUME CacheInv, Stop
    PROVE  CacheInv'
<1>. USE DEF CacheInv
<1>1. TypeOK'
  <2>1. slots' \in [Slots -> Seq(Entry)]
    BY DEF Stop, rrd_cache_free
  <2>2. heap' \in [Objs -> Data \cup {Free}]
    BY DEF TypeOK, CacheTypeOK, Stop, rrd_cache_free
  <2>. QED
    BY <2>1, <2>2 DEF TypeOK, CacheTypeOK, Stop, rrd_cache_free
<1>2. ChainsWellFormed'
  BY DEF ChainsWellFormed, Stop, rrd_cache_free
<1>3. EntriesApart'
  BY NullAssumption DEF OwnedOnce, EntriesApart, TypeOK, CacheTypeOK, Entry, ControlInv, Stop, rrd_cache_free, Free
<1>4. EntriesLive'
  BY NullAssumption DEF OwnedOnce, EntriesLive, TypeOK, CacheTypeOK, Entry, ControlInv, Stop, rrd_cache_free, Free
<1>5. WorkersLive'
  BY NullAssumption DEF OwnedOnce, WorkersLive, TypeOK, CacheTypeOK, Entry, ControlInv, Stop, rrd_cache_free, Free
<1>6. ControlInv'
  BY NullAssumption DEF ControlInv, TypeOK, CacheTypeOK, Stop, rrd_cache_free
<1>. QED
  BY <1>1, <1>2, <1>3, <1>4, <1>5, <1>6 DEF OwnedOnce

\* Taking a request touches neither the cache nor the heap.
LEMMA RequestStep ==
    ASSUME CacheInv, NEW w \in Workers, NEW r \in Requests, Request(w, r)
    PROVE  CacheInv'
<1>. USE DEF CacheInv
<1>1. TypeOK'
  BY CacheAssumption, SourceAssumption
  DEF TypeOK, CacheTypeOK, ControlInv, Request, Goto, cacheVars, Points, Requests, NoReq, Data
<1>2. ChainsWellFormed'
  BY DEF ChainsWellFormed, Request, Goto, cacheVars
<1>3. EntriesApart'
  BY NullAssumption DEF OwnedOnce, EntriesApart, TypeOK, CacheTypeOK, Entry, ControlInv, Request, Goto, cacheVars, Free
<1>4. EntriesLive'
  BY NullAssumption DEF OwnedOnce, EntriesLive, TypeOK, CacheTypeOK, Entry, ControlInv, Request, Goto, cacheVars, Free
<1>5. WorkersLive'
  BY NullAssumption DEF OwnedOnce, WorkersLive, TypeOK, CacheTypeOK, Entry, ControlInv, Request, Goto, cacheVars, Free
<1>6. ControlInv'
  BY NullAssumption DEF ControlInv, TypeOK, CacheTypeOK, Request, Goto, cacheVars
<1>. QED
  BY <1>1, <1>2, <1>3, <1>4, <1>5, <1>6 DEF OwnedOnce

\* The clone is a fresh object, so the entry and the worker own different ones.
LEMMA CacheHitStep ==
    ASSUME CacheInv, NEW w \in Workers, CacheHit(w)
    PROVE  CacheInv'
<1>. USE DEF CacheInv
<1>1. TypeOK'
  <2>1. PICK o \in FreeObjs : clone_metric_data(o, KeyOf(w)) /\ Take(w, o)
    BY DEF CacheHit
  <2>2. o \in Objs
    BY <2>1 DEF FreeObjs
  <2>3. heap' \in [Objs -> Data \cup {Free}]
    BY <2>1, HitLemma DEF CacheHit, clone_metric_data, TypeOK, CacheTypeOK
  <2>. QED
    BY <2>1, <2>2, <2>3 DEF TypeOK, CacheTypeOK, CacheHit, Goto, Take, Points
<1>2. ChainsWellFormed'
  BY DEF ChainsWellFormed, CacheHit, FreeObjs, clone_metric_data, Take
<1>3. EntriesApart'
  BY NullAssumption DEF OwnedOnce, EntriesApart, TypeOK, CacheTypeOK, Entry, ControlInv, CacheHit, FreeObjs, clone_metric_data, Take, Free
<1>4. EntriesLive'
  BY NullAssumption DEF OwnedOnce, EntriesLive, TypeOK, CacheTypeOK, Entry, ControlInv, CacheHit, FreeObjs, clone_metric_data, Take, Free
<1>5. WorkersLive'
  <2>1. PICK o \in FreeObjs : clone_metric_data(o, KeyOf(w)) /\ Take(w, o)
    BY DEF CacheHit
  <2>2. heap'[o] # Free
    BY <2>1, HitLemma DEF CacheHit, clone_metric_data, TypeOK, CacheTypeOK, FreeObjs, Free, Data
  <2>3. \A p \in Objs : p # o => heap'[p] = heap[p]
    BY <2>1 DEF clone_metric_data, TypeOK, CacheTypeOK
  <2>4. data' = [data EXCEPT ![w] = o] /\ o \in Objs /\ heap[o] = Free
    BY <2>1 DEF Take, FreeObjs
  <2>5. \A v \in Workers : data[v] # o
    BY <2>4, NullAssumption DEF OwnedOnce, WorkersLive
  <2>. QED
    BY <2>2, <2>3, <2>4, <2>5 DEF OwnedOnce, WorkersLive, TypeOK
<1>6. ControlInv'
  <2>1. PICK o \in FreeObjs : Take(w, o)
    BY DEF CacheHit
  <2>2. o # NULL
    BY <2>1, NullAssumption DEF FreeObjs
  <2>. QED
    BY <2>1, <2>2 DEF ControlInv, TypeOK, CacheHit, Goto, Take
<1>. QED
  BY <1>1, <1>2, <1>3, <1>4, <1>5, <1>6 DEF OwnedOnce

\* A miss only moves the worker on.
LEMMA CacheMissStep ==
    ASSUME CacheInv, NEW w \in Workers, CacheMiss(w)
    PROVE  CacheInv'
<1>. USE DEF CacheInv
<1>1. TypeOK'
  BY CacheAssumption, SourceAssumption
  DEF TypeOK, CacheTypeOK, ControlInv, CacheMiss, AfterNull, Goto, cacheVars, Points, Requests, NoReq, Data
<1>2. ChainsWellFormed'
  BY DEF ChainsWellFormed, CacheMiss, AfterNull, Goto, cacheVars
<1>3. EntriesApart'
  BY NullAssumption DEF OwnedOnce, EntriesApart, TypeOK, CacheTypeOK, Entry, ControlInv, CacheMiss, AfterNull, Goto, cacheVars, Free
<1>4. EntriesLive'
  BY NullAssumption DEF OwnedOnce, EntriesLive, TypeOK, CacheTypeOK, Entry, ControlInv, CacheMiss, AfterNull, Goto, cacheVars, Free
<1>5. WorkersLive'
  BY NullAssumption DEF OwnedOnce, WorkersLive, TypeOK, CacheTypeOK, Entry, ControlInv, CacheMiss, AfterNull, Goto, cacheVars, Free
<1>6. ControlInv'
  BY NullAssumption DEF ControlInv, TypeOK, CacheTypeOK, CacheMiss, AfterNull, Goto, cacheVars
<1>. QED
  BY <1>1, <1>2, <1>3, <1>4, <1>5, <1>6 DEF OwnedOnce

\* A failed clone only moves the worker on.
LEMMA CloneFailsStep ==
    ASSUME CacheInv, NEW w \in Workers, CloneFails(w)
    PROVE  CacheInv'
<1>. USE DEF CacheInv
<1>1. TypeOK'
  <2>1. oom' \in 0..MaxOom
    BY SourceAssumption DEF TypeOK, CloneFails, AllocationFails
  <2>. QED
    BY <2>1 DEF TypeOK, CacheTypeOK, CloneFails, AllocationFails, AfterNull, Goto, Points, cacheVars
<1>2. ChainsWellFormed'
  BY DEF ChainsWellFormed, CloneFails, AllocationFails, AfterNull, Goto, cacheVars
<1>3. EntriesApart'
  BY NullAssumption DEF OwnedOnce, EntriesApart, TypeOK, CacheTypeOK, Entry, ControlInv, CloneFails, AllocationFails, AfterNull, Goto, cacheVars, Free
<1>4. EntriesLive'
  BY NullAssumption DEF OwnedOnce, EntriesLive, TypeOK, CacheTypeOK, Entry, ControlInv, CloneFails, AllocationFails, AfterNull, Goto, cacheVars, Free
<1>5. WorkersLive'
  BY NullAssumption DEF OwnedOnce, WorkersLive, TypeOK, CacheTypeOK, Entry, ControlInv, CloneFails, AllocationFails, AfterNull, Goto, cacheVars, Free
<1>6. ControlInv'
  BY NullAssumption DEF ControlInv, TypeOK, CacheTypeOK, CloneFails, AllocationFails, AfterNull, Goto, cacheVars
<1>. QED
  BY <1>1, <1>2, <1>3, <1>4, <1>5, <1>6 DEF OwnedOnce

\* rrd_fetch_data returns an object nobody else owns.
LEMMA ReadFileStep ==
    ASSUME CacheInv, NEW w \in Workers, ReadFile(w)
    PROVE  CacheInv'
<1>. USE DEF CacheInv
<1>1. TypeOK'
  BY CacheAssumption, SourceAssumption
  DEF TypeOK, CacheTypeOK, ControlInv, ReadFile, FreeObjs, Goto, Take, Points, Requests, NoReq, Data
<1>2. ChainsWellFormed'
  BY DEF ChainsWellFormed, ReadFile, FreeObjs, Goto, Take
<1>3. EntriesApart'
  BY NullAssumption DEF OwnedOnce, EntriesApart, TypeOK, CacheTypeOK, Entry, ControlInv, ReadFile, FreeObjs, Goto, Take, Free
<1>4. EntriesLive'
  BY NullAssumption DEF OwnedOnce, EntriesLive, TypeOK, CacheTypeOK, Entry, ControlInv, ReadFile, FreeObjs, Goto, Take, Free
<1>5. WorkersLive'
  BY NullAssumption DEF OwnedOnce, WorkersLive, TypeOK, CacheTypeOK, Entry, ControlInv, ReadFile, FreeObjs, Goto, Take, Free
<1>6. ControlInv'
  BY NullAssumption DEF ControlInv, TypeOK, CacheTypeOK, ReadFile, FreeObjs, Goto, Take
<1>. QED
  BY <1>1, <1>2, <1>3, <1>4, <1>5, <1>6 DEF OwnedOnce

\* A failed read only moves the worker on.
LEMMA ReadFailsStep ==
    ASSUME CacheInv, NEW w \in Workers, ReadFails(w)
    PROVE  CacheInv'
<1>. USE DEF CacheInv
<1>1. TypeOK'
  BY CacheAssumption, SourceAssumption
  DEF TypeOK, CacheTypeOK, ControlInv, ReadFails, Goto, cacheVars, Points, Requests, NoReq, Data
<1>2. ChainsWellFormed'
  BY DEF ChainsWellFormed, ReadFails, Goto, cacheVars
<1>3. EntriesApart'
  BY NullAssumption DEF OwnedOnce, EntriesApart, TypeOK, CacheTypeOK, Entry, ControlInv, ReadFails, Goto, cacheVars, Free
<1>4. EntriesLive'
  BY NullAssumption DEF OwnedOnce, EntriesLive, TypeOK, CacheTypeOK, Entry, ControlInv, ReadFails, Goto, cacheVars, Free
<1>5. WorkersLive'
  BY NullAssumption DEF OwnedOnce, WorkersLive, TypeOK, CacheTypeOK, Entry, ControlInv, ReadFails, Goto, cacheVars, Free
<1>6. ControlInv'
  BY NullAssumption DEF ControlInv, TypeOK, CacheTypeOK, ReadFails, Goto, cacheVars
<1>. QED
  BY <1>1, <1>2, <1>3, <1>4, <1>5, <1>6 DEF OwnedOnce

\* A put without memory takes the object from the worker and stores nothing.
LEMMA CachePutFailsStep ==
    ASSUME CacheInv, NEW w \in Workers, CachePutFails(w)
    PROVE  CacheInv'
<1>. USE DEF CacheInv
<1>1. TypeOK'
  <2>1. oom' \in 0..MaxOom
    BY SourceAssumption DEF TypeOK, CachePutFails, AllocationFails
  <2>2. leaked' \in SUBSET Objs
    BY DEF TypeOK, ControlInv, CachePutFails
  <2>. QED
    BY <2>1, <2>2 DEF TypeOK, CacheTypeOK, CachePutFails, PutOutOfMemory,
                      AllocationFails, Goto, Take, Points
<1>2. ChainsWellFormed'
  BY DEF ChainsWellFormed, CachePutFails, PutOutOfMemory, Goto, Take
<1>3. EntriesApart'
  BY NullAssumption DEF OwnedOnce, EntriesApart, TypeOK, CacheTypeOK, Entry, ControlInv, CachePutFails, PutOutOfMemory, Goto, Take, Free
<1>4. EntriesLive'
  <2>1. \A v \in Workers : data'[v] \in {data[v], NULL}
    BY DEF TypeOK, CachePutFails, Take
  <2>2. \A s \in Slots : \A i \in DOMAIN slots[s] : slots[s][i].data # NULL
    BY NullAssumption, EntryLemma DEF TypeOK, CacheTypeOK
  <2>. QED
    BY <2>1, <2>2 DEF OwnedOnce, EntriesLive, CachePutFails, PutOutOfMemory
<1>5. WorkersLive'
  BY NullAssumption DEF OwnedOnce, WorkersLive, TypeOK, CacheTypeOK, Entry, ControlInv, CachePutFails, PutOutOfMemory, Goto, Take, Free
<1>6. ControlInv'
  BY NullAssumption DEF ControlInv, TypeOK, CacheTypeOK, CachePutFails, PutOutOfMemory, Goto, Take
<1>. QED
  BY <1>1, <1>2, <1>3, <1>4, <1>5, <1>6 DEF OwnedOnce

\* The worker frees an object that no entry and no other worker owns.
LEMMA RenderStep ==
    ASSUME CacheInv, NEW w \in Workers, Render(w)
    PROVE  CacheInv'
<1>. USE DEF CacheInv
<1>1. TypeOK'
  BY CacheAssumption, SourceAssumption
  DEF TypeOK, CacheTypeOK, ControlInv, Render, Answer, Goto, Take, Points, Requests, NoReq, Data
<1>2. ChainsWellFormed'
  BY DEF ChainsWellFormed, Render, Answer, Goto, Take
<1>3. EntriesApart'
  BY NullAssumption DEF OwnedOnce, EntriesApart, TypeOK, CacheTypeOK, Entry, ControlInv, Render, Answer, Goto, Take, Free
<1>4. EntriesLive'
  <2>1. \A v \in Workers : data'[v] \in {data[v], NULL}
    BY DEF TypeOK, Render, Take
  <2>2. \A s \in Slots : \A i \in DOMAIN slots[s] :
            slots[s][i].data \in Objs \ {NULL, data[w]}
    BY NullAssumption, EntryLemma DEF TypeOK, CacheTypeOK, OwnedOnce, EntriesLive
  <2>3. \A o \in Objs \ {data[w]} : heap'[o] = heap[o]
    BY DEF Render, TypeOK, CacheTypeOK
  <2>. QED
    BY <2>1, <2>2, <2>3 DEF OwnedOnce, EntriesLive, Render
<1>5. WorkersLive'
  BY NullAssumption DEF OwnedOnce, WorkersLive, TypeOK, CacheTypeOK, Entry, ControlInv, Render, Answer, Goto, Take, Free
<1>6. ControlInv'
  BY NullAssumption DEF ControlInv, TypeOK, CacheTypeOK, Render, Answer, Goto, Take
<1>. QED
  BY <1>1, <1>2, <1>3, <1>4, <1>5, <1>6 DEF OwnedOnce

\* The error answer touches no object.
LEMMA FailStep ==
    ASSUME CacheInv, NEW w \in Workers, Fail(w)
    PROVE  CacheInv'
<1>. USE DEF CacheInv
<1>1. TypeOK'
  BY CacheAssumption, SourceAssumption
  DEF TypeOK, CacheTypeOK, ControlInv, Fail, Answer, Goto, cacheVars, Points, Requests, NoReq, Data
<1>2. ChainsWellFormed'
  BY DEF ChainsWellFormed, Fail, Answer, Goto, cacheVars
<1>3. EntriesApart'
  BY NullAssumption DEF OwnedOnce, EntriesApart, TypeOK, CacheTypeOK, Entry, ControlInv, Fail, Answer, Goto, cacheVars, Free
<1>4. EntriesLive'
  BY NullAssumption DEF OwnedOnce, EntriesLive, TypeOK, CacheTypeOK, Entry, ControlInv, Fail, Answer, Goto, cacheVars, Free
<1>5. WorkersLive'
  BY NullAssumption DEF OwnedOnce, WorkersLive, TypeOK, CacheTypeOK, Entry, ControlInv, Fail, Answer, Goto, cacheVars, Free
<1>6. ControlInv'
  BY NullAssumption DEF ControlInv, TypeOK, CacheTypeOK, Fail, Answer, Goto, cacheVars
<1>. QED
  BY <1>1, <1>2, <1>3, <1>4, <1>5, <1>6 DEF OwnedOnce

\* Time passes.
LEMMA SecondStep ==
    ASSUME CacheInv, Second
    PROVE  CacheInv'
<1>. USE DEF CacheInv
<1>1. TypeOK'
  BY CacheAssumption, SourceAssumption
  DEF TypeOK, CacheTypeOK, ControlInv, Second, Tick, localVars, cacheVars, Points, Requests, NoReq, Data
<1>2. ChainsWellFormed'
  BY DEF ChainsWellFormed, Second, Tick, localVars, cacheVars
<1>3. EntriesApart'
  BY NullAssumption DEF OwnedOnce, EntriesApart, TypeOK, CacheTypeOK, Entry, ControlInv, Second, Tick, localVars, cacheVars, Free
<1>4. EntriesLive'
  BY NullAssumption DEF OwnedOnce, EntriesLive, TypeOK, CacheTypeOK, Entry, ControlInv, Second, Tick, localVars, cacheVars, Free
<1>5. WorkersLive'
  BY NullAssumption DEF OwnedOnce, WorkersLive, TypeOK, CacheTypeOK, Entry, ControlInv, Second, Tick, localVars, cacheVars, Free
<1>6. ControlInv'
  BY NullAssumption DEF ControlInv, TypeOK, CacheTypeOK, Second, Tick, localVars, cacheVars
<1>. QED
  BY <1>1, <1>2, <1>3, <1>4, <1>5, <1>6 DEF OwnedOnce

\* A put moves the worker's object into the chain: either in place of the
\* object it frees, under the only entry of the key, or in a new entry at the
\* end of a chain that does not have the key.
LEMMA CachePutStep ==
    ASSUME CacheInv, NEW w \in Workers, CachePut(w)
    PROVE  CacheInv'
<1>. USE DEF CacheInv
<1>. DEFINE key == KeyOf(w)
            s == cache_hash(key)
            chain == slots[s]
            k == Find(chain, key)
            new == Stored(key, data[w])
<1>1. s \in Slots /\ key \in Keys
  BY KeyLemma DEF CachePut
<1>2. chain \in Seq(Entry) /\ UniqueKeys(chain)
  BY <1>1 DEF TypeOK, CacheTypeOK, ChainsWellFormed, UniqueKeys
<1>3. data[w] \in Objs
  BY NullAssumption DEF TypeOK, ControlInv, CachePut
<1>4. new \in Entry /\ new.key = key /\ new.data = data[w]
  BY <1>1, <1>3 DEF TypeOK, CacheTypeOK, Stored, Entry
<1>5. data' = [data EXCEPT ![w] = NULL]
  BY DEF CachePut, Take
<1>6. pc' = [pc EXCEPT ![w] = "reget"]
  BY DEF CachePut, Goto
<1>a. CASE PutReplace(key, data[w])
  <2>1. k \in DOMAIN chain /\ chain[k].key = key
    BY <1>a, <1>2, FindLemma DEF PutReplace
  <2>2. slots' = [slots EXCEPT ![s] = [chain EXCEPT ![k] = new]]
    BY <1>a DEF PutReplace
  <2>3. heap' = [heap EXCEPT ![chain[k].data] = Free]
    BY <1>a DEF PutReplace
  <2>4. chain[k].data \in Objs
    BY <1>2, <2>1, EntryLemma
  <2>5. /\ slots' \in [Slots -> Seq(Entry)]
        /\ \A t \in Slots : DOMAIN slots'[t] = DOMAIN slots[t]
        /\ \A t \in Slots : \A j \in DOMAIN slots[t] :
               slots'[t][j] = IF t = s /\ j = k THEN new ELSE slots[t][j]
    BY <1>1, <1>2, <1>4, <2>1, <2>2 DEF TypeOK, CacheTypeOK
  <2>6. TypeOK'
    BY <2>3, <2>5, <1>5, <1>6 DEF TypeOK, CacheTypeOK, CachePut, Points
  <2>7. ChainsWellFormed'
    BY <1>4, <2>1, <2>5 DEF ChainsWellFormed, cache_hash
  <2>8. EntriesApart'
    BY <1>1, <1>4, <2>1, <2>5 DEF OwnedOnce, EntriesApart, EntriesLive
  <2>9. EntriesLive'
    <3>. SUFFICES ASSUME NEW t \in Slots, NEW j \in DOMAIN slots'[t]
                  PROVE  /\ heap'[slots'[t][j].data] # Free
                         /\ \A v \in Workers : data'[v] # slots'[t][j].data
      BY DEF EntriesLive
    <3>1. CASE t = s /\ j = k
      <4>1. slots'[t][j].data = data[w]
        BY <3>1, <1>1, <1>4, <2>1, <2>5
      <4>2. data[w] # chain[k].data /\ heap[data[w]] # Free
        BY <1>1, <1>3, <2>1, NullAssumption DEF OwnedOnce, EntriesLive, WorkersLive
      <4>3. heap'[data[w]] # Free
        BY <4>2, <1>3, <2>3 DEF TypeOK, CacheTypeOK
      <4>4. \A v \in Workers : data'[v] # data[w]
        BY <1>3, <1>5, NullAssumption DEF OwnedOnce, WorkersLive, TypeOK
      <4>. QED
        BY <4>1, <4>3, <4>4
    <3>2. CASE ~(t = s /\ j = k)
      <4>1. j \in DOMAIN slots[t] /\ slots'[t][j] = slots[t][j]
        BY <3>2, <2>5
      <4>2. slots[t][j].data # chain[k].data
        BY <4>1, <3>2, <1>1, <2>1 DEF OwnedOnce, EntriesApart
      <4>3. slots[t][j].data \in Objs
        BY <4>1, EntryLemma DEF TypeOK, CacheTypeOK
      <4>4. heap'[slots[t][j].data] # Free
        BY <4>1, <4>2, <4>3, <2>3 DEF OwnedOnce, EntriesLive, TypeOK, CacheTypeOK
      <4>5. \A v \in Workers : data'[v] # slots[t][j].data
        BY <4>1, <4>3, <1>5, NullAssumption DEF OwnedOnce, EntriesLive, TypeOK
      <4>. QED
        BY <4>1, <4>4, <4>5
    <3>. QED
      BY <3>1, <3>2
  <2>10. WorkersLive'
    BY <1>1, <1>5, <2>1, <2>3, <2>4, NullAssumption
    DEF OwnedOnce, EntriesLive, WorkersLive, TypeOK, CacheTypeOK
  <2>11. ControlInv'
    BY <1>5, <1>6 DEF ControlInv, TypeOK, CachePut
  <2>. QED
    BY <2>6, <2>7, <2>8, <2>9, <2>10, <2>11 DEF OwnedOnce
<1>b. CASE PutAppend(key, data[w])
  <2>1. \A j \in DOMAIN chain : chain[j].key # key
    BY <1>b, <1>2, FindLemma DEF PutAppend
  <2>2. slots' = [slots EXCEPT ![s] = Append(chain, new)] /\ heap' = heap
    BY <1>b DEF PutAppend
  <2>3. /\ slots' \in [Slots -> Seq(Entry)]
        /\ \A t \in Slots : \A j \in DOMAIN slots'[t] :
               \/ j \in DOMAIN slots[t] /\ slots'[t][j] = slots[t][j]
               \/ /\ t = s /\ j = Len(chain) + 1 /\ j \notin DOMAIN slots[t]
                  /\ slots'[t][j] = new
    <3>1. Append(chain, new) \in Seq(Entry)
      BY <1>2, <1>4
    <3>2. \A j \in DOMAIN Append(chain, new) :
              \/ j \in DOMAIN chain /\ Append(chain, new)[j] = chain[j]
              \/ j = Len(chain) + 1 /\ j \notin DOMAIN chain /\ Append(chain, new)[j] = new
      BY <1>2, <1>4
    <3>. QED
      BY <1>1, <2>2, <3>1, <3>2 DEF TypeOK, CacheTypeOK
  <2>4. TypeOK'
    BY <2>2, <2>3, <1>5, <1>6 DEF TypeOK, CacheTypeOK, CachePut, Points
  <2>5. ChainsWellFormed'
    BY <1>4, <2>1, <2>3 DEF ChainsWellFormed, cache_hash
  <2>6. EntriesApart'
    BY <1>1, <1>4, <2>3 DEF OwnedOnce, EntriesApart, EntriesLive
  <2>7. EntriesLive'
    <3>. SUFFICES ASSUME NEW t \in Slots, NEW j \in DOMAIN slots'[t]
                  PROVE  /\ heap[slots'[t][j].data] # Free
                         /\ \A v \in Workers : data'[v] # slots'[t][j].data
      BY <2>2 DEF EntriesLive
    <3>1. CASE j \in DOMAIN slots[t] /\ slots'[t][j] = slots[t][j]
      <4>1. slots[t][j].data \in Objs
        BY <3>1, EntryLemma DEF TypeOK, CacheTypeOK
      <4>. QED
        BY <3>1, <4>1, <1>5, NullAssumption DEF OwnedOnce, EntriesLive, TypeOK
    <3>2. CASE slots'[t][j] = new
      BY <3>2, <1>3, <1>4, <1>5, NullAssumption DEF OwnedOnce, WorkersLive, TypeOK
    <3>. QED
      BY <3>1, <3>2, <2>3
  <2>8. WorkersLive'
    BY <2>2, <1>5 DEF OwnedOnce, WorkersLive, TypeOK
  <2>9. ControlInv'
    BY <1>5, <1>6, <2>2 DEF ControlInv, TypeOK, CachePut
  <2>. QED
    BY <2>4, <2>5, <2>6, <2>7, <2>8, <2>9 DEF OwnedOnce
<1>. QED
  BY <1>a, <1>b DEF CachePut

----------------------------------------------------------------------------
\* The inductive invariant of the cache and its workers: types, chains,
\* ownership and control state.
THEOREM CacheInvariant == Spec => []CacheInv
<1>1. Init => CacheInv
  <2>. SUFFICES ASSUME Init PROVE CacheInv
    OBVIOUS
  <2>1. CacheTypeOK
    <3>1. slots \in [Slots -> Seq(Entry)]
      BY DEF Init
    <3>2. heap \in [Objs -> Data \cup {Free}]
      BY DEF Init
    <3>3. clock \in 0..MaxClock /\ ttl \in Nat \ {0}
      BY CacheAssumption DEF Init
    <3>4. initialized \in BOOLEAN
      BY Zenon DEF Init
    <3>. QED
      BY <3>1, <3>2, <3>3, <3>4 DEF CacheTypeOK
  <2>2. TypeOK
    <3>1. req \in [Workers -> Requests \cup {NoReq}]
      BY DEF Init
    <3>2. pc \in [Workers -> Points] /\ \A w \in Workers : pc[w] = "idle"
      BY DEF Init, Points
    <3>3. data \in [Workers -> Objs \cup {NULL}] /\ leaked \in SUBSET Objs
      BY DEF Init
    <3>4. fetched \in [Workers -> BOOLEAN] /\ starved \in [Workers -> BOOLEAN]
      BY DEF Init
    <3>5. oom \in 0..MaxOom
      BY SourceAssumption DEF Init
    <3>6. up \in BOOLEAN
      BY Zenon DEF Init
    <3>. QED
      BY <2>1, <3>1, <3>2, <3>3, <3>4, <3>5, <3>6 DEF TypeOK
  <2>3. \A s \in Slots : slots[s] = <<>> /\ DOMAIN slots[s] = {}
    BY DEF Init
  <2>4. ChainsWellFormed /\ OwnedOnce
    BY <2>3 DEF Init, ChainsWellFormed, OwnedOnce, EntriesApart, EntriesLive, WorkersLive
  <2>5. ControlInv
    BY <2>3 DEF Init, ControlInv
  <2>. QED
    BY <2>2, <2>4, <2>5 DEF CacheInv
<1>2. CacheInv /\ [Next]_vars => CacheInv'
  <2>. SUFFICES ASSUME CacheInv, [Next]_vars PROVE CacheInv'
    OBVIOUS
  <2>1. CASE \E t \in TtlSettings : Start(t)
    BY <2>1, StartStep
  <2>2. CASE Stop
    BY <2>2, StopStep
  <2>3. CASE Second
    BY <2>3, SecondStep
  <2>4. ASSUME NEW w \in Workers, Step(w) PROVE CacheInv'
    BY <2>4, CacheHitStep, CacheMissStep, CloneFailsStep, ReadFileStep, ReadFailsStep,
       CachePutStep, CachePutFailsStep, RenderStep, FailStep DEF Step
  <2>5. ASSUME NEW w \in Workers, NEW r \in Requests, Request(w, r) PROVE CacheInv'
    BY <2>5, RequestStep
  <2>6. CASE UNCHANGED vars
    BY <2>6 DEF vars, cacheVars, localVars, CacheInv, TypeOK, CacheTypeOK, ChainsWellFormed,
                OwnedOnce, EntriesApart, EntriesLive, WorkersLive, ControlInv
  <2>. QED
    BY <2>1, <2>2, <2>3, <2>4, <2>5, <2>6 DEF Next
<1>. QED
  BY <1>1, <1>2, PTL DEF Spec

\* Every variable keeps its type.
THEOREM TypeCorrect == Spec => []TypeOK
BY CacheInvariant, PTL DEF CacheInv

\* No MetricData has two owners or is freed while owned: clones and the
\* hand-over to rrd_cache_put keep concurrent workers apart.
THEOREM Ownership == Spec => []OwnedOnce
BY CacheInvariant, PTL DEF CacheInv

\* A key has at most one entry, in the chain of its hash.
THEOREM Chains == Spec => []ChainsWellFormed
BY CacheInvariant, PTL DEF CacheInv

----------------------------------------------------------------------------
(***************************************************************************)
(* What the cache holds and for how long, on top of CacheInv: the          *)
(* invariants that speak of the content of objects, the action property,   *)
(* and the refinement of TtlMap.                                           *)
(***************************************************************************)
\* Content d may be stored and served under key: it was read for it, by one of
\* the metrics that read this file.
Fits(key, d) ==
    /\ key = build_cache_key(d.path, d.period)
    /\ \E n \in Metrics : MetricPath[n] = d.path /\ MetricSum[n] = d.sum

EntriesFit ==
    \A s \in Slots : \A i \in DOMAIN slots[s] : Fits(slots[s][i].key, heap[slots[s][i].data])
WorkersFit == \A w \in Workers : data[w] # NULL => Fits(KeyOf(w), heap[data[w]])

\* No object holds points of the future.
ReadBefore == \A o \in Objs : heap[o] # Free => heap[o].at <= clock

ContentInv ==
    /\ ReadBefore
    /\ EntriesFit
    /\ WorkersFit
    /\ TtlBoundsEntries
    /\ OnlyFailedPutsLeak
    /\ PutIsFound

----------------------------------------------------------------------------
\* What a step leaves alone: the entries with the content of their objects,
\* and every worker but w with the content of its object.
EntriesKept ==
    /\ slots' = slots
    /\ \A s \in Slots : \A i \in DOMAIN slots[s] :
           heap'[slots[s][i].data] = heap[slots[s][i].data]
OthersKept(w) ==
    \A v \in Workers \ {w} :
        /\ pc'[v] = pc[v] /\ req'[v] = req[v] /\ data'[v] = data[v] /\ starved'[v] = starved[v]
        /\ data[v] # NULL => heap'[data[v]] = heap[data[v]]

\* An object taken from the free ones is nobody's, so writing it keeps the
\* content of all entries and workers.
LEMMA AllocLemma ==
    ASSUME CacheInv, NEW o \in FreeObjs, NEW d, heap' = [heap EXCEPT ![o] = d]
    PROVE  /\ \A s \in Slots : \A i \in DOMAIN slots[s] :
                  heap'[slots[s][i].data] = heap[slots[s][i].data]
           /\ \A v \in Workers : data[v] # NULL => heap'[data[v]] = heap[data[v]]
           /\ heap'[o] = d
           /\ \A p \in Objs : p # o => heap'[p] = heap[p]
<1>1. o \in Objs /\ heap[o] = Free
  BY DEF FreeObjs
<1>2. \A p \in Objs : heap'[p] = IF p = o THEN d ELSE heap[p]
  BY <1>1 DEF CacheInv, TypeOK, CacheTypeOK
<1>3. \A s \in Slots : \A i \in DOMAIN slots[s] : slots[s][i].data \in Objs
  BY EntryLemma DEF CacheInv, TypeOK, CacheTypeOK
<1>4. \A v \in Workers : data[v] # NULL => data[v] \in Objs
  BY DEF CacheInv, TypeOK
<1>5. \A s \in Slots : \A i \in DOMAIN slots[s] : heap[slots[s][i].data] # Free
  BY DEF CacheInv, OwnedOnce, EntriesLive
<1>6. \A v \in Workers : data[v] # NULL => heap[data[v]] # Free
  BY DEF CacheInv, OwnedOnce, WorkersLive
<1>. QED
  BY <1>1, <1>2, <1>3, <1>4, <1>5, <1>6

\* On a hit the worker gets a copy of the content of the entry of its key.
LEMMA HitEffect ==
    ASSUME CacheInv, NEW w \in Workers, CacheHit(w)
    PROVE  \E o \in FreeObjs : \E s \in Slots : \E i \in DOMAIN slots[s] :
               /\ slots[s][i].key = KeyOf(w)
               /\ slots[s][i].expires_at > clock
               /\ heap' = [heap EXCEPT ![o] = heap[slots[s][i].data]]
               /\ data' = [data EXCEPT ![w] = o]
               /\ s = cache_hash(KeyOf(w)) /\ i = Find(slots[s], KeyOf(w))
<1>. DEFINE s == cache_hash(KeyOf(w))
            i == Find(slots[s], KeyOf(w))
<1>1. s \in Slots
  BY KeyLemma DEF CacheInv, CacheHit
<1>2. slots[s] \in Seq(Entry) /\ UniqueKeys(slots[s])
  BY <1>1 DEF CacheInv, TypeOK, CacheTypeOK, ChainsWellFormed, UniqueKeys
<1>3. i # 0 /\ slots[s][i].expires_at > clock
  BY DEF CacheHit, Hit
<1>4. i \in DOMAIN slots[s] /\ slots[s][i].key = KeyOf(w)
  BY <1>2, <1>3, FindLemma
<1>5. PICK o \in FreeObjs : clone_metric_data(o, KeyOf(w)) /\ Take(w, o)
  BY DEF CacheHit
<1>6. heap' = [heap EXCEPT ![o] = heap[slots[s][i].data]] /\ data' = [data EXCEPT ![w] = o]
  BY <1>5 DEF clone_metric_data, Take
<1>. QED
  BY <1>1, <1>3, <1>4, <1>6

\* Every step of a worker but its put keeps the entries and the others.
LEMMA StepKeeps ==
    ASSUME CacheInv, NEW w \in Workers, Step(w), ~CachePut(w)
    PROVE  EntriesKept /\ OthersKept(w) /\ ttl' = ttl /\ clock' = clock
<1>. USE DEF CacheInv, EntriesKept, OthersKept
<1>1. CASE CacheHit(w)
  <2>1. PICK o \in FreeObjs, s \in Slots : \E i \in DOMAIN slots[s] :
            /\ heap' = [heap EXCEPT ![o] = heap[slots[s][i].data]]
            /\ data' = [data EXCEPT ![w] = o]
    BY <1>1, HitEffect
  <2>. QED
    BY <1>1, <2>1, AllocLemma DEF CacheHit, Goto, TypeOK
<1>2. CASE CacheMiss(w) \/ CloneFails(w) \/ ReadFails(w) \/ Fail(w)
  BY <1>2 DEF CacheMiss, CloneFails, ReadFails, Fail, Answer, AllocationFails, AfterNull, Goto,
              cacheVars, TypeOK
<1>3. CASE ReadFile(w)
  <2>1. PICK o \in FreeObjs : Take(w, o) /\ \E d : heap' = [heap EXCEPT ![o] = d]
    BY <1>3 DEF ReadFile
  <2>. QED
    BY <1>3, <2>1, AllocLemma DEF ReadFile, Goto, Take, TypeOK
<1>4. CASE CachePutFails(w)
  BY <1>4 DEF CachePutFails, PutOutOfMemory, AllocationFails, Goto, Take, TypeOK
<1>5. CASE Render(w)
  <2>1. data[w] # NULL /\ data[w] \in Objs
    BY <1>5 DEF Render, ControlInv, TypeOK
  <2>2. \A p \in Objs : p # data[w] => heap'[p] = heap[p]
    BY <1>5 DEF Render, TypeOK, CacheTypeOK
  <2>3. \A s \in Slots : \A i \in DOMAIN slots[s] :
            slots[s][i].data \in Objs /\ slots[s][i].data # data[w]
    BY EntryLemma DEF TypeOK, CacheTypeOK, OwnedOnce, EntriesLive
  <2>4. \A v \in Workers \ {w} : data[v] # NULL => data[v] \in Objs /\ data[v] # data[w]
    BY <2>1 DEF TypeOK, OwnedOnce, WorkersLive
  <2>. QED
    BY <1>5, <2>2, <2>3, <2>4 DEF Render, Answer, Goto, Take, TypeOK
<1>. QED
  BY <1>1, <1>2, <1>3, <1>4, <1>5 DEF Step

\* A put stores the worker's object under its key: every other entry stays
\* with its content, no key is lost, and an object is freed only if it was the
\* one of the replaced entry.
LEMMA PutEffect ==
    ASSUME CacheInv, NEW w \in Workers, CachePut(w)
    PROVE  LET s   == cache_hash(KeyOf(w))
               new == Stored(KeyOf(w), data[w])
           IN  /\ s \in Slots /\ data[w] \in Objs /\ data[w] # NULL
               /\ \E j \in DOMAIN slots'[s] : slots'[s][j] = new
               /\ \A t \in Slots : \A j \in DOMAIN slots'[t] :
                     \/ t = s /\ slots'[t][j] = new
                     \/ /\ j \in DOMAIN slots[t] /\ slots'[t][j] = slots[t][j]
                        /\ slots[t][j].key # KeyOf(w)
                        /\ heap'[slots[t][j].data] = heap[slots[t][j].data]
               /\ \A t \in Slots : \A j \in DOMAIN slots[t] :
                     /\ j \in DOMAIN slots'[t] /\ slots'[t][j].key = slots[t][j].key
                     /\ \/ slots'[t][j] = slots[t][j]
                        \/ heap'[slots[t][j].data] = Free
               /\ \A v \in Workers : data[v] # NULL => heap'[data[v]] = heap[data[v]]
               /\ \A o \in Objs : heap'[o] \in {heap[o], Free}
<1>. USE DEF CacheInv
<1>. DEFINE key == KeyOf(w)
            s == cache_hash(key)
            chain == slots[s]
            k == Find(chain, key)
            new == Stored(key, data[w])
<1>1. s \in Slots /\ key \in Keys
  BY KeyLemma DEF CachePut
<1>2. chain \in Seq(Entry) /\ UniqueKeys(chain)
  BY <1>1 DEF TypeOK, CacheTypeOK, ChainsWellFormed, UniqueKeys
<1>3. data[w] \in Objs /\ data[w] # NULL
  BY NullAssumption DEF TypeOK, ControlInv, CachePut
<1>4. new \in Entry /\ new.key = key /\ new.data = data[w]
  BY <1>1, <1>3 DEF TypeOK, CacheTypeOK, Stored, Entry
<1>5. \A t \in Slots : t # s => \A j \in DOMAIN slots[t] : slots[t][j].key # key
  BY DEF ChainsWellFormed
<1>6. \A t \in Slots : \A j \in DOMAIN slots[t] : slots[t][j].data \in Objs
  BY EntryLemma DEF TypeOK, CacheTypeOK
<1>a. CASE PutReplace(key, data[w])
  <2>1. k \in DOMAIN chain /\ chain[k].key = key
    BY <1>a, <1>2, FindLemma DEF PutReplace
  <2>2. /\ slots' = [slots EXCEPT ![s] = [chain EXCEPT ![k] = new]]
        /\ heap' = [heap EXCEPT ![chain[k].data] = Free]
    BY <1>a DEF PutReplace
  <2>3. \A t \in Slots :
            /\ DOMAIN slots'[t] = DOMAIN slots[t]
            /\ \A j \in DOMAIN slots[t] :
                  slots'[t][j] = IF t = s /\ j = k THEN new ELSE slots[t][j]
    BY <1>1, <1>2, <1>4, <2>1, <2>2 DEF TypeOK, CacheTypeOK
  <2>4. \A o \in Objs : heap'[o] = IF o = chain[k].data THEN Free ELSE heap[o]
    BY <2>2 DEF TypeOK, CacheTypeOK
  <2>5. \A t \in Slots : \A j \in DOMAIN slots[t] :
            ~(t = s /\ j = k) =>
                slots[t][j].data # chain[k].data /\ slots[t][j].key # key
    BY <1>1, <1>2, <1>5, <2>1 DEF OwnedOnce, EntriesApart, UniqueKeys
  <2>6. \A v \in Workers : data[v] # NULL => data[v] \in Objs /\ data[v] # chain[k].data
    BY <1>1, <2>1 DEF OwnedOnce, EntriesLive, TypeOK
  <2>. HIDE DEF key, s, chain, k, new
  <2>7. \A t \in Slots : \A j \in DOMAIN slots'[t] :
            \/ t = s /\ slots'[t][j] = new
            \/ /\ j \in DOMAIN slots[t] /\ slots'[t][j] = slots[t][j]
               /\ slots[t][j].key # key
               /\ heap'[slots[t][j].data] = heap[slots[t][j].data]
    BY <1>6, <2>3, <2>4, <2>5
  <2>8. \A t \in Slots : \A j \in DOMAIN slots[t] :
            /\ j \in DOMAIN slots'[t] /\ slots'[t][j].key = slots[t][j].key
            /\ slots'[t][j] = slots[t][j] \/ heap'[slots[t][j].data] = Free
    BY <1>4, <1>6, <2>1, <2>3, <2>4 DEF chain
  <2>9. \E j \in DOMAIN slots'[s] : slots'[s][j] = new
    BY <1>1, <2>1, <2>3 DEF chain
  <2>10. \A v \in Workers : data[v] # NULL => heap'[data[v]] = heap[data[v]]
    BY <2>4, <2>6
  <2>. QED
    BY <1>1, <1>3, <2>4, <2>7, <2>8, <2>9, <2>10 DEF key, s, new
<1>b. CASE PutAppend(key, data[w])
  <2>1. \A j \in DOMAIN chain : chain[j].key # key
    BY <1>b, <1>2, FindLemma DEF PutAppend
  <2>2. slots' = [slots EXCEPT ![s] = Append(chain, new)] /\ heap' = heap
    BY <1>b DEF PutAppend
  <2>3. /\ \A j \in DOMAIN chain :
               j \in DOMAIN Append(chain, new) /\ Append(chain, new)[j] = chain[j]
        /\ \A j \in DOMAIN Append(chain, new) :
               j \in DOMAIN chain \/ Append(chain, new)[j] = new
        /\ \E j \in DOMAIN Append(chain, new) : Append(chain, new)[j] = new
    <3>1. Len(chain) + 1 \in DOMAIN Append(chain, new)
      BY <1>2, <1>4
    <3>. QED
      BY <1>2, <1>4, <3>1
  <2>4. \A t \in Slots : slots'[t] = IF t = s THEN Append(chain, new) ELSE slots[t]
    BY <2>2 DEF TypeOK, CacheTypeOK
  <2>. HIDE DEF new, k
  <2>. QED
    BY <1>1, <1>3, <1>5, <2>1, <2>2, <2>3, <2>4, ZenonT(60) DEF new
<1>. QED
  BY <1>a, <1>b DEF CachePut

\* A chain that has an entry with the key is not walked to its end.
LEMMA FoundLemma ==
    ASSUME CacheInv, NEW key, NEW s \in Slots, NEW i \in DOMAIN slots[s], slots[s][i].key = key
    PROVE  Find(slots[s], key) # 0
<1>1. slots[s] \in Seq(Entry) /\ UniqueKeys(slots[s])
  BY DEF CacheInv, TypeOK, CacheTypeOK, ChainsWellFormed, UniqueKeys
<1>. QED
  BY <1>1, FindLemma

\* What is found is an entry of the chain with that key, and conversely.
LEMMA FindInSlot ==
    ASSUME CacheInv, NEW key, NEW s \in Slots, Find(slots[s], key) # 0
    PROVE  Find(slots[s], key) \in DOMAIN slots[s] /\ slots[s][Find(slots[s], key)].key = key
<1>1. slots[s] \in Seq(Entry) /\ UniqueKeys(slots[s])
  BY DEF CacheInv, TypeOK, CacheTypeOK, ChainsWellFormed, UniqueKeys
<1>. QED
  BY <1>1, FindLemma

\* What the worker that takes a step holds afterwards: a copy of an entry of its
\* key, what it has just read, nothing, or what it had.
LEMMA OwnObject ==
    ASSUME CacheInv, NEW w \in Workers, Step(w), ~CachePut(w)
    PROVE  \/ /\ data'[w] \in Objs /\ req' = req
              /\ \E s \in Slots : \E i \in DOMAIN slots[s] :
                     slots[s][i].key = KeyOf(w) /\ heap'[data'[w]] = heap[slots[s][i].data]
              /\ \A o \in Objs : o # data'[w] => heap'[o] = heap[o]
              /\ data[w] = NULL /\ pc'[w] = "render" /\ leaked' = leaked
           \/ /\ data'[w] \in Objs /\ req' = req /\ req[w] \in Requests
              /\ heap'[data'[w]] = [state |-> "live", path |-> MetricPath[req[w].metric],
                                    period |-> req[w].period,
                                    sum |-> MetricSum[req[w].metric], at |-> clock]
              /\ \A o \in Objs : o # data'[w] => heap'[o] = heap[o]
              /\ data[w] = NULL /\ pc'[w] \in {"put", "render"} /\ leaked' = leaked
           \/ /\ data'[w] = NULL
              /\ \/ heap' = heap /\ leaked' = leaked /\ data[w] = NULL
                 \/ heap' = heap /\ leaked' = leaked \cup {data[w]}
                 \/ /\ \A o \in Objs : heap'[o] = IF o = data[w] THEN Free ELSE heap[o]
                    /\ leaked' = leaked
<1>. USE DEF CacheInv
<1>1. CASE CacheHit(w)
  <2>1. PICK o \in FreeObjs, s \in Slots : \E i \in DOMAIN slots[s] :
            /\ slots[s][i].key = KeyOf(w)
            /\ heap' = [heap EXCEPT ![o] = heap[slots[s][i].data]]
            /\ data' = [data EXCEPT ![w] = o]
    BY <1>1, HitEffect
  <2>2. PICK i \in DOMAIN slots[s] :
            /\ slots[s][i].key = KeyOf(w)
            /\ heap' = [heap EXCEPT ![o] = heap[slots[s][i].data]]
            /\ data' = [data EXCEPT ![w] = o]
    BY <2>1
  <2>3. data'[w] = o /\ o \in Objs /\ pc'[w] = "render" /\ req' = req /\ leaked' = leaked
    BY <1>1, <2>2 DEF CacheHit, FreeObjs, Goto, TypeOK
  <2>4. heap'[o] = heap[slots[s][i].data] /\ \A p \in Objs : p # o => heap'[p] = heap[p]
    BY <2>2, AllocLemma, ZenonT(60)
  <2>5. data[w] = NULL
    BY <1>1 DEF CacheHit, ControlInv
  <2>. QED
    BY <2>2, <2>3, <2>4, <2>5
<1>2. CASE CacheMiss(w) \/ CloneFails(w) \/ ReadFails(w) \/ Fail(w)
  <2>1. data[w] = NULL
    BY <1>2 DEF CacheMiss, CloneFails, ReadFails, Fail, ControlInv
  <2>. QED
    BY <1>2, <2>1 DEF CacheMiss, CloneFails, ReadFails, Fail, cacheVars
<1>3. CASE ReadFile(w)
  <2>1. PICK o \in FreeObjs :
            /\ heap' = [heap EXCEPT ![o] =
                  [state |-> "live", path |-> MetricPath[req[w].metric],
                   period |-> req[w].period, sum |-> MetricSum[req[w].metric],
                   at |-> clock]]
            /\ Take(w, o)
    BY <1>3 DEF ReadFile
  <2>2. data'[w] = o /\ o \in Objs /\ pc'[w] \in {"put", "render"} /\ req' = req
        /\ leaked' = leaked
    BY <1>3, <2>1 DEF ReadFile, Take, FreeObjs, Goto, TypeOK
  <2>3. /\ heap'[o] = [state |-> "live", path |-> MetricPath[req[w].metric],
                   period |-> req[w].period, sum |-> MetricSum[req[w].metric],
                   at |-> clock]
        /\ \A p \in Objs : p # o => heap'[p] = heap[p]
    BY <2>1, AllocLemma, ZenonT(60)
  <2>4. data[w] = NULL /\ req[w] \in Requests
    BY <1>3 DEF ReadFile, ControlInv, TypeOK
  <2>. QED
    BY <2>2, <2>3, <2>4
<1>4. CASE CachePutFails(w)
  BY <1>4 DEF CachePutFails, PutOutOfMemory, Take, TypeOK
<1>5. CASE Render(w)
  BY <1>5 DEF Render, Take, TypeOK, CacheTypeOK
<1>. QED
  BY <1>1, <1>2, <1>3, <1>4, <1>5 DEF Step

\* No other step takes a worker to its second rrd_cache_get, unless an
\* allocation failed.
LEMMA RegetStays ==
    ASSUME CacheInv, NEW w \in Workers, Step(w), ~CachePut(w)
    PROVE  ~(pc'[w] = "reget" /\ ~starved'[w])
<1>. QED
  BY DEF CacheInv, Step, CacheHit, CacheMiss, CloneFails, ReadFile, ReadFails, CachePutFails, Render, Fail,
         Answer, AllocationFails, AfterNull, Goto, TypeOK

----------------------------------------------------------------------------
\* A worker's step that is no put.
LEMMA ContentStepWorker ==
    ASSUME CacheInv, CacheInv', ContentInv, NEW w \in Workers, Step(w), ~CachePut(w)
    PROVE  ContentInv'
<1>. USE DEF ContentInv
<1>1. EntriesKept /\ OthersKept(w) /\ ttl' = ttl /\ clock' = clock
  BY StepKeeps
<1>2. \A s \in Slots : \A i \in DOMAIN slots[s] :
          slots[s][i].data \in Objs /\ heap[slots[s][i].data] # Free
  BY EntryLemma DEF CacheInv, TypeOK, CacheTypeOK, OwnedOnce, EntriesLive
<1>3. ReadBefore'
  <2>. SUFFICES ASSUME NEW o \in Objs, heap'[o] # Free
                PROVE  heap'[o].at <= clock
    BY <1>1 DEF ReadBefore
  <2>1. clock \in Int /\ \A p \in Objs : heap[p] # Free => heap[p].at <= clock
    BY DEF CacheInv, TypeOK, CacheTypeOK, ReadBefore
  <2>2. CASE heap'[o] = heap[o]
    BY <2>1, <2>2
  <2>3. CASE o = data'[w] /\ heap'[o] # heap[o]
    <3>1. \/ \E s \in Slots : \E i \in DOMAIN slots[s] : heap'[o] = heap[slots[s][i].data]
          \/ heap'[o].at = clock
      <4>1. data'[w] # NULL
        BY <2>3, NullAssumption
      <4>2. \A d : d = [state |-> "live", path |-> MetricPath[req[w].metric],
                        period |-> req[w].period, sum |-> MetricSum[req[w].metric],
                        at |-> clock] => d.at = clock
        OBVIOUS
      <4>. QED
        BY <2>3, <4>1, <4>2, OwnObject
    <3>. QED
      BY <1>2, <2>1, <3>1
  <2>. QED
    BY <2>2, <2>3, OwnObject
<1>4. EntriesFit' /\ TtlBoundsEntries'
  BY <1>1 DEF EntriesKept, EntriesFit, TtlBoundsEntries
<1>5. WorkersFit'
  <2>. SUFFICES ASSUME NEW v \in Workers, data'[v] # NULL
                PROVE  Fits(KeyOf(v), heap[data[v]])'
    BY DEF WorkersFit
  <2>1. CASE v # w
    BY <1>1, <2>1 DEF OthersKept, WorkersFit, KeyOf, Fits
  <2>2. CASE v = w
    <3>1. CASE \E s \in Slots : \E i \in DOMAIN slots[s] :
              req' = req /\ slots[s][i].key = KeyOf(w) /\ heap'[data'[w]] = heap[slots[s][i].data]
      BY <2>2, <3>1 DEF EntriesFit, KeyOf, Fits
    <3>2. CASE /\ req' = req /\ req[w] \in Requests
               /\ heap'[data'[w]] = [state |-> "live", path |-> MetricPath[req[w].metric],
                                     period |-> req[w].period,
                                     sum |-> MetricSum[req[w].metric], at |-> clock]
      BY <2>2, <3>2 DEF KeyOf, Fits, Requests
    <3>. QED
      BY <2>2, <3>1, <3>2, OwnObject
  <2>. QED
    BY <2>1, <2>2
<1>6. OnlyFailedPutsLeak'
  <2>. SUFFICES ASSUME NEW o \in Objs, heap'[o] # Free
                PROVE  \/ o \in leaked'
                       \/ \E v \in Workers : data'[v] = o
                       \/ \E s \in Slots : \E i \in DOMAIN slots'[s] : slots'[s][i].data = o
    BY DEF OnlyFailedPutsLeak
  <2>1. CASE o = data'[w]
    BY <2>1
  <2>2. CASE o # data'[w]
    <3>1. heap[o] # Free /\ (o = data[w] => o \in leaked') /\ leaked \subseteq leaked'
      BY <2>2, OwnObject, NullAssumption
    <3>. QED
      BY <1>1, <3>1 DEF OnlyFailedPutsLeak, EntriesKept, OthersKept
  <2>. QED
    BY <2>1, <2>2
<1>7. PutIsFound'
  <2>. SUFFICES ASSUME NEW v \in Workers, pc'[v] = "reget", ~starved'[v]
                PROVE  Find(slots'[cache_hash(KeyOf(v)')], KeyOf(v)') # 0
    BY DEF PutIsFound, cache_hash
  <2>1. v # w
    BY RegetStays
  <2>. QED
    BY <1>1, <2>1 DEF OthersKept, EntriesKept, PutIsFound, KeyOf, cache_hash
<1>. QED
  BY <1>3, <1>4, <1>5, <1>6, <1>7

\* A put.
LEMMA ContentStepPut ==
    ASSUME CacheInv, CacheInv', ContentInv, NEW w \in Workers, CachePut(w)
    PROVE  ContentInv'
<1>. USE DEF ContentInv
<1>. DEFINE key == KeyOf(w)
            new == Stored(key, data[w])
<1>1. /\ cache_hash(key) \in Slots /\ data[w] \in Objs /\ data[w] # NULL
      /\ \E j \in DOMAIN slots'[cache_hash(key)] : slots'[cache_hash(key)][j] = new
      /\ \A t \in Slots : \A j \in DOMAIN slots'[t] :
             \/ slots'[t][j] = new
             \/ /\ j \in DOMAIN slots[t] /\ slots'[t][j] = slots[t][j]
                /\ heap'[slots[t][j].data] = heap[slots[t][j].data]
      /\ \A t \in Slots : \A j \in DOMAIN slots[t] :
             /\ j \in DOMAIN slots'[t] /\ slots'[t][j].key = slots[t][j].key
             /\ slots'[t][j] = slots[t][j] \/ heap'[slots[t][j].data] = Free
      /\ \A v \in Workers : data[v] # NULL => heap'[data[v]] = heap[data[v]]
      /\ \A o \in Objs : heap'[o] \in {heap[o], Free}
  BY PutEffect
<1>2. /\ new.key = key /\ new.data = data[w] /\ new.expires_at = clock + ttl
  BY DEF Stored
<1>3. /\ clock' = clock /\ ttl' = ttl /\ req' = req /\ leaked' = leaked /\ starved' = starved
      /\ data' = [data EXCEPT ![w] = NULL] /\ pc' = [pc EXCEPT ![w] = "reget"]
  BY DEF CachePut, Take, Goto
<1>4. \A v \in Workers : data'[v] = IF v = w THEN NULL ELSE data[v]
  BY <1>3 DEF CacheInv, TypeOK
<1>5. heap[data[w]] # Free
  BY <1>1 DEF CacheInv, OwnedOnce, WorkersLive
<1>. HIDE DEF key, new
<1>6. ReadBefore'
  BY <1>1, <1>3 DEF ReadBefore
<1>7. EntriesFit'
  <2>1. Fits(key, heap'[data[w]])
    BY <1>1 DEF WorkersFit, key
  <2>. QED
    BY <1>1, <1>2, <2>1 DEF EntriesFit, Fits
<1>8. WorkersFit'
  BY <1>1, <1>3, <1>4 DEF WorkersFit, KeyOf, Fits
<1>9. TtlBoundsEntries'
  <2>1. clock \in Int /\ ttl \in Int
    BY DEF CacheInv, TypeOK, CacheTypeOK
  <2>2. heap'[data[w]].at \in Int /\ heap'[data[w]].at <= clock
    BY <1>1, <1>5 DEF ReadBefore, CacheInv, TypeOK, CacheTypeOK, Data
  <2>. QED
    BY <1>1, <1>2, <1>3, <2>1, <2>2 DEF TtlBoundsEntries
<1>10. OnlyFailedPutsLeak'
  <2>. SUFFICES ASSUME NEW o \in Objs, heap'[o] # Free
                PROVE  \/ o \in leaked'
                       \/ \E v \in Workers : data'[v] = o
                       \/ \E s \in Slots : \E i \in DOMAIN slots'[s] : slots'[s][i].data = o
    BY DEF OnlyFailedPutsLeak
  <2>1. heap[o] # Free
    BY <1>1
  <2>2. CASE o = data[w]
    BY <1>1, <1>2, <2>2
  <2>3. CASE o # data[w]
    BY <1>1, <1>3, <1>4, <2>1, <2>3 DEF OnlyFailedPutsLeak
  <2>. QED
    BY <2>2, <2>3
<1>11. PutIsFound'
  <2>. SUFFICES ASSUME NEW v \in Workers, pc'[v] = "reget", ~starved'[v]
                PROVE  Find(slots'[cache_hash(KeyOf(v))], KeyOf(v)) # 0
    BY <1>3 DEF PutIsFound, cache_hash, KeyOf
  <2>1. cache_hash(KeyOf(v)) \in Slots /\ \E i \in DOMAIN slots'[cache_hash(KeyOf(v))] :
            slots'[cache_hash(KeyOf(v))][i].key = KeyOf(v)
    <3>1. CASE v = w
      BY <1>1, <1>2, <3>1 DEF key
    <3>2. CASE v # w
      <4>1. pc[v] = "reget" /\ ~starved[v]
        BY <1>3, <3>2 DEF CacheInv, TypeOK
      <4>2. cache_hash(KeyOf(v)) \in Slots
        BY <4>1, KeyLemma DEF CacheInv
      <4>3. Find(slots[cache_hash(KeyOf(v))], KeyOf(v)) # 0
        BY <4>1 DEF PutIsFound
      <4>4. PICK i \in DOMAIN slots[cache_hash(KeyOf(v))] :
                slots[cache_hash(KeyOf(v))][i].key = KeyOf(v)
        BY <4>2, <4>3, FindInSlot
      <4>. QED
        BY <1>1, <4>2, <4>4
    <3>. QED
      BY <3>1, <3>2
  <2>2. \A s \in Slots : slots'[s] \in Seq(Entry) /\ UniqueKeys(slots'[s])
    BY DEF CacheInv, TypeOK, CacheTypeOK, ChainsWellFormed, UniqueKeys
  <2>. QED
    BY <2>1, <2>2, FindLemma
<1>. QED
  BY <1>6, <1>7, <1>8, <1>9, <1>10, <1>11

\* Start, stop, the clock and a new request.
LEMMA ContentStepOther ==
    ASSUME CacheInv, CacheInv', ContentInv,
           \/ \E t \in TtlSettings : Start(t)
           \/ Stop
           \/ Second
           \/ \E w \in Workers, r \in Requests : Request(w, r)
           \/ UNCHANGED vars
    PROVE  ContentInv'
<1>. USE DEF ContentInv
<1>. DEFINE Parts == ReadBefore' /\ EntriesFit' /\ WorkersFit' /\ TtlBoundsEntries'
                     /\ OnlyFailedPutsLeak' /\ PutIsFound'
<1>1. ASSUME NEW t \in TtlSettings, Start(t) PROVE Parts
  <2>1. \A s \in Slots : slots'[s] = <<>> /\ DOMAIN slots'[s] = {}
    BY <1>1 DEF Start, CacheInv, ControlInv
  <2>2. \A v \in Workers : data'[v] = NULL /\ pc'[v] = "idle"
    BY <1>1 DEF Start, CacheInv, ControlInv
  <2>3. \A o \in Objs : heap'[o] = Free
    BY <1>1 DEF Start
  <2>. QED
    BY <2>1, <2>2, <2>3 DEF ReadBefore, EntriesFit, WorkersFit, TtlBoundsEntries,
                            OnlyFailedPutsLeak, PutIsFound
<1>2. CASE Stop
  <2>1. \A s \in Slots : slots'[s] = <<>> /\ DOMAIN slots'[s] = {}
    BY <1>2 DEF Stop, rrd_cache_free
  <2>2. \A v \in Workers : data'[v] = NULL /\ data[v] = NULL /\ pc'[v] = "idle"
    BY <1>2 DEF Stop, CacheInv, ControlInv
  <2>3. \A o \in Objs : heap'[o] # Free =>
            /\ heap'[o] = heap[o]
            /\ ~\E s \in Slots : \E i \in DOMAIN slots[s] : slots[s][i].data = o
    BY <1>2 DEF Stop, rrd_cache_free
  <2>4. clock' = clock /\ leaked' = leaked
    BY <1>2 DEF Stop
  <2>5. OnlyFailedPutsLeak'
    BY <2>2, <2>3, <2>4, NullAssumption DEF OnlyFailedPutsLeak
  <2>6. ReadBefore'
    BY <2>3, <2>4 DEF ReadBefore
  <2>. QED
    BY <2>1, <2>2, <2>5, <2>6 DEF EntriesFit, WorkersFit, TtlBoundsEntries, PutIsFound
<1>3. CASE Second
  <2>1. /\ clock' = clock + 1 /\ slots' = slots /\ ttl' = ttl /\ heap' = heap
        /\ pc' = pc /\ req' = req /\ data' = data /\ starved' = starved /\ leaked' = leaked
    BY <1>3 DEF Second, Tick, cacheVars, localVars
  <2>2. clock \in Int /\ ttl \in Int
    BY DEF CacheInv, TypeOK, CacheTypeOK
  <2>3. \A o \in Objs : heap[o] # Free => heap[o].at \in Int
    BY DEF CacheInv, TypeOK, CacheTypeOK, Data
  <2>4. \A s \in Slots : \A i \in DOMAIN slots[s] : slots[s][i].expires_at \in Int
    <3>. SUFFICES ASSUME NEW s \in Slots, NEW i \in DOMAIN slots[s]
                  PROVE  slots[s][i].expires_at \in Int
      OBVIOUS
    <3>1. slots[s][i] \in Entry
      BY EntryLemma DEF CacheInv, TypeOK, CacheTypeOK
    <3>. QED
      BY <3>1 DEF Entry
  <2>5. ReadBefore'
    BY <2>1, <2>2, <2>3 DEF ReadBefore
  <2>6. TtlBoundsEntries'
    BY <2>1, <2>2, <2>4 DEF TtlBoundsEntries
  <2>7. OnlyFailedPutsLeak'
    BY <2>1 DEF OnlyFailedPutsLeak
  <2>. QED
    BY <2>1, <2>5, <2>6, <2>7 DEF EntriesFit, WorkersFit, PutIsFound, KeyOf, Fits
<1>4. ASSUME NEW w \in Workers, NEW r \in Requests, Request(w, r) PROVE Parts
  <2>1. /\ clock' = clock /\ slots' = slots /\ ttl' = ttl /\ heap' = heap
        /\ data' = data /\ starved' = starved /\ leaked' = leaked
    BY <1>4 DEF Request, cacheVars
  <2>2. \A v \in Workers : v # w => pc'[v] = pc[v] /\ req'[v] = req[v]
    BY <1>4 DEF Request, Goto, CacheInv, TypeOK
  <2>3. data[w] = NULL /\ pc'[w] # "reget"
    BY <1>4 DEF Request, Goto, CacheInv, TypeOK, ControlInv
  <2>4. WorkersFit'
    BY <2>1, <2>2, <2>3 DEF WorkersFit, KeyOf, Fits
  <2>5. PutIsFound'
    BY <2>1, <2>2, <2>3 DEF PutIsFound, KeyOf, cache_hash
  <2>. QED
    BY <2>1, <2>4, <2>5 DEF ReadBefore, EntriesFit, TtlBoundsEntries, OnlyFailedPutsLeak
<1>5. CASE UNCHANGED vars
  BY <1>5 DEF vars, cacheVars, localVars, ReadBefore, EntriesFit, WorkersFit, TtlBoundsEntries,
              OnlyFailedPutsLeak, PutIsFound, KeyOf, Fits, cache_hash
<1>. QED
  BY <1>1, <1>2, <1>3, <1>4, <1>5

\* The inductive invariant about contents: every object was read in the past,
\* entries and workers hold what fits their key, entries live as long as the
\* time to live says, nothing is lost.
THEOREM ContentInvariant == Spec => []ContentInv
<1>1. Init => ContentInv
  <2>. SUFFICES ASSUME Init PROVE ContentInv
    OBVIOUS
  <2>1. \A s \in Slots : slots[s] = <<>> /\ DOMAIN slots[s] = {}
    BY DEF Init
  <2>2. (\A w \in Workers : data[w] = NULL /\ pc[w] = "idle") /\ \A o \in Objs : heap[o] = Free
    BY DEF Init
  <2>. QED
    BY <2>1, <2>2 DEF ContentInv, ReadBefore, EntriesFit, WorkersFit, TtlBoundsEntries,
                      OnlyFailedPutsLeak, PutIsFound
<1>2. CacheInv /\ CacheInv' /\ ContentInv /\ [Next]_vars => ContentInv'
  <2>. SUFFICES ASSUME CacheInv, CacheInv', ContentInv, [Next]_vars PROVE ContentInv'
    OBVIOUS
  <2>1. ASSUME NEW w \in Workers, Step(w) PROVE ContentInv'
    BY <2>1, ContentStepWorker, ContentStepPut
  <2>. QED
    BY <2>1, ContentStepOther DEF Next
<1>. QED
  BY <1>1, <1>2, CacheInvariant, PTL DEF Spec

\* Only rrd_cache_put running out of memory for its entry leaks a MetricData.
THEOREM NothingElseLeaks == Spec => []OnlyFailedPutsLeak
BY ContentInvariant, PTL DEF ContentInv

\* Entries do not disappear: after its put a worker finds the key again.
THEOREM PutsAreFound == Spec => []PutIsFound
BY ContentInvariant, PTL DEF ContentInv

\* No entry outlives its time to live, counted from a put after its read.
THEOREM TtlRespected == Spec => []TtlBoundsEntries
BY ContentInvariant, PTL DEF ContentInv

\* What is rendered was read for the file and period of the request.
THEOREM RightAnswer == Spec => []AnswersTheQuestion
<1>1. CacheInv /\ ContentInv => AnswersTheQuestion
  <2>. SUFFICES ASSUME CacheInv, ContentInv, NEW w \in Workers, pc[w] = "render"
                PROVE  LET m == req[w].metric
                           d == heap[data[w]]
                       IN  /\ d.path = MetricPath[m]
                           /\ MetricPath[m] \notin LongPaths => d.period = req[w].period
                           /\ \E n \in Metrics : MetricPath[n] = MetricPath[m] /\ MetricSum[n] = d.sum
    BY DEF AnswersTheQuestion
  <2>1. data[w] # NULL
    BY DEF CacheInv, ControlInv
  <2>2. Fits(KeyOf(w), heap[data[w]])
    BY <2>1 DEF ContentInv, WorkersFit
  <2>. QED
    BY <2>2 DEF Fits, KeyOf, build_cache_key
<1>. QED
  BY <1>1, CacheInvariant, ContentInvariant, PTL

\* Within its time to live an entry is not read from the file again.
THEOREM RepeatsServed == Spec => RepeatsAreServedFromCache
<1>. DEFINE Served(w) ==
       pc[w] = "get" /\ pc'[w] = "read" =>
              \/ starved'[w]
              \/ ~\E s \in Slots : \E i \in DOMAIN slots[s] :
                      /\ slots[s][i].key = KeyOf(w)
                      /\ slots[s][i].expires_at > clock
<1>1. CacheInv /\ [Next]_vars => [\A w \in Workers : Served(w)]_vars
  <2>. SUFFICES ASSUME CacheInv, Next, NEW w \in Workers, pc[w] = "get", pc'[w] = "read",
                       ~starved'[w], NEW s \in Slots, NEW i \in DOMAIN slots[s],
                       slots[s][i].key = KeyOf(w), slots[s][i].expires_at > clock
                PROVE  FALSE
    BY Zenon
  <2>1. CacheMiss(w)
    <3>1. ASSUME NEW v \in Workers, Step(v) PROVE CacheMiss(w)
      BY <3>1 DEF Step, CacheHit, CacheMiss, CloneFails, ReadFile, ReadFails, CachePut,
                  CachePutFails, Render, Fail, Answer, AllocationFails, AfterNull, Goto,
                  CacheInv, TypeOK
    <3>2. ASSUME NEW v \in Workers, NEW r \in Requests, Request(v, r) PROVE FALSE
      BY <3>2 DEF Request, Goto, CacheInv, TypeOK
    <3>3. CASE Stop \/ Second \/ \E t \in TtlSettings : Start(t)
      BY <3>3 DEF Stop, Second, Start, localVars
    <3>. QED
      BY <3>1, <3>2, <3>3 DEF Next
  <2>2. initialized
    <3>1. up
      BY DEF CacheInv, ControlInv
    <3>. QED
      BY <3>1 DEF CacheInv, ControlInv
  <2>3. s = cache_hash(KeyOf(w))
    BY DEF CacheInv, ChainsWellFormed
  <2>4. Find(slots[s], KeyOf(w)) # 0
    BY FoundLemma
  <2>5. Find(slots[s], KeyOf(w)) = i
    BY <2>4, FindInSlot DEF CacheInv, ChainsWellFormed
  <2>. QED
    BY <2>1, <2>2, <2>3, <2>4, <2>5 DEF CacheMiss, Hit
<1>. QED
  BY <1>1, CacheInvariant, PTL DEF Spec, RepeatsAreServedFromCache

----------------------------------------------------------------------------
\* Only requests that use the cache come to its functions.
CacheUsers == \A w \in Workers : pc[w] \in {"get", "put", "reget"} => req[w].use_cache

\* The map seen in one chain, by the position of the key's entry.
LEMMA StoreViewAt ==
    ASSUME CacheInv, NEW k \in Keys
    PROVE  LET s == cache_hash(k)
           IN  /\ s \in Slots
               /\ \A i \in DOMAIN slots[s] : slots[s][i].key = k =>
                      /\ StoreView[k] = [value   |-> heap[slots[s][i].data],
                                         expires |-> slots[s][i].expires_at]
                      /\ heap[slots[s][i].data] \in Data
                      /\ slots[s][i].expires_at \in Nat
               /\ (\A i \in DOMAIN slots[s] : slots[s][i].key # k) => StoreView[k] = NULL
<1>. DEFINE s == cache_hash(k)
            f == Find(slots[s], k)
<1>1. s \in Slots
  BY CacheAssumption DEF cache_hash
<1>2. slots[s] \in Seq(Entry) /\ UniqueKeys(slots[s])
  BY <1>1 DEF CacheInv, TypeOK, CacheTypeOK, ChainsWellFormed, UniqueKeys
<1>3. StoreView[k] = IF f = 0 THEN NULL
                     ELSE [value |-> heap[slots[s][f].data], expires |-> slots[s][f].expires_at]
  BY DEF StoreView
<1>4. ASSUME NEW i \in DOMAIN slots[s], slots[s][i].key = k
      PROVE  f = i /\ f # 0 /\ heap[slots[s][i].data] \in Data /\ slots[s][i].expires_at \in Nat
  <2>1. f # 0 /\ f = i
    BY <1>2, <1>4, FindLemma DEF UniqueKeys
  <2>2. slots[s][i] \in Entry /\ slots[s][i].data \in Objs
    BY <1>2, <1>4, EntryLemma
  <2>3. heap[slots[s][i].data] # Free
    BY <1>1, <1>4 DEF CacheInv, OwnedOnce, EntriesLive
  <2>4. heap[slots[s][i].data] \in Data
    BY <2>2, <2>3 DEF CacheInv, TypeOK, CacheTypeOK
  <2>. QED
    BY <2>1, <2>2, <2>4 DEF Entry
<1>5. (\A i \in DOMAIN slots[s] : slots[s][i].key # k) => f = 0
  BY <1>2, FindLemma
<1>. HIDE DEF f
<1>. QED
  BY <1>1, <1>3, <1>4, <1>5

\* The same after a step.
LEMMA StoreViewAtNext ==
    ASSUME CacheInv', NEW k \in Keys
    PROVE  LET s == cache_hash(k)
           IN  /\ \A i \in DOMAIN slots'[s] : slots'[s][i].key = k =>
                      StoreView'[k] = [value   |-> heap'[slots'[s][i].data],
                                       expires |-> slots'[s][i].expires_at]
               /\ (\A i \in DOMAIN slots'[s] : slots'[s][i].key # k) => StoreView'[k] = NULL
<1>. DEFINE s == cache_hash(k)
            f == Find(slots'[s], k)
<1>1. s \in Slots
  BY CacheAssumption DEF cache_hash
<1>2. slots'[s] \in Seq(Entry) /\ UniqueKeys(slots'[s])
  BY <1>1 DEF CacheInv, TypeOK, CacheTypeOK, ChainsWellFormed, UniqueKeys
<1>3. StoreView'[k] = IF f = 0 THEN NULL
                      ELSE [value |-> heap'[slots'[s][f].data], expires |-> slots'[s][f].expires_at]
  BY DEF StoreView, cache_hash
<1>4. ASSUME NEW i \in DOMAIN slots'[s], slots'[s][i].key = k
      PROVE  f = i /\ f # 0
  BY <1>2, <1>4, FindLemma DEF UniqueKeys
<1>5. (\A i \in DOMAIN slots'[s] : slots'[s][i].key # k) => f = 0
  BY <1>2, FindLemma
<1>. HIDE DEF f
<1>. QED
  BY <1>3, <1>4, <1>5

\* A step that keeps the entries keeps the map.
LEMMA StoreKept ==
    ASSUME EntriesKept, CacheInv
    PROVE  StoreView' = StoreView
<1>. SUFFICES ASSUME NEW k \in Keys
              PROVE  StoreView'[k] = StoreView[k]
  BY DEF StoreView
<1>. DEFINE s == cache_hash(k)
            f == Find(slots[s], k)
<1>1. s \in Slots
  BY CacheAssumption DEF cache_hash
<1>2. StoreView[k] = IF f = 0 THEN NULL
                     ELSE [value |-> heap[slots[s][f].data], expires |-> slots[s][f].expires_at]
  BY DEF StoreView
<1>3. StoreView'[k] = IF f = 0 THEN NULL
                      ELSE [value |-> heap'[slots[s][f].data], expires |-> slots[s][f].expires_at]
  BY DEF StoreView, EntriesKept, cache_hash
<1>4. f # 0 => f \in DOMAIN slots[s]
  BY <1>1, FindInSlot
<1>. HIDE DEF f
<1>. QED
  BY <1>1, <1>2, <1>3, <1>4 DEF EntriesKept

\* A put is the map's put.
LEMMA StorePut ==
    ASSUME CacheInv, CacheInv', NEW w \in Workers, CachePut(w)
    PROVE  /\ StoreView' = [StoreView EXCEPT ![KeyOf(w)] =
                                [value |-> heap[data[w]], expires |-> clock + ttl]]
           /\ heap[data[w]] \in Data
<1>. DEFINE key == KeyOf(w)
            new == Stored(key, data[w])
            h   == cache_hash(key)
<1>1. /\ h \in Slots /\ data[w] \in Objs /\ data[w] # NULL
      /\ \E j \in DOMAIN slots'[h] : slots'[h][j] = new
      /\ \A t \in Slots : \A j \in DOMAIN slots'[t] :
            \/ t = h /\ slots'[t][j] = new
            \/ /\ j \in DOMAIN slots[t] /\ slots'[t][j] = slots[t][j]
               /\ slots[t][j].key # key
               /\ heap'[slots[t][j].data] = heap[slots[t][j].data]
      /\ \A t \in Slots : \A j \in DOMAIN slots[t] :
            j \in DOMAIN slots'[t] /\ slots'[t][j].key = slots[t][j].key
      /\ heap'[data[w]] = heap[data[w]]
  BY PutEffect
<1>2. key \in Keys
  BY KeyLemma DEF CacheInv, CachePut
<1>3. heap[data[w]] \in Data
  BY <1>1 DEF CacheInv, OwnedOnce, WorkersLive, TypeOK, CacheTypeOK
<1>4. new.key = key /\ new.data = data[w] /\ new.expires_at = clock + ttl
  BY DEF Stored
<1>. HIDE DEF new, key, h
<1>5. StoreView'[key] = [value |-> heap[data[w]], expires |-> clock + ttl]
  BY <1>1, <1>2, <1>4, StoreViewAtNext DEF h
<1>6. ASSUME NEW k \in Keys, k # key
      PROVE  StoreView'[k] = StoreView[k]
  <2>. DEFINE t == cache_hash(k)
  <2>0. t \in Slots
    BY StoreViewAt
  <2>1. CASE \E i \in DOMAIN slots[t] : slots[t][i].key = k
    <3>1. PICK i \in DOMAIN slots[t] : slots[t][i].key = k
      BY <2>1
    <3>2. i \in DOMAIN slots'[t] /\ slots'[t][i].key = k
      BY <1>1, <2>0, <3>1
    <3>3. slots'[t][i] = slots[t][i] /\ heap'[slots[t][i].data] = heap[slots[t][i].data]
      BY <1>1, <1>4, <1>6, <2>0, <3>1, <3>2
    <3>4. StoreView'[k] = [value |-> heap'[slots'[t][i].data], expires |-> slots'[t][i].expires_at]
      BY <3>2, StoreViewAtNext
    <3>5. StoreView[k] = [value |-> heap[slots[t][i].data], expires |-> slots[t][i].expires_at]
      BY <3>1, StoreViewAt
    <3>. QED
      BY <3>3, <3>4, <3>5
  <2>2. CASE \A i \in DOMAIN slots[t] : slots[t][i].key # k
    <3>1. \A i \in DOMAIN slots'[t] : slots'[t][i].key # k
      BY <1>1, <1>4, <1>6, <2>0, <2>2
    <3>2. StoreView'[k] = NULL
      BY <3>1, StoreViewAtNext
    <3>3. StoreView[k] = NULL
      BY <2>2, StoreViewAt
    <3>. QED
      BY <3>2, <3>3
  <2>. QED
    BY <2>1, <2>2
<1>7. /\ StoreView' = [k \in Keys |-> StoreView'[k]]
      /\ StoreView = [k \in Keys |-> StoreView[k]]
  BY DEF StoreView
<1>. QED
  BY <1>2, <1>3, <1>5, <1>6, <1>7 DEF key

\* A step of worker w changes the view of w only.
LEMMA ViewsOfOthers ==
    ASSUME CacheInv, NEW w \in Workers, OthersKept(w)
    PROVE  /\ AskedView' = [AskedView EXCEPT ![w] = AskedView'[w]]
           /\ ServedView' = [ServedView EXCEPT ![w] = ServedView'[w]]
<1>1. ASSUME NEW v \in Workers, v # w
      PROVE  AskedView'[v] = AskedView[v] /\ ServedView'[v] = ServedView[v]
  <2>1. /\ pc'[v] = pc[v] /\ req'[v] = req[v] /\ data'[v] = data[v]
        /\ data[v] # NULL => heap'[data[v]] = heap[data[v]]
    BY <1>1 DEF OthersKept
  <2>2. pc[v] = "render" => data[v] # NULL
    BY DEF CacheInv, ControlInv
  <2>3. UsesCache(v)' = UsesCache(v) /\ KeyOf(v)' = KeyOf(v)
    BY <2>1 DEF UsesCache, KeyOf
  <2>. QED
    BY <2>1, <2>2, <2>3 DEF AskedView, ServedView
<1>2. /\ AskedView' = [v \in Workers |-> AskedView'[v]]
      /\ AskedView = [v \in Workers |-> AskedView[v]]
      /\ ServedView' = [v \in Workers |-> ServedView'[v]]
      /\ ServedView = [v \in Workers |-> ServedView[v]]
  BY DEF AskedView, ServedView
<1>. QED
  BY <1>1, <1>2

\* The step of the map that each step of a worker is.
LEMMA WorkerSimulates ==
    ASSUME CacheInv, CacheInv', CacheUsers, CacheUsers', NEW w \in Workers, Step(w)
    PROVE  Abstract!Next \/ UNCHANGED Abstract!vars
<1>. USE DEF CacheInv, CacheUsers
<1>1. CASE CachePut(w)
  <2>1. /\ clock' = clock /\ ttl' = ttl /\ req' = req
        /\ \A v \in Workers : pc'[v] = IF v = w THEN "reget" ELSE pc[v]
        /\ \A v \in Workers : data'[v] = IF v = w THEN NULL ELSE data[v]
    BY <1>1 DEF CachePut, Take, Goto, TypeOK
  <2>2. \A v \in Workers : data[v] # NULL => heap'[data[v]] = heap[data[v]]
    BY <1>1, PutEffect
  <2>3. starved' = starved
    BY <1>1 DEF CachePut
  <2>4. OthersKept(w)
    BY <2>1, <2>2, <2>3 DEF OthersKept
  <2>5. pc[w] = "put" /\ req[w].use_cache
    BY <1>1 DEF CachePut
  <2>6. AskedView[w] = KeyOf(w) /\ AskedView'[w] = KeyOf(w)
    BY <2>1, <2>5 DEF AskedView, UsesCache, KeyOf
  <2>7. ServedView[w] = NULL /\ ServedView'[w] = NULL
    BY <2>1, <2>5 DEF ServedView
  <2>8. KeyOf(w) # NULL
    BY <2>5, KeyLemma, NullAssumption
  <2>9. AskedView' = AskedView /\ ServedView' = ServedView
    <3>1. /\ AskedView' = [AskedView EXCEPT ![w] = AskedView[w]]
          /\ ServedView' = [ServedView EXCEPT ![w] = ServedView[w]]
      BY <2>4, <2>6, <2>7, ViewsOfOthers
    <3>2. /\ AskedView = [v \in Workers |-> AskedView[v]]
          /\ ServedView = [v \in Workers |-> ServedView[v]]
      BY DEF AskedView, ServedView
    <3>. QED
      BY <3>1, <3>2
  <2>10. Abstract!Put(w)
    BY <1>1, <2>1, <2>6, <2>8, <2>9, StorePut DEF Abstract!Put
  <2>. QED
    BY <2>10 DEF Abstract!Next
<1>. SUFFICES ASSUME ~CachePut(w) PROVE Abstract!Next \/ UNCHANGED Abstract!vars
  BY <1>1
<1>2. EntriesKept /\ OthersKept(w) /\ ttl' = ttl /\ clock' = clock
  BY StepKeeps
<1>3. StoreView' = StoreView
  BY <1>2, StoreKept
<1>4. /\ AskedView' = [AskedView EXCEPT ![w] = AskedView'[w]]
      /\ ServedView' = [ServedView EXCEPT ![w] = ServedView'[w]]
      /\ AskedView = [v \in Workers |-> AskedView[v]]
      /\ ServedView = [v \in Workers |-> ServedView[v]]
  <2>1. /\ AskedView = [v \in Workers |-> AskedView[v]]
        /\ ServedView = [v \in Workers |-> ServedView[v]]
    BY DEF AskedView, ServedView
  <2>. QED
    BY <1>2, <2>1, ViewsOfOthers
<1>5. CASE CacheHit(w)
  <2>1. pc[w] \in {"get", "reget"} /\ req[w].use_cache /\ pc'[w] = "render" /\ req' = req
    BY <1>5 DEF CacheHit, Goto, TypeOK
  <2>2. AskedView[w] = KeyOf(w) /\ AskedView'[w] = KeyOf(w) /\ ServedView[w] = NULL
    BY <2>1 DEF AskedView, ServedView, UsesCache, KeyOf
  <2>3. ServedView'[w] = heap'[data'[w]]
    BY <2>1 DEF ServedView, UsesCache
  <2>4. KeyOf(w) \in Keys /\ KeyOf(w) # NULL
    BY <2>1, KeyLemma, NullAssumption
  <2>. DEFINE s == cache_hash(KeyOf(w))
  <2>5. PICK o \in FreeObjs : \E i \in DOMAIN slots[s] :
            /\ slots[s][i].key = KeyOf(w)
            /\ slots[s][i].expires_at > clock
            /\ heap' = [heap EXCEPT ![o] = heap[slots[s][i].data]]
            /\ data' = [data EXCEPT ![w] = o]
    BY <1>5, HitEffect
  <2>6. PICK i \in DOMAIN slots[s] :
            /\ slots[s][i].key = KeyOf(w)
            /\ slots[s][i].expires_at > clock
            /\ heap' = [heap EXCEPT ![o] = heap[slots[s][i].data]]
            /\ data' = [data EXCEPT ![w] = o]
    BY <2>5
  <2>7. heap'[data'[w]] = heap[slots[s][i].data]
    <3>. DEFINE d == heap[slots[s][i].data]
    <3>0. heap' = [heap EXCEPT ![o] = d]
      BY <2>6
    <3>. HIDE DEF d, s, CacheInv
    <3>1. heap'[o] = d
      BY <3>0, AllocLemma
    <3>2. data'[w] = o
      BY <2>6 DEF CacheInv, TypeOK
    <3>. QED
      BY <3>1, <3>2 DEF d
  <2>8. /\ StoreView[KeyOf(w)] = [value   |-> heap[slots[s][i].data],
                                  expires |-> slots[s][i].expires_at]
        /\ heap[slots[s][i].data] \in Data
        /\ slots[s][i].expires_at \in Nat
    BY <2>4, <2>6, StoreViewAt
  <2>9. StoreView[KeyOf(w)] # NULL
    BY <2>8, ViewAssumption
  <2>10. AskedView' = AskedView
    BY <1>4, <2>2
  <2>11. Abstract!Get(w)
    BY <1>2, <1>3, <1>4, <2>2, <2>3, <2>4, <2>6, <2>7, <2>8, <2>9, <2>10 DEF Abstract!Get
  <2>. QED
    BY <2>11 DEF Abstract!Next
<1>6. CASE CacheMiss(w) \/ CloneFails(w) \/ ReadFails(w) \/ ReadFile(w) \/ CachePutFails(w)
  <2>1. /\ pc[w] \in {"get", "reget", "read", "put"} /\ req' = req
        /\ pc'[w] \in {"read", "fail", "put", "reget", "render"}
        /\ pc'[w] = "render" => ~req[w].use_cache
    BY <1>6 DEF CacheMiss, CloneFails, ReadFails, ReadFile, CachePutFails, AfterNull, Goto, TypeOK
  <2>2. AskedView'[w] = AskedView[w]
    BY <2>1 DEF AskedView, UsesCache, KeyOf
  <2>3. ServedView'[w] = NULL /\ ServedView[w] = NULL
    BY <2>1 DEF ServedView, UsesCache
  <2>. QED
    BY <1>2, <1>3, <1>4, <2>2, <2>3 DEF Abstract!vars
<1>7. CASE Render(w) \/ Fail(w)
  <2>1. pc[w] \in {"render", "fail"} /\ pc'[w] = "idle"
    BY <1>7 DEF Render, Fail, Answer, Goto, TypeOK
  <2>2. AskedView'[w] = NULL /\ ServedView'[w] = NULL
    BY <2>1 DEF AskedView, ServedView, UsesCache
  <2>3. CASE req[w].use_cache
    <3>1. AskedView[w] = KeyOf(w) /\ KeyOf(w) # NULL
      BY <2>1, <2>3, KeyLemma, NullAssumption DEF AskedView, UsesCache
    <3>2. Abstract!Leave(w)
      BY <1>2, <1>3, <1>4, <2>2, <3>1 DEF Abstract!Leave
    <3>. QED
      BY <3>2 DEF Abstract!Next
  <2>4. CASE ~req[w].use_cache
    <3>1. AskedView[w] = NULL /\ ServedView[w] = NULL
      BY <2>4 DEF AskedView, ServedView, UsesCache
    <3>. QED
      BY <1>2, <1>3, <1>4, <2>2, <3>1 DEF Abstract!vars
  <2>. QED
    BY <2>3, <2>4
<1>. QED
  BY <1>5, <1>6, <1>7 DEF Step

\* Without requests and entries the map is empty and nobody asks.
LEMMA IdleView ==
    ASSUME \A w \in Workers : pc[w] = "idle"
    PROVE  AskedView = Abstract!Nobody /\ ServedView = Abstract!Nobody
BY DEF AskedView, ServedView, UsesCache, Abstract!Nobody

\* Chains without entries are the empty map.
LEMMA EmptyView ==
    ASSUME \A s \in Slots : slots[s] = <<>>
    PROVE  StoreView = Abstract!Empty
<1>1. ASSUME NEW k \in Keys PROVE Find(slots[cache_hash(k)], k) = 0
  <2>1. slots[cache_hash(k)] = <<>>
    BY CacheAssumption DEF cache_hash
  <2>. QED
    BY <2>1 DEF Find, Holds
<1>. QED
  BY <1>1 DEF StoreView, Abstract!Empty

\* The step of the map that each step of the process is.
LEMMA ProcessSimulates ==
    ASSUME CacheInv, CacheInv',
           \/ \E t \in TtlSettings : Start(t)
           \/ Stop
           \/ Second
           \/ \E w \in Workers, r \in Requests : Request(w, r)
           \/ UNCHANGED vars
    PROVE  Abstract!Next \/ UNCHANGED Abstract!vars
<1>. USE DEF CacheInv
<1>1. ASSUME NEW t \in TtlSettings, Start(t) PROVE Abstract!Next
  <2>1. /\ \A s \in Slots : slots[s] = <<>> /\ slots'[s] = <<>>
        /\ \A w \in Workers : pc[w] = "idle" /\ pc'[w] = "idle"
        /\ clock' = clock
    BY <1>1 DEF Start, ControlInv
  <2>2. /\ StoreView = Abstract!Empty
        /\ AskedView = Abstract!Nobody
        /\ ServedView = Abstract!Nobody
    BY <2>1, IdleView, EmptyView
  <2>3. StoreView' = StoreView
    <3>1. EntriesKept
      BY <1>1, <2>1 DEF EntriesKept, Start
    <3>. QED
      BY <3>1, StoreKept
  <2>4. AskedView' = AskedView /\ ServedView' = ServedView
    BY <2>1 DEF AskedView, ServedView, UsesCache
  <2>5. ttl' \in Nat \ {0}
    BY DEF TypeOK, CacheTypeOK
  <2>6. Abstract!Boot
    BY <2>1, <2>2, <2>3, <2>4, <2>5 DEF Abstract!Boot
  <2>. QED
    BY <2>6 DEF Abstract!Next
<1>2. CASE Stop
  <2>1. /\ \A s \in Slots : slots'[s] = <<>>
        /\ \A w \in Workers : pc[w] = "idle" /\ pc'[w] = "idle"
        /\ clock' = clock /\ ttl' = ttl
    BY <1>2 DEF Stop, rrd_cache_free
  <2>2. AskedView = Abstract!Nobody /\ ServedView = Abstract!Nobody
    BY <2>1, IdleView
  <2>3. AskedView' = AskedView /\ ServedView' = ServedView
    BY <2>1 DEF AskedView, ServedView, UsesCache
  <2>4. StoreView' = Abstract!Empty
    <3>1. ASSUME NEW k \in Keys PROVE Find(slots'[cache_hash(k)], k) = 0
      <4>1. slots'[cache_hash(k)] = <<>>
        BY <2>1, CacheAssumption DEF cache_hash
      <4>. QED
        BY <4>1 DEF Find, Holds
    <3>. QED
      BY <3>1 DEF StoreView, Abstract!Empty, cache_hash
  <2>5. Abstract!Clear
    BY <2>1, <2>2, <2>3, <2>4 DEF Abstract!Clear
  <2>. QED
    BY <2>5 DEF Abstract!Next
<1>3. CASE Second
  <2>1. /\ clock' = clock + 1 /\ slots' = slots /\ ttl' = ttl /\ heap' = heap
        /\ pc' = pc /\ req' = req /\ data' = data
    BY <1>3 DEF Second, Tick, cacheVars, localVars
  <2>2. StoreView' = StoreView /\ AskedView' = AskedView /\ ServedView' = ServedView
    BY <2>1 DEF StoreView, AskedView, ServedView, UsesCache, KeyOf, cache_hash
  <2>3. Abstract!Second
    BY <2>1, <2>2 DEF Abstract!Second
  <2>. QED
    BY <2>3 DEF Abstract!Next
<1>4. ASSUME NEW w \in Workers, NEW r \in Requests, Request(w, r)
      PROVE  Abstract!Next \/ UNCHANGED Abstract!vars
  <2>1. /\ clock' = clock /\ ttl' = ttl /\ slots' = slots /\ heap' = heap
        /\ data' = data /\ starved' = starved
        /\ pc[w] = "idle" /\ pc'[w] = (IF r.use_cache THEN "get" ELSE "read") /\ req'[w] = r
        /\ \A v \in Workers : v # w => pc'[v] = pc[v] /\ req'[v] = req[v]
    BY <1>4 DEF Request, Goto, cacheVars, TypeOK
  <2>2. StoreView' = StoreView
    BY <2>1 DEF StoreView, cache_hash
  <2>3. OthersKept(w)
    BY <2>1 DEF OthersKept
  <2>4. AskedView[w] = NULL /\ ServedView[w] = NULL /\ ServedView'[w] = NULL
    BY <2>1 DEF AskedView, ServedView, UsesCache
  <2>5. /\ AskedView' = [AskedView EXCEPT ![w] = AskedView'[w]]
        /\ ServedView' = [ServedView EXCEPT ![w] = ServedView'[w]]
        /\ AskedView = [v \in Workers |-> AskedView[v]]
        /\ ServedView = [v \in Workers |-> ServedView[v]]
    <3>1. /\ AskedView = [v \in Workers |-> AskedView[v]]
          /\ ServedView = [v \in Workers |-> ServedView[v]]
      BY DEF AskedView, ServedView
    <3>. QED
      BY <2>3, <3>1, ViewsOfOthers
  <2>6. CASE r.use_cache
    <3>1. AskedView'[w] \in Keys
      <4>1. AskedView'[w] = KeyOf(w)'
        BY <2>1, <2>6 DEF AskedView, UsesCache
      <4>2. MetricPath[r.metric] \in Paths /\ r.period \in Periods
        BY SourceAssumption DEF Requests
      <4>. QED
        BY <2>1, <4>1, <4>2 DEF KeyOf, build_cache_key, Keys
    <3>2. Abstract!Ask(w)
      BY <2>1, <2>2, <2>4, <2>5, <3>1 DEF Abstract!Ask
    <3>. QED
      BY <3>2 DEF Abstract!Next
  <2>7. CASE ~r.use_cache
    <3>1. AskedView'[w] = NULL
      BY <2>1, <2>7 DEF AskedView, UsesCache
    <3>. QED
      BY <2>1, <2>2, <2>4, <2>5, <3>1 DEF Abstract!vars
  <2>. QED
    BY <2>6, <2>7
<1>5. CASE UNCHANGED vars
  BY <1>5 DEF vars, cacheVars, localVars, Abstract!vars, StoreView, AskedView, ServedView,
              UsesCache, KeyOf, cache_hash
<1>. QED
  BY <1>1, <1>2, <1>3, <1>4, <1>5

\* Only requests with use_cache reach rrd_cache_get and rrd_cache_put.
THEOREM OnlyCacheUsers == Spec => []CacheUsers
<1>1. Init => CacheUsers
  BY DEF Init, CacheUsers
<1>2. CacheInv /\ CacheUsers /\ [Next]_vars => CacheUsers'
  <2>. SUFFICES ASSUME CacheInv, CacheUsers, [Next]_vars PROVE CacheUsers'
    OBVIOUS
  <2>. USE DEF CacheUsers
  <2>1. ASSUME NEW w \in Workers, Step(w) PROVE CacheUsers'
    BY <2>1 DEF Step, CacheHit, CacheMiss, CloneFails, ReadFile, ReadFails, CachePut, CachePutFails,
                Render, Fail, Answer, AllocationFails, AfterNull, Goto, CacheInv, TypeOK
  <2>2. ASSUME NEW w \in Workers, NEW r \in Requests, Request(w, r) PROVE CacheUsers'
    BY <2>2 DEF Request, Goto, CacheInv, TypeOK
  <2>3. CASE Stop \/ Second \/ (\E t \in TtlSettings : Start(t)) \/ UNCHANGED vars
    BY <2>3 DEF Stop, Second, Start, localVars, vars
  <2>. QED
    BY <2>1, <2>2, <2>3 DEF Next
<1>. QED
  BY <1>1, <1>2, CacheInvariant, PTL DEF Spec

\* The hash table with its chains, clones and owners, under any number of
\* workers, is the map of TtlMap: rrd_cache_get is Get or invisible,
\* rrd_cache_put is Put, and nothing else changes what a key maps to.
THEOREM Refinement == Spec => ImplementsTtlMap
<1>1. Init => Abstract!Init
  <2>. SUFFICES ASSUME Init PROVE Abstract!Init
    OBVIOUS
  <2>1. (\A s \in Slots : slots[s] = <<>>) /\ \A w \in Workers : pc[w] = "idle"
    BY DEF Init
  <2>2. clock = 0 /\ ttl \in Nat
    BY CacheAssumption DEF Init
  <2>. QED
    BY <2>1, <2>2, IdleView, EmptyView DEF Abstract!Init
<1>2. CacheInv /\ CacheInv' /\ CacheUsers /\ CacheUsers' /\ [Next]_vars
        => [Abstract!Next]_(Abstract!vars)
  <2>. SUFFICES ASSUME CacheInv, CacheInv', CacheUsers, CacheUsers', [Next]_vars
                PROVE  Abstract!Next \/ UNCHANGED Abstract!vars
    OBVIOUS
  <2>1. ASSUME NEW w \in Workers, Step(w)
        PROVE  Abstract!Next \/ UNCHANGED Abstract!vars
    BY <2>1, WorkerSimulates
  <2>. QED
    BY <2>1, ProcessSimulates DEF Next
<1>. QED
  BY <1>1, <1>2, CacheInvariant, OnlyCacheUsers, PTL DEF Spec, ImplementsTtlMap, Abstract!Spec
=============================================================================
