------------------------------ MODULE RrdCache ------------------------------
(***************************************************************************)
(* The RRD data cache of src/src/rrd/cache.c: CACHE_MAX_ENTRIES hash       *)
(* slots, each a singly linked chain of entries that own a MetricData and  *)
(* carry the second at which it expires.  Every function runs under        *)
(* cache_mutex, so each is one step for the threads that call it.          *)
(*                                                                         *)
(* MetricData objects are heap cells: `heap' maps the cells to their       *)
(* contents or to Free, so that cloning, handing over and freeing (who     *)
(* owns what) are part of the model.  The content of a cell is what the    *)
(* answers can be told apart by: the file and the period it was read for,  *)
(* whether the "sum" transform was applied, and the second of the read.    *)
(***************************************************************************)
EXTENDS Integers, Sequences

CONSTANTS
    Paths,       \* expanded RRD file paths (build_rrd_path)
    LongPaths,   \* those so long that the key buffer ends before ":<period>"
    Periods,     \* requested periods, in seconds
    Slots,       \* indices of cache_slots
    Hash,        \* the DJB2 hash modulo CACHE_MAX_ENTRIES, any function
    Objs,        \* addresses at which a MetricData can live
    MaxClock,    \* bound on time(NULL)
    TtlSettings, \* values of cache_ttl_seconds in the configuration
    DefaultTtl,  \* the 5 of rrd_cache_init
    NULL

CutPeriod == 0   \* the period part of a key that was truncated away
Keys == Paths \X (Periods \cup {CutPeriod})

ASSUME CacheAssumption ==
    /\ LongPaths \subseteq Paths
    /\ Periods \subseteq Nat \ {0}
    /\ Hash \in [Keys -> Slots]
    /\ MaxClock \in Nat
    /\ TtlSettings \subseteq Int
    /\ DefaultTtl \in Nat \ {0}

Free  == [state |-> "free"]
\* What a MetricData holds.
Data == [state : {"live"}, path : Paths, period : Periods,
         sum : BOOLEAN, at : 0..MaxClock]

Entry == [key : Keys, data : Objs, expires_at : Nat]

ASSUME NullAssumption == NULL \notin Objs \cup Keys \cup Data

VARIABLES
    clock,        \* time(NULL)
    slots,        \* cache_slots: a chain (sequence of entries) per slot
    ttl,          \* cache_ttl_seconds
    initialized,  \* cache_initialized
    heap          \* the MetricData objects

cacheVars == <<slots, ttl, initialized, heap>>

CacheTypeOK ==
    /\ clock \in 0..MaxClock
    /\ slots \in [Slots -> Seq(Entry)]
    /\ ttl \in Nat \ {0}
    /\ initialized \in BOOLEAN
    /\ heap \in [Objs -> Data \cup {Free}]

----------------------------------------------------------------------------
\* Mutant: the key is the path alone.
KeyWithoutPeriod(path, period) == <<path, CutPeriod>>

\* snprintf(buf, 512, "%s:%d", rrd_path, period): a path that fills the
\* buffer leaves no room for the period.
build_cache_key(path, period) ==
    <<path, IF path \in LongPaths THEN CutPeriod ELSE period>>

cache_hash(key) == Hash[key]

\* The walk along a chain up to the first entry with this key; 0 at its end.
Holds(chain, key) == {i \in DOMAIN chain : chain[i].key = key}
Find(chain, key) ==
    IF Holds(chain, key) = {} THEN 0
    ELSE CHOOSE i \in Holds(chain, key) :
             \A j \in Holds(chain, key) : i <= j

\* Mutant: only the head of the chain is looked at.
HitAtHead(key) ==
    LET chain == slots[cache_hash(key)]
    IN  chain # <<>> /\ chain[1].key = key /\ chain[1].expires_at > clock

\* The hit of rrd_cache_get: the key is in its chain and not yet expired.
Hit(key) ==
    LET chain == slots[cache_hash(key)]
        i     == Find(chain, key)
    IN  i # 0 /\ chain[i].expires_at > clock

FreeObjs == {o \in Objs : heap[o] = Free}

\* clone_metric_data: a deep copy of the entry's data in a new object.
clone_metric_data(dst, key) ==
    LET chain == slots[cache_hash(key)]
    IN  heap' = [heap EXCEPT ![dst] = heap[chain[Find(chain, key)].data]]

\* Mutant: a zero in the configuration is taken as it is.
InitTakesAnyTtl(ttl_seconds) == ttl' = ttl_seconds /\ initialized' = TRUE

\* rrd_cache_init: a setting that is not positive means the default.
rrd_cache_init(ttl_seconds) ==
    /\ ttl' = IF ttl_seconds > 0 THEN ttl_seconds ELSE DefaultTtl
    /\ initialized' = TRUE

\* An entry as rrd_cache_put leaves it: it owns obj, its time starts now.
Stored(key, obj) == [key |-> key, data |-> obj, expires_at |-> clock + ttl]

\* Mutant: the old data is not freed.
PutReplaceLeaks(key, obj) ==
    LET s == cache_hash(key)
        i == Find(slots[s], key)
    IN  /\ i # 0
        /\ slots' = [slots EXCEPT ![s] = [@ EXCEPT ![i] = Stored(key, obj)]]
        /\ UNCHANGED heap

\* Mutant: the entry keeps the expiry of its first put.
PutReplaceKeepsExpiry(key, obj) ==
    LET s == cache_hash(key)
        i == Find(slots[s], key)
    IN  /\ i # 0
        /\ heap' = [heap EXCEPT ![slots[s][i].data] = Free]
        /\ slots' = [slots EXCEPT ![s] = [@ EXCEPT ![i].data = obj]]

\* rrd_cache_put when the key already has an entry: the old data is freed,
\* the entry takes over obj.
PutReplace(key, obj) ==
    LET s == cache_hash(key)
        i == Find(slots[s], key)
    IN  /\ i # 0
        /\ heap' = [heap EXCEPT ![slots[s][i].data] = Free]
        /\ slots' = [slots EXCEPT ![s] = [@ EXCEPT ![i] = Stored(key, obj)]]

\* Mutant: the chain is not searched before the entry is appended.
PutAppendAlways(key, obj) ==
    LET s == cache_hash(key)
    IN  /\ slots' = [slots EXCEPT ![s] = Append(@, Stored(key, obj))]
        /\ UNCHANGED heap

\* Mutant: the new entry takes the place of the chain.
PutAppendDropsChain(key, obj) ==
    LET s == cache_hash(key)
    IN  /\ Find(slots[s], key) = 0
        /\ slots' = [slots EXCEPT ![s] = <<Stored(key, obj)>>]
        /\ UNCHANGED heap

\* rrd_cache_put of a new key: the entry goes to the end of its chain.
PutAppend(key, obj) ==
    LET s == cache_hash(key)
    IN  /\ Find(slots[s], key) = 0
        /\ slots' = [slots EXCEPT ![s] = Append(@, Stored(key, obj))]
        /\ UNCHANGED heap

\* rrd_cache_put when malloc of the entry fails: obj is neither stored nor
\* freed.
PutOutOfMemory(key) ==
    /\ Find(slots[cache_hash(key)], key) = 0
    /\ UNCHANGED <<slots, heap>>

\* rrd_cache_free: every entry's data and every entry is freed.
rrd_cache_free ==
    /\ heap' = [o \in Objs |->
           IF \E s \in Slots : \E i \in DOMAIN slots[s] : slots[s][i].data = o
           THEN Free ELSE heap[o]]
    /\ slots' = [s \in Slots |-> <<>>]
    /\ initialized' = FALSE

Tick ==
    /\ clock < MaxClock
    /\ clock' = clock + 1

----------------------------------------------------------------------------
\* Every key has at most one entry, and it is in the chain its hash names:
\* were it otherwise rrd_cache_get would answer from one entry while
\* rrd_cache_put refreshes another.
ChainsWellFormed ==
    \A s \in Slots :
        /\ \A i \in DOMAIN slots[s] : cache_hash(slots[s][i].key) = s
        /\ \A i, j \in DOMAIN slots[s] :
               slots[s][i].key = slots[s][j].key => i = j
=============================================================================
