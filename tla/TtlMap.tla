------------------------------- MODULE TtlMap -------------------------------
(***************************************************************************)
(* What include/rrd/cache.h promises: a map from keys to values in which a *)
(* value is found for `life' seconds after it was put and no longer, and   *)
(* in which callers get copies that nothing can change afterwards.  There  *)
(* are no slots, chains, objects or owners here.                           *)
(***************************************************************************)
EXTENDS Integers

CONSTANTS Keys, Values, Callers, Absent

VARIABLES
    now,     \* the wall clock, in seconds
    life,    \* time to live of a value
    store,   \* Absent, or the value of a key and when it expires
    asked,   \* the key each caller is working on, or Absent
    served   \* the copy each caller holds, or Absent

vars == <<now, life, store, asked, served>>

Empty == [k \in Keys |-> Absent]
Nobody == [c \in Callers |-> Absent]

Init ==
    /\ now = 0
    /\ life \in Nat
    /\ store = Empty
    /\ asked = Nobody
    /\ served = Nobody

Boot ==
    /\ store = Empty /\ asked = Nobody /\ served = Nobody
    /\ life' \in Nat \ {0}
    /\ UNCHANGED <<now, store, asked, served>>

Ask(c) ==
    /\ asked[c] = Absent
    /\ \E k \in Keys : asked' = [asked EXCEPT ![c] = k]
    /\ UNCHANGED <<now, life, store, served>>

Get(c) ==
    LET k == asked[c]
    IN  /\ k # Absent /\ served[c] = Absent
        /\ store[k] # Absent
        /\ store[k].expires > now
        /\ served' = [served EXCEPT ![c] = store[k].value]
        /\ UNCHANGED <<now, life, store, asked>>

Put(c) ==
    /\ asked[c] # Absent
    /\ \E v \in Values :
           store' = [store EXCEPT ![asked[c]] = [value |-> v, expires |-> now + life]]
    /\ UNCHANGED <<now, life, asked, served>>

Leave(c) ==
    /\ asked[c] # Absent
    /\ asked' = [asked EXCEPT ![c] = Absent]
    /\ served' = [served EXCEPT ![c] = Absent]
    /\ UNCHANGED <<now, life, store>>

Clear ==
    /\ asked = Nobody /\ served = Nobody
    /\ store' = Empty
    /\ UNCHANGED <<now, life, asked, served>>

Second ==
    /\ now' = now + 1
    /\ UNCHANGED <<life, store, asked, served>>

Next ==
    \/ Boot \/ Clear \/ Second
    \/ \E c \in Callers : Ask(c) \/ Get(c) \/ Put(c) \/ Leave(c)

Spec == Init /\ [][Next]_vars
=============================================================================
