---------------------------- MODULE ExpiringMap ----------------------------
(***************************************************************************)
(* What the cache of src/memory_opt.c promises its callers: a map from     *)
(* keys to data in which an entry may vanish at any moment (it expired,    *)
(* was deleted, or memory ran out), and in which a lookup answers with the *)
(* data last stored under the key or with nothing.  In particular an       *)
(* overwritten or vanished entry never comes back.                         *)
(***************************************************************************)
CONSTANTS Threads, Keys, Values, None

VARIABLES
    store,      \* store[k]: the data under key k, or None
    asked,      \* asked[t]: the key of the operation thread t is in, or None
    given,      \* given[t]: the data that operation stores, or None
    result      \* result[t]: what the last lookup of thread t answered

mapvars == <<store, asked, given, result>>

MapInit ==
    /\ store = [k \in Keys |-> None]
    /\ asked = [t \in Threads |-> None]
    /\ given = [t \in Threads |-> None]
    /\ result = [t \in Threads |-> None]

(* An operation begins: a store with data, anything else without.          *)
Ask(t) ==
    /\ asked[t] = None
    /\ \E k \in Keys, d \in Values \cup {None} :
         /\ asked' = [asked EXCEPT ![t] = k]
         /\ given' = [given EXCEPT ![t] = d]
    /\ result' = [result EXCEPT ![t] = None]
    /\ UNCHANGED store

(* An operation ends, or its thread still has something to do.             *)
Ends(t) ==
    \/ UNCHANGED <<asked, given>>
    \/ /\ asked' = [asked EXCEPT ![t] = None]
       /\ given' = [given EXCEPT ![t] = None]

Put(t) ==
    /\ asked[t] # None /\ given[t] # None
    /\ store' = [store EXCEPT ![asked[t]] = given[t]]
    /\ Ends(t)
    /\ UNCHANGED result

Answer(t) ==
    /\ asked[t] # None /\ given[t] = None
    /\ result' = [result EXCEPT ![t] = store[asked[t]]]
    /\ Ends(t)
    /\ UNCHANGED store

(* Nothing is stored or found; entries may vanish on the way.              *)
Vanish(t) ==
    /\ \/ UNCHANGED store
       \/ \E k \in Keys : store' = [store EXCEPT ![k] = None]
    /\ result' \in {result, [result EXCEPT ![t] = None]}
    /\ Ends(t)

MapNext == \E t \in Threads : Ask(t) \/ Put(t) \/ Answer(t) \/ Vanish(t)

MapSpec == MapInit /\ [][MapNext]_mapvars

=============================================================================
