------------------------------ MODULE LRUCache ------------------------------
(***************************************************************************)
(* Lyo's LRUCache, a LinkedHashMap in access order that drops its eldest   *)
(* entry beyond a capacity.  A cache is a record of two functions: the age *)
(* of each key, 1 for the one used last and 0 for one that is absent, and  *)
(* its value.  A key that is present may have the value NULL.              *)
(***************************************************************************)
EXTENDS Naturals

CONSTANTS Keys, Values, Capacity, NULL

Caches == [age : [Keys -> 0 .. Capacity], value : [Keys -> Values \cup {NULL}]]

EmptyCache == [age |-> [k \in Keys |-> 0], value |-> [k \in Keys |-> NULL]]

Present(cache, key) == cache.age[key] > 0

(* The ages after key is used: what was used after it moves up by one, and *)
(* is dropped beyond the capacity.                                         *)
Used(cache, key) ==
  LET older(k) == Present(cache, k) /\ (cache.age[k] < cache.age[key] \/ ~Present(cache, key))
      age(k) == IF older(k) THEN cache.age[k] + 1 ELSE cache.age[k]
  IN [k \in Keys |-> IF k = key THEN 1 ELSE IF age(k) <= Capacity THEN age(k) ELSE 0]

Get(cache, key) ==
  IF Present(cache, key) THEN [cache EXCEPT !.age = Used(cache, key)] ELSE cache

Put(cache, key, value) ==
  LET age == Used(cache, key)
  IN [age |-> age,
      value |-> [k \in Keys |-> CASE k = key -> value
                                  [] k # key /\ age[k] = 0 -> NULL
                                  [] OTHER -> cache.value[k]]]

Remove(cache, key) ==
  LET younger(k) == Present(cache, key) /\ cache.age[k] > cache.age[key]
  IN [age |-> [k \in Keys |-> CASE k = key -> 0
                                [] younger(k) -> cache.age[k] - 1
                                [] OTHER -> cache.age[k]],
      value |-> [cache.value EXCEPT ![key] = NULL]]
=============================================================================
