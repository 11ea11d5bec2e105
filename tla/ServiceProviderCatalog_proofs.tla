-------------------- MODULE ServiceProviderCatalog_proofs --------------------
(***************************************************************************)
(* Theorems about ServiceProviderCatalog, for any threads and              *)
(* organizations: the catalog is never behind the map, answers are         *)
(* complete, and catalog and map agree whenever nobody registers.          *)
(***************************************************************************)
EXTENDS ServiceProviderCatalog, TLAPS

Registering == {"add", "addDomains", "put"}
Refreshing  == Loops \cup Registering \cup {"readBmx", "enter", "answer"}

(* A request for providers has the monitor until it answers; a thread that *)
(* registers has the monitor and an organization, and has done what its    *)
(* place in registerIotpServiceProviderNoSync says.                        *)
Registrations ==
  \A t \in Threads :
    /\ kind[t] # "catalog" /\ pc[t] \notin {"idle", "lock"} => monitor = t
    /\ pc[t] \in Registering => monitor = t
    /\ pc[t] \in Registering \cup {"enter"} => current[t] \in Ids
    /\ pc[t] \in {"addDomains", "put"} => listed[current[t]] > 0
    /\ pc[t] = "put" => Domain(current[t]) \in domains

(* What a request has found and not yet looked at, it still has to do.     *)
Progress ==
  \A t \in Threads :
    /\ pc[t] \in Refreshing => found[t] \ todo[t] \subseteq registered
    /\ pc[t] \notin Refreshing => found[t] = {} /\ todo[t] = {}
    /\ pc[t] \in {"answer", "readBmx"} => todo[t] = {}

(* What the catalog lists is in the map, but for what is being registered. *)
NothingExtra ==
  /\ \A id \in Ids : listed[id] > 0 =>
       \/ id \in registered
       \/ \E t \in Threads : pc[t] \in {"addDomains", "put"} /\ current[t] = id
  /\ \A d \in domains :
       \/ \E id \in registered : Domain(id) = d
       \/ \E t \in Threads : pc[t] = "put" /\ Domain(current[t]) = d

Inv == TypeOK /\ CatalogLeadsMap /\ Registrations /\ Progress /\ NothingExtra

LEMMA InitInv == Init => Inv
BY DEF Init, Inv, TypeOK, CatalogLeadsMap, Registrations, Progress, NothingExtra, PCs,
       Registering, Refreshing, Loops

LEMMA StepInv == Inv /\ [Next]_vars => Inv'
<1>. SUFFICES ASSUME Inv, [Next]_vars PROVE Inv'
  OBVIOUS
<1>. USE ConstantsAssumption
     DEF Inv, TypeOK, CatalogLeadsMap, Registrations, Progress, NothingExtra, PCs,
         Registering, Refreshing, Loops, At, Goto, static, Domains, Domain
<1>1. ASSUME NEW t \in Threads, NEW request \in Requests, NEW id \in Ids \cup {NULL},
             Receive(t, request, id), UNCHANGED hung
      PROVE  Inv'
  BY <1>1 DEF Receive
<1>2. ASSUME NEW t \in Threads, Lock(t), UNCHANGED hung PROVE Inv'
  BY <1>2 DEF Lock
<1>3. ASSUME NEW t \in Threads, Lookup(t), UNCHANGED hung PROVE Inv'
  BY <1>3 DEF Lookup
<1>4. ASSUME NEW t \in Threads, NEW orgs \in SUBSET IotOrgs,
             ReadIotOrganizations(t, orgs), UNCHANGED hung
      PROVE  Inv'
  BY <1>4 DEF ReadIotOrganizations, Read, Ids
<1>5. ASSUME NEW t \in Threads, NEW orgs \in SUBSET BmxOrgs,
             ReadBmxOrganizations(t, orgs), UNCHANGED hung
      PROVE  Inv'
  BY <1>5 DEF ReadBmxOrganizations, Read, Ids
<1>6. ASSUME NEW t \in Threads, NEW id \in Ids, Skip(t, id), UNCHANGED hung PROVE Inv'
  BY <1>6 DEF Skip
<1>7. ASSUME NEW t \in Threads, NEW id \in Ids, Create(t, id), UNCHANGED hung PROVE Inv'
  BY <1>7 DEF Create
<1>8. ASSUME NEW t \in Threads, EnterRegister(t), UNCHANGED hung PROVE Inv'
  BY <1>8 DEF EnterRegister
<1>9. ASSUME NEW t \in Threads, AddServiceProvider(t), UNCHANGED hung PROVE Inv'
  BY <1>9 DEF AddServiceProvider
<1>10. ASSUME NEW t \in Threads, AddDomains(t), UNCHANGED hung PROVE Inv'
  BY <1>10 DEF AddDomains
<1>11. ASSUME NEW t \in Threads, Put(t), UNCHANGED hung PROVE Inv'
  <2>1. /\ pc[t] = "put" /\ monitor = t /\ current[t] \in Ids
        /\ listed[current[t]] > 0 /\ Domain(current[t]) \in domains
    BY <1>11 DEF Put
  <2>2. \A u \in Threads : u # t => pc[u] \notin {"add", "addDomains", "put"}
    BY <2>1
  <2>3. /\ pc' = [pc EXCEPT ![t] = Loop(current[t])] /\ Loop(current[t]) \in Loops
        /\ registered' = registered \cup {current[t]}
        /\ todo' = [todo EXCEPT ![t] = @ \ {current[t]}]
        /\ current' = [current EXCEPT ![t] = NULL]
        /\ UNCHANGED <<listed, domains, kind, wanted, found, hung>>
        /\ monitor' = IF kind[t] = "catalog" THEN NULL ELSE t
    BY <1>11 DEF Put, Loop
  <2>4. TypeOK'
    BY <2>1, <2>3
  <2>5. CatalogLeadsMap'
    BY <2>1, <2>3
  <2>6. Registrations'
    BY <2>1, <2>2, <2>3
  <2>7. Progress'
    BY <2>1, <2>3
  <2>8. NothingExtra'
    BY <2>1, <2>2, <2>3
  <2>. QED
    BY <2>4, <2>5, <2>6, <2>7, <2>8
<1>12. ASSUME NEW t \in Threads, LoopEnds(t), UNCHANGED hung PROVE Inv'
  BY <1>12 DEF LoopEnds
<1>13. ASSUME NEW t \in Threads, Answer(t), UNCHANGED hung PROVE Inv'
  BY <1>13 DEF Answer, Return
<1>14. ASSUME NEW t \in Threads, Fails(t), UNCHANGED hung PROVE Inv'
  BY <1>14 DEF Fails, Return
<1>15. ASSUME NEW t \in Threads, CallHangs(t) PROVE Inv'
  BY <1>15 DEF CallHangs
<1>16. ASSUME UNCHANGED vars PROVE Inv'
  BY <1>16 DEF vars
<1>. QED
  BY <1>1, <1>2, <1>3, <1>4, <1>5, <1>6, <1>7, <1>8, <1>9, <1>10, <1>11, <1>12, <1>13, <1>14,
     <1>15, <1>16
     DEF Next, Work, Step

LEMMA InvHolds == Spec => []Inv
BY InitInv, StepInv, PTL DEF Spec

(* Every variable of the catalog has its type in every behaviour.          *)
THEOREM CatalogTypeCorrect == Spec => []TypeOK
BY InvHolds, PTL DEF Inv

(* A reader without the monitor never finds an organization in the map     *)
(* that the catalog, or its domains, lack.                                 *)
THEOREM CatalogNeverBehind == Spec => []CatalogLeadsMap
BY InvHolds, PTL DEF Inv

(* An answer's catalog has every organization its user was said to have,   *)
(* whichever threads registered them.                                      *)
THEOREM CompleteAnswers == Spec => []AnswersAreComplete
<1>1. Inv => AnswersAreComplete
  BY DEF Inv, Progress, CatalogLeadsMap, AnswersAreComplete, Refreshing, At
<1>. QED
  BY <1>1, InvHolds, PTL

(* Catalog, domains and map agree while the monitor is free.               *)
THEOREM CatalogAgrees == Spec => []CatalogMatchesMap
<1>1. Inv => CatalogMatchesMap
  BY ConstantsAssumption
     DEF Inv, TypeOK, CatalogLeadsMap, NothingExtra, Registrations, CatalogMatchesMap, Registering
<1>. QED
  BY <1>1, InvHolds, PTL

(* What a request is going to register inside the monitor is not listed.   *)
Unlisted ==
  \A t \in Threads : kind[t] # "catalog" /\ pc[t] \in {"enter", "add"} => listed[current[t]] = 0

LEMMA StepUnlisted == Inv /\ Unlisted /\ [Next]_vars => Unlisted'
<1> SUFFICES ASSUME Inv, Unlisted, [Next]_vars PROVE Unlisted'
  OBVIOUS
<1> USE DEF Unlisted, At, Goto
<1>1. /\ registered \in SUBSET Ids /\ listed \in [Ids -> Nat]
      /\ pc \in [Threads -> PCs] /\ kind \in [Threads -> {"catalog", "list", "get"}]
      /\ current \in [Threads -> Ids \cup {NULL}] /\ monitor \in Threads \cup {NULL}
  BY DEF Inv, TypeOK
<1>2. ASSUME NEW t \in Threads, NEW id \in Ids, Create(t, id)
      PROVE  Unlisted'
  <2>1. kind[t] # "catalog" => listed[id] = 0
    <3> SUFFICES ASSUME kind[t] # "catalog", listed[id] > 0 PROVE FALSE
      BY <1>1
    <3>1. pc[t] \in Loops /\ id \notin registered /\ monitor = t
      BY <1>2 DEF Create, MayMiss, Loops, Inv, Registrations
    <3>2. PICK u \in Threads : pc[u] \in {"addDomains", "put"} /\ current[u] = id
      BY <3>1 DEF Inv, NothingExtra
    <3>3. u = t
      BY <3>1, <3>2 DEF Inv, Registrations, Registering
    <3> QED BY <3>1, <3>2, <3>3 DEF Loops
  <2>2. /\ pc' = [pc EXCEPT ![t] = "enter"] /\ current' = [current EXCEPT ![t] = id]
        /\ UNCHANGED <<listed, kind>>
    BY <1>2 DEF Create, static
  <2> QED BY <1>1, <2>1, <2>2
<1>3. ASSUME NEW t \in Threads, AddServiceProvider(t)
      PROVE  Unlisted'
  <2>1. /\ pc[t] = "add" /\ monitor = t /\ current[t] \in Ids
        /\ pc' = [pc EXCEPT ![t] = "addDomains"]
        /\ listed' = [listed EXCEPT ![current[t]] = listed[current[t]] + 1]
        /\ UNCHANGED <<kind, current>>
    BY <1>3 DEF AddServiceProvider, Inv, Registrations, Registering
  <2>2. \A u \in Threads \ {t} : kind[u] # "catalog" => pc[u] \notin {"enter", "add"}
    BY <2>1 DEF Inv, Registrations
  <2> QED BY <1>1, <2>1, <2>2
<1>4. ASSUME NEW t \in Threads, NEW request \in Requests, NEW id \in Ids \cup {NULL},
             Receive(t, request, id)
      PROVE  Unlisted'
  BY <1>1, <1>4 DEF Receive, static
<1>5. ASSUME NEW t \in Threads, Lock(t) \/ Lookup(t) \/ EnterRegister(t) \/ AddDomains(t) \/ LoopEnds(t)
      PROVE  Unlisted'
  BY <1>1, <1>5 DEF Lock, Lookup, EnterRegister, AddDomains, LoopEnds, static
<1>6. ASSUME NEW t \in Threads, Put(t) \/ Answer(t) \/ Fails(t) \/ CallHangs(t)
      PROVE  Unlisted'
  BY <1>1, <1>6 DEF Put, Answer, Fails, Return, CallHangs, Loop, static
<1>7. ASSUME NEW t \in Threads, NEW orgs,
             ReadIotOrganizations(t, orgs) \/ ReadBmxOrganizations(t, orgs)
      PROVE  Unlisted'
  BY <1>1, <1>7 DEF ReadIotOrganizations, ReadBmxOrganizations, Read, static
<1>8. ASSUME NEW t \in Threads, NEW id \in Ids, Skip(t, id)
      PROVE  Unlisted'
  BY <1>8 DEF Skip, static
<1>9. CASE UNCHANGED vars
  BY <1>9 DEF vars, static
<1> QED BY <1>2, <1>3, <1>4, <1>5, <1>6, <1>7, <1>8, <1>9 DEF Next, Work, Step

(* A request that holds the monitor registers nothing a second time, for   *)
(* any number of requests that do not hold it.                             *)
THEOREM MonitorRegistersOnce == Spec => []MonitorListsOnce
<1>1. Init => Unlisted
  BY DEF Init, Unlisted
<1>2. Unlisted => MonitorListsOnce
  BY DEF Unlisted, MonitorListsOnce, At
<1> QED BY <1>1, <1>2, InvHolds, InitInv, StepInv, StepUnlisted, PTL DEF Spec

(* What any request is going to register is not listed.                    *)
NotListed == \A t \in Threads : pc[t] \in {"enter", "add"} => listed[current[t]] = 0

ListedInv == NotListed /\ ListedOnce

LEMMA StepListed == Inv /\ CatalogAlone /\ ListedInv /\ [Next]_vars => ListedInv'
<1>. SUFFICES ASSUME Inv, CatalogAlone, NotListed, ListedOnce, [Next]_vars PROVE ListedInv'
  BY DEF ListedInv
<1>. USE DEF ListedInv, NotListed, ListedOnce, At, Goto
<1>1. /\ registered \in SUBSET Ids /\ listed \in [Ids -> Nat]
      /\ pc \in [Threads -> PCs] /\ kind \in [Threads -> {"catalog", "list", "get"}]
      /\ current \in [Threads -> Ids \cup {NULL}] /\ monitor \in Threads \cup {NULL}
  BY DEF Inv, TypeOK
<1>2. ASSUME NEW t \in Threads, NEW id \in Ids, Create(t, id) PROVE ListedInv'
  <2>1. pc[t] \in Loops /\ \A u \in Threads : pc[u] = "put" /\ u # t => kind[t] # "catalog"
    BY <1>2 DEF Create, CatalogAlone, Loops
  <2>2. id \notin registered
    BY <1>2, <2>1 DEF Create, MayMiss
  <2>3. listed[id] = 0
    <3>. SUFFICES ASSUME listed[id] > 0 PROVE FALSE
      BY <1>1
    <3>1. PICK u \in Threads : pc[u] \in {"addDomains", "put"} /\ current[u] = id
      BY <2>2 DEF Inv, NothingExtra
    <3>2. u # t
      BY <2>1, <3>1 DEF Loops
    <3>3. CASE kind[t] = "catalog"
      BY <2>1, <3>1, <3>2, <3>3 DEF CatalogAlone, Loops
    <3>4. CASE kind[t] # "catalog"
      BY <2>1, <3>1, <3>2, <3>4 DEF Inv, Registrations, Registering, Loops
    <3>. QED
      BY <3>3, <3>4
  <2>4. /\ pc' = [pc EXCEPT ![t] = "enter"] /\ current' = [current EXCEPT ![t] = id]
        /\ UNCHANGED listed
    BY <1>2 DEF Create, static
  <2>. QED
    BY <1>1, <2>3, <2>4
<1>3. ASSUME NEW t \in Threads, AddServiceProvider(t) PROVE ListedInv'
  <2>1. /\ pc[t] = "add" /\ monitor = t /\ current[t] \in Ids
        /\ pc' = [pc EXCEPT ![t] = "addDomains"]
        /\ listed' = [listed EXCEPT ![current[t]] = listed[current[t]] + 1]
        /\ UNCHANGED current
    BY <1>3 DEF AddServiceProvider, Inv, Registrations, Registering
  <2>2. \A u \in Threads \ {t} : pc[u] \notin {"enter", "add"}
    <3>. SUFFICES ASSUME NEW u \in Threads \ {t}, pc[u] \in {"enter", "add"} PROVE FALSE
      OBVIOUS
    <3>1. CASE kind[u] = "catalog"
      BY <2>1, <3>1 DEF CatalogAlone
    <3>2. CASE kind[u] # "catalog"
      BY <2>1, <3>2 DEF Inv, Registrations
    <3>. QED
      BY <3>1, <3>2
  <2>3. ListedOnce'
    BY <1>1, <2>1
  <2>. QED
    BY <1>1, <2>1, <2>2, <2>3
<1>4. ASSUME NEW t \in Threads, NEW request \in Requests, NEW id \in Ids \cup {NULL},
             Receive(t, request, id)
      PROVE  ListedInv'
  BY <1>1, <1>4 DEF Receive, static
<1>5. ASSUME NEW t \in Threads, Lock(t) \/ Lookup(t) \/ EnterRegister(t) \/ AddDomains(t) \/ LoopEnds(t)
      PROVE  ListedInv'
  BY <1>1, <1>5 DEF Lock, Lookup, EnterRegister, AddDomains, LoopEnds, static
<1>6. ASSUME NEW t \in Threads, Put(t) \/ Answer(t) \/ Fails(t) \/ CallHangs(t) PROVE ListedInv'
  BY <1>1, <1>6 DEF Put, Answer, Fails, Return, CallHangs, Loop, static
<1>7. ASSUME NEW t \in Threads, NEW orgs,
             ReadIotOrganizations(t, orgs) \/ ReadBmxOrganizations(t, orgs)
      PROVE  ListedInv'
  BY <1>1, <1>7 DEF ReadIotOrganizations, ReadBmxOrganizations, Read, static
<1>8. ASSUME NEW t \in Threads, NEW id \in Ids, Skip(t, id) PROVE ListedInv'
  BY <1>8 DEF Skip, static
<1>9. CASE UNCHANGED vars
  BY <1>9 DEF vars, static
<1>. QED
  BY <1>2, <1>3, <1>4, <1>5, <1>6, <1>7, <1>8, <1>9 DEF Next, Work, Step

(* No organization is listed twice unless a catalog request overlaps with  *)
(* another request: the monitor orders all the others.                     *)
THEOREM CatalogAloneListsOnce == Spec => ListedOnceIfCatalogAlone
<1>1. Init => ListedInv
  BY DEF Init, ListedInv, NotListed, ListedOnce
<1>2. ListedInv => ListedOnce
  BY DEF ListedInv
<1>. QED
  BY <1>1, <1>2, InitInv, StepInv, StepListed, PTL DEF Spec, ListedOnceIfCatalogAlone
==============================================================================
