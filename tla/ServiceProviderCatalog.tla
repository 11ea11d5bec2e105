----------------------- MODULE ServiceProviderCatalog -----------------------
(***************************************************************************)
(* ServiceProviderCatalogSingleton: one static catalog and one static map  *)
(* for all users, filled lazily.  Each request asks the IoT Platform and   *)
(* Bluemix for the organizations its user can see and registers those the  *)
(* map does not have.  Requests for a service provider, or for all of      *)
(* them, do so inside synchronized (serviceProviders); requests for the    *)
(* catalog take that monitor only to register.                             *)
(***************************************************************************)
EXTENDS Naturals, FiniteSets

CONSTANTS
  Threads,    \* the servlet container's request threads
  IotOrgs,    \* ids of the IoT Platform organizations
  BmxOrgs,    \* ids of the Bluemix organizations
  Requests,   \* the kinds of requests the clients make
  MaxListed,  \* bound on the times a key is missed (see MayMiss)
  NULL        \* no thread, no organization

Ids == IotOrgs \cup BmxOrgs

ASSUME ConstantsAssumption ==
  /\ IotOrgs \cap BmxOrgs = {}
  /\ Requests \subseteq {"catalog", "list", "get"}
  /\ MaxListed \in Nat
  /\ NULL \notin Threads
  /\ NULL \notin Ids

VARIABLES
  registered,  \* the keys of serviceProviders
  listed,      \* how many providers of each organization the catalog lists
  domains,     \* the catalog's domains
  monitor,     \* the thread inside synchronized (serviceProviders), or NULL
  pc,
  kind,        \* the kind of each thread's request
  wanted,      \* the organization a "get" asks for
  found,       \* the organizations this request's user was said to have
  todo,        \* those of the present loop that are still to come
  current,     \* the organization being registered
  hung         \* the threads whose read never ends

static == <<registered, listed, domains>>
vars == <<static, monitor, pc, kind, wanted, found, todo, current, hung>>

Domains == {"iotp", "bluemix"}
Domain(id) == IF id \in IotOrgs THEN "iotp" ELSE "bluemix"

PCs == {"idle", "lock", "lookup", "readIot", "iotLoop", "readBmx", "bmxLoop",
        "enter", "add", "addDomains", "put", "answer"}
Loops == {"iotLoop", "bmxLoop"}
Loop(id) == IF id \in IotOrgs THEN "iotLoop" ELSE "bmxLoop"

Init ==
  /\ registered = {} /\ domains = {}
  /\ listed = [id \in Ids |-> 0]
  /\ monitor = NULL
  /\ pc = [t \in Threads |-> "idle"]
  /\ kind = [t \in Threads |-> "catalog"]
  /\ wanted = [t \in Threads |-> NULL]
  /\ found = [t \in Threads |-> {}]
  /\ todo = [t \in Threads |-> {}]
  /\ current = [t \in Threads |-> NULL]
  /\ hung = {}

At(t, here) == pc[t] = here
Goto(t, there) == pc' = [pc EXCEPT ![t] = there]

(* The catalog is read without the monitor, the other requests need it.    *)
Receive(t, request, id) ==
  /\ At(t, "idle")
  /\ request \in Requests
  /\ id # NULL <=> request = "get"
  /\ kind' = [kind EXCEPT ![t] = request]
  /\ wanted' = [wanted EXCEPT ![t] = id]
  /\ Goto(t, IF request = "catalog" THEN "readIot" ELSE "lock")
  /\ UNCHANGED <<static, monitor, found, todo, current>>

Lock(t) ==
  /\ At(t, "lock") /\ monitor = NULL
  /\ monitor' = t
  /\ Goto(t, "lookup")
  /\ UNCHANGED <<static, kind, wanted, found, todo, current>>

(* getIotpServiceProvider and getBmxServiceProvider refresh only when the  *)
(* map lacks the organization, getServiceProviders always.                 *)
Lookup(t) ==
  /\ At(t, "lookup")
  /\ Goto(t, IF wanted[t] \in registered THEN "answer" ELSE "readIot")
  /\ UNCHANGED <<static, monitor, kind, wanted, found, todo, current>>

(* The client's organizations: what the user can see at that time, or none *)
(* when reading them fails, which IoTAPIImplementation only logs.          *)
Read(t, here, there, orgs) ==
  /\ At(t, here)
  /\ found' = [found EXCEPT ![t] = @ \cup orgs]
  /\ todo' = [todo EXCEPT ![t] = orgs]
  /\ Goto(t, there)
  /\ UNCHANGED <<static, monitor, kind, wanted, current>>

ReadIotOrganizations(t, orgs) == Read(t, "readIot", "iotLoop", orgs)
ReadBmxOrganizations(t, orgs) == Read(t, "readBmx", "bmxLoop", orgs)

Skip(t, id) ==
  /\ pc[t] \in Loops /\ id \in todo[t] /\ id \in registered
  /\ todo' = [todo EXCEPT ![t] = @ \ {id}]
  /\ UNCHANGED <<static, monitor, pc, kind, wanted, found, current>>

(* A catalog request reads the TreeMap while another thread puts: on its   *)
(* way through a tree that is being rebalanced it can miss a key.          *)
MayMiss(t, id) ==
  /\ kind[t] = "catalog"
  /\ \E u \in Threads \ {t} : At(u, "put")
  /\ listed[id] < MaxListed

(* Mutant: a request that holds the monitor does not look into the map.    *)
Create_Unchecked(t, id) ==
  /\ pc[t] \in Loops /\ id \in todo[t]
  /\ listed[id] < MaxListed
  /\ current' = [current EXCEPT ![t] = id]
  /\ Goto(t, "enter")
  /\ UNCHANGED <<static, monitor, kind, wanted, found, todo>>

(* Mutant: the new provider's identifier is not kept.                      *)
Create_NoIdentifier(t, id) ==
  /\ pc[t] \in Loops /\ id \in todo[t] /\ id \notin registered
  /\ Goto(t, "enter")
  /\ UNCHANGED <<static, monitor, kind, wanted, found, todo, current>>

(* The check, which a catalog request makes without the monitor ...        *)
Create(t, id) ==
  /\ pc[t] \in Loops /\ id \in todo[t]
  /\ id \notin registered \/ MayMiss(t, id)
  /\ current' = [current EXCEPT ![t] = id]
  /\ Goto(t, "enter")
  /\ UNCHANGED <<static, monitor, kind, wanted, found, todo>>

(* ... and the registration, which takes it, or already holds it.          *)
EnterRegister(t) ==
  /\ At(t, "enter") /\ monitor \in {NULL, t}
  /\ monitor' = t
  /\ Goto(t, "add")
  /\ UNCHANGED <<static, kind, wanted, found, todo, current>>

(* Mutant: the domains of the second kind of organization are forgotten.   *)
AddDomains_IotOnly(t) ==
  /\ At(t, "addDomains")
  /\ domains' = domains \cup ({Domain(current[t])} \cap {"iotp"})
  /\ Goto(t, "put")
  /\ UNCHANGED <<registered, listed, monitor, kind, wanted, found, todo, current>>

(* Mutant: the map is updated as the registration begins.                  *)
AddServiceProvider_PutFirst(t) ==
  /\ At(t, "add")
  /\ registered' = registered \cup {current[t]}
  /\ listed' = [listed EXCEPT ![current[t]] = @ + 1]
  /\ Goto(t, "addDomains")
  /\ UNCHANGED <<domains, monitor, kind, wanted, found, todo, current>>

AddServiceProvider(t) ==
  /\ At(t, "add")
  /\ listed' = [listed EXCEPT ![current[t]] = @ + 1]
  /\ Goto(t, "addDomains")
  /\ UNCHANGED <<registered, domains, monitor, kind, wanted, found, todo, current>>

AddDomains(t) ==
  /\ At(t, "addDomains")
  /\ domains' = domains \cup {Domain(current[t])}
  /\ Goto(t, "put")
  /\ UNCHANGED <<registered, listed, monitor, kind, wanted, found, todo, current>>

(* Mutant: a registration inside a held monitor gives it up.               *)
Put_Releases(t) ==
  /\ At(t, "put")
  /\ registered' = registered \cup {current[t]}
  /\ monitor' = NULL
  /\ todo' = [todo EXCEPT ![t] = @ \ {current[t]}]
  /\ current' = [current EXCEPT ![t] = NULL]
  /\ Goto(t, Loop(current[t]))
  /\ UNCHANGED <<listed, domains, kind, wanted, found>>

Put(t) ==
  /\ At(t, "put")
  /\ registered' = registered \cup {current[t]}
  /\ monitor' = IF kind[t] = "catalog" THEN NULL ELSE t
  /\ todo' = [todo EXCEPT ![t] = @ \ {current[t]}]
  /\ current' = [current EXCEPT ![t] = NULL]
  /\ Goto(t, Loop(current[t]))
  /\ UNCHANGED <<listed, domains, kind, wanted, found>>

(* Mutant: the loop over the organizations stops one short.                *)
LoopEnds_OneShort(t) ==
  /\ pc[t] \in Loops /\ Cardinality(todo[t]) <= 1
  /\ todo' = [todo EXCEPT ![t] = {}]
  /\ Goto(t, IF At(t, "iotLoop") THEN "readBmx" ELSE "answer")
  /\ UNCHANGED <<static, monitor, kind, wanted, found, current>>

LoopEnds(t) ==
  /\ pc[t] \in Loops /\ todo[t] = {}
  /\ Goto(t, IF At(t, "iotLoop") THEN "readBmx" ELSE "answer")
  /\ UNCHANGED <<static, monitor, kind, wanted, found, todo, current>>

(* Mutant: the monitor is kept when the answer is given.                   *)
Return_KeepsMonitor(t) ==
  /\ kind' = [kind EXCEPT ![t] = "catalog"]
  /\ wanted' = [wanted EXCEPT ![t] = NULL]
  /\ found' = [found EXCEPT ![t] = {}]
  /\ todo' = [todo EXCEPT ![t] = {}]
  /\ Goto(t, "idle")
  /\ UNCHANGED <<static, monitor, current>>

Return(t) ==
  /\ monitor' = IF kind[t] = "catalog" THEN monitor ELSE NULL
  /\ kind' = [kind EXCEPT ![t] = "catalog"]
  /\ wanted' = [wanted EXCEPT ![t] = NULL]
  /\ found' = [found EXCEPT ![t] = {}]
  /\ todo' = [todo EXCEPT ![t] = {}]
  /\ Goto(t, "idle")
  /\ UNCHANGED <<static, current>>

(* The answer: the live catalog, the map's values, a provider or 404.      *)
Answer(t) == At(t, "answer") /\ Return(t)

(* Status 500 in the middle of a loop: an entry that getServiceProvider-   *)
(* Infos left null when it failed half way, or no provider to be created.  *)
Fails(t) == pc[t] \in Loops /\ Return(t)

(* A read never ends: neither the client that logs in to the IoT Platform  *)
(* again nor the one of Bluemix has timeouts, and refusals of Bluemix use  *)
(* up the connections of its pool.                                         *)
CallHangs(t) ==
  /\ pc[t] \in {"readIot", "readBmx"}
  /\ t \notin hung /\ hung' = hung \cup {t}
  /\ UNCHANGED <<static, monitor, pc, kind, wanted, found, todo, current>>

Step(t) ==
  \/ Lookup(t) \/ EnterRegister(t) \/ AddServiceProvider(t) \/ AddDomains(t) \/ Put(t)
  \/ LoopEnds(t) \/ Answer(t) \/ Fails(t)
  \/ \E orgs \in SUBSET IotOrgs : ReadIotOrganizations(t, orgs)
  \/ \E orgs \in SUBSET BmxOrgs : ReadBmxOrganizations(t, orgs)
  \/ \E id \in Ids : Skip(t, id) \/ Create(t, id)

Work(t) == t \notin hung /\ Step(t) /\ UNCHANGED hung

Next ==
  \E t \in Threads :
    \/ \E request \in Requests, id \in Ids \cup {NULL} :
         Receive(t, request, id) /\ UNCHANGED hung
    \/ Lock(t) /\ UNCHANGED hung
    \/ Work(t)
    \/ CallHangs(t)

Spec == Init /\ [][Next]_vars

(* A request goes on unless a call of its never ends (CallHangs).  Whether *)
(* a thread ever gets a monitor that others keep taking is not assumed.    *)
Fairness == \A t \in Threads : WF_vars(Work(t))
FairSpec == Spec /\ Fairness

-----------------------------------------------------------------------------
(* Every variable has its type.                                            *)
TypeOK ==
  /\ registered \in SUBSET Ids
  /\ listed \in [Ids -> Nat]
  /\ domains \in SUBSET Domains
  /\ monitor \in Threads \cup {NULL}
  /\ pc \in [Threads -> PCs]
  /\ kind \in [Threads -> {"catalog", "list", "get"}]
  /\ wanted \in [Threads -> Ids \cup {NULL}]
  /\ found \in [Threads -> SUBSET Ids] /\ todo \in [Threads -> SUBSET Ids]
  /\ current \in [Threads -> Ids \cup {NULL}]
  /\ hung \subseteq Threads

(* The catalog may be read at any time: it is never behind the map, so a   *)
(* request that skips an organization because the map has it answers with  *)
(* a catalog that lists it, and its domain.                                *)
CatalogLeadsMap ==
  \A id \in registered : listed[id] > 0 /\ Domain(id) \in domains

(* When a request answers, every organization that its user was said to    *)
(* have is in the catalog and in the map, whoever registered it.           *)
AnswersAreComplete ==
  \A t \in Threads : At(t, "answer") =>
    \A id \in found[t] : id \in registered /\ listed[id] > 0 /\ Domain(id) \in domains

(* While nobody registers, catalog, domains and map agree.                 *)
CatalogMatchesMap ==
  monitor = NULL =>
    /\ registered = {id \in Ids : listed[id] > 0}
    /\ domains = {Domain(id) : id \in registered}

(* A service provider is created and registered for each organization: the *)
(* catalog lists no organization twice, as long as no request runs while   *)
(* one for the catalog does.  Two catalog requests may both look into the  *)
(* map, which they do without the monitor, before either registers.        *)
ListedOnce == \A id \in Ids : listed[id] <= 1
CatalogAlone ==
  \A t, u \in Threads : kind[t] = "catalog" /\ pc[t] # "idle" /\ pc[u] # "idle" => t = u
ListedOnceIfCatalogAlone == []CatalogAlone => []ListedOnce

(* A request that refreshes inside the monitor looks into the map and      *)
(* registers in one critical section: what it registers is in no catalog,  *)
(* although catalog requests that registered the same organization may     *)
(* have come in between.                                                   *)
MonitorListsOnce ==
  \A t \in Threads : kind[t] \in {"list", "get"} /\ At(t, "add") => listed[current[t]] = 0

(* Whoever holds the monitor gives it back, also when its request fails;   *)
(* only a read that never ends keeps it for ever, and then every request   *)
(* for service providers waits.                                            *)
MonitorReleased == \A t \in Threads : monitor = t ~> (monitor # t \/ t \in hung)
=============================================================================
