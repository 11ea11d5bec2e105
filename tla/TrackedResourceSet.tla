------------------------- MODULE TrackedResourceSet -------------------------
(***************************************************************************)
(* TRSObject, the TRS provider's static state, and the requests of         *)
(* TrackedResourceSetService that drive it.  Nothing tells the adaptor of  *)
(* changes in the IoT Platform, so every request rescans the platform and  *)
(* compares what it finds with the last snapshot.  A scan is one           *)
(* synchronized block made of many HTTP calls: the platform changes        *)
(* between them, each of them can fail and end the request, and some have  *)
(* no time limit and may never end.                                        *)
(***************************************************************************)
EXTENDS TRSLog, FiniteSets

CONSTANTS
  Threads,     \* the servlet container's request threads
  Orgs,        \* the organizations the logged-in user can see
  Members,     \* the device types, as member URIs of the TRS
  OrgOf,       \* the organization of each device type
  Undated,     \* device types whose JSON has no updatedDateTime that parses
  OrderRange,  \* the number of values of the int changeOrder (2^32)
  NULL,        \* Java's null, and no thread
  MaxClock,    \* bound on the changes of the platform
  MaxFaults,   \* bound on the calls that fail for a reason of their own
  MaxOrder,    \* bound: no new request once changeOrder is there
  MaxLog       \* bound: no new request once the log is that long

ASSUME ConstantsAssumption ==
  /\ OrgOf \in [Members -> Orgs]
  /\ Undated \subseteq Members
  /\ OrderRange \in Nat \ {0}
  /\ MaxClock \in Nat /\ MaxFaults \in Nat /\ MaxOrder \in Nat /\ MaxLog \in Nat
  /\ NULL \notin Threads
  /\ \A S \in SUBSET Members : S # NULL

Absent == 0   \* the platform has no such device type
NoDate == 0   \* a null Date: getUpdated returned null, or the map has no entry

VARIABLES
  platform,       \* the time of each device type's last change, or Absent
  clock,          \* the platform's time: its last change
  hung,           \* the threads whose call never ends
  faults,         \* calls that failed so far
  mutex,          \* the thread inside synchronized (mutex), or NULL
  baseResources,
  lastSnapshot,
  changeLogs,
  changeOrder,
  lastUpdateDateTimes,
  pc,             \* where each request is
  calls,          \* the synchronized calls each request still has to make
  orgs,           \* getBase: organizations it still has to list
  listed,         \* getBase's result: the members listed so far
  todo,           \* the loop over the members: those still to come
  resourcesToRemove,
  phantoms        \* history: members whose Creation only scans appended that
                  \* aborted or hang

platformVars == <<platform, clock, hung>>
staticVars   == <<baseResources, lastSnapshot, changeLogs, changeOrder, lastUpdateDateTimes>>
localVars    == <<orgs, listed, todo, resourcesToRemove>>
vars == <<platformVars, faults, mutex, staticVars, pc, calls, localVars, phantoms>>

Existing == {m \in Members : platform[m] # Absent}
Updated(m) == IF m \in Undated THEN NoDate ELSE platform[m]

PCs == {"idle", "waiting", "listBase", "dates", "update", "listLatest", "compare", "delete"}
Scanning == PCs \ {"idle", "waiting"}

Init ==
  /\ platform \in [Members -> {Absent, 1}]
  /\ clock = 1 /\ hung = {}
  /\ faults = 0
  /\ mutex = NULL
  /\ baseResources = NULL /\ lastSnapshot = NULL /\ changeLogs = NULL
  /\ changeOrder = 0
  /\ lastUpdateDateTimes = [m \in Members |-> NoDate]
  /\ pc = [t \in Threads |-> "idle"]
  /\ calls = [t \in Threads |-> 0]
  /\ orgs = [t \in Threads |-> {}]
  /\ listed = [t \in Threads |-> {}]
  /\ todo = [t \in Threads |-> {}]
  /\ resourcesToRemove = [t \in Threads |-> {}]
  /\ phantoms = {}

-----------------------------------------------------------------------------
(* The IoT Platform.  Every change has a later time than the one before.   *)

Change(m) ==
  /\ clock < MaxClock
  /\ clock' = clock + 1
  /\ UNCHANGED <<hung, faults, mutex, staticVars, pc, calls, localVars, phantoms>>

Save(m)   == Change(m) /\ platform' = [platform EXCEPT ![m] = clock + 1]
Remove(m) == m \in Existing /\ Change(m) /\ platform' = [platform EXCEPT ![m] = Absent]

-----------------------------------------------------------------------------
(* Requests.  getBasePage and getChangeLogPage make one synchronized call, *)
(* getTrackedResourceSet makes two, and releases the mutex in between.     *)

Receive(t, n) ==
  /\ pc[t] = "idle"
  /\ changeOrder < MaxOrder
  /\ changeLogs # NULL => Len(changeLogs) < MaxLog
  /\ pc' = [pc EXCEPT ![t] = "waiting"]
  /\ calls' = [calls EXCEPT ![t] = n]
  /\ UNCHANGED <<platformVars, faults, mutex, staticVars, localVars, phantoms>>

(* The monitor is free: the thread enters it and the scan begins.          *)
Enter(t) ==
  /\ pc[t] = "waiting"
  /\ mutex = NULL
  /\ mutex' = t
  /\ IF baseResources = NULL
     THEN /\ pc' = [pc EXCEPT ![t] = "listBase"]
          /\ orgs' = [orgs EXCEPT ![t] = Orgs]
     ELSE /\ pc' = [pc EXCEPT ![t] = "update"]
          /\ UNCHANGED orgs
  /\ UNCHANGED <<platformVars, faults, staticVars, calls, listed, todo,
                 resourcesToRemove, phantoms>>

Forget(f, t) == [f EXCEPT ![t] = {}]

(* The thread leaves the monitor and its locals are gone.                  *)
LeaveMonitor(t) ==
  /\ mutex' = NULL
  /\ orgs' = Forget(orgs, t) /\ listed' = Forget(listed, t)
  /\ todo' = Forget(todo, t) /\ resourcesToRemove' = Forget(resourcesToRemove, t)

(* Mutant: one scan too many. *)
Return_OffByOne(t) ==
  /\ LeaveMonitor(t)
  /\ calls' = [calls EXCEPT ![t] = @ - 1]
  /\ pc' = [pc EXCEPT ![t] = IF calls[t] >= 1 THEN "waiting" ELSE "idle"]

Return(t) ==
  /\ LeaveMonitor(t)
  /\ calls' = [calls EXCEPT ![t] = @ - 1]
  /\ pc' = [pc EXCEPT ![t] = IF calls[t] > 1 THEN "waiting" ELSE "idle"]

(* Mutant: a lock that an exception does not give back. *)
Abort_KeepsMutex(t, created) ==
  /\ calls' = [calls EXCEPT ![t] = 0]
  /\ pc' = [pc EXCEPT ![t] = "idle"]
  /\ phantoms' = phantoms \cup created
  /\ UNCHANGED <<mutex, localVars>>

(* An exception leaves the monitor and ends the request.  Nothing is       *)
(* undone: the Creations in created stay in the log.                       *)
Abort(t, created) ==
  /\ LeaveMonitor(t)
  /\ calls' = [calls EXCEPT ![t] = 0]
  /\ pc' = [pc EXCEPT ![t] = "idle"]
  /\ phantoms' = phantoms \cup created

(* A call fails: the platform does not answer with what the code expects,  *)
(* or the device type is gone and reading it answers 404.                  *)
CallFails == faults < MaxFaults /\ faults' = faults + 1
ReadFails(m) == (m \notin Existing /\ UNCHANGED faults) \/ CallFails

-----------------------------------------------------------------------------
(* buildBaseResourcesAndChangeLogsWithScanning and getBase.                *)

Listing == {"listBase", "listLatest"}

(* One organization's device types are read and added to the result.       *)
ListDeviceTypes(t, o) ==
  /\ pc[t] \in Listing
  /\ o \in orgs[t]
  /\ orgs' = [orgs EXCEPT ![t] = @ \ {o}]
  /\ listed' = [listed EXCEPT ![t] = @ \cup {m \in Existing : OrgOf[m] = o}]
  /\ UNCHANGED <<platformVars, faults, mutex, staticVars, pc, calls, todo,
                 resourcesToRemove, phantoms>>

(* Listing the organizations or one organization's device types fails.     *)
ListingFails(t) ==
  /\ pc[t] \in Listing /\ orgs[t] # {}
  /\ CallFails
  /\ Abort(t, {})
  /\ UNCHANGED <<platformVars, staticVars>>

(* getBase has returned: the base is set before any date is known.         *)
EstablishBase(t) ==
  /\ pc[t] = "listBase" /\ orgs[t] = {}
  /\ baseResources' = listed[t]
  /\ todo' = [todo EXCEPT ![t] = listed[t]]
  /\ pc' = [pc EXCEPT ![t] = "dates"]
  /\ UNCHANGED <<platformVars, faults, mutex, lastSnapshot, changeLogs, changeOrder,
                 lastUpdateDateTimes, calls, orgs, listed, resourcesToRemove, phantoms>>

SetDate(m, d) == lastUpdateDateTimes' = [lastUpdateDateTimes EXCEPT ![m] = d]

SaveDate(t, m) ==
  /\ pc[t] = "dates" /\ m \in todo[t]
  /\ m \in Existing
  /\ SetDate(m, Updated(m))
  /\ todo' = [todo EXCEPT ![t] = @ \ {m}]
  /\ UNCHANGED <<platformVars, faults, mutex, baseResources, lastSnapshot, changeLogs,
                 changeOrder, pc, calls, orgs, listed, resourcesToRemove, phantoms>>

SaveDateFails(t, m) ==
  /\ pc[t] = "dates" /\ m \in todo[t]
  /\ ReadFails(m)
  /\ Abort(t, {})
  /\ UNCHANGED <<platformVars, staticVars>>

DatesSaved(t) ==
  /\ pc[t] = "dates" /\ todo[t] = {}
  /\ pc' = [pc EXCEPT ![t] = "update"]
  /\ UNCHANGED <<platformVars, faults, mutex, staticVars, calls, localVars, phantoms>>

-----------------------------------------------------------------------------
(* updateChangeLog.                                                        *)

(* The first time: an empty log, and the base is the first snapshot.       *)
StartChangeLog(t) ==
  /\ pc[t] = "update" /\ lastSnapshot = NULL
  /\ changeLogs' = << >>
  /\ lastSnapshot' = baseResources
  /\ Return(t)
  /\ UNCHANGED <<platformVars, faults, baseResources, changeOrder, lastUpdateDateTimes,
                 phantoms>>

Rescan(t) ==
  /\ pc[t] = "update" /\ lastSnapshot # NULL
  /\ pc' = [pc EXCEPT ![t] = "listLatest"]
  /\ orgs' = [orgs EXCEPT ![t] = Orgs]
  /\ listed' = Forget(listed, t)
  /\ UNCHANGED <<platformVars, faults, mutex, staticVars, calls, todo,
                 resourcesToRemove, phantoms>>

(* Mutant: the order is not incremented. *)
BeginSegment_SameOrder(t) ==
  /\ pc[t] = "listLatest" /\ orgs[t] = {}
  /\ todo' = [todo EXCEPT ![t] = listed[t]]
  /\ resourcesToRemove' = [resourcesToRemove EXCEPT ![t] = lastSnapshot]
  /\ pc' = [pc EXCEPT ![t] = "compare"]
  /\ UNCHANGED <<platformVars, faults, mutex, staticVars, calls, orgs, listed, phantoms>>

(* The latest snapshot is complete: the next segment of the log begins.    *)
BeginSegment(t) ==
  /\ pc[t] = "listLatest" /\ orgs[t] = {}
  /\ changeOrder' = (changeOrder + 1) % OrderRange
  /\ todo' = [todo EXCEPT ![t] = listed[t]]
  /\ resourcesToRemove' = [resourcesToRemove EXCEPT ![t] = lastSnapshot]
  /\ pc' = [pc EXCEPT ![t] = "compare"]
  /\ UNCHANGED <<platformVars, faults, mutex, baseResources, lastSnapshot, changeLogs,
                 lastUpdateDateTimes, calls, orgs, listed, phantoms>>

AppendEvent(type, m) == changeLogs' = Append(changeLogs, Event(type, m, changeOrder))

Comparing(t, m) == pc[t] = "compare" /\ m \in todo[t]
Created(t) == (listed[t] \ todo[t]) \ lastSnapshot

(* Mutant: the date of a new member is not put. *)
AppendCreation_NoDate(t, m) ==
  /\ Comparing(t, m) /\ m \notin lastSnapshot
  /\ AppendEvent("Creation", m)
  /\ m \in Existing
  /\ todo' = [todo EXCEPT ![t] = @ \ {m}]
  /\ UNCHANGED <<platformVars, faults, mutex, baseResources, lastSnapshot, changeOrder,
                 lastUpdateDateTimes, pc, calls, orgs, listed, resourcesToRemove, phantoms>>

(* A member that is not in the last snapshot.  The event is appended       *)
(* before the date is read.                                                *)
AppendCreation(t, m) ==
  /\ Comparing(t, m) /\ m \notin lastSnapshot
  /\ AppendEvent("Creation", m)
  /\ m \in Existing
  /\ SetDate(m, Updated(m))
  /\ todo' = [todo EXCEPT ![t] = @ \ {m}]
  /\ UNCHANGED <<platformVars, faults, mutex, baseResources, lastSnapshot, changeOrder,
                 pc, calls, orgs, listed, resourcesToRemove, phantoms>>

AppendCreationFails(t, m) ==
  /\ Comparing(t, m) /\ m \notin lastSnapshot
  /\ AppendEvent("Creation", m)
  /\ ReadFails(m)
  /\ Abort(t, Created(t) \cup {m})
  /\ UNCHANGED <<platformVars, baseResources, lastSnapshot, changeOrder,
                 lastUpdateDateTimes>>

(* Mutant: a member found again is still removed. *)
Keep_StillRemoved(t, m) ==
  /\ Comparing(t, m) /\ m \in lastSnapshot
  /\ m \in Existing /\ Updated(m) # NoDate /\ lastUpdateDateTimes[m] # NoDate
  /\ IF Updated(m) > lastUpdateDateTimes[m]
     THEN SetDate(m, Updated(m)) /\ AppendEvent("Modification", m)
     ELSE UNCHANGED <<lastUpdateDateTimes, changeLogs>>
  /\ todo' = [todo EXCEPT ![t] = @ \ {m}]
  /\ UNCHANGED <<platformVars, faults, mutex, baseResources, lastSnapshot, changeOrder,
                 pc, calls, orgs, listed, resourcesToRemove, phantoms>>

(* Mutant: the dates are compared the wrong way round. *)
Keep_Before(t, m) ==
  /\ Comparing(t, m) /\ m \in lastSnapshot
  /\ m \in Existing /\ Updated(m) # NoDate /\ lastUpdateDateTimes[m] # NoDate
  /\ IF Updated(m) < lastUpdateDateTimes[m]
     THEN SetDate(m, Updated(m)) /\ AppendEvent("Modification", m)
     ELSE UNCHANGED <<lastUpdateDateTimes, changeLogs>>
  /\ todo' = [todo EXCEPT ![t] = @ \ {m}]
  /\ resourcesToRemove' = [resourcesToRemove EXCEPT ![t] = @ \ {m}]
  /\ UNCHANGED <<platformVars, faults, mutex, baseResources, lastSnapshot, changeOrder,
                 pc, calls, orgs, listed, phantoms>>

(* A member of the last snapshot: a later date is a modification.  Without *)
(* both dates the comparison is a NullPointerException.                    *)
Keep(t, m) ==
  /\ Comparing(t, m) /\ m \in lastSnapshot
  /\ m \in Existing /\ Updated(m) # NoDate /\ lastUpdateDateTimes[m] # NoDate
  /\ IF Updated(m) > lastUpdateDateTimes[m]
     THEN SetDate(m, Updated(m)) /\ AppendEvent("Modification", m)
     ELSE UNCHANGED <<lastUpdateDateTimes, changeLogs>>
  /\ todo' = [todo EXCEPT ![t] = @ \ {m}]
  /\ resourcesToRemove' = [resourcesToRemove EXCEPT ![t] = @ \ {m}]
  /\ UNCHANGED <<platformVars, faults, mutex, baseResources, lastSnapshot, changeOrder,
                 pc, calls, orgs, listed, phantoms>>

KeepFails(t, m) ==
  /\ Comparing(t, m) /\ m \in lastSnapshot
  /\ \/ ReadFails(m)
     \/ /\ m \in Existing
        /\ Updated(m) = NoDate \/ lastUpdateDateTimes[m] = NoDate
        /\ UNCHANGED faults
  /\ Abort(t, Created(t))
  /\ UNCHANGED <<platformVars, staticVars>>

Compared(t) ==
  /\ pc[t] = "compare" /\ todo[t] = {}
  /\ pc' = [pc EXCEPT ![t] = "delete"]
  /\ UNCHANGED <<platformVars, faults, mutex, staticVars, calls, localVars, phantoms>>

AppendDeletion(t, m) ==
  /\ pc[t] = "delete" /\ m \in resourcesToRemove[t]
  /\ AppendEvent("Deletion", m)
  /\ SetDate(m, NoDate)
  /\ resourcesToRemove' = [resourcesToRemove EXCEPT ![t] = @ \ {m}]
  /\ UNCHANGED <<platformVars, faults, mutex, baseResources, lastSnapshot, changeOrder,
                 pc, calls, orgs, listed, todo, phantoms>>

(* Mutant: the last snapshot is not replaced. *)
TakeSnapshot_Stale(t) ==
  /\ pc[t] = "delete" /\ resourcesToRemove[t] = {}
  /\ Return(t)
  /\ UNCHANGED <<platformVars, faults, staticVars, phantoms>>

TakeSnapshot(t) ==
  /\ pc[t] = "delete" /\ resourcesToRemove[t] = {}
  /\ lastSnapshot' = listed[t]
  /\ phantoms' = phantoms \ listed[t]
  /\ Return(t)
  /\ UNCHANGED <<platformVars, faults, baseResources, changeLogs, changeOrder,
                 lastUpdateDateTimes>>

-----------------------------------------------------------------------------
(* A call of the scan never ends: the wait for one of the client's pooled  *)
(* connections has no time limit, and the client that getOrganizations     *)
(* logs in with has none at all.  A Creation is in the log by then.        *)
CallHangs(t) ==
  /\ t \notin hung /\ hung' = hung \cup {t}
  /\ \/ /\ \/ pc[t] \in Listing /\ orgs[t] # {}
           \/ pc[t] = "dates" /\ todo[t] # {}
           \/ \E m \in Members : Comparing(t, m) /\ m \in lastSnapshot
        /\ UNCHANGED <<changeLogs, phantoms>>
     \/ \E m \in Members :
          /\ Comparing(t, m) /\ m \notin lastSnapshot
          /\ AppendEvent("Creation", m)
          /\ phantoms' = phantoms \cup {m}
  /\ UNCHANGED <<platform, clock, faults, mutex, baseResources, lastSnapshot, changeOrder,
                 lastUpdateDateTimes, pc, calls, localVars>>

Step(t) ==
  \/ \E o \in Orgs : ListDeviceTypes(t, o)
  \/ ListingFails(t) \/ EstablishBase(t) \/ DatesSaved(t)
  \/ StartChangeLog(t) \/ Rescan(t) \/ BeginSegment(t) \/ Compared(t) \/ TakeSnapshot(t)
  \/ \E m \in Members :
       \/ SaveDate(t, m) \/ SaveDateFails(t, m)
       \/ AppendCreation(t, m) \/ AppendCreationFails(t, m)
       \/ Keep(t, m) \/ KeepFails(t, m)
       \/ AppendDeletion(t, m)

Scan(t) == t \notin hung /\ Step(t)

Next ==
  \/ \E m \in Members : Save(m) \/ Remove(m)
  \/ \E t \in Threads :
       (\E n \in {1, 2} : Receive(t, n)) \/ Enter(t) \/ Scan(t) \/ CallHangs(t)

Spec == Init /\ [][Next]_vars

(* Consumers keep polling, a free monitor lets some waiting thread in, and *)
(* a scan goes on unless a call of its never ends (CallHangs).             *)
Fairness ==
  /\ WF_vars(\E t \in Threads, n \in {1, 2} : Receive(t, n))
  /\ WF_vars(\E t \in Threads : Enter(t))
  /\ \A t \in Threads : WF_vars(Scan(t))

FairSpec == Spec /\ Fairness

-----------------------------------------------------------------------------
Orders == 0 .. OrderRange - 1

(* Every variable has its type.                                            *)
TypeOK ==
  /\ platform \in [Members -> Nat] /\ clock \in Nat /\ faults \in Nat
  /\ hung \subseteq Threads
  /\ mutex \in Threads \cup {NULL}
  /\ baseResources \in (SUBSET Members) \cup {NULL}
  /\ lastSnapshot \in (SUBSET Members) \cup {NULL}
  /\ changeLogs \in Seq(EventSet(Members, Orders)) \cup {NULL}
  /\ changeOrder \in Orders
  /\ lastUpdateDateTimes \in [Members -> Nat]
  /\ pc \in [Threads -> PCs] /\ calls \in [Threads -> 0 .. 2]
  /\ orgs \in [Threads -> SUBSET Orgs]
  /\ listed \in [Threads -> SUBSET Members] /\ todo \in [Threads -> SUBSET Members]
  /\ resourcesToRemove \in [Threads -> SUBSET Members]
  /\ phantoms \in SUBSET Members

(* Between scans, base and change log say exactly what the last snapshot   *)
(* says, but for the members whose Creation only aborted scans appended:   *)
(* no scan, complete or aborted, loses or invents anything else.           *)
LogMatchesSnapshot ==
  mutex = NULL /\ lastSnapshot # NULL =>
    /\ Tracked(baseResources, changeLogs) = lastSnapshot \cup phantoms
    /\ lastSnapshot \cap phantoms = {}

(* The events of one scan have one order and are about different members,  *)
(* also when the scans before it aborted and are repeated, and the order   *)
(* never goes back (as long as the int does not wrap).                     *)
SegmentsOrdered ==
  lastSnapshot # NULL =>
    \A i, j \in DOMAIN changeLogs : i < j =>
      \/ changeLogs[i].order < changeLogs[j].order
      \/ /\ changeLogs[i].order = changeLogs[j].order
         /\ changeLogs[i].changed # changeLogs[j].changed

(* Between scans, a tracked member without a date has been there since the *)
(* base was read and nothing was ever reported of it: each Creation and    *)
(* each Modification that is followed by a snapshot leaves a date.         *)
DatelessOnlyFromBase ==
  mutex = NULL /\ lastSnapshot # NULL =>
    \A m \in lastSnapshot \ Undated : lastUpdateDateTimes[m] = NoDate =>
      m \in baseResources /\ \A i \in DOMAIN changeLogs : changeLogs[i].changed # m

(* The comment of updateChangeLog's Creation: each Creation is about a     *)
(* resource that is new since the last check.                              *)
CreationsAreNew ==
  lastSnapshot # NULL =>
    \A i \in DOMAIN changeLogs : changeLogs[i].type = "Creation" =>
      changeLogs[i].changed \notin Tracked(baseResources, SubSeq(changeLogs, 1, i - 1))

(* Base and log, once there is a log, keep the provider's promise.         *)
Contract ==
  INSTANCE TRSContract WITH
    base <- IF lastSnapshot = NULL THEN NULL ELSE baseResources,
    log  <- changeLogs

KeepsContract == Contract!Spec

(* A scan gives the monitor back, also when a call fails; only a call that *)
(* never ends keeps it for ever, and then every other request waits.       *)
ScanEnds == \A t \in Threads : mutex = t ~> (mutex # t \/ t \in hung)

Synced ==
  /\ lastSnapshot = Existing
  /\ \A m \in Existing : lastUpdateDateTimes[m] = platform[m]
Wedged ==
  /\ mutex = NULL /\ lastSnapshot # NULL
  /\ \E m \in lastSnapshot : m \in Existing /\ lastUpdateDateTimes[m] = NoDate

(* A member of the snapshot without a date makes every scan abort that     *)
(* finds it.  Where that never happens, polling ends with the snapshot and *)
(* the dates up to date, once the platform has stopped changing and calls  *)
(* have stopped failing, provided that every call ends.                    *)
EventuallySynced == [](~Wedged /\ hung = {}) => <>[]Synced
=============================================================================
