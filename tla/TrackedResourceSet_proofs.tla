---------------------- MODULE TrackedResourceSet_proofs ----------------------
(***************************************************************************)
(* Theorems about TrackedResourceSet, for any number of threads,           *)
(* organizations and device types and without the bounds' help: the type   *)
(* invariant, that base and change log match the last snapshot and keep    *)
(* the contract, the order of the log, its dates and its Creations.        *)
(***************************************************************************)
EXTENDS TrackedResourceSet, TRSLog_proofs

(* Base, snapshot and log are there: what updateChangeLog works on.        *)
Started ==
  /\ baseResources \in SUBSET Members
  /\ lastSnapshot \in SUBSET Members
  /\ changeLogs \in Seq(EventSet(Members, Orders))

(* What each point of a request relies on.                                 *)
Phases ==
  /\ lastSnapshot # NULL => Started
  /\ \A t \in Threads :
       /\ pc[t] # "idle" => calls[t] \in 1 .. 2
       /\ pc[t] \in {"dates", "update"} => baseResources \in SUBSET Members
       /\ pc[t] \in {"listLatest", "compare", "delete"} => Started

Typed == TypeOK /\ Phases

LEMMA InitTyped == Init => Typed
<1>. SUFFICES ASSUME Init PROVE Typed
  OBVIOUS
<1>1. TypeOK
  BY ConstantsAssumption DEF Init, TypeOK, Orders, PCs, Absent, NoDate
<1>2. Phases
  BY DEF Init, Phases
<1>. QED
  BY <1>1, <1>2 DEF Typed

USE DEF PCs

(* An appended event keeps the log's type.                                 *)
LEMMA AppendTyped ==
  ASSUME NEW m \in Members, NEW type \in EventTypes, changeOrder \in Orders,
         changeLogs \in Seq(EventSet(Members, Orders)), AppendEvent(type, m)
  PROVE  changeLogs' \in Seq(EventSet(Members, Orders))
<1>1. Event(type, m, changeOrder) \in EventSet(Members, Orders)
  BY DEF Event, EventSet
<1>. QED
  BY <1>1 DEF AppendEvent

(* All organizations are asked: their set keeps its type.                  *)
LEMMA OrgsTyped ==
  ASSUME NEW t \in Threads, orgs \in [Threads -> SUBSET Orgs],
         orgs' = [orgs EXCEPT ![t] = Orgs]
  PROVE  orgs' \in [Threads -> SUBSET Orgs]
OBVIOUS

(* Each step keeps the types and the phases.                               *)
LEMMA StepTyped == Typed /\ [Next]_vars => Typed'
<1>. SUFFICES ASSUME Typed, [Next]_vars PROVE Typed'
  OBVIOUS
<1>. USE ConstantsAssumption DEF Typed, TypeOK, Phases, Started, platformVars, staticVars, localVars
<1>1. ASSUME NEW m \in Members, Save(m) PROVE Typed'
  BY <1>1 DEF Save, Change
<1>2. ASSUME NEW m \in Members, Remove(m) PROVE Typed'
  BY <1>2 DEF Remove, Change, Absent
<1>3. ASSUME NEW t \in Threads, NEW n \in {1, 2}, Receive(t, n) PROVE Typed'
  <2>1. TypeOK'
    BY <1>3 DEF Receive
  <2>2. \A u \in Threads : pc'[u] # "idle" => calls'[u] \in 1 .. 2
    BY <1>3 DEF Receive
  <2>3. \A u \in Threads : pc'[u] \in {"idle", "waiting"} \/ pc'[u] = pc[u]
    BY <1>3 DEF Receive
  <2>4. UNCHANGED <<baseResources, lastSnapshot, changeLogs>>
    BY <1>3 DEF Receive
  <2>. QED
    BY <2>1, <2>2, <2>3, <2>4
<1>4. ASSUME NEW t \in Threads, Enter(t) PROVE Typed'
  <2>1. pc' \in [Threads -> PCs] /\ orgs' \in [Threads -> SUBSET Orgs] /\ mutex' \in Threads
    <3>1. mutex' \in Threads
      BY <1>4 DEF Enter
    <3>2. pc' \in [Threads -> PCs]
      BY <1>4 DEF Enter
    <3>3. orgs' \in [Threads -> SUBSET Orgs]
      BY <1>4, OrgsTyped DEF Enter
    <3>. QED
      BY <3>1, <3>2, <3>3
  <2>2. \A u \in Threads : pc'[u] \in {"listBase", "update"} \/ pc'[u] = pc[u]
    BY <1>4 DEF Enter
  <2>3. \A u \in Threads : pc'[u] # "idle" => pc[u] # "idle"
    BY <1>4 DEF Enter
  <2>4. \A u \in Threads : pc'[u] \in {"dates", "update"} => baseResources \in SUBSET Members
    BY <1>4 DEF Enter
  <2>5. UNCHANGED <<platformVars, faults, staticVars, calls, listed, todo, resourcesToRemove, phantoms>>
    BY <1>4 DEF Enter
  <2>6. TypeOK'
    BY <2>1, <2>5
  <2>7. Phases'
    BY <2>2, <2>3, <2>4, <2>5
  <2>. QED
    BY <2>6, <2>7
<1>5. ASSUME NEW t \in Threads, NEW o \in Orgs, ListDeviceTypes(t, o) PROVE Typed'
  BY <1>5 DEF ListDeviceTypes, Existing
<1>6. ASSUME NEW t \in Threads, ListingFails(t) PROVE Typed'
  BY <1>6 DEF ListingFails, CallFails, Abort, LeaveMonitor, Forget
<1>7. ASSUME NEW t \in Threads, EstablishBase(t) PROVE Typed'
  BY <1>7 DEF EstablishBase
<1>8. ASSUME NEW t \in Threads, NEW m \in Members, SaveDate(t, m) PROVE Typed'
  BY <1>8 DEF SaveDate, SetDate, Updated, NoDate
<1>9. ASSUME NEW t \in Threads, NEW m \in Members, SaveDateFails(t, m) PROVE Typed'
  BY <1>9 DEF SaveDateFails, ReadFails, CallFails, Abort, LeaveMonitor, Forget
<1>10. ASSUME NEW t \in Threads, DatesSaved(t) PROVE Typed'
  BY <1>10 DEF DatesSaved
<1>11. ASSUME NEW t \in Threads, StartChangeLog(t) PROVE Typed'
  BY <1>11 DEF StartChangeLog, Return, LeaveMonitor, Forget
<1>12. ASSUME NEW t \in Threads, Rescan(t) PROVE Typed'
  BY <1>12 DEF Rescan, Forget
<1>13. ASSUME NEW t \in Threads, BeginSegment(t) PROVE Typed'
  BY <1>13 DEF BeginSegment, Orders
<1>14. ASSUME NEW t \in Threads, NEW m \in Members, AppendCreation(t, m) PROVE Typed'
  <2>1. changeLogs' \in Seq(EventSet(Members, Orders))
    BY <1>14, AppendTyped DEF AppendCreation, Comparing, EventTypes
  <2>. QED
    BY <1>14, <2>1 DEF AppendCreation, Comparing, SetDate, Updated, NoDate
<1>15. ASSUME NEW t \in Threads, NEW m \in Members, AppendCreationFails(t, m) PROVE Typed'
  <2>1. changeLogs' \in Seq(EventSet(Members, Orders))
    BY <1>15, AppendTyped DEF AppendCreationFails, Comparing, EventTypes
  <2>2. Created(t) \cup {m} \subseteq Members
    BY DEF Created
  <2>. QED
    BY <1>15, <2>1, <2>2 DEF AppendCreationFails, Comparing, ReadFails, CallFails, Abort, LeaveMonitor, Forget
<1>16. ASSUME NEW t \in Threads, NEW m \in Members, Keep(t, m) PROVE Typed'
  <2>1. changeLogs' \in Seq(EventSet(Members, Orders))
    BY <1>16, AppendTyped DEF Keep, Comparing, EventTypes
  <2>2. lastUpdateDateTimes' \in [Members -> Nat]
    BY <1>16 DEF Keep, SetDate, Updated, NoDate
  <2>. QED
    BY <1>16, <2>1, <2>2 DEF Keep, Comparing
<1>17. ASSUME NEW t \in Threads, NEW m \in Members, KeepFails(t, m) PROVE Typed'
  BY <1>17 DEF KeepFails, Comparing, Created, ReadFails, CallFails, Abort, LeaveMonitor, Forget
<1>18. ASSUME NEW t \in Threads, Compared(t) PROVE Typed'
  BY <1>18 DEF Compared
<1>19. ASSUME NEW t \in Threads, NEW m \in Members, AppendDeletion(t, m) PROVE Typed'
  <2>1. changeLogs' \in Seq(EventSet(Members, Orders))
    BY <1>19, AppendTyped DEF AppendDeletion, EventTypes
  <2>. QED
    BY <1>19, <2>1 DEF AppendDeletion, SetDate, NoDate
<1>20. ASSUME NEW t \in Threads, TakeSnapshot(t) PROVE Typed'
  BY <1>20 DEF TakeSnapshot, Return, LeaveMonitor, Forget
<1>21. ASSUME UNCHANGED vars PROVE Typed'
  BY <1>21 DEF vars, Orders
<1>22. ASSUME NEW t \in Threads, CallHangs(t) PROVE Typed'
  <2>1. changeLogs' = changeLogs \/ changeLogs' \in Seq(EventSet(Members, Orders))
    BY <1>22, AppendTyped DEF CallHangs, Comparing, EventTypes
  <2>2. Started => Started'
    BY <1>22, <2>1 DEF CallHangs
  <2>3. phantoms' \in SUBSET Members /\ hung' \subseteq Threads
    BY <1>22 DEF CallHangs
  <2>. QED
    BY <1>22, <2>1, <2>2, <2>3 DEF CallHangs
<1>. HIDE DEF Typed, TypeOK, Phases, Started, platformVars, staticVars, localVars
<1>. QED
  BY <1>1, <1>2, <1>3, <1>4, <1>5, <1>6, <1>7, <1>8, <1>9, <1>10, <1>11, <1>12, <1>13, <1>14,
     <1>15, <1>16, <1>17, <1>18, <1>19, <1>20, <1>21, <1>22
     DEF Next, Scan, Step

(* Every variable of the provider has its type in every behaviour.         *)
THEOREM TypeCorrect == Spec => []TypeOK
<1>1. Spec => []Typed
  BY InitTyped, StepTyped, PTL DEF Spec
<1>. QED
  BY <1>1, PTL DEF Typed

-----------------------------------------------------------------------------
(* Who may scan, and when base, snapshot and phantoms come about.          *)
Control ==
  /\ \A t \in Threads : pc[t] \in Scanning => mutex = t
  /\ \A t \in Threads : pc[t] = "listBase" => baseResources = NULL
  /\ baseResources = NULL => lastSnapshot = NULL
  /\ lastSnapshot = NULL => phantoms = {}
  /\ lastSnapshot # NULL => lastSnapshot \cap phantoms = {}

LEMMA InitControl == Init => Control
BY DEF Init, Control, Scanning

LEMMA StepControl == Typed /\ Control /\ [Next]_vars => Control'
<1>. SUFFICES ASSUME Typed, Control, [Next]_vars PROVE Control'
  OBVIOUS
<1>. USE ConstantsAssumption
     DEF Typed, TypeOK, Phases, Started, platformVars, staticVars, localVars, Control, Scanning
<1>1. ASSUME NEW m \in Members, Save(m) PROVE Control'
  BY <1>1 DEF Save, Change
<1>2. ASSUME NEW m \in Members, Remove(m) PROVE Control'
  BY <1>2 DEF Remove, Change
<1>3. ASSUME NEW t \in Threads, NEW n \in {1, 2}, Receive(t, n) PROVE Control'
  BY <1>3 DEF Receive
<1>4. ASSUME NEW t \in Threads, Enter(t) PROVE Control'
  BY <1>4 DEF Enter
<1>5. ASSUME NEW t \in Threads, NEW o \in Orgs, ListDeviceTypes(t, o) PROVE Control'
  BY <1>5 DEF ListDeviceTypes
<1>6. ASSUME NEW t \in Threads, ListingFails(t) PROVE Control'
  BY <1>6 DEF ListingFails, Abort, LeaveMonitor, Listing
<1>7. ASSUME NEW t \in Threads, EstablishBase(t) PROVE Control'
  BY <1>7 DEF EstablishBase
<1>8. ASSUME NEW t \in Threads, NEW m \in Members, SaveDate(t, m) PROVE Control'
  BY <1>8 DEF SaveDate
<1>9. ASSUME NEW t \in Threads, NEW m \in Members, SaveDateFails(t, m) PROVE Control'
  BY <1>9 DEF SaveDateFails, Abort, LeaveMonitor
<1>10. ASSUME NEW t \in Threads, DatesSaved(t) PROVE Control'
  BY <1>10 DEF DatesSaved
<1>11. ASSUME NEW t \in Threads, StartChangeLog(t) PROVE Control'
  BY <1>11 DEF StartChangeLog, Return, LeaveMonitor
<1>12. ASSUME NEW t \in Threads, Rescan(t) PROVE Control'
  BY <1>12 DEF Rescan
<1>13. ASSUME NEW t \in Threads, BeginSegment(t) PROVE Control'
  BY <1>13 DEF BeginSegment
<1>14. ASSUME NEW t \in Threads, NEW m \in Members, AppendCreation(t, m) PROVE Control'
  BY <1>14 DEF AppendCreation, Comparing
<1>15. ASSUME NEW t \in Threads, NEW m \in Members, AppendCreationFails(t, m) PROVE Control'
  BY <1>15 DEF AppendCreationFails, Comparing, Created, Abort, LeaveMonitor
<1>16. ASSUME NEW t \in Threads, NEW m \in Members, Keep(t, m) PROVE Control'
  BY <1>16 DEF Keep, Comparing
<1>17. ASSUME NEW t \in Threads, NEW m \in Members, KeepFails(t, m) PROVE Control'
  BY <1>17 DEF KeepFails, Comparing, Created, Abort, LeaveMonitor
<1>18. ASSUME NEW t \in Threads, Compared(t) PROVE Control'
  BY <1>18 DEF Compared
<1>19. ASSUME NEW t \in Threads, NEW m \in Members, AppendDeletion(t, m) PROVE Control'
  BY <1>19 DEF AppendDeletion
<1>20. ASSUME NEW t \in Threads, TakeSnapshot(t) PROVE Control'
  BY <1>20 DEF TakeSnapshot, Return, LeaveMonitor
<1>21. ASSUME UNCHANGED vars PROVE Control'
  BY <1>21 DEF vars
<1>22. ASSUME NEW t \in Threads, CallHangs(t) PROVE Control'
  BY <1>22 DEF CallHangs, Comparing
<1>. QED
  BY <1>1, <1>2, <1>3, <1>4, <1>5, <1>6, <1>7, <1>8, <1>9, <1>10, <1>11, <1>12, <1>13, <1>14,
     <1>15, <1>16, <1>17, <1>18, <1>19, <1>20, <1>21, <1>22
     DEF Next, Scan, Step

-----------------------------------------------------------------------------
(* What base and log say, in a scan and between scans.                     *)
Says == Tracked(baseResources, changeLogs)

Compares(t) ==
  /\ todo[t] \subseteq listed[t]
  /\ resourcesToRemove[t] = lastSnapshot \ (listed[t] \ todo[t])
  /\ Says = lastSnapshot \cup phantoms \cup (listed[t] \ todo[t])

Deletes(t) ==
  /\ resourcesToRemove[t] \subseteq lastSnapshot \ listed[t]
  /\ Says = listed[t] \cup phantoms \cup resourcesToRemove[t]

Rests == Says = lastSnapshot \cup phantoms

Logged ==
  lastSnapshot # NULL =>
    /\ (\A t \in Threads : pc[t] \notin {"compare", "delete"}) => Rests
    /\ \A t \in Threads : pc[t] = "compare" => Compares(t)
    /\ \A t \in Threads : pc[t] = "delete" => Deletes(t)

(* What one more event does to what base and log say.                      *)
LEMMA SaysAppend ==
  ASSUME Typed, Started, NEW m \in Members, NEW type \in EventTypes,
         AppendEvent(type, m), UNCHANGED baseResources
  PROVE  Says' = IF type = "Deletion" THEN Says \ {m} ELSE Says \cup {m}
<1>1. Event(type, m, changeOrder) \in EventSet(Members, Orders)
  BY DEF Event, EventSet, Typed, TypeOK
<1>2. Event(type, m, changeOrder).type = type /\ Event(type, m, changeOrder).changed = m
  BY DEF Event
<1>. QED
  BY <1>1, <1>2, TrackedAppend DEF Says, AppendEvent, Started

LEMMA InitLogged == Init => Logged
BY DEF Init, Logged

LEMMA StepLogged == Typed /\ Control /\ Logged /\ [Next]_vars => Logged'
<1>. SUFFICES ASSUME Typed, Control, Logged, [Next]_vars PROVE Logged'
  OBVIOUS
<1>. USE ConstantsAssumption DEF platformVars, staticVars, localVars
<1>a. ASSUME UNCHANGED <<baseResources, lastSnapshot, changeLogs, phantoms>>,
             \A t \in Threads : pc'[t] \in {"compare", "delete"} =>
               pc'[t] = pc[t] /\ UNCHANGED <<listed[t], todo[t], resourcesToRemove[t]>>,
             \A t \in Threads : pc[t] \in {"compare", "delete"} => pc'[t] = pc[t]
      PROVE  Logged'
  BY <1>a DEF Logged, Says, Rests, Compares, Deletes
<1>b. \A t, u \in Threads : pc[t] \in Scanning /\ pc[u] \in Scanning => t = u
  BY DEF Control
<1>1. ASSUME NEW m \in Members, Save(m) \/ Remove(m) PROVE Logged'
  BY <1>1, <1>a DEF Save, Remove, Change
<1>2. ASSUME NEW t \in Threads, NEW n \in {1, 2}, Receive(t, n) PROVE Logged'
  BY <1>2, <1>a DEF Receive, Typed, TypeOK
<1>3. ASSUME NEW t \in Threads, Enter(t) PROVE Logged'
  BY <1>3, <1>a DEF Enter, Typed, TypeOK
<1>4. ASSUME NEW t \in Threads, NEW o \in Orgs, ListDeviceTypes(t, o) PROVE Logged'
  BY <1>4, <1>a DEF ListDeviceTypes, Listing, Typed, TypeOK
<1>5. ASSUME NEW t \in Threads, ListingFails(t) PROVE Logged'
  BY <1>5, <1>a DEF ListingFails, Abort, LeaveMonitor, Forget, Listing, Typed, TypeOK
<1>6. ASSUME NEW t \in Threads, EstablishBase(t) PROVE Logged'
  BY <1>6 DEF EstablishBase, Control, Logged
<1>7. ASSUME NEW t \in Threads, NEW m \in Members, SaveDate(t, m) PROVE Logged'
  BY <1>7, <1>a DEF SaveDate, Typed, TypeOK
<1>8. ASSUME NEW t \in Threads, NEW m \in Members, SaveDateFails(t, m) PROVE Logged'
  BY <1>8, <1>a DEF SaveDateFails, Abort, LeaveMonitor, Forget, Typed, TypeOK
<1>9. ASSUME NEW t \in Threads, DatesSaved(t) \/ Rescan(t) PROVE Logged'
  BY <1>9, <1>a DEF DatesSaved, Rescan, Forget, Typed, TypeOK
<1>10. ASSUME NEW t \in Threads, StartChangeLog(t) PROVE Logged'
  <2>1. Says' = baseResources
    BY <1>10, TrackedEmpty DEF StartChangeLog, Says
  <2>2. phantoms' = {} /\ lastSnapshot' = baseResources
    BY <1>10 DEF StartChangeLog, Control
  <2>3. \A u \in Threads : pc'[u] \notin {"compare", "delete"}
    BY <1>10, <1>b DEF StartChangeLog, Return, Typed, TypeOK, Scanning
  <2>. QED
    BY <2>1, <2>2, <2>3 DEF Logged, Rests
<1>11. ASSUME NEW t \in Threads, BeginSegment(t) PROVE Logged'
  <2>1. \A u \in Threads : u # t => pc'[u] \notin {"compare", "delete"}
    BY <1>11, <1>b DEF BeginSegment, Typed, TypeOK, Scanning
  <2>2. pc'[t] = "compare" /\ todo'[t] = listed[t] /\ listed'[t] = listed[t]
        /\ resourcesToRemove'[t] = lastSnapshot
    BY <1>11 DEF BeginSegment, Typed, TypeOK
  <2>3. lastSnapshot # NULL => Says = lastSnapshot \cup phantoms
    BY <1>11, <1>b DEF BeginSegment, Logged, Rests, Scanning
  <2>4. Says' = Says /\ UNCHANGED <<lastSnapshot, phantoms>>
    BY <1>11 DEF BeginSegment, Says
  <2>5. lastSnapshot # NULL => Compares(t)'
    BY <2>2, <2>3, <2>4 DEF Compares
  <2>. QED
    BY <2>1, <2>2, <2>4, <2>5 DEF Logged
<1>12. ASSUME NEW t \in Threads, NEW m \in Members, AppendCreation(t, m) PROVE Logged'
  <2>1. Started /\ lastSnapshot # NULL /\ Compares(t)
    BY <1>12 DEF AppendCreation, Comparing, Typed, Phases, Started, Logged
  <2>2. Says' = Says \cup {m}
    BY <1>12, <2>1, SaysAppend DEF AppendCreation, EventTypes
  <2>3. \A u \in Threads : u # t => pc'[u] \notin {"compare", "delete"}
    BY <1>12, <1>b DEF AppendCreation, Comparing, Scanning
  <2>4. pc'[t] = "compare" /\ todo'[t] = todo[t] \ {m} /\ m \in todo[t] /\ m \notin lastSnapshot
        /\ UNCHANGED <<listed, resourcesToRemove, lastSnapshot, phantoms>>
    BY <1>12 DEF AppendCreation, Comparing, Typed, TypeOK
  <2>5. Compares(t)'
    BY <2>1, <2>2, <2>4 DEF Compares
  <2>. QED
    BY <2>3, <2>4, <2>5 DEF Logged
<1>13. ASSUME NEW t \in Threads, NEW m \in Members, AppendCreationFails(t, m) PROVE Logged'
  <2>1. Started /\ lastSnapshot # NULL /\ Compares(t)
    BY <1>13 DEF AppendCreationFails, Comparing, Typed, Phases, Started, Logged
  <2>2. Says' = Says \cup {m}
    BY <1>13, <2>1, SaysAppend DEF AppendCreationFails, EventTypes
  <2>3. \A u \in Threads : pc'[u] \notin {"compare", "delete"}
    BY <1>13, <1>b DEF AppendCreationFails, Comparing, Abort, Scanning, Typed, TypeOK
  <2>4. phantoms' = phantoms \cup ((listed[t] \ todo[t]) \ lastSnapshot) \cup {m}
        /\ UNCHANGED lastSnapshot
    BY <1>13 DEF AppendCreationFails, Abort, Created
  <2>5. Rests'
    BY <2>1, <2>2, <2>4 DEF Compares, Rests
  <2>. QED
    BY <2>3, <2>5 DEF Logged
<1>14. ASSUME NEW t \in Threads, NEW m \in Members, Keep(t, m) PROVE Logged'
  <2>1. Started /\ lastSnapshot # NULL /\ Compares(t) /\ m \in lastSnapshot
    BY <1>14 DEF Keep, Comparing, Typed, Phases, Started, Logged
  <2>2. Says' = Says
    <3>1. CASE Updated(m) > lastUpdateDateTimes[m]
      <4>1. Says' = Says \cup {m}
        BY <1>14, <2>1, <3>1, SaysAppend DEF Keep, EventTypes
      <4>. QED
        BY <2>1, <4>1 DEF Compares
    <3>2. CASE ~(Updated(m) > lastUpdateDateTimes[m])
      BY <1>14, <3>2 DEF Keep, Says
    <3>. QED
      BY <3>1, <3>2
  <2>3. \A u \in Threads : u # t => pc'[u] \notin {"compare", "delete"}
    BY <1>14, <1>b DEF Keep, Comparing, Scanning
  <2>4. pc'[t] = "compare" /\ todo'[t] = todo[t] \ {m} /\ m \in todo[t]
        /\ resourcesToRemove'[t] = resourcesToRemove[t] \ {m}
        /\ UNCHANGED <<listed, lastSnapshot, phantoms>>
    BY <1>14 DEF Keep, Comparing, Typed, TypeOK
  <2>5. Compares(t)'
    BY <2>1, <2>2, <2>4 DEF Compares
  <2>. QED
    BY <2>3, <2>4, <2>5 DEF Logged
<1>15. ASSUME NEW t \in Threads, NEW m \in Members, KeepFails(t, m) PROVE Logged'
  <2>1. lastSnapshot # NULL /\ Compares(t)
    BY <1>15 DEF KeepFails, Comparing, Typed, Phases, Started, Logged
  <2>2. Says' = Says /\ UNCHANGED lastSnapshot
    BY <1>15 DEF KeepFails, Says
  <2>3. \A u \in Threads : pc'[u] \notin {"compare", "delete"}
    BY <1>15, <1>b DEF KeepFails, Comparing, Abort, Scanning, Typed, TypeOK
  <2>4. phantoms' = phantoms \cup ((listed[t] \ todo[t]) \ lastSnapshot)
    BY <1>15 DEF KeepFails, Abort, Created
  <2>5. Rests'
    BY <2>1, <2>2, <2>4 DEF Compares, Rests
  <2>. QED
    BY <2>3, <2>5 DEF Logged
<1>16. ASSUME NEW t \in Threads, Compared(t) PROVE Logged'
  <2>1. lastSnapshot # NULL /\ Compares(t) /\ todo[t] = {}
    BY <1>16 DEF Compared, Typed, Phases, Started, Logged
  <2>2. Says' = Says /\ pc'[t] = "delete"
        /\ UNCHANGED <<lastSnapshot, phantoms, listed, resourcesToRemove>>
    BY <1>16 DEF Compared, Says, Typed, TypeOK
  <2>3. \A u \in Threads : u # t => pc'[u] \notin {"compare", "delete"}
    BY <1>16, <1>b DEF Compared, Scanning, Typed, TypeOK
  <2>4. Deletes(t)'
    BY <2>1, <2>2 DEF Compares, Deletes
  <2>. QED
    BY <2>2, <2>3, <2>4 DEF Logged
<1>17. ASSUME NEW t \in Threads, NEW m \in Members, AppendDeletion(t, m) PROVE Logged'
  <2>1. Started /\ lastSnapshot # NULL /\ Deletes(t) /\ lastSnapshot \cap phantoms = {}
    BY <1>17 DEF AppendDeletion, Control, Typed, Phases, Started, Logged
  <2>2. Says' = Says \ {m}
    BY <1>17, <2>1, SaysAppend DEF AppendDeletion, EventTypes
  <2>3. \A u \in Threads : u # t => pc'[u] \notin {"compare", "delete"}
    BY <1>17, <1>b DEF AppendDeletion, Scanning
  <2>4. pc'[t] = "delete" /\ m \in resourcesToRemove[t]
        /\ resourcesToRemove'[t] = resourcesToRemove[t] \ {m}
        /\ UNCHANGED <<listed, lastSnapshot, phantoms>>
    BY <1>17 DEF AppendDeletion, Typed, TypeOK
  <2>5. Deletes(t)'
    BY <2>1, <2>2, <2>4 DEF Deletes
  <2>. QED
    BY <2>3, <2>4, <2>5 DEF Logged
<1>18. ASSUME NEW t \in Threads, TakeSnapshot(t) PROVE Logged'
  <2>1. Deletes(t) /\ resourcesToRemove[t] = {}
    BY <1>18 DEF TakeSnapshot, Typed, Phases, Started, Logged
  <2>2. Says' = Says /\ lastSnapshot' = listed[t] /\ phantoms' = phantoms \ listed[t]
    BY <1>18 DEF TakeSnapshot, Says
  <2>3. \A u \in Threads : pc'[u] \notin {"compare", "delete"}
    BY <1>18, <1>b, ZenonT(60) DEF TakeSnapshot, Return, Scanning, Typed, TypeOK
  <2>4. Rests'
    BY <2>1, <2>2 DEF Deletes, Rests
  <2>. QED
    BY <2>3, <2>4 DEF Logged
<1>19. ASSUME UNCHANGED vars PROVE Logged'
  BY <1>19, <1>a DEF vars
<1>20. ASSUME NEW t \in Threads, CallHangs(t) PROVE Logged'
  <2>1. UNCHANGED <<baseResources, lastSnapshot, pc, listed, todo, resourcesToRemove>>
    BY <1>20 DEF CallHangs
  <2>2. CASE UNCHANGED <<changeLogs, phantoms>>
    BY <1>a, <2>1, <2>2
  <2>3. ASSUME NEW m \in Members, Comparing(t, m), m \notin lastSnapshot, AppendEvent("Creation", m),
               phantoms' = phantoms \cup {m}
        PROVE  Logged'
    <3>1. Started /\ lastSnapshot # NULL /\ Compares(t)
      BY <2>3 DEF Comparing, Typed, Phases, Started, Logged
    <3>2. Says' = Says \cup {m}
      BY <2>1, <2>3, <3>1, SaysAppend DEF EventTypes
    <3>3. pc[t] = "compare" /\ \A u \in Threads : u # t => pc[u] \notin {"compare", "delete"}
      BY <1>b, <2>3 DEF Comparing, Scanning
    <3>4. Compares(t)'
      BY <2>1, <2>3, <3>1, <3>2 DEF Compares
    <3>. QED
      BY <2>1, <3>3, <3>4 DEF Logged
  <2>. QED
    BY <1>20, <2>2, <2>3 DEF CallHangs
<1>. QED
  BY <1>1, <1>2, <1>3, <1>4, <1>5, <1>6, <1>7, <1>8, <1>9, <1>10, <1>11, <1>12, <1>13, <1>14,
     <1>15, <1>16, <1>17, <1>18, <1>19, <1>20
     DEF Next, Scan, Step

(* Between scans, base and change log say what the last snapshot says, but *)
(* for the members that only aborted scans reported: whatever the platform *)
(* does during a scan and whichever call fails.                            *)
THEOREM LogMatches == Spec => []LogMatchesSnapshot
<1>1. Init => Typed /\ Control /\ Logged
  BY InitTyped, InitControl, InitLogged
<1>2. Typed /\ Control /\ Logged /\ [Next]_vars => (Typed /\ Control /\ Logged)'
  BY StepTyped, StepControl, StepLogged
<1>3. Control /\ Logged => LogMatchesSnapshot
  BY ConstantsAssumption DEF Control, Logged, Rests, Says, LogMatchesSnapshot, Scanning
<1>. QED
  BY <1>1, <1>2, <1>3, PTL DEF Spec

-----------------------------------------------------------------------------
(* The provider keeps the contract.                                        *)

LEMMA SameTracked ==
  ASSUME NEW b, NEW l
  PROVE  Contract!Tracked(b, l) = Tracked(b, l)
BY DEF Tracked, Contract!Tracked, LastEventOn, Contract!LastEventOn

(* An event on a tracked resource, or a Creation, is a step of the         *)
(* contract.                                                               *)
LEMMA AppendIsChange ==
  ASSUME Typed, Started, NEW m \in Members, NEW type \in EventTypes,
         AppendEvent(type, m), UNCHANGED <<baseResources, lastSnapshot>>,
         type # "Creation" => m \in Says
  PROVE  Contract!Change
<1>1. lastSnapshot # NULL /\ baseResources # NULL
  BY ConstantsAssumption DEF Started
<1>2. changeLogs' = Append(changeLogs, Contract!Event(type, m, changeOrder))
  BY DEF AppendEvent, Event, Contract!Event
<1>3. type # "Creation" => m \in Contract!Tracked(baseResources, changeLogs)
  BY SameTracked DEF Says
<1>4. type \in Contract!EventTypes /\ changeOrder \in Orders
  BY DEF EventTypes, Contract!EventTypes, Typed, TypeOK
<1>. QED
  BY <1>1, <1>2, <1>3, <1>4 DEF Contract!Change

ContractVars == <<IF lastSnapshot = NULL THEN NULL ELSE baseResources, changeLogs>>

LEMMA InitContract == Init => Contract!Init
BY DEF Init, Contract!Init

LEMMA StepContract ==
  Typed /\ Control /\ Logged /\ [Next]_vars => Contract!Next \/ UNCHANGED ContractVars
<1>. SUFFICES ASSUME Typed, Control, Logged, [Next]_vars
              PROVE  Contract!Next \/ UNCHANGED ContractVars
  OBVIOUS
<1>. USE DEF staticVars
<1>1. ASSUME UNCHANGED <<lastSnapshot, changeLogs>>, lastSnapshot # NULL => UNCHANGED baseResources
      PROVE  UNCHANGED ContractVars
  BY <1>1 DEF ContractVars
<1>2. ASSUME NEW m \in Members, Save(m) \/ Remove(m) PROVE UNCHANGED ContractVars
  BY <1>1, <1>2 DEF Save, Remove, Change
<1>3. ASSUME NEW t \in Threads, NEW n \in {1, 2}, Receive(t, n) PROVE UNCHANGED ContractVars
  BY <1>1, <1>3 DEF Receive
<1>4. ASSUME NEW t \in Threads,
             \/ Enter(t) \/ ListingFails(t) \/ DatesSaved(t) \/ Rescan(t)
             \/ BeginSegment(t) \/ Compared(t) \/ \E o \in Orgs : ListDeviceTypes(t, o)
      PROVE  UNCHANGED ContractVars
  BY <1>1, <1>4 DEF Enter, ListDeviceTypes, ListingFails, DatesSaved, Rescan, BeginSegment, Compared
<1>5. ASSUME NEW t \in Threads, NEW m \in Members,
              SaveDate(t, m) \/ SaveDateFails(t, m) \/ KeepFails(t, m)
       PROVE  UNCHANGED ContractVars
  BY <1>1, <1>5 DEF SaveDate, SaveDateFails, KeepFails
<1>6. ASSUME NEW t \in Threads, EstablishBase(t) PROVE UNCHANGED ContractVars
  BY <1>1, <1>6 DEF EstablishBase, Control
<1>7. ASSUME NEW t \in Threads, StartChangeLog(t) PROVE Contract!Next
  <2>1. baseResources \in SUBSET Members /\ baseResources # NULL
    BY <1>7, ConstantsAssumption DEF StartChangeLog, Typed, Phases
  <2>. QED
    BY <1>7, <2>1 DEF StartChangeLog, Contract!Next, Contract!Publish
<1>8. ASSUME NEW t \in Threads, NEW m \in Members, AppendCreation(t, m) \/ AppendCreationFails(t, m)
      PROVE  Contract!Next
  BY <1>8, AppendIsChange
     DEF AppendCreation, AppendCreationFails, Comparing, EventTypes, Contract!Next, Typed, Phases
<1>9. ASSUME NEW t \in Threads, NEW m \in Members, Keep(t, m)
      PROVE  Contract!Next \/ UNCHANGED ContractVars
  <2>1. Started /\ m \in Says
    BY <1>9, ConstantsAssumption DEF Keep, Comparing, Typed, Phases, Started, Logged, Compares
  <2>2. CASE Updated(m) > lastUpdateDateTimes[m]
    BY <1>9, <2>1, <2>2, AppendIsChange DEF Keep, EventTypes, Contract!Next
  <2>3. CASE ~(Updated(m) > lastUpdateDateTimes[m])
    BY <1>1, <1>9, <2>3 DEF Keep
  <2>. QED
    BY <2>2, <2>3
<1>10. ASSUME NEW t \in Threads, NEW m \in Members, AppendDeletion(t, m) PROVE Contract!Next
  <2>1. Started /\ m \in Says
    BY <1>10, ConstantsAssumption DEF AppendDeletion, Typed, Phases, Started, Logged, Deletes
  <2>. QED
    BY <1>10, <2>1, AppendIsChange DEF AppendDeletion, EventTypes, Contract!Next
<1>11. ASSUME NEW t \in Threads, TakeSnapshot(t) PROVE UNCHANGED ContractVars
  BY <1>11, ConstantsAssumption DEF TakeSnapshot, ContractVars, Typed, TypeOK, Phases, Started
<1>12. ASSUME UNCHANGED vars PROVE UNCHANGED ContractVars
  BY <1>1, <1>12 DEF vars
<1>13. ASSUME NEW t \in Threads, CallHangs(t) PROVE Contract!Next \/ UNCHANGED ContractVars
  <2>1. UNCHANGED <<baseResources, lastSnapshot>>
    BY <1>13 DEF CallHangs
  <2>2. CASE UNCHANGED changeLogs
    BY <1>1, <2>1, <2>2
  <2>3. ASSUME NEW m \in Members, Comparing(t, m), AppendEvent("Creation", m) PROVE Contract!Next
    BY <2>1, <2>3, AppendIsChange DEF Comparing, EventTypes, Contract!Next, Typed, Phases
  <2>. QED
    BY <1>13, <2>2, <2>3 DEF CallHangs
<1>. QED
  BY <1>2, <1>3, <1>4, <1>5, <1>6, <1>7, <1>8, <1>9, <1>10, <1>11, <1>12, <1>13
     DEF Next, Scan, Step

(* Base and change log keep the contract of a TRS provider: they are       *)
(* published once, the log only grows, event by event, and a Modification  *)
(* or Deletion is about a resource that is tracked until then.             *)
THEOREM ContractKept == Spec => KeepsContract
<1>1. Init => Typed /\ Control /\ Logged
  BY InitTyped, InitControl, InitLogged
<1>2. Typed /\ Control /\ Logged /\ [Next]_vars => (Typed /\ Control /\ Logged)'
  BY StepTyped, StepControl, StepLogged
<1>. QED
  BY <1>1, <1>2, InitContract, StepContract, PTL
     DEF Spec, KeepsContract, Contract!Spec, ContractVars

-----------------------------------------------------------------------------
(* The segments of the log.                                                *)

(* What an event needs to keep the segments in order: it is the first of   *)
(* the running scan that is about its resource.                            *)
FirstOfScan(m) ==
  \A i \in DOMAIN changeLogs : changeLogs[i].order = changeOrder => changeLogs[i].changed # m

(* No event is ahead of the counter, and those of the running scan, unless *)
(* it hangs, are about members that the comparison is done with.           *)
Ordered ==
  /\ SegmentsOrdered
  /\ lastSnapshot # NULL =>
       /\ \A i \in DOMAIN changeLogs : changeLogs[i].order <= changeOrder
       /\ \A t \in Threads :
            /\ pc[t] = "compare" /\ t \notin hung =>
                 \A m \in Members \ (listed[t] \ todo[t]) : FirstOfScan(m)
            /\ pc[t] = "delete" => \A m \in resourcesToRemove[t] : FirstOfScan(m)

(* Every order in the log is a natural number.                             *)
LEMMA OrdersTyped ==
  ASSUME Started
  PROVE  \A i \in DOMAIN changeLogs : changeLogs[i].order \in Nat
<1>1. \A i \in DOMAIN changeLogs : changeLogs[i] \in EventSet(Members, Orders)
  BY DEF Started
<1>2. Orders \subseteq Nat
  BY ConstantsAssumption DEF Orders
<1>. QED
  BY <1>1, <1>2 DEF EventSet

(* Where the event that AppendEvent adds is.                               *)
LEMMA EventAppended ==
  ASSUME Typed, Started, NEW m \in Members, NEW type \in EventTypes, AppendEvent(type, m)
  PROVE  \E n \in Nat :
           /\ DOMAIN changeLogs' = DOMAIN changeLogs \cup {n}
           /\ DOMAIN changeLogs \subseteq Nat
           /\ changeLogs'[n] = Event(type, m, changeOrder)
           /\ \A i \in DOMAIN changeLogs : i < n /\ changeLogs'[i] = changeLogs[i]
           /\ \A i \in DOMAIN changeLogs : changeLogs[i].order \in Nat
<1>1. Event(type, m, changeOrder) \in EventSet(Members, Orders)
  BY DEF Event, EventSet, Typed, TypeOK
<1>2. \A i \in DOMAIN changeLogs : changeLogs[i].order \in Nat
  BY OrdersTyped
<1>. QED
  BY <1>1, <1>2, AppendAt DEF AppendEvent, Started

(* Such an event keeps the order, and makes the scan done with its member. *)
LEMMA OrderedAppend ==
  ASSUME Typed, Started, NEW m \in Members, NEW type \in EventTypes, AppendEvent(type, m),
         UNCHANGED changeOrder, Ordered, lastSnapshot # NULL, FirstOfScan(m)
  PROVE  /\ SegmentsOrdered'
         /\ \A i \in DOMAIN changeLogs' : changeLogs'[i].order <= changeOrder
         /\ \A x : x # m /\ FirstOfScan(x) => FirstOfScan(x)'
<1>1. PICK n \in Nat :
        /\ DOMAIN changeLogs' = DOMAIN changeLogs \cup {n}
        /\ DOMAIN changeLogs \subseteq Nat
        /\ changeLogs'[n] = Event(type, m, changeOrder)
        /\ \A i \in DOMAIN changeLogs : i < n /\ changeLogs'[i] = changeLogs[i]
        /\ \A i \in DOMAIN changeLogs : changeLogs[i].order \in Nat
  BY EventAppended
<1>2. changeLogs'[n].order = changeOrder /\ changeLogs'[n].changed = m /\ changeOrder \in Nat
  BY <1>1, ConstantsAssumption DEF Event, Typed, TypeOK, Orders
<1>3. \A i \in DOMAIN changeLogs : changeLogs[i].order <= changeOrder
  BY DEF Ordered
<1>4. \A i \in DOMAIN changeLogs' : changeLogs'[i].order <= changeOrder
  BY <1>1, <1>2, <1>3
<1>5. \A x : x # m /\ FirstOfScan(x) => FirstOfScan(x)'
  BY <1>1, <1>2 DEF FirstOfScan
<1>6. ASSUME NEW i \in DOMAIN changeLogs', NEW j \in DOMAIN changeLogs', i < j
      PROVE  \/ changeLogs'[i].order < changeLogs'[j].order
             \/ /\ changeLogs'[i].order = changeLogs'[j].order
                /\ changeLogs'[i].changed # changeLogs'[j].changed
  <2>1. CASE j = n
    <3>1. i \in DOMAIN changeLogs /\ changeLogs'[i] = changeLogs[i]
      BY <1>1, <1>6, <2>1
    <3>. QED
      BY <1>1, <1>2, <1>3, <2>1, <3>1 DEF FirstOfScan
  <2>2. CASE j # n
    <3>1. i \in DOMAIN changeLogs /\ j \in DOMAIN changeLogs
      BY <1>1, <1>6, <2>2
    <3>. QED
      BY <1>1, <1>6, <3>1 DEF Ordered, SegmentsOrdered
  <2>. QED
    BY <2>1, <2>2
<1>7. SegmentsOrdered'
  BY <1>6 DEF SegmentsOrdered
<1>. QED
  BY <1>4, <1>5, <1>7

LEMMA InitOrdered == Init => Ordered
BY DEF Init, Ordered, SegmentsOrdered

LEMMA StepOrdered ==
  /\ Typed /\ Control /\ Logged /\ Ordered
  /\ changeOrder < OrderRange - 1
  /\ [Next]_vars
  => Ordered'
<1>. SUFFICES ASSUME Typed, Control, Logged, Ordered, changeOrder < OrderRange - 1, [Next]_vars
              PROVE  Ordered'
  OBVIOUS
<1>. USE ConstantsAssumption DEF platformVars, staticVars, localVars
<1>a. ASSUME UNCHANGED <<hung, lastSnapshot, changeLogs, changeOrder>>,
             \A t \in Threads : pc'[t] \in {"compare", "delete"} =>
               pc'[t] = pc[t] /\ UNCHANGED <<listed[t], todo[t], resourcesToRemove[t]>>
      PROVE  Ordered'
  BY <1>a DEF Ordered, SegmentsOrdered, FirstOfScan
<1>b. \A t, u \in Threads : pc[t] \in Scanning /\ pc[u] \in Scanning => t = u
  BY DEF Control
<1>c. {"compare", "delete"} \subseteq Scanning
  BY DEF Scanning
<1>1. ASSUME NEW m \in Members, Save(m) \/ Remove(m) PROVE Ordered'
  BY <1>1, <1>a DEF Save, Remove, Change
<1>2. ASSUME NEW t \in Threads, NEW n \in {1, 2}, Receive(t, n) PROVE Ordered'
  BY <1>2, <1>a DEF Receive, Typed, TypeOK
<1>3. ASSUME NEW t \in Threads, Enter(t) PROVE Ordered'
  BY <1>3, <1>a DEF Enter, Typed, TypeOK
<1>4. ASSUME NEW t \in Threads, NEW o \in Orgs, ListDeviceTypes(t, o) PROVE Ordered'
  BY <1>4, <1>a DEF ListDeviceTypes, Listing, Typed, TypeOK
<1>5. ASSUME NEW t \in Threads, ListingFails(t) PROVE Ordered'
  BY <1>5, <1>a DEF ListingFails, Abort, LeaveMonitor, Forget, Typed, TypeOK
<1>6. ASSUME NEW t \in Threads, EstablishBase(t) PROVE Ordered'
  BY <1>6 DEF EstablishBase, Control, Ordered, SegmentsOrdered
<1>7. ASSUME NEW t \in Threads, NEW m \in Members, SaveDate(t, m) PROVE Ordered'
  BY <1>7, <1>a DEF SaveDate, Typed, TypeOK
<1>8. ASSUME NEW t \in Threads, NEW m \in Members, SaveDateFails(t, m) \/ KeepFails(t, m)
      PROVE  Ordered'
  BY <1>8, <1>a DEF SaveDateFails, KeepFails, Abort, LeaveMonitor, Forget, Typed, TypeOK
<1>9. ASSUME NEW t \in Threads, DatesSaved(t) \/ Rescan(t) PROVE Ordered'
  BY <1>9, <1>a DEF DatesSaved, Rescan, Forget, Typed, TypeOK
<1>10. ASSUME NEW t \in Threads, StartChangeLog(t) PROVE Ordered'
  <2>1. changeLogs' = << >> /\ DOMAIN changeLogs' = {}
    BY <1>10 DEF StartChangeLog
  <2>. QED
    BY <2>1 DEF Ordered, SegmentsOrdered, FirstOfScan
<1>11. ASSUME NEW t \in Threads, BeginSegment(t) PROVE Ordered'
  <2>1. changeOrder \in Nat /\ changeOrder' = changeOrder + 1
    <3>1. changeOrder \in Nat /\ changeOrder + 1 < OrderRange /\ OrderRange \in Nat
      BY DEF Typed, TypeOK, Orders
    <3>2. \A a, b \in Nat : a < b => a % b = a
      OBVIOUS
    <3>. QED
      BY <1>11, <3>1, <3>2 DEF BeginSegment
  <2>2. UNCHANGED <<lastSnapshot, changeLogs>>
    BY <1>11 DEF BeginSegment
  <2>3. lastSnapshot # NULL => \A i \in DOMAIN changeLogs : changeLogs[i].order \in Nat
    BY OrdersTyped DEF Typed, Phases
  <2>4. lastSnapshot # NULL => \A i \in DOMAIN changeLogs : changeLogs[i].order < changeOrder'
    BY <2>1, <2>3 DEF Ordered
  <2>5. lastSnapshot # NULL => \A m : FirstOfScan(m)'
    BY <2>1, <2>2, <2>3, <2>4 DEF FirstOfScan
  <2>6. lastSnapshot # NULL => \A i \in DOMAIN changeLogs : changeLogs[i].order <= changeOrder'
    BY <2>1, <2>3, <2>4
  <2>. QED
    BY <2>2, <2>5, <2>6 DEF Ordered, SegmentsOrdered
<1>12. ASSUME NEW t \in Threads \ hung, NEW m \in Members, AppendCreation(t, m) PROVE Ordered'
  <2>1. Started /\ lastSnapshot # NULL /\ FirstOfScan(m)
    BY <1>12 DEF AppendCreation, Comparing, Typed, Phases, Started, Ordered
  <2>2. AppendEvent("Creation", m) /\ UNCHANGED <<changeOrder, lastSnapshot>>
    BY <1>12 DEF AppendCreation
  <2>3. \A u \in Threads : u # t => pc'[u] \notin {"compare", "delete"}
    BY <1>12, <1>b DEF AppendCreation, Comparing, Scanning
  <2>4. /\ pc[t] = "compare" /\ pc'[t] = "compare" /\ UNCHANGED listed
        /\ todo'[t] = todo[t] \ {m} /\ m \in todo[t] /\ todo[t] \subseteq listed[t]
    BY <1>12, <2>1 DEF AppendCreation, Comparing, Typed, TypeOK, Logged, Compares
  <2>5. \A x \in Members \ (listed'[t] \ todo'[t]) : FirstOfScan(x)'
    BY <2>1, <2>2, <2>4, OrderedAppend DEF Ordered, EventTypes
  <2>. QED
    BY <2>1, <2>2, <2>3, <2>4, <2>5, OrderedAppend DEF Ordered, EventTypes
<1>13. ASSUME NEW t \in Threads \ hung, NEW m \in Members, AppendCreationFails(t, m) PROVE Ordered'
  <2>1. Started /\ lastSnapshot # NULL /\ FirstOfScan(m)
    BY <1>13 DEF AppendCreationFails, Comparing, Typed, Phases, Started, Ordered
  <2>2. AppendEvent("Creation", m) /\ UNCHANGED <<changeOrder, lastSnapshot>>
    BY <1>13 DEF AppendCreationFails
  <2>3. \A u \in Threads : pc'[u] \notin {"compare", "delete"}
    BY <1>13, <1>b DEF AppendCreationFails, Comparing, Abort, Scanning, Typed, TypeOK
  <2>. QED
    BY <2>1, <2>2, <2>3, OrderedAppend DEF Ordered, EventTypes
<1>14. ASSUME NEW t \in Threads \ hung, NEW m \in Members, Keep(t, m) PROVE Ordered'
  <2>1. Started /\ lastSnapshot # NULL /\ FirstOfScan(m)
    BY <1>14 DEF Keep, Comparing, Typed, Phases, Started, Ordered
  <2>2. UNCHANGED <<changeOrder, lastSnapshot>>
    BY <1>14 DEF Keep
  <2>3. \A u \in Threads : u # t => pc'[u] \notin {"compare", "delete"}
    BY <1>14, <1>b DEF Keep, Comparing, Scanning
  <2>4. /\ pc[t] = "compare" /\ pc'[t] = "compare" /\ UNCHANGED listed
        /\ todo'[t] = todo[t] \ {m} /\ m \in todo[t] /\ todo[t] \subseteq listed[t]
    BY <1>14, <2>1 DEF Keep, Comparing, Typed, TypeOK, Logged, Compares
  <2>5. CASE AppendEvent("Modification", m)
    <3>1. \A x \in Members \ (listed'[t] \ todo'[t]) : FirstOfScan(x)'
      BY <2>1, <2>2, <2>4, <2>5, OrderedAppend DEF Ordered, EventTypes
    <3>. QED
      BY <2>1, <2>2, <2>3, <2>4, <2>5, <3>1, OrderedAppend DEF Ordered, EventTypes
  <2>6. CASE UNCHANGED changeLogs
    BY <2>2, <2>3, <2>4, <2>6 DEF Ordered, SegmentsOrdered, FirstOfScan
  <2>. QED
    BY <1>14, <2>5, <2>6 DEF Keep
<1>15. ASSUME NEW t \in Threads \ hung, Compared(t) PROVE Ordered'
  <2>1. lastSnapshot # NULL /\ Compares(t) /\ Started /\ todo[t] = {}
    BY <1>15 DEF Compared, Typed, Phases, Started, Logged
  <2>2. \A u \in Threads : u # t => pc'[u] \notin {"compare", "delete"}
    BY <1>15, <1>b DEF Compared, Scanning, Typed, TypeOK
  <2>3. UNCHANGED <<lastSnapshot, changeLogs, changeOrder, resourcesToRemove>> /\ pc'[t] = "delete"
    BY <1>15 DEF Compared, Typed, TypeOK
  <2>4. \A m \in resourcesToRemove[t] : FirstOfScan(m)
    BY <1>15, <2>1 DEF Compared, Compares, Started, Ordered
  <2>. QED
    BY <2>1, <2>2, <2>3, <2>4 DEF Ordered, SegmentsOrdered, FirstOfScan
<1>16. ASSUME NEW t \in Threads, NEW m \in Members, AppendDeletion(t, m) PROVE Ordered'
  <2>1. Started /\ lastSnapshot # NULL /\ FirstOfScan(m)
    BY <1>16 DEF AppendDeletion, Typed, Phases, Started, Ordered
  <2>2. AppendEvent("Deletion", m) /\ UNCHANGED <<changeOrder, lastSnapshot>>
    BY <1>16 DEF AppendDeletion
  <2>3. \A u \in Threads : u # t => pc'[u] \notin {"compare", "delete"}
    BY <1>16, <1>b DEF AppendDeletion, Scanning
  <2>4. pc[t] = "delete" /\ pc'[t] = "delete"
        /\ resourcesToRemove'[t] = resourcesToRemove[t] \ {m}
    BY <1>16 DEF AppendDeletion, Typed, TypeOK
  <2>5. \A x \in resourcesToRemove'[t] : FirstOfScan(x)'
    BY <2>1, <2>2, <2>4, OrderedAppend DEF Ordered, EventTypes
  <2>. QED
    BY <2>1, <2>2, <2>3, <2>4, <2>5, OrderedAppend DEF Ordered, EventTypes
<1>17. ASSUME NEW t \in Threads, TakeSnapshot(t) PROVE Ordered'
  <2>1. lastSnapshot # NULL /\ UNCHANGED <<changeLogs, changeOrder>>
    BY <1>17 DEF TakeSnapshot, Typed, Phases, Started
  <2>2. \A u \in Threads : pc'[u] \notin {"compare", "delete"}
    BY <1>17, <1>b, ZenonT(60) DEF TakeSnapshot, Return, Scanning, Typed, TypeOK
  <2>. QED
    BY <2>1, <2>2 DEF Ordered, SegmentsOrdered
<1>18. ASSUME UNCHANGED vars PROVE Ordered'
  BY <1>18, <1>a DEF vars
<1>19. ASSUME NEW t \in Threads, CallHangs(t) PROVE Ordered'
  <2>1. /\ UNCHANGED <<lastSnapshot, changeOrder, pc, listed, todo, resourcesToRemove>>
        /\ hung' = hung \cup {t}
    BY <1>19 DEF CallHangs
  <2>2. CASE UNCHANGED changeLogs
    BY <2>1, <2>2 DEF Ordered, SegmentsOrdered, FirstOfScan
  <2>3. ASSUME NEW m \in Members, Comparing(t, m), AppendEvent("Creation", m), t \notin hung
        PROVE  Ordered'
    <3>1. Started /\ lastSnapshot # NULL /\ Compares(t) /\ m \in todo[t]
      BY <2>3 DEF Comparing, Typed, Phases, Started, Logged
    <3>2. FirstOfScan(m)
      BY <2>3, <3>1 DEF Comparing, Ordered, Compares
    <3>3. \A u \in Threads : u # t => pc'[u] \notin {"compare", "delete"}
      BY <1>b, <2>1, <2>3 DEF Comparing, Scanning
    <3>4. pc'[t] = "compare" /\ t \in hung'
      BY <2>1, <2>3 DEF Comparing
    <3>. QED
      BY <2>1, <2>3, <3>1, <3>2, <3>3, <3>4, OrderedAppend DEF Ordered, EventTypes
  <2>. QED
    BY <1>19, <2>2, <2>3 DEF CallHangs
<1>. QED
  BY <1>1, <1>2, <1>3, <1>4, <1>5, <1>6, <1>7, <1>8, <1>9, <1>10, <1>11, <1>12, <1>13, <1>14,
     <1>15, <1>16, <1>17, <1>18, <1>19
     DEF Next, Scan, Step

(* As long as the int changeOrder does not wrap, the events of the log are *)
(* in the order of their scans and no two of one scan are about the same   *)
(* member, whichever scans abort and are repeated.                         *)
THEOREM SegmentsInOrder == Spec /\ [](changeOrder < OrderRange - 1) => []SegmentsOrdered
<1>1. Init => Typed /\ Control /\ Logged /\ Ordered
  BY InitTyped, InitControl, InitLogged, InitOrdered
<1>2. Typed /\ Control /\ Logged /\ Ordered /\ changeOrder < OrderRange - 1 /\ [Next]_vars
        => (Typed /\ Control /\ Logged /\ Ordered)'
  BY StepTyped, StepControl, StepLogged, StepOrdered
<1>3. Ordered => SegmentsOrdered
  BY DEF Ordered
<1>. QED
  BY <1>1, <1>2, <1>3, PTL DEF Spec

-----------------------------------------------------------------------------
(* The dates.                                                              *)

(* The base has it and no event is about it.                               *)
FromBase(m) == m \in baseResources /\ \A i \in DOMAIN changeLogs : changeLogs[i].changed # m

DatelessFromBase(S) ==
  \A m \in S \ Undated : lastUpdateDateTimes[m] = NoDate => FromBase(m)

(* In a scan the members it is done with are counted in, and once it can   *)
(* no longer abort, those it will not keep are counted out.                *)
Dated ==
  lastSnapshot # NULL =>
    /\ (\A t \in Threads : pc[t] # "delete") => DatelessFromBase(lastSnapshot)
    /\ \A t \in Threads :
         /\ pc[t] = "compare" => DatelessFromBase(lastSnapshot \cup (listed[t] \ todo[t]))
         /\ pc[t] = "delete" => DatelessFromBase(listed[t])

(* An event is about no other member.                                      *)
LEMMA FromBaseAppend ==
  ASSUME Typed, Started, NEW m \in Members, NEW type \in EventTypes, AppendEvent(type, m),
         UNCHANGED baseResources, NEW x, x # m, FromBase(x)
  PROVE  FromBase(x)'
<1>1. PICK n \in Nat :
        /\ DOMAIN changeLogs' = DOMAIN changeLogs \cup {n}
        /\ changeLogs'[n] = Event(type, m, changeOrder)
        /\ \A i \in DOMAIN changeLogs : changeLogs'[i] = changeLogs[i]
  BY EventAppended
<1>2. changeLogs'[n].changed = m
  BY <1>1 DEF Event
<1>. QED
  BY <1>1, <1>2 DEF FromBase

(* A member the platform has, has a date unless it is one of Undated.      *)
LEMMA ExistingDated ==
  ASSUME NEW m \in Existing, m \notin Undated
  PROVE  Updated(m) # NoDate
BY DEF Existing, Updated, Absent, NoDate

LEMMA InitDated == Init => Dated
BY DEF Init, Dated

LEMMA StepDated == Typed /\ Control /\ Logged /\ Dated /\ [Next]_vars => Dated'
<1>. SUFFICES ASSUME Typed, Control, Logged, Dated, [Next]_vars PROVE Dated'
  OBVIOUS
<1>. USE ConstantsAssumption DEF platformVars, staticVars, localVars
<1>a. ASSUME UNCHANGED <<baseResources, lastSnapshot, changeLogs, lastUpdateDateTimes>>,
             \A t \in Threads : pc'[t] \in {"compare", "delete"} =>
               pc'[t] = pc[t] /\ UNCHANGED <<listed[t], todo[t]>>,
             \A t \in Threads : pc[t] = "delete" => pc'[t] = pc[t]
      PROVE  Dated'
  BY <1>a DEF Dated, DatelessFromBase, FromBase
<1>b. \A t, u \in Threads : pc[t] \in Scanning /\ pc[u] \in Scanning => t = u
  BY DEF Control
<1>1. ASSUME NEW m \in Members, Save(m) \/ Remove(m) PROVE Dated'
  BY <1>1, <1>a DEF Save, Remove, Change
<1>2. ASSUME NEW t \in Threads, NEW n \in {1, 2}, Receive(t, n) PROVE Dated'
  BY <1>2, <1>a DEF Receive, Typed, TypeOK
<1>3. ASSUME NEW t \in Threads, Enter(t) PROVE Dated'
  BY <1>3, <1>a DEF Enter, Typed, TypeOK
<1>4. ASSUME NEW t \in Threads, NEW o \in Orgs, ListDeviceTypes(t, o) PROVE Dated'
  BY <1>4, <1>a DEF ListDeviceTypes, Listing, Typed, TypeOK
<1>5. ASSUME NEW t \in Threads, ListingFails(t) PROVE Dated'
  BY <1>5, <1>a DEF ListingFails, Abort, LeaveMonitor, Forget, Listing, Typed, TypeOK
<1>6. ASSUME NEW t \in Threads, EstablishBase(t) PROVE Dated'
  BY <1>6 DEF EstablishBase, Control, Dated
<1>7. ASSUME NEW t \in Threads, NEW m \in Members, SaveDate(t, m) PROVE Dated'
  <2>1. /\ UNCHANGED <<baseResources, lastSnapshot, changeLogs, pc, listed>>
        /\ \A u \in Threads : u # t => UNCHANGED todo[u]
        /\ pc[t] = "dates" /\ m \in Existing
        /\ lastUpdateDateTimes' = [lastUpdateDateTimes EXCEPT ![m] = Updated(m)]
    BY <1>7 DEF SaveDate, SetDate, Typed, TypeOK
  <2>2. \A x \in Members \ Undated : lastUpdateDateTimes'[x] = NoDate => lastUpdateDateTimes[x] = NoDate
    BY <2>1, ExistingDated DEF Typed, TypeOK
  <2>3. \A S \in SUBSET Members : DatelessFromBase(S) => DatelessFromBase(S)'
    BY <2>1, <2>2 DEF DatelessFromBase, FromBase
  <2>4. \A u \in Threads : pc[u] \in {"compare", "delete"} => u # t
    BY <2>1
  <2>. QED
    BY <2>1, <2>3, <2>4 DEF Dated, Typed, TypeOK
<1>8. ASSUME NEW t \in Threads, NEW m \in Members, SaveDateFails(t, m) \/ KeepFails(t, m)
      PROVE  Dated'
  BY <1>8, <1>a DEF SaveDateFails, KeepFails, Comparing, Abort, LeaveMonitor, Forget, Typed, TypeOK
<1>9. ASSUME NEW t \in Threads, DatesSaved(t) \/ Rescan(t) PROVE Dated'
  BY <1>9, <1>a DEF DatesSaved, Rescan, Forget, Typed, TypeOK
<1>10. ASSUME NEW t \in Threads, StartChangeLog(t) PROVE Dated'
  <2>1. DOMAIN changeLogs' = {} /\ lastSnapshot' = baseResources /\ UNCHANGED baseResources
    BY <1>10 DEF StartChangeLog
  <2>2. DatelessFromBase(lastSnapshot)'
    BY <2>1 DEF DatelessFromBase, FromBase
  <2>3. \A u \in Threads : pc'[u] \notin {"compare", "delete"}
    BY <1>10, <1>b DEF StartChangeLog, Return, Typed, TypeOK, Scanning
  <2>. QED
    BY <2>2, <2>3 DEF Dated
<1>11. ASSUME NEW t \in Threads, BeginSegment(t) PROVE Dated'
  <2>1. /\ UNCHANGED <<baseResources, lastSnapshot, changeLogs, lastUpdateDateTimes, listed>>
        /\ pc'[t] = "compare" /\ todo'[t] = listed[t]
    BY <1>11 DEF BeginSegment, Typed, TypeOK
  <2>2. \A u \in Threads : u # t => pc'[u] \notin {"compare", "delete"}
    BY <1>11, <1>b DEF BeginSegment, Typed, TypeOK, Scanning
  <2>3. lastSnapshot # NULL => DatelessFromBase(lastSnapshot)
    BY <1>11, <1>b DEF BeginSegment, Dated, Scanning
  <2>4. lastSnapshot # NULL => DatelessFromBase(lastSnapshot \cup (listed[t] \ todo[t]))'
    BY <2>1, <2>3 DEF DatelessFromBase, FromBase
  <2>5. lastSnapshot # NULL => DatelessFromBase(lastSnapshot)'
    BY <2>1, <2>3 DEF DatelessFromBase, FromBase
  <2>. QED
    BY <2>1, <2>2, <2>4, <2>5 DEF Dated
<1>12. ASSUME NEW t \in Threads, NEW m \in Members, AppendCreation(t, m) PROVE Dated'
  <2>1. Started /\ lastSnapshot # NULL
        /\ DatelessFromBase(lastSnapshot \cup (listed[t] \ todo[t]))
    BY <1>12 DEF AppendCreation, Comparing, Typed, Phases, Started, Dated
  <2>2. /\ AppendEvent("Creation", m) /\ UNCHANGED <<baseResources, lastSnapshot, listed>>
        /\ pc[t] = "compare" /\ pc'[t] = "compare" /\ todo'[t] = todo[t] \ {m}
        /\ m \in Existing
        /\ lastUpdateDateTimes' = [lastUpdateDateTimes EXCEPT ![m] = Updated(m)]
    BY <1>12 DEF AppendCreation, Comparing, SetDate, Typed, TypeOK
  <2>3. \A u \in Threads : u # t => pc'[u] \notin {"compare", "delete"}
    BY <1>12, <1>b DEF AppendCreation, Comparing, Scanning
  <2>4. ASSUME NEW x \in Members \ Undated, x \in lastSnapshot \cup (listed'[t] \ todo'[t]),
               lastUpdateDateTimes'[x] = NoDate
        PROVE  FromBase(x)'
    <3>1. x # m
      BY <2>2, <2>4, ExistingDated DEF Typed, TypeOK
    <3>2. x \in lastSnapshot \cup (listed[t] \ todo[t]) /\ lastUpdateDateTimes[x] = NoDate
      BY <2>2, <2>4, <3>1 DEF Typed, TypeOK
    <3>3. FromBase(x)
      BY <2>1, <2>4, <3>2 DEF DatelessFromBase
    <3>. QED
      BY <2>1, <2>2, <3>1, <3>3, FromBaseAppend DEF EventTypes
  <2>5. lastSnapshot \cup (listed'[t] \ todo'[t]) \subseteq Members
    BY <2>1, <2>2 DEF Started, Typed, TypeOK
  <2>6. DatelessFromBase(lastSnapshot \cup (listed[t] \ todo[t]))' /\ DatelessFromBase(lastSnapshot)'
    BY <2>2, <2>4, <2>5 DEF DatelessFromBase
  <2>. QED
    BY <2>2, <2>3, <2>6 DEF Dated
<1>13. ASSUME NEW t \in Threads, NEW m \in Members, AppendCreationFails(t, m) PROVE Dated'
  <2>1. Started /\ lastSnapshot # NULL /\ DatelessFromBase(lastSnapshot)
    BY <1>13, <1>b DEF AppendCreationFails, Comparing, Scanning, Typed, Phases, Started, Dated
  <2>2. /\ AppendEvent("Creation", m) /\ m \notin lastSnapshot
        /\ UNCHANGED <<baseResources, lastSnapshot, lastUpdateDateTimes>>
    BY <1>13 DEF AppendCreationFails, Comparing
  <2>3. \A u \in Threads : pc'[u] \notin {"compare", "delete"}
    BY <1>13, <1>b DEF AppendCreationFails, Comparing, Abort, Scanning, Typed, TypeOK
  <2>4. \A x \in lastSnapshot : FromBase(x) => FromBase(x)'
    BY <2>1, <2>2, FromBaseAppend DEF EventTypes
  <2>5. DatelessFromBase(lastSnapshot)'
    BY <2>1, <2>2, <2>4 DEF DatelessFromBase
  <2>. QED
    BY <2>3, <2>5 DEF Dated
<1>14. ASSUME NEW t \in Threads, NEW m \in Members, Keep(t, m) PROVE Dated'
  <2>1. Started /\ lastSnapshot # NULL
        /\ DatelessFromBase(lastSnapshot \cup (listed[t] \ todo[t]))
    BY <1>14 DEF Keep, Comparing, Typed, Phases, Started, Dated
  <2>2. /\ UNCHANGED <<baseResources, lastSnapshot, listed>>
        /\ pc[t] = "compare" /\ pc'[t] = "compare" /\ todo'[t] = todo[t] \ {m}
        /\ m \in lastSnapshot /\ Updated(m) # NoDate /\ lastUpdateDateTimes[m] # NoDate
    BY <1>14 DEF Keep, Comparing, Typed, TypeOK
  <2>3. \/ /\ AppendEvent("Modification", m)
           /\ lastUpdateDateTimes' = [lastUpdateDateTimes EXCEPT ![m] = Updated(m)]
        \/ UNCHANGED <<changeLogs, lastUpdateDateTimes>>
    BY <1>14 DEF Keep, SetDate
  <2>4. \A u \in Threads : u # t => pc'[u] \notin {"compare", "delete"}
    BY <1>14, <1>b DEF Keep, Comparing, Scanning
  <2>5. ASSUME NEW x \in Members \ Undated, x \in lastSnapshot \cup (listed'[t] \ todo'[t]),
               lastUpdateDateTimes'[x] = NoDate
        PROVE  FromBase(x)'
    <3>1. x # m
      BY <2>2, <2>3, <2>5 DEF Typed, TypeOK
    <3>2. x \in lastSnapshot \cup (listed[t] \ todo[t]) /\ lastUpdateDateTimes[x] = NoDate
      BY <2>2, <2>3, <2>5, <3>1 DEF Typed, TypeOK
    <3>3. FromBase(x)
      BY <2>1, <2>5, <3>2 DEF DatelessFromBase
    <3>4. CASE AppendEvent("Modification", m)
      BY <2>1, <2>2, <3>1, <3>3, <3>4, FromBaseAppend DEF EventTypes
    <3>5. CASE UNCHANGED changeLogs
      BY <2>2, <3>3, <3>5 DEF FromBase
    <3>. QED
      BY <2>3, <3>4, <3>5
  <2>6. lastSnapshot \cup (listed'[t] \ todo'[t]) \subseteq Members
    BY <2>1, <2>2 DEF Started, Typed, TypeOK
  <2>7. DatelessFromBase(lastSnapshot \cup (listed[t] \ todo[t]))' /\ DatelessFromBase(lastSnapshot)'
    BY <2>2, <2>5, <2>6 DEF DatelessFromBase
  <2>. QED
    BY <2>2, <2>4, <2>7 DEF Dated
<1>15. ASSUME NEW t \in Threads, Compared(t) PROVE Dated'
  <2>1. todo[t] = {} /\ (lastSnapshot # NULL => DatelessFromBase(lastSnapshot \cup (listed[t] \ todo[t])))
    BY <1>15 DEF Compared, Dated
  <2>2. /\ UNCHANGED <<baseResources, lastSnapshot, changeLogs, lastUpdateDateTimes, listed>>
        /\ pc'[t] = "delete"
    BY <1>15 DEF Compared, Typed, TypeOK
  <2>3. \A u \in Threads : u # t => pc'[u] \notin {"compare", "delete"}
    BY <1>15, <1>b DEF Compared, Scanning, Typed, TypeOK
  <2>4. lastSnapshot # NULL => DatelessFromBase(listed[t])'
    BY <2>1, <2>2 DEF DatelessFromBase, FromBase
  <2>. QED
    BY <2>2, <2>3, <2>4 DEF Dated
<1>16. ASSUME NEW t \in Threads, NEW m \in Members, AppendDeletion(t, m) PROVE Dated'
  <2>1. Started /\ lastSnapshot # NULL /\ DatelessFromBase(listed[t]) /\ m \notin listed[t]
    BY <1>16 DEF AppendDeletion, Typed, Phases, Started, Dated, Logged, Deletes
  <2>2. /\ AppendEvent("Deletion", m) /\ UNCHANGED <<baseResources, lastSnapshot, listed>>
        /\ pc[t] = "delete" /\ pc'[t] = "delete"
        /\ lastUpdateDateTimes' = [lastUpdateDateTimes EXCEPT ![m] = NoDate]
    BY <1>16 DEF AppendDeletion, SetDate, Typed, TypeOK
  <2>3. \A u \in Threads : u # t => pc'[u] \notin {"compare", "delete"}
    BY <1>16, <1>b DEF AppendDeletion, Scanning
  <2>4. \A x \in listed[t] : FromBase(x) => FromBase(x)'
    BY <2>1, <2>2, FromBaseAppend DEF EventTypes
  <2>5. \A x \in listed[t] : lastUpdateDateTimes'[x] = lastUpdateDateTimes[x]
    BY <2>1, <2>2 DEF Typed, TypeOK
  <2>6. DatelessFromBase(listed[t])'
    BY <2>1, <2>2, <2>4, <2>5 DEF DatelessFromBase
  <2>. QED
    BY <2>2, <2>3, <2>6 DEF Dated
<1>17. ASSUME NEW t \in Threads, TakeSnapshot(t) PROVE Dated'
  <2>1. lastSnapshot # NULL /\ DatelessFromBase(listed[t])
    BY <1>17 DEF TakeSnapshot, Typed, Phases, Started, Dated
  <2>2. /\ UNCHANGED <<baseResources, changeLogs, lastUpdateDateTimes>>
        /\ lastSnapshot' = listed[t]
    BY <1>17 DEF TakeSnapshot
  <2>3. \A u \in Threads : pc'[u] \notin {"compare", "delete"}
    BY <1>17, <1>b, ZenonT(60) DEF TakeSnapshot, Return, Scanning, Typed, TypeOK
  <2>4. DatelessFromBase(lastSnapshot)'
    BY <2>1, <2>2 DEF DatelessFromBase, FromBase
  <2>. QED
    BY <2>3, <2>4 DEF Dated
<1>18. ASSUME UNCHANGED vars PROVE Dated'
  BY <1>18, <1>a DEF vars
<1>19. ASSUME NEW t \in Threads, CallHangs(t) PROVE Dated'
  <2>1. UNCHANGED <<baseResources, lastSnapshot, lastUpdateDateTimes, pc, listed, todo>>
    BY <1>19 DEF CallHangs
  <2>2. CASE UNCHANGED changeLogs
    BY <1>a, <2>1, <2>2
  <2>3. ASSUME NEW m \in Members, Comparing(t, m), m \notin lastSnapshot, AppendEvent("Creation", m)
        PROVE  Dated'
    <3>1. Started /\ lastSnapshot # NULL /\ Compares(t) /\ m \in todo[t]
      BY <2>3 DEF Comparing, Typed, Phases, Started, Logged
    <3>2. \A x : x # m /\ FromBase(x) => FromBase(x)'
      BY <2>1, <2>3, <3>1, FromBaseAppend DEF EventTypes
    <3>4. pc[t] = "compare" /\ \A u \in Threads : u # t => pc[u] \notin {"compare", "delete"}
      BY <1>b, <2>3 DEF Comparing, Scanning
    <3>5. m \notin lastSnapshot \cup (listed[t] \ todo[t])
      BY <2>3, <3>1
    <3>6. /\ DatelessFromBase(lastSnapshot)
          /\ DatelessFromBase(lastSnapshot \cup (listed[t] \ todo[t]))
      BY <3>1, <3>4 DEF Dated, DatelessFromBase
    <3>7. /\ DatelessFromBase(lastSnapshot)'
          /\ DatelessFromBase(lastSnapshot \cup (listed[t] \ todo[t]))'
      <4>1. \A x \in lastSnapshot \cup (listed[t] \ todo[t]) : FromBase(x) => FromBase(x)'
        BY <3>2, <3>5
      <4>. QED
        BY <2>1, <3>6, <4>1 DEF DatelessFromBase
    <3>. QED
      BY <2>1, <3>4, <3>7 DEF Dated
  <2>. QED
    BY <1>19, <2>2, <2>3 DEF CallHangs
<1>. QED
  BY <1>1, <1>2, <1>3, <1>4, <1>5, <1>6, <1>7, <1>8, <1>9, <1>10, <1>11, <1>12, <1>13, <1>14,
     <1>15, <1>16, <1>17, <1>18, <1>19
     DEF Next, Scan, Step

(* Between scans, the only members without a date are those of the base    *)
(* that no event is about (and those whose date never parses): a member    *)
(* that was once compared has a date, so it cannot make the scans abort.   *)
THEOREM DatelessAreFromBase == Spec => []DatelessOnlyFromBase
<1>1. Init => Typed /\ Control /\ Logged /\ Dated
  BY InitTyped, InitControl, InitLogged, InitDated
<1>2. Typed /\ Control /\ Logged /\ Dated /\ [Next]_vars => (Typed /\ Control /\ Logged /\ Dated)'
  BY StepTyped, StepControl, StepLogged, StepDated
<1>3. Control /\ Dated => DatelessOnlyFromBase
  BY ConstantsAssumption
     DEF Control, Dated, DatelessFromBase, FromBase, DatelessOnlyFromBase, Scanning
<1>. QED
  BY <1>1, <1>2, <1>3, PTL DEF Spec

-----------------------------------------------------------------------------
(* The comment of updateChangeLog's Creation.                              *)

(* An event that is not a Creation, or is about a member that base and log *)
(* do not say yet, keeps the Creations new.                                *)
LEMMA NewAppend ==
  ASSUME Typed, Started, NEW m \in Members, NEW type \in EventTypes, AppendEvent(type, m),
         UNCHANGED <<baseResources, lastSnapshot>>, CreationsAreNew, lastSnapshot # NULL,
         type = "Creation" => m \notin Says
  PROVE  CreationsAreNew'
<1> DEFINE e == Event(type, m, changeOrder)
           n == Len(changeLogs) + 1
<1>1. e \in EventSet(Members, Orders) /\ changeLogs' = Append(changeLogs, e)
  BY DEF Event, EventSet, Typed, TypeOK, AppendEvent
<1>2. /\ DOMAIN changeLogs' = DOMAIN changeLogs \cup {n}
      /\ changeLogs'[n] = e
      /\ \A i \in DOMAIN changeLogs : changeLogs'[i] = changeLogs[i]
  BY <1>1, AppendAt DEF Started
<1>3. e.type = type /\ e.changed = m
  BY DEF Event
<1>4. SubSeq(changeLogs', 1, n - 1) = changeLogs
  BY <1>1, PrefixAppend DEF Started
<1>5. \A i \in DOMAIN changeLogs : SubSeq(changeLogs', 1, i - 1) = SubSeq(changeLogs, 1, i - 1)
  <2>. SUFFICES ASSUME NEW i \in DOMAIN changeLogs
                PROVE  SubSeq(changeLogs', 1, i - 1) = SubSeq(changeLogs, 1, i - 1)
    OBVIOUS
  <2>1. i - 1 \in 0 .. Len(changeLogs) /\ i - 1 # Len(changeLogs)
    BY DEF Started
  <2>. QED
    BY <1>1, <2>1, PrefixAppend DEF Started
<1>6. ASSUME NEW i \in DOMAIN changeLogs', changeLogs'[i].type = "Creation"
      PROVE  changeLogs'[i].changed \notin Tracked(baseResources, SubSeq(changeLogs', 1, i - 1))
  <2>1. CASE i = n
    BY <1>2, <1>3, <1>4, <1>6, <2>1 DEF Says
  <2>2. CASE i # n
    <3>1. i \in DOMAIN changeLogs
      BY <1>2, <2>2
    <3>. QED
      BY <1>2, <1>5, <1>6, <3>1 DEF CreationsAreNew
  <2>. QED
    BY <2>1, <2>2
<1>. QED
  BY <1>6 DEF CreationsAreNew

LEMMA InitNew == Init => CreationsAreNew
BY DEF Init, CreationsAreNew

LEMMA StepNew ==
  Typed /\ Control /\ Logged /\ CreationsAreNew /\ phantoms = {} /\ [Next]_vars => CreationsAreNew'
<1>. SUFFICES ASSUME Typed, Control, Logged, CreationsAreNew, phantoms = {}, [Next]_vars
              PROVE  CreationsAreNew'
  OBVIOUS
<1>. USE DEF staticVars
<1>a. ASSUME UNCHANGED <<lastSnapshot, changeLogs>>, lastSnapshot # NULL => UNCHANGED baseResources
      PROVE  CreationsAreNew'
  BY <1>a DEF CreationsAreNew
<1>1. ASSUME NEW m \in Members, Save(m) \/ Remove(m) PROVE CreationsAreNew'
  BY <1>a, <1>1 DEF Save, Remove, Change
<1>2. ASSUME NEW t \in Threads, NEW n \in {1, 2}, Receive(t, n) PROVE CreationsAreNew'
  BY <1>a, <1>2 DEF Receive
<1>3. ASSUME NEW t \in Threads,
             \/ Enter(t) \/ ListingFails(t) \/ DatesSaved(t) \/ Rescan(t)
             \/ BeginSegment(t) \/ Compared(t) \/ \E o \in Orgs : ListDeviceTypes(t, o)
      PROVE  CreationsAreNew'
  BY <1>a, <1>3 DEF Enter, ListDeviceTypes, ListingFails, DatesSaved, Rescan, BeginSegment, Compared
<1>4. ASSUME NEW t \in Threads, NEW m \in Members,
              SaveDate(t, m) \/ SaveDateFails(t, m) \/ KeepFails(t, m)
       PROVE  CreationsAreNew'
  BY <1>a, <1>4 DEF SaveDate, SaveDateFails, KeepFails
<1>5. ASSUME NEW t \in Threads, EstablishBase(t) PROVE CreationsAreNew'
  BY <1>a, <1>5 DEF EstablishBase, Control
<1>6. ASSUME NEW t \in Threads, StartChangeLog(t) PROVE CreationsAreNew'
  BY <1>6 DEF StartChangeLog, CreationsAreNew
<1>7. ASSUME NEW t \in Threads, NEW m \in Members, AppendCreation(t, m) \/ AppendCreationFails(t, m)
      PROVE  CreationsAreNew'
  <2>1. Started /\ lastSnapshot # NULL /\ m \notin Says
    BY <1>7, ConstantsAssumption
       DEF AppendCreation, AppendCreationFails, Comparing, Typed, Phases, Started, Logged, Compares
  <2>. QED
    BY <1>7, <2>1, NewAppend DEF AppendCreation, AppendCreationFails, EventTypes
<1>8. ASSUME NEW t \in Threads, NEW m \in Members, Keep(t, m) PROVE CreationsAreNew'
  <2>1. Started /\ lastSnapshot # NULL
    BY <1>8, ConstantsAssumption DEF Keep, Comparing, Typed, Phases, Started
  <2>. QED
    BY <1>8, <1>a, <2>1, NewAppend DEF Keep, EventTypes
<1>9. ASSUME NEW t \in Threads, NEW m \in Members, AppendDeletion(t, m) PROVE CreationsAreNew'
  <2>1. Started /\ lastSnapshot # NULL
    BY <1>9, ConstantsAssumption DEF AppendDeletion, Typed, Phases, Started
  <2>. QED
    BY <1>9, <2>1, NewAppend DEF AppendDeletion, EventTypes
<1>10. ASSUME NEW t \in Threads, TakeSnapshot(t) PROVE CreationsAreNew'
  <2>1. lastSnapshot # NULL /\ UNCHANGED <<baseResources, changeLogs>>
    BY <1>10, ConstantsAssumption DEF TakeSnapshot, Typed, Phases, Started
  <2>. QED
    BY <2>1 DEF CreationsAreNew
<1>11. ASSUME UNCHANGED vars PROVE CreationsAreNew'
  BY <1>a, <1>11 DEF vars
<1>12. ASSUME NEW t \in Threads, CallHangs(t) PROVE CreationsAreNew'
  <2>1. UNCHANGED <<baseResources, lastSnapshot>>
    BY <1>12 DEF CallHangs
  <2>2. CASE UNCHANGED changeLogs
    BY <1>a, <2>1, <2>2
  <2>3. ASSUME NEW m \in Members, Comparing(t, m), m \notin lastSnapshot, AppendEvent("Creation", m)
        PROVE  CreationsAreNew'
    <3>1. Started /\ lastSnapshot # NULL /\ m \notin Says
      BY <2>3, ConstantsAssumption DEF Comparing, Typed, Phases, Started, Logged, Compares
    <3>. QED
      BY <2>1, <2>3, <3>1, NewAppend DEF EventTypes
  <2>. QED
    BY <1>12, <2>2, <2>3 DEF CallHangs
<1>. QED
  BY <1>1, <1>2, <1>3, <1>4, <1>5, <1>6, <1>7, <1>8, <1>9, <1>10, <1>11, <1>12
     DEF Next, Scan, Step

(* What the comment says of Creations is true as long as no scan aborts    *)
(* after it appended one: an aborted scan is the only way to report the    *)
(* same creation twice.                                                    *)
THEOREM CreationsNewUnlessAborted == Spec /\ [](phantoms = {}) => []CreationsAreNew
<1>1. Init => Typed /\ Control /\ Logged /\ CreationsAreNew
  BY InitTyped, InitControl, InitLogged, InitNew
<1>2. Typed /\ Control /\ Logged /\ CreationsAreNew /\ phantoms = {} /\ [Next]_vars
        => (Typed /\ Control /\ Logged /\ CreationsAreNew)'
  BY StepTyped, StepControl, StepLogged, StepNew
<1>. QED
  BY <1>1, <1>2, PTL DEF Spec
=============================================================================
