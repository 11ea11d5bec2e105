---------------------- MODULE CredentialsFilter_proofs ----------------------
(***************************************************************************)
(* Theorems about CredentialsFilter, for any threads, sessions, tokens and *)
(* capacity, with data races in the caches: a request that the filter lets *)
(* pass finds both clients in its session.                                 *)
(***************************************************************************)
EXTENDS CredentialsFilter, TLAPS

USE DEF Platforms

-----------------------------------------------------------------------------
(* What the operations of a cache return is a cache, of the same values.   *)
LEMMA UsedAges ==
  ASSUME NEW c \in LRU!Caches, NEW k \in Keys
  PROVE  LRU!Used(c, k) \in [Keys -> 0 .. Capacity]
BY ConstantsAssumption DEF LRU!Caches, LRU!Used, LRU!Present

LEMMA EmptyCacheType == LRU!EmptyCache \in LRU!Caches
BY ConstantsAssumption DEF LRU!Caches, LRU!EmptyCache

LEMMA GetType ==
  ASSUME NEW c \in LRU!Caches, NEW k \in Keys
  PROVE  LRU!Get(c, k) \in LRU!Caches
BY UsedAges DEF LRU!Caches, LRU!Get

LEMMA PutType ==
  ASSUME NEW c \in LRU!Caches, NEW k \in Keys, NEW l \in Logins \cup {NULL}
  PROVE  LRU!Put(c, k, l) \in LRU!Caches
BY UsedAges DEF LRU!Caches, LRU!Put

LEMMA RemoveType ==
  ASSUME NEW c \in LRU!Caches, NEW k \in Keys
  PROVE  LRU!Remove(c, k) \in LRU!Caches
BY ConstantsAssumption DEF LRU!Caches, LRU!Remove, LRU!Present

-----------------------------------------------------------------------------
(* Where a request has its clients, and puts them into its session.        *)
HasClients ==
  \A t \in Threads :
    /\ \/ step[t] = "set"
       \/ step[t] = "put" /\ Kind(t) = "twoLegged"
       => \A p \in Platforms : client[t][p] # NULL
    /\ At(t, "login", "bmx") => client[t]["iot"] # NULL
    /\ step[t] \in {"remove", "generate"} => Kind(t) = "exchange"

(* What a request has seen or put into its session is still there: the two *)
(* attributes are set one by one, and never removed.                       *)
SessionFilled ==
  \A t \in Threads :
    /\ \/ At(t, "set", "bmx")
       \/ At(t, "read", "bmx") /\ client[t]["iot"] # NULL
       => session[Session(t)]["iot"] # NULL
    /\ step[t] \in {"serve", "logOff"} => \A p \in Platforms : session[Session(t)][p] # NULL

Inv == TypeOK /\ HasClients /\ SessionFilled

LEMMA NoRequestType == NoRequest \in [kind : Kinds, session : Sessions, token : Keys]
<1>1. \E s \in Sessions : TRUE
  BY ConstantsAssumption
<1>2. (CHOOSE s \in Sessions : TRUE) \in Sessions
  BY <1>1
<1>. QED
  BY <1>2 DEF NoRequest, Request, Kinds, Keys

LEMMA InitInv == Init => Inv
BY ConstantsAssumption, NoRequestType, EmptyCacheType
   DEF Init, Inv, TypeOK, HasClients, SessionFilled, Steps, NoClients, At, Kind

-----------------------------------------------------------------------------
(* The types of what most steps change.                                    *)
LEMMA CellType ==
  ASSUME NEW S, NEW V, NEW f \in [S -> [Platforms -> V]], NEW s \in S, NEW p \in Platforms, NEW v \in V
  PROVE  [f EXCEPT ![s][p] = v] \in [S -> [Platforms -> V]]
OBVIOUS

LEMMA CacheType ==
  ASSUME TypeOK, NEW p \in Platforms, NEW c \in LRU!Caches
  PROVE  [cache EXCEPT ![p] = c] \in [Platforms -> LRU!Caches]
BY DEF TypeOK

LEMMA GotoType ==
  ASSUME TypeOK, NEW t \in Threads, NEW there \in Steps, Goto(t, there) \/ Then(t, there)
  PROVE  step' \in [Threads -> Steps] /\ platform' \in [Threads -> Platforms]
BY ZenonT(60) DEF TypeOK, Goto, Then

LEMMA FinishType ==
  ASSUME TypeOK, NEW t \in Threads, Finish(t)
  PROVE  /\ step' \in [Threads -> Steps] /\ platform' \in [Threads -> Platforms]
         /\ request' \in [Threads -> [kind : Kinds, session : Sessions, token : Keys]]
         /\ client' \in [Threads -> [Platforms -> Logins \cup {NULL}]]
<1>1. "idle" \in Steps
  BY DEF Steps
<1>2. NoClients \in [Platforms -> Logins \cup {NULL}]
  BY DEF NoClients
<1>. QED
  BY <1>1, <1>2, GotoType, NoRequestType DEF Finish, TypeOK

LEMMA HeldType ==
  ASSUME TypeOK, NEW t \in Threads, Rejected(t)
  PROVE  held' \in [Tokens -> {"none", "request", "approved", "access"}]
BY DEF Rejected, TypeOK

(* A step of one request leaves the others' places alone, and takes        *)
(* nothing out of a session.                                               *)
LEMMA StepInv == Inv /\ [Next]_vars => Inv'
<1>. SUFFICES ASSUME Inv, [Next]_vars PROVE Inv'
  OBVIOUS
<1>. USE ConstantsAssumption, NoRequestType
     DEF Inv, TypeOK, HasClients, SessionFilled, At, Kind, Session, Token, Steps, shared,
         NoClients, Keys
<1>1. ASSUME NEW k \in Tokens, RequestToken(k) \/ Forget(k) PROVE Inv'
  <2>1. TypeOK'
    <3>1. CASE RequestToken(k)
      BY <3>1 DEF RequestToken
    <3>2. CASE Forget(k)
      BY <3>2 DEF Forget
    <3>. QED
      BY <1>1, <3>1, <3>2
  <2>2. HasClients' /\ SessionFilled'
    BY <1>1 DEF RequestToken, Forget
  <2>. QED
    BY <2>1, <2>2
<1>2. ASSUME NEW t \in Threads, NEW kind \in Requests, NEW s \in Sessions, NEW k \in Keys,
             Receive(t, kind, s, k)
      PROVE  Inv'
  <2>1. /\ FirstStep[kind] \in {"read", "validate", "login", "remove"}
        /\ FirstStep[kind] = "remove" => kind = "exchange"
        /\ kind \in Kinds
    BY <1>2 DEF FirstStep, Receive, Kinds
  <2>. QED
    BY <1>2, <2>1 DEF Receive, Request, Goto
<1>3. ASSUME NEW t \in Threads, Validate(t) PROVE Inv'
  <2>1. TypeOK'
    <3>1. CASE granted[Token(t)] = "access"
      BY <1>3, <3>1, GotoType DEF Validate
    <3>2. CASE granted[Token(t)] # "access"
      BY <1>3, <3>2, FinishType, HeldType DEF Validate, Rejected
    <3>. QED
      BY <3>1, <3>2
  <2>2. HasClients'
    BY <1>3 DEF Validate, Goto, Rejected, Finish
  <2>3. SessionFilled'
    BY <1>3 DEF Validate, Goto, Rejected, Finish
  <2>. QED
    BY <2>1, <2>2, <2>3
<1>4. ASSUME NEW t \in Threads, NEW missed \in BOOLEAN, NEW lost \in BOOLEAN, Get(t, missed, lost)
      PROVE  Inv'
  <2>. DEFINE p == platform[t]
              found == IF missed THEN NULL ELSE cache[p].value[Token(t)]
              both == found # NULL /\ client[t]["iot"] # NULL
              rejected == p = "bmx" /\ ~both /\ Kind(t) = "oauth"
  <2>0. cache' \in [Platforms -> LRU!Caches] /\ found \in Logins \cup {NULL}
    BY <1>4, CacheType, GetType, ZenonT(60) DEF Get, LRU!Caches
  <2>1. TypeOK'
    <3>1. CASE rejected
      BY <1>4, <2>0, <3>1, FinishType, HeldType DEF Get, Rejected
    <3>2. CASE ~rejected
      <4>1. Then(t, IF both THEN "set" ELSE "login") /\ client' = [client EXCEPT ![t][p] = found]
        BY <1>4, <3>2 DEF Get
      <4>2. client' \in [Threads -> [Platforms -> Logins \cup {NULL}]]
        BY <2>0, <4>1, CellType
      <4>. QED
        BY <1>4, <2>0, <3>2, <4>1, <4>2, GotoType DEF Get
    <3>. QED
      BY <3>1, <3>2
  <2>2. HasClients'
    <3>1. CASE rejected
      BY <1>4, <3>1 DEF Get, Rejected, Finish, Goto
    <3>2. CASE ~rejected
      BY <1>4, <2>0, <3>2 DEF Get, Then
    <3>. QED
      BY <3>1, <3>2
  <2>3. SessionFilled'
    BY <1>4, GetType DEF Get, Then, Rejected, Finish, Goto
  <2>. QED
    BY <2>1, <2>2, <2>3
<1>5. ASSUME NEW t \in Threads, Read(t) PROVE Inv'
  <2>1. TypeOK'
    <3>. DEFINE p == platform[t]
                found == session[Session(t)][p]
                next == IF Kind(t) = "approve" THEN "put"
                        ELSE IF Authenticated(t, found) THEN "serve"
                        ELSE IF Kind(t) = "twoLegged" THEN "get" ELSE "login"
                refused == p = "bmx" /\ Kind(t) = "approve" /\ ~Authenticated(t, found)
    <3>1. CASE refused
      BY <1>5, <3>1, FinishType DEF Read
    <3>2. CASE ~refused
      <4>1. Then(t, next) /\ client' = [client EXCEPT ![t][p] = found]
        BY <1>5, <3>2 DEF Read
      <4>2. client' \in [Threads -> [Platforms -> Logins \cup {NULL}]]
        BY <4>1, CellType
      <4>. QED
        BY <1>5, <3>2, <4>1, <4>2, GotoType DEF Read
    <3>. QED
      BY <3>1, <3>2
  <2>2. HasClients'
    BY <1>5 DEF Read, Authenticated, Then, Finish, Goto
  <2>3. SessionFilled'
    BY <1>5 DEF Read, Authenticated, Then, Finish, Goto
  <2>. QED
    BY <2>1, <2>2, <2>3
<1>6. ASSUME NEW t \in Threads, NEW l \in Logins, Login(t, l) PROVE Inv'
  <2>1. TypeOK'
    BY <1>6, ZenonT(60) DEF Login, Then
  <2>2. HasClients'
    BY <1>6 DEF Login, Then
  <2>3. SessionFilled'
    BY <1>6 DEF Login, Then
  <2>. QED
    BY <2>1, <2>2, <2>3
<1>7. ASSUME NEW t \in Threads, LoginFails(t) PROVE Inv'
  BY <1>7 DEF LoginFails, Finish, Goto
<1>8. ASSUME NEW t \in Threads, NEW lost \in BOOLEAN, Put(t, lost) PROVE Inv'
  <2>1. TypeOK'
    <3>1. cache' \in [Platforms -> LRU!Caches]
      BY <1>8, CacheType, PutType DEF Put
    <3>2. CASE platform[t] = "bmx" /\ Kind(t) = "exchange"
      BY <1>8, <3>1, <3>2, FinishType DEF Put
    <3>3. CASE ~(platform[t] = "bmx" /\ Kind(t) = "exchange")
      BY <1>8, <3>1, <3>3, GotoType DEF Put
    <3>. QED
      BY <3>2, <3>3
  <2>2. HasClients'
    BY <1>8, PutType DEF Put, Then, Finish, Goto
  <2>3. SessionFilled'
    BY <1>8, PutType DEF Put, Then, Finish, Goto
  <2>. QED
    BY <2>1, <2>2, <2>3
<1>9. ASSUME NEW t \in Threads, Mark(t) PROVE Inv'
  BY <1>9, ZenonT(60) DEF Mark, Finish, Goto
<1>10. ASSUME NEW t \in Threads, NEW missed \in BOOLEAN, NEW lost \in BOOLEAN, Remove(t, missed, lost)
       PROVE  Inv'
  <2>1. TypeOK'
    <3>. DEFINE p == platform[t]
                found == IF missed THEN NULL ELSE cache[p].value[Token(t)]
    <3>1. cache' \in [Platforms -> LRU!Caches] /\ found \in Logins \cup {NULL}
      BY <1>10, CacheType, RemoveType, ZenonT(60) DEF Remove, LRU!Caches
    <3>2. client' = [client EXCEPT ![t][p] = found]
      BY <1>10 DEF Remove
    <3>3. client' \in [Threads -> [Platforms -> Logins \cup {NULL}]]
      BY <3>1, <3>2, CellType
    <3>. QED
      BY <1>10, <3>1, <3>3, GotoType DEF Remove
  <2>2. HasClients'
    BY <1>10, RemoveType DEF Remove, Then
  <2>3. SessionFilled'
    BY <1>10, RemoveType DEF Remove, Then
  <2>. QED
    BY <2>1, <2>2, <2>3
<1>11. ASSUME NEW t \in Threads, NEW k \in Tokens, Generate(t, k) PROVE Inv'
  <2>1. TypeOK'
    BY <1>11 DEF Generate, Request, Goto
  <2>2. HasClients'
    BY <1>11 DEF Generate, Request, Goto
  <2>3. SessionFilled'
    BY <1>11 DEF Generate, Request, Goto
  <2>. QED
    BY <2>1, <2>2, <2>3
<1>12. ASSUME NEW t \in Threads, GenerateFails(t) PROVE Inv'
  BY <1>12, ZenonT(60) DEF GenerateFails, Rejected, Finish, Goto
<1>13. ASSUME NEW t \in Threads, Set(t) PROVE Inv'
  <2>1. TypeOK'
    <3>1. session' = [session EXCEPT ![Session(t)][platform[t]] = client[t][platform[t]]]
      BY <1>13 DEF Set
    <3>2. session' \in [Sessions -> [Platforms -> Logins \cup {NULL}]]
      BY <3>1, CellType
    <3>. QED
      BY <1>13, <3>2, GotoType DEF Set, AfterSet
  <2>2. HasClients'
    BY <1>13 DEF Set, AfterSet, Then
  <2>3. SessionFilled'
    BY <1>13 DEF Set, AfterSet, Then
  <2>. QED
    BY <2>1, <2>2, <2>3
<1>14. ASSUME NEW t \in Threads, Serve(t) PROVE Inv'
  BY <1>14 DEF Serve, Finish, Goto
<1>15. ASSUME NEW t \in Threads, ServeTRS(t) PROVE Inv'
  BY <1>15 DEF ServeTRS, Request, Goto, Kinds
<1>16. ASSUME NEW t \in Threads, LogOff(t) PROVE Inv'
  <2>1. TypeOK'
    <3>1. closed' \subseteq Logins
      BY <1>16 DEF LogOff
    <3>2. CASE platform[t] = "bmx"
      BY <1>16, <3>1, <3>2, FinishType DEF LogOff
    <3>3. CASE platform[t] # "bmx"
      BY <1>16, <3>1, <3>3, GotoType DEF LogOff
    <3>. QED
      BY <3>2, <3>3
  <2>2. HasClients'
    BY <1>16 DEF LogOff, Then, Finish, Goto
  <2>3. SessionFilled'
    BY <1>16 DEF LogOff, Then, Finish, Goto
  <2>. QED
    BY <2>1, <2>2, <2>3
<1>17. ASSUME UNCHANGED vars PROVE Inv'
  BY <1>17 DEF vars
<1>. HIDE DEF Inv, TypeOK, HasClients, SessionFilled, At, Kind, Session, Token, Steps, shared,
          NoClients, Keys
<1>18. ASSUME NEW t \in Threads, Work(t) PROVE Inv'
  BY <1>3, <1>4, <1>5, <1>6, <1>7, <1>8, <1>9, <1>10, <1>11, <1>12, <1>13, <1>14, <1>15, <1>16,
     <1>18 DEF Work
<1>. QED
  BY <1>1, <1>2, <1>17, <1>18 DEF Next

LEMMA Invariance == Spec => []Inv
BY InitInv, StepInv, PTL DEF Spec

(* The caches stay within their capacity, sessions and caches hold clients *)
(* or null, and only clients of a session are logged off.                  *)
THEOREM FilterTypeCorrect == Spec => []TypeOK
BY Invariance, PTL DEF Inv

(* Whoever else uses the session and whatever the caches lose, a service   *)
(* runs with both clients in its session.                                  *)
THEOREM BothClients == Spec => []ServedWithBoth
<1>1. Inv => ServedWithBoth
  BY DEF Inv, SessionFilled, ServedWithBoth
<1>. QED
  BY <1>1, Invariance, PTL
=============================================================================
