------------------------- MODULE FilterTokens_proofs -------------------------
(***************************************************************************)
(* Theorem about CredentialsFilter, for any threads, sessions, tokens and  *)
(* capacity and for requests that overlap: only an exchange that does not  *)
(* find the clients of its request token makes an access token without.    *)
(***************************************************************************)
EXTENDS CredentialsFilter_proofs

USE DEF Platforms

-----------------------------------------------------------------------------
(* What the steps of a request share.                                      *)
LEMMA ThenAt ==
  ASSUME TypeOK, NEW t \in Threads, NEW there, Then(t, there)
  PROVE  /\ \/ platform[t] = "iot" /\ platform'[t] = "bmx" /\ step'[t] = step[t]
            \/ platform[t] = "bmx" /\ platform'[t] = "iot" /\ step'[t] = there
         /\ \A u \in Threads \ {t} : UNCHANGED <<step[u], platform[u]>>
<1>1. step \in [Threads -> Steps] /\ platform \in [Threads -> Platforms]
  BY DEF TypeOK
<1>2. CASE platform[t] = "iot"
  BY <1>1, <1>2 DEF Then
<1>3. CASE platform[t] = "bmx"
  BY <1>1, <1>3 DEF Then
<1>. QED
  BY <1>1, <1>2, <1>3

LEMMA GotoAt ==
  ASSUME TypeOK, NEW t \in Threads, NEW there, Goto(t, there)
  PROVE  /\ step'[t] = there /\ platform'[t] = "iot"
         /\ \A u \in Threads \ {t} : UNCHANGED <<step[u], platform[u]>>
BY DEF Goto, TypeOK

LEMMA FinishAt ==
  ASSUME TypeOK, NEW t \in Threads, Finish(t)
  PROVE  /\ step'[t] = "idle" /\ platform'[t] = "iot"
         /\ request'[t] = NoRequest /\ client'[t] = NoClients
         /\ \A u \in Threads \ {t} : UNCHANGED <<step[u], platform[u], request[u], client[u]>>
BY GotoAt DEF Finish, TypeOK

(* Without a request, a thread has the fields of a plain one.              *)
LEMMA NoRequestIs == NoRequest.kind = "plain" /\ NoRequest.token = NoToken
BY DEF NoRequest, Request

(* A request works on its own place, request and clients.                  *)
LEMMA OwnStep ==
  ASSUME TypeOK, NEW t \in Threads, Work(t)
  PROVE  /\ step[t] # "idle"
         /\ \A u \in Threads \ {t} : UNCHANGED <<step[u], platform[u], request[u], client[u]>>
<1>. USE DEF TypeOK
<1>1. ASSUME Finish(t) PROVE \A u \in Threads \ {t} : UNCHANGED <<step[u], platform[u], request[u], client[u]>>
  BY <1>1, FinishAt
<1>2. ASSUME NEW there, Then(t, there) \/ Goto(t, there)
      PROVE  \A u \in Threads \ {t} : UNCHANGED <<step[u], platform[u]>>
  BY <1>2, ThenAt, GotoAt
<1>. HIDE DEF TypeOK
<1>. USE <1>1, <1>2 DEF TypeOK
<1>3. CASE Validate(t)
  BY <1>3 DEF Validate, Rejected
<1>4. CASE Read(t)
  BY <1>4 DEF Read
<1>5. CASE LoginFails(t)
  BY <1>5 DEF LoginFails
<1>6. CASE Mark(t)
  BY <1>6 DEF Mark
<1>7. CASE GenerateFails(t)
  BY <1>7 DEF GenerateFails, Rejected
<1>8. CASE Set(t)
  BY <1>8 DEF Set
<1>9. CASE Serve(t)
  BY <1>9 DEF Serve
<1>10. CASE ServeTRS(t)
  BY <1>10 DEF ServeTRS
<1>11. CASE LogOff(t)
  BY <1>11 DEF LogOff
<1>12. ASSUME NEW missed \in BOOLEAN, NEW lost \in BOOLEAN, Get(t, missed, lost)
       PROVE  /\ step[t] # "idle"
              /\ \A u \in Threads \ {t} : UNCHANGED <<step[u], platform[u], request[u], client[u]>>
  BY <1>12 DEF Get, Rejected
<1>13. ASSUME NEW missed \in BOOLEAN, NEW lost \in BOOLEAN, Remove(t, missed, lost)
       PROVE  /\ step[t] # "idle"
              /\ \A u \in Threads \ {t} : UNCHANGED <<step[u], platform[u], request[u], client[u]>>
  BY <1>13 DEF Remove
<1>14. ASSUME NEW lost \in BOOLEAN, Put(t, lost)
       PROVE  /\ step[t] # "idle"
              /\ \A u \in Threads \ {t} : UNCHANGED <<step[u], platform[u], request[u], client[u]>>
  BY <1>14 DEF Put
<1>15. ASSUME NEW l \in Logins, Login(t, l)
       PROVE  /\ step[t] # "idle"
              /\ \A u \in Threads \ {t} : UNCHANGED <<step[u], platform[u], request[u], client[u]>>
  BY <1>15 DEF Login
<1>16. ASSUME NEW k \in Tokens, Generate(t, k)
       PROVE  /\ step[t] # "idle"
              /\ \A u \in Threads \ {t} : UNCHANGED <<step[u], platform[u], request[u], client[u]>>
  BY <1>16 DEF Generate
<1>. QED
  BY <1>3, <1>4, <1>5, <1>6, <1>7, <1>8, <1>9, <1>10, <1>11, <1>12, <1>13, <1>14, <1>15, <1>16
     DEF Work

(* What a step changes of one platform's cache or of one client.           *)
LEMMA CacheAt ==
  ASSUME TypeOK, NEW p \in Platforms, NEW c, cache' = [cache EXCEPT ![p] = c]
  PROVE  cache'[p] = c /\ \A q \in Platforms \ {p} : cache'[q] = cache[q]
BY DEF TypeOK

(* A login names the clients of both platforms alike.                      *)
LEMMA LoginAt ==
  ASSUME TypeOK, NEW t \in Threads, NEW l \in Logins, Login(t, l)
  PROVE  /\ platform[t] = "iot" => client'[t]["iot"] = l /\ NewLogin(l)
         /\ platform[t] = "bmx" =>
              client'[t]["iot"] = client[t]["iot"] /\ client'[t]["bmx"] = client[t]["iot"]
         /\ step[t] = "login" /\ UNCHANGED <<cache, session, request>>
         /\ \E there \in {"put", "set"} : Then(t, there)
BY DEF Login, TypeOK, NoClients

-----------------------------------------------------------------------------
(* The clients of the tokens in the caches.                                *)

(* An exchange finds the clients of its request token in the caches: they  *)
(* were not evicted, and no other exchange of that token has taken them.   *)
ExchangesFind ==
  \A t \in Threads, p \in Platforms : At(t, "remove", p) => LRU!Present(cache[p], Token(t))

FullCache(c) == \A k \in Keys : LRU!Present(c, k) => c.value[k] # NULL

Full ==
  /\ \A p \in Platforms : FullCache(cache[p])
  /\ \A t \in Threads :
       /\ step[t] \in {"put", "generate"} => \A p \in Platforms : client[t][p] # NULL
       /\ At(t, "remove", "bmx") => client[t]["iot"] # NULL

(* No thread is inside a cache at the same time as another.                *)
NoRaces == \A t \in Threads : step[t] # "idle" => ~Racing(t)

(* A cache without an empty entry gets one only from a put of null.        *)
LEMMA FullGet ==
  ASSUME NEW c \in LRU!Caches, NEW k \in Keys, FullCache(c)
  PROVE  FullCache(LRU!Get(c, k))
BY ConstantsAssumption DEF FullCache, LRU!Get, LRU!Used, LRU!Present, LRU!Caches

LEMMA FullPut ==
  ASSUME NEW c \in LRU!Caches, NEW k \in Keys, NEW l, l # NULL, FullCache(c)
  PROVE  FullCache(LRU!Put(c, k, l))
BY ConstantsAssumption DEF FullCache, LRU!Put, LRU!Used, LRU!Present, LRU!Caches

LEMMA FullRemove ==
  ASSUME NEW c \in LRU!Caches, NEW k \in Keys, FullCache(c)
  PROVE  FullCache(LRU!Remove(c, k))
BY ConstantsAssumption DEF FullCache, LRU!Remove, LRU!Present, LRU!Caches

LEMMA InitFull == Init => Full
BY DEF Init, Full, FullCache, LRU!EmptyCache, LRU!Present, At

LEMMA StepFull == Inv /\ Full /\ ExchangesFind /\ NoRaces /\ [Next]_vars => Full'
<1>. SUFFICES ASSUME Inv, Full, ExchangesFind, NoRaces, [Next]_vars PROVE Full'
  OBVIOUS
<1>0. TypeOK
  BY DEF Inv
<1>1. ASSUME UNCHANGED <<cache, step, platform, client>> PROVE Full'
  BY <1>1 DEF Full, At
<1>2. ASSUME NEW t \in Threads,
             \A p \in Platforms : FullCache(cache[p])',
             \A u \in Threads \ {t} : UNCHANGED <<step[u], platform[u], client[u]>>,
             step'[t] \in {"put", "generate"} => \A p \in Platforms : client'[t][p] # NULL,
             step'[t] = "remove" /\ platform'[t] = "bmx" => client'[t]["iot"] # NULL
      PROVE  Full'
  BY <1>2 DEF Full, At
<1>3. ASSUME NEW t \in Threads, Work(t) PROVE Full'
  <2>. DEFINE p == platform[t]
              k == Token(t)
  <2>1. /\ p \in Platforms /\ k \in Keys /\ cache[p] \in LRU!Caches
        /\ \A q \in Platforms : FullCache(cache[q])
        /\ \A u \in Threads \ {t} : UNCHANGED <<step[u], platform[u], client[u]>>
    BY <1>0, <1>3, OwnStep DEF TypeOK, Token, Full
  <2>2. ~Racing(t)
    BY <1>0, <1>3, OwnStep DEF NoRaces
  <2>3. ASSUME UNCHANGED cache, Finish(t) PROVE Full'
    BY <1>0, <1>2, <2>1, <2>3, FinishAt
  <2>4. ASSUME NEW missed \in BOOLEAN, NEW lost \in BOOLEAN, Get(t, missed, lost) PROVE Full'
    <3>1. cache' = [cache EXCEPT ![p] = LRU!Get(cache[p], k)] /\ step[t] = "get"
      BY <2>2, <2>4 DEF Get
    <3>2. \A q \in Platforms : FullCache(cache[q])'
      BY <1>0, <2>1, <3>1, CacheAt, FullGet DEF FullCache
    <3>3. step'[t] \in {"get", "idle", "set", "login"}
      <4>1. CASE Rejected(t)
        BY <1>0, <4>1, FinishAt DEF Rejected
      <4>2. CASE ~Rejected(t)
        BY <1>0, <2>4, <3>1, <4>2, ThenAt DEF Get
      <4>. QED
        BY <4>1, <4>2
    <3>. QED
      BY <1>2, <2>1, <3>2, <3>3
  <2>5. ASSUME NEW missed \in BOOLEAN, NEW lost \in BOOLEAN, Remove(t, missed, lost) PROVE Full'
    <3>1. /\ cache' = [cache EXCEPT ![p] = LRU!Remove(cache[p], k)] /\ step[t] = "remove"
          /\ client' = [client EXCEPT ![t][p] = cache[p].value[k]]
          /\ Then(t, "generate")
      BY <2>2, <2>5 DEF Remove
    <3>2. \A q \in Platforms : FullCache(cache[q])'
      BY <1>0, <2>1, <3>1, CacheAt, FullRemove DEF FullCache
    <3>3. cache[p].value[k] # NULL
      BY <2>1, <3>1 DEF ExchangesFind, FullCache, At
    <3>4. client'[t][p] # NULL /\ \A q \in Platforms \ {p} : client'[t][q] = client[t][q]
      BY <1>0, <2>1, <3>1, <3>3 DEF TypeOK
    <3>5. \/ p = "iot" /\ platform'[t] = "bmx" /\ step'[t] = "remove"
          \/ p = "bmx" /\ platform'[t] = "iot" /\ step'[t] = "generate" /\ client[t]["iot"] # NULL
      BY <1>0, <3>1, ThenAt DEF Full, At
    <3>. QED
      BY <1>2, <2>1, <3>2, <3>4, <3>5
  <2>6. ASSUME NEW lost \in BOOLEAN, Put(t, lost) PROVE Full'
    <3>1. /\ cache' = [cache EXCEPT ![p] = LRU!Put(cache[p], k, client[t][p])]
          /\ step[t] = "put"
      BY <2>2, <2>6 DEF Put
    <3>2. \A q \in Platforms : client[t][q] # NULL
      BY <3>1 DEF Full
    <3>3. \A q \in Platforms : FullCache(cache[q])'
      <4>. DEFINE c == LRU!Put(cache[p], k, client[t][p])
      <4>1. FullCache(c)
        BY <2>1, <3>2, FullPut
      <4>2. cache' = [cache EXCEPT ![p] = c]
        BY <3>1
      <4>. HIDE DEF c
      <4>. QED
        BY <1>0, <2>1, <4>1, <4>2, CacheAt DEF FullCache
    <3>4. CASE Finish(t)
      BY <1>0, <1>2, <2>1, <3>3, <3>4, FinishAt
    <3>5. CASE ~Finish(t)
      <4>1. (\E there \in {"set", "mark"} : Then(t, there)) /\ UNCHANGED client
        BY <2>6, <3>5 DEF Put
      <4>2. step'[t] \in {"put", "set", "mark"}
        BY <1>0, <3>1, <4>1, ThenAt
      <4>. QED
        BY <1>2, <2>1, <3>2, <3>3, <4>1, <4>2
    <3>. QED
      BY <3>4, <3>5
  <2>7. ASSUME NEW l \in Logins, Login(t, l) PROVE Full'
    <3>1. \/ p = "iot" /\ platform'[t] = "bmx" /\ step'[t] = "login"
          \/ p = "bmx" /\ platform'[t] = "iot" /\ step'[t] \in {"put", "set"}
      BY <1>0, <2>7, LoginAt, ThenAt
    <3>2. p = "bmx" => client[t]["iot"] # NULL
      BY <2>7, LoginAt, <1>0 DEF Inv, HasClients, At
    <3>3. p = "bmx" => client'[t]["iot"] = client[t]["iot"] /\ client'[t]["bmx"] = client[t]["iot"]
      BY <2>7, LoginAt, <1>0
    <3>4. UNCHANGED cache
      BY <2>7 DEF Login
    <3>. QED
      BY <1>2, <2>1, <3>1, <3>2, <3>3, <3>4
  <2>8. ASSUME Read(t) PROVE Full'
    <3>1. CASE Finish(t)
      BY <2>3, <2>8, <3>1 DEF Read, shared
    <3>2. CASE ~Finish(t)
      <4>1. /\ UNCHANGED cache /\ step[t] = "read"
            /\ client' = [client EXCEPT ![t][p] = session[Session(t)][p]]
            /\ Kind(t) = "approve" => Then(t, "put")
            /\ Kind(t) # "approve" => \E there \in {"serve", "get", "login"} : Then(t, there)
            /\ Kind(t) = "approve" /\ p = "bmx" =>
                 client[t]["iot"] # NULL /\ session[Session(t)][p] # NULL
        BY <2>8, <3>2 DEF Read, Authenticated, shared
      <4>2. /\ client'[t][p] = session[Session(t)][p]
            /\ \A q \in Platforms \ {p} : client'[t][q] = client[t][q]
        BY <1>0, <2>1, <4>1 DEF TypeOK
      <4>3. /\ step'[t] \in {"read", "put", "serve", "get", "login"}
            /\ step'[t] = "put" => p = "bmx" /\ Kind(t) = "approve"
        BY <1>0, <4>1, ThenAt
      <4>. QED
        BY <1>2, <2>1, <4>1, <4>2, <4>3
    <3>. QED
      BY <3>1, <3>2
  <2>9. ASSUME Validate(t) \/ GenerateFails(t) PROVE Full'
    <3>1. CASE Rejected(t)
      BY <2>3, <2>9, <3>1 DEF Validate, GenerateFails, Rejected
    <3>2. CASE ~Rejected(t)
      <4>1. step'[t] = "get" /\ UNCHANGED cache
        BY <1>0, <2>9, <3>2, GotoAt DEF Validate, GenerateFails
      <4>. QED
        BY <1>2, <2>1, <4>1
    <3>. QED
      BY <3>1, <3>2
  <2>10. ASSUME LoginFails(t) \/ Mark(t) \/ Serve(t) PROVE Full'
    BY <2>3, <2>10 DEF LoginFails, Mark, Serve, shared
  <2>11. ASSUME Set(t) PROVE Full'
    <3>1. (\E there \in {"read", "logOff", "serve"} : Then(t, there)) /\ UNCHANGED cache /\ step[t] = "set"
      BY <2>11 DEF Set, AfterSet
    <3>2. step'[t] \in {"set", "read", "logOff", "serve"}
      BY <1>0, <3>1, ThenAt
    <3>. QED
      BY <1>2, <2>1, <3>1, <3>2
  <2>12. ASSUME ServeTRS(t) PROVE Full'
    <3>1. step'[t] = "login" /\ UNCHANGED cache
      BY <1>0, <2>12, GotoAt DEF ServeTRS, shared
    <3>. QED
      BY <1>2, <2>1, <3>1
  <2>13. ASSUME LogOff(t) PROVE Full'
    <3>1. CASE Finish(t)
      BY <2>3, <2>13, <3>1 DEF LogOff
    <3>2. CASE ~Finish(t)
      <4>1. Then(t, "idle") /\ UNCHANGED cache /\ step[t] = "logOff"
        BY <2>13, <3>2 DEF LogOff
      <4>2. step'[t] \in {"logOff", "idle"}
        BY <1>0, <4>1, ThenAt
      <4>. QED
        BY <1>2, <2>1, <4>1, <4>2
    <3>. QED
      BY <3>1, <3>2
  <2>14. ASSUME NEW x \in Tokens, Generate(t, x) PROVE Full'
    <3>1. step[t] = "generate" /\ step'[t] = "put" /\ UNCHANGED <<cache, client>>
      BY <1>0, <2>14, GotoAt DEF Generate
    <3>2. \A q \in Platforms : client[t][q] # NULL
      BY <3>1 DEF Full
    <3>. QED
      BY <1>2, <2>1, <3>1, <3>2
  <2>. QED
    BY <1>3, <2>4, <2>5, <2>6, <2>7, <2>8, <2>9, <2>10, <2>11, <2>12, <2>13, <2>14 DEF Work
<1>4. ASSUME NEW t \in Threads, NEW kind \in Requests, NEW s \in Sessions, NEW k \in Keys,
             Receive(t, kind, s, k)
      PROVE  Full'
  <2>1. FirstStep[kind] \in {"read", "validate", "login", "remove"}
    BY <1>4, ConstantsAssumption DEF FirstStep, Receive, Kinds
  <2>2. /\ step'[t] \in {"read", "validate", "login", "remove"} /\ platform'[t] = "iot"
        /\ UNCHANGED <<cache, client>>
        /\ \A u \in Threads \ {t} : UNCHANGED <<step[u], platform[u]>>
    BY <1>0, <1>4, <2>1, GotoAt DEF Receive, shared
  <2>. QED
    BY <2>2 DEF Full, At
<1>5. ASSUME NEW k \in Tokens, RequestToken(k) \/ Forget(k) PROVE Full'
  BY <1>1, <1>5 DEF RequestToken, Forget
<1>6. ASSUME UNCHANGED vars PROVE Full'
  BY <1>1, <1>6 DEF vars, shared
<1>. QED
  BY <1>3, <1>4, <1>5, <1>6 DEF Next

LEMMA FullMeansUsable == Full => IssuedTokensUsable
BY DEF Full, FullCache, IssuedTokensUsable, Keys

(* Requests may overlap: without data races, an exchange that does not     *)
(* find the clients of its request token is the only way to an access      *)
(* token in the caches without clients.                                    *)
THEOREM TokensUsableIfExchangesFind ==
  ASSUME ~DataRaces
  PROVE  Spec /\ []ExchangesFind => []IssuedTokensUsable
<1>1. Init => Inv /\ Full
  BY InitInv, InitFull
<1>2. NoRaces
  BY DEF NoRaces, Racing
<1>3. Inv /\ Full /\ ExchangesFind /\ NoRaces /\ [Next]_vars => (Inv /\ Full)'
  BY StepInv, StepFull
<1>. QED
  BY <1>1, <1>2, <1>3, FullMeansUsable, PTL DEF Spec
==============================================================================
