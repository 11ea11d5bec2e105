------------------------- MODULE CredentialsFilter -------------------------
(***************************************************************************)
(* CredentialsFilter: how a request comes to a client of the IoT Platform  *)
(* and one of Bluemix.  They are in the HTTP session, or in two static     *)
(* caches under the request's OAuth token (the empty token for two-legged  *)
(* requests), or made by a login.  The clients of a token are put into the *)
(* caches when its user authorizes it, and moved when it is exchanged for  *)
(* an access token.  The caches are not synchronized.                      *)
(*                                                                         *)
(* The code does everything once for each platform, the IoT Platform first *)
(* and each step of a request here is one of the two.  A client is known   *)
(* by the login that made it.                                              *)
(***************************************************************************)
EXTENDS Naturals, FiniteSets

CONSTANTS
  Threads,     \* the servlet container's request threads
  Sessions,    \* HTTP sessions
  Tokens,      \* OAuth tokens, of requests and of access
  NoToken,     \* the empty token
  Logins,      \* names for the clients a login makes
  Capacity,    \* of each cache (200 in the code)
  Requests,    \* the kinds of requests that are made
  MaxHeld,     \* bound on the tokens consumers hold at a time
  MaxFaults,   \* bound on failing logins and forgotten tokens
  DataRaces,   \* whether races inside the caches have effects of their own
  NULL

Keys == Tokens \cup {NoToken}
Platforms == {"iot", "bmx"}

(* plain: with the user's credentials; twoLegged, oauth: signed, without   *)
(* and with an access token; approve, login: the user authorizes a request *)
(* token, with the session's clients or through the login form; exchange:  *)
(* of a request token; trs: the TRS service's part of an LQE request, once *)
(* the filter let it pass.                                                 *)
Kinds == {"plain", "twoLegged", "oauth", "approve", "login", "exchange", "trs"}

ASSUME ConstantsAssumption ==
  /\ NoToken \notin Tokens
  /\ NULL \notin Logins
  /\ Sessions # {}
  /\ Requests \subseteq Kinds
  /\ Capacity \in Nat \ {0} /\ MaxHeld \in Nat /\ MaxFaults \in Nat
  /\ DataRaces \in BOOLEAN

LRU == INSTANCE LRUCache WITH Values <- Logins

VARIABLES
  cache,     \* iotKeyToConnectorCache and bmxKeyToConnectorCache
  session,   \* the two clients in each session, or NULL
  closed,    \* the logins with a client that was logged off
  granted,   \* the token strategy: what each token is good for
  held,      \* what each token is for the consumer that uses it
  step,      \* where each thread is in its request ...
  platform,  \* ... and for which platform
  request,   \* kind, session and token of its request
  client,    \* the clients the request works with
  faults

shared == <<cache, session, closed, granted, held>>
vars == <<shared, step, platform, request, client, faults>>

Steps == {"idle", "validate", "get", "read", "login", "put", "mark", "remove",
          "generate", "set", "serve", "logOff"}

NoClients == [p \in Platforms |-> NULL]
Request(kind, s, k) == [kind |-> kind, session |-> s, token |-> k]
NoRequest == Request("plain", CHOOSE s \in Sessions : TRUE, NoToken)

Init ==
  /\ cache = [p \in Platforms |-> LRU!EmptyCache]
  /\ session = [s \in Sessions |-> NoClients]
  /\ closed = {}
  /\ granted = [k \in Tokens |-> "free"]
  /\ held = [k \in Tokens |-> "none"]
  /\ step = [t \in Threads |-> "idle"]
  /\ platform = [t \in Threads |-> "iot"]
  /\ request = [t \in Threads |-> NoRequest]
  /\ client = [t \in Threads |-> NoClients]
  /\ faults = 0

Kind(t) == request[t].kind
Session(t) == request[t].session
Token(t) == request[t].token

At(t, here, p) == step[t] = here /\ platform[t] = p

(* A step for the IoT Platform is followed by the same for Bluemix.        *)
Then(t, there) ==
  IF platform[t] = "iot"
  THEN platform' = [platform EXCEPT ![t] = "bmx"] /\ UNCHANGED step
  ELSE /\ platform' = [platform EXCEPT ![t] = "iot"]
       /\ step' = [step EXCEPT ![t] = there]

Goto(t, there) ==
  /\ platform' = [platform EXCEPT ![t] = "iot"]
  /\ step' = [step EXCEPT ![t] = there]

Finish(t) ==
  /\ Goto(t, "idle")
  /\ request' = [request EXCEPT ![t] = NoRequest]
  /\ client' = [client EXCEPT ![t] = NoClients]

(* A name that nothing refers to stands for a new client, or a new token.  *)
NewLogin(l) ==
  /\ \A p \in Platforms, k \in Keys : cache[p].value[k] # l
  /\ \A p \in Platforms, s \in Sessions : session[s][p] # l
  /\ \A p \in Platforms, t \in Threads : client[t][p] # l

InUse == {k \in Tokens : held[k] # "none"} \cup {Token(t) : t \in Threads}

NewToken(k) == k \notin InUse /\ \A p \in Platforms : ~LRU!Present(cache[p], k)

(* Two threads inside the same unsynchronized cache: either may miss the   *)
(* key it looks for, or have its change lost.                              *)
Racing(t) ==
  /\ DataRaces
  /\ \E u \in Threads \ {t} :
       /\ platform[u] = platform[t]
       /\ step[u] \in {"get", "put", "remove"}

-----------------------------------------------------------------------------
(* Consumers and the token strategy, both external.                        *)
RequestToken(k) ==
  /\ NewToken(k)
  /\ Cardinality(InUse \ {NoToken}) < MaxHeld
  /\ granted' = [granted EXCEPT ![k] = "request"]
  /\ held' = [held EXCEPT ![k] = "request"]
  /\ UNCHANGED <<cache, session, closed, step, platform, request, client, faults>>

Forget(k) ==
  /\ held[k] # "none" /\ granted[k] # "free" /\ faults < MaxFaults
  /\ granted' = [granted EXCEPT ![k] = "free"]
  /\ faults' = faults + 1
  /\ UNCHANGED <<cache, session, closed, held, step, platform, request, client>>

(* What a consumer must have for a request of a kind, and where it starts. *)
Needs == [approve |-> "request", login |-> "request", exchange |-> "approved", oauth |-> "access"]

FirstStep ==
  [plain |-> "read", twoLegged |-> "read", approve |-> "read", oauth |-> "validate",
   login |-> "login", exchange |-> "remove"]

Receive(t, kind, s, k) ==
  /\ step[t] = "idle"
  /\ kind \in Requests \ {"trs"}
  /\ IF kind \in {"plain", "twoLegged"} THEN k = NoToken
     ELSE k \in Tokens /\ held[k] = Needs[kind]
  /\ request' = [request EXCEPT ![t] = Request(kind, s, k)]
  /\ Goto(t, FirstStep[kind])
  /\ UNCHANGED <<shared, client, faults>>

-----------------------------------------------------------------------------
(* Mutant: a rejected token is not reported as invalid_expired_token.      *)
Rejected_Silently(t) == Finish(t) /\ UNCHANGED held

(* invalid_expired_token: the consumer drops the token and starts again.   *)
Rejected(t) ==
  /\ Finish(t)
  /\ held' = [held EXCEPT ![Token(t)] = "none"]

Validate(t) ==
  /\ step[t] = "validate"
  /\ IF granted[Token(t)] = "access"
     THEN Goto(t, "get") /\ UNCHANGED <<held, request, client>>
     ELSE Rejected(t)
  /\ UNCHANGED <<cache, session, closed, granted, faults>>

(* The clients in the caches.  A token without both is rejected; for a     *)
(* two-legged request the functional user logs in.                         *)
Get(t, missed, lost) ==
  LET p == platform[t]
      found == IF missed THEN NULL ELSE cache[p].value[Token(t)]
      both == found # NULL /\ client[t]["iot"] # NULL
  IN /\ step[t] = "get"
     /\ missed \/ lost => Racing(t)
     /\ cache' = [cache EXCEPT ![p] = IF lost THEN @ ELSE LRU!Get(@, Token(t))]
     /\ IF p = "bmx" /\ ~both /\ Kind(t) = "oauth"
        THEN Rejected(t)
        ELSE /\ Then(t, IF both THEN "set" ELSE "login")
             /\ client' = [client EXCEPT ![t][p] = found]
             /\ UNCHANGED <<held, request>>
     /\ UNCHANGED <<session, closed, granted, faults>>

(* Mutant: a request is authenticated with one of the two clients.         *)
Authenticated_One(t, bmx) == client[t]["iot"] # NULL \/ bmx # NULL

Authenticated(t, bmx) == client[t]["iot"] # NULL /\ bmx # NULL

(* The clients in the session.  Approval without them shows the login form.*)
Read(t) ==
  LET p == platform[t]
      found == session[Session(t)][p]
      filtered == IF Authenticated(t, found) THEN "serve"
                  ELSE IF Kind(t) = "twoLegged" THEN "get" ELSE "login"
  IN /\ step[t] = "read"
     /\ IF p = "bmx" /\ Kind(t) = "approve" /\ ~Authenticated(t, found)
        THEN Finish(t)
        ELSE /\ Then(t, IF Kind(t) = "approve" THEN "put" ELSE filtered)
             /\ client' = [client EXCEPT ![t][p] = found]
             /\ UNCHANGED request
     /\ UNCHANGED <<shared, faults>>

(* A login for one platform; both clients of a request get one name.       *)
Login(t, l) ==
  /\ step[t] = "login"
  /\ IF platform[t] = "iot" THEN NewLogin(l) ELSE l = client[t]["iot"]
  /\ client' = [client EXCEPT ![t] = IF platform[t] = "iot" THEN [NoClients EXCEPT !["iot"] = l]
                                     ELSE [@ EXCEPT !["bmx"] = l]]
  /\ closed' = IF platform[t] = "iot" THEN closed \ {l} ELSE closed
  /\ Then(t, IF Kind(t) \in {"twoLegged", "login"} THEN "put" ELSE "set")
  /\ UNCHANGED <<cache, session, granted, held, request, faults>>

(* No credentials, or they are refused: an empty answer, a challenge, the  *)
(* login form again or an error.                                           *)
LoginFails(t) ==
  /\ step[t] = "login" /\ faults < MaxFaults
  /\ faults' = faults + 1
  /\ Finish(t)
  /\ UNCHANGED shared

Put(t, lost) ==
  LET p == platform[t]
  IN /\ step[t] = "put"
     /\ lost => Racing(t)
     /\ cache' = [cache EXCEPT ![p] = IF lost THEN @ ELSE LRU!Put(@, Token(t), client[t][p])]
     /\ IF p = "bmx" /\ Kind(t) = "exchange"
        THEN Finish(t) /\ held' = [held EXCEPT ![Token(t)] = "access"]
        ELSE /\ Then(t, IF Kind(t) = "twoLegged" THEN "set" ELSE "mark")
             /\ UNCHANGED <<held, request, client>>
     /\ UNCHANGED <<session, closed, granted, faults>>

(* super.markRequestTokenAuthorized, which refuses an unknown token.       *)
Mark(t) ==
  LET known == granted[Token(t)] \in {"request", "approved"}
      grant == IF known THEN "approved" ELSE granted[Token(t)]
  IN /\ step[t] = "mark"
     /\ granted' = [granted EXCEPT ![Token(t)] = grant]
     /\ held' = [held EXCEPT ![Token(t)] = IF known THEN "approved" ELSE "none"]
     /\ Finish(t)
     /\ UNCHANGED <<cache, session, closed, faults>>

(* Mutant: one of the caches keeps the clients of the request token.       *)
Remove_IotOnly(t, missed, lost) ==
  LET p == platform[t]
  IN /\ step[t] = "remove" /\ ~missed /\ ~lost
     /\ cache' = IF p = "bmx" THEN cache ELSE [cache EXCEPT ![p] = LRU!Remove(@, Token(t))]
     /\ client' = [client EXCEPT ![t][p] = cache[p].value[Token(t)]]
     /\ Then(t, "generate")
     /\ UNCHANGED <<session, closed, granted, held, request, faults>>

(* generateAccessToken takes the clients of the request token out ...      *)
Remove(t, missed, lost) ==
  LET p == platform[t]
  IN /\ step[t] = "remove"
     /\ missed \/ lost => Racing(t)
     /\ cache' = [cache EXCEPT ![p] = IF lost THEN @ ELSE LRU!Remove(@, Token(t))]
     /\ client' = [client EXCEPT ![t][p] = IF missed THEN NULL ELSE cache[p].value[Token(t)]]
     /\ Then(t, "generate")
     /\ UNCHANGED <<session, closed, granted, held, request, faults>>

(* ... and then super.generateAccessToken gives a new token for it ...     *)
Generate(t, k) ==
  /\ step[t] = "generate"
  /\ granted[Token(t)] = "approved"
  /\ NewToken(k)
  /\ granted' = [granted EXCEPT ![Token(t)] = "free", ![k] = "access"]
  /\ held' = [held EXCEPT ![Token(t)] = "none"]
  /\ request' = [request EXCEPT ![t] = Request(Kind(t), Session(t), k)]
  /\ Goto(t, "put")
  /\ UNCHANGED <<cache, session, closed, client, faults>>

(* ... or throws, and the clients are lost.                                *)
GenerateFails(t) ==
  /\ step[t] = "generate"
  /\ granted[Token(t)] # "approved"
  /\ Rejected(t)
  /\ UNCHANGED <<cache, session, closed, granted, faults>>

AfterSet(t) == IF Kind(t) = "oauth" THEN "read" ELSE IF Kind(t) = "trs" THEN "logOff" ELSE "serve"

(* Mutant: Bluemix's client is not put into the session.                   *)
Set_IotOnly(t) ==
  LET p == platform[t]
  IN /\ step[t] = "set"
     /\ session' = IF p = "bmx" THEN session ELSE [session EXCEPT ![Session(t)][p] = client[t][p]]
     /\ Then(t, AfterSet(t))
     /\ UNCHANGED <<cache, closed, granted, held, request, client, faults>>

(* The clients become the session's: of the filter, or of setClient.       *)
Set(t) ==
  LET p == platform[t]
  IN /\ step[t] = "set"
     /\ session' = [session EXCEPT ![Session(t)][p] = client[t][p]]
     /\ Then(t, AfterSet(t))
     /\ UNCHANGED <<cache, closed, granted, held, request, client, faults>>

(* The filter lets the request pass to its service ...                     *)
Serve(t) ==
  /\ step[t] = "serve"
  /\ Finish(t)
  /\ UNCHANGED <<shared, faults>>

(* ... which, if it is getTrackedResourceSet, begins with setClient.       *)
ServeTRS(t) ==
  /\ step[t] = "serve" /\ "trs" \in Requests
  /\ request' = [request EXCEPT ![t] = Request("trs", Session(t), Token(t))]
  /\ Goto(t, "login")
  /\ UNCHANGED <<shared, client, faults>>

(* logOffClient closes whatever clients are in the session by then.        *)
LogOff(t) ==
  LET l == session[Session(t)][platform[t]]
  IN /\ step[t] = "logOff"
     /\ closed' = closed \cup {l}
     /\ IF platform[t] = "bmx" THEN Finish(t) ELSE Then(t, "idle") /\ UNCHANGED <<request, client>>
     /\ UNCHANGED <<cache, session, granted, held, faults>>

Work(t) ==
  \/ Validate(t) \/ Read(t) \/ LoginFails(t) \/ Mark(t) \/ GenerateFails(t)
  \/ Set(t) \/ Serve(t) \/ ServeTRS(t) \/ LogOff(t)
  \/ \E missed, lost \in BOOLEAN : Get(t, missed, lost) \/ Remove(t, missed, lost)
  \/ \E lost \in BOOLEAN : Put(t, lost)
  \/ \E l \in Logins : Login(t, l)
  \/ \E k \in Tokens : Generate(t, k)

Next ==
  \/ \E k \in Tokens : RequestToken(k) \/ Forget(k)
  \/ \E t \in Threads :
       \/ Work(t)
       \/ \E kind \in Requests, s \in Sessions, k \in Keys : Receive(t, kind, s, k)

Spec == Init /\ [][Next]_vars

(* Each call ends, which is assumed of logins, as they have no timeout; and*)
(* consumers go on: they ask for tokens, their users authorize them, and   *)
(* each kind of request is made again and again.                           *)
Fairness ==
  /\ \A t \in Threads : WF_vars(Work(t))
  /\ WF_vars(\E k \in Tokens : RequestToken(k))
  /\ \A kind \in Requests :
       SF_vars(\E t \in Threads, s \in Sessions, k \in Keys : Receive(t, kind, s, k))
FairSpec == Spec /\ Fairness

-----------------------------------------------------------------------------
(* Every variable has its type.                                            *)
TypeOK ==
  /\ cache \in [Platforms -> LRU!Caches]
  /\ session \in [Sessions -> [Platforms -> Logins \cup {NULL}]]
  /\ closed \subseteq Logins
  /\ granted \in [Tokens -> {"free", "request", "approved", "access"}]
  /\ held \in [Tokens -> {"none", "request", "approved", "access"}]
  /\ step \in [Threads -> Steps]
  /\ platform \in [Threads -> Platforms]
  /\ request \in [Threads -> [kind : Kinds, session : Sessions, token : Keys]]
  /\ client \in [Threads -> [Platforms -> Logins \cup {NULL}]]
  /\ faults \in 0 .. MaxFaults

Idle == \A t \in Threads : step[t] = "idle"

(* A request that the filter lets pass finds both clients in its session,  *)
(* whatever other requests of the session and failed logins did before:    *)
(* the services dereference them without a check.                          *)
ServedWithBoth ==
  \A t \in Threads : step[t] = "serve" =>
    \A p \in Platforms : session[Session(t)][p] # NULL

(* Between requests the two caches have the same tokens in the same order  *)
(* of use, with clients of the same login: what is evicted from one is     *)
(* evicted from the other.                                                 *)
CachesAgree == Idle => cache["iot"] = cache["bmx"]

(* "We can keep the Connection associated with the OAuth tokens": an       *)
(* access token that a consumer was given and that was not evicted has its *)
(* clients.                                                                *)
IssuedTokensUsable ==
  \A k \in Tokens, p \in Platforms :
    held[k] = "access" /\ LRU!Present(cache[p], k) => cache[p].value[k] # NULL

(* After failed logins, forgotten tokens and lost clients, a consumer that *)
(* starts again when its token is rejected gets to its resources again,    *)
(* provided that logins end.                                               *)
Recovers == []<>(\E t \in Threads : step[t] = "serve" /\ Kind(t) = "oauth")
=============================================================================
