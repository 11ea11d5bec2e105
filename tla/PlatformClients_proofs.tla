------------------------ MODULE PlatformClients_proofs ------------------------
(***************************************************************************)
(* Theorems about the platform clients, for any number of threads,         *)
(* organizations, connections and tokens.                                  *)
(***************************************************************************)
EXTENDS PlatformClients, TLAPS

(* A thread that is not idle has a call.                                   *)
Busy == \A t \in Threads : pc[t] # "idle" => op[t] \in Operations /\ host[t] \in Hosts

ClientInv == TypeOK /\ Busy /\ ConnectionsAccounted

(* Two ways a call may end: the connection is given back or stays leased.  *)
Closed(t) == Release(t) /\ End(t) /\ UNCHANGED <<tokens, closed>>
Left(t) == op[t] \in MayLose /\ UNCHANGED lease /\ End(t) /\ UNCHANGED <<tokens, closed>>

LEMMA PoolsAreConnections ==
  ASSUME NEW h \in Hosts, NEW c \in Pool(h)
  PROVE  c \in Connections
BY DEF Pool, Connections

LEMMA HostsOfOperations ==
  ASSUME NEW o \in Operations, NEW h \in HostsOf(o)
  PROVE  h \in Hosts
BY DEF HostsOf, Hosts

LEMMA InitClient == Init => ClientInv
<1> SUFFICES ASSUME Init PROVE ClientInv
  OBVIOUS
<1>1. TypeOK
  BY ClientsAssumption DEF Init, TypeOK
<1>2. Busy
  BY DEF Init, Busy
<1>3. ConnectionsAccounted
  BY DEF Init, ConnectionsAccounted, At, Lost
<1> QED BY <1>1, <1>2, <1>3 DEF ClientInv

(* What the end of a call leaves of the types.                             *)
LEMMA EndTypes ==
  ASSUME TypeOK, Busy, NEW t \in Threads, End(t)
  PROVE  /\ pc' \in [Threads -> {"idle", "connect", "sent", "login", "issued"}]
         /\ op' \in [Threads -> Operations \cup {NULL}]
         /\ host' \in [Threads -> Hosts \cup {NULL}]
         /\ header' \in [Threads -> Nat]
         /\ conn' \in [Threads -> Connections \cup {NULL}]
         /\ again' \in [Threads -> BOOLEAN]
         /\ token' \in [Threads -> Nat]
         /\ Busy'
         /\ pc'[t] = "idle" /\ conn'[t] = NULL
         /\ \A u \in Threads \ {t} : pc'[u] = pc[u] /\ op'[u] = op[u] /\ host'[u] = host[u] /\ conn'[u] = conn[u]
<1>1. /\ pc' \in [Threads -> {"idle", "connect", "sent", "login", "issued"}]
      /\ pc'[t] = "idle" /\ \A u \in Threads \ {t} : pc'[u] = pc[u]
  BY DEF TypeOK, End, Goto
<1>2. op' \in [Threads -> Operations \cup {NULL}] /\ \A u \in Threads \ {t} : op'[u] = op[u]
  BY DEF TypeOK, End
<1>3. host' \in [Threads -> Hosts \cup {NULL}] /\ \A u \in Threads \ {t} : host'[u] = host[u]
  BY DEF TypeOK, End
<1>4. /\ conn' \in [Threads -> Connections \cup {NULL}]
      /\ conn'[t] = NULL /\ \A u \in Threads \ {t} : conn'[u] = conn[u]
  BY DEF TypeOK, End
<1>5. header' \in [Threads -> Nat] /\ token' \in [Threads -> Nat]
  BY DEF TypeOK, End
<1>6. again' \in [Threads -> BOOLEAN]
  BY DEF TypeOK, End
<1>7. Busy'
  BY <1>1, <1>2, <1>3 DEF Busy
<1> QED BY <1>1, <1>2, <1>3, <1>4, <1>5, <1>6, <1>7

LEMMA ClosedKeeps ==
  ASSUME ClientInv, NEW t \in Threads, At(t, "sent"), Closed(t)
  PROVE  ClientInv'
<1>1. End(t) /\ TypeOK /\ Busy
  BY DEF Closed, ClientInv
<1>2. lease' \in [Connections -> Operations \cup {NULL}] /\ lease'[conn[t]] = NULL
      /\ \A c \in Connections \ {conn[t]} : lease'[c] = lease[c]
  <2>1. conn[t] \in Connections
    BY DEF ClientInv, TypeOK, ConnectionsAccounted
  <2> QED BY <2>1 DEF Closed, Release, ClientInv, TypeOK
<1>3. TypeOK' /\ Busy'
  BY <1>1, <1>2, EndTypes DEF TypeOK, Closed, tokens
<1>4. ConnectionsAccounted'
  <2>1. \A u \in Threads : At(u, "sent")' => u # t /\ At(u, "sent") /\ conn[u] # conn[t]
    BY <1>1, EndTypes DEF At, ClientInv, ConnectionsAccounted
  <2>2. \A u \in Threads :
          /\ At(u, "sent")' <=> conn'[u] # NULL
          /\ At(u, "sent")' => conn'[u] \in Pool(host'[u]) /\ lease'[conn'[u]] = op'[u]
    <3> SUFFICES ASSUME NEW u \in Threads
                 PROVE  /\ At(u, "sent")' <=> conn'[u] # NULL
                        /\ At(u, "sent")' => conn'[u] \in Pool(host'[u]) /\ lease'[conn'[u]] = op'[u]
      OBVIOUS
    <3>1. CASE u = t
      BY <1>1, <3>1, EndTypes DEF At
    <3>2. CASE u # t
      <4>1. pc'[u] = pc[u] /\ op'[u] = op[u] /\ host'[u] = host[u] /\ conn'[u] = conn[u]
        BY <1>1, <3>2, EndTypes
      <4>2. conn[u] # NULL => conn[u] \in Connections
        BY DEF ClientInv, TypeOK
      <4> QED BY <1>2, <2>1, <4>1, <4>2 DEF At, ClientInv, ConnectionsAccounted
    <3> QED BY <3>1, <3>2
  <2>3. \A v, u \in Threads : conn'[v] = conn'[u] => v = u \/ conn'[v] = NULL
    BY <1>1, EndTypes DEF ClientInv, ConnectionsAccounted
  <2>4. ASSUME NEW c \in Connections, Lost(c)' PROVE lease'[c] \in MayLose
    <3>1. c # conn[t] /\ lease'[c] = lease[c]
      BY <1>2, <2>4 DEF Lost
    <3>2. \A u \in Threads : conn[u] # c
      BY <1>1, <2>4, <3>1, EndTypes DEF Lost
    <3>3. Lost(c)
      BY <2>4, <3>1, <3>2 DEF Lost
    <3> QED BY <3>1, <3>3 DEF ClientInv, ConnectionsAccounted
  <2> QED BY <2>2, <2>3, <2>4 DEF ConnectionsAccounted
<1> QED BY <1>3, <1>4 DEF ClientInv

(* The connection becomes a lost one.                                      *)
LEMMA LeftKeeps ==
  ASSUME ClientInv, NEW t \in Threads, At(t, "sent"), Left(t)
  PROVE  ClientInv'
<1>1. End(t) /\ TypeOK /\ Busy /\ lease' = lease
  BY DEF Left, ClientInv
<1>2. TypeOK' /\ Busy'
  BY <1>1, EndTypes DEF TypeOK, Left, tokens
<1>3. ConnectionsAccounted'
  <2>1. \A u \in Threads :
          /\ At(u, "sent")' <=> conn'[u] # NULL
          /\ At(u, "sent")' => conn'[u] \in Pool(host'[u]) /\ lease'[conn'[u]] = op'[u]
    BY <1>1, EndTypes DEF At, ClientInv, ConnectionsAccounted
  <2>2. \A v, u \in Threads : conn'[v] = conn'[u] => v = u \/ conn'[v] = NULL
    BY <1>1, EndTypes DEF ClientInv, ConnectionsAccounted
  <2>3. ASSUME NEW c \in Connections, Lost(c)' PROVE lease'[c] \in MayLose
    <3>1. CASE c = conn[t]
      BY <1>1, <3>1 DEF Left, ClientInv, ConnectionsAccounted
    <3>2. CASE c # conn[t]
      <4>1. Lost(c)
        BY <1>1, <2>3, <3>2, EndTypes DEF Lost
      <4> QED BY <1>1, <4>1 DEF ClientInv, ConnectionsAccounted
    <3> QED BY <3>1, <3>2
  <2> QED BY <2>1, <2>2, <2>3 DEF ConnectionsAccounted
<1> QED BY <1>2, <1>3 DEF ClientInv

(* The end of a call that has no connection.                               *)
LEMMA NotSentKeeps ==
  ASSUME ClientInv, NEW t \in Threads, ~At(t, "sent"), End(t), UNCHANGED <<tokens, closed, lease>>
  PROVE  ClientInv'
<1>1. TypeOK /\ Busy /\ lease' = lease
  BY DEF ClientInv
<1>2. conn' = conn
  <2>1. conn \in [Threads -> Connections \cup {NULL}] /\ conn[t] = NULL /\ conn' = [conn EXCEPT ![t] = NULL]
    BY DEF ClientInv, TypeOK, ConnectionsAccounted, End
  <2> QED BY <2>1
<1>3. TypeOK' /\ Busy'
  BY <1>1, EndTypes DEF TypeOK, tokens
<1>4. ConnectionsAccounted'
  <2>1. \A u \in Threads :
          /\ At(u, "sent")' <=> conn'[u] # NULL
          /\ At(u, "sent")' => conn'[u] \in Pool(host'[u]) /\ lease'[conn'[u]] = op'[u]
    BY <1>1, EndTypes DEF At, ClientInv, ConnectionsAccounted
  <2> QED BY <1>1, <1>2, <2>1 DEF ClientInv, ConnectionsAccounted, Lost
<1> QED BY <1>3, <1>4 DEF ClientInv

LEMMA CallKeeps ==
  ASSUME ClientInv, NEW t \in Threads, NEW o \in Operations, NEW h \in Hosts, Call(t, o, h)
  PROVE  ClientInv'
<1>1. TypeOK'
  <2>1. op' \in [Threads -> Operations \cup {NULL}] /\ host' \in [Threads -> Hosts \cup {NULL}]
    BY DEF ClientInv, TypeOK, Call
  <2>2. header' \in [Threads -> Nat]
    BY DEF ClientInv, TypeOK, Call
  <2> QED BY <2>1, <2>2 DEF ClientInv, TypeOK, Call, Goto, tokens
<1>2. /\ \A u \in Threads \ {t} : pc'[u] = pc[u] /\ op'[u] = op[u] /\ host'[u] = host[u]
      /\ pc'[t] = "connect" /\ op'[t] = o /\ host'[t] = h
  BY DEF ClientInv, TypeOK, Call, Goto
<1>3. Busy'
  BY <1>2 DEF ClientInv, Busy
<1>4. conn' = conn /\ lease' = lease /\ pc[t] = "idle"
  BY DEF Call, At
<1>5. \A u \in Threads :
        /\ At(u, "sent")' <=> conn'[u] # NULL
        /\ At(u, "sent")' => conn'[u] \in Pool(host'[u]) /\ lease'[conn'[u]] = op'[u]
  BY <1>2, <1>4 DEF At, ClientInv, ConnectionsAccounted
<1> QED BY <1>1, <1>3, <1>4, <1>5 DEF ClientInv, ConnectionsAccounted, Lost

LEMMA ConnectKeeps ==
  ASSUME ClientInv, NEW t \in Threads, Connect(t)
  PROVE  ClientInv'
<1>1. PICK c \in Pool(host[t]) :
        lease[c] = NULL /\ lease' = [lease EXCEPT ![c] = op[t]] /\ conn' = [conn EXCEPT ![t] = c]
  BY DEF Connect
<1>2. /\ pc[t] = "connect" /\ op[t] \in Operations /\ host[t] \in Hosts
      /\ op' = op /\ host' = host /\ pc' = [pc EXCEPT ![t] = "sent"]
  BY DEF Connect, At, Goto, request, ClientInv, Busy
<1>3. c \in Connections /\ c # NULL
  BY <1>2, PoolsAreConnections, ClientsAssumption DEF Connections
<1>4. /\ lease \in [Connections -> Operations \cup {NULL}] /\ conn \in [Threads -> Connections \cup {NULL}]
      /\ pc \in [Threads -> {"idle", "connect", "sent", "login", "issued"}]
  BY DEF ClientInv, TypeOK
<1>5. /\ lease' \in [Connections -> Operations \cup {NULL}] /\ conn' \in [Threads -> Connections \cup {NULL}]
      /\ pc' \in [Threads -> {"idle", "connect", "sent", "login", "issued"}]
  BY <1>1, <1>2, <1>3, <1>4
<1>6. TypeOK' /\ Busy'
  BY <1>2, <1>4, <1>5 DEF ClientInv, TypeOK, Busy, Connect, tokens, request
<1>7. \A u \in Threads : conn[u] # c
  <2>1. op \in [Threads -> Operations \cup {NULL}] /\ NULL \notin Operations
    BY ClientsAssumption DEF ClientInv, TypeOK
  <2> QED BY <1>1, <1>3, <2>1 DEF ClientInv, ConnectionsAccounted, Busy, At
<1>8. \A u \in Threads :
        /\ At(u, "sent")' <=> conn'[u] # NULL
        /\ At(u, "sent")' => conn'[u] \in Pool(host'[u]) /\ lease'[conn'[u]] = op'[u]
  <2> SUFFICES ASSUME NEW u \in Threads
               PROVE  /\ At(u, "sent")' <=> conn'[u] # NULL
                      /\ At(u, "sent")' => conn'[u] \in Pool(host'[u]) /\ lease'[conn'[u]] = op'[u]
    OBVIOUS
  <2>1. CASE u = t
    BY <1>1, <1>2, <1>3, <1>4, <2>1 DEF At
  <2>2. CASE u # t
    <3>1. pc'[u] = pc[u] /\ conn'[u] = conn[u]
      BY <1>1, <1>2, <1>4, <2>2
    <3>2. conn[u] # NULL => conn[u] \in Connections /\ lease'[conn[u]] = lease[conn[u]]
      BY <1>1, <1>4, <1>7
    <3> QED BY <1>2, <3>1, <3>2 DEF At, ClientInv, ConnectionsAccounted
  <2> QED BY <2>1, <2>2
<1>9. \A v, u \in Threads : conn'[v] = conn'[u] => v = u \/ conn'[v] = NULL
  BY <1>1, <1>4, <1>7 DEF ClientInv, ConnectionsAccounted
<1>10. ASSUME NEW d \in Connections, Lost(d)' PROVE lease'[d] \in MayLose
  <2>1. d # c
    BY <1>1, <1>4, <1>10 DEF Lost
  <2>2. lease'[d] = lease[d]
    BY <1>1, <1>4, <2>1
  <2>3. \A u \in Threads : conn[u] # d
    <3>1. conn[t] = NULL
      BY <1>2, <1>4 DEF ClientInv, ConnectionsAccounted, At
    <3>2. NULL \notin Connections
      BY ClientsAssumption DEF Connections
    <3> QED BY <1>1, <1>4, <1>10, <3>1, <3>2 DEF Lost
  <2> QED BY <1>10, <2>2, <2>3 DEF Lost, ClientInv, ConnectionsAccounted
<1> QED BY <1>6, <1>8, <1>9, <1>10 DEF ClientInv, ConnectionsAccounted

LEMMA UnauthorizedKeeps ==
  ASSUME ClientInv, NEW t \in Threads, Unauthorized(t)
  PROVE  ClientInv'
<1>1. /\ pc[t] = "sent" /\ lease' = [lease EXCEPT ![conn[t]] = NULL] /\ conn' = [conn EXCEPT ![t] = NULL]
      /\ pc' = [pc EXCEPT ![t] = "login"] /\ op' = op /\ host' = host
  BY DEF Unauthorized, At, Release, Goto, request
<1>2. /\ lease \in [Connections -> Operations \cup {NULL}] /\ conn \in [Threads -> Connections \cup {NULL}]
      /\ pc \in [Threads -> {"idle", "connect", "sent", "login", "issued"}]
      /\ conn[t] \in Connections
  BY <1>1 DEF ClientInv, TypeOK, ConnectionsAccounted, At
<1>3. /\ lease' \in [Connections -> Operations \cup {NULL}] /\ conn' \in [Threads -> Connections \cup {NULL}]
      /\ pc' \in [Threads -> {"idle", "connect", "sent", "login", "issued"}]
  BY <1>1, <1>2
<1>4. TypeOK' /\ Busy'
  BY <1>1, <1>2, <1>3 DEF ClientInv, TypeOK, Busy, Unauthorized, tokens, request
<1>5. \A u \in Threads :
        /\ At(u, "sent")' <=> conn'[u] # NULL
        /\ At(u, "sent")' => conn'[u] \in Pool(host'[u]) /\ lease'[conn'[u]] = op'[u]
  <2> SUFFICES ASSUME NEW u \in Threads
               PROVE  /\ At(u, "sent")' <=> conn'[u] # NULL
                      /\ At(u, "sent")' => conn'[u] \in Pool(host'[u]) /\ lease'[conn'[u]] = op'[u]
    OBVIOUS
  <2>1. CASE u = t
    BY <1>1, <1>2, <2>1 DEF At
  <2>2. CASE u # t
    <3>1. pc'[u] = pc[u] /\ conn'[u] = conn[u]
      BY <1>1, <1>2, <2>2
    <3>2. conn[u] # NULL => conn[u] \in Connections /\ lease'[conn[u]] = lease[conn[u]]
      BY <1>1, <1>2, <2>2 DEF ClientInv, ConnectionsAccounted
    <3> QED BY <1>1, <3>1, <3>2 DEF At, ClientInv, ConnectionsAccounted
  <2> QED BY <2>1, <2>2
<1>6. \A v, u \in Threads : conn'[v] = conn'[u] => v = u \/ conn'[v] = NULL
  BY <1>1, <1>2 DEF ClientInv, ConnectionsAccounted
<1>7. ASSUME NEW d \in Connections, Lost(d)' PROVE lease'[d] \in MayLose
  <2>1. d # conn[t] /\ lease'[d] = lease[d]
    BY <1>1, <1>2, <1>7 DEF Lost
  <2>2. \A u \in Threads : conn[u] # d
    BY <1>1, <1>2, <1>7, <2>1 DEF Lost
  <2> QED BY <1>7, <2>1, <2>2 DEF Lost, ClientInv, ConnectionsAccounted
<1> QED BY <1>4, <1>5, <1>6, <1>7 DEF ClientInv, ConnectionsAccounted

(* A login has no connection of the pools.                                 *)
LEMMA LoginKeeps ==
  ASSUME ClientInv, NEW t \in Threads, Issue(t) \/ Repeat(t)
  PROVE  ClientInv'
<1>1. /\ pc[t] \in {"login", "issued"} /\ lease' = lease /\ conn' = conn /\ op' = op /\ host' = host
      /\ \E there \in {"issued", "connect"} : pc' = [pc EXCEPT ![t] = there]
  BY DEF Issue, Repeat, At, Goto, request
<1>2. /\ pc' \in [Threads -> {"idle", "connect", "sent", "login", "issued"}]
      /\ pc'[t] \in {"issued", "connect"} /\ \A u \in Threads \ {t} : pc'[u] = pc[u]
  BY <1>1 DEF ClientInv, TypeOK
<1>3. TypeOK'
  <2>1. access_token' \in Nat /\ issued' \in Nat /\ token' \in [Threads -> Nat]
    BY DEF ClientInv, TypeOK, Issue, Repeat
  <2>2. again' \in [Threads -> BOOLEAN]
    BY DEF ClientInv, TypeOK, Issue, Repeat
  <2>3. expired' = expired /\ closed' = closed /\ header' = header
    BY DEF Issue, Repeat, request
  <2> QED BY <1>1, <1>2, <2>1, <2>2, <2>3 DEF ClientInv, TypeOK
<1>4. Busy'
  BY <1>1, <1>2 DEF ClientInv, Busy
<1>5. \A u \in Threads :
        /\ At(u, "sent")' <=> conn'[u] # NULL
        /\ At(u, "sent")' => conn'[u] \in Pool(host'[u]) /\ lease'[conn'[u]] = op'[u]
  BY <1>1, <1>2 DEF At, ClientInv, ConnectionsAccounted
<1> QED BY <1>1, <1>3, <1>4, <1>5 DEF ClientInv, ConnectionsAccounted, Lost

LEMMA PlatformKeeps ==
  ASSUME ClientInv, Expire \/ LogOff
  PROVE  ClientInv'
<1>1. UNCHANGED <<access_token, issued, lease, pc, op, host, header, conn, again, token>>
  BY DEF Expire, LogOff, tokens, request
<1>2. expired' \in Nat
  BY DEF ClientInv, TypeOK, Expire, LogOff, tokens
<1>3. closed' \in BOOLEAN
  <2>1. closed \in BOOLEAN /\ closed' \in {closed, TRUE}
    BY DEF ClientInv, TypeOK, Expire, LogOff
  <2> QED BY <2>1
<1> QED BY <1>1, <1>2, <1>3 DEF ClientInv, TypeOK, Busy, ConnectionsAccounted, Lost, At

LEMMA NextKeepsClient ==
  ASSUME ClientInv, Next
  PROVE  ClientInv'
<1>1. ASSUME NEW t \in Threads, NEW o \in Operations, NEW h \in Hosts, Call(t, o, h)
      PROVE  ClientInv'
  BY <1>1, CallKeeps
<1>2. ASSUME NEW t \in Threads, Connect(t)
      PROVE  ClientInv'
  BY <1>2, ConnectKeeps
<1>3. ASSUME NEW t \in Threads, ShutDown(t)
      PROVE  ClientInv'
  BY <1>3, NotSentKeeps DEF ShutDown, At
<1>4. ASSUME NEW t \in Threads, Ends(t)
      PROVE  ClientInv'
  <2>1. CASE Accepted(t) \/ Fails(t)
    BY <2>1, ClosedKeeps DEF Accepted, Fails, Closed
  <2>2. CASE Garbled(t)
    BY <2>2, LeftKeeps DEF Garbled, Left, MayLose
  <2>3. CASE Refused(t)
    <3>1. At(t, "sent") /\ op[t] \in Operations
      BY <2>3 DEF Refused, ClientInv, Busy, At
    <3>2. Closed(t) \/ (op[t] \notin Closes /\ UNCHANGED lease /\ End(t) /\ UNCHANGED <<tokens, closed>>)
      BY <2>3 DEF Refused, Closed
    <3>3. op[t] \notin Closes => op[t] \in MayLose
      BY <3>1 DEF Operations, Closes, MayLose
    <3> QED BY <3>1, <3>2, <3>3, ClosedKeeps, LeftKeeps DEF Left
  <2>4. CASE Unauthorized(t)
    BY <2>4, UnauthorizedKeeps
  <2> QED BY <1>4, <2>1, <2>2, <2>3, <2>4 DEF Ends
<1>5. ASSUME NEW t \in Threads, Login(t) \/ Repeat(t)
      PROVE  ClientInv'
  BY <1>5, LoginKeeps, NotSentKeeps DEF Login, LoginFails, At
<1>6. CASE Expire \/ LogOff
  BY <1>6, PlatformKeeps
<1> QED BY <1>1, <1>2, <1>3, <1>4, <1>5, <1>6 DEF Next

LEMMA StutterKeepsClient ==
  ASSUME ClientInv, UNCHANGED vars
  PROVE  ClientInv'
BY DEF ClientInv, TypeOK, Busy, ConnectionsAccounted, Lost, At, vars, tokens, request

(* The clients' invariant, of which the two theorems are parts.            *)
LEMMA AlwaysClientInv == Spec => []ClientInv
<1>1. ClientInv /\ [Next]_vars => ClientInv'
  BY NextKeepsClient, StutterKeepsClient
<1> QED BY InitClient, <1>1, PTL DEF Spec

(* Every reachable state is well typed.                                    *)
THEOREM ClientsTypeCorrect == Spec => []TypeOK
<1>1. ClientInv => TypeOK
  BY DEF ClientInv
<1> QED BY <1>1, AlwaysClientInv, PTL

(* IoTPClient and BluemixClient: no connection is used by two calls, and   *)
(* reads and deletions lose none, for any number of threads.               *)
THEOREM NoConnectionLostByReads == Spec => []ConnectionsAccounted
<1>1. ClientInv => ConnectionsAccounted
  BY DEF ClientInv
<1> QED BY <1>1, AlwaysClientInv, PTL

-----------------------------------------------------------------------------
(***************************************************************************)
(* Tokens.                                                                 *)
(***************************************************************************)
(* A token that a login has brought is nobody's yet.                       *)
Fresh ==
  \A t \in Threads : token[t] # 0 =>
    /\ token[t] # access_token
    /\ \A u \in Threads : header[u] # token[t] /\ (u # t => token[u] # token[t])

Numbered ==
  /\ access_token \in 1..issued
  /\ \A t \in Threads : token[t] <= issued /\ header[t] <= issued

(* Only calls whose token has expired log in or are repeated.              *)
Renewing ==
  \A t \in Threads :
    /\ At(t, "issued") <=> token[t] # 0
    /\ At(t, "idle") => ~again[t]
    /\ At(t, "login") \/ At(t, "issued") \/ again[t] => header[t] <= expired

(* What happens where RetryCarriesNewToken fails: the repeated request     *)
(* carries a token that is neither valid nor the client's any more.        *)
RetryIsFutile ==
  \A t \in Threads : again[t] => header[t] <= expired /\ header[t] # access_token

TokenInv == ClientInv /\ Numbered /\ Fresh /\ Renewing /\ RetryIsFutile

LEMMA InitToken == Init => TokenInv
<1> SUFFICES ASSUME Init PROVE TokenInv
  OBVIOUS
<1>1. Numbered /\ Fresh
  BY DEF Init, Numbered, Fresh
<1>2. Renewing /\ RetryIsFutile
  BY DEF Init, Renewing, RetryIsFutile, At
<1> QED BY <1>1, <1>2, InitClient DEF TokenInv

(* What the end of a call leaves of the tokens.                            *)
LEMMA EndTokens ==
  ASSUME TokenInv, NEW t \in Threads, End(t), UNCHANGED tokens
  PROVE  Numbered' /\ Fresh' /\ Renewing' /\ RetryIsFutile'
<1>1. /\ header' = [header EXCEPT ![t] = 0] /\ token' = [token EXCEPT ![t] = 0]
      /\ again' = [again EXCEPT ![t] = FALSE] /\ pc' = [pc EXCEPT ![t] = "idle"]
      /\ access_token' = access_token /\ issued' = issued /\ expired' = expired
  BY DEF End, Goto, tokens
<1>2. /\ header \in [Threads -> Nat] /\ token \in [Threads -> Nat] /\ again \in [Threads -> BOOLEAN]
      /\ pc \in [Threads -> {"idle", "connect", "sent", "login", "issued"}]
      /\ access_token \in Nat /\ issued \in Nat /\ expired \in Nat
  BY DEF TokenInv, ClientInv, TypeOK
<1>3. /\ header'[t] = 0 /\ token'[t] = 0 /\ ~again'[t] /\ pc'[t] = "idle"
      /\ \A u \in Threads \ {t} : /\ header'[u] = header[u] /\ token'[u] = token[u]
                                  /\ again'[u] = again[u] /\ pc'[u] = pc[u]
  BY <1>1, <1>2
<1>4. Numbered'
  BY <1>1, <1>2, <1>3 DEF TokenInv, Numbered
<1>5. Fresh'
  BY <1>1, <1>2, <1>3 DEF TokenInv, Fresh
<1>6. Renewing'
  BY <1>1, <1>2, <1>3 DEF TokenInv, Renewing, At
<1>7. RetryIsFutile'
  BY <1>1, <1>2, <1>3 DEF TokenInv, RetryIsFutile
<1> QED BY <1>4, <1>5, <1>6, <1>7

LEMMA CallKeepsTokens ==
  ASSUME TokenInv, NEW t \in Threads, NEW o \in Operations, NEW h \in Hosts, Call(t, o, h)
  PROVE  Numbered' /\ Fresh' /\ Renewing' /\ RetryIsFutile'
<1>1. /\ access_token' = access_token /\ issued' = issued /\ expired' = expired
      /\ token' = token /\ again' = again /\ pc[t] = "idle" /\ pc' = [pc EXCEPT ![t] = "connect"]
      /\ \E n \in {0, access_token} : header' = [header EXCEPT ![t] = n]
  BY DEF Call, Goto, At, tokens
<1>2. /\ header \in [Threads -> Nat] /\ token \in [Threads -> Nat] /\ again \in [Threads -> BOOLEAN]
      /\ pc \in [Threads -> {"idle", "connect", "sent", "login", "issued"}]
      /\ access_token \in Nat /\ issued \in Nat /\ expired \in Nat
  BY DEF TokenInv, ClientInv, TypeOK
<1>3. /\ header'[t] \in {0, access_token} /\ pc'[t] = "connect"
      /\ \A u \in Threads \ {t} : header'[u] = header[u] /\ pc'[u] = pc[u]
  BY <1>1, <1>2
<1>4. Numbered' /\ Fresh'
  BY <1>1, <1>2, <1>3 DEF TokenInv, Numbered, Fresh
<1>5. ~again[t] /\ token[t] = 0
  BY <1>1 DEF TokenInv, Renewing, At
<1>6. Renewing' /\ RetryIsFutile'
  BY <1>1, <1>3, <1>5 DEF TokenInv, Renewing, RetryIsFutile, At
<1> QED BY <1>4, <1>6

LEMMA ConnectKeepsTokens ==
  ASSUME TokenInv, NEW t \in Threads, Connect(t) \/ Unauthorized(t)
  PROVE  Numbered' /\ Fresh' /\ Renewing' /\ RetryIsFutile'
<1>1. /\ access_token' = access_token /\ issued' = issued /\ expired' = expired
      /\ header' = header /\ token' = token /\ again' = again
      /\ pc[t] \in {"connect", "sent"}
      /\ \E there \in {"sent", "login"} :
            pc' = [pc EXCEPT ![t] = there] /\ (there = "login" => header[t] <= expired)
  BY DEF Connect, Unauthorized, Goto, At, Expired, tokens, request
<1>2. pc \in [Threads -> {"idle", "connect", "sent", "login", "issued"}]
  BY DEF TokenInv, ClientInv, TypeOK
<1>3. /\ pc'[t] \in {"sent", "login"} /\ (pc'[t] = "login" => header[t] <= expired)
      /\ \A u \in Threads \ {t} : pc'[u] = pc[u]
  BY <1>1, <1>2
<1>4. Numbered' /\ Fresh' /\ RetryIsFutile'
  BY <1>1 DEF TokenInv, Numbered, Fresh, RetryIsFutile
<1>5. Renewing'
  BY <1>1, <1>3 DEF TokenInv, Renewing, At
<1> QED BY <1>4, <1>5

(* The token is newer than all that anybody knows.                         *)
LEMMA IssueKeepsTokens ==
  ASSUME TokenInv, NEW t \in Threads, Issue(t)
  PROVE  Numbered' /\ Fresh' /\ Renewing' /\ RetryIsFutile'
<1>1. /\ access_token' = access_token /\ expired' = expired /\ header' = header /\ again' = again
      /\ issued' = issued + 1 /\ token' = [token EXCEPT ![t] = issued + 1]
      /\ pc[t] = "login" /\ pc' = [pc EXCEPT ![t] = "issued"]
  BY DEF Issue, Goto, At, request
<1>2. /\ header \in [Threads -> Nat] /\ token \in [Threads -> Nat]
      /\ pc \in [Threads -> {"idle", "connect", "sent", "login", "issued"}]
      /\ access_token \in Nat /\ issued \in Nat /\ expired \in Nat
  BY DEF TokenInv, ClientInv, TypeOK
<1>3. /\ token'[t] = issued + 1 /\ pc'[t] = "issued"
      /\ \A u \in Threads \ {t} : token'[u] = token[u] /\ pc'[u] = pc[u]
  BY <1>1, <1>2
<1>4. Numbered'
  BY <1>1, <1>2, <1>3 DEF TokenInv, Numbered
<1>5. Fresh'
  BY <1>1, <1>2, <1>3 DEF TokenInv, Numbered, Fresh
<1>6. Renewing' /\ RetryIsFutile'
  BY <1>1, <1>2, <1>3 DEF TokenInv, Renewing, RetryIsFutile, At
<1> QED BY <1>4, <1>5, <1>6

LEMMA RepeatKeepsTokens ==
  ASSUME TokenInv, NEW t \in Threads, Repeat(t)
  PROVE  Numbered' /\ Fresh' /\ Renewing' /\ RetryIsFutile'
<1>1. /\ access_token' = token[t] /\ issued' = issued /\ expired' = expired /\ header' = header
      /\ token' = [token EXCEPT ![t] = 0] /\ again' = [again EXCEPT ![t] = TRUE]
      /\ pc[t] = "issued" /\ pc' = [pc EXCEPT ![t] = "connect"]
  BY DEF Repeat, Goto, At, request
<1>2. /\ header \in [Threads -> Nat] /\ token \in [Threads -> Nat] /\ again \in [Threads -> BOOLEAN]
      /\ pc \in [Threads -> {"idle", "connect", "sent", "login", "issued"}]
      /\ access_token \in Nat /\ issued \in Nat /\ expired \in Nat
  BY DEF TokenInv, ClientInv, TypeOK
<1>3. /\ token'[t] = 0 /\ again'[t] /\ pc'[t] = "connect"
      /\ \A u \in Threads \ {t} : token'[u] = token[u] /\ again'[u] = again[u] /\ pc'[u] = pc[u]
  BY <1>1, <1>2
<1>4. token[t] # 0 /\ header[t] <= expired /\ \A u \in Threads : header[u] # token[t]
  BY <1>1 DEF TokenInv, Renewing, Fresh, At
<1>5. Numbered'
  BY <1>1, <1>2, <1>3, <1>4 DEF TokenInv, Numbered
<1>6. Fresh'
  BY <1>1, <1>3, <1>4 DEF TokenInv, Fresh
<1>7. Renewing'
  BY <1>1, <1>3, <1>4 DEF TokenInv, Renewing, At
<1>8. RetryIsFutile'
  BY <1>1, <1>3, <1>4 DEF TokenInv, RetryIsFutile
<1> QED BY <1>5, <1>6, <1>7, <1>8

LEMMA PlatformKeepsTokens ==
  ASSUME TokenInv, Expire \/ LogOff
  PROVE  Numbered' /\ Fresh' /\ Renewing' /\ RetryIsFutile'
<1>1. UNCHANGED <<access_token, issued, pc, header, again, token>>
  BY DEF Expire, LogOff, tokens, request
<1>2. header \in [Threads -> Nat] /\ issued \in Nat /\ expired \in Nat
  BY DEF TokenInv, ClientInv, TypeOK
<1>3. expired' \in Nat /\ expired <= expired'
  BY <1>2 DEF Expire, LogOff, tokens
<1> QED BY <1>1, <1>2, <1>3 DEF TokenInv, Numbered, Fresh, Renewing, RetryIsFutile, At

LEMMA NextKeepsTokens ==
  ASSUME TokenInv, Next
  PROVE  Numbered' /\ Fresh' /\ Renewing' /\ RetryIsFutile'
<1>1. ASSUME NEW t \in Threads, NEW o \in Operations, NEW h \in Hosts, Call(t, o, h)
      PROVE  Numbered' /\ Fresh' /\ Renewing' /\ RetryIsFutile'
  BY <1>1, CallKeepsTokens
<1>2. ASSUME NEW t \in Threads, ShutDown(t) \/ LoginFails(t) \/ Fails(t) \/ Accepted(t) \/ Garbled(t) \/ Refused(t)
      PROVE  Numbered' /\ Fresh' /\ Renewing' /\ RetryIsFutile'
  BY <1>2, EndTokens DEF ShutDown, LoginFails, Fails, Accepted, Garbled, Refused
<1>3. ASSUME NEW t \in Threads, Connect(t) \/ Unauthorized(t)
      PROVE  Numbered' /\ Fresh' /\ Renewing' /\ RetryIsFutile'
  BY <1>3, ConnectKeepsTokens
<1>4. ASSUME NEW t \in Threads, Issue(t) \/ Repeat(t)
      PROVE  Numbered' /\ Fresh' /\ Renewing' /\ RetryIsFutile'
  BY <1>4, IssueKeepsTokens, RepeatKeepsTokens
<1>5. CASE Expire \/ LogOff
  BY <1>5, PlatformKeepsTokens
<1> QED BY <1>1, <1>2, <1>3, <1>4, <1>5 DEF Next, Ends, Login

LEMMA StutterKeepsTokens ==
  ASSUME TokenInv, UNCHANGED vars
  PROVE  Numbered' /\ Fresh' /\ Renewing' /\ RetryIsFutile'
BY DEF TokenInv, Numbered, Fresh, Renewing, RetryIsFutile, At, vars, tokens, request

(* IoTPClient.getOrganizations: no schedule saves the request that is      *)
(* repeated.  Whatever other threads' logins do, it carries an expired     *)
(* token that is not the client's any more, for any number of threads and  *)
(* tokens.                                                                 *)
THEOREM RepeatingIsFutile == Spec => []RetryIsFutile
<1>1. TokenInv /\ [Next]_vars => TokenInv'
  <2>1. TokenInv /\ [Next]_vars => ClientInv'
    BY NextKeepsClient, StutterKeepsClient DEF TokenInv
  <2> QED BY <2>1, NextKeepsTokens, StutterKeepsTokens DEF TokenInv
<1>2. TokenInv => RetryIsFutile
  BY DEF TokenInv
<1> QED BY InitToken, <1>1, <1>2, PTL DEF Spec
=============================================================================
