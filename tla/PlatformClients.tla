--------------------------- MODULE PlatformClients ---------------------------
(***************************************************************************)
(* The two HTTP clients of a session, IoTPClient and BluemixClient, as its *)
(* request threads share them: the bearer token, its renewal, and the      *)
(* connections each HttpClient keeps for a host.  A connection is leased   *)
(* to a call until its response has been read or closed; a thread waits    *)
(* for one without a timeout.                                              *)
(***************************************************************************)
EXTENDS Naturals

CONSTANTS
  Threads,    \* the request threads of the session
  Orgs,       \* the organizations, each with a host of its own
  PoolSize,   \* connections of a host
  MaxTokens,  \* bound on the tokens issued to the IoT Platform client
  NULL        \* no call, no connection

Hosts == Orgs \cup {"platform", "bluemix"}
(* createIoTResource and updateIoTResource differ in what they wait for:   *)
(* both are "write".  "bluemix" is any call of the Bluemix client.         *)
Operations == {"write", "read", "delete", "getOrganizations", "bluemix"}

ASSUME ClientsAssumption ==
  /\ PoolSize \in Nat \ {0} /\ MaxTokens \in Nat \ {0}
  /\ NULL \notin Hosts \cup Operations
  /\ NULL \notin Hosts \X (1..PoolSize)
  /\ Orgs \cap {"platform", "bluemix"} = {}

VARIABLES
  access_token,  \* the number of the IoT Platform client's token
  issued,        \* how many tokens were issued to it
  expired,       \* how many of them, the oldest, have expired
  closed,        \* the clients have been logged off
  lease,         \* the operation each connection is leased to, or NULL
  pc,
  op, host, header,  \* of each thread's call, where header is its token
  conn,          \* the connection it is sent on
  again,         \* it is being repeated after a login
  token          \* the token a login has brought

tokens == <<access_token, issued, expired>>
request == <<op, host, header>>
vars == <<tokens, closed, lease, pc, request, conn, again, token>>

Pool(h) == {h} \X (1..PoolSize)
Connections == Hosts \X (1..PoolSize)

HostsOf(o) == IF o = "getOrganizations" THEN {"platform"} ELSE IF o = "bluemix" THEN {"bluemix"} ELSE Orgs

Init ==
  /\ access_token = 1 /\ issued = 1 /\ expired = 0
  /\ closed = FALSE
  /\ lease = [c \in Connections |-> NULL]
  /\ pc = [t \in Threads |-> "idle"]
  /\ op = [t \in Threads |-> NULL] /\ host = [t \in Threads |-> NULL]
  /\ header = [t \in Threads |-> 0] /\ conn = [t \in Threads |-> NULL]
  /\ again = [t \in Threads |-> FALSE] /\ token = [t \in Threads |-> 0]

At(t, here) == pc[t] = here
Goto(t, there) == pc' = [pc EXCEPT ![t] = there]

(* The call returns, or throws.                                            *)
End(t) ==
  /\ Goto(t, "idle")
  /\ op' = [op EXCEPT ![t] = NULL] /\ host' = [host EXCEPT ![t] = NULL]
  /\ header' = [header EXCEPT ![t] = 0] /\ conn' = [conn EXCEPT ![t] = NULL]
  /\ again' = [again EXCEPT ![t] = FALSE] /\ token' = [token EXCEPT ![t] = 0]

(* The request is built, with the token the client has by then.            *)
Call(t, o, h) ==
  /\ At(t, "idle") /\ h \in HostsOf(o)
  /\ op' = [op EXCEPT ![t] = o] /\ host' = [host EXCEPT ![t] = h]
  /\ header' = [header EXCEPT ![t] = IF o = "bluemix" THEN 0 ELSE access_token]
  /\ Goto(t, "connect")
  /\ UNCHANGED <<tokens, closed, lease, conn, again, token>>

(***************************************************************************)
(* HttpClient.execute                                                      *)
(***************************************************************************)
(* The connections of a host are alike: the first free one is leased.      *)
Connect(t) ==
  /\ At(t, "connect") /\ ~closed
  /\ \E c \in Pool(host[t]) :
       /\ lease[c] = NULL
       /\ \A d \in Pool(host[t]) : d[2] < c[2] => lease[d] # NULL
       /\ lease' = [lease EXCEPT ![c] = op[t]]
       /\ conn' = [conn EXCEPT ![t] = c]
  /\ Goto(t, "sent")
  /\ UNCHANGED <<tokens, closed, request, again, token>>

(* A pool that is shut down throws, also in threads that wait for it.      *)
ShutDown(t) ==
  /\ At(t, "connect") /\ closed
  /\ End(t)
  /\ UNCHANGED <<tokens, closed, lease>>

Release(t) == lease' = [lease EXCEPT ![conn[t]] = NULL]

(* A timeout, or a connection that fails or is shut down.                  *)
Fails(t) ==
  /\ At(t, "sent")
  /\ Release(t)
  /\ End(t)
  /\ UNCHANGED <<tokens, closed>>

(***************************************************************************)
(* Responses.  The IoT Platform refuses an expired token, and answers 401  *)
(* (SC_UNAUTHORIZED) then and only then.  Bluemix may refuse any call; it  *)
(* refuses each when its token has expired, which nobody renews.           *)
(***************************************************************************)
Expired(t) == op[t] # "bluemix" /\ header[t] <= expired

(* Mutant: the body of the response is not read.                           *)
Accepted_NotRead(t) ==
  /\ At(t, "sent") /\ ~closed /\ ~Expired(t)
  /\ End(t)
  /\ UNCHANGED <<tokens, closed, lease>>

(* The body is read to its end; a deletion's response has none.            *)
Accepted(t) ==
  /\ At(t, "sent") /\ ~closed /\ ~Expired(t)
  /\ Release(t)
  /\ End(t)
  /\ UNCHANGED <<tokens, closed>>

(* getOrganizations parses the body as it reads it: when that throws, the  *)
(* response is neither read nor closed.                                    *)
Garbled(t) ==
  /\ At(t, "sent") /\ ~closed /\ ~Expired(t)
  /\ op[t] = "getOrganizations"
  /\ End(t)
  /\ UNCHANGED <<tokens, closed, lease>>

(* Mutant: deletions do not close a refusal.                               *)
Closes_NotDelete == {"read", "getOrganizations"}

(* The operations that close a response that refuses them.                 *)
Closes == {"read", "delete", "getOrganizations"}

(* A response without a body gives its connection back by itself.          *)
Refused(t) ==
  /\ At(t, "sent") /\ ~closed
  /\ op[t] = "getOrganizations" /\ Expired(t) => again[t]
  /\ \E body \in BOOLEAN : IF body /\ op[t] \notin Closes THEN UNCHANGED lease ELSE Release(t)
  /\ End(t)
  /\ UNCHANGED <<tokens, closed>>

(***************************************************************************)
(* getOrganizations logs in again and repeats its request.  The login has  *)
(* a client of its own, without timeouts.                                  *)
(***************************************************************************)
(* Mutant: 401 is like any other refusal.                                  *)
Unauthorized_NoLogin(t) ==
  /\ At(t, "sent") /\ ~closed /\ Expired(t)
  /\ op[t] = "getOrganizations" /\ ~again[t]
  /\ Release(t)
  /\ End(t)
  /\ UNCHANGED <<tokens, closed>>

Unauthorized(t) ==
  /\ At(t, "sent") /\ ~closed /\ Expired(t)
  /\ op[t] = "getOrganizations" /\ ~again[t]
  /\ Release(t)
  /\ conn' = [conn EXCEPT ![t] = NULL]
  /\ Goto(t, "login")
  /\ UNCHANGED <<tokens, closed, request, again, token>>

Issue(t) ==
  /\ At(t, "login") /\ issued < MaxTokens
  /\ issued' = issued + 1
  /\ token' = [token EXCEPT ![t] = issued + 1]
  /\ Goto(t, "issued")
  /\ UNCHANGED <<access_token, expired, closed, lease, request, conn, again>>

(* Mutant: a failed login forgets the token.                               *)
LoginFails_Forgets(t) ==
  /\ At(t, "login")
  /\ access_token' = NULL
  /\ End(t)
  /\ UNCHANGED <<issued, expired, closed, lease>>

LoginFails(t) ==
  /\ At(t, "login")
  /\ End(t)
  /\ UNCHANGED <<tokens, closed, lease>>

(* The client has the new token, the request that is repeated the old one. *)
Repeat(t) ==
  /\ At(t, "issued")
  /\ access_token' = token[t]
  /\ token' = [token EXCEPT ![t] = 0]
  /\ again' = [again EXCEPT ![t] = TRUE]
  /\ Goto(t, "connect")
  /\ UNCHANGED <<issued, expired, closed, lease, request, conn>>

(***************************************************************************)
(* The platforms, and LQE's log-off.                                       *)
(***************************************************************************)
Expire ==
  /\ \E n \in expired + 1 .. issued : expired' = n
  /\ UNCHANGED <<access_token, issued, closed, lease, pc, request, conn, again, token>>

LogOff ==
  /\ ~closed /\ closed' = TRUE
  /\ UNCHANGED <<tokens, lease, pc, request, conn, again, token>>

Ends(t) == Accepted(t) \/ Garbled(t) \/ Refused(t) \/ Unauthorized(t) \/ Fails(t)
Login(t) == Issue(t) \/ LoginFails(t)

Next ==
  \/ \E t \in Threads :
       \/ \E o \in Operations, h \in Hosts : Call(t, o, h)
       \/ Connect(t) \/ ShutDown(t) \/ Ends(t) \/ Login(t) \/ Repeat(t)
  \/ Expire \/ LogOff

Spec == Init /\ [][Next]_vars

(* A call to the IoT Platform ends, by its timeouts if by nothing else; a  *)
(* call to Bluemix and a login may never be answered.  Threads get         *)
(* connections in the order they asked.                                    *)
Fairness ==
  \A t \in Threads :
    /\ WF_vars(host[t] # "bluemix" /\ Ends(t))
    /\ SF_vars(Connect(t)) /\ WF_vars(ShutDown(t)) /\ WF_vars(Repeat(t))

FairSpec == Spec /\ Fairness

-----------------------------------------------------------------------------
(* Every variable has its type.                                            *)
TypeOK ==
  /\ access_token \in Nat /\ issued \in Nat /\ expired \in Nat
  /\ closed \in BOOLEAN
  /\ lease \in [Connections -> Operations \cup {NULL}]
  /\ pc \in [Threads -> {"idle", "connect", "sent", "login", "issued"}]
  /\ op \in [Threads -> Operations \cup {NULL}]
  /\ host \in [Threads -> Hosts \cup {NULL}]
  /\ header \in [Threads -> Nat]
  /\ conn \in [Threads -> Connections \cup {NULL}]
  /\ again \in [Threads -> BOOLEAN]
  /\ token \in [Threads -> Nat]

(* A connection that stays leased after its call.                          *)
Lost(c) == lease[c] # NULL /\ \A t \in Threads : conn[t] # c

MayLose == {"write", "getOrganizations", "bluemix"}

(* No two calls are sent on one connection, each call's connection is      *)
(* leased to it, at its host, and reads and deletions lose no connection.  *)
ConnectionsAccounted ==
  /\ \A t \in Threads :
       /\ At(t, "sent") <=> conn[t] # NULL
       /\ At(t, "sent") => conn[t] \in Pool(host[t]) /\ lease[conn[t]] = op[t]
  /\ \A t, u \in Threads : conn[t] = conn[u] => t = u \/ conn[t] = NULL
  /\ \A c \in Connections : Lost(c) => lease[c] \in MayLose

(* A login brings what will be used to authenticate the other calls: the   *)
(* request that is repeated after it carries the token the client has then.*)
RetryCarriesNewToken ==
  [][\A t \in Threads : again'[t] /\ ~again[t] => header'[t] = access_token']_vars

(* A call to the IoT Platform ends, unless every connection to its own     *)
(* host has been lost to calls that lose them, or its login is never       *)
(* answered; what was lost at other hosts stops nobody.                    *)
Exhausted(h) == \A c \in Pool(h) : Lost(c) /\ lease[c] \in MayLose
CallsEnd ==
  \A t \in Threads :
    op[t] \notin {NULL, "bluemix"} ~> At(t, "idle") \/ At(t, "login") \/ Exhausted(host[t])
=============================================================================
