-------------------------- MODULE DialogPages_proofs --------------------------
(***************************************************************************)
(* Theorems about the dialogs, for any resources, types and bounds.        *)
(***************************************************************************)
EXTENDS DialogPages, TLAPS

(* What an event of a request changes of the requests.                     *)
LEMMA CodesAreStatuses ==
  ASSUME NEW r \in Requests, NEW code \in Codes(r)
  PROVE  code \in {"ok", "created", "refused"}
  BY DEF Codes

LEMMA AnswersAreResources ==
  ASSUME NEW code, NEW answer \in Answers(code)
  PROVE  answer \in SUBSET Resources
  BY DEF Answers

(* A request is sent exactly when its number has been given out.           *)
Sent == \A r \in Requests : readyState[r] = "unsent" <=> r > xmlhttp

LEMMA NetworkStep ==
  ASSUME TypeOK, Sent, NEW r \in Requests, Network(r)
  PROVE  /\ xmlhttp \in Requests /\ r <= xmlhttp
         /\ open
         /\ readyState[r] \in {"opened", "receiving"}
         /\ readyState'[r] \in {"receiving", "done"}
         /\ readyState' \in [Requests -> {"unsent", "opened", "receiving", "done"}]
         /\ status' \in [Requests -> {"none", "ok", "created", "refused"}]
         /\ responseText' \in [Requests -> SUBSET Resources]
         /\ \A q \in Requests \ {r} :
              /\ readyState'[q] = readyState[q]
              /\ status'[q] = status[q] /\ responseText'[q] = responseText[q]
         /\ OnReadyStateChange(r)
         /\ UNCHANGED <<page, hash, xmlhttp, asked, open>>
<1>1. xmlhttp \in Requests /\ r <= xmlhttp
  BY ConstantsAssumption DEF TypeOK, Sent, Network, Receive, Finish, Fail, Requests
<1>2. CASE Receive(r)
  <2>1. PICK code \in Codes(r) : \E answer \in Answers(code) :
          /\ status' = [status EXCEPT ![r] = code]
          /\ responseText' = [responseText EXCEPT ![r] = answer]
    BY <1>2 DEF Receive
  <2>2. PICK answer \in Answers(code) :
          /\ status' = [status EXCEPT ![r] = code]
          /\ responseText' = [responseText EXCEPT ![r] = answer]
    BY <2>1
  <2>3. code \in {"ok", "created", "refused"} /\ answer \in SUBSET Resources
    BY CodesAreStatuses, AnswersAreResources
  <2> QED BY <1>1, <1>2, <2>2, <2>3 DEF Receive, TypeOK
<1>3. CASE Finish(r)
  BY <1>1, <1>3 DEF Finish, TypeOK
<1>4. CASE Fail(r)
  BY <1>1, <1>4 DEF Fail, TypeOK
<1> QED BY <1>2, <1>3, <1>4 DEF Network

LEMMA SendResponseType ==
  ASSUME TypeOK, NEW response \in SUBSET Resources, SendResponse(response)
  PROVE  /\ windowName' \in SUBSET SUBSET Resources
         /\ href' \in {"dialog", "returnURL", "response"}
         /\ posted' \in Seq(SUBSET Resources)
<1>1. CASE RespondWithWindowName(response)
  BY <1>1 DEF TypeOK, RespondWithWindowName
<1>2. CASE RespondWithPostMessage(response)
  BY <1>2 DEF TypeOK, RespondWithPostMessage
<1>3. CASE UNCHANGED responseVars
  BY <1>3 DEF TypeOK, responseVars
<1> QED BY <1>1, <1>2, <1>3 DEF SendResponse

LEMMA HandlerType ==
  ASSUME TypeOK, NEW r \in Requests, xmlhttp \in Requests,
         responseText' \in [Requests -> SUBSET Resources], OnReadyStateChange(r)
  PROVE  /\ list' \in [Resources -> Nat] /\ message' \in {"search", "loading"}
         /\ windowName' \in SUBSET SUBSET Resources
         /\ href' \in {"dialog", "returnURL", "response"}
         /\ posted' \in Seq(SUBSET Resources)
<1>1. CASE HandleSearch(r) /\ UNCHANGED responseVars
  <2>1. windowName' \in SUBSET SUBSET Resources /\ href' \in {"dialog", "returnURL", "response"}
        /\ posted' \in Seq(SUBSET Resources)
    BY <1>1 DEF TypeOK, responseVars
  <2>2. list' \in [Resources -> Nat] /\ message' \in {"search", "loading"}
    BY <1>1 DEF TypeOK, HandleSearch, listVars
  <2> QED BY <2>1, <2>2
<1>2. CASE HandleCreate(r) /\ UNCHANGED listVars
  <2>1. list' \in [Resources -> Nat] /\ message' \in {"search", "loading"}
    BY <1>2 DEF TypeOK, listVars
  <2>2. CASE Succeeds(xmlhttp, "created")
    <3>1. responseText'[xmlhttp] \in SUBSET Resources
      OBVIOUS
    <3>2. SendResponse(responseText'[xmlhttp])
      BY <1>2, <2>2 DEF HandleCreate, Inspected
    <3> QED BY <2>1, <3>1, <3>2, SendResponseType
  <2>3. CASE ~Succeeds(xmlhttp, "created")
    BY <1>2, <2>1, <2>3 DEF HandleCreate, Inspected, TypeOK, responseVars
  <2> QED BY <2>2, <2>3
<1> QED BY <1>1, <1>2 DEF OnReadyStateChange

(***************************************************************************)
(* Types.                                                                  *)
(***************************************************************************)
Typed == TypeOK /\ Sent

LEMMA InitTyped == Init => Typed
<1> SUFFICES ASSUME Init PROVE Typed
  OBVIOUS
<1>1. TypeOK
  <2>1. /\ page \in Pages /\ hash \in Protocols /\ xmlhttp \in 0..MaxRequests
        /\ readyState \in [Requests -> {"unsent", "opened", "receiving", "done"}]
        /\ status \in [Requests -> {"none", "ok", "created", "refused"}]
        /\ responseText \in [Requests -> SUBSET Resources]
        /\ asked \in [Requests -> Types \cup {NULL}]
        /\ list \in [Resources -> Nat]
    BY ConstantsAssumption DEF Init, UIInit
  <2>2. /\ message \in {"search", "loading"} /\ windowName \in SUBSET SUBSET Resources
        /\ href \in {"dialog", "returnURL", "response"} /\ posted \in Seq(SUBSET Resources)
    BY DEF Init, UIInit
  <2>3. /\ uri \in Types \cup {NULL} /\ form \in Types \cup {NULL}
        /\ loads \in [Types -> Nat] /\ links \in SUBSET Resources
    BY PagesAssumption DEF Init
  <2>4. open \in BOOLEAN /\ alone \in BOOLEAN /\ tree \in BOOLEAN
    BY Zenon DEF Init, UIInit
  <2> QED BY <2>1, <2>2, <2>3, <2>4 DEF TypeOK
<1>2. Sent
  BY DEF Init, UIInit, Sent, Requests
<1> QED BY <1>1, <1>2 DEF Typed

LEMMA NewRequestTyped ==
  ASSUME Typed, NEW type \in Types \cup {NULL}, NewRequest(type)
  PROVE  /\ xmlhttp' \in 0..MaxRequests /\ Sent'
         /\ readyState' \in [Requests -> {"unsent", "opened", "receiving", "done"}]
         /\ asked' \in [Requests -> Types \cup {NULL}]
<1>1. xmlhttp \in Nat /\ xmlhttp + 1 \in Requests
  BY ConstantsAssumption DEF NewRequest, Typed, TypeOK, Requests
<1>2. xmlhttp' \in 0..MaxRequests
  BY <1>1, ConstantsAssumption DEF NewRequest, Requests
<1>3. /\ readyState' \in [Requests -> {"unsent", "opened", "receiving", "done"}]
      /\ asked' \in [Requests -> Types \cup {NULL}]
  BY <1>1 DEF NewRequest, Typed, TypeOK
<1>4. ASSUME NEW r \in Requests
      PROVE  readyState'[r] = "unsent" <=> r > xmlhttp'
  <2>1. r \in Nat
    BY DEF Requests
  <2>2. CASE r = xmlhttp + 1
    BY <1>1, <2>2 DEF NewRequest, Typed, TypeOK
  <2>3. CASE r # xmlhttp + 1
    BY <1>1, <2>1, <2>3 DEF NewRequest, Typed, TypeOK, Sent
  <2> QED BY <2>2, <2>3
<1> QED BY <1>2, <1>3, <1>4 DEF Sent

LEMMA LoadTyped ==
  ASSUME Typed, NEW ty \in Types, Load(ty)
  PROVE  Typed'
<1>1. loads' \in [Types -> Nat]
  <2>1. CASE page = "creator"
    <3>1. loads' = [loads EXCEPT ![ty] = loads[ty] + 1]
      BY <2>1 DEF Load
    <3> QED BY <3>1 DEF Typed, TypeOK
  <2>2. CASE page # "creator"
    BY <2>2 DEF Load, Typed, TypeOK
  <2> QED BY <2>1, <2>2
<1>2. alone' \in BOOLEAN
  BY Zenon DEF Load, Typed, TypeOK, NotLoading
<1> QED BY <1>1, <1>2 DEF Load, Typed, TypeOK, Sent, uiVars, requestVars, listVars, responseVars

LEMMA AskedType == Typed => \A separator : Asked(separator) \in Types \cup {NULL}
  BY DEF Typed, TypeOK, Asked

LEMMA SearchTyped ==
  ASSUME Typed, NEW type \in Types \cup {NULL}, Search(type), UNCHANGED <<uri, formVars, tree, links>>
  PROVE  Typed'
<1>1. /\ xmlhttp' \in 0..MaxRequests /\ Sent'
      /\ readyState' \in [Requests -> {"unsent", "opened", "receiving", "done"}]
      /\ asked' \in [Requests -> Types \cup {NULL}]
  BY NewRequestTyped DEF Search
<1>2. UNCHANGED <<status, responseText>> /\ list' \in [Resources -> Nat]
  BY DEF Search, NewRequest
<1> QED BY <1>1, <1>2 DEF Search, Typed, TypeOK, responseVars, formVars

LEMMA RespondTyped ==
  ASSUME Typed, NEW response \in SUBSET Resources, SendResponse(response),
         UNCHANGED <<page, hash, requestVars, listVars, open>>,
         UNCHANGED <<uri, formVars, tree, links>>
  PROVE  Typed'
  BY SendResponseType DEF Typed, TypeOK, Sent, requestVars, listVars, formVars

LEMMA NextTyped == Typed /\ [Next]_vars => Typed'
<1> SUFFICES ASSUME Typed, [Next]_vars
             PROVE  Typed'
  OBVIOUS
<1>1. CASE BmxSearch
  BY <1>1, AskedType, SearchTyped DEF BmxSearch
<1>2. CASE TypedSearch
  BY <1>2, AskedType, SearchTyped DEF TypedSearch
<1>3. CASE Submit
  <2>1. uri \in Types \cup {NULL}
    BY DEF Typed, TypeOK
  <2>2. /\ xmlhttp' \in 0..MaxRequests /\ Sent'
        /\ readyState' \in [Requests -> {"unsent", "opened", "receiving", "done"}]
        /\ asked' \in [Requests -> Types \cup {NULL}]
    BY <1>3, <2>1, NewRequestTyped DEF Submit, Create
  <2>3. UNCHANGED <<status, responseText>>
    BY <1>3 DEF Submit, Create, NewRequest
  <2> QED BY <1>3, <2>2, <2>3 DEF Submit, Create, Typed, TypeOK, listVars, responseVars, formVars
<1>4. CASE BmxSelect \/ TypedSelect
  <2>1. PICK selected \in SUBSET Options : SendResponse(selected)
    BY <1>4 DEF BmxSelect, TypedSelect, Select
  <2>2. selected \in SUBSET Resources
    BY DEF Options
  <2> QED BY <1>4, <2>1, <2>2, RespondTyped DEF BmxSelect, TypedSelect, Select
<1>5. CASE BmxCancel \/ TypedCancel
  <2>1. {} \in SUBSET Resources
    OBVIOUS
  <2> QED BY <1>5, <2>1, RespondTyped DEF BmxCancel, TypedCancel, Cancel
<1>6. CASE TreeSelect
  <2>1. PICK selected \in SUBSET Resources : SendResponse(selected)
    BY <1>6 DEF TreeSelect
  <2>2. UNCHANGED <<page, hash, requestVars, listVars, open>> /\ UNCHANGED <<uri, formVars, tree, links>>
    BY <1>6 DEF TreeSelect
  <2> QED BY <2>1, <2>2, RespondTyped
<1>7. CASE Choose \/ Ready
  BY <1>7, LoadTyped, PagesAssumption DEF Choose, Ready
<1>8. CASE CreateTree
  BY <1>8 DEF CreateTree, Typed, TypeOK, Sent, uiVars, requestVars, listVars, responseVars, formVars
<1>9. ASSUME NEW ty \in Types, FormArrives(ty) \/ FormFails(ty)
      PROVE  Typed'
  <2>1. loads' \in [Types -> Nat]
    <3>1. loads[ty] \in Nat /\ loads[ty] > 0 /\ loads' = [loads EXCEPT ![ty] = loads[ty] - 1]
      BY <1>9 DEF FormArrives, FormFails, Typed, TypeOK
    <3>2. loads[ty] - 1 \in Nat
      BY <3>1
    <3> QED BY <3>1, <3>2 DEF Typed, TypeOK
  <2> QED BY <1>9, <2>1 DEF FormArrives, FormFails, Typed, TypeOK, Sent, uiVars, requestVars, listVars, responseVars
<1>10. ASSUME NEW r \in Requests, Answered(r)
       PROVE  Typed'
  <2>1. /\ xmlhttp \in Requests
        /\ r <= xmlhttp
        /\ readyState'[r] \in {"receiving", "done"}
        /\ readyState' \in [Requests -> {"unsent", "opened", "receiving", "done"}]
        /\ status' \in [Requests -> {"none", "ok", "created", "refused"}]
        /\ responseText' \in [Requests -> SUBSET Resources]
        /\ \A q \in Requests \ {r} : readyState'[q] = readyState[q]
        /\ OnReadyStateChange(r)
        /\ UNCHANGED <<page, hash, xmlhttp, asked, open>>
    BY <1>10, NetworkStep DEF Answered, Typed
  <2>2. /\ list' \in [Resources -> Nat] /\ message' \in {"search", "loading"}
        /\ windowName' \in SUBSET SUBSET Resources
        /\ href' \in {"dialog", "returnURL", "response"}
        /\ posted' \in Seq(SUBSET Resources)
    BY <2>1, HandlerType DEF Typed
  <2>3. Sent'
    BY <2>1 DEF Sent, Typed, TypeOK, Requests
  <2> QED BY <1>10, <2>1, <2>2, <2>3 DEF Answered, Typed, TypeOK, formVars
<1>11. CASE HandleMessage
  <2>1. Head(posted) \in SUBSET Resources /\ Tail(posted) \in Seq(SUBSET Resources)
    BY <1>11 DEF HandleMessage, Typed, TypeOK
  <2> QED BY <1>11, <2>1 DEF HandleMessage, Linked, Typed, TypeOK, Sent, requestVars, listVars, formVars
<1>12. CASE Navigate
  BY <1>12 DEF Navigate, Linked, Typed, TypeOK, Sent, requestVars, listVars, formVars
<1>13. CASE UNCHANGED vars
  BY <1>13 DEF vars, Typed, TypeOK, Sent, uiVars, requestVars, listVars, responseVars, formVars
<1> QED BY <1>1, <1>2, <1>3, <1>4, <1>5, <1>6, <1>7, <1>8, <1>9, <1>10, <1>11, <1>12, <1>13 DEF Next, User

(* Every variable has its type, in every state.                            *)
THEOREM DialogTypeCorrect == Spec => []TypeOK
  BY InitTyped, NextTyped, PTL DEF Spec, Typed

(***************************************************************************)
(* The search pages.                                                       *)
(***************************************************************************)
(* What a step may do to the requests and the list.                        *)
LEMMA Steps ==
  ASSUME [Next]_vars
  PROVE  \/ page \in SearchPages /\ \E type : Search(type)
         \/ page = "creator" /\ \E type : Create(type)
         \/ \E r \in Requests : Answered(r)
         \/ UNCHANGED <<page, hash, requestVars, listVars>>
<1>1. CASE BmxSearch \/ TypedSearch
  BY <1>1 DEF BmxSearch, TypedSearch, SearchPages
<1>2. CASE Submit
  BY <1>2 DEF Submit
<1>3. CASE BmxSelect \/ TypedSelect \/ BmxCancel \/ TypedCancel \/ TreeSelect
  BY <1>3 DEF BmxSelect, TypedSelect, BmxCancel, TypedCancel, TreeSelect, Select, Cancel
<1>4. CASE Choose \/ Ready \/ CreateTree \/ \E ty \in Types : FormArrives(ty) \/ FormFails(ty)
  BY <1>4 DEF Choose, Ready, Load, CreateTree, FormArrives, FormFails, uiVars
<1>5. CASE HandleMessage \/ Navigate
  BY <1>5 DEF HandleMessage, Navigate
<1>6. CASE UNCHANGED vars
  BY <1>6 DEF vars, uiVars
<1> QED BY <1>1, <1>2, <1>3, <1>4, <1>5, <1>6 DEF Next, User

(* After a request is made, it has not succeeded.                          *)
LEMMA NewRequestFacts ==
  ASSUME Typed, NEW type, NewRequest(type)
  PROVE  /\ xmlhttp + 1 \in Requests /\ xmlhttp' = xmlhttp + 1 /\ xmlhttp' > 0
         /\ readyState[xmlhttp + 1] = "unsent"
         /\ readyState'[xmlhttp + 1] = "opened"
         /\ \A q \in Requests \ {xmlhttp + 1} : readyState'[q] = readyState[q]
         /\ UNCHANGED <<status, responseText>>
  BY ConstantsAssumption DEF NewRequest, Typed, TypeOK, Sent, Requests

(* With ListIsLatestAnswer, what is shown before the first search.         *)
SearchInv ==
  /\ xmlhttp = 0 => Options = {}
  /\ ListIsLatestAnswer
  /\ MessageTellsLatest

LEMMA InitSearch == Init => SearchInv
<1> SUFFICES ASSUME Init PROVE SearchInv
  OBVIOUS
<1>1. xmlhttp = 0 /\ message = "search" /\ \A x \in Resources : list[x] = 0
  BY DEF Init, UIInit
<1> QED BY <1>1 DEF SearchInv, Options, ListIsLatestAnswer, MessageTellsLatest

LEMMA HandledSearch ==
  ASSUME Typed, SearchInv, page \in SearchPages, NEW r \in Requests, Network(r), HandleSearch(r)
  PROVE  SearchInv'
<1>1. /\ xmlhttp \in Requests /\ xmlhttp' = xmlhttp /\ page' = page /\ xmlhttp > 0
      /\ readyState[r] \in {"opened", "receiving"}
      /\ \A q \in Requests \ {r} :
           /\ readyState'[q] = readyState[q]
           /\ status'[q] = status[q] /\ responseText'[q] = responseText[q]
      /\ responseText' \in [Requests -> SUBSET Resources]
  BY NetworkStep DEF Typed, Requests
<1>2. list \in [Resources -> Nat]
  BY DEF Typed, TypeOK
<1> DEFINE T == responseText'[xmlhttp]
           S == Succeeds(xmlhttp, "ok")
<1>3. S <=> Succeeded(xmlhttp, "ok")'
  BY <1>1 DEF Succeeds, Succeeded
<1>4. CASE S
  <2>1. /\ list' = [x \in Resources |-> IF x \in T THEN list[x] + 1 ELSE list[x]]
        /\ message' = "search"
    BY <1>4 DEF HandleSearch, Inspected
  <2>2. \A x \in Resources \ T : list[x] = 0
    <3>1. CASE r = xmlhttp
      <4>1. Options = {}
        BY <1>1, <3>1 DEF SearchInv, ListIsLatestAnswer, Succeeded
      <4> QED BY <4>1, <1>2 DEF Options
    <3>2. CASE r # xmlhttp
      <4>1. Options = T
        BY <1>1, <1>4, <3>2 DEF SearchInv, ListIsLatestAnswer, Succeeded, Succeeds
      <4> QED BY <4>1, <1>2 DEF Options
    <3> QED BY <3>1, <3>2
  <2>3. T \in SUBSET Resources
    BY <1>1
  <2>4. Options' = T
    BY <1>2, <2>1, <2>2, <2>3 DEF Options
  <2>5. \A x, y \in T : list[x] = list[y]
    <3>1. CASE r = xmlhttp
      <4>1. Options = {}
        BY <1>1, <3>1 DEF SearchInv, ListIsLatestAnswer, Succeeded
      <4> QED BY <4>1, <1>2, <2>3 DEF Options
    <3>2. CASE r # xmlhttp
      BY <1>1, <1>4, <3>2 DEF SearchInv, ListIsLatestAnswer, Succeeded, Succeeds
    <3> QED BY <3>1, <3>2
  <2>6. \A x, y \in T : list'[x] = list'[y]
    BY <2>1, <2>3, <2>5
  <2> QED BY <1>1, <1>3, <1>4, <2>1, <2>4, <2>6 DEF SearchInv, ListIsLatestAnswer, MessageTellsLatest
<1>5. CASE ~S
  <2>1. UNCHANGED <<list, message>>
    BY <1>5 DEF HandleSearch, Inspected, listVars
  <2>2. ~Succeeded(xmlhttp, "ok")
    BY <1>1, <1>5 DEF Succeeds, Succeeded
  <2>3. Options' = Options
    BY <2>1 DEF Options
  <2> QED BY <1>1, <1>3, <1>5, <2>1, <2>2, <2>3 DEF SearchInv, ListIsLatestAnswer, MessageTellsLatest
<1> QED BY <1>4, <1>5

LEMMA NextSearch == Typed /\ SearchInv /\ [Next]_vars => SearchInv'
<1> SUFFICES ASSUME Typed, SearchInv, [Next]_vars
             PROVE  SearchInv'
  OBVIOUS
<1>1. ASSUME page \in SearchPages, NEW type, Search(type)
      PROVE  SearchInv'
  <2>1. /\ xmlhttp' = xmlhttp + 1 /\ xmlhttp' > 0 /\ readyState'[xmlhttp'] = "opened"
        /\ xmlhttp' # 0
    BY <1>1, NewRequestFacts DEF Search
  <2>2. Options' = {} /\ message' = "loading"
    BY <1>1 DEF Search, Options
  <2> QED BY <2>1, <2>2 DEF SearchInv, ListIsLatestAnswer, MessageTellsLatest, Succeeded
<1>2. ASSUME page = "creator", NEW type, Create(type)
      PROVE  SearchInv'
  <2>1. xmlhttp' > 0 /\ xmlhttp' # 0 /\ page' = "creator"
    BY <1>2, NewRequestFacts DEF Create
  <2> QED BY <2>1 DEF SearchInv, ListIsLatestAnswer, MessageTellsLatest, SearchPages
<1>3. ASSUME NEW r \in Requests, Answered(r)
      PROVE  SearchInv'
  <2>1. /\ xmlhttp \in Requests /\ xmlhttp' = xmlhttp /\ page' = page
        /\ OnReadyStateChange(r)
    BY <1>3, NetworkStep DEF Answered, Typed
  <2>2. CASE page \in SearchPages /\ HandleSearch(r)
    BY <1>3, <2>2, HandledSearch DEF Answered
  <2>3. CASE page = "creator" /\ UNCHANGED listVars
    BY <2>1, <2>3 DEF SearchInv, ListIsLatestAnswer, MessageTellsLatest, SearchPages, Options,
                      Requests, listVars
  <2> QED BY <2>1, <2>2, <2>3 DEF OnReadyStateChange
<1>4. CASE UNCHANGED <<page, hash, requestVars, listVars>>
  BY <1>4 DEF SearchInv, ListIsLatestAnswer, MessageTellsLatest, Options, Succeeded, requestVars, listVars
<1> QED BY <1>1, <1>2, <1>3, <1>4, Steps

(* The list shows the latest search's answer, all of it and nothing else.  *)
THEOREM ListShowsLatestAnswer == Spec => []ListIsLatestAnswer
<1>1. Init => Typed /\ SearchInv
  BY InitTyped, InitSearch
<1>2. Typed /\ SearchInv /\ [Next]_vars => (Typed /\ SearchInv)'
  BY NextTyped, NextSearch
<1>3. SearchInv => ListIsLatestAnswer
  BY DEF SearchInv
<1> QED BY <1>1, <1>2, <1>3, PTL DEF Spec

(* The user is asked to stand by as long as the latest search has no       *)
(* results.                                                                *)
THEOREM MessageFollowsLatest == Spec => []MessageTellsLatest
<1>1. Init => Typed /\ SearchInv
  BY InitTyped, InitSearch
<1>2. Typed /\ SearchInv /\ [Next]_vars => (Typed /\ SearchInv)'
  BY NextTyped, NextSearch
<1>3. SearchInv => MessageTellsLatest
  BY DEF SearchInv
<1> QED BY <1>1, <1>2, <1>3, PTL DEF Spec

(***************************************************************************)
(* The creation page's form.                                               *)
(***************************************************************************)
(* As long as forms were asked for one at a time, the only one that may be *)
(* on its way is the one of the type in the URI.                           *)
OnItsWay == uri \in Types /\ loads[uri] = 1 /\ \A ty \in Types \ {uri} : loads[ty] = 0
FormInv == page = "creator" /\ alone => (NotLoading /\ form = uri) \/ OnItsWay

LEMMA LoadKeepsForm ==
  ASSUME Typed, NEW ty \in Types, Load(ty)
  PROVE  FormInv'
<1>1. SUFFICES ASSUME page = "creator", NotLoading
               PROVE  OnItsWay'
  BY DEF Load, FormInv, uiVars
<1>2. loads' = [loads EXCEPT ![ty] = loads[ty] + 1] /\ uri' = ty
  BY <1>1 DEF Load
<1>3. loads \in [Types -> Nat] /\ \A t \in Types : loads[t] = 0
  BY <1>1 DEF Typed, TypeOK, NotLoading
<1> QED BY <1>2, <1>3 DEF OnItsWay

LEMMA NextForm == Typed /\ FormInv /\ [Next]_vars => FormInv'
<1> SUFFICES ASSUME Typed, FormInv, [Next]_vars
             PROVE  FormInv'
  OBVIOUS
<1>1. CASE Choose \/ Ready
  BY <1>1, LoadKeepsForm, PagesAssumption DEF Choose, Ready
<1>2. ASSUME NEW ty \in Types, FormArrives(ty)
      PROVE  FormInv'
  <2>1. SUFFICES ASSUME page = "creator", alone
                 PROVE  NotLoading' /\ form' = uri'
    BY <1>2 DEF FormArrives, FormInv, uiVars
  <2>2. loads \in [Types -> Nat] /\ loads[ty] > 0 /\ loads' = [loads EXCEPT ![ty] = loads[ty] - 1]
    BY <1>2 DEF FormArrives, Typed, TypeOK
  <2>3. OnItsWay /\ ty = uri
    BY <2>1, <2>2 DEF FormInv, NotLoading, OnItsWay
  <2>4. NotLoading'
    BY <2>2, <2>3 DEF NotLoading, OnItsWay
  <2> QED BY <1>2, <2>3, <2>4 DEF FormArrives
<1>3. ASSUME NEW ty \in Types, FormFails(ty)
      PROVE  FormInv'
  BY <1>3 DEF FormFails, FormInv
<1>4. CASE UNCHANGED <<page, uri, formVars>>
  BY <1>4 DEF FormInv, NotLoading, OnItsWay, formVars
<1>5. CASE BmxSearch \/ TypedSearch \/ Submit
  BY <1>4, <1>5 DEF BmxSearch, TypedSearch, Search, Submit, Create
<1>6. CASE BmxSelect \/ TypedSelect \/ BmxCancel \/ TypedCancel \/ TreeSelect
  BY <1>4, <1>6 DEF BmxSelect, TypedSelect, BmxCancel, TypedCancel, TreeSelect, Select, Cancel
<1>7. CASE CreateTree \/ HandleMessage \/ Navigate
  BY <1>4, <1>7 DEF CreateTree, HandleMessage, Navigate, uiVars
<1>8. ASSUME NEW r \in Requests, Answered(r)
      PROVE  FormInv'
  BY <1>4, <1>8 DEF Answered, Network, Receive, Finish, Fail
<1>9. CASE UNCHANGED vars
  BY <1>4, <1>9 DEF vars, uiVars
<1> QED BY <1>1, <1>2, <1>3, <1>5, <1>6, <1>7, <1>8, <1>9 DEF Next, User

(* A form that was asked for alone, and came, is that of the type in the   *)
(* URI it is posted to.                                                    *)
THEOREM FormAgreesWithUri == Spec => []FormSettles
<1>1. Init => FormInv
  BY DEF Init, UIInit, FormInv, NotLoading
<1>2. Typed /\ FormInv => FormSettles
  BY DEF Typed, TypeOK, FormInv, FormSettles, NotLoading, OnItsWay
<1> QED BY <1>1, <1>2, InitTyped, NextTyped, NextForm, PTL DEF Spec

(***************************************************************************)
(* The contract.                                                           *)
(***************************************************************************)
Successful(r) == Succeeded(r, "ok") \/ Succeeded(r, "created")

(* What is named changes with the answers only.                            *)
LEMMA NamedSame ==
  ASSUME UNCHANGED page,
         \A r \in Requests : Successful(r)' <=> Successful(r),
         \A r \in Requests : Successful(r) => responseText'[r] = responseText[r]
  PROVE  Named' = Named
<1> DEFINE S == {r \in Requests : Successful(r)}
<1>1. Named = {responseText[r] : r \in S} \cup (IF page = "browser" THEN {Resources} ELSE {})
  BY DEF Named, Successful
<1>2. Named' = {responseText'[r] : r \in S'} \cup (IF page = "browser" THEN {Resources} ELSE {})
  BY DEF Named, Successful
<1>3. S' = S
  BY DEF Successful, Succeeded
<1>4. \A r \in S : responseText'[r] = responseText[r]
  OBVIOUS
<1> HIDE DEF S
<1> QED BY <1>1, <1>2, <1>3, <1>4

LEMMA NamedNewRequest ==
  ASSUME Typed, NEW type, NewRequest(type), UNCHANGED page
  PROVE  Named' = Named
<1>1. /\ readyState[xmlhttp + 1] = "unsent" /\ readyState'[xmlhttp + 1] = "opened"
      /\ \A q \in Requests \ {xmlhttp + 1} : readyState'[q] = readyState[q]
      /\ UNCHANGED <<status, responseText>>
  BY NewRequestFacts
<1>2. \A r \in Requests : Successful(r)' <=> Successful(r)
  BY <1>1 DEF Successful, Succeeded
<1> QED BY <1>1, <1>2, NamedSame

(* An answer was not named before; it is named now, or nothing is.         *)
LEMMA NamedAnswer ==
  ASSUME Typed, NEW r \in Requests, Network(r)
  PROVE  Named' = Named \cup (IF Successful(r)' THEN {responseText'[r]} ELSE {})
<1>1. /\ readyState[r] \in {"opened", "receiving"} /\ page' = page
      /\ \A q \in Requests \ {r} :
           /\ readyState'[q] = readyState[q]
           /\ status'[q] = status[q] /\ responseText'[q] = responseText[q]
  BY NetworkStep DEF Typed
<1>2. ~Successful(r) /\ \A q \in Requests \ {r} : Successful(q)' <=> Successful(q)
  BY <1>1 DEF Successful, Succeeded
<1> DEFINE S == {q \in Requests : Successful(q)}
           Tree == IF page = "browser" THEN {Resources} ELSE {}
<1>3. Named = {responseText[q] : q \in S} \cup Tree
  BY DEF Named, Successful
<1>4. Named' = {responseText'[q] : q \in S'} \cup Tree
  BY <1>1 DEF Named, Successful
<1>5. S' = S \cup (IF Successful(r)' THEN {r} ELSE {})
  BY <1>2
<1>6. r \notin S /\ \A q \in S : responseText'[q] = responseText[q]
  BY <1>1, <1>2
<1> HIDE DEF S, Tree
<1>7. CASE Successful(r)'
  <2>1. S' = S \cup {r}
    BY <1>5, <1>7
  <2> QED BY <1>3, <1>4, <1>6, <1>7, <2>1
<1>8. CASE ~Successful(r)'
  <2>1. S' = S
    BY <1>5, <1>8
  <2> QED BY <1>3, <1>4, <1>6, <1>8, <2>1
<1> QED BY <1>7, <1>8

LEMMA NamedNext ==
  ASSUME Typed, [Next]_vars
  PROVE  Named \subseteq Named' /\ (Named' = Named \/ \E r \in Requests : Answered(r))
<1>1. CASE \E type : Search(type) \/ Create(type)
  BY <1>1, NamedNewRequest DEF Search, Create
<1>2. ASSUME NEW r \in Requests, Answered(r)
      PROVE  Named \subseteq Named'
  BY <1>2, NamedAnswer DEF Answered
<1>3. CASE UNCHANGED <<page, hash, requestVars, listVars>>
  BY <1>3, NamedSame DEF Successful, Succeeded, requestVars
<1> QED BY <1>1, <1>2, <1>3, Steps

(* A response names nothing, or some of what one answer named.             *)
From(response, named) == response = {} \/ \E answer \in named : response \subseteq answer
Sourced ==
  /\ \A response \in windowName : From(response, Named)
  /\ \A i \in 1..Len(posted) : From(posted[i], Named)

LEMMA SendSourced ==
  ASSUME Typed, Sourced, NEW response \in SUBSET Resources, SendResponse(response),
         Named \subseteq Named', From(response, Named')
  PROVE  Sourced'
<1>1. \A r : From(r, Named) => From(r, Named')
  BY DEF From
<1>2. posted \in Seq(SUBSET Resources)
  BY DEF Typed, TypeOK
<1>3. CASE RespondWithWindowName(response)
  BY <1>1, <1>3 DEF RespondWithWindowName, Sourced
<1>4. CASE RespondWithPostMessage(response)
  <2>1. \A i \in 1..Len(posted') : posted'[i] = response \/ (i \in 1..Len(posted) /\ posted'[i] = posted[i])
    BY <1>2, <1>4 DEF RespondWithPostMessage
  <2> QED BY <1>1, <1>4, <2>1 DEF RespondWithPostMessage, Sourced
<1>5. CASE UNCHANGED responseVars
  BY <1>1, <1>5 DEF responseVars, Sourced
<1> QED BY <1>3, <1>4, <1>5 DEF SendResponse

LEMMA NextSourced == Typed /\ SearchInv /\ Sourced /\ [Next]_vars => Sourced'
<1> SUFFICES ASSUME Typed, SearchInv, Sourced, [Next]_vars
             PROVE  Sourced'
  OBVIOUS
<1>1. Named \subseteq Named'
  BY NamedNext
<1>2. CASE UNCHANGED <<windowName, posted>>
  BY <1>1, <1>2 DEF Sourced, From
<1>3. CASE BmxSearch \/ TypedSearch \/ Submit
  BY <1>2, <1>3 DEF BmxSearch, TypedSearch, Search, Submit, Create, responseVars
<1>4. CASE BmxSelect \/ TypedSelect
  <2>1. PICK selected \in SUBSET Options : selected # {} /\ SendResponse(selected)
    BY <1>4 DEF BmxSelect, TypedSelect, Select
  <2>2. page \in SearchPages /\ Options # {}
    BY <1>4, <2>1 DEF BmxSelect, TypedSelect, SearchPages
  <2>3. xmlhttp \in Requests /\ xmlhttp > 0
    BY <2>2 DEF SearchInv, Typed, TypeOK, Requests
  <2>4. Succeeded(xmlhttp, "ok") /\ Options = responseText[xmlhttp]
    BY <2>2, <2>3 DEF SearchInv, ListIsLatestAnswer
  <2>5. Options \in Named
    BY <2>3, <2>4 DEF Named
  <2>6. selected \in SUBSET Resources
    BY DEF Options
  <2> QED BY <1>1, <2>1, <2>5, <2>6, SendSourced DEF From
<1>5. CASE BmxCancel \/ TypedCancel
  <2>1. SendResponse({})
    BY <1>5 DEF BmxCancel, TypedCancel, Cancel
  <2> QED BY <1>1, <2>1, SendSourced DEF From
<1>6. CASE TreeSelect
  <2>1. PICK selected \in SUBSET Resources : SendResponse(selected)
    BY <1>6 DEF TreeSelect
  <2>2. Resources \in Named
    BY <1>6 DEF TreeSelect, Named
  <2> QED BY <1>1, <2>1, <2>2, SendSourced DEF From
<1>7. CASE Choose \/ Ready \/ CreateTree \/ \E ty \in Types : FormArrives(ty) \/ FormFails(ty)
  BY <1>2, <1>7 DEF Choose, Ready, Load, CreateTree, FormArrives, FormFails, uiVars, responseVars
<1>8. ASSUME NEW r \in Requests, Answered(r)
      PROVE  Sourced'
  <2>1. /\ xmlhttp \in Requests /\ UNCHANGED <<page, xmlhttp>> /\ OnReadyStateChange(r)
        /\ responseText' \in [Requests -> SUBSET Resources]
    BY <1>8, NetworkStep DEF Answered, Typed
  <2>2. CASE UNCHANGED responseVars
    BY <1>2, <2>2 DEF responseVars
  <2>3. CASE HandleCreate(r) /\ Succeeds(xmlhttp, "created")
    <3>1. SendResponse(responseText'[xmlhttp])
      BY <2>3 DEF HandleCreate, Inspected
    <3>2. responseText'[xmlhttp] \in Named'
      BY <2>1, <2>3 DEF Named, Succeeds, Succeeded
    <3> QED BY <1>1, <2>1, <3>1, <3>2, SendSourced DEF From
  <2>4. CASE HandleCreate(r) /\ ~Succeeds(xmlhttp, "created")
    BY <2>2, <2>4 DEF HandleCreate, Inspected
  <2> QED BY <2>1, <2>2, <2>3, <2>4 DEF OnReadyStateChange
<1>9. CASE HandleMessage
  <2>1. posted \in Seq(SUBSET Resources) /\ posted # << >> /\ posted' = Tail(posted) /\ UNCHANGED windowName
    BY <1>9 DEF HandleMessage, Typed, TypeOK
  <2>2. \A i \in 1..Len(posted') : i + 1 \in 1..Len(posted) /\ posted'[i] = posted[i + 1]
    BY <2>1
  <2> QED BY <1>1, <2>1, <2>2 DEF Sourced, From
<1>10. CASE Navigate
  BY <1>2, <1>10 DEF Navigate
<1>11. CASE UNCHANGED vars
  BY <1>2, <1>11 DEF vars, uiVars, responseVars
<1> QED BY <1>3, <1>4, <1>5, <1>6, <1>7, <1>8, <1>9, <1>10, <1>11 DEF Next, User

(* A response that reaches the application is a step of the contract.      *)
LEMMA LinkedStep ==
  ASSUME NEW response, From(response, Named), Named' = Named, links' = Linked(response)
  PROVE  [Contract!Next]_<<Named, links>>
<1>1. CASE response = {}
  BY <1>1 DEF Linked, Contract!Next, Contract!Cancelled
<1>2. ASSUME NEW answer \in Named, response \in SUBSET answer
      PROVE  [Contract!Next]_<<Named, links>>
  <2>1. links' \in {response, links \cup response}
    BY DEF Linked
  <2>2. Contract!Link
    BY <1>2, <2>1 DEF Contract!Link
  <2> QED BY <2>2 DEF Contract!Next
<1> QED BY <1>1, <1>2 DEF From

LEMMA ContractNext ==
  ASSUME Typed, Sourced, [Next]_vars
  PROVE  [Contract!Next]_<<Named, links>>
<1>1. ASSUME NEW r \in Requests, Answered(r)
      PROVE  [Contract!Next]_<<Named, links>>
  <2>1. /\ responseText'[r] \in SUBSET Resources /\ UNCHANGED links
        /\ Named' = Named \cup (IF Successful(r)' THEN {responseText'[r]} ELSE {})
    BY <1>1, NetworkStep, NamedAnswer DEF Answered, Typed
  <2>2. CASE Successful(r)'
    BY <2>1, <2>2 DEF Contract!Next, Contract!Name
  <2>3. CASE ~Successful(r)'
    BY <2>1, <2>3
  <2> QED BY <2>2, <2>3
<1>2. CASE HandleMessage
  <2>1. Named' = Named
    BY <1>2, NamedSame DEF HandleMessage, requestVars, Successful, Succeeded
  <2>2. posted \in Seq(SUBSET Resources) /\ posted # << >> /\ links' = Linked(Head(posted))
    BY <1>2 DEF HandleMessage, Typed, TypeOK
  <2>3. 1 \in 1..Len(posted) /\ Head(posted) = posted[1]
    BY <2>2
  <2>4. From(Head(posted), Named)
    BY <2>3 DEF Sourced
  <2> QED BY <2>1, <2>2, <2>4, LinkedStep
<1>3. CASE Navigate
  <2>1. Named' = Named
    BY <1>3, NamedSame DEF Navigate, requestVars, Successful, Succeeded
  <2>2. PICK response \in windowName : links' = Linked(response) \/ UNCHANGED links
    BY <1>3 DEF Navigate
  <2>3. From(response, Named)
    BY DEF Sourced
  <2> QED BY <2>1, <2>2, <2>3, LinkedStep
<1>4. CASE UNCHANGED links
  BY <1>1, <1>4, NamedNext
<1>5. CASE BmxSearch \/ TypedSearch \/ Submit \/ BmxSelect \/ TypedSelect \/ BmxCancel \/ TypedCancel
           \/ TreeSelect
  BY <1>4, <1>5 DEF BmxSearch, TypedSearch, Submit, BmxSelect, TypedSelect, BmxCancel, TypedCancel, TreeSelect
<1>6. CASE Choose \/ Ready \/ CreateTree \/ \E ty \in Types : FormArrives(ty) \/ FormFails(ty)
  BY <1>4, <1>6 DEF Choose, Ready, Load, CreateTree, FormArrives, FormFails
<1>7. CASE UNCHANGED vars
  BY <1>4, <1>7 DEF vars
<1> QED BY <1>1, <1>2, <1>3, <1>5, <1>6, <1>7 DEF Next, User

LEMMA ContractInit == Init => Contract!Init
<1> SUFFICES ASSUME Init PROVE Contract!Init
  OBVIOUS
<1>1. \A r \in Requests : ~Succeeded(r, "ok") /\ ~Succeeded(r, "created")
  BY DEF Init, UIInit, Succeeded
<1>2. Named = IF page = "browser" THEN {Resources} ELSE {}
  BY <1>1 DEF Named
<1> QED BY <1>2 DEF Contract!Init, Init

(* The dialogs keep their contract: what one response names comes from one *)
(* answer of the adaptor.                                                  *)
THEOREM DialogContractKept == Spec => KeepsDialogContract
<1> DEFINE Inv == Typed /\ SearchInv /\ Sourced
<1>1. Init => Inv
  BY InitTyped, InitSearch DEF Init, UIInit, Sourced, From
<1>2. Inv /\ [Next]_vars => Inv'
  BY NextTyped, NextSearch, NextSourced
<1>3. Inv /\ [Next]_vars => [Contract!Next]_<<Named, links>>
  BY ContractNext
<1> QED BY <1>1, <1>2, <1>3, ContractInit, PTL DEF Spec, KeepsDialogContract, Contract!Spec

(***************************************************************************)
(* Creations.                                                              *)
(***************************************************************************)
(* The two protocols' parts of LatestCreationReported; that of the window  *)
(* name protocol says besides that before the answer nothing is sent.      *)
PostedLatest ==
  page = "creator" /\ hash = "postMessage" /\ xmlhttp > 0 /\ Succeeded(xmlhttp, "created") =>
    \A x \in responseText[xmlhttp] : x \in links \/ \E i \in DOMAIN posted : x \in posted[i]

Returned ==
  IF open THEN href = "returnURL" /\ windowName = {responseText[1]} ELSE responseText[1] \subseteq links

ReturnedFirst ==
  page = "creator" /\ hash = "windowName" /\ xmlhttp <= 1 =>
    IF xmlhttp = 1 /\ Succeeded(1, "created") THEN Returned ELSE windowName = {} /\ href = "dialog"

LEMMA NextPosted == Typed /\ PostedLatest /\ [Next]_vars => PostedLatest'
<1> SUFFICES ASSUME Typed, PostedLatest, [Next]_vars, page' = "creator", hash' = "postMessage",
                    xmlhttp' > 0, Succeeded(xmlhttp, "created")'
             PROVE  \A x \in responseText'[xmlhttp'] :
                      x \in links' \/ \E i \in DOMAIN posted' : x \in posted'[i]
  BY DEF PostedLatest
<1>1. ASSUME NEW type, Search(type) \/ Create(type)
      PROVE  FALSE
  BY <1>1, NewRequestFacts DEF Search, Create, Succeeded
<1>2. CASE UNCHANGED <<page, hash, requestVars, posted, links>>
  BY <1>2 DEF PostedLatest, Succeeded, requestVars
<1>3. ASSUME NEW r \in Requests, Answered(r)
      PROVE  \A x \in responseText'[xmlhttp'] :
               x \in links' \/ \E i \in DOMAIN posted' : x \in posted'[i]
  <2>1. UNCHANGED <<page, hash, xmlhttp>> /\ OnReadyStateChange(r)
    BY <1>3, NetworkStep DEF Answered, Typed
  <2>2. HandleCreate(r) /\ Succeeds(xmlhttp, "created")
    BY <2>1 DEF OnReadyStateChange, SearchPages, Succeeds, Succeeded
  <2>3. SendResponse(responseText'[xmlhttp])
    BY <2>2 DEF HandleCreate, Inspected
  <2>4. posted \in Seq(SUBSET Resources)
    BY DEF Typed, TypeOK
  <2>5. posted' = Append(posted, responseText'[xmlhttp])
    BY <2>1, <2>3 DEF SendResponse, RespondWithPostMessage
  <2>6. Len(posted) + 1 \in DOMAIN posted' /\ posted'[Len(posted) + 1] = responseText'[xmlhttp]
    BY <2>4, <2>5
  <2> QED BY <2>1, <2>6
<1>4. CASE HandleMessage
  <2>1. /\ posted \in Seq(SUBSET Resources) /\ posted # << >> /\ posted' = Tail(posted)
        /\ UNCHANGED <<page, hash, requestVars>>
        /\ links' = Linked(Head(posted))
    BY <1>4 DEF HandleMessage, Typed, TypeOK
  <2>2. links' = links \cup posted[1]
    BY <2>1 DEF Linked
  <2>3. \A i \in DOMAIN posted : i = 1 \/ (i - 1 \in DOMAIN posted' /\ posted'[i - 1] = posted[i])
    BY <2>1
  <2>4. Succeeded(xmlhttp, "created") /\ xmlhttp > 0 /\ page = "creator"
    BY <2>1 DEF Succeeded, requestVars
  <2>5. \A x \in responseText[xmlhttp] : x \in links \/ \E i \in DOMAIN posted : x \in posted[i]
    BY <2>1, <2>4 DEF PostedLatest
  <2> QED BY <2>1, <2>2, <2>3, <2>5, ZenonT(60) DEF requestVars
<1>5. CASE Navigate
  <2>1. /\ UNCHANGED <<page, hash, requestVars, posted>>
        /\ links \subseteq links'
    BY <1>5 DEF Navigate, Linked
  <2> QED BY <2>1 DEF PostedLatest, Succeeded, requestVars
<1>6. CASE BmxSearch \/ TypedSearch \/ Submit
  BY <1>1, <1>6 DEF BmxSearch, TypedSearch, Submit
<1>7. CASE BmxSelect \/ TypedSelect \/ BmxCancel \/ TypedCancel \/ TreeSelect
  BY <1>7 DEF BmxSelect, TypedSelect, BmxCancel, TypedCancel, TreeSelect, Select, Cancel
<1>8. CASE Choose \/ Ready \/ CreateTree \/ \E ty \in Types : FormArrives(ty) \/ FormFails(ty)
  BY <1>2, <1>8 DEF Choose, Ready, Load, CreateTree, FormArrives, FormFails, uiVars, responseVars
<1>9. CASE UNCHANGED vars
  BY <1>2, <1>9 DEF vars, uiVars, responseVars
<1> QED BY <1>3, <1>4, <1>5, <1>6, <1>7, <1>8, <1>9 DEF Next, User

LEMMA NextReturned == Typed /\ ReturnedFirst /\ [Next]_vars => ReturnedFirst'
<1> SUFFICES ASSUME Typed, ReturnedFirst, [Next]_vars, page' = "creator", hash' = "windowName", xmlhttp' <= 1
             PROVE  IF xmlhttp' = 1 /\ Succeeded(1, "created")' THEN Returned'
                    ELSE windowName' = {} /\ href' = "dialog"
  BY DEF ReturnedFirst
<1>1. CASE UNCHANGED <<page, hash, requestVars, windowName, href, open, links>>
  BY <1>1 DEF ReturnedFirst, Returned, Succeeded, requestVars
<1>2. ASSUME NEW r \in Requests, Answered(r)
      PROVE  IF xmlhttp' = 1 /\ Succeeded(1, "created")' THEN Returned'
             ELSE windowName' = {} /\ href' = "dialog"
  <2>1. /\ UNCHANGED <<page, hash, xmlhttp, open>> /\ OnReadyStateChange(r) /\ open
        /\ xmlhttp \in Requests /\ r <= xmlhttp /\ readyState[r] \in {"opened", "receiving"}
    BY <1>2, NetworkStep DEF Answered, Typed
  <2>2. xmlhttp = 1 /\ r = 1
    BY <2>1, ConstantsAssumption DEF Requests
  <2>3. windowName = {} /\ href = "dialog"
    BY <2>1, <2>2 DEF ReturnedFirst, Succeeded
  <2>4. HandleCreate(r)
    BY <2>1 DEF OnReadyStateChange, SearchPages
  <2>5. CASE Succeeded(1, "created")'
    <3>1. SendResponse(responseText'[1])
      BY <2>2, <2>4, <2>5 DEF HandleCreate, Inspected, Succeeds, Succeeded
    <3>2. href' = "returnURL" /\ windowName' = {responseText'[1]}
      BY <2>1, <2>3, <3>1 DEF SendResponse, RespondWithWindowName
    <3> QED BY <2>1, <2>2, <2>5, <3>2 DEF Returned
  <2>6. CASE ~Succeeded(1, "created")'
    BY <2>2, <2>3, <2>4, <2>6 DEF HandleCreate, Inspected, Succeeds, Succeeded, responseVars
  <2> QED BY <2>5, <2>6
<1>3. CASE Submit
  <2>1. /\ xmlhttp' = xmlhttp + 1 /\ readyState'[xmlhttp + 1] = "opened"
        /\ UNCHANGED <<page, hash, windowName, href, open>>
    BY <1>3, NewRequestFacts DEF Submit, Create, responseVars
  <2>2. xmlhttp = 0
    BY <2>1 DEF Typed, TypeOK
  <2> QED BY <2>1, <2>2 DEF ReturnedFirst, Succeeded
<1>4. CASE HandleMessage
  <2>1. open /\ UNCHANGED <<page, hash, requestVars, windowName, href, open>>
    BY <1>4 DEF HandleMessage
  <2> QED BY <2>1 DEF ReturnedFirst, Returned, Succeeded, requestVars
<1>5. CASE Navigate
  <2>1. open /\ href # "dialog" /\ UNCHANGED <<page, hash, requestVars, windowName>>
    BY <1>5 DEF Navigate
  <2>2. xmlhttp = 1 /\ Succeeded(1, "created") /\ href = "returnURL" /\ windowName = {responseText[1]}
    BY <2>1 DEF ReturnedFirst, Returned, requestVars
  <2>3. open' = FALSE /\ links' = links \cup responseText[1]
    BY <1>5, <2>1, <2>2 DEF Navigate, Linked, requestVars
  <2> QED BY <2>1, <2>2, <2>3 DEF Returned, Succeeded, requestVars
<1>6. CASE BmxSearch \/ TypedSearch \/ BmxSelect \/ TypedSelect \/ BmxCancel \/ TypedCancel \/ TreeSelect
  <2>1. page' = page /\ page # "creator"
    BY <1>6 DEF BmxSearch, TypedSearch, BmxSelect, TypedSelect, BmxCancel, TypedCancel, TreeSelect,
                Search, Select, Cancel
  <2> QED BY <2>1
<1>7. CASE Choose \/ Ready \/ CreateTree \/ \E ty \in Types : FormArrives(ty) \/ FormFails(ty)
  BY <1>1, <1>7 DEF Choose, Ready, Load, CreateTree, FormArrives, FormFails, uiVars, responseVars
<1>8. CASE UNCHANGED vars
  BY <1>1, <1>8 DEF vars, uiVars, responseVars
<1> QED BY <1>2, <1>3, <1>4, <1>5, <1>6, <1>7, <1>8 DEF Next, User

(* What the latest submission created is sent to the embedding application *)
(* whichever answers come after it; with window names, what the first and  *)
(* only submission created takes the dialog to its return URL.             *)
THEOREM LatestCreationIsReported == Spec => []LatestCreationReported
<1> DEFINE Inv == Typed /\ PostedLatest /\ ReturnedFirst
<1>1. Init => Inv
  BY InitTyped DEF Init, UIInit, PostedLatest, ReturnedFirst
<1>2. Inv /\ [Next]_vars => Inv'
  BY NextTyped, NextPosted, NextReturned
<1>3. Inv => LatestCreationReported
  <2> SUFFICES ASSUME Inv PROVE LatestCreationReported
    OBVIOUS
  <2>1. PostedLatest /\ ReturnedFirst
    OBVIOUS
  <2> QED BY <2>1 DEF LatestCreationReported, PostedLatest, ReturnedFirst, Returned
<1> QED BY <1>1, <1>2, <1>3, PTL DEF Spec

(* A resource in a message or among the links stays there: messages move   *)
(* to the links, and the creation page's application drops none.           *)
Told(x) == x \in links \/ \E i \in DOMAIN posted : x \in posted[i]

LEMMA ToldStays ==
  ASSUME Typed, [Next]_vars, page = "creator", NEW x, Told(x)
  PROVE  Told(x)'
<1>1. ASSUME UNCHANGED <<posted, links>> PROVE Told(x)'
  BY <1>1 DEF Told
<1>2. ASSUME NEW r \in Requests, Answered(r) PROVE Told(x)'
  <2>1. links' = links /\ OnReadyStateChange(r)
    BY <1>2, NetworkStep DEF Answered, Typed
  <2>2. posted' = posted \/ \E response : posted' = Append(posted, response)
    BY <2>1 DEF OnReadyStateChange, HandleCreate, responseVars, SendResponse,
                RespondWithWindowName, RespondWithPostMessage
  <2>3. posted \in Seq(SUBSET Resources)
    BY DEF Typed, TypeOK
  <2>4. \A i \in DOMAIN posted : i \in DOMAIN posted' /\ posted'[i] = posted[i]
    BY <2>2, <2>3
  <2>. QED
    BY <2>1, <2>4 DEF Told
<1>3. CASE HandleMessage
  <2>1. posted \in Seq(SUBSET Resources) /\ posted # << >> /\ posted' = Tail(posted)
    BY <1>3 DEF HandleMessage, Typed, TypeOK
  <2>2. links' = links \cup posted[1]
    BY <1>3, <2>1 DEF HandleMessage, Linked
  <2>3. \A i \in DOMAIN posted : i = 1 \/ (i - 1 \in DOMAIN posted' /\ posted'[i - 1] = posted[i])
    BY <2>1
  <2>. QED
    BY <2>2, <2>3 DEF Told
<1>4. CASE Navigate
  BY <1>4 DEF Navigate, Linked, Told
<1>5. CASE BmxSearch \/ TypedSearch \/ Submit
  BY <1>1, <1>5 DEF BmxSearch, TypedSearch, Submit, Search, Create, responseVars
<1>6. CASE BmxSelect \/ TypedSelect \/ BmxCancel \/ TypedCancel \/ TreeSelect
  BY <1>6 DEF BmxSelect, TypedSelect, BmxCancel, TypedCancel, TreeSelect
<1>7. CASE Choose \/ Ready \/ CreateTree \/ \E ty \in Types : FormArrives(ty) \/ FormFails(ty)
  BY <1>1, <1>7 DEF Choose, Ready, Load, CreateTree, FormArrives, FormFails, uiVars, responseVars
<1>8. CASE UNCHANGED vars
  BY <1>1, <1>8 DEF vars, uiVars, responseVars
<1>. QED
  BY <1>2, <1>3, <1>4, <1>5, <1>6, <1>7, <1>8 DEF Next, User

(* The user submits nothing before the submission before has been answered.*)
OneSubmission == \A r \in 1..(xmlhttp - 1) : readyState[r] = "done"

LEMMA NextCreations ==
  Typed /\ OneSubmission /\ CreationsReported /\ [Next]_vars => CreationsReported'
<1>. SUFFICES ASSUME Typed, OneSubmission, CreationsReported, [Next]_vars,
                     page' = "creator", hash' = "postMessage",
                     NEW r \in Requests, Succeeded(r, "created")', NEW x \in responseText'[r]
              PROVE  Told(x)'
  BY DEF CreationsReported, Told
<1>1. page = "creator" /\ hash = "postMessage"
  <2>1. ASSUME NEW q \in Requests, Answered(q) PROVE page' = page /\ hash' = hash
    BY <2>1, NetworkStep DEF Answered, Typed
  <2>. QED
    BY <2>1, Steps DEF Search, Create
<1>2. CASE Succeeded(r, "created") /\ x \in responseText[r]
  <2>1. Told(x)
    BY <1>1, <1>2 DEF CreationsReported, Told
  <2>. QED
    BY <1>1, <2>1, ToldStays
<1>3. CASE ~(Succeeded(r, "created") /\ x \in responseText[r])
  <2>1. PICK q \in Requests : Answered(q)
    <3>1. ASSUME NEW type, Search(type) \/ Create(type) PROVE FALSE
      <4>1. NewRequest(type)
        BY <3>1 DEF Search, Create
      <4>2. /\ readyState'[xmlhttp + 1] = "opened"
            /\ \A q \in Requests \ {xmlhttp + 1} : readyState'[q] = readyState[q]
            /\ UNCHANGED <<status, responseText>>
        BY <4>1, NewRequestFacts
      <4>. QED
        BY <1>3, <4>2 DEF Succeeded
    <3>2. ASSUME UNCHANGED <<page, hash, requestVars, listVars>> PROVE FALSE
      BY <1>3, <3>2 DEF Succeeded, requestVars
    <3>. QED
      BY <3>1, <3>2, Steps
  <2>2. /\ xmlhttp \in Requests /\ q <= xmlhttp /\ readyState[q] \in {"opened", "receiving"}
        /\ \A u \in Requests \ {q} :
              /\ readyState'[u] = readyState[u]
              /\ status'[u] = status[u] /\ responseText'[u] = responseText[u]
        /\ OnReadyStateChange(q) /\ UNCHANGED xmlhttp
    BY <2>1, NetworkStep DEF Answered, Typed
  <2>3. r = q
    BY <1>3, <2>2 DEF Succeeded
  <2>4. q = xmlhttp
    BY <2>2, ConstantsAssumption DEF OneSubmission, Requests
  <2>5. HandleCreate(q) /\ Succeeds(xmlhttp, "created")
    BY <1>1, <2>2, <2>3, <2>4 DEF OnReadyStateChange, SearchPages, Succeeds, Succeeded
  <2>6. SendResponse(responseText'[xmlhttp])
    BY <2>5 DEF HandleCreate, Inspected
  <2>7. posted' = Append(posted, responseText'[r]) /\ posted \in Seq(SUBSET Resources)
    BY <1>1, <2>3, <2>4, <2>6 DEF SendResponse, RespondWithPostMessage, Typed, TypeOK
  <2>8. Len(posted) + 1 \in DOMAIN posted' /\ posted'[Len(posted) + 1] = responseText'[r]
    BY <2>7
  <2>. QED
    BY <2>8 DEF Told
<1>. QED
  BY <1>2, <1>3

(* A user who waits for each answer loses no creation: the run that finds  *)
(* one unreported needs two submissions at a time.                         *)
THEOREM CreationsAreReported == Spec /\ []OneSubmission => []CreationsReported
<1>1. Init => CreationsReported
  BY DEF Init, UIInit, CreationsReported, Succeeded
<1>. QED
  BY <1>1, InitTyped, NextTyped, NextCreations, PTL DEF Spec
=============================================================================
