----------------------------- MODULE DelegatedUI -----------------------------
(***************************************************************************)
(* delegatedUI.js, the script of the adaptor's OSLC dialogs: it searches   *)
(* or creates resources with XMLHttpRequests and sends what was selected   *)
(* or created to the application that embeds the dialog.  xmlhttp is a     *)
(* global variable.  Each search and each creation makes a new request and *)
(* leaves the earlier ones running, and the event handler of every request *)
(* inspects whatever request the variable holds when the event comes.      *)
(* A browser runs one handler at a time, so each is an action.             *)
(***************************************************************************)
EXTENDS Naturals, Sequences

CONSTANTS
  Resources,    \* the resources a dialog may name
  Types,        \* the resource types it searches for and creates
  Pages,        \* the pages that are opened, see DialogPages
  Protocols,    \* the OSLC protocols they are opened with
  NULL,         \* a URI that is not there
  MaxRequests,  \* bound on the requests of a page
  MaxPosted     \* bound on the responses that wait for the embedding application

ASSUME ConstantsAssumption ==
  /\ Pages \subseteq {"bmx", "iotp", "creator", "browser"}
  /\ Protocols \subseteq {"windowName", "postMessage", "other"}
  /\ MaxRequests \in Nat /\ MaxPosted \in Nat
  /\ NULL \notin Types

VARIABLES
  page,        \* the page the script runs in
  hash,        \* window.location.hash: the protocol
  xmlhttp,     \* the global variable: the number of the latest request, or 0
  readyState,  \* of each request, where "receiving" stands for the states 2 and 3
  status,      \* of each request: 200 and 201 are "ok" and "created"
  responseText,\* of each request: the resources its answer names
  asked,       \* the resource type each request's URI asks for, or NULL
  list,        \* how often each resource is an option of the select element
  message,     \* which of searchMessage and loadingMessage is displayed
  windowName,  \* the response in window.name; {} while it is the return URL
  href,        \* where window.location.href makes the browser go
  open,        \* the browser has not left the dialog
  posted       \* responses posted to the embedding window and not yet handled

requestVars  == <<xmlhttp, readyState, status, responseText, asked>>
listVars     == <<list, message>>
responseVars == <<windowName, href, posted>>
uiVars == <<page, hash, requestVars, listVars, responseVars, open>>

Requests == 1..MaxRequests
SearchPages == {"bmx", "iotp"}

UIInit ==
  /\ page \in Pages /\ hash \in Protocols
  /\ xmlhttp = 0
  /\ readyState = [r \in Requests |-> "unsent"]
  /\ status = [r \in Requests |-> "none"]
  /\ responseText = [r \in Requests |-> {}]
  /\ asked = [r \in Requests |-> NULL]
  /\ list = [x \in Resources |-> 0]
  /\ message = "search"
  /\ windowName = {} /\ href = "dialog" /\ open = TRUE
  /\ posted = << >>

(***************************************************************************)
(* Sending a response.                                                     *)
(***************************************************************************)
(* The return URL is what window.name holds: a second response takes the   *)
(* first one for it.                                                       *)
RespondWithWindowName(response) ==
  /\ href' = IF windowName = {} THEN "returnURL" ELSE "response"
  /\ windowName' = {response}
  /\ UNCHANGED posted

RespondWithPostMessage(response) ==
  /\ posted' = Append(posted, response)
  /\ UNCHANGED <<windowName, href>>

(* sendResponse and sendRawResponse; without a protocol nothing is sent.   *)
SendResponse(response) ==
  \/ hash = "windowName" /\ RespondWithWindowName(response)
  \/ hash = "postMessage" /\ RespondWithPostMessage(response)
  \/ hash = "other" /\ UNCHANGED responseVars

(***************************************************************************)
(* Requests.                                                               *)
(***************************************************************************)
NewRequest(type) ==
  /\ xmlhttp < MaxRequests
  /\ xmlhttp' = xmlhttp + 1
  /\ readyState' = [readyState EXCEPT ![xmlhttp + 1] = "opened"]
  /\ asked' = [asked EXCEPT ![xmlhttp + 1] = type]
  /\ UNCHANGED <<status, responseText>>

(* Mutant: the options of the last search are kept.                        *)
Search_KeepsOptions(type) ==
  /\ open
  /\ NewRequest(type)
  /\ message' = "loading"
  /\ UNCHANGED <<page, hash, list, responseVars, open>>

Search(type) ==
  /\ open
  /\ NewRequest(type)
  /\ list' = [x \in Resources |-> 0]
  /\ message' = "loading"
  /\ UNCHANGED <<page, hash, responseVars, open>>

Create(type) ==
  /\ open
  /\ NewRequest(type)
  /\ UNCHANGED <<page, hash, listVars, responseVars, open>>

(* Mutant: a handler inspects its own request.                             *)
Inspected_Own(r) == r

(* The request that the handler of request r inspects.                     *)
Inspected(r) == xmlhttp

Succeeded(r, code) == readyState[r] = "done" /\ status[r] = code
Succeeds(r, code) == readyState'[r] = "done" /\ status'[r] = code

(* Mutant: the handler does not wait for the end of the answer.            *)
HandleSearch_Early(r) ==
  LET q == Inspected(r) IN
  IF status'[q] = "ok"
  THEN /\ list' = [x \in Resources |-> IF x \in responseText'[q] THEN list[x] + 1 ELSE list[x]]
       /\ message' = "search"
  ELSE UNCHANGED listVars

(* Mutant: the message is left as it is.                                   *)
HandleSearch_NoMessage(r) ==
  LET q == Inspected(r) IN
  IF Succeeds(q, "ok")
  THEN /\ list' = [x \in Resources |-> IF x \in responseText'[q] THEN list[x] + 1 ELSE list[x]]
       /\ UNCHANGED message
  ELSE UNCHANGED listVars

(* onreadystatechange of a search: adds the options, does not replace them *)
HandleSearch(r) ==
  LET q == Inspected(r) IN
  IF Succeeds(q, "ok")
  THEN /\ list' = [x \in Resources |-> IF x \in responseText'[q] THEN list[x] + 1 ELSE list[x]]
       /\ message' = "search"
  ELSE UNCHANGED listVars

(* Mutant: the handler looks for the status of a search.                   *)
HandleCreate_Ok(r) ==
  LET q == Inspected(r) IN
  IF Succeeds(q, "ok")
  THEN SendResponse(responseText'[q])
  ELSE UNCHANGED responseVars

(* onreadystatechange of a creation.                                       *)
HandleCreate(r) ==
  LET q == Inspected(r) IN
  IF Succeeds(q, "created")
  THEN SendResponse(responseText'[q])
  ELSE UNCHANGED responseVars

OnReadyStateChange(r) ==
  \/ page \in SearchPages /\ HandleSearch(r) /\ UNCHANGED responseVars
  \/ page = "creator" /\ HandleCreate(r) /\ UNCHANGED listVars

(* What the adaptor may answer: a search finds any of the resources, a     *)
(* creation makes one that was not there.  "refused" is every answer no    *)
(* handler has a branch for: another status, or text JSON.parse throws on. *)
Codes(r) ==
  {"refused"} \cup (IF asked[r] = NULL THEN {}
                    ELSE IF page = "creator" THEN {"created"} ELSE {"ok"})

Answers(code) ==
  IF code = "ok" THEN SUBSET Resources
  ELSE IF code = "created"
       THEN {{x} : x \in {y \in Resources : \A r \in Requests : y \notin responseText[r]}}
       ELSE {{}}

Receive(r) ==
  /\ open /\ readyState[r] = "opened"
  /\ readyState' = [readyState EXCEPT ![r] = "receiving"]
  /\ \E code \in Codes(r) : \E answer \in Answers(code) :
       /\ status' = [status EXCEPT ![r] = code]
       /\ responseText' = [responseText EXCEPT ![r] = answer]
  /\ OnReadyStateChange(r)
  /\ UNCHANGED <<page, hash, xmlhttp, asked, open>>

Finish(r) ==
  /\ open /\ readyState[r] = "receiving"
  /\ readyState' = [readyState EXCEPT ![r] = "done"]
  /\ UNCHANGED <<status, responseText>>
  /\ OnReadyStateChange(r)
  /\ UNCHANGED <<page, hash, xmlhttp, asked, open>>

(* A request that fails ends in state 4 with status 0 and no text.         *)
Fail(r) ==
  /\ open /\ readyState[r] \in {"opened", "receiving"}
  /\ readyState' = [readyState EXCEPT ![r] = "done"]
  /\ status' = [status EXCEPT ![r] = "none"]
  /\ responseText' = [responseText EXCEPT ![r] = {}]
  /\ OnReadyStateChange(r)
  /\ UNCHANGED <<page, hash, xmlhttp, asked, open>>

Network(r) == Receive(r) \/ Finish(r) \/ Fail(r)

(***************************************************************************)
(* The dialog's buttons.                                                   *)
(***************************************************************************)
Options == {x \in Resources : list[x] > 0}

(* OK: the options the user has selected by then, if any.                  *)
Select ==
  /\ open /\ Len(posted) < MaxPosted
  /\ \E selected \in SUBSET Options : selected # {} /\ SendResponse(selected)
  /\ UNCHANGED <<page, hash, requestVars, listVars, open>>

Cancel ==
  /\ open /\ Len(posted) < MaxPosted
  /\ SendResponse({})
  /\ UNCHANGED <<page, hash, requestVars, listVars, open>>
=============================================================================
