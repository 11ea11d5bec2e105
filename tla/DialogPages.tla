----------------------------- MODULE DialogPages -----------------------------
(***************************************************************************)
(* The pages of the adaptor's dialogs with their scripts, and the          *)
(* applications that embed them:                                           *)
(*   "bmx"      bmxselectiondialogselector.jsp, delegatedUI.js             *)
(*   "iotp"     iotpselectiondialogselector.jsp, delegatedUItyped.js       *)
(*   "creator"  iotpcreationdialogcreator.jsp, delegatedUI.js              *)
(*   "browser"  the tree of delegatedIotBrowserUI.js                       *)
(* delegatedUItyped.js is delegatedUI.js but for the separator before the  *)
(* search terms, as the URIs of its page have a query already.             *)
(***************************************************************************)
EXTENDS DelegatedUI

CONSTANTS
  FirstType,  \* the type a page selects as it becomes ready
  MaxLoads    \* bound on the forms of one type that are being loaded

ASSUME PagesAssumption == FirstType \in Types /\ MaxLoads \in Nat \ {0}

VARIABLES
  uri,    \* the type in selectionUri or creatorUri; NULL while it is {}
  form,   \* the type whose form the creation page shows, or NULL
  loads,  \* how many forms of each type are being loaded
  alone,  \* history: the last form was asked for while no other was, and came
  tree,   \* the browser page's tree has been created
  links   \* the resources the embedding application has linked to

formVars == <<form, loads, alone>>
vars == <<uiVars, uri, formVars, tree, links>>

TypedPages == {"iotp", "creator"}

Init ==
  /\ UIInit
  /\ uri = IF page = "bmx" THEN FirstType ELSE NULL
  /\ form = NULL /\ loads = [ty \in Types |-> 0] /\ alone = TRUE
  /\ tree = FALSE
  /\ links = {}

NotLoading == \A ty \in Types : loads[ty] = 0

(***************************************************************************)
(* The type of the resource.                                               *)
(***************************************************************************)
(* Mutant: the type is changed when its form has come.                     *)
Load_KeepsUri(ty) ==
  /\ UNCHANGED uri
  /\ IF page = "creator"
     THEN /\ loads[ty] < MaxLoads
          /\ loads' = [loads EXCEPT ![ty] = @ + 1]
          /\ alone' = NotLoading
     ELSE UNCHANGED <<loads, alone>>
  /\ UNCHANGED <<uiVars, form, tree, links>>

(* The click handler of selectType: the URI changes at once; the creation  *)
(* page also starts to load the type's form.                               *)
Load(ty) ==
  /\ uri' = ty
  /\ IF page = "creator"
     THEN /\ loads[ty] < MaxLoads
          /\ loads' = [loads EXCEPT ![ty] = @ + 1]
          /\ alone' = NotLoading
     ELSE UNCHANGED <<loads, alone>>
  /\ UNCHANGED <<uiVars, form, tree, links>>

Ready ==
  /\ open /\ page \in TypedPages /\ uri = NULL
  /\ Load(FirstType)

Choose ==
  /\ open /\ page \in TypedPages /\ uri # NULL
  /\ \E ty \in Types : Load(ty)

(* Forms may come in any order; each replaces the one that is shown.       *)
FormArrives(ty) ==
  /\ open /\ loads[ty] > 0
  /\ loads' = [loads EXCEPT ![ty] = @ - 1]
  /\ form' = ty
  /\ UNCHANGED <<uiVars, uri, alone, tree, links>>

FormFails(ty) ==
  /\ open /\ loads[ty] > 0
  /\ loads' = [loads EXCEPT ![ty] = @ - 1]
  /\ alone' = FALSE
  /\ UNCHANGED <<uiVars, uri, form, tree, links>>

(***************************************************************************)
(* The scripts' functions in their pages.                                  *)
(***************************************************************************)
(* Mutant: the type is read while no option is selected.                   *)
Asked_Undefined(separator) == "undefined"

(* The type that baseUrl + separator + terms asks for: the page of         *)
(* delegatedUItyped.js puts the type into the query, bmx has no query.     *)
Asked(separator) == IF (separator = "&") <=> (page = "iotp") THEN uri ELSE NULL

BmxSearch == page = "bmx" /\ Search(Asked("?")) /\ UNCHANGED <<uri, formVars, tree, links>>
TypedSearch == page = "iotp" /\ Search(Asked("&")) /\ UNCHANGED <<uri, formVars, tree, links>>

(* The button that submits a form is part of it.                           *)
Submit ==
  /\ page = "creator" /\ form # NULL
  /\ Create(uri)
  /\ UNCHANGED <<uri, formVars, tree, links>>

BmxSelect == page = "bmx" /\ Select /\ UNCHANGED <<uri, formVars, tree, links>>
TypedSelect == page = "iotp" /\ Select /\ UNCHANGED <<uri, formVars, tree, links>>

BmxCancel == page = "bmx" /\ Cancel /\ UNCHANGED <<uri, formVars, tree, links>>
TypedCancel == page = "iotp" /\ Cancel /\ UNCHANGED <<uri, formVars, tree, links>>

(* require calls back when the modules are loaded and the page is parsed.  *)
CreateTree ==
  /\ open /\ page = "browser" /\ ~tree
  /\ tree' = TRUE
  /\ UNCHANGED <<uiVars, uri, formVars, links>>

(* Before that, select throws, as cancel does at any time: it calls        *)
(* sendCancelResponse, which this script does not have.  With nothing      *)
(* selected the response is a cancelled dialog's.                          *)
TreeSelect ==
  /\ open /\ page = "browser" /\ tree /\ Len(posted) < MaxPosted
  /\ \E selected \in SUBSET Resources : SendResponse(selected)
  /\ UNCHANGED <<page, hash, requestVars, listVars, open, uri, formVars, tree, links>>

(***************************************************************************)
(* The embedding application.                                              *)
(***************************************************************************)
(* The selection client replaces its links, the creation client adds one.  *)
Linked(response) == IF page = "creator" THEN links \cup response ELSE response

(* Messages of a window are handled in the order they were posted.         *)
HandleMessage ==
  /\ open /\ posted # << >>
  /\ links' = Linked(Head(posted))
  /\ posted' = Tail(posted)
  /\ UNCHANGED <<page, hash, requestVars, listVars, windowName, href, open, uri, formVars, tree>>

(* The browser follows href.  A response is not a URL it can go to.        *)
Navigate ==
  /\ open /\ href # "dialog"
  /\ \E response \in windowName :
       IF href = "returnURL"
       THEN open' = FALSE /\ links' = Linked(response) /\ UNCHANGED href
       ELSE href' = "dialog" /\ UNCHANGED <<open, links>>
  /\ UNCHANGED <<page, hash, requestVars, listVars, windowName, posted, uri, formVars, tree>>

Answered(r) == Network(r) /\ UNCHANGED <<uri, formVars, tree, links>>

User == BmxSearch \/ TypedSearch \/ Submit \/ BmxSelect \/ TypedSelect \/ BmxCancel \/ TypedCancel
        \/ TreeSelect \/ Choose

Next ==
  \/ User
  \/ Ready \/ CreateTree
  \/ \E ty \in Types : FormArrives(ty) \/ FormFails(ty)
  \/ \E r \in Requests : Answered(r)
  \/ HandleMessage \/ Navigate

Spec == Init /\ [][Next]_vars

(* Each request ends, with an answer or without.                           *)
Fairness == \A r \in Requests : WF_vars(Answered(r))
FairSpec == Spec /\ Fairness

-----------------------------------------------------------------------------
(* Every variable has its type.                                            *)
TypeOK ==
  /\ page \in Pages /\ hash \in Protocols
  /\ xmlhttp \in 0..MaxRequests
  /\ readyState \in [Requests -> {"unsent", "opened", "receiving", "done"}]
  /\ status \in [Requests -> {"none", "ok", "created", "refused"}]
  /\ responseText \in [Requests -> SUBSET Resources]
  /\ asked \in [Requests -> Types \cup {NULL}]
  /\ list \in [Resources -> Nat]
  /\ message \in {"search", "loading"}
  /\ windowName \in SUBSET SUBSET Resources
  /\ href \in {"dialog", "returnURL", "response"}
  /\ open \in BOOLEAN
  /\ posted \in Seq(SUBSET Resources)
  /\ uri \in Types \cup {NULL} /\ form \in Types \cup {NULL}
  /\ loads \in [Types -> Nat] /\ alone \in BOOLEAN /\ tree \in BOOLEAN
  /\ links \in SUBSET Resources

(* Although handlers of overtaken searches keep firing, the list shows the *)
(* answer to the latest search, all of it and nothing else, as soon as it  *)
(* is there; they only make every option appear once more.                 *)
ListIsLatestAnswer ==
  page \in SearchPages /\ xmlhttp > 0 =>
    /\ Options = IF Succeeded(xmlhttp, "ok") THEN responseText[xmlhttp] ELSE {}
    /\ \A x, y \in Options : list[x] = list[y]

(* The user is asked to stand by from a search until the latest search has *)
(* been answered with results, and not a moment less, whichever search is  *)
(* answered first.                                                         *)
MessageTellsLatest ==
  page \in SearchPages =>
    (message = "search" <=> xmlhttp = 0 \/ Succeeded(xmlhttp, "ok"))

(* What the latest submission created is sent to the embedding application *)
(* even when answers to earlier submissions come after it.  With window    *)
(* names that holds of the first submission only, as a second response     *)
(* takes the first one for the return URL: until a second submission the   *)
(* dialog is on its way to that URL with the answer, and when it is left   *)
(* the link is made.                                                       *)
LatestCreationReported ==
  page = "creator" /\ xmlhttp > 0 /\ Succeeded(xmlhttp, "created") =>
    /\ hash = "postMessage" =>
         responseText[xmlhttp] \subseteq links \cup UNION {posted[i] : i \in DOMAIN posted}
    /\ hash = "windowName" /\ xmlhttp = 1 =>
         IF open
         THEN href = "returnURL" /\ windowName = {responseText[xmlhttp]}
         ELSE responseText[xmlhttp] \subseteq links

(* Once nothing is being loaded, the form is that of the type in the URI   *)
(* it is posted to, provided the last form was asked for alone and came.   *)
FormSettles == NotLoading /\ alone /\ page = "creator" => form = uri

(* The embedding application links to what the adaptor named, from one     *)
(* answer at a time.                                                       *)
Named == {responseText[r] : r \in {q \in Requests : Succeeded(q, "ok") \/ Succeeded(q, "created")}}
         \cup (IF page = "browser" THEN {Resources} ELSE {})
Contract == INSTANCE DialogContract WITH answers <- Named
KeepsDialogContract == Contract!Spec

(* A search ends: its results are shown, or the latest search was not      *)
(* answered with results, or the dialog is left.                           *)
SearchEnds ==
  message = "loading" ~>
    \/ message = "search"
    \/ readyState[xmlhttp] = "done" /\ status[xmlhttp] # "ok"
    \/ ~open

(* "Send response to listener" (delegatedUI.js): every resource that was   *)
(* created, and whose creation was answered, is sent to the application.   *)
CreationsReported ==
  page = "creator" /\ hash = "postMessage" =>
    \A r \in Requests : Succeeded(r, "created") =>
      responseText[r] \subseteq links \cup UNION {posted[i] : i \in DOMAIN posted}
=============================================================================
