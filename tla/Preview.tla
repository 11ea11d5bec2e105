------------------------------- MODULE Preview -------------------------------
(***************************************************************************)
(* preview.js: hovering over the link of a resource opens a Bootstrap      *)
(* popover and requests the resource's OSLC compact document, from which   *)
(* the popover's title and its frame are made.  Every time a popover shows *)
(* another request is sent; what is shown is kept in two attributes of the *)
(* link, from hover to hover, and answers come in any order.  The popovers *)
(* are those of static/js/bootstrap-4.0.0-beta.min.js, with their timers   *)
(* and their fades.                                                        *)
(***************************************************************************)
EXTENDS Naturals, Sequences

CONSTANTS
  Links,        \* the links of the page, each standing for its resource, too
  Own,          \* those to resources of this adaptor
  UNDEFINED,    \* JavaScript's undefined
  NULL,         \* and null
  MaxRequests   \* bound on the requests of the page

ASSUME PreviewAssumption ==
  /\ Own \subseteq Links /\ MaxRequests \in Nat
  /\ UNDEFINED \notin Links /\ NULL \notin Links /\ NULL # UNDEFINED

VARIABLES
  over,     \* the link under the pointer, or NULL
  hover,    \* _hoverState of each link's popover
  timer,    \* what _timeout of each popover is going to do
  attached, \* the links whose popover's tip is in the document
  classes,  \* which of the classes fade and show each tip has
  pending,  \* the handlers of show, "shown", and of hide, "hidden", that wait
            \* for the end of each tip's transition
  forgotten,\* (history) the popovers whose pointer left unnoticed
  attrs,    \* data-original-title and data-content of each link
  body,     \* what each popover displays
  sent,     \* how many requests have been sent
  uiElem,   \* the link of each request
  answered  \* the requests that have ended

tips == <<attached, classes, pending>>
popovers == <<over, hover, timer, tips, forgotten>>
requests == <<sent, uiElem, answered>>
vars == <<popovers, attrs, body, requests>>

Requests == 1..MaxRequests

(***************************************************************************)
(* Documents.  A node has a type, a name, children and a value: its text   *)
(* or its resource.                                                        *)
(***************************************************************************)
Element(name, children, value) ==
  [nodeType |-> "element", nodeName |-> name, childNodes |-> children, value |-> value]
Text == [nodeType |-> "text", nodeName |-> "#text", childNodes |-> << >>, value |-> UNDEFINED]

(* No node: undefined and null.  Neither has children, so a search in them *)
(* finds nothing: the script has thrown, and what follows does not matter. *)
Undefined == [nodeType |-> "undefined", nodeName |-> "", childNodes |-> << >>, value |-> UNDEFINED]
Null == [Undefined EXCEPT !.nodeType = "null"]
IsMissing(node) == node.nodeType \in {"undefined", "null"}

(* The first of the nodes at these positions.                              *)
First(nodes, positions) ==
  IF positions = {} THEN Undefined
  ELSE nodes[CHOOSE i \in positions : \A j \in positions : i <= j]

Elements(nodes) == {i \in DOMAIN nodes : nodes[i].nodeType = "element"}
Named(nodes, name) == {i \in Elements(nodes) : nodes[i].nodeName = name}

(* Mutant: white space counts as a child.                                  *)
FirstChild_AnyNode(e) == First(e.childNodes, DOMAIN e.childNodes)

FirstChild(e) == First(e.childNodes, Elements(e.childNodes))

FirstChildNamed(e, name) == First(e.childNodes, Named(e.childNodes, name))

Loading    == [title |-> UNDEFINED, content |-> "Loading..."]
ParseError == [title |-> "Error", content |-> "parse"]
LoadError  == [title |-> "Error", content |-> "load"]
(* Mutant: the title and the URI are mistaken for each other.              *)
Frame_Swapped(title, uri, height, width) ==
  [title |-> uri, content |-> "frame", uri |-> title, height |-> height, width |-> width]

Frame(title, uri, height, width) ==
  [title |-> title, content |-> "frame", uri |-> uri, height |-> height, width |-> width]

(* The frame for a document, or ParseError if parsePreview throws, as it   *)
(* does when it needs a property of something missing.                     *)
ParsePreview(xml) ==
  LET compact == FirstChild(FirstChild(xml))
      titleChild == FirstChildNamed(compact, "dcterms:title")
      smallPrev == FirstChildNamed(compact, "oslc:smallPreview")
      largePrev == FirstChildNamed(compact, "oslc:largePreview")
      chosen == IF smallPrev # Null THEN smallPrev ELSE largePrev
      preview == FirstChild(chosen)
      document == FirstChildNamed(preview, "oslc:document")
      height == FirstChildNamed(preview, "oslc:hintHeight")
      width == FirstChildNamed(preview, "oslc:hintWidth")
  IN  IF IsMissing(titleChild) \/ IsMissing(chosen)
      THEN ParseError
      ELSE IF IsMissing(preview)
      THEN Frame(titleChild.value, UNDEFINED, "11em", "45em")
      ELSE IF IsMissing(height) \/ IsMissing(width)
      THEN ParseError
      ELSE Frame(titleChild.value, document.value, height.value, width.value)

(* The parts a preview may have; of a compact document, its title and its  *)
(* two previews, each of which may be absent or have no content.           *)
Parts == {"oslc:document", "oslc:hintHeight", "oslc:hintWidth"}
Absent == {"absent"}
NoContent == {"empty"}
Shapes == [title : BOOLEAN, small : SUBSET Parts \cup {Absent, NoContent},
           large : SUBSET Parts \cup {Absent, NoContent}]

Part(name, value) == <<Text, Element(name, << >>, value)>>

PartsOf(parts, link, height) ==
  (IF "oslc:document" \in parts THEN Part("oslc:document", link) ELSE << >>)
  \o (IF "oslc:hintHeight" \in parts THEN Part("oslc:hintHeight", height) ELSE << >>)
  \o (IF "oslc:hintWidth" \in parts THEN Part("oslc:hintWidth", "45em") ELSE << >>)

PreviewElement(name, parts, link, height) ==
  IF parts = Absent THEN << >>
  ELSE IF parts = NoContent THEN <<Element(name, <<Text>>, UNDEFINED)>>
  ELSE LET preview == Element("oslc:Preview", PartsOf(parts, link, height), UNDEFINED)
       IN  <<Text, Element(name, <<Text, preview>>, UNDEFINED)>>

Compact(link, shape) ==
  LET children == (IF shape.title THEN Part("dcterms:title", link) ELSE << >>)
                  \o PreviewElement("oslc:smallPreview", shape.small, link, "10em")
                  \o PreviewElement("oslc:largePreview", shape.large, link, "20em")
      compact == Element("oslc:Compact", children, UNDEFINED)
  IN  Element("#document", <<Element("rdf:RDF", <<Text, compact>>, UNDEFINED)>>, UNDEFINED)

(* The compact document of a resource of the adaptor has it all.           *)
AdaptorShape == [title |-> TRUE, small |-> Parts, large |-> Parts]
Documents(link) == {Compact(link, shape) : shape \in IF link \in Own THEN {AdaptorShape} ELSE Shapes}
Previews == [link \in Links |-> {ParsePreview(xml) : xml \in Documents(link)}]

(***************************************************************************)
(* Popovers.                                                               *)
(***************************************************************************)
Init ==
  /\ over = NULL
  /\ hover = [l \in Links |-> ""] /\ timer = [l \in Links |-> "none"]
  /\ attached = {} /\ classes = [l \in Links |-> {}] /\ pending = [l \in Links |-> {}]
  /\ forgotten = {}
  /\ attrs = [l \in Links |-> Loading] /\ body = [l \in Links |-> Loading]
  /\ sent = 0 /\ uiElem = [r \in Requests |-> UNDEFINED] /\ answered = {}

(* Mutant: a popover stays longer than another one takes to show.          *)
Delay_Swapped == [show |-> 60, hide |-> 120]

Delay == [show |-> 120, hide |-> 60]

(* _enter                                                                  *)
Enter(l) ==
  /\ over = NULL /\ over' = l
  /\ hover' = [hover EXCEPT ![l] = "show"]
  /\ timer' = IF "show" \in classes[l] \/ hover[l] = "show"
              THEN timer ELSE [timer EXCEPT ![l] = "show"]
  /\ forgotten' = forgotten \ {l}
  /\ UNCHANGED <<tips, attrs, body, requests>>

(* _leave                                                                  *)
Leave(l) ==
  /\ over = l /\ over' = NULL
  /\ hover' = [hover EXCEPT ![l] = "out"]
  /\ timer' = [timer EXCEPT ![l] = "hide"]
  /\ UNCHANGED <<tips, forgotten, attrs, body, requests>>

(* show(): the handler of show.bs.popover sends a request, and the tip     *)
(* shows what the link's attributes say, be it from an earlier hover.      *)
Show(l) ==
  /\ sent < MaxRequests
  /\ sent' = sent + 1
  /\ uiElem' = [uiElem EXCEPT ![sent + 1] = l]
  /\ attached' = attached \cup {l}
  /\ body' = [body EXCEPT ![l] = attrs[l]]
  /\ UNCHANGED <<attrs, answered>>

(* Timers run out in their order.  The pointer left one link before it     *)
(* entered another, so the timer that hides the one's popover runs out     *)
(* first unless it is the longer one; and a transition that begins ends    *)
(* for show() in the next tick, as _TRANSITION_DURATION is undefined.      *)
ShowTimer(l) ==
  /\ timer[l] = "show"
  /\ Delay.hide <= Delay.show => \A other \in Links : timer[other] # "hide"
  /\ \A other \in Links : "shown" \notin pending[other]
  /\ timer' = [timer EXCEPT ![l] = "none"]
  /\ IF hover[l] = "show"
     THEN /\ Show(l)
          /\ classes' = [classes EXCEPT ![l] = {"fade", "show"}]
          /\ pending' = [pending EXCEPT ![l] = @ \cup {"shown"}]
     ELSE UNCHANGED <<tips, attrs, body, requests>>
  /\ UNCHANGED <<over, hover, forgotten>>

(* hide(): a tip that fades is removed when the transition ends, after 150 *)
(* ms; one whose class setContent has taken away, at once.                 *)
HideTimer(l) ==
  /\ timer[l] = "hide" /\ "shown" \notin pending[l]
  /\ timer' = [timer EXCEPT ![l] = "none"]
  /\ IF hover[l] = "out"
     THEN /\ hover' = [hover EXCEPT ![l] = ""]
          /\ classes' = [classes EXCEPT ![l] = @ \ {"show"}]
          /\ IF "fade" \in classes[l]
             THEN pending' = [pending EXCEPT ![l] = @ \cup {"hidden"}] /\ UNCHANGED attached
             ELSE attached' = attached \ {l} /\ UNCHANGED pending
     ELSE UNCHANGED <<hover, tips>>
  /\ UNCHANGED <<over, forgotten, attrs, body, requests>>

(* The handler of hide(): a tip about to show again stays, invisible.      *)
Hidden(l) ==
  /\ pending[l] = {"hidden"}
  /\ pending' = [pending EXCEPT ![l] = {}]
  /\ attached' = IF hover[l] = "show" THEN attached ELSE attached \ {l}
  /\ UNCHANGED <<over, hover, timer, classes, forgotten, attrs, body, requests>>

(* Mutant: the pointer has not left.                                       *)
Shown_NotLeft(l) ==
  /\ pending[l] = {"shown"}
  /\ pending' = [pending EXCEPT ![l] = {}]
  /\ hover' = [hover EXCEPT ![l] = ""]
  /\ UNCHANGED <<over, timer, attached, classes, forgotten, attrs, body, requests>>

(* The handler of show(): a pointer that has left leaves again.            *)
Shown(l) ==
  /\ pending[l] = {"shown"}
  /\ pending' = [pending EXCEPT ![l] = {}]
  /\ IF hover[l] = "out"
     THEN timer' = [timer EXCEPT ![l] = "hide"] /\ UNCHANGED hover
     ELSE hover' = [hover EXCEPT ![l] = ""] /\ UNCHANGED timer
  /\ UNCHANGED <<over, attached, classes, forgotten, attrs, body, requests>>

(* A tip that was shown while it faded away: both handlers run.  The first *)
(* destroys the new Popper, so that the second, in _fixTransition, hides   *)
(* the tip and shows it again without a fade, with another request.  The   *)
(* hover state is lost, even that of a pointer that has left meanwhile.    *)
ShownAgain(l) ==
  /\ pending[l] = {"shown", "hidden"}
  /\ pending' = [pending EXCEPT ![l] = {}]
  /\ Show(l)
  /\ classes' = [classes EXCEPT ![l] = {"show"}]
  /\ hover' = [hover EXCEPT ![l] = ""]
  /\ forgotten' = IF hover[l] = "out" THEN forgotten \cup {l} ELSE forgotten
  /\ UNCHANGED <<over, timer>>

TransitionEnd(l) == Hidden(l) \/ Shown(l) \/ ShownAgain(l)

(***************************************************************************)
(* Answers.                                                                *)
(***************************************************************************)
(* Mutant: the variables of the handler are global.                        *)
UiElem_Global(r) == uiElem[sent]

UiElem(r) == uiElem[r]

(* setContent displays the attributes, and takes fade and show from the    *)
(* tip, which is then displayed in full wherever it is in the document.    *)
SetContent(l, new) ==
  /\ attrs' = [attrs EXCEPT ![l] = new]
  /\ body' = [body EXCEPT ![l] = new]
  /\ classes' = [classes EXCEPT ![l] = {}]

Waiting(r) == r \in 1..sent \ answered

Answer(r, new) ==
  /\ answered' = answered \cup {r}
  /\ SetContent(UiElem(r), new)
  /\ UNCHANGED <<over, hover, timer, attached, pending, forgotten, sent, uiElem>>

Success(r) == Waiting(r) /\ \E preview \in Previews[uiElem[r]] : Answer(r, preview)

(* Mutant: the attributes are left as they are.                            *)
Error_Silent(r) ==
  /\ Waiting(r)
  /\ answered' = answered \cup {r}
  /\ UNCHANGED <<popovers, attrs, body, sent, uiElem>>

(* Mutant: the popover is not updated.                                     *)
Error_NotShown(r) ==
  /\ Waiting(r)
  /\ answered' = answered \cup {r}
  /\ attrs' = [attrs EXCEPT ![UiElem(r)] = LoadError]
  /\ UNCHANGED <<popovers, body, sent, uiElem>>

(* A refused or failed request, or an answer that is not XML.              *)
Error(r) == Waiting(r) /\ Answer(r, LoadError)

Ends(r) == Success(r) \/ Error(r)

Next ==
  \/ \E l \in Links : Enter(l) \/ Leave(l) \/ ShowTimer(l) \/ HideTimer(l) \/ TransitionEnd(l)
  \/ \E r \in Requests : Ends(r)

Spec == Init /\ [][Next]_vars

(* Each request ends, with an answer or without.                           *)
Fairness == \A r \in Requests : WF_vars(Ends(r))
FairSpec == Spec /\ Fairness

-----------------------------------------------------------------------------
Frames == [title : Links, content : {"frame"}, uri : Links \cup {UNDEFINED},
           height : {"10em", "11em", "20em"}, width : {"45em"}]

(* Every variable has its type.                                            *)
TypeOK ==
  /\ over \in Links \cup {NULL}
  /\ hover \in [Links -> {"", "show", "out"}]
  /\ timer \in [Links -> {"none", "show", "hide"}]
  /\ attached \subseteq Links /\ forgotten \subseteq Links
  /\ classes \in [Links -> SUBSET {"fade", "show"}]
  /\ pending \in [Links -> SUBSET {"shown", "hidden"}]
  /\ sent \in 0..MaxRequests
  /\ uiElem \in [Requests -> Links \cup {UNDEFINED}]
  /\ answered \subseteq 1..sent
  /\ attrs \in [Links -> {Loading, ParseError, LoadError} \cup Frames]
  /\ body \in [Links -> {Loading, ParseError, LoadError} \cup Frames]

(* Each link's attributes and its popover show that link's resource and no *)
(* other, whichever of the requests that run at a time is answered first.  *)
OwnPreview ==
  \A l \in Links : \A shown \in {attrs[l], body[l]} :
    shown.content = "frame" => shown.title = l /\ shown.uri \in {l, UNDEFINED}

(* A popover that is displayed shows what the link's attributes say: an    *)
(* answer that came while it was hidden, or to an earlier hover, is there. *)
PopoverShowsAttributes == \A l \in attached : body[l] = attrs[l]

(* A popover in the document that the pointer has left is about to be      *)
(* removed, by its timer or when it has faded, unless the pointer left     *)
(* while it was shown during its own fade, which Bootstrap forgets.        *)
Removing(l) == "hidden" \in pending[l] \/ l \in forgotten
LeftPopoversGo ==
  \A l \in attached : over = l \/ (timer[l] = "hide" /\ hover[l] = "out") \/ Removing(l)

(* When a popover shows, every other one that is still displayed has been  *)
(* hidden and fades away, or was forgotten.                                *)
OnePopover ==
  [][\A l \in Links : "shown" \in pending'[l] \ pending[l] =>
       \A other \in attached \ {l} : Removing(other)]_vars

(* The adaptor's documents are never a parse error: the small preview is   *)
(* shown, with its size.                                                   *)
AdaptorPreviewParses ==
  \A l \in Own : attrs[l] \in {Loading, LoadError, Frame(l, l, "10em", "45em")}

(* A popover that says it is loading shows something else at last, or is   *)
(* hidden.                                                                 *)
PreviewComes ==
  \A l \in Links : (l \in attached /\ body[l] = Loading) ~> (l \notin attached \/ body[l] # Loading)
=============================================================================
