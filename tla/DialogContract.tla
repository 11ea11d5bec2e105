--------------------------- MODULE DialogContract ---------------------------
(***************************************************************************)
(* What a delegated dialog promises the application that embeds it: links  *)
(* are to resources the adaptor named, and what one response of the dialog *)
(* names comes from one answer of the adaptor: never from an answer the    *)
(* user no longer sees, mixed with one she sees.  DialogPages implements   *)
(* it.                                                                     *)
(***************************************************************************)
CONSTANTS Resources

VARIABLES
  answers,  \* the sets of resources the adaptor has named to the dialog
  links     \* what the embedding application has linked to

Init == answers \in SUBSET {Resources} /\ links = {}

Name ==
  /\ \E named \in SUBSET Resources : answers' = answers \cup {named}
  /\ UNCHANGED links

(* A selection replaces the links; a created resource is added to them.    *)
Link ==
  /\ \E named \in answers : \E response \in SUBSET named :
       links' \in {response, links \cup response}
  /\ UNCHANGED answers

(* A cancelled dialog names nothing.                                       *)
Cancelled == links' = {} /\ UNCHANGED answers

Next == Name \/ Link \/ Cancelled

Spec == Init /\ [][Next]_<<answers, links>>
=============================================================================
