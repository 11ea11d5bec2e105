---------------------------- MODULE TRSContract ----------------------------
(***************************************************************************)
(* What the TRS provider promises its consumers, without a word about how  *)
(* the change log comes about: a base is published once and never changes, *)
(* the log only grows, one event at a time, and an event that says a       *)
(* resource was modified or deleted is about a resource that base and log  *)
(* tracked until then.  TrackedResourceSet implements it.                  *)
(***************************************************************************)
EXTENDS TRSLog

CONSTANTS Members,   \* the URIs a resource can have
          Orders,    \* the values of an event's order
          NULL       \* nothing is published yet

VARIABLES base, log

Init == base = NULL /\ log = NULL

Publish ==
  /\ base = NULL
  /\ \E members \in SUBSET Members : base' = members
  /\ log' = << >>

Change ==
  /\ base # NULL
  /\ \E type \in EventTypes, m \in Members, order \in Orders :
       /\ type # "Creation" => m \in Tracked(base, log)
       /\ log' = Append(log, Event(type, m, order))
  /\ UNCHANGED base

Next == Publish \/ Change

Spec == Init /\ [][Next]_<<base, log>>
=============================================================================
