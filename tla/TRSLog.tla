------------------------------- MODULE TRSLog -------------------------------
(***************************************************************************)
(* The data of a Tracked Resource Set: the events of a change log and what *)
(* a base followed by a change log says to a consumer.  The events are     *)
(* those TRSObject.updateChangeLog appends (Lyo's Creation, Modification   *)
(* and Deletion); an event's URI and its time stamp are left out.          *)
(***************************************************************************)
EXTENDS Naturals, Sequences

EventTypes == {"Creation", "Modification", "Deletion"}

Event(type, member, order) ==
  [type |-> type, changed |-> member, order |-> order]

EventSet(Members, Orders) ==
  [type : EventTypes, changed : Members, order : Orders]

(* Position i of the log holds the last event on member m. *)
LastEventOn(m, log, i) ==
  /\ log[i].changed = m
  /\ \A j \in DOMAIN log : j > i => log[j].changed # m

(* What a consumer tracks that starts from the base (its cutoff is         *)
(* rdf:nil, so every event of the log applies) and applies the log.        *)
Tracked(base, log) ==
  {m \in base : \A i \in DOMAIN log : log[i].changed # m}
    \cup {log[i].changed : i \in {j \in DOMAIN log :
            log[j].type # "Deletion" /\ LastEventOn(log[j].changed, log, j)}}
=============================================================================
