---------------------------- MODULE TRSLog_proofs ----------------------------
(***************************************************************************)
(* What one more event does to a log and to the set of tracked resources.  *)
(***************************************************************************)
EXTENDS TRSLog, SequenceTheorems, TLAPS

(* An empty log leaves the base as it is.                                  *)
LEMMA TrackedEmpty ==
  ASSUME NEW base
  PROVE  Tracked(base, << >>) = base
BY DEF Tracked

(* A member of Tracked is in the base without an event, or its last event  *)
(* is not a Deletion.                                                      *)
LEMMA TrackedMember ==
  ASSUME NEW base, NEW log, NEW m
  PROVE  m \in Tracked(base, log) <=>
           \/ m \in base /\ \A i \in DOMAIN log : log[i].changed # m
           \/ \E i \in DOMAIN log : log[i].type # "Deletion" /\ LastEventOn(m, log, i)
BY DEF Tracked, LastEventOn

(* Appending an event tracks its resource, or drops it if the event is a   *)
(* Deletion, and changes nothing else: the events are applied in order.    *)
LEMMA TrackedAppend ==
  ASSUME NEW S, NEW O, NEW base \in SUBSET S,
         NEW log \in Seq(EventSet(S, O)), NEW e \in EventSet(S, O)
  PROVE  Tracked(base, Append(log, e)) =
           IF e.type = "Deletion" THEN Tracked(base, log) \ {e.changed}
                                  ELSE Tracked(base, log) \cup {e.changed}
<1> DEFINE new == Append(log, e)
           n   == Len(log) + 1
<1>1. /\ DOMAIN new = DOMAIN log \cup {n} /\ n \notin DOMAIN log
      /\ new[n] = e
      /\ \A i \in DOMAIN log : new[i] = log[i] /\ i \in Nat /\ i < n
      /\ n \in Nat
  OBVIOUS
<1> HIDE DEF new, n
<1>2. ASSUME NEW m, m # e.changed
      PROVE  m \in Tracked(base, new) <=> m \in Tracked(base, log)
  <2>1. (\A i \in DOMAIN new : new[i].changed # m) <=> (\A i \in DOMAIN log : log[i].changed # m)
    BY <1>1, <1>2
  <2>2. \A i \in DOMAIN log : LastEventOn(m, new, i) <=> LastEventOn(m, log, i)
    BY <1>1, <1>2 DEF LastEventOn
  <2>3. ~LastEventOn(m, new, n)
    BY <1>1, <1>2 DEF LastEventOn
  <2>. QED
    BY <1>1, <2>1, <2>2, <2>3, TrackedMember
<1>3. LastEventOn(e.changed, new, n)
  BY <1>1 DEF LastEventOn
<1>4. \A i \in DOMAIN log : ~LastEventOn(e.changed, new, i)
  BY <1>1 DEF LastEventOn
<1>5. e.changed \in Tracked(base, new) <=> e.type # "Deletion"
  BY <1>1, <1>3, <1>4, TrackedMember
<1>6. ASSUME NEW m
      PROVE  m \in Tracked(base, new) <=>
               IF m = e.changed THEN e.type # "Deletion" ELSE m \in Tracked(base, log)
  BY <1>2, <1>5
<1>. QED
  BY <1>6 DEF new

(* Where an appended event is, and that it is the only new one.            *)
LEMMA AppendAt ==
  ASSUME NEW S, NEW log \in Seq(S), NEW e \in S
  PROVE  /\ DOMAIN Append(log, e) = DOMAIN log \cup {Len(log) + 1}
         /\ Append(log, e)[Len(log) + 1] = e
         /\ \A i \in DOMAIN log : Append(log, e)[i] = log[i] /\ i < Len(log) + 1
         /\ Len(log) + 1 \in Nat /\ DOMAIN log \subseteq Nat \ {0}
OBVIOUS

(* What comes before an event of the log stays what it was, and before the *)
(* appended event comes all of the log.                                    *)
LEMMA PrefixAppend ==
  ASSUME NEW S, NEW log \in Seq(S), NEW e \in S, NEW n \in 0 .. Len(log)
  PROVE  SubSeq(Append(log, e), 1, n) = IF n = Len(log) THEN log ELSE SubSeq(log, 1, n)
<1>1. Append(log, e) = log \o <<e>> /\ <<e>> \in Seq(S)
  BY AppendIsConcat
<1>2. CASE n = 0
  <2>1. SubSeq(Append(log, e), 1, 0) = << >> /\ SubSeq(log, 1, 0) = << >>
    BY SubSeqEmpty
  <2>2. Len(log) = 0 => log = << >>
    BY EmptySeq
  <2>. QED
    BY <1>2, <2>1, <2>2
<1>3. CASE n # 0
  <2>1. SubSeq(Append(log, e), 1, n) = SubSeq(log, 1, n)
    BY <1>1, <1>3, SubSeqOfConcat1
  <2>2. SubSeq(log, 1, Len(log)) = log
    BY SubSeqFull
  <2>. QED
    BY <2>1, <2>2
<1>. QED
  BY <1>2, <1>3
==============================================================================
