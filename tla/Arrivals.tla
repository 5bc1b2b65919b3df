------------------------------ MODULE Arrivals ------------------------------
(***************************************************************************)
(* The detector on its own: what agents send, one event after another.     *)
(***************************************************************************)
EXTENDS Detector

CONSTANTS
  Kinds,     \* what arrives
  MaxEvents  \* bound: events observed

ASSUME ArrivalsAssumption ==
  /\ \A k \in Kinds : k.category \in Categories /\ k.delay \in Int
  /\ MaxEvents \in Nat

\* Bound: the events of a behaviour are of one category, for two categories
\* share nothing but seen, whose members name their rule.
Next ==
  /\ Len(feed) < MaxEvents
  /\ \E kind \in Kinds : (feed # <<>> => kind.category = feed[1].category) /\ Arrive(kind)

Spec == DetectorInit /\ [][Next]_detectorVars
=============================================================================
