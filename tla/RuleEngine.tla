----------------------------- MODULE RuleEngine -----------------------------
(***************************************************************************)
(* The detection rules' evaluator, rules/src/barbarika_rules/engine.py:    *)
(* pure functions from a rule and a window of events to the sets of events *)
(* that match it.                                                          *)
(*                                                                         *)
(* An event is a record: id, occurred_at, tie (its UUID's place among the  *)
(* UUIDs of events with the same occurred_at), source, and hits, the       *)
(* predicates whose regular expressions it satisfies.  A window is a set   *)
(* of events: the code sorts what it takes from its lists before it looks  *)
(* at their order.  A rule is a record whose detection field has the       *)
(* fields of rule.py.  A match is the set of the ids it cites: the         *)
(* detector's signature sorts them.                                        *)
(***************************************************************************)
EXTENDS Integers, Sequences, FiniteSets, SequencesExt

\* What rule.py lets load.
IsDetection(d) ==
  /\ d.type \in {"single", "threshold", "sequence", "correlation"}
  /\ d.type # "single" => d.within_seconds \in Nat \ {0}
  /\ d.type = "threshold" => d.min_count \in Nat \ {0, 1}
  /\ d.type = "sequence" =>
       /\ Len(d.steps) \in Nat \ {0, 1}
       /\ \A i \in 1..Len(d.steps) : d.steps[i].min_count \in Nat \ {0}
  /\ d.type = "correlation" =>
       /\ Len(d.arms) \in Nat \ {0, 1}
       /\ \A i \in 1..Len(d.arms) : d.arms[i].min_count \in Nat \ {0}

Satisfies(event, predicate) == predicate \in event.hits

Matching(events, predicate) == {e \in events : Satisfies(e, predicate)}

Before(e, f) ==
  \/ e.occurred_at < f.occurred_at
  \/ e.occurred_at = f.occurred_at /\ e.tie < f.tie

\* sorted: the i-th event is the one that i - 1 others come before.
Ordered(events) ==
  [i \in 1..Cardinality(events) |->
     CHOOSE e \in events : Cardinality({f \in events : Before(f, e)}) = i - 1]

\* The first n of them.
Earliest(events, n) == {e \in events : Cardinality({f \in events : Before(f, e)}) < n}

\* Seeded fault: the events are not grouped by source.
Groups_None(events) == {events}

\* defaultdict(list) keyed by source.
Groups(events) == {{e \in events : e.source = s} : s \in {e.source : e \in events}}

Ids(events) == {e.id : e \in events}
-----------------------------------------------------------------------------
(* Sequence rules.                                                         *)

\* The step at which an event ends the walk from the step under way: a step is
\* left when the event does not match it and its count is reached.
StepFor(steps, s, e) ==
  Min({k \in s.index..(Len(steps) + 1) :
         \/ k > Len(steps)
         \/ Satisfies(e, steps[k].match)
         \/ Cardinality(s.used[k]) < steps[k].min_count})

\* The event matches the step where its walk ends or none.
Assign(steps, s, e) ==
  LET j == StepFor(steps, s, e) IN
  [index |-> j,
   used  |-> [k \in 1..Len(steps) |->
                IF k = j /\ Satisfies(e, steps[k].match) THEN s.used[k] \cup {e} ELSE s.used[k]]]

\* The greedy assignment of a segment's events to the steps.
Deal(segment, steps) ==
  LET ordered == Ordered(segment)
      Dealt[i \in 0..Cardinality(segment)] ==
        IF i = 0 THEN [index |-> 1, used |-> [k \in 1..Len(steps) |-> {}]]
        ELSE Assign(steps, Dealt[i - 1], ordered[i])
      used == Dealt[Cardinality(segment)].used
  IN IF \A k \in 1..Len(steps) : Cardinality(used[k]) >= steps[k].min_count
     THEN UNION {used[k] : k \in 1..Len(steps)}
     ELSE {}  \* None

\* Seeded fault: what earlier matches consumed is not skipped.
AssignPrefix_Reuses(segment, steps, consumed) == Deal(segment, steps)

AssignPrefix(segment, steps, consumed) == Deal({e \in segment : e.id \notin consumed}, steps)

\* Seeded fault: the far edge of the window is left out.
Segment_Strict(d, group, terminal) ==
  {e \in group :
     Before(e, terminal) /\ terminal.occurred_at - d.within_seconds < e.occurred_at}

\* What precedes the terminal within the window.
Segment(d, group, terminal) ==
  {e \in group :
     Before(e, terminal) /\ terminal.occurred_at - d.within_seconds <= e.occurred_at}

\* One candidate for the terminal, over what earlier matches did not consume.
Visit(d, group, s, e) ==
  LET prefix == AssignPrefix(Segment(d, group, e), Front(d.steps), s.consumed)
  IN IF Satisfies(e, Last(d.steps).match) /\ prefix # {}
     THEN [consumed |-> s.consumed \cup Ids(prefix),
           matches  |-> s.matches \cup {Ids(prefix \cup {e})}]
     ELSE s

\* One source's events: each in turn is tried as the terminal.
SequenceMatches(d, group) ==
  LET ordered == Ordered(group)
      Visited[i \in 0..Cardinality(group)] ==
        IF i = 0 THEN [consumed |-> {}, matches |-> {}]
        ELSE Visit(d, group, Visited[i - 1], ordered[i])
  IN Visited[Cardinality(group)].matches

EvaluateSequence(d, events) == UNION {SequenceMatches(d, g) : g \in Groups(events)}
-----------------------------------------------------------------------------
(* Single-event rules.                                                     *)

EvaluateSingle(d, events) == {{id} : id \in Ids(Matching(events, d.match))}
-----------------------------------------------------------------------------
(* Threshold rules.                                                        *)

\* Where the window of the i-th event ends.
BurstEnd(d, ordered, i) ==
  Min({j \in i..(Len(ordered) + 1) :
         \/ j > Len(ordered)
         \/ ordered[j].occurred_at - ordered[i].occurred_at > d.within_seconds})

\* One source's matching events: a burst starts at the first event that has
\* enough successors in the window, cites the earliest of them, and ends where
\* the window ends.
ThresholdMatches(d, group) ==
  LET ordered == Ordered(group)
      End(i) == BurstEnd(d, ordered, i)
      From[i \in 1..(Len(ordered) + 1)] ==
        IF i > Len(ordered) THEN {}
        ELSE IF End(i) - i >= d.min_count
             THEN {{ordered[k].id : k \in i..(i + d.min_count - 1)}} \cup From[End(i)]
             ELSE From[i + 1]
  IN From[1]

EvaluateThreshold(d, events) ==
  UNION {ThresholdMatches(d, g) : g \in Groups(Matching(events, d.match))}
-----------------------------------------------------------------------------
(* Correlation rules.                                                      *)

\* Seeded fault: the window has no end.
InWindow_Open(d, arm, events, start) ==
  {e \in Matching(events, arm.match) : start <= e.occurred_at}

InWindow(d, arm, events, start) ==
  {e \in Matching(events, arm.match) :
     start <= e.occurred_at /\ e.occurred_at <= start + d.within_seconds}

\* Seeded fault: every event of the arm in the window is cited.
ArmCites_All(d, arm, events, start) ==
  LET inWindow == InWindow(d, arm, events, start)
  IN IF Cardinality(inWindow) < arm.min_count THEN {} ELSE inWindow

\* The earliest min_count events of an arm in the window from start.
ArmCites(d, arm, events, start) ==
  LET inWindow == InWindow(d, arm, events, start)
  IN IF Cardinality(inWindow) < arm.min_count THEN {} ELSE Earliest(inWindow, arm.min_count)

\* Seeded fault: covered_until is not consulted.
Covered_Never(s, anchor) == FALSE

\* "start <= covered_until", the end of the last window that matched.
Covered(s, anchor) == \E t \in s.covered_until : anchor.occurred_at <= t

\* One event as the start of a window, unless a window that matched covers it.
Try(d, s, anchor, cites) ==
  IF Covered(s, anchor) \/ \E i \in 1..Len(d.arms) : cites[i] = {}
  THEN s
  ELSE [covered_until |-> {anchor.occurred_at + d.within_seconds},
        matches |-> s.matches \cup {Ids(UNION {cites[i] : i \in 1..Len(d.arms)})}]

\* Every event of every arm is tried.
EvaluateCorrelation(d, events) ==
  LET anchors == {e \in events : \E i \in 1..Len(d.arms) : Satisfies(e, d.arms[i].match)}
      cites == [a \in anchors |-> [i \in 1..Len(d.arms) |->
                  ArmCites(d, d.arms[i], events, a.occurred_at)]]
      ordered == Ordered(anchors)
      Tried[i \in 0..Cardinality(anchors)] ==
        IF i = 0 THEN [covered_until |-> {}, matches |-> {}]
        ELSE Try(d, Tried[i - 1], ordered[i], cites[ordered[i]])
  IN Tried[Cardinality(anchors)].matches
-----------------------------------------------------------------------------
EvaluateRule(rule, events) ==
  LET d == rule.detection IN
  CASE d.type = "sequence"    -> EvaluateSequence(d, events)
    [] d.type = "single"      -> EvaluateSingle(d, events)
    [] d.type = "threshold"   -> EvaluateThreshold(d, events)
    [] d.type = "correlation" -> EvaluateCorrelation(d, events)
=============================================================================
