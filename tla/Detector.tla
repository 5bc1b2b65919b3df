------------------------------ MODULE Detector ------------------------------
(***************************************************************************)
(* Sentry's stateful detector, sentry/app/detect.py: a bounded window of   *)
(* recent events for each category, and the signatures it has alerted on.  *)
(* observe runs under the detector's lock, so it is one step here: of a    *)
(* worker in Ingest, and of an event that just arrives in Arrivals.        *)
(***************************************************************************)
EXTENDS RuleEngine

CONSTANTS
  Rules,       \* the loaded rules: a function from rule ids to rules
  Categories,  \* the categories that events carry
  WindowSize,  \* _WINDOW_PER_CATEGORY
  Uuids        \* bound: the UUIDs that the events of one occurred_at draw from

ASSUME DetectorAssumption ==
  /\ \A r \in DOMAIN Rules : Rules[r].category \in Categories /\ IsDetection(Rules[r].detection)
  /\ WindowSize \in Nat \ {0}
  /\ Uuids \subseteq Int

VARIABLES
  window,  \* each category's recent events, in the order of observation
  seen,    \* _seen_signatures
  feed     \* every event observed: nothing the code keeps, the properties' reference

detectorVars == <<window, seen, feed>>

\* A signature is the rule's id with the sorted ids of the match.
Signature(rule, match) == [rule |-> rule, ids |-> match]

RulesOf(category) == {r \in DOMAIN Rules : Rules[r].category = category}

\* The signatures of every match of a category's rules.
MatchesIn(category, events) ==
  UNION {{Signature(r, m) : m \in EvaluateRule(Rules[r], ToSet(events))} : r \in RulesOf(category)}

\* A category's events in the feed, in their order: all, or the newest that fit.
IsNewest(category, bucket) ==
  /\ Len(bucket) <= WindowSize
  /\ \E at \in [1..Len(bucket) -> 1..Len(feed)] :
       /\ \A k \in 1..Len(bucket) : bucket[k] = feed[at[k]] /\ feed[at[k]].category = category
       /\ \A k, l \in 1..Len(bucket) : k < l => at[k] < at[l]
       /\ \A i \in 1..Len(feed) : feed[i].category = category =>
            (\E k \in 1..Len(bucket) : at[k] = i) \/ (Len(bucket) = WindowSize /\ i < at[1])

\* The windows are the categories' newest events, and an alert cites what came.
DetectorTypeOK ==
  /\ \A c \in Categories : IsNewest(c, window[c])
  /\ \A s \in seen : s.rule \in DOMAIN Rules /\ s.ids \subseteq Ids(ToSet(feed))

DetectorInit ==
  /\ window = [c \in Categories |-> <<>>]
  /\ seen = {}
  /\ feed = <<>>

\* Seeded fault: the bucket is cut down to less than the window.
Enter_Short(bucket, event) ==
  IF Len(bucket) < WindowSize - 1 THEN Append(bucket, event) ELSE Append(Tail(bucket), event)

\* The append, and "del bucket[: len(bucket) - _WINDOW_PER_CATEGORY]".
Enter(bucket, event) ==
  IF Len(bucket) < WindowSize THEN Append(bucket, event) ELSE Append(Tail(bucket), event)

\* Seeded fault: observe returns every match.
NewSignatures_Unfiltered(category, bucket) == MatchesIn(category, bucket)

\* What observe returns: the matches of the updated window not seen before.
NewSignatures(category, bucket) == MatchesIn(category, bucket) \ seen

observe(category, event) ==
  /\ window' = [window EXCEPT ![category] = Enter(@, event)]
  /\ seen' = seen \cup NewSignatures(category, window'[category])
  /\ feed' = Append(feed, event)

\* uuid4 ids are random: among the events with one occurred_at, a new one may
\* sort before them, after them or between any two.  The first is in the middle.
Ties(at) ==
  LET taken == {e.tie : e \in {f \in ToSet(feed) : f.occurred_at = at}}
  IN  IF taken = {} THEN {0} ELSE Uuids \ taken

Event(kind, id, at, tie) ==
  [id |-> id, occurred_at |-> at, tie |-> tie, source |-> kind.source, hits |-> kind.hits,
   category |-> kind.category]

\* An event of a kind: a category, a source, hits, and the delay since the
\* occurred_at of the event before.
Arrive(kind) ==
  LET id == Len(feed) + 1
      at == kind.delay + IF feed = <<>> THEN 0 ELSE Last(feed).occurred_at
  IN \E tie \in Ties(at) : observe(kind.category, Event(kind, id, at, tie))
-----------------------------------------------------------------------------
(* What the rules mean, stated without an evaluation order.                *)

\* A category's events.
Fed(category) == {e \in ToSet(feed) : e.category = category}

Cited(s) == {e \in ToSet(feed) : e.id \in s.ids}

Hits(events, predicate) == {e \in events : Satisfies(e, predicate)}

\* All within d.within_seconds of each other.
Together(d, events) ==
  \A e, f \in events : f.occurred_at - e.occurred_at <= d.within_seconds

OneSource(events) == Cardinality({e.source : e \in events}) = 1

\* The events can be dealt to the steps, in order and often enough, all of them
\* before the terminal and within the window that ends there.
Leads(d, prefix, terminal) ==
  /\ Satisfies(terminal, Last(d.steps).match)
  /\ OneSource(prefix \cup {terminal})
  /\ \A e \in prefix :
       Before(e, terminal) /\ terminal.occurred_at - e.occurred_at <= d.within_seconds
  /\ \E step \in [prefix -> 1..(Len(d.steps) - 1)] :
       /\ \A e \in prefix : Satisfies(e, d.steps[step[e]].match)
       /\ \A e, f \in prefix : Before(e, f) => step[e] <= step[f]
       /\ \A i \in 1..(Len(d.steps) - 1) :
            Cardinality({e \in prefix : step[e] = i}) >= d.steps[i].min_count

Means(d, cited) ==
  CASE d.type = "single" ->
         Cardinality(cited) = 1 /\ Hits(cited, d.match) = cited
    [] d.type = "threshold" ->
         /\ Cardinality(cited) = d.min_count /\ Hits(cited, d.match) = cited
         /\ OneSource(cited) /\ Together(d, cited)
    [] d.type = "correlation" ->
         /\ Together(d, cited)
         /\ \A i \in 1..Len(d.arms) : Cardinality(Hits(cited, d.arms[i].match)) >= d.arms[i].min_count
         /\ \A e \in cited : \E i \in 1..Len(d.arms) : Satisfies(e, d.arms[i].match)
    [] d.type = "sequence" ->
         \E terminal \in cited : Leads(d, cited \ {terminal}, terminal)

Of(rule) == {s \in seen : s.rule = rule}

\* Every event occurred after those observed before it.
InOrder == \A i \in 2..Len(feed) : feed[i-1].occurred_at < feed[i].occurred_at

\* And nothing was evicted.
Undisturbed == Len(feed) <= WindowSize /\ InOrder

\* On a feed in order: of some events, the first was not yet evicted when the
\* last came.
Held(events, cited) ==
  \A e, f \in cited :
    Cardinality({g \in events : g.occurred_at \in e.occurred_at..f.occurred_at}) <= WindowSize
-----------------------------------------------------------------------------
(* Properties.                                                             *)

\* Every alert cites exactly events that are what its rule describes: counts,
\* order, source and span, however late or tied the events arrive and however
\* many the window has dropped.
AlertsSound == \A s \in seen : Means(Rules[s.rule].detection, Cited(s))

\* Re-evaluating the windows on each event comes to the same as evaluating each
\* rule on the whole feed once: a match never changes as later events come in,
\* which is what makes the signature a dedup key (engine.py, detect.py).
IncrementalIsBatch ==
  Undisturbed =>
    seen = UNION {{Signature(r, m) : m \in EvaluateRule(Rules[r], Fed(Rules[r].category))} :
                    r \in DOMAIN Rules}

\* A burst raises one incident: two alerts of a threshold or correlation rule
\* are about windows that do not overlap, two alerts of a sequence rule share no
\* event of their prefixes.
Start(s) == CHOOSE e \in Cited(s) : \A f \in Cited(s) : e.occurred_at <= f.occurred_at

OneIncidentPerBurst ==
  \A s, t \in seen :
    LET d == Rules[s.rule].detection IN
    \/ s = t \/ s.rule # t.rule \/ d.type \notin {"threshold", "correlation"}
    \/ d.type = "threshold" /\ Start(s).source # Start(t).source
    \/ Start(t).occurred_at > Start(s).occurred_at + d.within_seconds
    \/ Start(s).occurred_at > Start(t).occurred_at + d.within_seconds

\* With an undisturbed feed, one incident per burst.
BurstsApart == Undisturbed => OneIncidentPerBurst

\* With an undisturbed feed, the prefixes of a sequence rule's alerts share no
\* event: a login that reuses a cracked password raises nothing new.
PrefixesApart ==
  Undisturbed => \A s, t \in seen :
    LET LastId(x) == Max(x.ids) IN
    (s # t /\ s.rule = t.rule /\ Rules[s.rule].detection.type = "sequence") =>
      (s.ids \ {LastId(s)}) \cap (t.ids \ {LastId(t)}) = {}

\* An alert that answers for a pattern: one that says the same, or whose burst
\* the pattern starts in, or, for a sequence, one for the same terminal or for an
\* earlier one that used up some of the events.
AnswersFor(d, s, cited) ==
  LET ids == {e.id : e \in cited} IN
  CASE d.type = "single" -> s.ids = ids
    [] d.type = "sequence" ->
         Max(s.ids) = Max(ids) \/ (Max(s.ids) < Max(ids) /\ s.ids \cap ids # {})
    [] OTHER ->
         LET first == CHOOSE e \in cited : \A f \in cited : e.occurred_at <= f.occurred_at
         IN  first.occurred_at - Start(s).occurred_at \in 0..d.within_seconds

\* No event of a sequence matches two steps in a row: the assignment leaves one
\* that does at the former, and may then want it for the latter.
Telling(d, cited) ==
  d.type = "sequence" => \A i \in 1..(Len(d.steps) - 2) :
    Hits(cited, d.steps[i].match) \cap Hits(cited, d.steps[i + 1].match) = {}

\* With a feed in order nothing is missed that the window ever held, however many
\* events it has dropped: an alert of the rule answers for whatever set of events
\* has the rule's meaning.
NothingMissed ==
  InOrder => \A r \in DOMAIN Rules : \A cited \in SUBSET Fed(Rules[r].category) :
    LET d == Rules[r].detection IN
    (cited # {} /\ Means(d, cited) /\ Telling(d, cited) /\ Held(Fed(Rules[r].category), cited)) =>
      \E s \in Of(r) : AnswersFor(d, s, cited)
=============================================================================
