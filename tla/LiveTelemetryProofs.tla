------------------------- MODULE LiveTelemetryProofs -------------------------
(***************************************************************************)
(* The live half of the dashboard, for any number of agents, events and    *)
(* failures and any limits of its queue, lists and feed.                   *)
(***************************************************************************)
EXTENDS LiveTelemetry, TLAPS

----------------------------------------------------------------------------
(* The lists: a prefix, a row put in front, the newest of a numbered set.  *)

LEMMA FirstOfFacts ==
  ASSUME NEW S, NEW s \in Seq(S), NEW n \in Nat
  PROVE  /\ FirstOf(s, n) \in Seq(S)
         /\ Len(FirstOf(s, n)) = IF Len(s) < n THEN Len(s) ELSE n
         /\ \A i \in 1..Len(FirstOf(s, n)) : FirstOf(s, n)[i] = s[i]
BY DEF FirstOf

LEMMA MembersOf ==
  ASSUME NEW S, NEW s \in Seq(S)
  PROVE  /\ \A i \in 1..Len(s) : s[i] \in ToSet(s)
         /\ \A x \in ToSet(s) : \E i \in 1..Len(s) : x = s[i]
         /\ ToSet(s) \subseteq S
BY DEF ToSet

LEMMA Prepended ==
  ASSUME NEW s \in Seq(Nat), NEW x \in Nat, NEW n \in Nat
  PROVE  LET t == FirstOf(<<x>> \o s, n)
         IN  /\ t \in Seq(Nat)
             /\ Len(t) <= n
             /\ ToSet(t) \subseteq {x} \union ToSet(s)
             /\ (IsInjective(s) /\ x \notin ToSet(s)) => IsInjective(t)
<1> DEFINE u == <<x>> \o s
           t == FirstOf(u, n)
<1>1. /\ u \in Seq(Nat)
      /\ Len(u) = Len(s) + 1 /\ Len(s) \in Nat
      /\ \A i \in 1..Len(u) : u[i] = IF i = 1 THEN x ELSE s[i - 1]
  OBVIOUS
<1> HIDE DEF u
<1>2. /\ t \in Seq(Nat)
      /\ Len(t) \in Nat /\ DOMAIN t = 1..Len(t) /\ Len(t) <= n /\ Len(t) <= Len(u)
      /\ \A i \in 1..Len(t) : t[i] = u[i]
  BY <1>1, FirstOfFacts
<1> HIDE DEF t
<1>3. \A k \in 1..Len(t) : t[k] = (IF k = 1 THEN x ELSE s[k - 1]) /\ (k # 1 => k - 1 \in 1..Len(s))
  <2> TAKE k \in 1..Len(t)
  <2>1. k \in 1..Len(u) /\ t[k] = u[k]
    BY <1>1, <1>2
  <2>2. QED
    BY <2>1, <1>1
<1>4. ToSet(t) \subseteq {x} \union ToSet(s)
  <2> SUFFICES ASSUME NEW y \in ToSet(t) PROVE y = x \/ y \in ToSet(s)
    OBVIOUS
  <2>1. PICK i \in 1..Len(t) : y = t[i]
    BY <1>2, MembersOf
  <2>2. y = IF i = 1 THEN x ELSE s[i - 1]
    BY <2>1, <1>1, <1>2
  <2>3. i # 1 => i - 1 \in 1..Len(s)
    BY <1>1, <1>2
  <2>4. QED
    BY <2>2, <2>3, MembersOf
<1>5. ASSUME IsInjective(s), x \notin ToSet(s)
      PROVE  IsInjective(t)
  <2> SUFFICES ASSUME NEW i \in 1..Len(t), NEW j \in 1..Len(t), t[i] = t[j]
               PROVE  i = j
    BY <1>2 DEF IsInjective
  <2>1. \A k \in 1..Len(s) : s[k] # x
    BY <1>5, MembersOf
  <2>2. \A k, l \in 1..Len(s) : s[k] = s[l] => k = l
    BY <1>5 DEF IsInjective
  <2>3. CASE i = 1
    BY <2>1, <2>3, <1>3
  <2>4. CASE j = 1
    BY <2>1, <2>4, <1>3
  <2>5. CASE i # 1 /\ j # 1
    <3>1. s[i - 1] = s[j - 1] /\ i - 1 \in 1..Len(s) /\ j - 1 \in 1..Len(s)
      BY <2>5, <1>3
    <3>2. i - 1 = j - 1
      BY <3>1, <2>2
    <3>3. QED
      BY <3>2, <1>2
  <2>6. QED
    BY <2>3, <2>4, <2>5
<1>6. QED
  BY <1>2, <1>4, <1>5 DEF t, u

LEMMA NewestFacts ==
  ASSUME NEW n \in Nat, NEW limit \in Nat
  PROVE  /\ Newest(n, limit) \in Seq(Nat)
         /\ Len(Newest(n, limit)) = IF n < limit THEN n ELSE limit
         /\ \A i \in 1..Len(Newest(n, limit)) : Newest(n, limit)[i] = n + 1 - i
<1> DEFINE u == [i \in 1..n |-> n + 1 - i]
<1>1. u \in Seq(Nat) /\ Len(u) = n /\ \A i \in 1..n : u[i] = n + 1 - i
  OBVIOUS
<1> HIDE DEF u
<1>2. Newest(n, limit) = FirstOf(u, limit)
  BY DEF Newest, u
<1>3. QED
  BY <1>1, <1>2, FirstOfFacts

LEMMA NewestMembers ==
  ASSUME NEW n \in Nat, NEW limit \in Nat
  PROVE  /\ ToSet(Newest(n, limit)) \subseteq 1..n
         /\ n <= limit => ToSet(Newest(n, limit)) = 1..n
         /\ IsInjective(Newest(n, limit))
<1> DEFINE t == Newest(n, limit)
<1>1. /\ t \in Seq(Nat)
      /\ Len(t) = IF n < limit THEN n ELSE limit
      /\ \A i \in 1..Len(t) : t[i] = n + 1 - i
  BY NewestFacts
<1> HIDE DEF t
<1>2. ToSet(t) \subseteq 1..n
  <2> SUFFICES ASSUME NEW y \in ToSet(t) PROVE y \in 1..n
    OBVIOUS
  <2>1. PICK i \in 1..Len(t) : y = t[i]
    BY <1>1, MembersOf
  <2>2. QED
    BY <2>1, <1>1
<1>3. ASSUME n <= limit PROVE 1..n \subseteq ToSet(t)
  <2> SUFFICES ASSUME NEW y \in 1..n PROVE y \in ToSet(t)
    OBVIOUS
  <2>1. n + 1 - y \in 1..Len(t) /\ t[n + 1 - y] = y
    BY <1>1, <1>3
  <2>2. QED
    BY <2>1, <1>1, MembersOf
<1>4. IsInjective(t)
  BY <1>1 DEF IsInjective
<1>5. QED
  BY <1>2, <1>3, <1>4 DEF t

\* A prefix of a list without repetitions has none.
LEMMA PrefixInjective ==
  ASSUME NEW S, NEW s \in Seq(S), NEW n \in Nat, IsInjective(s)
  PROVE  IsInjective(FirstOf(s, n)) /\ ToSet(FirstOf(s, n)) \subseteq ToSet(s)
<1> DEFINE t == FirstOf(s, n)
<1>1. /\ t \in Seq(S)
      /\ Len(t) = IF Len(s) < n THEN Len(s) ELSE n
      /\ \A i \in 1..Len(t) : t[i] = s[i]
  BY FirstOfFacts
<1> HIDE DEF t
<1>2. 1..Len(t) \subseteq 1..Len(s)
  BY <1>1
<1>3. IsInjective(t)
  BY <1>1, <1>2 DEF IsInjective
<1>4. ToSet(t) \subseteq ToSet(s)
  BY <1>1, <1>2, MembersOf
<1>5. QED
  BY <1>3, <1>4 DEF t

\* A queue: one message more, or one less.
LEMMA Queued ==
  ASSUME NEW S, NEW q \in Seq(S), NEW m \in S
  PROVE  Append(q, m) \in Seq(S) /\ ToSet(Append(q, m)) \subseteq ToSet(q) \union {m}
<1>1. /\ Append(q, m) \in Seq(S)
      /\ Len(Append(q, m)) = Len(q) + 1
      /\ \A i \in 1..(Len(q) + 1) : Append(q, m)[i] = IF i <= Len(q) THEN q[i] ELSE m
  OBVIOUS
<1>2. QED
  BY <1>1 DEF ToSet

LEMMA Dequeued ==
  ASSUME NEW S, NEW q \in Seq(S), q # <<>>
  PROVE  /\ Tail(q) \in Seq(S) /\ ToSet(Tail(q)) \subseteq ToSet(q) /\ Len(Tail(q)) = Len(q) - 1
         /\ Head(q) \in ToSet(q)
<1>1. /\ Len(q) >= 1 /\ Tail(q) \in Seq(S) /\ Len(Tail(q)) = Len(q) - 1 /\ Head(q) = q[1]
      /\ \A i \in 1..(Len(q) - 1) : Tail(q)[i] = q[i + 1]
  OBVIOUS
<1>2. ToSet(Tail(q)) \subseteq ToSet(q)
  BY <1>1 DEF ToSet
<1>3. QED
  BY <1>1, <1>2, MembersOf

----------------------------------------------------------------------------
(* The inductive invariant, in parts.                                      *)

\* A message is about one of the n events or of the k incidents.
Refers(m, n, k) == /\ m.type = "event" => m.id \in 1..n
                   /\ m.type = "incident" => m.id \in 1..k

Publishable == [type : {"event", "incident"}, id : Nat]

\* The watchdog tells of no agent that it has not heard.
ServerInv ==
  /\ stored \in 0..MaxEvents
  /\ raised \in Seq(Nat) /\ ToSet(raised) \subseteq 1..stored
  /\ unpublished \subseteq Publishable /\ \A m \in unpublished : Refers(m, stored, Len(raised))
  /\ status \in [Agents -> Known] /\ told \in [Agents -> Known]
  /\ \A a \in Agents : status[a] = Unknown => told[a] = Unknown

WireInv ==
  /\ stream \in {"none", "connecting", "reconnecting", "subscribed", "tailing", "failed", "closed"}
  /\ replay \in Seq(Nat) /\ ToSet(replay) \subseteq 1..stored
  /\ queue \in Seq(Messages) /\ Len(queue) <= QueueMax
  /\ \A m \in ToSet(queue) : Refers(m, stored, Len(raised))
  /\ missed \subseteq Publishable

HookInv ==
  /\ live \in {"connecting", "live", "offline"} /\ boot \in {"pending", "done", "failed"}
  /\ cancelled \in BOOLEAN
  /\ poll = NotYet \/ poll \in [Agents -> Known]
  /\ got \in [events : Nat \union {NotYet}, incidents : Nat \union {NotYet},
              watchdog : [Agents -> Known] \union {NotYet}]
  /\ got.events = NotYet \/ got.events \in 0..stored
  /\ got.incidents = NotYet \/ got.incidents \in 0..Len(raised)

ShownInv ==
  /\ logs \in Seq(Nat) /\ ToSet(logs) \subseteq 0..stored /\ Len(logs) <= MaxRows
  /\ incidents \in Seq(Nat) /\ ToSet(incidents) \subseteq 0..Len(raised)
  /\ seen \subseteq 1..stored
  /\ wdAgents \in [Agents -> Known]

\* RowsOnce is inductive with what makes the filter of pushEvent work: every
\* row shown has been entered into `seen`, and the stream opens after the fetch.
FeedInv ==
  IF boot = "done"
  THEN /\ ToSet(logs) \subseteq seen /\ IsInjective(logs) /\ MockRow \notin ToSet(incidents)
  ELSE /\ logs = <<MockRow>> /\ incidents = <<MockRow>> /\ stream = "none"

QuietInv == cancelled => stream \in {"none", "closed"}

ReportInv ==
  /\ report \in [phase : {"", "resolving", "downloading", "error"}, uuids : SUBSET Nat,
                 onScreen : SUBSET Nat, clicked : BOOLEAN]
  /\ report.onScreen \subseteq 0..Len(raised)
  /\ ReportCoversShown

LiveInv == ServerInv /\ WireInv /\ HookInv /\ ShownInv /\ FeedInv /\ QuietInv
           /\ LiveMeansStreaming /\ ReportInv

LEMMA InitLive == Init => LiveInv
<1> SUFFICES ASSUME Init PROVE LiveInv
  OBVIOUS
<1> USE BoundsAssumption
<1>1. /\ ToSet(<<>>) = {} /\ <<>> \in Seq(Nat) /\ <<>> \in Seq(Messages)
      /\ Len(<<>>) = 0 /\ Len(<<MockRow>>) = 1
      /\ <<MockRow>> \in Seq(Nat) /\ ToSet(<<MockRow>>) = {0}
  BY DEF ToSet, MockRow
<1>2. stored = 0 /\ raised = <<>> /\ unpublished = {} /\ seen = {} /\ missed = {}
      /\ queue = <<>> /\ replay = <<>> /\ logs = <<MockRow>> /\ incidents = <<MockRow>>
  BY DEF Init
<1>3. ServerInv
  BY <1>1, <1>2 DEF Init, ServerInv, Known
<1>4. WireInv
  BY <1>1, <1>2 DEF Init, WireInv
<1>5. HookInv
  BY DEF Init, HookInv, NoAnswers
<1>6. ShownInv
  BY <1>1, <1>2 DEF Init, ShownInv, Known
<1>7. FeedInv /\ QuietInv /\ LiveMeansStreaming
  BY DEF Init, FeedInv, QuietInv, LiveMeansStreaming
<1>8. ReportInv
  BY DEF Init, ReportInv, NoReport, ReportCoversShown
<1>9. QED
  BY <1>3, <1>4, <1>5, <1>6, <1>7, <1>8 DEF LiveInv

\* Sentry forgets nothing: its tables only grow, whoever acts.
LEMMA SentryGrows ==
  ASSUME ServerInv, [Next]_vars
  PROVE  /\ stored \in Nat /\ stored' \in Nat /\ stored <= stored'
         /\ Len(raised) \in Nat /\ Len(raised') \in Nat /\ Len(raised) <= Len(raised')
         /\ raised' \in Seq(Nat)
<1>1. stored \in Nat /\ raised \in Seq(Nat) /\ Len(raised) \in Nat
  BY BoundsAssumption DEF ServerInv
<1>2. CASE Store
  BY <1>1, <1>2 DEF Store
<1>3. CASE \E n \in Events : Raise(n)
  <2>1. PICK n \in Events : Raise(n)
    BY <1>3
  <2>2. n \in Nat /\ raised' = Append(raised, n) /\ stored' = stored
    BY <2>1, BoundsAssumption DEF Raise, Events
  <2>3. QED
    BY <1>1, <2>2
<1>4. CASE UNCHANGED <<stored, raised>>
  BY <1>1, <1>4
<1>5. QED
  BY <1>2, <1>3, <1>4
     DEF Next, Publish, Flip, Tell, BootAnswered, BootDone, BootFails, PollAnswered, PollDone,
         PollFails, Subscribe, Replay, Deliver, Drop, Refused, Restart, Unmount, Click, Resolve, ReportEnds,
         vars, server

\* What is said of the tables stays true when they grow.
LEMMA StillRefers ==
  ASSUME NEW n \in Nat, NEW k \in Nat, NEW n2 \in Nat, NEW k2 \in Nat, n <= n2, k <= k2,
         NEW m, Refers(m, n, k)
  PROVE  Refers(m, n2, k2)
BY DEF Refers

LEMMA AboutEvent ==
  ASSUME NEW n \in Nat, NEW k \in Nat, NEW i \in 1..n
  PROVE  EventMsg(i) \in Publishable /\ Refers(EventMsg(i), n, k)
<1>1. EventMsg(i).type = "event" /\ EventMsg(i).id = i
  BY DEF EventMsg
<1>2. EventMsg(i) \in Publishable
  BY DEF EventMsg, Publishable
<1>3. QED
  BY <1>1, <1>2 DEF Refers

LEMMA AboutIncident ==
  ASSUME NEW n \in Nat, NEW k \in Nat, NEW i \in 1..k
  PROVE  IncidentMsg(i) \in Publishable /\ Refers(IncidentMsg(i), n, k)
<1>1. IncidentMsg(i).type = "incident" /\ IncidentMsg(i).id = i
  BY DEF IncidentMsg
<1>2. IncidentMsg(i) \in Publishable
  BY DEF IncidentMsg, Publishable
<1>3. QED
  BY <1>1, <1>2 DEF Refers

LEMMA ServerKept ==
  ASSUME ServerInv, [Next]_vars
  PROVE  ServerInv'
<1> USE BoundsAssumption
<1>1. /\ stored \in Nat /\ raised \in Seq(Nat) /\ Len(raised) \in Nat /\ MaxEvents \in Nat
      /\ stored' \in Nat /\ Len(raised)' \in Nat /\ stored <= stored' /\ Len(raised) <= Len(raised)'
      /\ raised' \in Seq(Nat)
  BY SentryGrows DEF ServerInv
<1>2. \A m \in unpublished : m \in Publishable /\ Refers(m, stored', Len(raised)')
  <2> SUFFICES ASSUME NEW m \in unpublished
               PROVE  m \in Publishable /\ Refers(m, stored', Len(raised)')
    OBVIOUS
  <2>1. m \in Publishable /\ Refers(m, stored, Len(raised))
    BY DEF ServerInv
  <2>2. QED
    BY <1>1, <2>1, StillRefers
<1>3. CASE Store
  <2>1. stored' = stored + 1 /\ stored' \in 0..MaxEvents /\ UNCHANGED <<raised, status, told>>
    BY <1>1, <1>3 DEF Store, ServerInv
  <2>2. EventMsg(stored + 1) \in Publishable /\ Refers(EventMsg(stored + 1), stored', Len(raised)')
    BY <1>1, <2>1, AboutEvent
  <2>3. \A m \in unpublished' : m \in unpublished \/ m = EventMsg(stored + 1)
    BY <1>3 DEF Store
  <2>4. \A m \in unpublished' : m \in Publishable /\ Refers(m, stored', Len(raised)')
    BY <2>2, <2>3, <1>2
  <2>5. ToSet(raised)' \subseteq 1..stored'
    BY <1>1, <2>1 DEF ServerInv
  <2>6. QED
    BY <1>1, <2>1, <2>4, <2>5 DEF ServerInv
<1>4. CASE \E n \in Events : Raise(n)
  <2>1. PICK n \in Events : Raise(n)
    BY <1>4
  <2>2. n \in 1..stored /\ n \in Nat /\ raised' = Append(raised, n)
        /\ UNCHANGED <<stored, status, told>>
    BY <2>1 DEF Raise, Events
  <2>3. ToSet(raised)' \subseteq ToSet(raised) \union {n}
    BY <1>1, <2>2, Queued
  <2>4. ToSet(raised)' \subseteq 1..stored'
    BY <2>2, <2>3 DEF ServerInv
  <2>5. Len(raised)' = Len(raised) + 1
    BY <1>1, <2>2
  <2>6. IncidentMsg(Len(raised) + 1) \in Publishable
        /\ Refers(IncidentMsg(Len(raised) + 1), stored', Len(raised)')
    BY <1>1, <2>5, AboutIncident
  <2>7. \A m \in unpublished' : m \in unpublished \/ m = IncidentMsg(Len(raised) + 1)
    BY <2>1 DEF Raise
  <2>8. \A m \in unpublished' : m \in Publishable /\ Refers(m, stored', Len(raised)')
    BY <2>6, <2>7, <1>2
  <2>9. QED
    BY <1>1, <2>2, <2>4, <2>8 DEF ServerInv
<1>5. CASE \E a \in Agents, s \in Statuses : Flip(a, s)
  BY <1>5 DEF Flip, ServerInv, Known, Statuses, Unknown
<1>6. CASE \E a \in Agents : Tell(a)
  BY <1>6 DEF Tell, ServerInv, Known, Statuses, Unknown
<1>7. CASE UNCHANGED <<stored, raised, status, told>> /\ unpublished' \subseteq unpublished
  BY <1>7 DEF ServerInv
<1>8. CASE Restart
  BY <1>8 DEF Restart, ServerInv, Known
<1>9. QED
  BY <1>3, <1>4, <1>5, <1>6, <1>7, <1>8
     DEF Next, Publish, BootAnswered, BootDone, BootFails, PollAnswered, PollDone,
         PollFails, Subscribe, Replay, Deliver, Drop, Refused, Unmount, Click, Resolve, ReportEnds,
         vars, server

----------------------------------------------------------------------------
(* The wire.                                                               *)

LEMMA StatusIsMessage ==
  ASSUME NEW a \in Agents, status[a] \in Statuses
  PROVE  StatusMsg(a) \in Messages /\ \A n, k : Refers(StatusMsg(a), n, k)
<1>1. StatusMsg(a).type = "watchdog"
  BY DEF StatusMsg
<1>2. StatusMsg(a) \in Messages
  BY DEF StatusMsg, Messages
<1>3. QED
  BY <1>1, <1>2 DEF Refers

LEMMA WireKept ==
  ASSUME ServerInv, WireInv, [Next]_vars
  PROVE  WireInv'
<1> USE BoundsAssumption
<1>1. /\ stored \in Nat /\ Len(raised) \in Nat /\ stored' \in Nat /\ Len(raised)' \in Nat
      /\ stored <= stored' /\ Len(raised) <= Len(raised)'
  BY SentryGrows
<1>2. /\ 1..stored \subseteq 1..stored'
      /\ \A m : Refers(m, stored, Len(raised)) => Refers(m, stored', Len(raised)')
  <2>1. 1..stored \subseteq 1..stored'
    BY <1>1
  <2>2. ASSUME NEW m, Refers(m, stored, Len(raised)) PROVE Refers(m, stored', Len(raised)')
    BY <1>1, <2>2, StillRefers
  <2>3. QED
    BY <2>1, <2>2
<1>3. Publishable \subseteq Messages /\ QueueMax \in Nat /\ ReplayLimit \in Nat
  BY DEF Publishable, Messages
<1>4. queue \in Seq(Messages) /\ Len(queue) \in Nat /\ replay \in Seq(Nat)
  BY DEF WireInv
<1>5. <<>> \in Seq(Messages) /\ <<>> \in Seq(Nat) /\ Len(<<>>) = 0 /\ ToSet(<<>>) = {}
  BY DEF ToSet
<1>6. ASSUME NEW m \in Messages, Refers(m, stored', Len(raised)'), Len(queue) < QueueMax,
             queue' = Append(queue, m), UNCHANGED <<stream, replay, missed>>
      PROVE  WireInv'
  <2>1. queue' \in Seq(Messages) /\ ToSet(queue)' \subseteq ToSet(queue) \union {m}
    BY <1>4, <1>6, Queued
  <2>2. Len(queue)' = Len(queue) + 1
    BY <1>4, <1>6
  <2>3. \A x \in ToSet(queue)' : Refers(x, stored', Len(raised)')
    BY <1>2, <1>6, <2>1 DEF WireInv
  <2>4. QED
    BY <1>2, <1>3, <1>4, <1>6, <2>1, <2>2, <2>3 DEF WireInv
<1>7. ASSUME UNCHANGED <<stream, replay, queue>>, missed' \subseteq Publishable
      PROVE  WireInv'
  BY <1>2, <1>7 DEF WireInv
<1>8. CASE \E m \in unpublished : Publish(m)
  <2>1. PICK m \in unpublished : Publish(m)
    BY <1>8
  <2>2. m \in Publishable /\ m \in Messages /\ Refers(m, stored', Len(raised)')
    BY <1>2, <1>3 DEF ServerInv
  <2>3. CASE Subscribed /\ Len(queue) < QueueMax
    BY <1>6, <2>1, <2>2, <2>3 DEF Publish, PublishTo
  <2>4. CASE ~(Subscribed /\ Len(queue) < QueueMax)
    <3>1. missed' = missed \union {m} /\ UNCHANGED <<stream, replay, queue>>
      BY <2>1, <2>4 DEF Publish, PublishTo
    <3>2. QED
      BY <1>7, <2>2, <3>1 DEF WireInv
  <2>5. QED
    BY <2>3, <2>4
<1>9. CASE \E a \in Agents : Tell(a)
  <2>1. PICK a \in Agents : Tell(a)
    BY <1>9
  <2>2. status[a] \in Statuses
    BY <2>1 DEF Tell, ServerInv, Known
  <2>3. CASE Subscribed /\ Len(queue) < QueueMax
    BY <1>6, <2>1, <2>2, <2>3, StatusIsMessage DEF Tell
  <2>4. CASE ~(Subscribed /\ Len(queue) < QueueMax)
    <3>1. UNCHANGED <<missed, stream, replay, queue>>
      BY <2>1, <2>4 DEF Tell
    <3>2. QED
      BY <1>7, <3>1 DEF WireInv
  <2>5. QED
    BY <2>3, <2>4
<1>10. CASE Subscribe
  BY <1>2, <1>5, <1>10 DEF Subscribe, WireInv
<1>11. CASE Replay
  <2>1. replay' \in Seq(Nat) /\ ToSet(replay)' \subseteq 1..stored
    BY <1>1, <1>3, <1>11, NewestFacts, NewestMembers DEF Replay
  <2>2. missed' \subseteq Publishable /\ stream' = "tailing" /\ UNCHANGED queue
    BY <1>11 DEF Replay, WireInv
  <2>3. QED
    BY <1>2, <2>1, <2>2 DEF WireInv
<1>12. CASE Deliver
  <2>1. UNCHANGED <<stream, missed>>
    BY <1>12 DEF Deliver
  <2>2. CASE replay # <<>> /\ replay' = Tail(replay) /\ UNCHANGED queue
    <3>1. replay' \in Seq(Nat) /\ ToSet(replay)' \subseteq ToSet(replay)
      BY <1>4, <2>2, Dequeued
    <3>2. QED
      BY <1>2, <2>1, <2>2, <3>1 DEF WireInv
  <2>3. CASE queue # <<>> /\ queue' = Tail(queue) /\ UNCHANGED replay
    <3>1. queue' \in Seq(Messages) /\ ToSet(queue)' \subseteq ToSet(queue)
          /\ Len(queue)' = Len(queue) - 1
      BY <1>4, <2>3, Dequeued
    <3>2. QED
      BY <1>2, <1>3, <1>4, <2>1, <2>3, <3>1 DEF WireInv
  <2>4. QED
    BY <1>12, <2>2, <2>3 DEF Deliver
<1>13. CASE Drop \/ Restart
  <2>1. (stream' = "reconnecting" \/ stream' = stream) /\ replay' = <<>> /\ queue' = <<>>
    BY <1>13 DEF Drop, Restart
  <2>2. \A m \in ToSet(queue) : m.type # "watchdog" => m \in Publishable
    <3>1. ToSet(queue) \subseteq Messages
      BY <1>4, MembersOf
    <3>2. \A m \in Messages : m.type # "watchdog" => m \in Publishable
      BY DEF Messages, Publishable
    <3>3. QED
      BY <3>1, <3>2
  <2>3. \A n \in ToSet(replay) : EventMsg(n) \in Publishable
    BY <1>1, AboutEvent DEF WireInv
  <2>4. missed' \subseteq Publishable
    <3>1. Undelivered \subseteq Publishable
      BY <2>2, <2>3 DEF Undelivered
    <3>2. missed' \subseteq missed \union unpublished \union Undelivered
      BY <1>13 DEF Drop, Restart
    <3>3. QED
      BY <3>1, <3>2 DEF ServerInv, WireInv
  <2>5. QED
    BY <1>5, <2>1, <2>4 DEF WireInv
<1>14. CASE Unmount
  BY <1>2, <1>5, <1>14 DEF Unmount, WireInv
<1>15. CASE BootDone \/ Refused
  BY <1>2, <1>15 DEF BootDone, Refused, WireInv
<1>16. CASE UNCHANGED wire
  BY <1>7, <1>16 DEF WireInv, wire
<1>17. QED
  BY <1>8, <1>9, <1>10, <1>11, <1>12, <1>13, <1>14, <1>15, <1>16
     DEF Next, Store, Raise, Flip, BootAnswered, BootFails, PollAnswered, PollDone, PollFails,
         Click, Resolve, ReportEnds, vars

----------------------------------------------------------------------------
(* The hook and what it shows.                                             *)

LEMMA HookKept ==
  ASSUME ServerInv, HookInv, [Next]_vars
  PROVE  HookInv'
<1>1. /\ stored \in Nat /\ Len(raised) \in Nat /\ stored' \in Nat /\ Len(raised)' \in Nat
      /\ stored <= stored' /\ Len(raised) <= Len(raised)'
  BY SentryGrows
<1>2. 0..stored \subseteq 0..stored' /\ 0..Len(raised) \subseteq 0..Len(raised)'
  BY <1>1
<1>3. \A rows \in WatchdogAnswers : rows \in [Agents -> Known]
  BY DEF WatchdogAnswers, ServerInv, Known
<1>4. CASE BootAnswered
  <2>1. UNCHANGED <<stored, raised, live, boot, cancelled, poll>>
    BY <1>4 DEF BootAnswered, server
  <2>2. CASE got' = [got EXCEPT !.events = stored]
    BY <1>1, <2>1, <2>2 DEF HookInv
  <2>3. CASE got' = [got EXCEPT !.incidents = Len(raised)]
    BY <1>1, <2>1, <2>3 DEF HookInv
  <2>4. CASE \E rows \in WatchdogAnswers : got' = [got EXCEPT !.watchdog = rows]
    BY <1>3, <2>1, <2>4 DEF HookInv
  <2>5. QED
    BY <1>4, <2>2, <2>3, <2>4 DEF BootAnswered
<1>5. CASE BootDone \/ BootFails
  BY <1>5 DEF BootDone, BootFails, HookInv, NoAnswers
<1>6. CASE PollAnswered
  BY <1>3, <1>6 DEF PollAnswered, HookInv, server
<1>7. CASE PollDone \/ PollFails \/ Subscribe \/ Drop \/ Refused \/ Restart \/ Unmount
  BY <1>7 DEF PollDone, PollFails, Subscribe, Drop, Refused, Restart, Unmount, HookInv, server
<1>8. CASE UNCHANGED <<live, boot, got, poll, cancelled>>
  BY <1>2, <1>8 DEF HookInv
<1>9. QED
  BY <1>4, <1>5, <1>6, <1>7, <1>8
     DEF Next, Store, Publish, Raise, Flip, Tell, Replay, Deliver, Click, Resolve, ReportEnds, vars

\* The rows of a fetch replace what was shown.
LEMMA Fetched ==
  ASSUME HookInv, ShownInv, BootDone, stored \in Nat, Len(raised) \in Nat
  PROVE  /\ logs' \in Seq(Nat) /\ ToSet(logs)' \subseteq 1..stored /\ Len(logs)' <= MaxRows
         /\ IsInjective(logs)' /\ ToSet(logs)' \subseteq seen' /\ seen' \subseteq 1..stored
         /\ incidents' \in Seq(Nat) /\ ToSet(incidents)' \subseteq 1..Len(raised)
<1> USE BoundsAssumption
<1> DEFINE e == got.events
           i == got.incidents
           t == Newest(e, BootLimit)
<1>1. BootLimit \in Nat /\ ListLimit \in Nat /\ MaxRows \in Nat
  OBVIOUS
<1>2. got.events # NotYet /\ got.incidents # NotYet
  BY DEF BootDone, BootComplete, HookInv
<1>3. e \in 0..stored /\ i \in 0..Len(raised)
  BY <1>2 DEF HookInv
<1>4. /\ logs' = FirstOf(t, MaxRows) /\ seen' = seen \union ToSet(t)
      /\ incidents' = Newest(i, ListLimit)
  BY DEF BootDone
<1> HIDE DEF e, i
<1>5. e \in Nat /\ i \in Nat /\ 1..e \subseteq 1..stored /\ 1..i \subseteq 1..Len(raised)
  BY <1>3
<1>6. t \in Seq(Nat) /\ ToSet(t) \subseteq 1..e /\ IsInjective(t)
  BY <1>1, <1>5, NewestFacts, NewestMembers
<1>7. incidents' \in Seq(Nat) /\ ToSet(incidents)' \subseteq 1..i
  BY <1>1, <1>4, <1>5, NewestFacts, NewestMembers
<1> HIDE DEF t
<1>8. logs' \in Seq(Nat) /\ Len(logs)' = IF Len(t) < MaxRows THEN Len(t) ELSE MaxRows
  BY <1>1, <1>4, <1>6, FirstOfFacts
<1>9. Len(logs)' <= MaxRows
  <2>1. Len(t) \in Nat
    BY <1>6
  <2>2. QED
    BY <1>1, <1>8, <2>1
<1>10. IsInjective(logs)' /\ ToSet(logs)' \subseteq ToSet(t)
  BY <1>1, <1>4, <1>6, PrefixInjective
<1>11. seen' \subseteq 1..stored
  BY <1>4, <1>5, <1>6 DEF ShownInv
<1>12. QED
  BY <1>4, <1>5, <1>6, <1>7, <1>8, <1>9, <1>10, <1>11

LEMMA Merged ==
  ASSUME NEW rows \in [Agents -> Known], wdAgents \in [Agents -> Known], MergeWatchdog(rows)
  PROVE  wdAgents' \in [Agents -> Known]
BY DEF MergeWatchdog

\* What one message does to the feed and the bar.
LEMMA EventPushed ==
  ASSUME ShownInv, stored \in Nat, NEW n \in 1..stored, PushEvent(n)
  PROVE  /\ logs' \in Seq(Nat) /\ ToSet(logs)' \subseteq {n} \union ToSet(logs)
         /\ Len(logs)' <= MaxRows
         /\ seen' = seen \union {n} /\ UNCHANGED <<incidents, wdAgents>>
         /\ (IsInjective(logs) /\ ToSet(logs) \subseteq seen) => IsInjective(logs)'
<1> USE BoundsAssumption
<1>1. logs \in Seq(Nat) /\ Len(logs) <= MaxRows /\ n \in Nat /\ MaxRows \in Nat
  BY DEF ShownInv
<1>2. CASE n \in seen
  BY <1>1, <1>2 DEF PushEvent
<1>3. CASE n \notin seen
  <2>1. logs' = FirstOf(<<n>> \o logs, MaxRows)
    BY <1>3 DEF PushEvent
  <2>2. /\ logs' \in Seq(Nat) /\ Len(logs)' <= MaxRows /\ ToSet(logs)' \subseteq {n} \union ToSet(logs)
        /\ (IsInjective(logs) /\ n \notin ToSet(logs)) => IsInjective(logs)'
    BY <1>1, <2>1, Prepended
  <2>3. QED
    BY <1>3, <2>2 DEF PushEvent
<1>4. QED
  BY <1>2, <1>3

LEMMA IncidentPushed ==
  ASSUME ShownInv, NEW n \in Nat, PushIncident(n)
  PROVE  incidents' \in Seq(Nat) /\ ToSet(incidents)' \subseteq {n} \union ToSet(incidents)
<1> USE BoundsAssumption
<1>1. incidents \in Seq(Nat) /\ MaxShown \in Nat /\ incidents' = FirstOf(<<n>> \o incidents, MaxShown)
  BY DEF ShownInv, PushIncident
<1>2. QED
  BY <1>1, Prepended

\* The message that is delivered is an event, an incident or a status that
\* Sentry has: the three kinds of step Deliver can be.
LEMMA Delivered ==
  ASSUME WireInv, Deliver
  PROVE  \/ \E n \in 1..stored : PushEvent(n)
         \/ \E n \in 1..Len(raised) : PushIncident(n)
         \/ \E a \in Agents, s \in Known : PushWatchdog(a, s)
<1>1. CASE replay # <<>> /\ PushEvent(Head(replay))
  <2>1. Head(replay) \in 1..stored
    BY <1>1, Dequeued DEF WireInv
  <2>2. QED
    BY <1>1, <2>1
<1>2. CASE queue # <<>> /\ Receive(Head(queue))
  <2> DEFINE m == Head(queue)
  <2>1. m \in ToSet(queue) /\ m \in Messages /\ Refers(m, stored, Len(raised))
    <3>1. m \in ToSet(queue) /\ ToSet(queue) \subseteq Messages
      BY <1>2, Dequeued, MembersOf DEF WireInv
    <3>2. QED
      BY <3>1 DEF WireInv
  <2> HIDE DEF m
  <2>2. CASE m.type = "event" /\ PushEvent(m.id)
    BY <2>1, <2>2 DEF Refers
  <2>3. CASE m.type = "incident" /\ PushIncident(m.id)
    BY <2>1, <2>3 DEF Refers
  <2>4. CASE m.type = "watchdog" /\ PushWatchdog(m.agent, m.status)
    <3>1. m.agent \in Agents /\ m.status \in Known
      BY <2>1, <2>4 DEF Messages, Known
    <3>2. QED
      BY <2>4, <3>1
  <2>5. QED
    BY <1>2, <2>2, <2>3, <2>4 DEF Receive, m
<1>3. QED
  BY <1>1, <1>2 DEF Deliver

LEMMA ShownKept ==
  ASSUME ServerInv, WireInv, HookInv, ShownInv, [Next]_vars
  PROVE  ShownInv'
<1>1. /\ stored \in Nat /\ Len(raised) \in Nat /\ stored' \in Nat /\ Len(raised)' \in Nat
      /\ stored <= stored' /\ Len(raised) <= Len(raised)'
  BY SentryGrows
<1>2. /\ 0..stored \subseteq 0..stored' /\ 1..stored \subseteq 1..stored'
      /\ 0..Len(raised) \subseteq 0..Len(raised)'
      /\ 1..stored \subseteq 0..stored /\ 1..Len(raised) \subseteq 0..Len(raised)
  BY <1>1
<1>3. CASE BootDone
  <2>1. PICK rows \in [Agents -> Known] : MergeWatchdog(rows)
    <3>1. got.watchdog \in [Agents -> Known]
      BY <1>3 DEF BootDone, BootComplete, HookInv
    <3>2. QED
      BY <1>3, <3>1 DEF BootDone
  <2>2. wdAgents' \in [Agents -> Known]
    BY <2>1, Merged DEF ShownInv
  <2>3. UNCHANGED <<stored, raised>>
    BY <1>3 DEF BootDone, server
  <2>4. QED
    BY <1>1, <1>2, <1>3, <2>2, <2>3, Fetched DEF ShownInv
<1>4. CASE PollDone
  <2>1. UNCHANGED <<stored, raised, logs, seen, incidents>>
    BY <1>4 DEF PollDone, server
  <2>2. wdAgents' \in [Agents -> Known]
    <3>1. poll \in [Agents -> Known] /\ wdAgents \in [Agents -> Known]
      BY <1>4 DEF PollDone, HookInv, ShownInv
    <3>2. QED
      BY <1>4, <3>1, Merged DEF PollDone
  <2>3. QED
    BY <2>1, <2>2 DEF ShownInv
<1>5. CASE Deliver
  <2>1. UNCHANGED <<stored, raised>>
    BY <1>5 DEF Deliver, server
  <2>2. CASE \E n \in 1..stored : PushEvent(n)
    <3>1. PICK n \in 1..stored : PushEvent(n)
      BY <2>2
    <3>2. QED
      BY <1>1, <1>2, <2>1, <3>1, EventPushed DEF ShownInv
  <2>3. CASE \E n \in 1..Len(raised) : PushIncident(n)
    <3>1. PICK n \in 1..Len(raised) : PushIncident(n)
      BY <2>3
    <3>2. incidents' \in Seq(Nat) /\ ToSet(incidents)' \subseteq {n} \union ToSet(incidents)
      BY <1>1, <3>1, IncidentPushed
    <3>3. QED
      BY <1>2, <2>1, <3>1, <3>2 DEF ShownInv, PushIncident
  <2>4. CASE \E a \in Agents, s \in Known : PushWatchdog(a, s)
    BY <2>1, <2>4 DEF PushWatchdog, ShownInv
  <2>5. QED
    BY <1>5, <2>2, <2>3, <2>4, Delivered
<1>6. CASE UNCHANGED shown
  BY <1>2, <1>6 DEF ShownInv, shown
<1>7. QED
  BY <1>3, <1>4, <1>5, <1>6
     DEF Next, Store, Publish, Raise, Flip, Tell, BootAnswered, BootFails, PollAnswered, PollFails,
         Subscribe, Replay, Drop, Refused, Restart, Unmount, Click, Resolve, ReportEnds, vars

LEMMA FeedKept ==
  ASSUME ServerInv, WireInv, HookInv, ShownInv, FeedInv, [Next]_vars
  PROVE  FeedInv'
<1>1. stored \in Nat /\ Len(raised) \in Nat
  BY SentryGrows
<1>2. CASE BootDone
  <2>1. /\ IsInjective(logs)' /\ ToSet(logs)' \subseteq seen'
        /\ ToSet(incidents)' \subseteq 1..Len(raised)
    BY <1>1, <1>2, Fetched
  <2>2. MockRow \notin ToSet(incidents)'
    BY <2>1 DEF MockRow
  <2>3. boot' = "done"
    BY <1>2 DEF BootDone
  <2>4. QED
    BY <2>1, <2>2, <2>3 DEF FeedInv
<1>3. CASE Deliver
  <2>1. boot = "done" /\ boot' = "done"
    BY <1>3 DEF Deliver, FeedInv
  <2>2. CASE \E n \in 1..stored : PushEvent(n)
    <3>1. PICK n \in 1..stored : PushEvent(n)
      BY <2>2
    <3>2. QED
      BY <1>1, <2>1, <3>1, EventPushed DEF FeedInv
  <2>3. CASE \E n \in 1..Len(raised) : PushIncident(n)
    <3>1. PICK n \in 1..Len(raised) : PushIncident(n)
      BY <2>3
    <3>2. n \in Nat /\ n # MockRow
      BY <3>1 DEF MockRow
    <3>3. ToSet(incidents)' \subseteq {n} \union ToSet(incidents)
      BY <3>1, <3>2, IncidentPushed
    <3>4. QED
      BY <2>1, <3>1, <3>2, <3>3 DEF FeedInv, PushIncident
  <2>4. CASE \E a \in Agents, s \in Known : PushWatchdog(a, s)
    BY <2>1, <2>4 DEF PushWatchdog, FeedInv
  <2>5. QED
    BY <1>3, <2>2, <2>3, <2>4, Delivered
<1>4. CASE BootFails
  BY <1>4 DEF BootFails, FeedInv, shown, wire
<1>5. CASE PollDone
  BY <1>5 DEF PollDone, FeedInv, wire
<1>6. CASE Subscribe \/ Replay \/ Drop \/ Refused \/ Restart
  BY <1>6 DEF Subscribe, Replay, Drop, Refused, Restart, Connecting, Subscribed, FeedInv, shown
<1>7. CASE Unmount
  BY <1>7 DEF Unmount, FeedInv, shown
<1>8. CASE UNCHANGED <<boot, shown, stream>>
  BY <1>8 DEF FeedInv, shown
<1>9. QED
  BY <1>2, <1>3, <1>4, <1>5, <1>6, <1>7, <1>8
     DEF Next, Store, Publish, Raise, Flip, Tell, BootAnswered, PollAnswered, PollFails,
         Click, Resolve, ReportEnds, vars, shown, wire

LEMMA QuietKept ==
  ASSUME QuietInv, [Next]_vars
  PROVE  QuietInv'
<1>1. CASE BootDone
  BY <1>1 DEF BootDone, Mounted, QuietInv
<1>2. CASE Subscribe \/ Replay \/ Drop \/ Refused \/ Restart \/ Unmount
  BY <1>2 DEF Subscribe, Replay, Drop, Refused, Restart, Unmount, Connecting, Subscribed, QuietInv
<1>3. CASE UNCHANGED <<cancelled, stream>>
  BY <1>3 DEF QuietInv
<1>4. QED
  BY <1>1, <1>2, <1>3
     DEF Next, Store, Publish, Raise, Flip, Tell, BootAnswered, BootFails, PollAnswered, PollDone,
         PollFails, Deliver, Click, Resolve, ReportEnds, vars, wire

LEMMA LiveKept ==
  ASSUME LiveMeansStreaming, [Next]_vars
  PROVE  LiveMeansStreaming'
<1>1. CASE BootDone \/ BootFails \/ PollFails
  BY <1>1 DEF BootDone, BootFails, PollFails, LiveMeansStreaming, wire
<1>2. CASE Subscribe \/ Replay \/ Drop \/ Refused \/ Restart \/ Unmount
  BY <1>2 DEF Subscribe, Replay, Drop, Refused, Restart, Unmount, Connecting, LiveMeansStreaming
<1>3. CASE UNCHANGED <<live, stream>>
  BY <1>3 DEF LiveMeansStreaming
<1>4. QED
  BY <1>1, <1>2, <1>3
     DEF Next, Store, Publish, Raise, Flip, Tell, BootAnswered, PollAnswered, PollDone, Deliver,
         Click, Resolve, ReportEnds, vars, wire

LEMMA ReportKept ==
  ASSUME ServerInv, ShownInv, ReportInv, [Next]_vars
  PROVE  ReportInv'
<1> USE BoundsAssumption
<1>1. Len(raised) \in Nat /\ Len(raised)' \in Nat /\ Len(raised) <= Len(raised)'
  BY SentryGrows
<1>2. CASE Click
  <2>1. report' = [phase |-> "resolving", uuids |-> {}, onScreen |-> ToSet(incidents), clicked |-> TRUE]
        /\ UNCHANGED raised
    BY <1>2 DEF Click, server
  <2>2. ToSet(incidents) \subseteq 0..Len(raised) /\ ToSet(incidents) \subseteq Nat
    BY <1>1 DEF ShownInv
  <2>3. QED
    BY <2>1, <2>2 DEF ReportInv, ReportCoversShown
<1>3. CASE Resolve
  <2>1. UNCHANGED raised /\ report.phase = "resolving"
    BY <1>3 DEF Resolve, server
  <2>2. CASE raised = <<>>
    BY <1>3, <2>1, <2>2 DEF Resolve, ReportOver, NoReport, ReportInv, ReportCoversShown
  <2>3. CASE raised # <<>>
    <3> DEFINE u == ToSet(Newest(Len(raised), ListLimit))
    <3>1. u \subseteq Nat /\ (Len(raised) <= ListLimit => u = 1..Len(raised)) /\ ListLimit \in Nat
      <4>1. ListLimit \in Nat
        OBVIOUS
      <4>2. 1..Len(raised) \subseteq Nat
        BY <1>1
      <4>3. u \subseteq 1..Len(raised) /\ (Len(raised) <= ListLimit => u = 1..Len(raised))
        BY <1>1, <4>1, NewestMembers
      <4>4. QED
        BY <4>1, <4>2, <4>3
    <3>2. report' = [report EXCEPT !.phase = "downloading", !.uuids = u]
      BY <1>3, <2>3 DEF Resolve
    <3> HIDE DEF u
    <3>3. /\ report'.phase = "downloading" /\ report'.uuids = u
          /\ report'.onScreen = report.onScreen /\ report'.clicked = report.clicked
      BY <3>2 DEF ReportInv
    <3>4. report.onScreen \ {MockRow} \subseteq 1..Len(raised)
      <4>1. \A x \in 0..Len(raised) : x # 0 => x \in 1..Len(raised)
        BY <1>1
      <4>2. QED
        BY <4>1 DEF ReportInv, MockRow
    <3>5. ReportCoversShown'
      BY <1>1, <2>1, <3>1, <3>3, <3>4 DEF ReportCoversShown
    <3>6. report' \in [phase : {"", "resolving", "downloading", "error"}, uuids : SUBSET Nat,
                       onScreen : SUBSET Nat, clicked : BOOLEAN]
      BY <3>1, <3>2 DEF ReportInv
    <3>7. QED
      BY <2>1, <3>3, <3>5, <3>6 DEF ReportInv
  <2>4. QED
    BY <2>2, <2>3
<1>4. CASE ReportEnds
  BY <1>4 DEF ReportEnds, ReportOver, NoReport, ReportInv, ReportCoversShown
<1>5. CASE UNCHANGED report
  <2>1. 0..Len(raised) \subseteq 0..Len(raised)' /\ (Len(raised) > ListLimit => Len(raised)' > ListLimit)
    <3>1. ListLimit \in Nat
      OBVIOUS
    <3>2. QED
      BY <1>1, <3>1
  <2>2. ReportCoversShown'
    BY <1>5, <2>1 DEF ReportInv, ReportCoversShown
  <2>3. QED
    BY <1>5, <2>1, <2>2 DEF ReportInv
<1>6. QED
  BY <1>2, <1>3, <1>4, <1>5
     DEF Next, Store, Publish, Raise, Flip, Tell, BootAnswered, BootDone, BootFails, PollAnswered,
         PollDone, PollFails, Subscribe, Replay, Deliver, Drop, Refused, Restart, Unmount, vars

----------------------------------------------------------------------------
(* Where each event and each incident is.                                  *)

\* A list cut to n is full, or has everything the list had.
LEMMA NothingCut ==
  ASSUME NEW S, NEW s \in Seq(S), NEW n \in Nat
  PROVE  Len(FirstOf(s, n)) = n \/ ToSet(s) \subseteq ToSet(FirstOf(s, n))
<1> DEFINE t == FirstOf(s, n)
<1>1. /\ t \in Seq(S) /\ Len(s) \in Nat
      /\ Len(t) = IF Len(s) < n THEN Len(s) ELSE n
      /\ \A i \in 1..Len(t) : t[i] = s[i]
  BY FirstOfFacts
<1> HIDE DEF t
<1>2. CASE Len(s) < n
  <2>1. \A x \in ToSet(s) : \E i \in 1..Len(t) : x = t[i]
    BY <1>1, <1>2, MembersOf
  <2>2. ToSet(s) \subseteq ToSet(t)
    BY <1>1, <2>1, MembersOf
  <2>3. QED
    BY <2>2 DEF t
<1>3. QED
  BY <1>1, <1>2 DEF t

\* A row put in front pushes nothing out of a list that is not full, and a full
\* list stays full.
LEMMA NothingPushedOut ==
  ASSUME NEW s \in Seq(Nat), NEW x \in Nat, NEW n \in Nat
  PROVE  LET t == FirstOf(<<x>> \o s, n)
         IN  /\ Len(t) = n \/ ({x} \union ToSet(s) \subseteq ToSet(t))
             /\ Len(s) >= n => Len(t) = n
<1> DEFINE u == <<x>> \o s
<1>1. /\ u \in Seq(Nat) /\ Len(s) \in Nat /\ Len(u) = Len(s) + 1
      /\ u[1] = x /\ \A i \in 1..Len(s) : u[i + 1] = s[i]
  OBVIOUS
<1> HIDE DEF u
<1>2. x \in ToSet(u)
  BY <1>1, MembersOf
<1>3. ToSet(s) \subseteq ToSet(u)
  <2> SUFFICES ASSUME NEW y \in ToSet(s) PROVE y \in ToSet(u)
    OBVIOUS
  <2>1. PICK i \in 1..Len(s) : y = s[i]
    BY MembersOf
  <2>2. y = u[i + 1] /\ i + 1 \in 1..Len(u)
    BY <1>1, <2>1
  <2>3. QED
    BY <1>1, <2>2, MembersOf
<1>4. Len(FirstOf(u, n)) = n \/ ToSet(u) \subseteq ToSet(FirstOf(u, n))
  BY <1>1, NothingCut
<1>5. Len(FirstOf(u, n)) = IF Len(u) < n THEN Len(u) ELSE n
  BY <1>1, FirstOfFacts
<1>6. Len(s) >= n => Len(FirstOf(u, n)) = n
  BY <1>1, <1>5
<1>7. QED
  BY <1>2, <1>3, <1>4, <1>6 DEF u

\* A queue keeps its members when one joins it,
LEMMA AllQueued ==
  ASSUME NEW S, NEW q \in Seq(S), NEW m \in S
  PROVE  ToSet(q) \union {m} \subseteq ToSet(Append(q, m))
<1>1. /\ Append(q, m) \in Seq(S)
      /\ Len(Append(q, m)) = Len(q) + 1
      /\ \A i \in 1..(Len(q) + 1) : Append(q, m)[i] = IF i <= Len(q) THEN q[i] ELSE m
  OBVIOUS
<1>2. QED
  BY <1>1 DEF ToSet

\* and loses only its head when one leaves.
LEMMA OneDequeued ==
  ASSUME NEW S, NEW q \in Seq(S), q # <<>>
  PROVE  ToSet(q) \subseteq {Head(q)} \union ToSet(Tail(q))
<1>1. /\ Len(q) \in Nat /\ Tail(q) \in Seq(S) /\ Len(Tail(q)) = Len(q) - 1 /\ Head(q) = q[1]
      /\ \A i \in 1..(Len(q) - 1) : Tail(q)[i] = q[i + 1]
  OBVIOUS
<1>2. \A i \in 1..Len(q) : i = 1 \/ (i - 1 \in 1..(Len(q) - 1) /\ i = (i - 1) + 1)
  BY <1>1
<1> DEFINE t == Tail(q)
<1> HIDE DEF t
<1>3. t \in Seq(S) /\ Len(t) = Len(q) - 1 /\ \A i \in 1..(Len(q) - 1) : t[i] = q[i + 1]
  BY <1>1 DEF t
<1>4. ASSUME NEW x \in ToSet(q), x # Head(q) PROVE x \in ToSet(t)
  <2>1. PICK i \in 1..Len(q) : x = q[i]
    BY MembersOf
  <2>2. i - 1 \in 1..Len(t) /\ x = t[i - 1]
    BY <1>1, <1>2, <1>3, <1>4, <2>1
  <2>3. QED
    BY <1>3, <2>2, MembersOf
<1>5. QED
  BY <1>4 DEF t

\* Nothing is queued or replayed but on an open stream.
QueueInv ==
  /\ ~Subscribed => queue = <<>>
  /\ stream # "tailing" => replay = <<>>

\* What pushEvent filters out is in the feed, unless the feed is full.
SeenInv ==
  IF boot = "done" THEN ToSet(logs) = seen \/ Len(logs) = MaxRows ELSE seen = {}

OnTheWay(m) == m \in unpublished \union missed \union ToSet(queue)

\* Until the cleanup, each event Sentry has stored is on its way or has been seen.
EventsPlaced ==
  Mounted => \A n \in 1..stored : OnTheWay(EventMsg(n)) \/ n \in ToSet(replay) \/ n \in seen

\* Each incident is on its way or, once the fetch is merged, in the bar.
IncidentsPlaced ==
  Mounted => \A n \in 1..Len(raised) :
    \/ OnTheWay(IncidentMsg(n))
    \/ boot = "done" /\ (n \in ToSet(incidents) \/ Len(incidents) >= MaxShown)

PlacedInv == QueueInv /\ SeenInv /\ EventsPlaced /\ IncidentsPlaced

\* Only an open stream has a queue, and only Replay fills the replay.
LEMMA QueueKept ==
  ASSUME FeedInv, QueueInv, [Next]_vars
  PROVE  QueueInv'
<1> USE DEF QueueInv, Subscribed
<1>1. CASE BootDone
  BY <1>1 DEF BootDone, BootComplete, FeedInv
<1>2. CASE \E m \in unpublished : Publish(m)
  BY <1>2 DEF Publish, PublishTo
<1>3. CASE \E a \in Agents : Tell(a)
  BY <1>3 DEF Tell
<1>4. CASE Subscribe \/ Replay \/ Deliver \/ Drop \/ Refused \/ Restart \/ Unmount
  BY <1>4 DEF Subscribe, Replay, Deliver, Drop, Refused, Restart, Unmount, Connecting
<1>5. CASE UNCHANGED wire
  BY <1>5 DEF wire
<1>6. QED
  BY <1>1, <1>2, <1>3, <1>4, <1>5
     DEF Next, Store, Raise, Flip, BootAnswered, BootFails, PollAnswered, PollDone, PollFails,
         Click, Resolve, ReportEnds, vars

\* Each row that enters `seen` enters the feed in the same step.
LEMMA SeenKept ==
  ASSUME ServerInv, WireInv, HookInv, ShownInv, FeedInv, SeenInv, [Next]_vars
  PROVE  SeenInv' /\ seen \subseteq seen'
<1> USE BoundsAssumption
<1>1. stored \in Nat /\ Len(raised) \in Nat /\ MaxRows \in Nat
  BY SentryGrows
<1>2. CASE BootDone
  <2> DEFINE t == Newest(got.events, BootLimit)
  <2>1. boot # "done" /\ boot' = "done" /\ got.events # NotYet
    BY <1>2 DEF BootDone, BootComplete, HookInv
  <2>2. t \in Seq(Nat)
    <3>1. got.events \in Nat
      BY <1>1, <2>1 DEF HookInv
    <3>2. BootLimit \in Nat
      OBVIOUS
    <3>3. QED
      BY <3>1, <3>2, NewestFacts
  <2>3. logs' = FirstOf(t, MaxRows) /\ seen' = seen \union ToSet(t) /\ seen = {}
    BY <1>2, <2>1 DEF BootDone, SeenInv
  <2> HIDE DEF t
  <2>4. Len(logs') = MaxRows \/ ToSet(t) \subseteq ToSet(logs')
    BY <1>1, <2>2, <2>3, NothingCut
  <2>5. ToSet(logs)' \subseteq seen'
    BY <1>1, <1>2, Fetched
  <2>6. QED
    BY <2>1, <2>3, <2>4, <2>5 DEF SeenInv, ToSet
<1>3. CASE Deliver
  <2>1. boot = "done" /\ boot' = "done"
    BY <1>3 DEF Deliver, FeedInv
  <2>2. CASE \E n \in 1..stored : PushEvent(n)
    <3>1. PICK n \in 1..stored : PushEvent(n)
      BY <2>2
    <3>2. CASE n \in seen
      BY <2>1, <3>1, <3>2 DEF PushEvent, SeenInv, ToSet
    <3>3. CASE n \notin seen
      <4>1. seen' = seen \union {n} /\ logs' = FirstOf(<<n>> \o logs, MaxRows) /\ n \in Nat /\ logs \in Seq(Nat)
        BY <1>1, <3>1, <3>3 DEF PushEvent, ShownInv
      <4>2. /\ Len(logs') = MaxRows \/ ({n} \union ToSet(logs) \subseteq ToSet(logs'))
            /\ Len(logs) >= MaxRows => Len(logs') = MaxRows
        BY <1>1, <4>1, NothingPushedOut
      <4>3. ToSet(logs') \subseteq {n} \union ToSet(logs)
        BY <1>1, <4>1, Prepended
      <4>4. CASE ToSet(logs) = seen
        BY <2>1, <4>1, <4>2, <4>3, <4>4 DEF SeenInv, ToSet
      <4>5. CASE Len(logs) = MaxRows
        BY <1>1, <2>1, <4>1, <4>2, <4>5 DEF SeenInv
      <4>6. QED
        BY <2>1, <4>4, <4>5 DEF SeenInv
    <3>4. QED
      BY <3>2, <3>3
  <2>3. CASE \E n \in 1..Len(raised) : PushIncident(n)
    BY <2>1, <2>3 DEF PushIncident, SeenInv, ToSet
  <2>4. CASE \E a \in Agents, s \in Known : PushWatchdog(a, s)
    BY <2>1, <2>4 DEF PushWatchdog, SeenInv, ToSet
  <2>5. QED
    BY <1>3, <2>2, <2>3, <2>4, Delivered
<1>4. CASE BootFails
  BY <1>4 DEF BootFails, shown, SeenInv, ToSet
<1>5. CASE UNCHANGED <<logs, seen, boot>>
  BY <1>5 DEF SeenInv, ToSet
<1>6. CASE UNCHANGED <<shown, boot>>
  BY <1>5, <1>6 DEF shown
<1>7. CASE PollDone
  BY <1>5, <1>7 DEF PollDone
<1>8. QED
  BY <1>2, <1>3, <1>4, <1>6, <1>7
     DEF Next, Store, Publish, Raise, Flip, Tell, BootAnswered, PollAnswered, PollFails,
         Subscribe, Replay, Drop, Refused, Restart, Unmount, Click, Resolve, ReportEnds, vars

\* What is on its way stays so until it is read from the vault again, for a
\* replay, or received.
LEMMA StaysOnTheWay ==
  ASSUME ServerInv, WireInv, QueueInv, [Next]_vars, Mounted', NEW m \in Publishable, OnTheWay(m)
  PROVE  \/ OnTheWay(m)'
         \/ Replay /\ \E n \in ToSet(replay') : m = EventMsg(n)
         \/ Deliver /\ queue # <<>> /\ m = Head(queue) /\ Receive(m)
<1>1. queue \in Seq(Messages) /\ Publishable \subseteq Messages /\ unpublished \subseteq Publishable
  BY DEF WireInv, ServerInv, Publishable, Messages
<1>2. OnTheWay(m)' <=> m \in unpublished' \/ m \in missed' \/ m \in ToSet(queue')
  BY DEF OnTheWay
<1>3. OnTheWay(m) <=> m \in unpublished \/ m \in missed \/ m \in ToSet(queue)
  BY DEF OnTheWay
<1>4. ASSUME unpublished \subseteq unpublished', UNCHANGED <<missed, queue>> PROVE OnTheWay(m)'
  BY <1>2, <1>3, <1>4
<1>5. ASSUME NEW x \in Messages, queue' = Append(queue, x), missed' = missed,
             unpublished \subseteq unpublished' \union {x}
      PROVE  OnTheWay(m)'
  <2>1. ToSet(queue) \union {x} \subseteq ToSet(queue')
    BY <1>1, <1>5, AllQueued
  <2>2. QED
    BY <1>2, <1>3, <1>5, <2>1
<1>6. CASE \E x \in unpublished : Publish(x)
  <2>1. PICK x \in unpublished : Publish(x)
    BY <1>6
  <2>2. unpublished' = unpublished \ {x}
    BY <2>1 DEF Publish
  <2>3. CASE queue' = Append(queue, x) /\ missed' = missed
    BY <1>1, <1>5, <2>2, <2>3
  <2>4. CASE missed' = missed \union {x} /\ queue' = queue
    BY <1>2, <1>3, <2>2, <2>4
  <2>5. QED
    BY <2>1, <2>3, <2>4 DEF Publish, PublishTo
<1>7. CASE \E a \in Agents : Tell(a)
  <2>1. PICK a \in Agents : Tell(a)
    BY <1>7
  <2>2. StatusMsg(a) \in Messages
    <3>1. status[a] \in Statuses
      BY <2>1 DEF Tell, ServerInv, Known
    <3>2. QED
      BY <3>1, StatusIsMessage
  <2>3. UNCHANGED <<unpublished, missed>> /\ (queue' = queue \/ queue' = Append(queue, StatusMsg(a)))
    BY <2>1 DEF Tell
  <2>4. CASE queue' = queue
    BY <1>4, <2>3, <2>4
  <2>5. CASE queue' = Append(queue, StatusMsg(a))
    BY <1>5, <2>2, <2>3, <2>5
  <2>6. QED
    BY <2>3, <2>4, <2>5
<1>8. CASE Subscribe
  <2>1. queue = <<>> /\ queue' = <<>> /\ UNCHANGED <<unpublished, missed>>
    BY <1>8 DEF Subscribe, Connecting, Subscribed, QueueInv, server
  <2>2. QED
    BY <1>4, <2>1
<1>9. CASE Replay
  <2>1. replay' = Newest(stored, ReplayLimit) /\ UNCHANGED <<unpublished, queue>>
        /\ missed' = missed \ {EventMsg(n) : n \in ToSet(replay')}
    BY <1>9 DEF Replay, server
  <2>2. QED
    BY <1>2, <1>3, <1>9, <2>1
<1>10. CASE Deliver
  <2>1. UNCHANGED <<unpublished, missed>>
    BY <1>10 DEF Deliver, server
  <2>2. CASE queue' = queue
    BY <1>4, <2>1, <2>2
  <2>3. CASE queue # <<>> /\ Receive(Head(queue)) /\ queue' = Tail(queue)
    <3>1. ToSet(queue) \subseteq {Head(queue)} \union ToSet(queue')
      BY <1>1, <2>3, OneDequeued
    <3>2. QED
      BY <1>2, <1>3, <1>10, <2>1, <2>3, <3>1
  <2>4. QED
    BY <1>10, <2>2, <2>3 DEF Deliver
<1>11. CASE Drop \/ Restart
  <2>1. m.type # "watchdog"
    BY DEF Publishable
  <2>2. /\ {x \in ToSet(queue) : x.type # "watchdog"} \subseteq missed' /\ missed \subseteq missed'
        /\ unpublished \subseteq unpublished' \union missed'
    BY <1>11 DEF Drop, Restart, Undelivered, server
  <2>3. QED
    BY <1>2, <1>3, <2>1, <2>2
<1>12. CASE Unmount
  BY <1>12 DEF Unmount, Mounted
<1>13. CASE Store \/ (\E n \in Events : Raise(n)) \/ BootDone \/ Refused
  BY <1>4, <1>13 DEF Store, Raise, BootDone, Refused, server, wire
<1>14. CASE UNCHANGED <<unpublished, missed, queue>>
  BY <1>4, <1>14
<1>15. QED
  BY <1>6, <1>7, <1>8, <1>9, <1>10, <1>11, <1>12, <1>13, <1>14
     DEF Next, Flip, BootAnswered, BootFails, PollAnswered, PollDone, PollFails, Click, Resolve, ReportEnds,
         vars, server, wire

\* A row of the replay is received, or lost with the stream and then missed.
LEMMA StaysReplayed ==
  ASSUME WireInv, QueueInv, [Next]_vars, Mounted', NEW n \in ToSet(replay)
  PROVE  OnTheWay(EventMsg(n))' \/ n \in ToSet(replay') \/ n \in seen'
<1>1. replay \in Seq(Nat)
  BY DEF WireInv
<1>2. CASE Deliver
  <2>1. CASE replay # <<>> /\ PushEvent(Head(replay)) /\ replay' = Tail(replay)
    <3>1. n = Head(replay) \/ n \in ToSet(replay')
      BY <1>1, <2>1, OneDequeued
    <3>2. n = Head(replay) => n \in seen'
      BY <2>1 DEF PushEvent
    <3>3. QED
      BY <3>1, <3>2
  <2>2. CASE replay' = replay
    BY <2>2
  <2>3. QED
    BY <1>2, <2>1, <2>2 DEF Deliver
<1>3. CASE Drop \/ Restart
  BY <1>3 DEF Drop, Restart, Undelivered, OnTheWay
<1>4. CASE Replay
  <2>1. replay = <<>> /\ ToSet(<<>>) = {}
    BY <1>4 DEF Replay, QueueInv, ToSet
  <2>2. QED
    BY <2>1
<1>5. CASE Unmount
  BY <1>5 DEF Unmount, Mounted
<1>6. CASE replay' = replay
  BY <1>6
<1>7. QED
  BY <1>2, <1>3, <1>4, <1>5, <1>6
     DEF Next, Store, Publish, Raise, Flip, Tell, BootAnswered, BootDone, BootFails, PollAnswered, PollDone,
         PollFails, Subscribe, Refused, Click, Resolve, ReportEnds, vars, wire

\* An event leaves its way only into a replay or into `seen`.
LEMMA EventsKept ==
  ASSUME ServerInv, WireInv, HookInv, ShownInv, FeedInv, QueueInv, SeenInv, EventsPlaced, [Next]_vars
  PROVE  EventsPlaced'
<1> SUFFICES ASSUME Mounted', NEW n \in 1..stored'
             PROVE  OnTheWay(EventMsg(n))' \/ n \in ToSet(replay') \/ n \in seen'
  BY DEF EventsPlaced, ToSet
<1>1. stored \in Nat /\ stored' \in Nat /\ seen \subseteq seen'
  BY SentryGrows, SeenKept
<1>2. Mounted
  BY DEF Next, Mounted, Store, Publish, Raise, Flip, Tell, BootAnswered, BootDone, BootFails, PollAnswered,
         PollDone, PollFails, Subscribe, Replay, Deliver, Drop, Refused, Restart, Unmount, Click, Resolve, ReportEnds, vars
<1>3. CASE n \in 1..stored
  <2>1. OnTheWay(EventMsg(n)) \/ n \in ToSet(replay) \/ n \in seen
    BY <1>2, <1>3 DEF EventsPlaced
  <2>2. CASE OnTheWay(EventMsg(n))
    <3>1. EventMsg(n) \in Publishable
      BY <1>1, <1>3, AboutEvent
    <3>2. CASE \E k \in ToSet(replay') : EventMsg(n) = EventMsg(k)
      BY <3>2 DEF EventMsg
    <3>3. CASE Receive(EventMsg(n))
      BY <3>3 DEF Receive, PushEvent, EventMsg
    <3>4. QED
      BY <2>2, <3>1, <3>2, <3>3, StaysOnTheWay
  <2>3. CASE n \in ToSet(replay)
    BY <2>3, StaysReplayed
  <2>4. CASE n \in seen
    BY <1>1, <2>4
  <2>5. QED
    BY <2>1, <2>2, <2>3, <2>4
<1>4. CASE n \notin 1..stored
  <2>1. stored' # stored
    BY <1>4
  <2>2. Store
    BY <2>1 DEF Next, Publish, Raise, Flip, Tell, BootAnswered, BootDone, BootFails, PollAnswered, PollDone,
                PollFails, Subscribe, Replay, Deliver, Drop, Refused, Restart, Unmount, Click, Resolve, ReportEnds,
                vars, server
  <2>3. stored' = stored + 1 /\ unpublished' = unpublished \union {EventMsg(stored + 1)}
    BY <2>2 DEF Store
  <2>4. n = stored + 1
    BY <1>1, <1>4, <2>3
  <2>5. QED
    BY <2>3, <2>4 DEF OnTheWay
<1>5. QED
  BY <1>3, <1>4

\* An incident leaves its way only into the bar, by the stream or by the fetch.
LEMMA IncidentsKept ==
  ASSUME ServerInv, WireInv, HookInv, ShownInv, FeedInv, QueueInv, IncidentsPlaced, [Next]_vars
  PROVE  IncidentsPlaced'
<1> USE BoundsAssumption
<1> DEFINE InBar(n) == boot = "done" /\ (n \in ToSet(incidents) \/ Len(incidents) >= MaxShown)
<1> SUFFICES ASSUME Mounted', NEW n \in 1..Len(raised)'
             PROVE  OnTheWay(IncidentMsg(n))' \/ InBar(n)'
  BY DEF IncidentsPlaced
<1>1. Len(raised) \in Nat /\ Len(raised)' \in Nat /\ MaxShown \in Nat /\ incidents \in Seq(Nat)
  BY SentryGrows DEF ShownInv
<1>2. Mounted
  BY DEF Next, Mounted, Store, Publish, Raise, Flip, Tell, BootAnswered, BootDone, BootFails, PollAnswered,
         PollDone, PollFails, Subscribe, Replay, Deliver, Drop, Refused, Restart, Unmount, Click, Resolve, ReportEnds, vars
<1>3. ASSUME NEW k \in Nat, PushIncident(k), boot' = boot, InBar(n) PROVE InBar(n)'
  <2>1. incidents' = FirstOf(<<k>> \o incidents, MaxShown)
    BY <1>3 DEF PushIncident
  <2>2. /\ Len(incidents') = MaxShown \/ ToSet(incidents) \subseteq ToSet(incidents')
        /\ Len(incidents) >= MaxShown => Len(incidents') = MaxShown
    BY <1>1, <1>3, <2>1, NothingPushedOut
  <2>3. Len(incidents') = MaxShown => Len(incidents') >= MaxShown
    BY <1>1
  <2>4. n \in ToSet(incidents)' \/ Len(incidents)' >= MaxShown
    <3>1. CASE n \in ToSet(incidents)
      BY <2>2, <2>3, <3>1 DEF ToSet
    <3>2. CASE Len(incidents) >= MaxShown
      BY <2>2, <2>3, <3>2
    <3>3. QED
      BY <1>3, <3>1, <3>2
  <2>5. QED
    BY <1>3, <2>4
<1>4. InBar(n) => InBar(n)'
  <2>1. CASE Deliver
    <3>1. boot' = boot
      BY <2>1 DEF Deliver
    <3>2. CASE UNCHANGED incidents
      BY <3>1, <3>2 DEF ToSet
    <3>3. CASE \E k \in 1..Len(raised) : PushIncident(k)
      BY <1>1, <1>3, <3>1, <3>3
    <3>4. QED
      BY <2>1, <3>2, <3>3, Delivered DEF PushEvent, PushWatchdog
  <2>2. CASE UNCHANGED <<incidents, boot>>
    BY <2>2 DEF ToSet
  <2>3. CASE BootDone \/ BootFails
    BY <2>3 DEF BootDone, BootComplete, BootFails
  <2>4. QED
    BY <2>1, <2>2, <2>3
       DEF Next, Store, Publish, Raise, Flip, Tell, BootAnswered, PollAnswered, PollDone, PollFails,
           Subscribe, Replay, Drop, Refused, Restart, Unmount, Click, Resolve, ReportEnds, vars, shown
<1>5. CASE n \in 1..Len(raised)
  <2>1. OnTheWay(IncidentMsg(n)) \/ InBar(n)
    BY <1>2, <1>5 DEF IncidentsPlaced
  <2>2. CASE OnTheWay(IncidentMsg(n))
    <3>1. IncidentMsg(n) \in Publishable /\ IncidentMsg(n).type = "incident" /\ IncidentMsg(n).id = n
      BY <1>1, <1>5, AboutIncident DEF IncidentMsg
    <3>2. \A k : IncidentMsg(n) # EventMsg(k)
      BY <3>1 DEF EventMsg
    <3>3. CASE Deliver /\ Receive(IncidentMsg(n))
      <4>1. PushIncident(n)
        BY <3>1, <3>3 DEF Receive
      <4>2. boot' = "done"
        BY <3>3 DEF Deliver, FeedInv
      <4>3. n \in Nat /\ incidents' = FirstOf(<<n>> \o incidents, MaxShown)
        BY <1>1, <1>5, <4>1 DEF PushIncident
      <4>4. Len(incidents') = MaxShown \/ n \in ToSet(incidents')
        BY <1>1, <4>3, NothingPushedOut
      <4>5. QED
        BY <1>1, <4>2, <4>4 DEF ToSet
    <3>4. QED
      BY <2>2, <3>1, <3>2, <3>3, StaysOnTheWay
  <2>3. QED
    BY <1>4, <2>1, <2>2
<1>6. CASE n \notin 1..Len(raised)
  <2>1. raised' # raised
    BY <1>6
  <2>2. PICK e \in Events : Raise(e)
    BY <2>1 DEF Next, Store, Publish, Flip, Tell, BootAnswered, BootDone, BootFails, PollAnswered, PollDone,
                PollFails, Subscribe, Replay, Deliver, Drop, Refused, Restart, Unmount, Click, Resolve, ReportEnds,
                vars, server
  <2>3. raised' = Append(raised, e) /\ unpublished' = unpublished \union {IncidentMsg(Len(raised) + 1)}
    BY <2>2 DEF Raise
  <2>4. Len(raised') = Len(raised) + 1
    BY <2>3 DEF ServerInv, Events
  <2>5. n = Len(raised) + 1
    BY <1>1, <1>6, <2>4
  <2>6. QED
    BY <2>3, <2>5 DEF OnTheWay
<1>7. QED
  BY <1>5, <1>6

----------------------------------------------------------------------------
(* The theorems.                                                           *)

\* Every reachable state has the invariant: it holds at first and each part is
\* kept by every step from the parts it rests on.
THEOREM LiveInvariant == Spec => []LiveInv
<1>1. ASSUME LiveInv, [Next]_vars PROVE LiveInv'
  <2>1. /\ ServerInv /\ WireInv /\ HookInv /\ ShownInv /\ FeedInv /\ QuietInv
        /\ LiveMeansStreaming /\ ReportInv
    BY <1>1 DEF LiveInv
  <2>2. ServerInv' /\ WireInv' /\ HookInv' /\ ShownInv'
    BY <1>1, <2>1, ServerKept, WireKept, HookKept, ShownKept
  <2>3. FeedInv' /\ QuietInv' /\ LiveMeansStreaming' /\ ReportInv'
    BY <1>1, <2>1, FeedKept, QuietKept, LiveKept, ReportKept
  <2>4. QED
    BY <2>2, <2>3 DEF LiveInv
<1>2. QED
  BY <1>1, InitLive, PTL DEF Spec

\* The hook's types, and that it keeps no more rows and no queue more messages
\* than the code's limits, whatever those are.
THEOREM LiveTypeCorrect == Spec => []TypeOK
<1>1. LiveInv => TypeOK
  <2> SUFFICES ASSUME LiveInv PROVE TypeOK
    OBVIOUS
  <2>1. ServerInv /\ WireInv /\ HookInv /\ ShownInv /\ ReportInv
    BY DEF LiveInv
  <2>2. Len(raised) \in Nat /\ DOMAIN raised = 1..Len(raised)
    BY <2>1 DEF ServerInv
  <2>3. ToSet(incidents) \subseteq {MockRow} \union DOMAIN raised
    <3>1. \A x \in 0..Len(raised) : x = 0 \/ x \in 1..Len(raised)
      BY <2>2
    <3>2. QED
      BY <2>1, <2>2, <3>1 DEF ShownInv, MockRow
  <2>4. ToSet(queue) \subseteq Messages
    BY <2>1, MembersOf DEF WireInv
  <2>5. unpublished \union missed \subseteq [type : {"event", "incident"}, id : Nat]
    BY <2>1 DEF ServerInv, WireInv, Publishable
  <2>6. report.phase \in {"", "resolving", "downloading", "error"}
    BY <2>1 DEF ReportInv
  <2>7. QED
    BY <2>1, <2>3, <2>4, <2>5, <2>6 DEF TypeOK, ServerInv, WireInv, HookInv, ShownInv
<1>2. QED
  BY <1>1, LiveInvariant, PTL

\* pushEvent's filter works although the fetch, the replay and the stream
\* overlap: no row is in the feed twice, nor one of the mock model among live ones.
THEOREM RowsAlwaysOnce == Spec => []RowsOnce
<1>1. LiveInv => RowsOnce
  <2> SUFFICES ASSUME LiveInv PROVE RowsOnce
    OBVIOUS
  <2>1. FeedInv /\ ShownInv /\ stored \in Nat
    BY BoundsAssumption DEF LiveInv, ServerInv
  <2>2. CASE boot = "done"
    <3>1. MockRow \notin seen
      BY <2>1 DEF ShownInv, MockRow
    <3>2. QED
      BY <2>1, <2>2, <3>1 DEF FeedInv, RowsOnce
  <2>3. CASE boot # "done"
    <3>1. IsInjective(<<MockRow>>)
      BY DEF IsInjective
    <3>2. QED
      BY <2>1, <2>3, <3>1 DEF FeedInv, RowsOnce
  <2>4. QED
    BY <2>2, <2>3
<1>2. QED
  BY <1>1, LiveInvariant, PTL

\* Where everything is, and that nothing is queued but on an open stream.
THEOREM PlacedInvariant == Spec => []PlacedInv
<1>1. Init => PlacedInv
  <2> SUFFICES ASSUME Init PROVE PlacedInv
    OBVIOUS
  <2>1. queue = <<>> /\ replay = <<>> /\ seen = {} /\ boot = "pending" /\ stored = 0 /\ Len(raised) = 0
    BY DEF Init
  <2>2. QED
    BY <2>1 DEF PlacedInv, QueueInv, SeenInv, EventsPlaced, IncidentsPlaced
<1>2. ASSUME LiveInv, PlacedInv, [Next]_vars PROVE PlacedInv'
  <2>1. /\ ServerInv /\ WireInv /\ HookInv /\ ShownInv /\ FeedInv
        /\ QueueInv /\ SeenInv /\ EventsPlaced /\ IncidentsPlaced
    BY <1>2 DEF LiveInv, PlacedInv
  <2>2. QED
    BY <1>2, <2>1, QueueKept, SeenKept, EventsKept, IncidentsKept DEF PlacedInv
<1>3. QED
  BY <1>1, <1>2, LiveInvariant, PTL DEF Spec

\* What lies between the fetch, the subscription and the replay is in the feed or
\* in the bar, on its way, or known to be missed, however the connection fails.
THEOREM NothingEverLostSilently == Spec => []NothingLostSilently
<1>1. LiveInv /\ PlacedInv => NothingLostSilently
  <2> SUFFICES ASSUME LiveInv, PlacedInv, stream = "tailing"
               PROVE  /\ \A n \in 1..stored : \/ n \in ToSet(logs) \/ Len(logs) = MaxRows
                                              \/ Contains(replay, n) \/ InFlight(EventMsg(n))
                                              \/ EventMsg(n) \in missed
                      /\ \A n \in DOMAIN raised : \/ n \in ToSet(incidents) \/ Len(incidents) >= MaxShown
                                                  \/ InFlight(IncidentMsg(n)) \/ IncidentMsg(n) \in missed
    BY DEF NothingLostSilently
  <2>1. Mounted /\ boot = "done"
    BY DEF LiveInv, QuietInv, FeedInv, Mounted
  <2>2. queue \in Seq(Messages) /\ replay \in Seq(Nat) /\ DOMAIN raised = 1..Len(raised)
    BY DEF LiveInv, WireInv, ServerInv
  <2>3. \A m : OnTheWay(m) => InFlight(m) \/ m \in missed
    <3>1. \A m \in ToSet(queue) : Contains(queue, m)
      BY <2>2, MembersOf DEF Contains
    <3>2. QED
      BY <3>1 DEF OnTheWay, InFlight
  <2>4. \A n \in ToSet(replay) : Contains(replay, n)
    BY <2>2, MembersOf DEF Contains
  <2>5. \A n \in seen : n \in ToSet(logs) \/ Len(logs) = MaxRows
    BY <2>1 DEF PlacedInv, SeenInv
  <2>6. QED
    BY <2>1, <2>2, <2>3, <2>4, <2>5 DEF PlacedInv, EventsPlaced, IncidentsPlaced
<1>2. QED
  BY <1>1, LiveInvariant, PlacedInvariant, PTL

\* The hook never says "live" while its stream is lost or refused, in whatever
\* order the fetch, the polls and the stream's callbacks run.
THEOREM LiveAlwaysStreams == Spec => []LiveMeansStreaming
<1>1. LiveInv => LiveMeansStreaming
  BY DEF LiveInv
<1>2. QED
  BY <1>1, LiveInvariant, PTL

\* The report of TopNavbar covers what was on the screen, although the list it
\* is made of is fetched anew after the click.
THEOREM ReportAlwaysCovers == Spec => []ReportCoversShown
<1>1. LiveInv => ReportCoversShown
  BY DEF LiveInv, ReportInv
<1>2. QED
  BY <1>1, LiveInvariant, PTL

\* After the effect's cleanup no late answer and no message changes the model,
\* and the stream is not opened again.
THEOREM AlwaysQuietAfterUnmount == Spec => QuietAfterUnmount
<1>1. ASSUME QuietInv, [Next]_vars, cancelled
      PROVE  UNCHANGED shown /\ stream' \in {"none", "closed"}
  <2>1. stream \in {"none", "closed"}
    BY <1>1 DEF QuietInv
  <2>2. CASE PollDone
    BY <1>1, <2>1, <2>2 DEF PollDone, shown, wire
  <2>3. CASE Unmount \/ BootDone \/ Subscribe \/ Replay \/ Deliver \/ Drop \/ Refused \/ Restart
    BY <1>1, <2>1, <2>3 DEF Unmount, BootDone, Mounted, Subscribe, Replay, Deliver, Drop, Refused, Restart,
                            Connecting, Subscribed
  <2>4. CASE UNCHANGED <<shown, stream>>
    BY <2>1, <2>4
  <2>5. QED
    BY <1>1, <2>2, <2>3, <2>4
       DEF Next, Store, Publish, Raise, Flip, Tell, BootAnswered, BootFails, PollAnswered,
           PollFails, Click, Resolve, ReportEnds, vars, wire
<1>2. LiveInv /\ [Next]_vars => [cancelled => UNCHANGED shown /\ stream' \in {"none", "closed"}]_vars
  BY <1>1 DEF LiveInv
<1>3. QED
  BY <1>2, LiveInvariant, PTL DEF Spec, QuietAfterUnmount
=============================================================================
