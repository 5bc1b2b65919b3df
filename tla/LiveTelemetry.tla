--------------------------- MODULE LiveTelemetry ---------------------------
(***************************************************************************)
(* The live half of the dashboard: useLiveTelemetry fetches a backlog,     *)
(* opens Sentry's event stream and polls, and CleanWhiteDashboard shows    *)
(* the merged model; TopNavbar asks for a report of the incidents.         *)
(*                                                                         *)
(* Sentry is the other party.  It stores an event, publishes it, raises an *)
(* incident for it and publishes that, each step at its own time; what it  *)
(* publishes reaches the queues of those who are subscribed at that        *)
(* moment.  GET requests read what it holds when they are answered.  When  *)
(* it restarts, the vault is all it keeps.                                 *)
(*                                                                         *)
(* An event is its id, an incident its place in the order of recording.    *)
(***************************************************************************)
EXTENDS Naturals, Sequences, FiniteSets, SequencesExt

CONSTANTS
  Agents,
  NotYet,        \* no answer, no row
  MaxEvents,     \* bound: events Sentry receives
  MaxIncidents,  \* bound: incidents it raises
  MaxFlips,      \* bound: changes of an agent's liveness
  MaxDrops,      \* bound: connections lost or refused, and restarts of Sentry
  MaxPolls,      \* bound: polls that fail
  MaxOccasions,  \* bound: all of these, clicks and the unmount together
  QueueMax,      \* messages a subscriber's queue holds
  ReplayLimit,   \* events replayed to a new stream
  BootLimit,     \* events fetched at first
  ListLimit,     \* incidents GET /incidents returns
  MaxRows,       \* rows the feed keeps
  MaxShown       \* incidents the bar keeps

ASSUME BoundsAssumption ==
  /\ {MaxEvents, MaxIncidents, MaxFlips, MaxDrops, MaxPolls, MaxOccasions} \subseteq Nat
  /\ {QueueMax, ReplayLimit, BootLimit, ListLimit, MaxRows, MaxShown} \subseteq Nat \ {0}

VARIABLES
  stored,       \* events 1..stored are in the vault
  raised,       \* the incidents: raised[i] is the event the i-th recorded one cites
  unpublished,  \* stored or recorded, and not yet published
  status,       \* what the watchdog would say of each agent now
  told,         \* what it last broadcast of each
  live,         \* the hook's `live`
  boot,         \* where boot() stands
  got,          \* boot's answers so far
  logs, seen, incidents, wdAgents,  \* the model shown, and the refs behind it
  stream,       \* the EventSource
  replay,       \* rows of the replay still to be received
  queue,        \* the subscriber's queue
  poll,         \* the answer a poll in flight has from /watchdog
  cancelled,    \* the effect was cleaned up
  report,       \* the report button
  drops, flips, failures,
  missed        \* history: published when no queue took it, and not replayed since

server == <<stored, raised, unpublished, status, told, flips>>
shown  == <<logs, seen, incidents, wdAgents>>
wire   == <<stream, replay, queue, missed>>
vars   == <<server, shown, wire, live, boot, got, poll, cancelled, report, drops, failures>>

Events   == 1..MaxEvents
MockRow  == 0    \* the rows and incidents of systemModel
Statuses == {"HEALTHY", "TELEMETRY_LOSS", "CAT_II"}  \* CAT_II: a loss that requires confirmation
Unknown  == "UNKNOWN"                                \* Sentry has no heartbeat of this agent

EventMsg(n)    == [type |-> "event", id |-> n]
IncidentMsg(n) == [type |-> "incident", id |-> n]
StatusMsg(a)   == [type |-> "watchdog", agent |-> a, status |-> status[a]]

Count(b)  == IF b THEN 1 ELSE 0
Occasions == stored + Len(raised) + flips + drops + failures + Count(report.clicked) + Count(cancelled)
MayOccur  == Occasions < MaxOccasions

Subscribed == stream \in {"subscribed", "tailing"}
Connecting == stream \in {"connecting", "reconnecting"}
Mounted    == ~cancelled

FirstOf(s, n) == SubSeq(s, 1, IF Len(s) < n THEN Len(s) ELSE n)

\* The newest of n events or incidents, newest first.
Newest(n, limit) == FirstOf([i \in 1..n |-> n + 1 - i], limit)

NoAnswers == [events |-> NotYet, incidents |-> NotYet, watchdog |-> NotYet]
NoReport == [phase |-> "", uuids |-> {}, onScreen |-> {}, clicked |-> FALSE]

Init ==
  /\ stored = 0 /\ raised = <<>> /\ unpublished = {}
  /\ status = [a \in Agents |-> Unknown] /\ told = status
  /\ live = "connecting"
  /\ boot = "pending"
  /\ got = NoAnswers
  /\ logs = <<MockRow>> /\ incidents = <<MockRow>>
  /\ seen = {} /\ wdAgents = [a \in Agents |-> Unknown]
  /\ stream = "none" /\ replay = <<>> /\ queue = <<>> /\ missed = {}
  /\ poll = NotYet /\ cancelled = FALSE
  /\ report = NoReport
  /\ drops = 0 /\ flips = 0 /\ failures = 0

----------------------------------------------------------------------------
(* Sentry.                                                                 *)

\* What is lost when the stream is cut: the queue and the rest of the replay.
Undelivered ==
  {m \in ToSet(queue) : m.type # "watchdog"} \union {EventMsg(n) : n \in ToSet(replay)}

\* A subscriber's queue takes the message unless it is full.
PublishTo(m) ==
  IF Subscribed /\ Len(queue) < QueueMax
  THEN queue' = Append(queue, m) /\ UNCHANGED missed
  ELSE missed' = missed \union {m} /\ UNCHANGED queue

Store ==
  /\ MayOccur /\ stored < MaxEvents
  /\ stored' = stored + 1
  /\ unpublished' = unpublished \union {EventMsg(stored + 1)}
  /\ UNCHANGED <<raised, status, told, flips, shown, wire, live, boot, got, poll,
                 cancelled, report, drops, failures>>

Publish(m) ==
  /\ m \in unpublished
  /\ unpublished' = unpublished \ {m}
  /\ PublishTo(m)
  /\ UNCHANGED <<stored, raised, status, told, flips, shown, stream, replay, live, boot, got,
                 poll, cancelled, report, drops, failures>>

Raise(n) ==
  /\ n \in 1..stored
  /\ EventMsg(n) \notin unpublished
  /\ MayOccur /\ Len(raised) < MaxIncidents
  /\ raised' = Append(raised, n)
  /\ unpublished' = unpublished \union {IncidentMsg(Len(raised) + 1)}
  /\ UNCHANGED <<stored, status, told, flips, shown, wire, live, boot, got, poll,
                 cancelled, report, drops, failures>>

\* An agent's liveness changes, or it beats for the first time.
Flip(a, s) ==
  /\ MayOccur /\ flips < MaxFlips /\ s # status[a]
  /\ flips' = flips + 1
  /\ status' = [status EXCEPT ![a] = s]
  /\ UNCHANGED <<stored, raised, unpublished, told, shown, wire, live, boot, got, poll,
                 cancelled, report, drops, failures>>

\* A round of the watchdog's loop broadcasts a transition.
Tell(a) ==
  /\ told[a] # status[a]
  /\ told' = [told EXCEPT ![a] = status[a]]
  /\ IF Subscribed /\ Len(queue) < QueueMax
     THEN queue' = Append(queue, StatusMsg(a))
     ELSE UNCHANGED queue
  /\ UNCHANGED <<stored, raised, unpublished, status, flips, shown, stream, replay, missed, live,
                 boot, got, poll, cancelled, report, drops, failures>>

\* Sentry restarts, with a new WatchdogManager: the agents it knew are unknown,
\* requests under way end with nothing published, and the streams are cut.
Restart ==
  /\ MayOccur /\ drops < MaxDrops /\ drops' = drops + 1
  /\ status' = [a \in Agents |-> Unknown] /\ told' = status'
  /\ unpublished' = {} /\ replay' = <<>> /\ queue' = <<>>
  /\ missed' = missed \union unpublished \union Undelivered
  /\ IF Subscribed \/ Connecting
     THEN stream' = "reconnecting" /\ live' = "offline"
     ELSE UNCHANGED <<stream, live>>
  /\ UNCHANGED <<stored, raised, flips, shown, boot, got, poll, cancelled, report, failures>>

\* GET /watchdog answers for the agents it knows; an error is caught as no rows.
WatchdogAnswers == {status, [a \in Agents |-> Unknown]}

----------------------------------------------------------------------------
(* The model and what is merged into it.                                   *)

\* Seeded fault: rows of the fetch are not entered into `seen`.
PushEvent_AlwaysNew(n) ==
  /\ seen' = seen \union {n}
  /\ logs' = FirstOf(<<n>> \o logs, MaxRows)
  /\ UNCHANGED <<incidents, wdAgents>>

PushEvent(n) ==
  /\ IF n \in seen
     THEN UNCHANGED <<seen, logs>>
     ELSE /\ seen' = seen \union {n}
          /\ logs' = FirstOf(<<n>> \o logs, MaxRows)
  /\ UNCHANGED <<incidents, wdAgents>>

\* Not deduplicated.
PushIncident(n) ==
  /\ incidents' = FirstOf(<<n>> \o incidents, MaxShown)
  /\ UNCHANGED <<logs, seen, wdAgents>>

\* Seeded fault: an agent that is in the map already is not updated.
MergeWatchdog_OnlyNew(rows) ==
  wdAgents' = [a \in Agents |-> IF wdAgents[a] # Unknown THEN wdAgents[a] ELSE rows[a]]

\* Rows without a heartbeat are not there.
MergeWatchdog(rows) ==
  wdAgents' = [a \in Agents |-> IF rows[a] = Unknown THEN wdAgents[a] ELSE rows[a]]

PushWatchdog(a, s) ==
  /\ wdAgents' = [wdAgents EXCEPT ![a] = s]
  /\ UNCHANGED <<logs, seen, incidents>>

Rank(s) == CASE s = "CAT_II" -> 2 [] s = "TELEMETRY_LOSS" -> 1 [] OTHER -> 0

\* The status of the worst agent, HEALTHY when there is none.
Summary(agents) ==
  LET worst == {a \in Agents : \A b \in Agents : Rank(agents[b]) <= Rank(agents[a])}
      s     == agents[CHOOSE a \in worst : TRUE]
  IN  IF Rank(s) = 0 THEN "HEALTHY" ELSE s

\* What the dead-man's-switch banner says, "none" when it is not shown, and
\* the value and the meta line of the watchdog's tile.
Banner(agents) == IF Summary(agents) = "HEALTHY" THEN "none" ELSE Summary(agents)

WatchdogTile(agents) ==
  CASE Summary(agents) = "HEALTHY"        -> <<"LIVE", "pulse OK">>
    [] Summary(agents) = "TELEMETRY_LOSS" -> <<"LOST", "missed beats">>
    [] Summary(agents) = "CAT_II"         -> <<"LOST", "review">>

----------------------------------------------------------------------------
(* boot(): four requests at once, then the stream, then the poll.          *)

BootAnswered ==
  /\ boot = "pending"
  /\ \/ /\ got.events = NotYet
        /\ got' = [got EXCEPT !.events = stored]
     \/ /\ got.incidents = NotYet
        /\ got' = [got EXCEPT !.incidents = Len(raised)]
     \/ /\ got.watchdog = NotYet
        /\ \E rows \in WatchdogAnswers : got' = [got EXCEPT !.watchdog = rows]
  /\ UNCHANGED <<server, shown, wire, live, boot, poll, cancelled, report, drops, failures>>

BootComplete == boot = "pending" /\ \A k \in DOMAIN got : got[k] # NotYet

\* Seeded fault: `if (cancelled) return` is forgotten.
BootDone_Unchecked ==
  /\ BootComplete
  /\ boot' = "done" /\ got' = NoAnswers
  /\ logs' = FirstOf(Newest(got.events, BootLimit), MaxRows)
  /\ seen' = seen \union ToSet(Newest(got.events, BootLimit))
  /\ incidents' = Newest(got.incidents, ListLimit)
  /\ MergeWatchdog(got.watchdog)
  /\ live' = "live"
  /\ stream' = "connecting"
  /\ UNCHANGED <<server, replay, queue, missed, poll, cancelled, report, drops, failures>>

BootDone ==
  /\ BootComplete /\ Mounted
  /\ boot' = "done" /\ got' = NoAnswers
  /\ logs' = FirstOf(Newest(got.events, BootLimit), MaxRows)
  /\ seen' = seen \union ToSet(Newest(got.events, BootLimit))
  /\ incidents' = Newest(got.incidents, ListLimit)
  /\ MergeWatchdog(got.watchdog)
  /\ live' = "live"
  /\ stream' = "connecting"
  /\ UNCHANGED <<server, replay, queue, missed, poll, cancelled, report, drops, failures>>

\* A request that must succeed fails, or takes four seconds: never retried.
BootFails ==
  /\ boot = "pending" /\ boot' = "failed" /\ got' = NoAnswers
  /\ live' = IF cancelled THEN live ELSE "offline"
  /\ UNCHANGED <<server, shown, wire, poll, cancelled, report, drops, failures>>

\* Every five seconds; a request ends within four, so polls do not overlap.
PollAnswered ==
  /\ boot = "done" /\ Mounted /\ poll = NotYet
  /\ poll' \in WatchdogAnswers
  /\ UNCHANGED <<server, shown, wire, live, boot, got, cancelled, report, drops, failures>>

\* Seeded fault: a poll that succeeds clears the offline mark.
PollDone_SetsLive ==
  /\ poll # NotYet /\ poll' = NotYet
  /\ IF cancelled
     THEN UNCHANGED <<wdAgents, live>>
     ELSE MergeWatchdog(poll) /\ live' = "live"
  /\ UNCHANGED <<server, logs, seen, incidents, wire, boot, got, cancelled, report, drops, failures>>

\* A poll that succeeds does not clear the offline mark.
PollDone ==
  /\ poll # NotYet /\ poll' = NotYet
  /\ IF cancelled THEN UNCHANGED wdAgents ELSE MergeWatchdog(poll)
  /\ UNCHANGED <<server, logs, seen, incidents, wire, live, boot, got, cancelled, report,
                 drops, failures>>

\* The catch does not look at `cancelled`.
PollFails ==
  /\ boot = "done" /\ (Mounted \/ poll # NotYet) /\ MayOccur /\ failures < MaxPolls
  /\ failures' = failures + 1
  /\ poll' = NotYet /\ live' = "offline"
  /\ UNCHANGED <<server, shown, wire, boot, got, cancelled, report, drops>>

----------------------------------------------------------------------------
(* The stream: GET /events/stream and the EventSource.                     *)

\* Sentry subscribes before it reads the replay.
Subscribe ==
  /\ Connecting
  /\ stream' = "subscribed" /\ queue' = <<>>
  /\ live' = "live"
  /\ UNCHANGED <<server, shown, replay, missed, boot, got, poll, cancelled, report, drops, failures>>

\* Seeded fault: the queue is created when the replay has been read.
Replay_ThenSubscribes ==
  /\ stream = "subscribed" /\ stream' = "tailing"
  /\ replay' = Newest(stored, ReplayLimit)
  /\ missed' = missed \ {EventMsg(n) : n \in ToSet(Newest(stored, ReplayLimit))}
  /\ queue' = <<>>
  /\ UNCHANGED <<server, shown, live, boot, got, poll, cancelled, report, drops, failures>>

\* The rows come newest first, before anything from the queue.
Replay ==
  /\ stream = "subscribed" /\ stream' = "tailing"
  /\ replay' = Newest(stored, ReplayLimit)
  /\ missed' = missed \ {EventMsg(n) : n \in ToSet(Newest(stored, ReplayLimit))}
  /\ UNCHANGED <<server, shown, queue, live, boot, got, poll, cancelled, report, drops, failures>>

Receive(m) ==
  \/ m.type = "event" /\ PushEvent(m.id)
  \/ m.type = "incident" /\ PushIncident(m.id)
  \/ m.type = "watchdog" /\ PushWatchdog(m.agent, m.status)

Deliver ==
  /\ stream = "tailing"
  /\ \/ /\ replay # <<>>
        /\ PushEvent(Head(replay))
        /\ replay' = Tail(replay) /\ UNCHANGED queue
     \/ /\ replay = <<>> /\ queue # <<>>
        /\ Receive(Head(queue))
        /\ queue' = Tail(queue) /\ UNCHANGED replay
  /\ UNCHANGED <<server, stream, missed, live, boot, got, poll, cancelled, report, drops, failures>>

\* What was on its way is lost; the EventSource tries again by itself.
Drop ==
  /\ Subscribed \/ stream = "connecting"
  /\ MayOccur /\ drops < MaxDrops /\ drops' = drops + 1
  /\ stream' = "reconnecting" /\ replay' = <<>> /\ queue' = <<>>
  /\ missed' = missed \union Undelivered
  /\ live' = "offline"
  /\ UNCHANGED <<server, shown, boot, got, poll, cancelled, report, failures>>

\* An answer that is not a stream, as a proxy's 502: it does not try again.
Refused ==
  /\ Connecting /\ MayOccur /\ drops < MaxDrops /\ drops' = drops + 1
  /\ stream' = "failed" /\ live' = "offline"
  /\ UNCHANGED <<server, shown, replay, queue, missed, boot, got, poll, cancelled, report, failures>>

\* The cleanup of the effect.  What is still on its way is not delivered.
Unmount ==
  /\ MayOccur /\ Mounted /\ cancelled' = TRUE
  /\ stream' = IF stream = "none" THEN "none" ELSE "closed"
  /\ replay' = <<>> /\ queue' = <<>>
  /\ UNCHANGED <<server, shown, missed, live, boot, got, poll, report, drops, failures>>

----------------------------------------------------------------------------
(* The report button.                                                      *)

Click ==
  /\ MayOccur /\ Mounted /\ ~report.clicked
  /\ report' = [phase |-> "resolving", uuids |-> {}, onScreen |-> ToSet(incidents), clicked |-> TRUE]
  /\ UNCHANGED <<server, shown, wire, live, boot, got, poll, cancelled, drops, failures>>

ReportOver(p) == [NoReport EXCEPT !.phase = p, !.clicked = TRUE]

\* Seeded fault: the report is asked for the latest incident only.
Resolve_Latest ==
  /\ report.phase = "resolving"
  /\ report' = IF raised = <<>> THEN ReportOver("error")
               ELSE [report EXCEPT !.phase = "downloading", !.uuids = {Len(raised)}]
  /\ UNCHANGED <<server, shown, wire, live, boot, got, poll, cancelled, drops, failures>>

\* All incidents listed go into one report; without any it is an error.
Resolve ==
  /\ report.phase = "resolving"
  /\ report' = IF raised = <<>> THEN ReportOver("error")
               ELSE [report EXCEPT !.phase = "downloading",
                                   !.uuids = ToSet(Newest(Len(raised), ListLimit))]
  /\ UNCHANGED <<server, shown, wire, live, boot, got, poll, cancelled, drops, failures>>

\* The download ends, or either request fails; nothing limits the time it takes.
ReportEnds ==
  /\ \/ report.phase = "downloading" /\ \E p \in {"", "error"} : report' = ReportOver(p)
     \/ report.phase = "resolving" /\ report' = ReportOver("error")
  /\ UNCHANGED <<server, shown, wire, live, boot, got, poll, cancelled, drops, failures>>

----------------------------------------------------------------------------
Next ==
  \/ Store
  \/ \E m \in unpublished : Publish(m)
  \/ \E n \in Events : Raise(n)
  \/ \E a \in Agents, s \in Statuses : Flip(a, s)
  \/ \E a \in Agents : Tell(a)
  \/ Restart
  \/ BootAnswered \/ BootDone \/ BootFails
  \/ PollAnswered \/ PollDone \/ PollFails
  \/ Subscribe \/ Replay \/ Deliver \/ Drop \/ Refused \/ Unmount
  \/ Click \/ Resolve \/ ReportEnds

\* The interval keeps polling, a poll often enough has an answer of /watchdog
\* and is completed, and what has arrived is delivered.
PollSucceeds == PollAnswered /\ poll' = status
Fairness == WF_vars(PollAnswered) /\ SF_vars(PollSucceeds) /\ WF_vars(PollDone) /\ WF_vars(Deliver)

Spec == Init /\ [][Next]_vars /\ Fairness

----------------------------------------------------------------------------
(* Properties.                                                             *)

Messages == [type : {"event", "incident"}, id : Nat]
            \union [type : {"watchdog"}, agent : Agents, status : Statuses]
Known == Statuses \union {Unknown}

\* Types; and the rows and incidents shown are at most what the code keeps.
TypeOK ==
  /\ stored \in 0..MaxEvents /\ ToSet(raised) \subseteq 1..stored
  /\ unpublished \union missed \subseteq [type : {"event", "incident"}, id : Nat]
  /\ status \in [Agents -> Known] /\ told \in [Agents -> Known] /\ wdAgents \in [Agents -> Known]
  /\ live \in {"connecting", "live", "offline"} /\ boot \in {"pending", "done", "failed"}
  /\ ToSet(logs) \subseteq 0..stored /\ Len(logs) <= MaxRows /\ seen \subseteq 1..stored
  /\ ToSet(incidents) \subseteq {MockRow} \union DOMAIN raised
  /\ stream \in {"none", "connecting", "reconnecting", "subscribed", "tailing", "failed", "closed"}
  /\ ToSet(replay) \subseteq 1..stored /\ ToSet(queue) \subseteq Messages /\ Len(queue) <= QueueMax
  /\ poll = NotYet \/ poll \in [Agents -> Known]
  /\ cancelled \in BOOLEAN /\ report.phase \in {"", "resolving", "downloading", "error"}

\* A row is in the feed at most once although the replay repeats the fetch,
\* and rows of the mock model are never mixed with live ones.
RowsOnce ==
  /\ IsInjective(logs)
  /\ IF boot = "done" THEN MockRow \notin ToSet(logs) \union ToSet(incidents)
     ELSE logs = <<MockRow>> /\ incidents = <<MockRow>>

InFlight(m) == m \in unpublished \/ Contains(queue, m)

\* Once the dashboard is live and its stream follows, an event is in the feed
\* or on its way, or was published to no queue and older than the replay
\* reaches; an incident is in the bar or on its way, or was published to no
\* queue.  So nothing is lost between the fetch, the subscription and the
\* replay but what the protocol cannot carry.
NothingLostSilently ==
  stream = "tailing" =>
    /\ \A n \in 1..stored : \/ n \in ToSet(logs) \/ Len(logs) = MaxRows
                            \/ Contains(replay, n) \/ InFlight(EventMsg(n))
                            \/ EventMsg(n) \in missed
    /\ \A n \in DOMAIN raised : \/ n \in ToSet(incidents) \/ Len(incidents) >= MaxShown
                                \/ InFlight(IncidentMsg(n)) \/ IncidentMsg(n) \in missed

\* "live" is never shown while the stream is lost or refused.
LiveMeansStreaming == live = "live" => stream \notin {"reconnecting", "failed"}

\* After the cleanup the stream is closed and nothing is merged any more.
QuietAfterUnmount ==
  [][cancelled => UNCHANGED shown /\ stream' \in {"none", "closed"}]_vars

\* A report asked for covers every incident that was on the screen when the
\* button was pressed, unless there are more than GET /incidents lists.
ReportCoversShown ==
  report.phase = "downloading" =>
    \/ report.onScreen \ {MockRow} \subseteq report.uuids
    \/ Len(raised) > ListLimit

\* Agents Sentry no longer knows, since it restarted, and the hook still shows:
\* it sets entries of its map and never removes one.
Forgotten == {a \in Agents : status[a] = Unknown /\ wdAgents[a] # Unknown}

\* While the dashboard is up, it comes to show of every agent Sentry knows what
\* the watchdog says, in whatever order old answers and broadcasts arrive and
\* whatever is lost of them or forgotten in a restart; and unless an agent is
\* forgotten, whose last status goes on counting, banner and tile agree too.
WatchdogConverges ==
  <>[](boot = "done" /\ Mounted) =>
    <>[](/\ \A a \in Agents : status[a] # Unknown => wdAgents[a] = status[a]
         /\ Forgotten = {} => /\ Banner(wdAgents) = Banner(status)
                             /\ WatchdogTile(wdAgents) = WatchdogTile(status))
=============================================================================
