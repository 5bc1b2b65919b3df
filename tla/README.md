# Barbarika in TLA+

Barbarika watches servers for incidents that CERT-In wants reported within six
hours.  Agents tail logs, sign what they see and post it over mTLS to *Sentry*,
which stores every event in a hash-chained SQLite vault, evaluates detection
rules, records incidents and streams all of it to a dashboard.  A compliance
tool turns an incident of the vault into a report.  This directory holds the
formal models of the parts whose correctness depends on order, concurrency,
failure or boundary arithmetic, the TLC runs that check them and the TLAPS
proofs about them.

Paths below are relative to `src/`.

    tlc -workers 2 -config MCEvidenceVault.cfg MCEvidenceVault   # a run: see the table
    tlapm EvidenceVaultProofs.tla                                # a proof module

## 1. Inventory

| Component | State | Operations | Talks to | What is hard |
|---|---|---|---|---|
| Evidence vault, `sentry/app/db.py`, `hashchain.py`, `scripts/verify_chain.py` | tables `events`, `agent_keys`, `incidents`; the process-wide `_append_lock` | `append_event`, `bind_key`, `record_incident`, reads, `verify` | called from request threads | read-then-write under a lock, failing writes, crash, power failure with `synchronous=NORMAL` |
| Rule engine, `rules/.../engine.py` | none | `evaluate_rule` over a list of events | called by the detector | greedy assignment, window edges, dedup of growing bursts |
| Detector, `sentry/app/detect.py` | window of 500 events per category, seen signatures | `observe` | engine; called from request threads | eviction, late and tied events, memory lost on restart |
| Ingest handler, `sentry/app/main.py`, `signatures.py` | locals of each request thread | `POST /ingest` | vault, detector, broadcaster | a walk of many steps, none of it atomic, that fails in the middle |
| Telemetry watchdog, `transport/heartbeat.py`, `sentry/app/watchdog.py`, `main.py` | per agent: state, last beat, reported state | `POST /heartbeat`, `_watchdog_loop`, `GET /watchdog` | incidents of the vault, broadcaster | event loop and pool threads share the state without a lock; clocks and limits |
| Live stream, `sentry/app/broadcast.py`, `GET /events/stream` | subscribers' bounded queues | `subscribe`, `publish`, replay | dashboard | full queues, replay overlapping the live tail |
| Sequence store, `agent/barbarika-agent/pkg/collector/seqstore.go` | a state file, the reserved block | `OpenSeqStore`, `Next` | collectors | crash between issuing, truncating and writing |
| Agent pipeline, `agent/barbarika-agent` | event channel of 1000, `LastSeq`/`LastHash` | collectors, signer, `SendEvent`, heartbeat goroutine | Sentry over HTTP | goroutines, no retry, late answers, torn lines |
| Disk spool, `agent/internal/spool` | segment files, the active one and its size | `NewSpool`, `Push`, `ReplayUnacknowledged` | the daemon | rotation and eviction, failing writes, restarts |
| Spooling daemon, `agent/internal/daemon`, `batcher`, `tailer`, `agent/cmd/agent` | pending events, channels, contexts | `Run`, `processEvent`, `Add`, `Flush`, tailers, watcher, consumer | spool, standard output | six goroutines, back-pressure, crash and replay, drain on shutdown |
| Compliance, `compliance/...` | audit log, reports | `generate`, `reverify_chain` | reads the vault | reads while Sentry writes, audit before report |
| Dashboard, live half: `hooks/useLiveTelemetry.js`, `data/sentryApi.js`, `CleanWhiteDashboard.jsx`, `TopNavbar.jsx` | the shown model, ids seen, agents' liveness, `live`, the report button | fetch, poll, stream merge, report | Sentry, compliance | answers out of order, gaps between fetch and stream, failing polls, unmounting while waiting |
| Dashboard, stage demonstration: `App.jsx`, three dashboards, `HashChainVerifier.jsx`, `AnnexureIModal.jsx` | step, host, watchdog, clock, modal; audit, damage, verdict | five steps, kill and revive, audit, tamper, restore, report | the browser's timers | cards that read different state, closures over old state |
| Certificates, configuration, host metrics, sealing and masking, event mapping, scripts | none that interacts | | | string and byte transformations |

What makes each one correct:

- *vault*: the chain verifies at every moment and after every failure, no
  accepted event leaves its place, pins are write-once, one change of a row is
  always found;
- *engine and detector*: an alert cites events that are what its rule says;
  what one evaluation over everything finds is what the increments find; a burst
  alerts once; nothing is missed;
- *ingest*: a row's key is its signer's pin; a match is recorded once or lost
  only by a failed call; subscribers hear of what is stored; every request ends;
- *watchdog*: silence is noticed in time, a flip that
  is noted as reported was sent, the disposition matches the incidents;
- *sequence store*: a number is never used twice;
- *live stream and dashboard*: a row is shown once, what is not shown was published
  to no queue and not replayed, the watchdog's banner converges, nothing is merged
  after unmounting, a report covers what was on the screen;
- *stage demonstration*: what the cards derive from the state agrees whatever was
  pressed, an unhurried audit tells the truth and ends;
- *agents*: what was read is sent or spooled, in order, or its loss is one the code
  knows of (a failed write, an unreadable file), and shutdown ends;
- *compliance*: a report speaks of one state of the vault.

`PROJECT.json` lists the hazards of the code line by line, with the properties
that would catch each going wrong.

## 2. Modules

| Module | Models | Correspondence |
|---|---|---|
| `EvidenceLog` | what the vault promises | abstract: a log, a book of keys, the moment both were last durable |
| `EvidenceVault` | `db.py`, `hashchain.py`, `verify_chain.py` | `BindRead`/`BindWrite` and `AppendRead`/`AppendCommit` are the two halves of `bind_key` and `append_event` under `_append_lock` (variable `lock`); `txn[w]` is what the thread read or computed; `RecordIncident` is one autocommitted insert without the lock; `WriteFails` and `RecordFails` are exceptions; `Checkpoint`, `Crash`, `PowerLoss` are WAL mode with `synchronous=NORMAL` |
| `EvidenceVaultProofs` | theorems about `EvidenceVault` | |
| `RuleEngine` | `engine.py` | one operator per evaluator and helper; a window is a set of events, a loop over the sorted ones a recursive function; `IsDetection` is what `rule.py` lets load |
| `Detector` | `detect.py` | `observe` is the whole call, under its lock; `feed` is a history that only the properties read |
| `Arrivals` | the detector on its own | events of any kind arrive one after another |
| `Ingest` | `main.py`, `ingest` | extends `Detector` and has an instance of `EvidenceVault`; `pc[w]` is the statement thread `w` stands at, `todo[w]` the list that `observe` returned |
| `Watchdog` | `heartbeat.py`, `watchdog.py`, `_watchdog_loop`, `GET /watchdog` | one action per step between which the other party can run; `LoopFails` is the `except Exception` of the loop, `failed` a history of the rounds it ended |
| `AgentPipeline` | `main.go`, `collector.go`, `tailer.go`, `journald.go`, `fim.go`, `heartbeat.go`, `http_client.go` | extends `SeqStore`, whose steps are those of `seq.Next()` and `NewManager`; `step[c]` is where a collector stands, `hand[c]` its event, `sender` the main loop; a log file that cannot be opened or read has `step` "failing"; `taken` and `posted` are histories |
| `SeqStore` | `seqstore.go` | `reserve` is `Reserve`, `Truncate`, `Write`; `SpecWithAccidents` adds the torn and the failed write |
| `SpoolQueue` | what the spool promises | abstract: a bounded queue that drops its oldest entries, a group at a time |
| `Spool` | `spool.go` | the files are one sequence of entries with their segment's number; `Push`, `PushFails`, `NewSpool` and `Readable` (the replay's line by line reading); `offered` and `spooled` are what the callers were told |
| `AgentDaemon` | `daemon.go`, `batcher.go`, `tailer.go` | one set of actions per goroutine: tailer, the workers that call `processEvent`, flush timer, consumer, `Run` (`phase` is where it stands); `Signal` is `ctx.Done`, `cancelled` is `runCtx`.  The spool is an instance of `SpoolQueue`, of records and of the fragments that failed writes leave (`Legibility` says which record a fragment spoils); `unread` is a history |
| `LiveTelemetry` | `useLiveTelemetry.js`, `sentryApi.js`, banner and report button, `broadcast.py`, `GET /events/stream`, the answers of `/events`, `/incidents`, `/watchdog` | `Store`, `Publish`, `Raise`, `Flip`, `Tell`, `Restart` are Sentry; `BootAnswered`/`BootDone`/`BootFails` the three outcomes of `boot`, `PollAnswered`/`PollDone`/`PollFails` of a poll, each answer taken when the request is answered and merged later; `stream`, `replay` and `queue` are the connection, `Drop` and `Refused` its two ends |
| `Page` | React and the browser, external | a page is cards with controls; `setTimeout` runs a callback that `sees` the render in which it was made |
| `StageDemo` | `App.jsx` | one operator per handler that App defines for its children; at this commit it hands down the form's only |
| `HashChainVerifier`, `AnnexureIModal`, `EnterpriseDashboard`, `StreamlinedDashboard`, `MinimalDashboard` | the component of that name | one operator per handler and timer callback, and one per card: the statements it makes (`Says`, or `Scripted` for text that no state changes) and the controls it offers |
| `Console` | one of them on App, with the form over it | a control can be pressed when the page offers it; `Fire` is a timer, `Reload` a reload; `trusted` is a history that only the properties read.  The composition is the project's own |
| `WatchdogProofs` | theorems about `Watchdog` | |
| `IngestProofs` | theorems about `RuleEngine`, `Detector` and `Ingest` | an instance of `EvidenceVaultProofs` stands for the vault without its incidents |
| `AgentPipelineProofs` | theorems about `SeqStore` and `AgentPipeline` | |
| `AgentDaemonProofs` | theorems about `AgentDaemon` | |
| `SpoolProofs` | theorems about `Spool` | |
| `ConsoleProofs` | theorems about `Console` | |
| `LiveTelemetryProofs` | theorems about `LiveTelemetry` | |
| `MCEvidenceVault`, `MCDetector`, `MCIngest`, `MCWatchdog`, `MCAgentDaemon`, `MCAgentPipeline`, `MCLiveTelemetry`, `MCConsole` | constants for TLC | |

Abstractions shared by all of them:

- A SHA-256 digest is the sequence of what was hashed into it, so that equal
  digests have equal preimages.  The verifier is evaluated on these.
- A body (event bytes with `received_at`) is a model value, and in `Ingest` the
  request itself.  Sealing, masking and JSON are left out: they lose nothing the
  properties speak of.
- An Ed25519 signature is one of *verified*, *invalid*, *unsigned*.
- A predicate of a rule is a member of the event's `hits`: the regular
  expressions decide which lines hit, not what happens then.
- The detector's signature is the rule with the *set* of cited ids.  The code
  sorts the ids before joining them, so the order does not matter there either.
- In the dashboards a card makes statements about host, attack, switch, clock,
  evidence and a few more, one word each; wording, layout and colours are left out.
  `App.jsx` at this commit mounts `TopNavbar`, `CleanWhiteDashboard` and
  `AnnexureIModal` only: the three other dashboards are in the repository, unused.
  That they are mounted, with the handlers of App that their
  props name, is an assumption of `Console`, not something the code does.
- Reading and writing one Python attribute is atomic (the interpreter's lock).

Definitions marked *Seeded fault* are not part of any specification: each is a
variant of the definition below it with a plausible bug, kept to show that the
property named for it in `PROJECT.json` can fail.

## 3. Runs

| Run | Module, configuration | Result |
|---|---|---|
| `vault` | `MCEvidenceVault` | passes |
| `ingest` | `MCIngest`, `MCIngest.cfg` | passes |
| `detector` | `MCDetector`, `MCDetector.cfg` | passes |
| `watchdog` | `MCWatchdog`, `MCWatchdog.cfg` | passes |
| `watchdog_race` | `MCWatchdog`, `MCWatchdogRace.cfg` | violates `ReportedWasBroadcast` |
| `pipeline` | `MCAgentPipeline`, `MCAgentPipeline.cfg` | passes |
| `seqstore_torn` | `SeqStore`, `SeqStoreTorn.cfg` | violates `NeverReused` |
| `spool` | `Spool`, `Spool.cfg` | passes |
| `daemon` | `MCAgentDaemon`, `MCAgentDaemon.cfg` | passes |
| `daemon_drain` | `MCAgentDaemon`, `MCAgentDaemonDrain.cfg` | violates `Drained` |
| `telemetry` | `MCLiveTelemetry`, `MCLiveTelemetry.cfg` | passes |
| `console` | `MCConsole`, `MCConsole.cfg` | passes |

**vault.**  Two threads, one identity with two competing keys, two bodies, two
rows, one incident.  Two threads are enough for every race on a critical section
that holds one transaction; two rows give a chain a genesis row, a link, and a
row removed from before the end.  Threads, keys and bodies are symmetric, and no
liveness is checked here.
`ChainVerifies` says the verifier passes on the tables and on what a power
failure leaves; `VaultInv` is the inductive invariant of the proof;
`CorruptionDetected` tries every one-row corruption on every reachable table;
`PinsWriteOnce` is an action property; `LogSpec` the refinement of `EvidenceLog`.

**ingest.**  Two threads, three accepted requests drawn from four kinds
(signed with either of two keys, unsigned, without a category) and one that is
refused; the defacement rule with a window of one tick, the detector's window at
three events, so that nothing is evicted here.  The same request may come twice,
and `observe` may raise on an event it cannot normalise (`ObserveFails`).  Three
requests let two race while a third has left its match in `seen`.
`SeenIsRecorded` accounts for every match the detector will not raise again;
`dropped` records those whose worker failed, the loss the code permits.

`Answered` is the liveness property, under the fairness below and without
symmetry: whatever call fails, every request is answered.

**detector.**  All feeds of at most six events of one category, over the three
deployed sequence and correlation rules scaled down (ten becomes two, a minute
three ticks), a threshold and a single rule.  Kinds include a second source, a
delay of zero (a tie), a negative delay and a delay of two, with which a rule's
window is met exactly and exceeded by one.  Of tied events the first has UUID
0 and the others draw from `Uuids`, two below and two above it: every order of three
tied events occurs.  The detector's window holds five events, so that the sixth
evicts the first.
The privilege-escalation rule needs four events; six
allow a second match beside the first.  `Means` states a rule without an
evaluation order, and `AlertsSound` and `NothingMissed` compare with it.
`AlertsSound` holds of every feed.  `NothingMissed` needs a feed in order, evictions
or not: a pattern counts if the window still held its first event when its last
came (`Held`).  `IncrementalIsBatch`, `BurstsApart` and `PrefixesApart` need an undisturbed
feed (ordered, nothing evicted): otherwise they are false of the code, as section 6
says of a flood.  `NothingMissed` exempts a pattern in which one event matches two
steps of the prefix in a row (`Telling`; section 6); no kind of event here does.

**watchdog.**  Two agents, one reader thread, limit of one interval of two
ticks, correlation window of one tick, four ticks.  The clock runs past the limit and one
more round, with an incident before, at and after it.  The thread stops between
any two steps, for any time.  A round may fail before it
looks at any agent (`LoopFails`: the vault cannot be read).  `LossNoticedInTime` is the
dead man's switch: more than the limit of silence, and a tick for each round that
failed since one was completed, is already marked and noted, whatever a reader does.
How many rounds may fail in a row nothing bounds.
`DispositionJustified` allows a tick of staleness at most: the newest incident
is read before the agents.

**watchdog_race.**  One agent.  It shows the interleaving of the pool thread that
contradicts `watchdog.py:92`; see the findings.  The same thread may also assign
a loss it decided on before a beat came (`GetCheck`, `Record`, `GetMark`): the
agent is then in `TELEMETRY_LOSS` until its next beat.  That is in the model, and
the properties of the `watchdog` run hold in spite of it.

**pipeline.**  The agent over its sequence store.  A file of two lines, written
in one or two pieces, and a journal of one, of which nothing is read that was
there before (`Seed` is zero: the second start skips the line); a channel of one;
two starts, with a crash anywhere between them except inside the write of the
reservation.  Blocks of two, so that the third number of a start makes a
new reservation while the other collector waits for the mutex, and the second
start reads the file.  `MaxSeq` is never reached.
The file may be missing or unreadable, at the start and at any read, for any time.
Heartbeats run in the first start only (`BeatBoots`): what one names does not depend
on the start.
`NothingLostInside` compares what has been made of a source with the lines read
from it; a line whose first half was discarded, because the end of the file or a read error
came within it, is exempt, its neighbours are not.
`NumbersIdentify` is what the sequence store is for, seen from Sentry:
`agent_sequence` names one event across collectors and restarts.
`CalmBeatIsCurrent` is as much as the code grants a heartbeat: the race on
`LastSeq` and `LastHash` is in the model, with the loads in either order, and the
two may disagree when an event arrives meanwhile.  `NeverReused` is the action
property of the store: each step that hands out a number hands out one above all
before, the first after a restart included.  `EveryLineSent` is the liveness of the
collectors: a Sentry that never answers holds them up for a timeout at a time, never
for good.  Its exceptions are listed: the agent stops, `journalctl` has ended, a line
was torn, or the file keeps failing for ever (`agent/README.md:35`
says that such a source stays silent).

**seqstore_torn.**  A block of three, numbers up to 24.  The write of the
reservation may stop half way or fail, which the `pipeline` run and the proofs
exclude, and numbers are reused.

**spool.**  Segments of two events, a bound of three entries, seven pushes, six
segments.  The bound is met in the middle of a segment, a segment that a restart
or a failure left short is evicted with one that is full, and fragments can make
the active segment alone exceed the bound.  `ReplayComplete` says what a replay
may miss; `QueueSpec` is the refinement of `SpoolQueue`: what is dropped is the
oldest, had to go, and goes at most a segment too far.

**daemon.**  One line, one file event, batches of two, channels of one; with and
without `-follow`, with and without `-batch`; on the spool of an earlier run: a
fragment, the record it spoilt, and one that can be read.  The start may find all of
that, leave out files it cannot read, or have no spool at all (`NewSpool` fails and
the agent goes on in memory).  Three additions are more than one batch for a
channel of one, and shutdown finds a full and an empty channel, a full and an empty
batch.  One push may fail, and then may leave a fragment that spoils the record after
it.  The process may be killed anywhere; the run after that is the one that finds
its spool, and the initial one stands for it, so one run of the program is enough
(`MaxRuns`).  The spool's bound is out of the way: evictions are the `spool`
run's subject.
`AddedOnce` follows every event of a batch through the batcher; what is written without
`-batch` is not followed.  `MemoryIsSpooled` and
`ReplayIsWhole` together are the crash resilience.  A crash takes from memory only
the events that wait in a channel or have just been taken from one, whose Push is
still to come (for a line the log has it; a file event is gone), those whose own
Push failed or whose record the fragment of another's spoilt, and all of them when
there is no spool; every other one is on the disk.  And what can be read from the
disk is given to the next run's batcher.  `Returns` is the liveness of shutdown.

**daemon_drain.**  The same, and the claim that shutdown writes everything.

**telemetry.**  One agent, two events, two incidents, two flips, one lost or refused
connection or restart of Sentry, one failed poll, and at most four of all these
occasions, the click and the unmount in one behaviour; a queue of two, a replay of
one, lists of two, a feed of two rows and a bar of three incidents.  Each limit is
met: the second event falls out of the replay, the third message finds the queue full,
the feed and the list overflow.  Four occasions place an event or an incident before,
between and after the fetch, the subscription and the replay, with a loss of the
stream besides.  `NothingLostSilently` is the promise of subscribing before the
replay; `missed` records what was published to no queue, which the code loses.
`WatchdogConverges` is a liveness property: old answers and new broadcasts may
overwrite each other, but of each agent that Sentry knows the hook comes to show what
the watchdog says.  A restarted Sentry knows no agent until it beats again, and the
hook removes none (`useLiveTelemetry.js:58`): while it shows such an agent
(`Forgotten`) the summaries, banner and tile, may differ, and are compared otherwise.

**console.**  Every page (three dashboards, the ledger alone), two events of
different source and severity, two timers pending at a time: two are what it
takes for an audit and a tamper to overtake each other, or for an audit to be
followed by another.  `ScreensAgree` compares cards with cards, not with the
state they were rendered from: about host, attack, switch and clock always, about the
evidence when the audit's verdict is `trusted` and no timer is pending.  It leaves out
text that no state changes (`Scripted`), for that does contradict the rest; section 6
lists it.  `VerdictRight` is restricted to an audit nobody
hurried, and that is not the one which the ledger's own Simulate Tamper starts
(`trusted`); both restrictions are needed: see section 6.  `AuditEnds`
is the liveness property.

Deadlock checking is off except for `console`: the bounds on rows, events,
requests, ticks and numbers end every behaviour.  That no thread waits for ever
is the property `Answered`.

### Bounds

`MaxRows`, `MaxIncidents`, `MaxEvents`, `MaxRequests`, `MaxClock`, `MaxSeq`,
`MaxLines`, `MaxBoots`, `BeatBoots`, `Uuids`, `MaxSegments`, `MaxFailures`, `MaxRuns`,
`MaxFlips`, `MaxDrops`, `MaxPolls`, `MaxOccasions` and `MaxTimers` are guards that the
code does not have.  Each is named as a bound where it is declared.  `Uuids` is a set,
finite for TLC.  The proofs hold for all their values.

### Fairness

`Ingest` assumes `WF_vars(Work(w))` for each worker.  A thread of the
pool that can take its next step is scheduled eventually by the operating
system.  Weak fairness is enough although several threads compete for
`_append_lock`, whose acquisition is not fair: the number of requests is
bounded, so each can be overtaken only so often, and the property is that nobody
waits on a lock that is never released.  No fairness is assumed of
failures, crashes, checkpoints or arriving requests.

`AgentDaemon` assumes weak fairness of each goroutine that `Run` waits for,
directly or not: the Go scheduler runs a goroutine that can go on.  Where a
`select` has several cases ready, fairness is of the whole `select`, so that
`Returns` does not rest on which case is picked.  The flush timer, the growth of
a log, file events, signals, failures and crashes are not fair: shutdown ends
without them.

`AgentPipeline` assumes weak fairness of each collector, of the write of the
reservation and of the main loop: the Go scheduler runs what can run, the client's
timeout of five seconds (`http_client.go:46`) ends every POST, and the lines of a
source are finite, so that one collector cannot overtake another at the channel
for ever.  Nothing is fair of the host, of a restart, of Sentry's answers or of a
file that cannot be read becoming readable.

`LiveTelemetry` assumes weak fairness of a poll being answered and merged and of
the stream's delivery (the interval fires every five seconds and a request ends
within four), and strong fairness of a poll that has an answer of `/watchdog`
and not the caught error: a watchdog that is never reachable cannot be shown.
Nothing is fair of events, failures, restarts, broadcasts or the reconnection.

`Console` assumes that the browser fires the oldest pending timer in the end;
weak fairness of *some* timer would let shorter ones overtake it for ever.  The
user is not fair.

## 4. Proofs

`EvidenceVaultProofs` proves for every set of workers, identities, keys, bodies
and signatures, and every bound, from `VaultAssumption` (the null values are no
real values, the bounds are natural numbers):

- `VaultTypeCorrect`: `TypeOK` is an invariant;
- `VaultInvariant`: so is `VaultInv`.  `ChainVerifies` is not inductive by
  itself: the step that inserts a row preserves it only if the row computed from
  the earlier read still is the next row.  Hence `ReadsCurrent`, which holds
  because no other transaction runs meanwhile, hence `LockHeld`; and a power
  failure preserves it all only if the durable tables are a past of the live
  ones, hence `DurablePast` and the second half of `ChainVerifies`.
  The step lemma `VaultInvStep` has one step per action; the lemmas
  `ChainExtends` and `LastSeqIsLength` say what appending the next row does to a
  table that verifies;
- `ChainAlwaysVerifies`, `NeverConflicts`: consequences;
- `CorruptionAlwaysDetected`: `ForgedRowDetected` and `MissingRowDetected` show that
  no table that verifies has two neighbours one of which was changed or left out,
  because a hash determines all rows before it;
- `PinsAreWriteOnce`: the action property, from the invariant;
- `VaultImplementsLog`: every step is a step of `EvidenceLog` or a stutter under
  the mapping that takes the bodies of the rows, the pins, and the length of the
  durable table.  `BodiesExtend` and `DurableCut` say what the mapping does to an
  append and to a power failure.

`ConsoleProofs` proves for any set of events and any `MaxTimers`:

- `StageAlways`: `StageInv`, the types of App's five variables and `StageConsistent`
  (which values they take together), is inductive.  No card's agreement
  with another is inductive by itself: reviving the host keeps two cards apart
  unless step, host and watchdog were consistent before.  One lemma per handler
  (`StepKeepsStage`, `ToggleKeepsStage`, `ReportKeepsStage`) and
  `NextKeepsStage` over all actions;
- `ScreensAlwaysAgree`: from it and, for the evidence, from `VerdictAlwaysRight`, with
  one lemma per dashboard (`EnterpriseFromStage`, `StreamlinedFromStage`,
  `MinimalFromStage`);
- `VerdictAlwaysRight`: from `AuditInv`.  `VerdictRight` speaks of the time when no timer is
  pending, so `Unhurried` says what a pending one will tell: while nobody
  hurried, it saw the damage as it is.  `SetKeepsAudit`, `FiredKeepsAudit` and
  `CopyKeepsAudit` say what setting and firing a timer do to that, whichever
  component's handler it is.

`LiveTelemetryProofs` proves for any number of agents, events, incidents and
failures, and any limits of fetch, replay, queue, list and feed above zero
(`BoundsAssumption`):

- `LiveInvariant`: `LiveInv` is inductive.  `RowsOnce` is not by itself:
  `pushEvent` filters by `seen`, so every row shown must be in `seen`
  (`FeedInv`); no mock row is among live ones only if ids start at 1 wherever a
  row can come from, the fetch's answer, the replay or the queue (`WireInv`,
  `HookInv`, `Refers`); and that the stream opens only after the fetch keeps the
  mock model whole until then.  Each part has its own lemma (`ServerKept`,
  `WireKept`, `HookKept`, `ShownKept`, `FeedKept`, `QuietKept`, `LiveKept`,
  `ReportKept`), from the parts it needs; `SentryGrows` carries what was said of
  Sentry's tables over to the next state; `Prepended`, `NewestMembers` and
  `PrefixInjective` say what the lists' operators do;
- `LiveTypeCorrect`, `RowsAlwaysOnce`, `LiveAlwaysStreams`, `ReportAlwaysCovers`:
  consequences;
- `NothingEverLostSilently`: from `PlacedInv`, inductive beside `LiveInv`.  A row that
  pushEvent filters out is not lost only because what is in `seen` is in the feed
  unless that is full (`SeenInv`); a stream that opens finds no old queue or replay
  it would overwrite (`QueueInv`); and each event and incident is followed from its
  record to the screen (`EventsPlaced`, `IncidentsPlaced`).  `StaysOnTheWay` names the only
  steps that end a message's way: the replay that reads it again, and its delivery;
- `AlwaysQuietAfterUnmount`: the action property, from `QuietInv`.

`WatchdogProofs` proves for any set of agents, any heartbeat interval, limit and
window, and any number of rounds and restarts (`WatchdogAssumption`: they are
numbers, interval and limit above zero):

- `SwitchAlways`: `SwitchInv` is inductive.  `LossNoticedInTime` is not by
  itself: a tick may make an agent overdue, so that one must know what the round
  before it saw.  Hence `RoundInv`: a round that is over has noticed every agent
  that is due now, one under way those it is done with; after a round that
  failed it is the agents due before it, `failed` ticks ago.  `LoopInv` says that the
  evidence a round read before it went over the agents is still the newest, or
  that newer evidence is of the same tick.  One lemma per action, and one
  (`ReaderKeeps`) for the steps of the reader on the other thread;
- `IntervalsMissed`: silence for limit times interval counts as that many missed
  beats, which ties the integer division of the code to the limit;
- `SwitchTypeCorrect`, `LossAlwaysNoticed`, `DispositionsJustified`.

`IngestProofs` proves for any threads, identities, keys, requests, rules and size of
the detector's window (`IngestAssumption`: the null values are no real ones, a
signed request names an identity and a key; `DetectorAssumption`: what `rule.py` lets
load, that is counts and windows above zero, and two steps or arms at least):

- *the rule engine*: `MatchesStand`, each match of `EvaluateRule` cites events that
  are what the rule describes, for every rule and every finite set of events that
  can be told apart.  `Means` says the latter without an order of evaluation, so
  each evaluator is followed to its end:
  `OrderedIsSorted` (by `RankBijection`: the rank of an event numbers the set) gives
  the sort, `EarliestCounted` the first *n*, `LeastNumber` the ends of the loops;
  `WalkExists` and `StepsKeep` are what all recursions over sorted events share, that
  there is such a function and that it stays among the states.
  `SingleStands`, `ThresholdStands` (`Chain` is the walk from burst to burst, `BurstStands`
  what one cites), `CorrelationStands` (`TryStands`, one window) and `SequenceStands`
  (`AssignWell`: dealing the next event leaves the events of a step before those of
  the next; `PrefixStands`: what `Deal` returns leads to its terminal);
- `DetectorSound`: `AlertsSound` and the types of the detector by itself, whatever
  arrives.
  `AlertsSound` is not inductive, for it does not say that an event that comes
  later is not taken for one that was cited.  `DetectorInv` adds that events are told
  apart by id and by UUID, that each window holds events of the feed and is the
  newest of its category (`NewestEntered`, `NewestKept`), and what an alert cites is
  kept through the feed's growth by `StandingGrows`;
- *later events*: `EvaluateGrows`, an event later than all before takes no match
  of any rule away.  The sort only gains a last element (`OrderedGrows`), so every
  walk over it is the old walk and one step more: bursts keep their starts
  (`ChainGrows`) and what they cite is full before the newcomer can enter
  (`CitesStay`, `FilledLast`);
- `DetectorIncremental`: `IncrementalIsBatch`, from `BatchInv`.  Equality with the
  batch is not inductive without saying that each window still holds all of its
  category's feed while nothing has been evicted; an undisturbed feed then makes
  the newcomer the last of the sort;
- `DetectorBurstsApart`: `BurstsApart`.  `Bursts` says of a set of matches that each
  has a start of its own, that no start lies in another's window, and that whatever
  the rule describes begins in the window of one.  `ThresholdBursts`, for each
  source `GroupBursts`, and `CorrelationBursts` say that the evaluators return
  such a set;
- `DetectorPrefixesApart`: `PrefixesApart`, from `Visits` over the terminals of a
  sequence rule (`VisitVisits` for one, `SequenceVisits` for all): the prefixes of
  the matches so far are disjoint, and a terminal to which some prefix leads has its
  match or an earlier match used some of that prefix;
- `DetectorMissesNothing`: `NothingMissed`, one lemma per kind of rule
  (`SingleAnswers`, `BurstAnswers`, `SequenceAnswers`).  For a sequence it needs that
  the greedy deal is never behind any other (`AssignFar`, by induction over the
  events, hence `DealCompletes`), which holds under `Telling` and only then;
- `SentryAlertsSound`, `IncidentsAlwaysSound`: the same of the detector that the
  threads share, and of the table.  `FeedInv` says that the detector was shown rows of
  the vault and shows a worker's row once, so that an event it sees is fresh
  whatever order the workers come in; `SoundInv` carries what an incident cites over
  to the rows, the durable ones included;
- `SentryIncremental`, `SentryBurstsApart`: `BatchInv` is kept by the steps of
  Sentry too (`BatchStep`), with the detector made anew by a restart.
  `SentryRecordsMatches` joins this with `SeenIsRecorded`: what any rule says of the
  events shown since the start, in order and within the windows, is in the incidents
  table, in one thread's hands, or dropped by a call that failed.  `PrefixesApart` and
  `NothingMissed` are not stated of Sentry: there a sequence's terminal need not
  have the greatest row id, by which they name it, for rows are numbered in the
  order of the appends and not of `occurred_at`;
- `IngestUsesVault`: with `incidents` left out, every step of a handler is an
  operation of the vault or a stutter (`OpsMap`, `FailuresMap`,
  `StepUsesTable`), a call that records an incident one that fails.  So the
  lemmas `VaultTypeStep` and `VaultInvStep` of `EvidenceVaultProofs`
  apply, and `SentryChainVerifies` follows.  The incidents have invariants of their
  own: they cite what the detector found, of which the vault knows nothing;
- `IngestInvariant`: besides these, `JobsInv` (what a worker is
  about to write is what its request says), `PinnedInv` (a request goes on from
  `bind_key` only under its pin, and the durable rows are signed under durable
  pins), `PublishInv` (an event about to be published has its row), `TodoInv`
  (no two workers hold one signature, and none is held outside the walk's
  recording), and for the types `IncidentsInv`, `BoundInv` (a row being stored has
  room), `HandsInv` and `SentInv`;
- `IngestTypeCorrect`, `AlwaysSignedUnderPin`, `AlwaysPublishedIsStored`,
  `AlwaysSeenIsRecorded`: consequences.

`AgentPipelineProofs` proves for any sources, block size, channel capacity and
number of starts, from `SeqStoreAssumption` and `AgentAssumption`:

- `FileCovers`, `SequenceNeverReused`: the store by itself (`Covered` with its types
  is inductive), under the assumption on writes that its `Spec` makes;
- `PipelineUsesStore`: every step of the agent is a step of `SeqStore` or leaves it
  alone, so the store's invariant and `NeverReused` hold of the agent
  (`AgentNeverReuses`) by the store's own proofs;
- `NumbersAlwaysIdentify`: `NumbersIdentify` alone is not inductive, for it does not
  say that a new number is new.  `Identified` adds that no known event has a
  number above `issued`; `OneNewNumber` shows that each step makes at most one
  numbered event, whose number is above all issued.  It carries over restarts
  because `issued` and `posted` do.
- `NothingEverLost`: `NothingLostInside`, from `PassageInv`.  Order along the channel
  is inductive only with the event in hand (`InOrder`: its line and, once it has one,
  its number are above all passed on of its source), and that needs both that no
  line passed on is above the last line read (`LinesInv`) and that a new number is
  above all known (`Identified`).  `IdleInv` says that nothing is under way when the
  collectors are started.  `PassedMoves` shows that only a collector's send adds to
  what is passed on;
- `CalmBeatAlwaysCurrent`: from `BeatInv`, which says what each half of an unfinished
  heartbeat holds as long as no event has come;
- `PipelineInvariant`: all of these together are inductive.

`SpoolProofs` proves for any size of a segment and of the spool, any number of
pushes, failures and restarts, from `SpoolAssumption`:

- `SpoolTypeCorrect`, `ReplayAlwaysComplete`: `ReplayComplete` is not inductive, for
  it does not say what lies at the end of the files.  `SpoolInv` adds that segments
  and entries lie in the order they were made (`Sorted`), that a fragment at the end
  means the last push failed (`Kept`), and that no segment holds more events than fit,
  with a counter that is not behind (`Sized`).  `Evicted` says what `enforceBounds`
  removes, from the least boundary that is far enough; the lemmas about a push rest on
  it alone;
- `SpoolIsQueue`: every step is a put of `SpoolQueue`, a broken put or nothing.
  The witness of a put is the place where eviction stopped; that the last
  segment evicted was no larger than a segment may be, and that what is left
  beyond the bound is the segment just written, both need `Sized`.

`AgentDaemonProofs` proves for any log, any sizes of batch, channels and spool, and
any number of failures and runs, from `DaemonAssumption` (the numbers are numbers,
batch and channels are not of size zero, what earlier runs left are events):

- `DaemonInvariant`: `DaemonInv` is inductive.  `AddedOnce` is not by itself: what
  waits in the batcher must be a later addition than what went out, and a batch
  dropped at a full channel must take from the end of what is held.  `Placed` says
  that each waiting event knows its place among the additions, and the operators'
  lemmas say what an addition, a drop and a handover do to the order (`SoundAppend`,
  `SoundCut`, `ConsumeKeeps`).  They rest on `FlattenAppend` and `FlattenTail`: a batch at
  either end of the channel is at that end of what `FlattenSeq` joins.  `ReplayIsWhole`
  needs `Replayed`: during the replay too, what is legible on the disk has been added, or
  is still to be replayed, or stands between its Push and its Add (`OnTheWay`), or
  could not be read (`unread`);
- `DaemonTypeCorrect`, `AddedAlwaysOnce`, `ReplayAlwaysWhole`: consequences;
- `MemoryAlwaysSpooled`: `MemoryIsSpooled`, as long as the spool stays below its bound
  (`[]Roomy`): a record legible once stays so, and the one behind a fragment is in
  `Spoilt`.  Without that bound it is false of the code: eviction takes the oldest
  records of the disk whether or not their events have been written out;
- `DaemonUsesQueue`: whatever the goroutines do, the spool is only put to, one record
  or one fragment of a failed write at a time, as the queue that `SpoolProofs` shows
  the files to implement.

Induction: the library's induction theorems take an operator, which no installed
prover instantiates.  `AllNumbers` states induction for an explicit set of numbers
instead and follows from `WFMin`; with a set defined for the purpose it does for the
recursive functions of the rule engine, and for the one in `FlattenSeq`.

Only model-checked: the liveness properties (`Answered`, `EveryLineSent` and the
others of section 3, "Fairness"), since neither fairness nor ENABLED is in reach of the
prover.  Every safety property of a passing run is stated by a theorem.

## 5. Findings

1. `watchdog.py:225` against the comment at 92: a flip to `TELEMETRY_LOSS` that a
   concurrent `GET /watchdog` marks is noted as reported, and the broadcast
   carries `HEALTHY` (`watchdog_race`).
2. `seqstore.go:66` against `seqstore.go:15`: a crash inside the write of the
   reservation, or a full disk, leads to reused sequence numbers
   (`seqstore_torn`).
3. `daemon.go:110` against `daemon.go:91`: the "guaranteed shutdown drain" may end
   before the last flush, and the batch is not written (`daemon_drain`).

## 6. Observed, and left out of the properties

What the models show the code to do, where no run claims the contrary:

- *Flood.*  `engine.py:246` says later events of a burst spawn no second incident.
  A burst longer than the detector's window (`detect.py:121`) evicts the earliest
  event cited, the signature changes, and each further event raises another
  incident.  `BurstsApart` therefore speaks of feeds that the window holds.
- *Greedy steps.*  `_assign_prefix` (`engine.py:112`) leaves an event that matches its
  present step there, and goes on only at one that does not.  Where an event matches
  two steps in a row and the latter has no other, a prefix that exists is not
  found.  The deployed rules' steps are different messages of `sshd`; `rule.py`
  does not forbid others.
- *Unnormalised events.*  `_normalize` (`detect.py:66`) raises on an `occurred_at` without
  a zone, a blank message or a long source, after the event is stored and published:
  the agent gets a 500 for an event that Sentry keeps.
- *Failing rounds.*  While the vault cannot be read, `_watchdog_loop` evaluates no agent
  (`main.py:117`); only `GET /watchdog` then marks a loss, and broadcasts none.
- *Forgotten agents.*  The watchdog's memory ends with Sentry's process.  An agent that
  was lost then and never beats again is in no answer any more, and the dashboard
  shows it as lost until it is reloaded (`useLiveTelemetry.js:58`).
- *Offline label.*  After a good boot one failed poll (`useLiveTelemetry.js:123`) or
  a lost stream (108) shows "offline · mock" (`CleanWhiteDashboard.jsx:9`) over
  live rows; a good poll does not clear it, a stream that opens again does.
- *Incidents* are neither replayed nor deduplicated: one recorded and published
  between the fetch and the subscription is not shown, one recorded before the
  fetch and published after the subscription is shown twice.
- *Refused stream.*  An answer that is not a stream ends the `EventSource` for good;
  the feed stays offline until a reload.
- *Report button.*  `TopNavbar` sets no limit on the time of a report.
- *Torn lines.*  A log line read while it is written loses its first half, or
  itself (`tailer.go:64`); the rest is hashed and sent as a line.
- *Unreadable sources.*  A file that is missing or may not be read is tried again every
  two seconds, one that fails to be read twice a second; meanwhile the source is
  silent (`tailer.go:32`, 71).
- *Fragments.*  A write of the spool that fails half way (`spool.go:74`) leaves a fragment
  without a newline; the record of the next Push, which succeeds, is on the same line
  and no replay can read it.
- *Segments.*  A segment that cannot be opened is skipped by the replay (`spool.go:98`);
  `AgentDaemon` has that as a gap in what the start reads (`unread`), `Spool` does not.
  The error of removing an evicted segment is ignored (`spool.go:179`); that the file
  then stays, beyond the bound and in the next replay, is not modelled.
- *Restart of the agent.*  A file is read from its beginning at every start, so all
  its lines are sent again, under new numbers; Sentry stores them again.
- *journalctl* that ends is not started again (`journald.go:63`).
- *Failed POSTs* are logged and forgotten; one that times out may be stored all the
  same, after later ones.
- *Old verdicts.*  The ledger's Simulate Tamper audits the records of the render
  before the damage and says PASS; an audit and a bit-flip pressed within 400 ms
  leave the verdict of whichever timer fires last.
- *Fixed texts.*  The topology tab says "Dead-Man Switch: Armed" and "Integrity: 0
  Tampering" whatever became of host and evidence (`EnterpriseDashboard.jsx:863-879`,
  `StreamlinedDashboard.jsx:661-677`), the chips "0 Tampered"
  (`StreamlinedDashboard.jsx:309`), the dual-node card "0 Tampering"
  (`DualNodeStatus.jsx:161`), the audit card and the narrative of step four speak of
  verified evidence after a failed audit.  All are `Scripted`.
- *Enterprise narratives* of steps four and five are never shown: the host is killed
  there, and that text comes first.
- *Reviving the host* returns to step one with the clock running.  `isFiled` of the
  form survives closing it, a new incident and a reset of the stage.
- *Minimal's vault tab* passes records without `hash`; rendering throws
  (`HashChainVerifier.jsx:195`) and the page is blank until it is reloaded
  (`crashed`).

## 7. Not modelled, and the plan

Not modelled for good: regular expressions and classification of log lines
(`mapping.go`, the normalizer's parsing), sealing, masking, certificates,
configuration, host metrics, PDF and e-mail rendering, scripts.  They transform
data without a history.  Of the dashboard: free-text search, the heartbeat and
countdown tickers, charts, the scenario switch of `Header`, which nothing mounts,
and the presentational components.

Left to do, most important first:

1. `Compliance` (reads of a vault in use, audit): the report's chain verdict and
   its events speak of one table.
2. The watch set of `fim.go`: a change in a new directory before it is watched.
