---------------------------- MODULE AgentDaemon -----------------------------
(***************************************************************************)
(* The second agent, internal/daemon/daemon.go with internal/batcher and   *)
(* internal/tailer: goroutines take lines and file events, spool them,     *)
(* batch them and write the batches out, until the log ends or a signal    *)
(* comes.  The spool is the queue that Spool.tla implements; a new run     *)
(* replays what it can read of it.                                         *)
(*                                                                         *)
(* One log is tailed and the watcher is on.  A goroutine that is started   *)
(* is one that is scheduled from then on.                                  *)
(***************************************************************************)
EXTENDS Naturals, FiniteSets, SequencesExt

CONSTANTS
  Lines,       \* lines of the log
  FileEvents,  \* events of the watcher, in one run
  BatchSize,   \* cfg.MaxBatchSize
  LinesCap,    \* capacity of the tailer's channel of lines
  OutCap,      \* capacity of the batcher's outChan
  SegmentMax, MaxSize,             \* those of the spool
  Fragment,                        \* what a failed write leaves in the spool: no newline ends it
  Left,        \* what runs of the program before the first may have left in the spool
  MaxFailures, \* bound: the events whose Push fails
  MaxRuns      \* bound: the runs of the program

Sources == {"log", "files"}
Events  == [source : Sources, n : 1..(Lines + FileEvents)]   \* those of earlier runs included
Entries == [event : Events, no : Nat]   \* an event and its place among the additions
Records == [event : Events, legible : BOOLEAN]   \* in the spool; behind a fragment it is illegible

ASSUME DaemonAssumption ==
  /\ Lines \in Nat /\ FileEvents \in Nat /\ MaxRuns \in Nat /\ MaxFailures \in Nat
  /\ BatchSize \in Nat \ {0} /\ LinesCap \in Nat \ {0} /\ OutCap \in Nat \ {0}
  /\ MaxSize \in Nat /\ Left \subseteq Seq(Records \cup {Fragment})
  /\ Fragment \notin Records

VARIABLES
  follow, emitBatches,   \* flags of the command line
  runs,                  \* runs so far
  phase,                 \* where Run is
  stopping, cancelled,   \* ctx and runCtx are done
  opened,                \* this run has a spool
  unread,                \* history: the events on the disk that its replay could not read
  replay,                \* what it has read of the spool and has still to process
  tailer, sent, lines,   \* the tailer's goroutine, the lines it has sent, its channel
  worker,                \* the goroutine of each source that calls processEvent
  seen,                  \* file events seen
  spool, unspooled,      \* the spool's queue; the events that no Push has written
  pending, outChan,      \* the batcher's
  ticker, consumer,      \* the goroutines of the flush timer and of the output
  output,                \* what this run has written out in batches
  added, dropped         \* the events that this run has added; those dropped at a full outChan

flags == <<follow, emitBatches>>
ctx == <<stopping, cancelled>>
tailerVars == <<tailer, sent, lines>>
workerVars == <<worker, seen>>
spoolVars == <<spool, unspooled, opened, unread>>
batcherVars == <<pending, outChan, added, dropped>>
vars == <<flags, runs, phase, ctx, replay, tailerVars, workerVars, spoolVars,
          batcherVars, ticker, consumer, output>>

TypeOK ==
  /\ follow \in BOOLEAN /\ emitBatches \in BOOLEAN
  /\ runs \in 0..MaxRuns
  /\ phase \in {"down", "replay", "tailers", "sleep", "signal", "services", "returned"}
  /\ stopping \in BOOLEAN /\ cancelled \in BOOLEAN
  /\ opened \in BOOLEAN /\ unread \subseteq Events
  /\ replay \in Seq(Records \cup {Fragment})
  /\ tailer \in {"off", "check", "send", "closed"}
  /\ sent \in 0..Lines /\ seen \in 0..FileEvents
  /\ lines \in Seq(1..Lines) /\ Len(lines) <= LinesCap
  /\ worker \in [Sources -> [step : {"off", "select", "done"}]
                           \cup [step : {"push", "add", "emit"}, event : Events]]
  /\ spool \in Seq(Records \cup {Fragment}) /\ unspooled \subseteq Events
  /\ pending \in Seq(Entries) /\ Len(pending) < BatchSize
  /\ outChan \in Seq(Seq(Entries)) /\ Len(outChan) <= OutCap
  /\ ticker \in {"off", "on", "done"} /\ consumer \in {"off", "run", "drain", "done"}
  /\ output \in Seq(Entries) /\ added \in Seq(Events) /\ dropped \subseteq 1..Len(added)

At(step) == [step |-> step]

\* A process that has just been started.
Fresh ==
  /\ stopping' = FALSE /\ cancelled' = FALSE
  /\ tailer' = "off" /\ sent' = 0 /\ lines' = <<>>
  /\ worker' = [s \in Sources |-> At("off")] /\ seen' = 0
  /\ pending' = <<>> /\ outChan' = <<>> /\ added' = <<>> /\ dropped' = {}
  /\ ticker' = "off" /\ consumer' = "off" /\ output' = <<>>

Init ==
  /\ follow \in BOOLEAN /\ emitBatches \in BOOLEAN
  /\ runs = 0 /\ phase = "down"
  /\ stopping = FALSE /\ cancelled = FALSE
  /\ replay = <<>>
  /\ tailer = "off" /\ sent = 0 /\ lines = <<>>
  /\ worker = [s \in Sources |-> At("off")] /\ seen = 0
  /\ spool \in Left /\ unspooled = {} /\ opened = FALSE /\ unread = {}
  /\ pending = <<>> /\ outChan = <<>> /\ added = <<>> /\ dropped = {}
  /\ ticker = "off" /\ consumer = "off" /\ output = <<>>

Up == phase \notin {"down", "returned"}
-----------------------------------------------------------------------------
(* The batcher.  Each operation holds its mutex throughout.                *)

\* Seeded fault: the batch is sent to the channel without a default.
FlushLocked_Blocks(batch) ==
  IF batch = <<>> THEN UNCHANGED <<pending, outChan, dropped>>
  ELSE /\ Len(outChan) < OutCap
       /\ pending' = <<>>
       /\ outChan' = Append(outChan, batch)
       /\ UNCHANGED dropped

\* Seeded fault: pending is not reset when the batch is dropped.
FlushLocked_Keeps(batch) ==
  IF batch = <<>> THEN UNCHANGED <<pending, outChan, dropped>>
  ELSE IF Len(outChan) < OutCap
  THEN pending' = <<>> /\ outChan' = Append(outChan, batch) /\ UNCHANGED dropped
  ELSE pending' = batch /\ UNCHANGED outChan /\ dropped' = dropped \cup {x.no : x \in Range(batch)}

\* flushLocked: the batch goes to the channel, or nowhere when that is full.
FlushLocked(batch) ==
  IF batch = <<>> THEN UNCHANGED <<pending, outChan, dropped>>
  ELSE /\ pending' = <<>>
       /\ IF Len(outChan) < OutCap
          THEN outChan' = Append(outChan, batch) /\ UNCHANGED dropped
          ELSE dropped' = dropped \cup {x.no : x \in Range(batch)} /\ UNCHANGED outChan

Entry(e) == [event |-> e, no |-> Len(added')]

\* Seeded fault: the batch is flushed by the event after the one that fills it.
Add_Late(e) ==
  /\ added' = Append(added, e)
  /\ LET batch == Append(pending, Entry(e))
     IN  IF Len(batch) > BatchSize THEN FlushLocked(batch)
         ELSE pending' = batch /\ UNCHANGED <<outChan, dropped>>

\* Add, which seals a batch that is full.
Add(e) ==
  /\ added' = Append(added, e)
  /\ LET batch == Append(pending, Entry(e))
     IN  IF Len(batch) >= BatchSize THEN FlushLocked(batch)
         ELSE pending' = batch /\ UNCHANGED <<outChan, dropped>>

Flush == FlushLocked(pending) /\ UNCHANGED added

Tick ==
  /\ Up /\ ticker = "on" /\ pending # <<>>
  /\ Flush
  /\ UNCHANGED <<flags, runs, phase, ctx, replay, tailerVars, workerVars, spoolVars, ticker, consumer, output>>

TickerStops ==
  /\ Up /\ ticker = "on" /\ cancelled
  /\ Flush
  /\ ticker' = "done"
  /\ UNCHANGED <<flags, runs, phase, ctx, replay, tailerVars, workerVars, spoolVars, consumer, output>>
-----------------------------------------------------------------------------
(* processEvent and its callers.                                           *)

Queue == INSTANCE SpoolQueue WITH queue <- spool, Events <- Records

\* Seeded fault: the record stays in a buffer of the process.
Push_Buffered(e) == UNCHANGED spoolVars

\* A record behind a fragment is on one line with it, unless the segment was
\* full or the fragment is of an earlier run, as it may be before the first Add.
Legibility ==
  IF spool = <<>> \/ Last(spool) # Fragment THEN {TRUE}
  ELSE IF added = <<>> \/ Queue!EventsIn(1, Len(spool)) >= SegmentMax THEN BOOLEAN
  ELSE {FALSE}

Pushed(e) ==
  /\ \E l \in Legibility : Queue!Put([event |-> e, legible |-> l])
  /\ UNCHANGED unspooled

\* The segment cannot be opened, or the write fails and may leave a fragment.
PushFails(e) ==
  /\ Cardinality(unspooled) < MaxFailures
  /\ UNCHANGED spool \/ Queue!Break
  /\ unspooled' = unspooled \cup {e}

\* Push, whose error is ignored; nothing without a spool.
Push(e) ==
  /\ IF opened THEN Pushed(e) \/ PushFails(e)
     ELSE unspooled' = unspooled \cup {e} /\ UNCHANGED spool
  /\ UNCHANGED <<opened, unread>>

Goes(s, to) == worker' = [worker EXCEPT ![s] = to]

WorkerPushes(s) ==
  /\ Up /\ worker[s].step = "push"
  /\ Push(worker[s].event)
  /\ Goes(s, [worker[s] EXCEPT !.step = "add"])
  /\ UNCHANGED <<flags, runs, phase, ctx, replay, tailerVars, seen, batcherVars, ticker, consumer, output>>

WorkerAdds(s) ==
  /\ Up /\ worker[s].step = "add"
  /\ Add(worker[s].event)
  /\ Goes(s, IF emitBatches THEN At("select") ELSE [worker[s] EXCEPT !.step = "emit"])
  /\ UNCHANGED <<flags, runs, phase, ctx, replay, tailerVars, seen, spoolVars, ticker, consumer, output>>

\* Without -batch each event is signed and written by the goroutine that took it.
WorkerEmits(s) ==
  /\ Up /\ worker[s].step = "emit"
  /\ Goes(s, At("select"))
  /\ UNCHANGED <<flags, runs, phase, ctx, replay, tailerVars, seen, spoolVars, batcherVars, ticker, consumer, output>>

Take(s, n) == Goes(s, [step |-> "push", event |-> [source |-> s, n |-> n]])

TakeLine ==
  /\ Up /\ worker["log"].step = "select" /\ lines # <<>>
  /\ Take("log", Head(lines))
  /\ lines' = Tail(lines)
  /\ UNCHANGED <<flags, runs, phase, ctx, replay, tailer, sent, seen, spoolVars, batcherVars, ticker, consumer, output>>

TakeFileEvent ==
  /\ Up /\ worker["files"].step = "select" /\ seen < FileEvents
  /\ Take("files", seen + 1)
  /\ seen' = seen + 1
  /\ UNCHANGED <<flags, runs, phase, ctx, replay, tailerVars, spoolVars, batcherVars, ticker, consumer, output>>

\* The select may find the context done or the error channel closed, whatever the
\* channel of lines still holds.
WorkerStops(s) ==
  /\ Up /\ worker[s].step = "select"
  /\ cancelled \/ (s = "log" /\ tailer = "closed")
  /\ Goes(s, At("done"))
  /\ UNCHANGED <<flags, runs, phase, ctx, replay, tailerVars, seen, spoolVars, batcherVars, ticker, consumer, output>>
-----------------------------------------------------------------------------
(* The tailer.                                                             *)

Tailing(from, to) ==
  /\ Up /\ tailer = from
  /\ tailer' = to
  /\ UNCHANGED <<flags, runs, phase, ctx, replay, workerVars, spoolVars, batcherVars, ticker, consumer, output>>

\* With -follow, the next line is one that is appended to the log.
ReadLine == ~cancelled /\ sent < Lines /\ Tailing("check", "send") /\ UNCHANGED <<sent, lines>>

SendLine ==
  /\ Len(lines) < LinesCap
  /\ sent' = sent + 1
  /\ lines' = Append(lines, sent + 1)
  /\ Tailing("send", "check")

\* The deferred calls close the error channel, which is what the select may see
\* first, and the lines, whose channel is read on as long as it holds any.
TailerEnds ==
  /\ cancelled \/ (sent = Lines /\ ~follow)
  /\ Tailing("check", "closed")
  /\ UNCHANGED <<sent, lines>>

\* The log cannot be opened or read on.
TailerFails == Tailing("check", "closed") /\ UNCHANGED <<sent, lines>>
-----------------------------------------------------------------------------
(* The batch consumer.                                                     *)

Consume ==
  /\ Up /\ consumer \in {"run", "drain"} /\ outChan # <<>>
  /\ outChan' = Tail(outChan)
  /\ output' = IF emitBatches THEN output \o Head(outChan) ELSE output
  /\ UNCHANGED <<flags, runs, phase, ctx, replay, tailerVars, workerVars, spoolVars, pending, added, dropped,
                 ticker, consumer>>

Consumer(from, to) ==
  /\ Up /\ consumer = from
  /\ consumer' = to
  /\ UNCHANGED <<flags, runs, phase, ctx, replay, tailerVars, workerVars, spoolVars, batcherVars, ticker, output>>

ConsumerDrains == cancelled /\ Consumer("run", "drain")
ConsumerEnds   == outChan = <<>> /\ Consumer("drain", "done")
-----------------------------------------------------------------------------
(* Run.                                                                    *)

\* What the lines of a spool parse to.
Parses(x) == x # Fragment /\ x.legible
Legible(q) == {x.event : x \in {y \in Range(q) : Parses(y)}}

\* The program starts, again after a crash or a stop, and Run reads the spool,
\* or what it can of it: all but files or a directory that cannot be read; or
\* NewSpool has failed, and there is none.
Start ==
  /\ ~Up /\ runs < MaxRuns
  /\ runs' = runs + 1
  /\ phase' = "replay"
  /\ \/ opened' = TRUE /\ replay' = spool
     \/ /\ opened' = TRUE
        /\ \E i, j \in 0..Len(spool) :
             i < j /\ replay' = SubSeq(spool, 1, i) \o SubSeq(spool, j + 1, Len(spool))
     \/ opened' = FALSE /\ replay' = <<>>
  /\ unread' = Legible(spool) \ Legible(replay')
  /\ Fresh
  /\ UNCHANGED <<flags, spool, unspooled>>

\* ReplayUnacknowledged leaves out a line that does not parse.
SkipLine ==
  /\ phase = "replay" /\ replay # <<>> /\ ~Parses(Head(replay))
  /\ replay' = Tail(replay)
  /\ UNCHANGED <<flags, runs, phase, ctx, tailerVars, workerVars, spoolVars, batcherVars, ticker, consumer, output>>

Replaying(e) ==
  /\ phase = "replay" /\ replay # <<>> /\ Parses(Head(replay)) /\ e = Head(replay).event
  /\ Push(e)
  /\ replay' = Tail(replay)

\* Seeded fault: an event that is replayed is spooled only.
Replay_NotAdded ==
  /\ \E e \in Legible(replay) : Replaying(e)
  /\ UNCHANGED <<flags, runs, phase, ctx, tailerVars, workerVars, batcherVars, ticker, consumer, output>>

\* processEvent of a replayed event, before any goroutine is started.
Replay ==
  /\ \E e \in Legible(replay) : Replaying(e) /\ Add(e)
  /\ UNCHANGED <<flags, runs, phase, ctx, tailerVars, workerVars, ticker, consumer, output>>

\* The flush timer, the consumer, the tailer and the watcher are started.
StartServices ==
  /\ phase = "replay" /\ replay = <<>>
  /\ phase' = IF follow THEN "signal" ELSE "tailers"
  /\ ticker' = "on" /\ consumer' = "run" /\ tailer' = "check"
  /\ worker' = [s \in Sources |-> At("select")]
  /\ UNCHANGED <<flags, runs, ctx, replay, sent, lines, seen, spoolVars, batcherVars, output>>

Running(from, to) ==
  /\ phase = from
  /\ phase' = to
  /\ UNCHANGED <<flags, runs, replay, tailerVars, workerVars, spoolVars, ticker, consumer, output>>

\* Without -follow Run waits for the tailers, flushes, sleeps and cancels.
WaitTailers == worker["log"].step = "done" /\ Running("tailers", "sleep") /\ Flush /\ UNCHANGED ctx
Cancel      == Running("sleep", "services") /\ cancelled' = TRUE /\ UNCHANGED <<stopping, batcherVars>>

\* With -follow it waits for the signal and flushes.
WaitSignal == stopping /\ Running("signal", "services") /\ Flush /\ UNCHANGED ctx

\* serviceWg: the consumer and the goroutine of the watcher's events.
WaitServices ==
  /\ consumer = "done" /\ worker["files"].step = "done"
  /\ Running("services", "returned") /\ UNCHANGED <<ctx, batcherVars>>

\* SIGINT or SIGTERM: ctx is done, and runCtx with it.
Signal ==
  /\ Up /\ ~stopping
  /\ stopping' = TRUE /\ cancelled' = TRUE
  /\ UNCHANGED <<flags, runs, phase, replay, tailerVars, workerVars, spoolVars, batcherVars, ticker, consumer, output>>

\* The process is killed: the spool is left, the rest starts afresh.
Crash ==
  /\ Up
  /\ phase' = "down"
  /\ replay' = <<>>
  /\ Fresh
  /\ UNCHANGED <<flags, runs, spoolVars>>

Worker(s) == WorkerPushes(s) \/ WorkerAdds(s) \/ WorkerEmits(s) \/ WorkerStops(s)

Main == SkipLine \/ Replay \/ StartServices \/ WaitTailers \/ Cancel \/ WaitSignal \/ WaitServices

Next ==
  \/ Tick \/ TickerStops
  \/ \E s \in Sources : Worker(s)
  \/ TakeLine \/ TakeFileEvent
  \/ ReadLine \/ SendLine \/ TailerEnds \/ TailerFails
  \/ Consume \/ ConsumerDrains \/ ConsumerEnds
  \/ Main
  \/ Start \/ Signal \/ Crash

Spec == Init /\ [][Next]_vars

\* The scheduler runs every goroutine that can go on.  Nothing makes a log grow,
\* a signal come or a process start.
FairSpec ==
  /\ Spec
  /\ WF_vars(Main)
  /\ WF_vars(Worker("log") \/ TakeLine)
  /\ WF_vars(Worker("files"))
  /\ WF_vars(~follow /\ ReadLine)
  /\ WF_vars(SendLine \/ TailerEnds)
  /\ WF_vars(Consume \/ ConsumerDrains \/ ConsumerEnds)
-----------------------------------------------------------------------------
(* Properties.                                                             *)

\* With -batch, what is added is at any time in exactly one of the output, the
\* channel, the pending events and the batches dropped at a full channel, and
\* the first three hold it in the order in which it was added: size, timer and
\* shutdown flushes by three goroutines neither repeat, lose nor reorder an event.
AddedOnce ==
  emitBatches =>
    LET kept == output \o FlattenSeq(outChan) \o pending
    IN  /\ \A i, j \in DOMAIN kept : i < j => kept[i].no < kept[j].no
        /\ {x.no : x \in Range(kept)} = (1..Len(added)) \ dropped
        /\ \A x \in Range(kept) : x.event = added[x.no]

\* The events between their Push and their Add.
OnTheWay == {e \in Events : \E s \in Sources : worker[s] = [step |-> "add", event |-> e]}

\* The events whose record is spoilt by the fragment of the Push before.
Spoilt ==
  {spool[n].event : n \in {k \in 2..Len(spool) : spool[k - 1] = Fragment /\ spool[k] # Fragment}}

\* Past its Push, an event is on the disk for the next run to read, until it is
\* added and wherever it goes from there, pending, queued, dropped or written
\* out; unless its own Push failed, or the one before left a fragment, or there
\* is no spool.  Before its Push it is in memory only, in a channel or just
\* taken from one: that much a crash loses of the watcher's events.
MemoryIsSpooled == Range(added) \cup OnTheWay \subseteq Legible(spool) \cup Spoilt \cup unspooled

\* Past the replay, whatever is legible on the disk has been given to this run's
\* batcher, or is just about to be, but what the replay could not read: no event
\* of an earlier run is left on the disk only ("Replay unacknowledged events
\* from crash spool").
ReplayIsWhole ==
  Up /\ phase # "replay" => Legible(spool) \subseteq Range(added) \cup OnTheWay \cup unread

\* Run returns after a signal, and without -follow also at the end of the log:
\* no goroutine that it waits for waits for another.
Returns == (Up /\ (stopping \/ ~follow)) ~> ~Up

\* "Start batch consumer with guaranteed shutdown drain" (daemon.go): with -batch
\* nothing is left unwritten when Run returns.
Drained == emitBatches /\ phase = "returned" => pending = <<>> /\ outChan = <<>>
=============================================================================
