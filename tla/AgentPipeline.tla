--------------------------- MODULE AgentPipeline ---------------------------
(***************************************************************************)
(* barbarika-agent: one goroutine per source collects lines, numbers them  *)
(* from the shared SeqStore and puts them into one channel; one goroutine  *)
(* takes them out and POSTs them to Sentry, one at a time; one sends the   *)
(* heartbeats, which carry the number and the hash of the last event.      *)
(*                                                                         *)
(* A line is its number in its source.  A signal ends the process as a     *)
(* crash does: main returns as soon as it has cancelled the context.       *)
(***************************************************************************)
EXTENDS SeqStore, SequencesExt

CONSTANTS
  Files,     \* log files, read by FileTailer
  Journals,  \* journald, read by JournaldCollector
  Watches,   \* directories under integrity monitoring
  Seed,      \* lines of the journal that journalctl starts with
  Capacity,  \* of EventChan
  NoEvent,
  MaxLines,  \* bound: lines of each source
  MaxBoots,  \* bound: starts of the agent
  BeatBoots  \* bound: starts after which heartbeats are sent too

Sources == Files \cup Journals \cup Watches

\* models.Event: its number, its source and the line of it, whether it holds the
\* whole line, and its time of ingestion.
Events == [seq : Nat, source : Sources, line : Nat, whole : BOOLEAN, boot : Nat]

ASSUME AgentAssumption ==
  /\ Capacity \in Nat \ {0} /\ Seed \in Nat /\ NoEvent \notin Events
  /\ MaxLines \in [Sources -> Nat] /\ MaxBoots \in Nat /\ BeatBoots \in Nat

VARIABLES
  written,    \* lines each source has, those that end with a newline
  half,       \* the files in which a line is being written
  boot,       \* starts of the agent; stands for the timestamps of its events
  step,       \* what each collector does next
  start,      \* lines each collector has left out at its start
  read,       \* lines each collector has got to
  torn,       \* lines of which the tailer has discarded the first half
  hand,       \* the event each collector is making or sending
  channel,    \* EventChan
  sender,     \* the event the main loop is at, and what it does next
  lastSeq,    \* heartbeatWatcher.LastSeq
  lastHash,   \* heartbeatWatcher.LastHash: the event it is the hash of
  beat,       \* the heartbeat in the making; calm, a history: no event arrives meanwhile
  taken,      \* history: the events of this boot taken out of the channel
  posted      \* history: every event that was ever POSTed

storeVars == <<file, phase, caller, next, reservedTo, issued>>
worldVars == <<written, half>>
collectorVars == <<start, read, torn, step, hand>>
mainVars == <<channel, sender, lastSeq, lastHash, taken, posted>>

agentVars == <<storeVars, worldVars, boot, collectorVars, mainVars, beat>>

NoBeat == [step |-> "wait", needs |-> {}, number |-> 0, hash |-> NoEvent, calm |-> TRUE]

Waiting == [step |-> "receive", event |-> NoEvent]

AgentInit ==
  /\ Init
  /\ written = [c \in Sources |-> 0] /\ half = {} /\ boot = 0
  /\ step = [c \in Sources |-> "stopped"]
  /\ start = [c \in Sources |-> 0] /\ read = start
  /\ torn = [c \in Sources |-> {}] /\ hand = [c \in Sources |-> NoEvent]
  /\ channel = <<>> /\ sender = Waiting
  /\ lastSeq = 0 /\ lastHash = NoEvent
  /\ beat = NoBeat
  /\ taken = <<>> /\ posted = {}
-----------------------------------------------------------------------------
(* The host.                                                               *)

WriteHalf(c) ==
  /\ c \in Files /\ c \notin half /\ written[c] < MaxLines[c]
  /\ half' = half \cup {c}
  /\ UNCHANGED <<storeVars, written, boot, collectorVars, mainVars, beat>>

WriteLine(c) ==
  /\ written[c] < MaxLines[c]
  /\ written' = [written EXCEPT ![c] = @ + 1]
  /\ half' = half \ {c}
  /\ UNCHANGED <<storeVars, boot, collectorVars, mainVars, beat>>
-----------------------------------------------------------------------------
(* Start and stop.                                                         *)

\* A file is read from its beginning, the journal from its last lines, and a
\* change of a file is seen only while it is watched.
Skipped(c) ==
  CASE c \in Files -> 0
    [] c \in Journals -> IF written[c] > Seed THEN written[c] - Seed ELSE 0
    [] c \in Watches -> written[c]

Boot ==
  /\ boot < MaxBoots
  /\ OpenSeqStore
  /\ boot' = boot + 1
  /\ UNCHANGED <<worldVars, collectorVars, mainVars, beat>>

Forgotten ==
  /\ step' = [c \in Sources |-> "stopped"]
  /\ start' = [c \in Sources |-> 0] /\ read' = start'
  /\ torn' = [c \in Sources |-> {}] /\ hand' = [c \in Sources |-> NoEvent]
  /\ channel' = <<>> /\ sender' = Waiting
  /\ lastSeq' = 0 /\ lastHash' = NoEvent
  /\ beat' = NoBeat
  /\ taken' = <<>>
  /\ UNCHANGED <<worldVars, boot, posted>>

\* The store cannot be opened, log.Fatalf; a signal; a crash.
Down == (OpenFails \/ Crash) /\ Forgotten
-----------------------------------------------------------------------------
(* The collectors.                                                         *)

Up == phase \in {"ready", "reserve", "truncated"} /\ step # [c \in Sources |-> "stopped"]

Event(c, whole) == [seq |-> 0, source |-> c, line |-> read[c] + 1, whole |-> whole, boot |-> boot]

\* ReadString finds the end of the file within a line: what it returns with
\* io.EOF is dropped, and the next call goes on after it.
ReadHalf(c) ==
  /\ step[c] = "read" /\ c \in half
  /\ read[c] = written[c] /\ read[c] + 1 \notin torn[c]
  /\ torn' = [torn EXCEPT ![c] = @ \cup {read[c] + 1}]
  /\ UNCHANGED <<storeVars, worldVars, boot, start, read, step, hand, mainVars, beat>>

\* Any other read error: what was read of the line is dropped too, if anything was,
\* and the tailer goes on trying.
ReadFails(c) ==
  /\ c \in Files /\ step[c] = "read"
  /\ step' = [step EXCEPT ![c] = "failing"]
  /\ \/ UNCHANGED torn
     \/ /\ read[c] < written[c] \/ c \in half
        /\ torn' = [torn EXCEPT ![c] = @ \cup {read[c] + 1}]
  /\ UNCHANGED <<storeVars, worldVars, boot, start, read, hand, mainVars, beat>>

\* A file that could not be opened is there, or a read succeeds again.
Readable(c) ==
  /\ step[c] = "failing"
  /\ step' = [step EXCEPT ![c] = "read"]
  /\ UNCHANGED <<storeVars, worldVars, boot, start, read, torn, hand, mainVars, beat>>

\* A line is read, or the rest of one.
ReadLine(c) ==
  /\ step[c] = "read" /\ read[c] < written[c]
  /\ hand' = [hand EXCEPT ![c] = Event(c, read[c] + 1 \notin torn[c])]
  /\ read' = [read EXCEPT ![c] = @ + 1]
  /\ step' = [step EXCEPT ![c] = "number"]
  /\ UNCHANGED <<storeVars, worldVars, boot, start, torn, mainVars, beat>>

\* The rest is nothing but the newline: an empty line is skipped.
ReadEmpty(c) ==
  /\ step[c] = "read" /\ read[c] < written[c] /\ read[c] + 1 \in torn[c]
  /\ read' = [read EXCEPT ![c] = @ + 1]
  /\ UNCHANGED <<storeVars, worldVars, boot, start, torn, step, hand, mainVars, beat>>

\* journalctl ends or cannot be started: nobody starts it again.
JournalEnds(c) ==
  /\ c \in Journals /\ step[c] = "read"
  /\ step' = [step EXCEPT ![c] = "stopped"]
  /\ UNCHANGED <<storeVars, worldVars, boot, start, read, torn, hand, mainVars, beat>>

Numbered(c, n) ==
  /\ hand' = [hand EXCEPT ![c].seq = n]
  /\ step' = [step EXCEPT ![c] = "send"]
  /\ UNCHANGED <<start, read, torn>>

\* seq.Next() within the block.
Number(c) ==
  /\ step[c] = "number"
  /\ Issue
  /\ Numbered(c, next')
  /\ UNCHANGED <<worldVars, boot, mainVars, beat>>

\* seq.Next() that reserves: it holds the mutex until the file is written.
Reserving(c) ==
  /\ step[c] = "number"
  /\ IssueReserving
  /\ step' = [step EXCEPT ![c] = "reserving"]
  /\ UNCHANGED <<worldVars, boot, start, read, torn, hand, mainVars, beat>>

FileTruncated == Truncate /\ UNCHANGED <<worldVars, boot, collectorVars, mainVars, beat>>

\* NewManager has its store: Start launches the collectors.  A log file that is
\* missing, or that the agent may not read, is tried again every two seconds.
Launch ==
  /\ caller = "OpenSeqStore" /\ Write
  /\ start' = [c \in Sources |-> Skipped(c)] /\ read' = start'
  /\ \E closed \in SUBSET Files :
       step' = [c \in Sources |-> IF c \in closed THEN "failing" ELSE "read"]
  /\ UNCHANGED <<worldVars, boot, torn, hand, mainVars, beat>>

Reserved(c) ==
  /\ caller = "Next" /\ step[c] = "reserving"
  /\ Write
  /\ Numbered(c, next)
  /\ UNCHANGED <<worldVars, boot, mainVars, beat>>

\* Seeded fault: a full channel does not hold the collector up.
Enqueue_Drops(c) ==
  /\ step[c] = "send"
  /\ channel' = IF Len(channel) < Capacity THEN Append(channel, hand[c]) ELSE channel
  /\ hand' = [hand EXCEPT ![c] = NoEvent]
  /\ step' = [step EXCEPT ![c] = "read"]
  /\ UNCHANGED <<storeVars, worldVars, boot, start, read, torn, sender, lastSeq, lastHash, taken, posted, beat>>

\* outChan <- event.
Enqueue(c) ==
  /\ step[c] = "send" /\ Len(channel) < Capacity
  /\ channel' = Append(channel, hand[c])
  /\ hand' = [hand EXCEPT ![c] = NoEvent]
  /\ step' = [step EXCEPT ![c] = "read"]
  /\ UNCHANGED <<storeVars, worldVars, boot, start, read, torn, sender, lastSeq, lastHash, taken, posted, beat>>
-----------------------------------------------------------------------------
(* The main loop.                                                          *)

\* An event is received and its number goes to the heartbeat's goroutine.
Receive ==
  /\ sender.step = "receive" /\ channel # <<>>
  /\ sender' = [step |-> "hash", event |-> Head(channel)]
  /\ channel' = Tail(channel)
  /\ lastSeq' = Head(channel).seq
  /\ taken' = Append(taken, Head(channel))
  /\ beat' = [beat EXCEPT !.calm = beat.step = "wait"]
  /\ UNCHANGED <<storeVars, worldVars, boot, collectorVars, lastHash, posted>>

\* Seeded fault: the hash is kept only of an event that Sentry has stored.
SendEvent_Stored ==
  /\ sender.step = "hash"
  /\ sender' = [sender EXCEPT !.step = "post"]
  /\ lastHash' \in {lastHash, sender.event}
  /\ posted' = posted \cup {sender.event}
  /\ UNCHANGED <<storeVars, worldVars, boot, collectorVars, channel, lastSeq, taken, beat>>

\* Its hash follows, and SendEvent POSTs it.
SendEvent ==
  /\ sender.step = "hash"
  /\ sender' = [sender EXCEPT !.step = "post"]
  /\ lastHash' = sender.event
  /\ posted' = posted \cup {sender.event}
  /\ UNCHANGED <<storeVars, worldVars, boot, collectorVars, channel, lastSeq, taken, beat>>

\* Seeded fault: a POST that fails ends the loop.
SendReturns_Ends ==
  /\ sender.step = "post"
  /\ sender' \in {Waiting, [sender EXCEPT !.step = "done"]}
  /\ UNCHANGED <<storeVars, worldVars, boot, collectorVars, channel, lastSeq, lastHash, taken, posted, beat>>

\* Sentry has answered, or refused, or the client's timeout has expired, in
\* which case the event may have been stored or will be: all go on.
SendReturns ==
  /\ sender.step = "post"
  /\ sender' = Waiting
  /\ UNCHANGED <<storeVars, worldVars, boot, collectorVars, channel, lastSeq, lastHash, taken, posted, beat>>
-----------------------------------------------------------------------------
(* The heartbeats.                                                         *)

BeatTicks ==
  /\ phase # "down" /\ beat.step = "wait" /\ boot <= BeatBoots
  /\ beat' = [NoBeat EXCEPT !.step = "make", !.needs = {"number", "hash"}, !.calm = sender.step # "hash"]
  /\ UNCHANGED <<storeVars, worldVars, boot, collectorVars, mainVars>>

\* The payload takes LastSeq and LastHash, not synchronised with the main loop's
\* assignments: the build may load them in either order.
BeatTakesSeq ==
  /\ "number" \in beat.needs
  /\ beat' = [beat EXCEPT !.needs = @ \ {"number"}, !.number = lastSeq]
  /\ UNCHANGED <<storeVars, worldVars, boot, collectorVars, mainVars>>

BeatTakesHash ==
  /\ "hash" \in beat.needs
  /\ beat' = [beat EXCEPT !.needs = @ \ {"hash"}, !.hash = lastHash]
  /\ UNCHANGED <<storeVars, worldVars, boot, collectorVars, mainVars>>

\* SendHeartbeat returns, whatever has become of the POST.
BeatReturns ==
  /\ beat.step = "make" /\ beat.needs = {}
  /\ beat' = NoBeat
  /\ UNCHANGED <<storeVars, worldVars, boot, collectorVars, mainVars>>
-----------------------------------------------------------------------------
Collect(c) == ReadHalf(c) \/ ReadLine(c) \/ ReadEmpty(c) \/ Number(c) \/ Reserving(c) \/ Reserved(c) \/ Enqueue(c)

MainLoop == Receive \/ SendEvent \/ SendReturns

Heartbeat == BeatTicks \/ BeatTakesSeq \/ BeatTakesHash \/ BeatReturns

AgentNext ==
  \/ \E c \in Sources : WriteHalf(c) \/ WriteLine(c) \/ Collect(c)
  \/ \E c \in Sources : ReadFails(c) \/ Readable(c) \/ JournalEnds(c)
  \/ Boot \/ FileTruncated \/ Launch \/ Down
  \/ MainLoop \/ Heartbeat

\* Every goroutine goes on while it can: the scheduler is fair to each, the
\* client's timeout ends every POST, and Go serves blocked senders of a channel
\* and waiters for a mutex in turn.  Nothing is assumed of the host (nor that a log
\* file can ever be read), of a signal or of a restart.
AgentSpec ==
  /\ AgentInit /\ [][AgentNext]_agentVars
  /\ \A c \in Sources : WF_agentVars(Collect(c))
  /\ WF_agentVars(FileTruncated \/ Launch)
  /\ WF_agentVars(MainLoop)
-----------------------------------------------------------------------------
(* Properties.                                                             *)

InHand(c) == IF hand[c] = NoEvent THEN <<>> ELSE <<hand[c]>>

\* What the agent has made of its sources since it started, oldest first, the
\* event that the collector of c has in hand at the end.
Passage(c) == taken \o channel \o InHand(c)

Made(c) == {Passage(c)[i] : i \in {k \in DOMAIN Passage(c) : Passage(c)[k].source = c}}

WholeLines(c) == {n \in start[c] + 1..read[c] : n \notin torn[c]}

\* Between the file and the POST nothing is lost, doubled or overtaken by a later
\* line of its source, however full the channel is (tailer.go:101): every line
\* read that was not cut in two is there, once, and the numbers rise with the lines.
NothingLostInside ==
  \A c \in Sources :
    /\ \A i, j \in DOMAIN Passage(c) :
         LET e == Passage(c)[i]
             f == Passage(c)[j]
         IN  i < j /\ e.source = c /\ f.source = c =>
               e.line < f.line /\ (f.seq # 0 => e.seq < f.seq)
    /\ {e.line : e \in {f \in Made(c) : f.whole}} = WholeLines(c)

InFlight == ToSet(taken \o channel) \cup {hand[c] : c \in {d \in Sources : step[d] = "send"}}

\* agent_sequence names one event for ever: no two events, of whatever sources
\* and boots, have gone to Sentry, or are about to, under one number.
NumbersIdentify ==
  \A e, f \in posted \cup InFlight : e.seq = f.seq => e = f

LastTaken == IF taken = <<>> THEN NoEvent ELSE taken[Len(taken)]

\* A heartbeat may pair the number of one event with the hash of another, for two
\* goroutines share them without synchronisation (main.go:100).  But when no
\* event is taken while it is made it names the newest, by both: neither is left
\* behind, however the POSTs of events end.
CalmBeatIsCurrent ==
  beat.step = "make" /\ beat.needs = {} /\ beat.calm =>
    /\ beat.hash = LastTaken
    /\ beat.number = IF taken = <<>> THEN 0 ELSE LastTaken.seq

Sent(c, n) == \E e \in ToSet(taken) : e.source = c /\ e.line = n

\* Each line that appears while the agent runs is taken to Sentry, whether Sentry
\* answers or not and though a slow POST holds up the channel and thereby all
\* collectors; unless the agent stops, journalctl has ended, the line was read in
\* part while it was being written or when a read failed, or its file cannot be
\* opened, or fails to be read, again and again for ever.
EveryLineSent ==
  \A c \in Sources : \A n \in 1..MaxLines[c] :
    \/ (Up /\ start[c] < n /\ n <= written[c]) ~>
         (phase = "down" \/ step[c] = "stopped" \/ n \in torn[c] \/ Sent(c, n))
    \/ []<>(step[c] = "failing")
=============================================================================
