------------------------ MODULE AgentPipelineProofs ------------------------
(***************************************************************************)
(* The agent for any sources, any block size, any channel and any number   *)
(* of starts: it uses the sequence store as the store is made to be used,  *)
(* agent_sequence names one event, and nothing read is lost on the way to  *)
(* the POST.                                                               *)
(***************************************************************************)
EXTENDS AgentPipeline, SequenceTheorems, TLAPS

----------------------------------------------------------------------------
(* The sequence store: over restarts and crashes between two writes of the *)
(* state file, no number is issued twice or out of order.                  *)

StoreInv == TypeOK /\ Covered

LEMMA StoreInvInit == Init => StoreInv
BY SeqStoreAssumption DEF Init, StoreInv, TypeOK, Covered, Parsed

LEMMA StoreInvStep == StoreInv /\ [Next]_vars => StoreInv'
<1> SUFFICES ASSUME StoreInv, [Next]_vars PROVE StoreInv'
  OBVIOUS
<1> USE SeqStoreAssumption DEF StoreInv, TypeOK, Covered, Parsed
<1>1. CASE OpenSeqStore
  BY <1>1 DEF OpenSeqStore, Reserve
<1>2. CASE OpenFails
  BY <1>2 DEF OpenFails
<1>3. CASE Truncate
  BY <1>3 DEF Truncate
<1>4. CASE Write
  BY <1>4 DEF Write, Return
<1>5. CASE Issue
  BY <1>5 DEF Issue
<1>6. CASE IssueReserving
  BY <1>6 DEF IssueReserving, Reserve
<1>7. CASE Crash
  BY <1>7 DEF Crash, Stop
<1>8. CASE UNCHANGED vars
  BY <1>8 DEF vars
<1>9. QED
  BY <1>1, <1>2, <1>3, <1>4, <1>5, <1>6, <1>7, <1>8 DEF Next

\* The state file always covers what was issued, except between the truncation
\* and the write, while nothing is issued (OpenSeqStore, Next, reserve).
THEOREM FileCovers == Spec => []Covered
<1>1. Spec => []StoreInv
  BY StoreInvInit, StoreInvStep, PTL DEF Spec
<1>2. StoreInv => Covered
  BY DEF StoreInv
<1>3. QED BY <1>1, <1>2, PTL

\* seqstore.go's "never go backwards, never reuse", for every block size, as
\* long as a write of the state file that has begun is completed.
THEOREM SequenceNeverReused == Spec => NeverReused
<1>1. Spec => []StoreInv
  BY StoreInvInit, StoreInvStep, PTL DEF Spec
<1>2. StoreInv => [Issuing => issued' > issued]_vars
  <2> SUFFICES ASSUME StoreInv, Issuing PROVE issued' > issued
    OBVIOUS
  <2>1. CASE Issue
    BY <2>1 DEF Issue, StoreInv, TypeOK, Covered
  <2>2. CASE caller = "Next" /\ (Write \/ NextWriteError)
    BY <2>2 DEF Write, NextWriteError, Return, StoreInv, TypeOK, Covered
  <2>3. QED
    BY <2>1, <2>2 DEF Issuing
<1>3. QED BY <1>1, <1>2, PTL DEF Spec, NeverReused

----------------------------------------------------------------------------
(* The pipeline.                                                           *)

CollectorSteps == {"stopped", "read", "failing", "number", "reserving", "send"}

\* What the goroutines hand to each other.
Typed ==
  /\ written \in [Sources -> Nat] /\ boot \in Nat
  /\ step \in [Sources -> CollectorSteps]
  /\ start \in [Sources -> Nat] /\ read \in [Sources -> Nat]
  /\ hand \in [Sources -> Events \union {NoEvent}]
  /\ \A c \in Sources : step[c] \in {"number", "reserving", "send"} => hand[c] \in Events
  /\ channel \in Seq(Events) /\ taken \in Seq(Events)
  /\ posted \subseteq Events
  /\ sender.step = "hash" => sender.event \in ToSet(taken)

\* Every event that has a number, wherever it is.
Known == posted \union ToSet(taken) \union ToSet(channel)
           \union {hand[c] : c \in {d \in Sources : step[d] = "send"}}

\* Numbers name one event, and no event has one that is still to be issued.
Identified ==
  /\ \A e \in Known : e.seq <= issued
  /\ \A e, f \in Known : e.seq = f.seq => e = f

\* What is in the channel or has been taken out of it.
Passed == taken \o channel

Busy(c) == step[c] \in {"number", "reserving", "send"}

\* A collector has an event in hand just while it numbers and sends it, and it is
\* of the last line read.
InHandInv ==
  \A c \in Sources :
    /\ ~Busy(c) => hand[c] = NoEvent
    /\ Busy(c) => hand[c].source = c /\ hand[c].line = read[c] /\ (step[c] # "send" => hand[c].seq = 0)

\* What is passed on is in the order of its lines and of its numbers, and what is
\* in hand comes after it.
InOrder ==
  /\ \A i, j \in DOMAIN Passed :
       i < j /\ Passed[i].source = Passed[j].source =>
         Passed[i].line < Passed[j].line /\ Passed[i].seq < Passed[j].seq
  /\ \A c \in Sources : Busy(c) =>
       \A e \in ToSet(Passed) : e.source = c =>
         e.line < hand[c].line /\ (step[c] = "send" => e.seq < hand[c].seq)

\* Each line read since the start has been passed on or is in hand, unless it was cut.
Accounted(c) == {e \in ToSet(Passed) : e.source = c} \union (IF Busy(c) THEN {hand[c]} ELSE {})

LinesOf(c) ==
  /\ start[c] <= read[c]
  /\ \A e \in Accounted(c) : e.line \in start[c] + 1..read[c] /\ (e.whole <=> e.line \notin torn[c])
  /\ \A n \in WholeLines(c) : \E e \in Accounted(c) : e.line = n

LinesInv == torn \in [Sources -> SUBSET Nat] /\ \A c \in Sources : LinesOf(c)

\* Nothing moves while the store is opened.
Idle == phase = "down" \/ (phase \in {"reserve", "truncated"} /\ caller = "OpenSeqStore")

IdleInv ==
  Idle => taken = <<>> /\ channel = <<>> /\ step = [c \in Sources |-> "stopped"]
            /\ torn = [c \in Sources |-> {}]

PassageInv == InHandInv /\ InOrder /\ LinesInv /\ IdleInv

\* Number and hash are those of the event taken last, but for the moment between
\* its receipt and its hash, and a calm heartbeat is not made in that moment.
BeatInv ==
  /\ sender \in [step : {"receive", "hash", "post"}, event : Events \union {NoEvent}]
  /\ lastHash \in Events \union {NoEvent}
  /\ sender.step = "hash" => sender.event = LastTaken
  /\ sender.step # "hash" => lastHash = LastTaken
  /\ lastSeq = (IF taken = <<>> THEN 0 ELSE LastTaken.seq)
  /\ beat \in [step : {"wait", "make"}, needs : SUBSET {"number", "hash"}, number : Nat,
               hash : Events \union {NoEvent}, calm : BOOLEAN]
  /\ beat.step = "wait" => beat.needs = {}
  /\ beat.step = "make" /\ beat.calm =>
       /\ sender.step # "hash"
       /\ "number" \notin beat.needs => beat.number = lastSeq
       /\ "hash" \notin beat.needs => beat.hash = lastHash

PipelineInv == StoreInv /\ Typed /\ Identified

----------------------------------------------------------------------------
(* Sequences and their members.                                            *)

\* The members of two sequences in a row are the members of each.
LEMMA MembersOfConcat ==
  ASSUME NEW S, NEW s \in Seq(S), NEW t \in Seq(S)
  PROVE  ToSet(s \o t) = ToSet(s) \union ToSet(t)
<1>1. Len(s) \in Nat /\ Len(t) \in Nat /\ Len(s \o t) = Len(s) + Len(t)
      /\ DOMAIN s = 1..Len(s) /\ DOMAIN t = 1..Len(t) /\ DOMAIN (s \o t) = 1..Len(s \o t)
  BY ConcatProperties, LenProperties
<1>2. /\ \A i \in 1..Len(s) : (s \o t)[i] = s[i]
      /\ \A i \in 1..Len(t) : (s \o t)[Len(s) + i] = t[i]
  BY ConcatProperties, <1>1
<1>3. \A i \in 1..Len(s \o t) : i \in 1..Len(s) \/ i - Len(s) \in 1..Len(t)
  BY <1>1
<1>4. ASSUME NEW x \in ToSet(s \o t) PROVE x \in ToSet(s) \union ToSet(t)
  <2>1. PICK i \in 1..Len(s \o t) : x = (s \o t)[i]
    BY <1>1, <1>4 DEF ToSet
  <2>2. CASE i \in 1..Len(s)
    BY <1>1, <1>2, <2>1, <2>2 DEF ToSet
  <2>3. CASE i - Len(s) \in 1..Len(t)
    <3>1. i = Len(s) + (i - Len(s))
      BY <1>1, <2>1
    <3>2. (s \o t)[i] = t[i - Len(s)]
      BY <1>2, <2>3, <3>1
    <3>3. QED
      BY <1>1, <2>1, <2>3, <3>2 DEF ToSet
  <2>4. QED
    BY <1>3, <2>1, <2>2, <2>3
<1>5. ASSUME NEW x \in ToSet(s) PROVE x \in ToSet(s \o t)
  <2>1. PICK i \in 1..Len(s) : x = s[i]
    BY <1>1, <1>5 DEF ToSet
  <2>2. i \in 1..Len(s \o t) /\ x = (s \o t)[i]
    BY <1>1, <1>2, <2>1
  <2>3. QED
    BY <1>1, <2>2 DEF ToSet
<1>6. ASSUME NEW x \in ToSet(t) PROVE x \in ToSet(s \o t)
  <2>1. PICK i \in 1..Len(t) : x = t[i]
    BY <1>1, <1>6 DEF ToSet
  <2>2. Len(s) + i \in 1..Len(s \o t) /\ x = (s \o t)[Len(s) + i]
    BY <1>1, <1>2, <2>1
  <2>3. QED
    BY <1>1, <2>2 DEF ToSet
<1>7. QED
  BY <1>4, <1>5, <1>6

\* What is put into a queue is its only new member.
LEMMA MembersOfAppend ==
  ASSUME NEW S, NEW s \in Seq(S), NEW e \in S
  PROVE  Append(s, e) \in Seq(S) /\ ToSet(Append(s, e)) = ToSet(s) \union {e}
<1>1. Len(s) \in Nat /\ DOMAIN s = 1..Len(s) /\ Append(s, e) \in Seq(S)
      /\ Len(Append(s, e)) = Len(s) + 1 /\ DOMAIN Append(s, e) = 1..Len(s) + 1
  BY AppendProperties, LenProperties
<1>2. /\ \A i \in 1..Len(s) : Append(s, e)[i] = s[i]
      /\ Append(s, e)[Len(s) + 1] = e
  BY AppendProperties
<1>3. 1..Len(s) + 1 = 1..Len(s) \union {Len(s) + 1}
  BY <1>1
<1>4. QED
  BY <1>1, <1>2, <1>3 DEF ToSet

\* What is taken out of a queue was in it, and so is what remains.
LEMMA MembersOfTail ==
  ASSUME NEW S, NEW s \in Seq(S), s # <<>>
  PROVE  /\ Head(s) \in ToSet(s) /\ Head(s) \in S
         /\ Tail(s) \in Seq(S) /\ ToSet(Tail(s)) \subseteq ToSet(s)
<1>1. /\ Len(s) \in Nat \ {0} /\ DOMAIN s = 1..Len(s) /\ Head(s) = s[1] /\ Head(s) \in S
      /\ Tail(s) \in Seq(S) /\ Len(Tail(s)) = Len(s) - 1
      /\ \A i \in 1..Len(Tail(s)) : Tail(s)[i] = s[i + 1]
  BY HeadTailProperties, LenProperties, EmptySeq
<1>2. DOMAIN Tail(s) = 1..Len(s) - 1
  BY <1>1, LenProperties
<1>3. \A i \in 1..Len(s) - 1 : i + 1 \in 1..Len(s)
  BY <1>1
<1>4. 1 \in 1..Len(s)
  BY <1>1
<1>5. QED
  BY <1>1, <1>2, <1>3, <1>4 DEF ToSet

\* Members of a sequence of events are events.
LEMMA MembersTyped ==
  ASSUME NEW S, NEW s \in Seq(S)
  PROVE  ToSet(s) \subseteq S
BY LenProperties, ElementOfSeq DEF ToSet

----------------------------------------------------------------------------
(* The agent uses its store.                                               *)

\* A step of the agent is an operation of the store or leaves it alone.
LEMMA StepUsesStore == [AgentNext]_agentVars => [Next]_vars
BY DEF AgentNext, agentVars, storeVars, vars, Next, WriteHalf, WriteLine, Collect, ReadHalf, ReadLine,
       ReadEmpty, JournalEnds, ReadFails, Readable, Number, Reserving, FileTruncated, Launch, Reserved, Enqueue, Boot, Down,
       MainLoop, Receive, SendEvent, SendReturns, Heartbeat, BeatTicks, BeatTakesSeq, BeatTakesHash,
       BeatReturns

\* The collectors, the mutex and the restarts use the sequence store only
\* through Next and OpenSeqStore.
THEOREM PipelineUsesStore == AgentSpec => Spec
<1>1. AgentInit => Init
  BY DEF AgentInit
<1>2. QED
  BY <1>1, StepUsesStore, PTL DEF AgentSpec, Spec

----------------------------------------------------------------------------
(* Types.                                                                  *)

\* At first nothing is handed over.
LEMMA TypedInit == AgentInit => Typed
BY EmptySeq DEF AgentInit, Typed, Waiting, CollectorSteps

\* Every goroutine hands over an event where one is expected.
LEMMA TypedStep ==
  ASSUME StoreInv, Typed, AgentNext
  PROVE  Typed'
<1> USE DEF Typed, CollectorSteps, storeVars, worldVars, collectorVars, mainVars
<1>1. ASSUME NEW c \in Sources, WriteHalf(c) \/ WriteLine(c) PROVE Typed'
  <2>1. written' \in [Sources -> Nat]
    <3>1. CASE WriteHalf(c)
      BY <3>1 DEF WriteHalf
    <3>2. CASE WriteLine(c)
      <4>1. written[c] + 1 \in Nat /\ written' = [written EXCEPT ![c] = written[c] + 1]
        BY <3>2 DEF WriteLine
      <4>2. QED
        BY <4>1
    <3>3. QED
      BY <1>1, <3>1, <3>2
  <2>2. UNCHANGED <<boot, step, start, read, hand, channel, taken, posted, sender>>
    BY <1>1 DEF WriteHalf, WriteLine
  <2>3. ToSet(taken)' = ToSet(taken)
    BY <2>2 DEF ToSet
  <2>4. QED
    BY <2>1, <2>2, <2>3
<1>2. ASSUME NEW c \in Sources, ReadHalf(c) \/ ReadEmpty(c) \/ JournalEnds(c) \/ ReadFails(c) \/ Readable(c) \/ Reserving(c) PROVE Typed'
  <2>1. UNCHANGED <<written, boot, start, hand, channel, taken, posted, sender>>
    BY <1>2 DEF ReadHalf, ReadEmpty, JournalEnds, ReadFails, Readable, Reserving
  <2>2. ToSet(taken)' = ToSet(taken)
    BY <2>1 DEF ToSet
  <2>3. read[c] + 1 \in Nat
    OBVIOUS
  <2>4. read' = read \/ read' = [read EXCEPT ![c] = read[c] + 1]
    BY <1>2 DEF ReadHalf, ReadEmpty, JournalEnds, ReadFails, Readable, Reserving
  <2>5. read' \in [Sources -> Nat]
    BY <2>3, <2>4
  <2>6. \/ step' = step
        \/ step' = [step EXCEPT ![c] = "stopped"]
        \/ step' = [step EXCEPT ![c] = "failing"]
        \/ step' = [step EXCEPT ![c] = "read"]
        \/ step[c] = "number" /\ step' = [step EXCEPT ![c] = "reserving"]
    BY <1>2 DEF ReadHalf, ReadEmpty, JournalEnds, ReadFails, Readable, Reserving
  <2>7. /\ step' \in [Sources -> CollectorSteps]
        /\ \A d \in Sources : step'[d] \in {"number", "reserving", "send"}
                                => step[d] \in {"number", "reserving", "send"}
    BY <2>6
  <2>8. QED
    BY <2>1, <2>2, <2>5, <2>7
<1>3. ASSUME NEW c \in Sources, ReadLine(c) PROVE Typed'
  <2>1. Event(c, read[c] + 1 \notin torn[c]) \in Events
    BY DEF Event, Events
  <2>2. QED
    BY <1>3, <2>1 DEF ReadLine
<1>4. ASSUME NEW c \in Sources, Number(c) \/ Reserved(c) PROVE Typed'
  <2>1. PICK n \in Nat : /\ step[c] \in {"number", "reserving"} /\ Numbered(c, n)
                         /\ UNCHANGED <<worldVars, boot, mainVars>>
    BY <1>4 DEF Number, Reserved, Issue, StoreInv, TypeOK
  <2>2. [hand[c] EXCEPT !.seq = n] \in Events
    BY <2>1 DEF Events
  <2>3. hand' = [hand EXCEPT ![c] = [hand[c] EXCEPT !.seq = n]]
    BY <2>1 DEF Numbered
  <2>4. QED
    BY <2>1, <2>2, <2>3 DEF Numbered
<1>5. ASSUME NEW c \in Sources, Enqueue(c) PROVE Typed'
  <2>1. hand[c] \in Events
    BY <1>5 DEF Enqueue
  <2>2. Append(channel, hand[c]) \in Seq(Events)
    BY <2>1, MembersOfAppend
  <2>3. QED
    BY <1>5, <2>2 DEF Enqueue
<1>6. CASE Boot
  BY <1>6 DEF Boot
<1>7. CASE FileTruncated
  BY <1>7 DEF FileTruncated
<1>8. CASE Launch
  <2>1. \A c \in Sources : Skipped(c) \in Nat
    BY AgentAssumption DEF Skipped, Sources
  <2>2. QED
    BY <1>8, <2>1 DEF Launch
<1>9. CASE Down
  BY <1>9, EmptySeq DEF Down, Forgotten, Waiting
<1>10. CASE Receive
  <2>1. Head(channel) \in Events /\ Tail(channel) \in Seq(Events)
    BY <1>10, MembersOfTail DEF Receive
  <2>2. Append(taken, Head(channel)) \in Seq(Events) /\ Head(channel) \in ToSet(Append(taken, Head(channel)))
    BY <2>1, MembersOfAppend
  <2>3. QED
    BY <1>10, <2>1, <2>2 DEF Receive
<1>11. CASE SendEvent
  BY <1>11, MembersTyped DEF SendEvent
<1>12. CASE SendReturns
  BY <1>12 DEF SendReturns, Waiting
<1>13. CASE Heartbeat
  BY <1>13 DEF Heartbeat, BeatTicks, BeatTakesSeq, BeatTakesHash, BeatReturns
<1>14. QED
  BY <1>1, <1>2, <1>3, <1>4, <1>5, <1>6, <1>7, <1>8, <1>9, <1>10, <1>11, <1>12, <1>13
     DEF AgentNext, Collect, MainLoop

----------------------------------------------------------------------------
(* Numbers.                                                                *)

\* A step makes at most one numbered event, and its number is above all issued.
LEMMA OneNewNumber ==
  ASSUME StoreInv, Typed, AgentNext
  PROVE  \/ Known' \subseteq Known /\ issued' >= issued
         \/ \E c \in Sources : /\ Known' \subseteq Known \union {hand'[c]}
                               /\ hand'[c].seq = issued' /\ issued' > issued
<1> USE DEF Known, storeVars, worldVars, collectorVars, mainVars
<1>0. issued \in Nat
  BY DEF StoreInv, TypeOK
<1>1. ASSUME NEW c \in Sources,
             WriteHalf(c) \/ WriteLine(c) \/ ReadHalf(c) \/ ReadEmpty(c) \/ JournalEnds(c) \/ ReadFails(c) \/ Readable(c) \/ Reserving(c)
      PROVE  Known' \subseteq Known /\ issued' >= issued
  BY <1>0, <1>1 DEF WriteHalf, WriteLine, ReadHalf, ReadEmpty, JournalEnds, ReadFails, Readable, Reserving, IssueReserving, Reserve, Typed
<1>2. ASSUME NEW c \in Sources, ReadLine(c)
      PROVE  Known' \subseteq Known /\ issued' >= issued
  BY <1>0, <1>2 DEF ReadLine, Typed
<1>3. ASSUME NEW c \in Sources, Number(c) \/ Reserved(c)
      PROVE  /\ Known' \subseteq Known \union {hand'[c]}
             /\ hand'[c].seq = issued' /\ issued' > issued
  <2>1. /\ issued' > issued /\ Numbered(c, issued') /\ step[c] \in {"number", "reserving"}
        /\ UNCHANGED <<worldVars, boot, mainVars>>
    BY <1>3 DEF Number, Reserved, Issue, Write, Return, StoreInv, TypeOK, Covered, Parsed
  <2>2. hand' = [hand EXCEPT ![c] = [hand[c] EXCEPT !.seq = issued']] /\ hand[c] \in Events
    BY <2>1 DEF Numbered, Typed
  <2>3. hand'[c].seq = issued'
    BY <2>2 DEF Typed, Events
  <2>4. \A d \in Sources : d # c => hand'[d] = hand[d] /\ step'[d] = step[d]
    BY <2>1, <2>2 DEF Numbered, Typed
  <2>5. UNCHANGED <<posted, taken, channel>>
    BY <2>1
  <2>6. QED
    BY <2>1, <2>3, <2>4, <2>5
<1>4. ASSUME NEW c \in Sources, Enqueue(c)
      PROVE  Known' \subseteq Known /\ issued' >= issued
  <2>1. hand[c] \in Known /\ hand[c] \in Events
    BY <1>4 DEF Enqueue, Typed
  <2>2. ToSet(channel') = ToSet(channel) \union {hand[c]}
    BY <1>4, <2>1, MembersOfAppend DEF Enqueue, Typed
  <2>3. \A d \in Sources : step'[d] = "send" => d # c /\ hand'[d] = hand[d] /\ step[d] = "send"
    BY <1>4 DEF Enqueue, Typed
  <2>4. UNCHANGED <<posted, taken, issued>> /\ ToSet(taken') = ToSet(taken)
    BY <1>4 DEF Enqueue
  <2>5. ToSet(channel)' = ToSet(channel') /\ ToSet(taken)' = ToSet(taken')
    BY DEF ToSet
  <2>6. QED
    BY <1>0, <2>1, <2>2, <2>3, <2>4, <2>5
<1>5. CASE Boot \/ FileTruncated
  BY <1>0, <1>5 DEF Boot, OpenSeqStore, Reserve, FileTruncated, Truncate
<1>6. CASE Launch
  BY <1>0, <1>6 DEF Launch, Write, Return
<1>7. CASE Down
  <2>1. /\ taken' = <<>> /\ channel' = <<>> /\ UNCHANGED <<posted, issued>>
        /\ \A c \in Sources : step'[c] = "stopped"
    BY <1>7 DEF Down, Forgotten, OpenFails, Crash, Stop
  <2>2. QED
    BY <1>0, <2>1 DEF ToSet
<1>8. CASE Receive
  <2>1. Head(channel) \in ToSet(channel) /\ Head(channel) \in Events /\ ToSet(Tail(channel)) \subseteq ToSet(channel)
    BY <1>8, MembersOfTail DEF Receive, Typed
  <2>2. ToSet(Append(taken, Head(channel))) = ToSet(taken) \union {Head(channel)}
    BY <2>1, MembersOfAppend DEF Typed
  <2>3. ToSet(taken)' = ToSet(taken) \union {Head(channel)} /\ ToSet(channel)' \subseteq ToSet(channel)
    BY <1>8, <2>1, <2>2 DEF Receive
  <2>4. UNCHANGED <<posted, hand, step, issued>>
    BY <1>8 DEF Receive
  <2>5. QED
    BY <1>0, <2>1, <2>3, <2>4
<1>9. CASE SendEvent
  BY <1>0, <1>9 DEF SendEvent, Typed
<1>10. CASE SendReturns \/ Heartbeat
  BY <1>0, <1>10 DEF SendReturns, Heartbeat, BeatTicks, BeatTakesSeq, BeatTakesHash, BeatReturns
<1>11. QED
  BY <1>1, <1>2, <1>3, <1>4, <1>5, <1>6, <1>7, <1>8, <1>9, <1>10 DEF AgentNext, Collect, MainLoop

\* A new number is above every number known, so it identifies its event.
LEMMA IdentifiedStep ==
  ASSUME StoreInv, Typed, Typed', Identified, AgentNext, issued' \in Nat
  PROVE  Identified'
<1>1. issued \in Nat /\ \A e \in Known : e.seq \in Nat
  <2>1. Known \subseteq Events
    BY MembersTyped DEF Known, Typed
  <2>2. QED
    BY <2>1 DEF Events, StoreInv, TypeOK
<1>2. CASE Known' \subseteq Known /\ issued' >= issued
  BY <1>1, <1>2 DEF Identified
<1>3. ASSUME NEW c \in Sources, Known' \subseteq Known \union {hand'[c]},
             hand'[c].seq = issued', issued' > issued
      PROVE  Identified'
  <2>1. \A e \in Known : e.seq < issued' /\ e.seq # hand'[c].seq
    BY <1>1, <1>3 DEF Identified
  <2>2. \A e \in Known' : e.seq <= issued'
    BY <1>1, <1>3, <2>1
  <2>3. ASSUME NEW e \in Known', NEW f \in Known', e.seq = f.seq PROVE e = f
    BY <1>3, <2>1, <2>3 DEF Identified
  <2>4. QED
    BY <2>2, <2>3 DEF Identified
<1>4. QED
  BY <1>2, <1>3, OneNewNumber

\* The invariant is inductive: the store's part by the store's own proof.
LEMMA PipelineStep == PipelineInv /\ [AgentNext]_agentVars => PipelineInv'
<1> SUFFICES ASSUME PipelineInv, [AgentNext]_agentVars PROVE PipelineInv'
  OBVIOUS
<1>1. StoreInv /\ Typed /\ Identified
  BY DEF PipelineInv
<1>2. StoreInv'
  BY <1>1, StepUsesStore, StoreInvStep
<1>3. CASE AgentNext
  <2>1. Typed'
    BY <1>1, <1>3, TypedStep
  <2>2. Identified'
    BY <1>1, <1>2, <1>3, <2>1, IdentifiedStep DEF StoreInv, TypeOK
  <2>3. QED
    BY <1>2, <2>1, <2>2 DEF PipelineInv
<1>4. CASE UNCHANGED agentVars
  BY <1>1, <1>2, <1>4 DEF PipelineInv, Typed, Identified, Known, agentVars, storeVars, worldVars, collectorVars, mainVars
<1>5. QED
  BY <1>3, <1>4

\* It holds before the first start.
LEMMA PipelineInit == AgentInit => PipelineInv
<1> SUFFICES ASSUME AgentInit PROVE PipelineInv
  OBVIOUS
<1>1. StoreInv /\ Typed
  BY StoreInvInit, TypedInit DEF AgentInit
<1>2. Known = {}
  BY DEF AgentInit, Known, ToSet
<1>3. QED
  BY <1>1, <1>2 DEF PipelineInv, Identified

----------------------------------------------------------------------------
(* The heartbeat.                                                          *)

\* What was taken last.
LEMMA LastOfAppend ==
  ASSUME NEW S, NEW s \in Seq(S), NEW e \in S
  PROVE  Append(s, e) # <<>> /\ Append(s, e)[Len(Append(s, e))] = e
<1>1. Len(s) \in Nat /\ Len(Append(s, e)) = Len(s) + 1 /\ Append(s, e)[Len(s) + 1] = e
  BY AppendProperties, LenProperties
<1>2. Len(Append(s, e)) # 0
  BY <1>1
<1>3. Append(s, e) # <<>>
  BY <1>2, EmptySeq
<1>4. QED
  BY <1>1, <1>3

\* At first nothing has been taken, and no heartbeat is being made.
LEMMA BeatInit == AgentInit => BeatInv
<1> SUFFICES ASSUME AgentInit PROVE BeatInv
  OBVIOUS
<1>1. /\ taken = <<>> /\ sender = [step |-> "receive", event |-> NoEvent] /\ lastSeq = 0 /\ lastHash = NoEvent
      /\ beat = [step |-> "wait", needs |-> {}, number |-> 0, hash |-> NoEvent, calm |-> TRUE]
  BY DEF AgentInit, Waiting, NoBeat
<1>2. QED
  BY <1>1 DEF BeatInv, LastTaken

\* A receipt, its hash and the loads of a heartbeat, in any order.
LEMMA BeatKept ==
  ASSUME Typed, BeatInv, AgentNext
  PROVE  BeatInv'
<1>1. ASSUME UNCHANGED <<taken, sender, lastSeq, lastHash, beat>> PROVE BeatInv'
  BY <1>1 DEF BeatInv, LastTaken
<1>2. ASSUME NEW c \in Sources, WriteHalf(c) \/ WriteLine(c) \/ Collect(c) \/ JournalEnds(c) \/ ReadFails(c) \/ Readable(c) PROVE BeatInv'
  <2>1. UNCHANGED <<taken, sender, lastSeq, lastHash, beat>>
    BY <1>2 DEF WriteHalf, WriteLine, Collect, ReadHalf, ReadLine, ReadEmpty, Number, Reserving, Reserved,
                Enqueue, JournalEnds, ReadFails, Readable, mainVars
  <2>2. QED
    BY <1>1, <2>1
<1>3. CASE Boot \/ FileTruncated \/ Launch
  <2>1. UNCHANGED <<taken, sender, lastSeq, lastHash, beat>>
    BY <1>3 DEF Boot, FileTruncated, Launch, mainVars
  <2>2. QED
    BY <1>1, <2>1
<1>4. CASE Down
  <2>1. /\ taken' = <<>> /\ sender' = [step |-> "receive", event |-> NoEvent] /\ lastSeq' = 0 /\ lastHash' = NoEvent
        /\ beat' = [step |-> "wait", needs |-> {}, number |-> 0, hash |-> NoEvent, calm |-> TRUE]
    BY <1>4 DEF Down, Forgotten, Waiting, NoBeat
  <2>2. QED
    BY <2>1 DEF BeatInv, LastTaken
<1>5. CASE Receive
  <2>1. channel # <<>> /\ channel \in Seq(Events) /\ taken \in Seq(Events)
    BY <1>5 DEF Receive, Typed
  <2>2. PICK e \in Events : e = Head(channel)
    BY <2>1, MembersOfTail
  <2>3. /\ sender' = [step |-> "hash", event |-> e] /\ lastSeq' = e.seq /\ lastHash' = lastHash
        /\ taken' = Append(taken, e) /\ beat' = [beat EXCEPT !.calm = (beat.step = "wait")]
    BY <1>5, <2>2 DEF Receive
  <2>4. taken' # <<>> /\ LastTaken' = e
    BY <2>1, <2>3, LastOfAppend DEF LastTaken
  <2>5. /\ beat' \in [step : {"wait", "make"}, needs : SUBSET {"number", "hash"}, number : Nat,
                      hash : Events \union {NoEvent}, calm : BOOLEAN]
        /\ beat'.step = beat.step /\ beat'.needs = beat.needs /\ beat'.calm = (beat.step = "wait")
    BY <2>3 DEF BeatInv
  <2>6. QED
    BY <2>3, <2>4, <2>5 DEF BeatInv
<1>6. CASE SendEvent
  <2>1. /\ sender.step = "hash" /\ sender' = [sender EXCEPT !.step = "post"] /\ lastHash' = sender.event
        /\ UNCHANGED <<taken, lastSeq, beat>>
    BY <1>6 DEF SendEvent
  <2>2. LastTaken' = LastTaken
    BY <2>1 DEF LastTaken
  <2>3. QED
    BY <2>1, <2>2 DEF BeatInv
<1>7. CASE SendReturns
  <2>1. /\ sender.step = "post" /\ sender' = [step |-> "receive", event |-> NoEvent]
        /\ UNCHANGED <<taken, lastSeq, lastHash, beat>>
    BY <1>7 DEF SendReturns, Waiting
  <2>2. LastTaken' = LastTaken
    BY <2>1 DEF LastTaken
  <2>3. QED
    BY <2>1, <2>2 DEF BeatInv
<1>8. CASE Heartbeat
  <2>1. UNCHANGED <<taken, sender, lastSeq, lastHash>> /\ LastTaken' = LastTaken
    BY <1>8 DEF Heartbeat, BeatTicks, BeatTakesSeq, BeatTakesHash, BeatReturns, mainVars, LastTaken
  <2>2. lastSeq \in Nat
    <3>1. taken # <<>> => LastTaken \in Events
      <4> SUFFICES ASSUME taken # <<>> PROVE taken[Len(taken)] \in Events
        BY DEF LastTaken
      <4>1. taken \in Seq(Events) /\ Len(taken) \in 1..Len(taken)
        BY EmptySeq, LenProperties DEF Typed
      <4>2. QED
        BY <4>1, ElementOfSeq
    <3>2. QED
      BY <3>1 DEF BeatInv, Events
  <2>3. CASE BeatTicks
    <3>1. beat' = [step |-> "make", needs |-> {"number", "hash"}, number |-> 0, hash |-> NoEvent,
                   calm |-> (sender.step # "hash")]
      BY <2>3 DEF BeatTicks, NoBeat
    <3>2. QED
      BY <2>1, <3>1 DEF BeatInv
  <2>4. CASE BeatTakesSeq
    <3>1. "number" \in beat.needs /\ beat' = [beat EXCEPT !.needs = beat.needs \ {"number"}, !.number = lastSeq]
      BY <2>4 DEF BeatTakesSeq
    <3>2. QED
      BY <2>1, <2>2, <3>1 DEF BeatInv
  <2>5. CASE BeatTakesHash
    <3>1. "hash" \in beat.needs /\ beat' = [beat EXCEPT !.needs = beat.needs \ {"hash"}, !.hash = lastHash]
      BY <2>5 DEF BeatTakesHash
    <3>2. QED
      BY <2>1, <3>1 DEF BeatInv
  <2>6. CASE BeatReturns
    <3>1. beat' = [step |-> "wait", needs |-> {}, number |-> 0, hash |-> NoEvent, calm |-> TRUE]
      BY <2>6 DEF BeatReturns, NoBeat
    <3>2. QED
      BY <2>1, <3>1 DEF BeatInv
  <2>7. QED
    BY <1>8, <2>3, <2>4, <2>5, <2>6 DEF Heartbeat
<1>9. QED
  BY <1>2, <1>3, <1>4, <1>5, <1>6, <1>7, <1>8 DEF AgentNext, MainLoop

----------------------------------------------------------------------------
(* From the file to the POST.                                              *)

\* Nothing moves while the store is opened.
LEMMA IdleKept ==
  ASSUME Typed, IdleInv, AgentNext
  PROVE  IdleInv'
<1> DEFINE Still == taken = <<>> /\ channel = <<>> /\ step = [c \in Sources |-> "stopped"]
                      /\ torn = [c \in Sources |-> {}]
<1>1. Idle => Still /\ \A c \in Sources : step[c] = "stopped"
  BY DEF IdleInv
<1>2. SUFFICES ASSUME Idle' PROVE Still'
  BY DEF IdleInv
<1>3. ASSUME Idle, UNCHANGED <<taken, channel, step, torn>> PROVE Still'
  BY <1>1, <1>3
<1>4. ASSUME NEW c \in Sources, WriteHalf(c) \/ WriteLine(c) PROVE Still'
  <2>1. UNCHANGED <<taken, channel, step, torn, phase, caller>>
    BY <1>4 DEF WriteHalf, WriteLine, storeVars, collectorVars, mainVars
  <2>2. QED
    BY <1>2, <1>3, <2>1 DEF Idle
<1>5. ASSUME NEW c \in Sources, ReadHalf(c) \/ ReadLine(c) \/ ReadEmpty(c) \/ Enqueue(c) \/ JournalEnds(c) \/ ReadFails(c) \/ Readable(c) PROVE FALSE
  <2>1. step[c] # "stopped" /\ UNCHANGED <<phase, caller>>
    BY <1>5 DEF ReadHalf, ReadLine, ReadEmpty, Enqueue, JournalEnds, ReadFails, Readable, storeVars
  <2>2. Idle
    BY <1>2, <2>1 DEF Idle
  <2>3. QED
    BY <1>1, <2>1, <2>2
<1>6. ASSUME NEW c \in Sources, Number(c) \/ Reserving(c) \/ Reserved(c) PROVE FALSE
  BY <1>2, <1>6 DEF Idle, Number, Issue, Reserving, IssueReserving, Reserve, Reserved, Write, Return
<1>7. CASE Boot
  BY <1>3, <1>7 DEF Boot, OpenSeqStore, Idle, collectorVars, mainVars
<1>8. CASE FileTruncated
  <2>1. UNCHANGED <<taken, channel, step, torn, caller>> /\ phase = "reserve" /\ phase' = "truncated"
    BY <1>8 DEF FileTruncated, Truncate, collectorVars, mainVars
  <2>2. QED
    BY <1>2, <1>3, <2>1 DEF Idle
<1>9. CASE Launch
  BY <1>2, <1>9 DEF Launch, Write, Return, Idle
<1>10. CASE Down
  BY <1>10 DEF Down, Forgotten
<1>11. CASE Receive
  <2>1. channel # <<>> /\ UNCHANGED <<phase, caller>>
    BY <1>11 DEF Receive, storeVars
  <2>2. QED
    BY <1>1, <1>2, <2>1 DEF Idle
<1>12. CASE SendEvent \/ SendReturns \/ Heartbeat
  <2>1. UNCHANGED <<taken, channel, step, torn, phase, caller>>
    BY <1>12 DEF SendEvent, SendReturns, Heartbeat, BeatTicks, BeatTakesSeq, BeatTakesHash, BeatReturns,
                 storeVars, collectorVars, mainVars
  <2>2. QED
    BY <1>2, <1>3, <2>1 DEF Idle
<1>13. QED
  BY <1>4, <1>5, <1>6, <1>7, <1>8, <1>9, <1>10, <1>11, <1>12 DEF AgentNext, Collect, MainLoop

\* A collector's own steps, and those that leave it where it was.
LEMMA HandKept ==
  ASSUME StoreInv, Typed, InHandInv, IdleInv, AgentNext
  PROVE  InHandInv'
<1> USE DEF Typed, CollectorSteps
<1>1. ASSUME UNCHANGED <<step, hand, read>> PROVE InHandInv'
  BY <1>1 DEF InHandInv, Busy
<1>2. ASSUME NEW c \in Sources, WriteHalf(c) \/ WriteLine(c) \/ ReadHalf(c) PROVE InHandInv'
  <2>1. UNCHANGED <<step, hand, read>>
    BY <1>2 DEF WriteHalf, WriteLine, ReadHalf, collectorVars
  <2>2. QED
    BY <1>1, <2>1
<1>3. ASSUME NEW c \in Sources, ~Busy(c), ~Busy(c)', \A d \in Sources \ {c} : step'[d] = step[d] /\ read'[d] = read[d],
             UNCHANGED hand
      PROVE  InHandInv'
  BY <1>3 DEF InHandInv, Busy
<1>4. ASSUME NEW c \in Sources, ReadEmpty(c) \/ JournalEnds(c) \/ ReadFails(c) \/ Readable(c) PROVE InHandInv'
  <2>1. /\ step[c] \in {"read", "failing"} /\ UNCHANGED hand
        /\ \/ step' = step
           \/ \E x \in {"stopped", "read", "failing"} : step' = [step EXCEPT ![c] = x]
        /\ read' = read \/ read' = [read EXCEPT ![c] = read[c] + 1]
    BY <1>4 DEF ReadEmpty, JournalEnds, ReadFails, Readable
  <2>2. step'[c] \in {"read", "stopped", "failing"} /\ \A d \in Sources \ {c} : step'[d] = step[d] /\ read'[d] = read[d]
    BY <2>1
  <2>3. QED
    BY <1>3, <2>1, <2>2 DEF Busy
<1>5. ASSUME NEW c \in Sources, ReadLine(c) PROVE InHandInv'
  <2> DEFINE e == Event(c, read[c] + 1 \notin torn[c])
  <2>1. /\ hand' = [hand EXCEPT ![c] = e] /\ read' = [read EXCEPT ![c] = read[c] + 1]
        /\ step' = [step EXCEPT ![c] = "number"]
    BY <1>5 DEF ReadLine
  <2>2. e.source = c /\ e.line = read[c] + 1 /\ e.seq = 0
    BY DEF Event
  <2> HIDE DEF e
  <2>3. hand'[c] = e /\ read'[c] = read[c] + 1 /\ step'[c] = "number"
    BY <2>1
  <2>4. \A d \in Sources \ {c} : hand'[d] = hand[d] /\ read'[d] = read[d] /\ step'[d] = step[d]
    BY <2>1
  <2>5. hand'[c].source = c /\ hand'[c].line = read'[c] /\ hand'[c].seq = 0 /\ Busy(c)'
    BY <2>2, <2>3 DEF Busy
  <2>6. ASSUME NEW d \in Sources \ {c}
        PROVE  /\ ~Busy(d)' => hand'[d] = NoEvent
               /\ Busy(d)' => /\ hand'[d].source = d /\ hand'[d].line = read'[d]
                              /\ (step'[d] # "send" => hand'[d].seq = 0)
    BY <2>4 DEF InHandInv, Busy
  <2>7. QED
    BY <2>5, <2>6 DEF InHandInv
<1>6. ASSUME NEW c \in Sources, Number(c) \/ Reserved(c) PROVE InHandInv'
  <2>1. PICK n \in Nat : Numbered(c, n) /\ step[c] \in {"number", "reserving"}
    BY <1>6 DEF Number, Reserved, Issue, StoreInv, TypeOK
  <2>2. /\ hand' = [hand EXCEPT ![c] = [hand[c] EXCEPT !.seq = n]] /\ hand[c] \in Events
        /\ step' = [step EXCEPT ![c] = "send"] /\ read' = read
    BY <2>1 DEF Numbered
  <2>3. hand'[c].source = hand[c].source /\ hand'[c].line = hand[c].line /\ step'[c] = "send"
    BY <2>2 DEF Events
  <2>4. \A d \in Sources \ {c} : hand'[d] = hand[d] /\ step'[d] = step[d]
    BY <2>2
  <2>5. Busy(c)
    BY <2>1 DEF Busy
  <2>6. QED
    BY <2>2, <2>3, <2>4, <2>5 DEF InHandInv, Busy
<1>7. ASSUME NEW c \in Sources, Reserving(c) PROVE InHandInv'
  <2>1. step[c] = "number" /\ step' = [step EXCEPT ![c] = "reserving"] /\ UNCHANGED <<hand, read>>
    BY <1>7 DEF Reserving
  <2>2. QED
    BY <2>1 DEF InHandInv, Busy
<1>8. ASSUME NEW c \in Sources, Enqueue(c) PROVE InHandInv'
  <2>1. hand' = [hand EXCEPT ![c] = NoEvent] /\ step' = [step EXCEPT ![c] = "read"] /\ read' = read
    BY <1>8 DEF Enqueue
  <2>2. QED
    BY <2>1 DEF InHandInv, Busy
<1>9. CASE Launch
  <2>1. /\ step = [c \in Sources |-> "stopped"] /\ hand' = hand
        /\ \A c \in Sources : step'[c] \in {"read", "failing"}
    BY <1>9 DEF Launch, Write, IdleInv, Idle
  <2>2. \A c \in Sources : ~Busy(c) /\ ~Busy(c)'
    BY <2>1 DEF Busy
  <2>3. QED
    BY <2>1, <2>2 DEF InHandInv
<1>10. CASE Down
  <2>1. step' = [c \in Sources |-> "stopped"] /\ hand' = [c \in Sources |-> NoEvent]
    BY <1>10 DEF Down, Forgotten
  <2>2. QED
    BY <2>1 DEF InHandInv, Busy
<1>11. CASE Boot \/ FileTruncated \/ Heartbeat
  <2>1. UNCHANGED <<step, hand, read>>
    BY <1>11 DEF Boot, FileTruncated, Heartbeat, BeatTicks, BeatTakesSeq, BeatTakesHash, BeatReturns, collectorVars
  <2>2. QED
    BY <1>1, <2>1
<1>12. CASE MainLoop
  <2>1. UNCHANGED <<step, hand, read>>
    BY <1>12 DEF MainLoop, Receive, SendEvent, SendReturns, collectorVars
  <2>2. QED
    BY <1>1, <2>1
<1>13. QED
  BY <1>2, <1>4, <1>5, <1>6, <1>7, <1>8, <1>9, <1>10, <1>11, <1>12 DEF AgentNext, Collect

\* What is passed on is a sequence of events that have numbers.
LEMMA PassedTyped ==
  ASSUME Typed
  PROVE  Passed \in Seq(Events) /\ ToSet(Passed) = ToSet(taken) \union ToSet(channel)
         /\ ToSet(Passed) \subseteq Known /\ ToSet(Passed) \subseteq Events
<1>1. Passed \in Seq(Events) /\ ToSet(Passed) = ToSet(taken) \union ToSet(channel)
  BY ConcatProperties, MembersOfConcat DEF Typed, Passed
<1>2. QED
  BY <1>1, MembersTyped DEF Known

\* Only Enqueue adds to what is passed on, and receiving does not change it.
LEMMA PassedMoves ==
  ASSUME Typed, AgentNext
  PROVE  /\ \/ Passed' = Passed
            \/ \E c \in Sources : Enqueue(c) /\ Passed' = Append(Passed, hand[c])
            \/ Down /\ Passed' = <<>>
         /\ MainLoop => Passed' = Passed
         /\ \A c \in Sources : Enqueue(c) => Passed' = Append(Passed, hand[c])
<1>1. taken \in Seq(Events) /\ channel \in Seq(Events)
  BY DEF Typed
<1>2. ASSUME UNCHANGED <<taken, channel>> PROVE Passed' = Passed
  BY <1>2 DEF Passed
<1>3. ASSUME NEW c \in Sources, Enqueue(c) PROVE Passed' = Append(Passed, hand[c])
  <2>1. PICK h \in Events : h = hand[c]
    BY <1>3 DEF Enqueue, Typed
  <2>2. taken' = taken /\ channel' = Append(channel, h)
    BY <1>3, <2>1 DEF Enqueue
  <2>3. <<h>> \in Seq(Events)
    OBVIOUS
  <2>4. PICK x \in Seq(Events), y \in Seq(Events), z \in Seq(Events) : x = taken /\ y = channel /\ z = <<h>>
    BY <1>1, <2>3
  <2>5. (x \o y) \o z = x \o (y \o z) /\ x \o y \in Seq(Events)
    BY ConcatAssociative, ConcatProperties
  <2>6. Append(y, h) = y \o <<h>> /\ Append(x \o y, h) = (x \o y) \o <<h>>
    BY <2>5, AppendIsConcat
  <2>7. x \o Append(y, h) = Append(x \o y, h)
    BY <2>4, <2>5, <2>6
  <2>8. QED
    BY <2>1, <2>2, <2>4, <2>7 DEF Passed
<1>4. ASSUME NEW c \in Sources, WriteHalf(c) \/ WriteLine(c) \/ ReadHalf(c) \/ ReadLine(c) \/ ReadEmpty(c)
                                 \/ Number(c) \/ Reserving(c) \/ Reserved(c) \/ JournalEnds(c) \/ ReadFails(c) \/ Readable(c)
      PROVE  Passed' = Passed
  BY <1>2, <1>4 DEF WriteHalf, WriteLine, ReadHalf, ReadLine, ReadEmpty, Number, Reserving, Reserved, JournalEnds, ReadFails, Readable, mainVars
<1>5. ASSUME Boot \/ FileTruncated \/ Launch \/ Heartbeat PROVE Passed' = Passed
  BY <1>2, <1>5 DEF Boot, FileTruncated, Launch, Heartbeat, BeatTicks, BeatTakesSeq, BeatTakesHash, BeatReturns, mainVars
<1>6. ASSUME Down PROVE Passed' = <<>>
  <2>1. taken' = <<>> /\ channel' = <<>>
    BY <1>6 DEF Down, Forgotten
  <2>2. <<>> \o <<>> = <<>>
    BY EmptySeq, ConcatEmptySeq
  <2>3. QED
    BY <1>6, <2>1, <2>2 DEF Passed
<1>7. ASSUME Receive PROVE Passed' = Passed
  <2>1. channel # <<>> /\ channel' = Tail(channel) /\ taken' = Append(taken, Head(channel))
    BY <1>7 DEF Receive
  <2>2. Head(channel) \in Events /\ Tail(channel) \in Seq(Events) /\ channel = <<Head(channel)>> \o Tail(channel)
    <3>1. Head(channel) \in Events /\ Tail(channel) \in Seq(Events)
      BY <1>1, <2>1, MembersOfTail
    <3>2. channel = <<Head(channel)>> \o Tail(channel)
      BY <1>1, <2>1, HeadTailAppend
    <3>3. QED
      BY <3>1, <3>2
  <2>3. PICK h \in Events, t \in Seq(Events) : h = Head(channel) /\ t = Tail(channel)
    BY <2>2
  <2>4. <<h>> \in Seq(Events)
    OBVIOUS
  <2>5. PICK x \in Seq(Events), y \in Seq(Events) : x = taken /\ y = <<h>>
    BY <1>1, <2>4
  <2>6. (x \o y) \o t = x \o (y \o t) /\ Append(x, h) = x \o <<h>>
    BY ConcatAssociative, AppendIsConcat
  <2>7. QED
    BY <2>1, <2>2, <2>3, <2>5, <2>6 DEF Passed
<1>8. ASSUME SendEvent \/ SendReturns PROVE Passed' = Passed
  BY <1>2, <1>8 DEF SendEvent, SendReturns
<1>9. QED
  BY <1>3, <1>4, <1>5, <1>6, <1>7, <1>8 DEF AgentNext, Collect, MainLoop

\* How a collector comes to have its event in hand.
LEMMA HandMoves ==
  ASSUME StoreInv, Typed, AgentNext, NEW d \in Sources, Busy(d)'
  PROVE  \/ Busy(d) /\ hand'[d] = hand[d] /\ (step'[d] = "send" => step[d] = "send") /\ read'[d] = read[d]
         \/ ReadLine(d) \/ Number(d) \/ Reserved(d)
<1> USE DEF Typed, CollectorSteps
<1> DEFINE Same == Busy(d) /\ hand'[d] = hand[d] /\ (step'[d] = "send" => step[d] = "send") /\ read'[d] = read[d]
<1>1. ASSUME step'[d] = step[d], hand'[d] = hand[d], read'[d] = read[d] PROVE Same
  BY <1>1 DEF Busy
<1>2. ASSUME NEW c \in Sources, ReadLine(c) \/ Number(c) \/ Reserved(c), c # d PROVE Same
  <2>1. step'[d] = step[d] /\ hand'[d] = hand[d] /\ read'[d] = read[d]
    BY <1>2 DEF ReadLine, Number, Reserved, Numbered
  <2>2. QED
    BY <1>1, <2>1
<1>3. ASSUME NEW c \in Sources, WriteHalf(c) \/ WriteLine(c) \/ ReadHalf(c) PROVE Same
  BY <1>1, <1>3 DEF WriteHalf, WriteLine, ReadHalf, collectorVars
<1>4. ASSUME NEW c \in Sources, ReadEmpty(c) PROVE Same
  <2>1. step[c] = "read" /\ step' = step /\ hand' = hand /\ read' = [read EXCEPT ![c] = read[c] + 1]
    BY <1>4 DEF ReadEmpty
  <2>2. d # c
    BY <2>1 DEF Busy
  <2>3. QED
    BY <1>1, <2>1, <2>2
<1>5. ASSUME NEW c \in Sources, JournalEnds(c) \/ ReadFails(c) \/ Readable(c) \/ Enqueue(c) PROVE Same
  <2>1. step'[c] \in {"stopped", "read", "failing"} /\ \A b \in Sources \ {c} : step'[b] = step[b] /\ hand'[b] = hand[b]
    BY <1>5 DEF JournalEnds, ReadFails, Readable, Enqueue
  <2>2. d # c /\ read' = read
    BY <1>5, <2>1 DEF Busy, JournalEnds, ReadFails, Readable, Enqueue
  <2>3. QED
    BY <1>1, <2>1, <2>2
<1>6. ASSUME NEW c \in Sources, Reserving(c) PROVE Same
  <2>1. step[c] = "number" /\ step' = [step EXCEPT ![c] = "reserving"] /\ UNCHANGED <<hand, read>>
    BY <1>6 DEF Reserving
  <2>2. QED
    BY <2>1 DEF Busy
<1>7. CASE Boot \/ FileTruncated \/ Heartbeat
  BY <1>1, <1>7 DEF Boot, FileTruncated, Heartbeat, BeatTicks, BeatTakesSeq, BeatTakesHash, BeatReturns, collectorVars
<1>8. CASE MainLoop
  BY <1>1, <1>8 DEF MainLoop, Receive, SendEvent, SendReturns, collectorVars
<1>9. CASE Launch \/ Down
  <2>1. step'[d] \in {"read", "stopped", "failing"}
    BY <1>9 DEF Launch, Down, Forgotten
  <2>2. QED
    BY <2>1 DEF Busy
<1>10. QED
  BY <1>2, <1>3, <1>4, <1>5, <1>6, <1>7, <1>8, <1>9 DEF AgentNext, Collect

\* Where two elements of a queue are, once another has been put into it.
LEMMA PairsOfAppend ==
  ASSUME NEW S, NEW q \in Seq(S), NEW h \in S,
         NEW i \in DOMAIN Append(q, h), NEW j \in DOMAIN Append(q, h), i < j
  PROVE  \/ i \in DOMAIN q /\ j \in DOMAIN q /\ Append(q, h)[i] = q[i] /\ Append(q, h)[j] = q[j]
         \/ Append(q, h)[i] \in ToSet(q) /\ Append(q, h)[j] = h
<1>1. PICK n \in Nat : n = Len(q)
  BY LenProperties
<1>2. DOMAIN q = 1..n /\ DOMAIN Append(q, h) = 1..n + 1
  BY <1>1, AppendProperties, LenProperties
<1>3. (\A k \in 1..n : Append(q, h)[k] = q[k]) /\ Append(q, h)[n + 1] = h
  BY <1>1, AppendProperties
<1>4. i \in 1..n /\ (j \in 1..n \/ j = n + 1)
  BY <1>2
<1>5. Append(q, h)[i] = q[i] /\ q[i] \in ToSet(q)
  BY <1>2, <1>3, <1>4 DEF ToSet
<1>6. QED
  BY <1>2, <1>3, <1>4, <1>5

\* Lines and numbers rise along what is passed on and into the hand, for the
\* lines rise with each read, and the store's numbers with each issue.
LEMMA InOrderKept ==
  ASSUME StoreInv, Typed, Identified, InHandInv, InOrder, LinesInv, AgentNext
  PROVE  InOrder'
<1> DEFINE Rising(q) == \A i, j \in DOMAIN q :
             i < j /\ q[i].source = q[j].source => q[i].line < q[j].line /\ q[i].seq < q[j].seq
           Above(c, q) == \A e \in ToSet(q) : e.source = c =>
                            e.line < hand[c].line /\ (step[c] = "send" => e.seq < hand[c].seq)
<1>1. /\ InOrder <=> Rising(Passed) /\ \A c \in Sources : Busy(c) => Above(c, Passed)
      /\ InOrder' <=> Rising(Passed') /\ \A c \in Sources : Busy(c)' => Above(c, Passed)'
  BY DEF InOrder
<1>2. Passed \in Seq(Events) /\ ToSet(Passed) \subseteq Known /\ ToSet(Passed) \subseteq Events
  BY PassedTyped
<1>3. Rising(Passed')
  <2>1. CASE Passed' = Passed
    BY <1>1, <2>1
  <2>2. ASSUME NEW c \in Sources, Enqueue(c), Passed' = Append(Passed, hand[c]) PROVE Rising(Passed')
    <3>1. step[c] = "send" /\ Busy(c)
      BY <2>2 DEF Enqueue, Busy
    <3>2. PICK h \in Events : h = hand[c] /\ h.source = c
      BY <3>1 DEF Typed, InHandInv
    <3>3. PICK q \in Seq(Events) : q = Passed
      BY <1>2
    <3>4. Rising(q) /\ \A e \in ToSet(q) : e.source = c => e.line < h.line /\ e.seq < h.seq
      BY <1>1, <3>1, <3>2, <3>3
    <3>5. SUFFICES ASSUME NEW i \in DOMAIN Append(q, h), NEW j \in DOMAIN Append(q, h), i < j,
                          Append(q, h)[i].source = Append(q, h)[j].source
                   PROVE  Append(q, h)[i].line < Append(q, h)[j].line
                            /\ Append(q, h)[i].seq < Append(q, h)[j].seq
      BY <2>2, <3>2, <3>3
    <3>6. QED
      BY <3>2, <3>4, <3>5, PairsOfAppend
  <2>3. CASE Passed' = <<>>
    <3>1. DOMAIN <<>> = {}
      OBVIOUS
    <3>2. QED
      BY <2>3, <3>1
  <2>4. QED
    BY <2>1, <2>2, <2>3, PassedMoves
<1>4. ASSUME NEW c \in Sources, Busy(c)' PROVE Above(c, Passed)'
  <2>1. SUFFICES ASSUME NEW e \in ToSet(Passed'), e.source = c
                 PROVE  e.line < hand'[c].line /\ (step'[c] = "send" => e.seq < hand'[c].seq)
    BY DEF ToSet
  <2>2. CASE Busy(c) /\ hand'[c] = hand[c] /\ (step'[c] = "send" => step[c] = "send") /\ read'[c] = read[c]
    <3>1. CASE Passed' = Passed
      BY <1>1, <2>1, <2>2, <3>1
    <3>2. ASSUME NEW d \in Sources, Enqueue(d), Passed' = Append(Passed, hand[d])
          PROVE  e \in ToSet(Passed)
      <4>1. step[d] = "send" /\ step' = [step EXCEPT ![d] = "read"] /\ hand[d] \in Events /\ hand[d].source = d
        BY <3>2 DEF Enqueue, Typed, InHandInv, Busy
      <4>2. d # c
        BY <1>4, <4>1 DEF Busy, Typed
      <4>3. ToSet(Append(Passed, hand[d])) = ToSet(Passed) \union {hand[d]}
        BY <1>2, <4>1, MembersOfAppend
      <4>4. QED
        BY <2>1, <3>2, <4>1, <4>2, <4>3
    <3>3. CASE Down
      <4>1. step'[c] = "stopped"
        BY <3>3 DEF Down, Forgotten
      <4>2. QED
        BY <1>4, <4>1 DEF Busy
    <3>4. QED
      BY <1>1, <2>1, <2>2, <3>1, <3>2, <3>3, PassedMoves
  <2>3. CASE ReadLine(c)
    <3>1. hand'[c].line = read[c] + 1 /\ step'[c] = "number"
      <4>1. hand' = [hand EXCEPT ![c] = Event(c, read[c] + 1 \notin torn[c])] /\ step' = [step EXCEPT ![c] = "number"]
        BY <2>3 DEF ReadLine
      <4>2. hand'[c] = Event(c, read[c] + 1 \notin torn[c]) /\ step'[c] = "number"
        BY <4>1 DEF Typed
      <4>3. QED
        BY <4>2 DEF Event
    <3>2. Passed' = Passed
      BY <2>3 DEF ReadLine, mainVars, Passed
    <3>3. e \in Accounted(c)
      BY <2>1, <3>2 DEF Accounted
    <3>4. e.line \in start[c] + 1..read[c]
      BY <3>3 DEF LinesInv, LinesOf
    <3>5. read[c] \in Nat /\ start[c] \in Nat
      BY DEF Typed
    <3>6. QED
      BY <3>1, <3>4, <3>5
  <2>4. CASE Number(c) \/ Reserved(c)
    <3>1. PICK n \in Nat : Numbered(c, n) /\ n > issued /\ step[c] \in {"number", "reserving"} /\ UNCHANGED <<taken, channel>>
      BY <2>4 DEF Number, Reserved, Issue, Write, Return, StoreInv, TypeOK, Covered, mainVars
    <3>2. Passed' = Passed /\ Busy(c)
      BY <3>1 DEF Passed, Busy
    <3>3. hand[c] \in Events /\ hand' = [hand EXCEPT ![c] = [hand[c] EXCEPT !.seq = n]]
      BY <3>1, <3>2 DEF Numbered, Typed, Busy
    <3>4. hand'[c].line = hand[c].line /\ hand'[c].seq = n
      BY <3>3 DEF Typed, Events
    <3>5. e \in Known /\ e \in Events
      BY <1>2, <2>1, <3>2
    <3>6. e.seq <= issued /\ issued \in Nat /\ e.seq \in Nat
      BY <3>5 DEF Identified, StoreInv, TypeOK, Events
    <3>7. e.line < hand[c].line
      BY <1>1, <2>1, <3>2
    <3>8. QED
      BY <3>1, <3>4, <3>6, <3>7
  <2>5. QED
    BY <1>4, <2>2, <2>3, <2>4, HandMoves
<1>5. QED
  BY <1>1, <1>3, <1>4

\* No line is left out or taken twice: reading adds one, and from then on it is in
\* hand or passed on.
LEMMA LinesKept ==
  ASSUME StoreInv, Typed, InHandInv, IdleInv, LinesInv, AgentNext
  PROVE  LinesInv'
<1> DEFINE Of(c) == {e \in ToSet(Passed) : e.source = c}
<1>1. \A c \in Sources : read[c] \in Nat /\ start[c] \in Nat /\ torn[c] \in SUBSET Nat /\ LinesOf(c)
  BY DEF Typed, LinesInv
<1>2. \A c \in Sources : Accounted(c) = Of(c) \union (IF Busy(c) THEN {hand[c]} ELSE {})
  BY DEF Accounted
<1>3. \A c \in Sources : Accounted(c)' = Of(c)' \union (IF Busy(c)' THEN {hand'[c]} ELSE {})
  BY DEF Accounted, Busy
<1> HIDE DEF Of
<1>4. ASSUME NEW c \in Sources, start'[c] = start[c], read'[c] = read[c], torn'[c] = torn[c],
             \A e \in Accounted(c)' : \E f \in Accounted(c) : e.line = f.line /\ e.whole = f.whole,
             \A f \in Accounted(c) : \E e \in Accounted(c)' : e.line = f.line
      PROVE  LinesOf(c)'
  <2>1. WholeLines(c)' = WholeLines(c)
    BY <1>4 DEF WholeLines
  <2>2. ASSUME NEW e \in Accounted(c)'
        PROVE  e.line \in start'[c] + 1..read'[c] /\ (e.whole <=> e.line \notin torn'[c])
    <3>1. PICK f \in Accounted(c) : e.line = f.line /\ e.whole = f.whole
      BY <1>4
    <3>2. f.line \in start[c] + 1..read[c] /\ (f.whole <=> f.line \notin torn[c])
      BY <1>1 DEF LinesOf
    <3>3. QED
      BY <1>4, <3>1, <3>2
  <2>3. ASSUME NEW n \in WholeLines(c)' PROVE \E e \in Accounted(c)' : e.line = n
    <3>1. PICK f \in Accounted(c) : f.line = n
      BY <1>1, <2>1 DEF LinesOf
    <3>2. QED
      BY <1>4, <3>1
  <2>4. start'[c] <= read'[c]
    BY <1>1, <1>4 DEF LinesOf
  <2>5. QED
    BY <2>2, <2>3, <2>4 DEF LinesOf
<1>5. ASSUME NEW c \in Sources, start'[c] = start[c], read'[c] = read[c], torn'[c] = torn[c],
             Passed' = Passed, step'[c] = step[c], hand'[c] = hand[c]
      PROVE  LinesOf(c)'
  <2>1. Accounted(c)' = Accounted(c)
    BY <1>5 DEF Accounted, Busy
  <2>2. QED
    BY <1>4, <1>5, <2>1
<1>6. ASSUME UNCHANGED <<start, read, torn, step, hand>>, Passed' = Passed PROVE LinesInv'
  BY <1>5, <1>6 DEF LinesInv
<1>7. ASSUME NEW d \in Sources, torn' \in [Sources -> SUBSET Nat], Passed' = Passed, LinesOf(d)',
             \A c \in Sources \ {d} : /\ start'[c] = start[c] /\ read'[c] = read[c] /\ torn'[c] = torn[c]
                                     /\ step'[c] = step[c] /\ hand'[c] = hand[c]
      PROVE  LinesInv'
  BY <1>5, <1>7 DEF LinesInv
<1>8. ASSUME NEW d \in Sources, ReadHalf(d) \/ ReadFails(d) PROVE LinesInv'
  <2>1. /\ torn' = torn \/ torn' = [torn EXCEPT ![d] = torn[d] \union {read[d] + 1}]
        /\ step' = step \/ (step[d] = "read" /\ step' = [step EXCEPT ![d] = "failing"])
        /\ UNCHANGED <<start, read, hand>> /\ Passed' = Passed
    BY <1>8 DEF ReadHalf, ReadFails, mainVars, Passed
  <2>2. /\ torn' \in [Sources -> SUBSET Nat]
        /\ torn'[d] = torn[d] \/ torn'[d] = torn[d] \union {read[d] + 1}
        /\ \A c \in Sources \ {d} : torn'[c] = torn[c] /\ step'[c] = step[c]
    <3>1. torn \in [Sources -> SUBSET Nat] /\ torn[d] \union {read[d] + 1} \in SUBSET Nat
      BY <1>1 DEF LinesInv
    <3>2. \A c \in Sources \ {d} : step'[c] = step[c]
      BY <2>1 DEF Typed
    <3>3. CASE torn' = torn
      BY <3>1, <3>2, <3>3
    <3>4. CASE torn' = [torn EXCEPT ![d] = torn[d] \union {read[d] + 1}]
      BY <3>1, <3>2, <3>4
    <3>5. QED
      BY <2>1, <3>3, <3>4
  <2>3. Accounted(d)' = Accounted(d)
    BY <2>1 DEF Accounted, Busy, Typed
  <2>4. ASSUME NEW n \in start[d] + 1..read[d] PROVE n \in torn'[d] <=> n \in torn[d]
    <3>1. n # read[d] + 1
      BY <1>1
    <3>2. QED
      BY <2>2, <3>1
  <2>5. WholeLines(d)' = WholeLines(d)
    BY <2>1, <2>4 DEF WholeLines
  <2>6. LinesOf(d)'
    BY <1>1, <2>1, <2>3, <2>4, <2>5 DEF LinesOf
  <2>7. QED
    BY <1>7, <2>1, <2>2, <2>6
<1>9. ASSUME NEW d \in Sources, ReadEmpty(d) PROVE LinesInv'
  <2>1. /\ read' = [read EXCEPT ![d] = read[d] + 1] /\ read[d] + 1 \in torn[d]
        /\ UNCHANGED <<start, torn, step, hand>> /\ Passed' = Passed
    BY <1>9 DEF ReadEmpty, mainVars, Passed
  <2>2. read'[d] = read[d] + 1 /\ \A c \in Sources \ {d} : read'[c] = read[c]
    BY <2>1 DEF Typed
  <2>3. Accounted(d)' = Accounted(d)
    BY <2>1 DEF Accounted, Busy
  <2>4. start[d] + 1..read[d] \subseteq start[d] + 1..read'[d]
        /\ \A n \in start[d] + 1..read'[d] : n \in start[d] + 1..read[d] \/ n = read[d] + 1
    BY <1>1, <2>2
  <2>5. WholeLines(d)' = WholeLines(d)
    BY <2>1, <2>4 DEF WholeLines
  <2>6. start'[d] <= read'[d]
    BY <1>1, <2>1, <2>2 DEF LinesOf
  <2>7. LinesOf(d)'
    BY <1>1, <2>1, <2>3, <2>4, <2>5, <2>6 DEF LinesOf
  <2>8. QED
    BY <1>1, <1>7, <2>1, <2>2, <2>7 DEF LinesInv
<1>10. ASSUME NEW d \in Sources, ReadLine(d) PROVE LinesInv'
  <2> DEFINE r == read[d] + 1
             h == Event(d, r \notin torn[d])
  <2>1. /\ hand' = [hand EXCEPT ![d] = h] /\ read' = [read EXCEPT ![d] = r] /\ step[d] = "read"
        /\ step' = [step EXCEPT ![d] = "number"] /\ UNCHANGED <<start, torn>> /\ Passed' = Passed
    BY <1>10 DEF ReadLine, mainVars, Passed
  <2>2. h.line = r /\ h.whole = (r \notin torn[d])
    BY DEF Event
  <2> HIDE DEF h
  <2>3. hand'[d] = h /\ read'[d] = r /\ step'[d] = "number"
        /\ \A c \in Sources \ {d} : read'[c] = read[c] /\ hand'[c] = hand[c] /\ step'[c] = step[c]
    BY <2>1 DEF Typed
  <2>4. Accounted(d)' = Accounted(d) \union {h}
    <3>1. Of(d)' = Of(d)
      BY <2>1 DEF Of
    <3>2. ~Busy(d) /\ Busy(d)'
      BY <2>1, <2>3 DEF Busy
    <3>3. QED
      BY <1>2, <1>3, <2>3, <3>1, <3>2
  <2>5. start[d] + 1..read[d] \subseteq start[d] + 1..read'[d]
        /\ \A n \in start[d] + 1..read'[d] : n \in start[d] + 1..read[d] \/ n = r
    BY <1>1, <2>3
  <2>6. r \in start[d] + 1..read'[d]
    <3>1. start[d] <= read[d]
      BY <1>1 DEF LinesOf
    <3>2. QED
      BY <1>1, <2>3, <3>1
  <2>7. ASSUME NEW e \in Accounted(d)'
        PROVE  e.line \in start'[d] + 1..read'[d] /\ (e.whole <=> e.line \notin torn'[d])
    <3>1. CASE e = h
      BY <2>1, <2>2, <2>6, <3>1
    <3>2. CASE e \in Accounted(d)
      BY <1>1, <2>1, <2>5, <3>2 DEF LinesOf
    <3>3. QED
      BY <2>4, <3>1, <3>2
  <2>8. ASSUME NEW n \in WholeLines(d)' PROVE \E e \in Accounted(d)' : e.line = n
    <3>1. n \in WholeLines(d) \/ n = r
      BY <2>1, <2>5 DEF WholeLines
    <3>2. CASE n \in WholeLines(d)
      BY <1>1, <2>4, <3>2 DEF LinesOf
    <3>3. CASE n = r
      BY <2>2, <2>4, <3>3
    <3>4. QED
      BY <3>1, <3>2, <3>3
  <2>9. start'[d] <= read'[d]
    BY <1>1, <2>1, <2>3 DEF LinesOf
  <2>10. LinesOf(d)'
    BY <2>7, <2>8, <2>9 DEF LinesOf
  <2>11. QED
    BY <1>1, <1>7, <2>1, <2>3, <2>10 DEF LinesInv
<1>11. ASSUME NEW d \in Sources, Number(d) \/ Reserved(d) PROVE LinesInv'
  <2>1. PICK n \in Nat : Numbered(d, n) /\ step[d] \in {"number", "reserving"} /\ Passed' = Passed
    BY <1>11 DEF Number, Reserved, Issue, StoreInv, TypeOK, mainVars, Passed
  <2>2. hand' = [hand EXCEPT ![d] = [hand[d] EXCEPT !.seq = n]] /\ step' = [step EXCEPT ![d] = "send"]
        /\ UNCHANGED <<start, read, torn>> /\ hand[d] \in Events
    BY <2>1 DEF Numbered, Typed
  <2>3. hand'[d].line = hand[d].line /\ hand'[d].whole = hand[d].whole /\ step'[d] = "send"
        /\ \A c \in Sources \ {d} : hand'[c] = hand[c] /\ step'[c] = step[c]
    BY <2>2 DEF Typed, Events
  <2>4. Accounted(d) = Of(d) \union {hand[d]} /\ Accounted(d)' = Of(d) \union {hand'[d]}
    <3>1. Of(d)' = Of(d)
      BY <2>1 DEF Of
    <3>2. Busy(d) /\ Busy(d)'
      BY <2>1, <2>3 DEF Busy
    <3>3. QED
      BY <1>2, <1>3, <3>1, <3>2
  <2>5. LinesOf(d)'
    BY <1>4, <2>2, <2>3, <2>4
  <2>6. QED
    BY <1>7, <2>1, <2>2, <2>3, <2>5 DEF LinesInv
<1>12. ASSUME NEW d \in Sources, Reserving(d) \/ JournalEnds(d) \/ Readable(d) PROVE LinesInv'
  <2>1. /\ \/ step[d] = "number" /\ step' = [step EXCEPT ![d] = "reserving"]
           \/ step[d] = "read" /\ step' = [step EXCEPT ![d] = "stopped"]
           \/ step[d] = "failing" /\ step' = [step EXCEPT ![d] = "read"]
        /\ UNCHANGED <<start, read, torn, hand>> /\ Passed' = Passed
    BY <1>12 DEF Reserving, JournalEnds, Readable, mainVars, Passed
  <2>2. (Busy(d)' <=> Busy(d)) /\ \A c \in Sources \ {d} : step'[c] = step[c]
    BY <2>1 DEF Busy, Typed
  <2>3. Accounted(d)' = Accounted(d)
    BY <2>1, <2>2 DEF Accounted
  <2>4. LinesOf(d)'
    BY <1>4, <2>1, <2>3
  <2>5. QED
    BY <1>7, <2>1, <2>2, <2>4 DEF LinesInv
<1>13. ASSUME NEW d \in Sources, Enqueue(d), Passed' = Append(Passed, hand[d]) PROVE LinesInv'
  <2>1. /\ step[d] = "send" /\ step' = [step EXCEPT ![d] = "read"] /\ hand' = [hand EXCEPT ![d] = NoEvent]
        /\ UNCHANGED <<start, read, torn>>
    BY <1>13 DEF Enqueue
  <2>2. Busy(d) /\ ~Busy(d)' /\ \A c \in Sources \ {d} : step'[c] = step[c] /\ hand'[c] = hand[c]
    BY <2>1 DEF Busy, Typed
  <2>3. hand[d] \in Events /\ hand[d].source = d
    BY <2>1, <2>2 DEF Typed, InHandInv
  <2>4. ToSet(Passed') = ToSet(Passed) \union {hand[d]}
    BY <1>13, <2>3, PassedTyped, MembersOfAppend
  <2>5. Of(d)' = Of(d) \union {hand[d]} /\ \A c \in Sources \ {d} : Of(c)' = Of(c)
    <3>1. \A c \in Sources : Of(c)' = {e \in ToSet(Passed') : e.source = c}
      BY DEF Of, ToSet
    <3>2. QED
      BY <2>3, <2>4, <3>1 DEF Of
  <2>6. \A c \in Sources \ {d} : Busy(c)' <=> Busy(c)
    BY <2>2 DEF Busy
  <2>7. ASSUME NEW c \in Sources PROVE Accounted(c)' = Accounted(c)
    <3>1. CASE c = d
      BY <1>2, <1>3, <2>2, <2>5, <3>1
    <3>2. CASE c # d
      BY <1>2, <1>3, <2>2, <2>5, <2>6, <3>2
    <3>3. QED
      BY <3>1, <3>2
  <2>8. \A c \in Sources : LinesOf(c)'
    BY <1>4, <2>1, <2>7
  <2>9. QED
    BY <2>1, <2>8 DEF LinesInv
<1>14. ASSUME Passed' = <<>>, torn' = [c \in Sources |-> {}], read' = start',
              start' \in [Sources -> Nat], \A c \in Sources : ~Busy(c)'
       PROVE  LinesInv'
  <2>1. ASSUME NEW c \in Sources PROVE Accounted(c)' = {} /\ WholeLines(c)' = {} /\ start'[c] <= read'[c]
    <3>1. ToSet(Passed') = {}
      BY <1>14 DEF ToSet
    <3>2. start'[c] \in Nat /\ read'[c] = start'[c]
      BY <1>14
    <3>3. start'[c] + 1..read'[c] = {}
      BY <3>2
    <3>4. WholeLines(c)' = {}
      BY <3>3 DEF WholeLines
    <3>5. Accounted(c)' = {}
      BY <1>14, <3>1 DEF Accounted, ToSet
    <3>6. QED
      BY <3>2, <3>4, <3>5
  <2>2. \A c \in Sources : LinesOf(c)'
    BY <2>1 DEF LinesOf
  <2>3. torn' \in [Sources -> SUBSET Nat]
    BY <1>14
  <2>4. QED
    BY <2>2, <2>3 DEF LinesInv
<1>15. CASE Boot \/ FileTruncated \/ Heartbeat
  <2>1. UNCHANGED <<start, read, torn, step, hand, taken, channel>>
    BY <1>15 DEF Boot, FileTruncated, Heartbeat, BeatTicks, BeatTakesSeq, BeatTakesHash, BeatReturns,
                 collectorVars, mainVars
  <2>2. QED
    BY <1>6, <2>1 DEF Passed
<1>16. CASE MainLoop
  <2>1. UNCHANGED <<start, read, torn, step, hand>>
    BY <1>16 DEF MainLoop, Receive, SendEvent, SendReturns, collectorVars
  <2>2. QED
    BY <1>6, <1>16, <2>1, PassedMoves
<1>17. CASE Launch
  <2>1. Idle /\ torn' = torn /\ UNCHANGED <<taken, channel>> /\ read' = start'
        /\ start' = [c \in Sources |-> Skipped(c)] /\ \A c \in Sources : step'[c] \in {"read", "failing"}
    BY <1>17 DEF Launch, Write, Idle, mainVars
  <2>2. Passed = <<>> /\ torn = [c \in Sources |-> {}]
    BY <2>1, EmptySeq, ConcatEmptySeq DEF IdleInv, Passed
  <2>3. start' \in [Sources -> Nat]
    BY <1>17, TypedStep DEF Typed
  <2>4. \A c \in Sources : ~Busy(c)'
    BY <2>1 DEF Busy
  <2>5. Passed' = <<>>
    BY <2>1, <2>2 DEF Passed
  <2>6. QED
    BY <1>14, <2>1, <2>2, <2>3, <2>4, <2>5
<1>18. CASE Down
  <2>1. /\ torn' = [c \in Sources |-> {}] /\ taken' = <<>> /\ channel' = <<>> /\ read' = start'
        /\ start' = [c \in Sources |-> 0] /\ step' = [c \in Sources |-> "stopped"]
    BY <1>18 DEF Down, Forgotten
  <2>2. Passed' = <<>>
    BY <2>1, EmptySeq, ConcatEmptySeq DEF Passed
  <2>3. start' \in [Sources -> Nat] /\ \A c \in Sources : ~Busy(c)'
    BY <2>1 DEF Busy
  <2>4. QED
    BY <1>14, <2>1, <2>2, <2>3
<1>19. ASSUME NEW c \in Sources, WriteHalf(c) \/ WriteLine(c) PROVE LinesInv'
  BY <1>6, <1>19 DEF WriteHalf, WriteLine, collectorVars, mainVars, Passed
<1>20. ASSUME NEW c \in Sources, Enqueue(c) PROVE Passed' = Append(Passed, hand[c])
  BY <1>20, PassedMoves
<1>21. QED
  BY <1>8, <1>9, <1>10, <1>11, <1>12, <1>13, <1>15, <1>16, <1>17, <1>18, <1>19, <1>20 DEF AgentNext, Collect

\* The lines of what a source has given are those that were read whole.
LEMMA LinesOfMade ==
  ASSUME NEW c \in Sources, LinesInv
  PROVE  {e.line : e \in {f \in Accounted(c) : f.whole}} = WholeLines(c)
<1>1. LinesOf(c)
  BY DEF LinesInv
<1>2. ASSUME NEW e \in Accounted(c), e.whole PROVE e.line \in WholeLines(c)
  BY <1>1, <1>2 DEF LinesOf, WholeLines
<1>3. ASSUME NEW n \in WholeLines(c) PROVE \E e \in Accounted(c) : e.whole /\ e.line = n
  <2>1. PICK e \in Accounted(c) : e.line = n
    BY <1>1 DEF LinesOf
  <2>2. e.whole
    BY <1>1, <2>1 DEF LinesOf, WholeLines
  <2>3. QED
    BY <2>1, <2>2
<1>4. QED
  BY <1>2, <1>3

\* At first there is nothing on its way.
LEMMA PassageInit == AgentInit => PassageInv
<1> SUFFICES ASSUME AgentInit PROVE PassageInv
  OBVIOUS
<1>1. Passed = <<>> /\ ToSet(<<>>) = {} /\ DOMAIN <<>> = {}
  BY EmptySeq, ConcatEmptySeq DEF AgentInit, Passed, ToSet
<1>2. \A c \in Sources : ~Busy(c) /\ hand[c] = NoEvent
  BY DEF AgentInit, Busy
<1>3. InHandInv /\ IdleInv
  BY <1>2 DEF InHandInv, IdleInv, AgentInit
<1>4. InOrder
  BY <1>1, <1>2 DEF InOrder
<1>5. ASSUME NEW c \in Sources PROVE LinesOf(c)
  <2>1. start[c] = 0 /\ read[c] = 0
    BY DEF AgentInit
  <2>2. WholeLines(c) = {}
    BY <2>1 DEF WholeLines
  <2>3. Accounted(c) = {}
    BY <1>1, <1>2 DEF Accounted
  <2>4. QED
    BY <2>1, <2>2, <2>3 DEF LinesOf
<1>6. LinesInv
  BY <1>5 DEF LinesInv, AgentInit
<1>7. QED
  BY <1>3, <1>4, <1>6 DEF PassageInv

\* A stuttering step changes nothing of it.
LEMMA PassageStutters ==
  ASSUME PassageInv, UNCHANGED agentVars
  PROVE  PassageInv'
<1> USE DEF agentVars, storeVars, collectorVars, mainVars
<1>1. \A c \in Sources : (Busy(c)' <=> Busy(c)) /\ Accounted(c)' = Accounted(c) /\ WholeLines(c)' = WholeLines(c)
  BY DEF Busy, Accounted, Passed, WholeLines
<1>2. Passed' = Passed /\ ToSet(Passed)' = ToSet(Passed) /\ (Idle' <=> Idle)
  BY DEF Passed, Idle, ToSet
<1>3. InHandInv' /\ IdleInv'
  BY <1>1, <1>2 DEF PassageInv, InHandInv, IdleInv
<1>4. InOrder'
  BY <1>1, <1>2 DEF PassageInv, InOrder
<1>5. LinesInv'
  BY <1>1 DEF PassageInv, LinesInv, LinesOf
<1>6. QED
  BY <1>3, <1>4, <1>5 DEF PassageInv

----------------------------------------------------------------------------
(* The theorems.                                                           *)

\* The inductive invariant: the numbers, the way of the lines and the heartbeat.
THEOREM PipelineInvariant == AgentSpec => [](PipelineInv /\ PassageInv /\ BeatInv)
<1>1. AgentInit => PipelineInv /\ PassageInv /\ BeatInv
  BY PipelineInit, PassageInit, BeatInit
<1>2. PipelineInv /\ PassageInv /\ BeatInv /\ [AgentNext]_agentVars => PipelineInv' /\ PassageInv' /\ BeatInv'
  <2> SUFFICES ASSUME PipelineInv, PassageInv, BeatInv, [AgentNext]_agentVars
               PROVE  PipelineInv' /\ PassageInv' /\ BeatInv'
    OBVIOUS
  <2>1. PipelineInv'
    BY PipelineStep
  <2>2. StoreInv /\ Typed /\ Identified /\ InHandInv /\ InOrder /\ LinesInv /\ IdleInv
    BY DEF PipelineInv, PassageInv
  <2>3. CASE AgentNext
    <3>1. PassageInv'
      BY <2>2, <2>3, HandKept, InOrderKept, LinesKept, IdleKept DEF PassageInv
    <3>2. BeatInv'
      BY <2>2, <2>3, BeatKept
    <3>3. QED
      BY <2>1, <3>1, <3>2
  <2>4. CASE UNCHANGED agentVars
    <3>1. PassageInv'
      BY <2>4, PassageStutters
    <3>2. BeatInv'
      BY <2>4 DEF BeatInv, LastTaken, agentVars, mainVars
    <3>3. QED
      BY <2>1, <3>1, <3>2
  <2>5. QED
    BY <2>3, <2>4
<1>3. QED
  BY <1>1, <1>2, PTL DEF AgentSpec

\* Every line read that was not cut in two is on its way to Sentry, once, behind
\* the earlier lines of its source and with a higher number, whatever collectors
\* share the channel, however small it is and however slow Sentry answers.
THEOREM NothingEverLost == AgentSpec => []NothingLostInside
<1>1. PipelineInv /\ PassageInv => NothingLostInside
  <2> SUFFICES ASSUME Typed, InHandInv, InOrder, LinesInv, NEW c \in Sources
               PROVE  /\ \A i, j \in DOMAIN Passage(c) :
                           i < j /\ Passage(c)[i].source = c /\ Passage(c)[j].source = c =>
                             /\ Passage(c)[i].line < Passage(c)[j].line
                             /\ Passage(c)[j].seq # 0 => Passage(c)[i].seq < Passage(c)[j].seq
                      /\ {e.line : e \in {f \in Made(c) : f.whole}} = WholeLines(c)
    BY DEF PipelineInv, PassageInv, NothingLostInside
  <2>1. PICK q \in Seq(Events) : q = Passed
    BY PassedTyped
  <2>2. CASE Busy(c)
    <3>1. PICK h \in Events : h = hand[c] /\ h.source = c
      BY <2>2 DEF Typed, InHandInv, Busy
    <3>2. Passage(c) = Append(q, h)
      <4>1. InHand(c) = <<h>>
        BY <3>1, AgentAssumption DEF InHand
      <4>2. Append(q, h) = q \o <<h>>
        BY AppendIsConcat
      <4>3. QED
        BY <2>1, <4>1, <4>2 DEF Passage, Passed
    <3>3. Append(q, h) \in Seq(Events) /\ ToSet(Append(q, h)) = ToSet(q) \union {h}
      BY MembersOfAppend
    <3>4. Made(c) = Accounted(c)
      <4>1. Made(c) = {e \in ToSet(Append(q, h)) : e.source = c}
        BY <3>2 DEF Made, ToSet
      <4>2. Accounted(c) = {e \in ToSet(q) : e.source = c} \union {h}
        BY <2>1, <2>2, <3>1 DEF Accounted
      <4>3. QED
        BY <3>1, <3>3, <4>1, <4>2
    <3>5. ASSUME NEW i \in DOMAIN Append(q, h), NEW j \in DOMAIN Append(q, h), i < j,
                 Append(q, h)[i].source = c, Append(q, h)[j].source = c
          PROVE  /\ Append(q, h)[i].line < Append(q, h)[j].line
                 /\ Append(q, h)[j].seq # 0 => Append(q, h)[i].seq < Append(q, h)[j].seq
      <4>1. CASE i \in DOMAIN q /\ j \in DOMAIN q /\ Append(q, h)[i] = q[i] /\ Append(q, h)[j] = q[j]
        BY <2>1, <3>5, <4>1 DEF InOrder
      <4>2. CASE Append(q, h)[i] \in ToSet(q) /\ Append(q, h)[j] = h
        <5>1. step[c] # "send" => h.seq = 0
          BY <2>2, <3>1 DEF InHandInv
        <5>2. \A e \in ToSet(q) : e.source = c => e.line < h.line /\ (step[c] = "send" => e.seq < h.seq)
          BY <2>1, <2>2, <3>1 DEF InOrder
        <5>3. QED
          BY <3>5, <4>2, <5>1, <5>2
      <4>3. QED
        BY <3>5, <4>1, <4>2, PairsOfAppend
    <3>6. QED
      BY <3>2, <3>4, <3>5, LinesOfMade
  <2>3. CASE ~Busy(c)
    <3>1. Passage(c) = q
      <4>1. InHand(c) = <<>>
        BY <2>3 DEF InHand, InHandInv
      <4>2. QED
        BY <2>1, <4>1, ConcatEmptySeq DEF Passage, Passed
    <3>2. Made(c) = Accounted(c)
      BY <2>1, <2>3, <3>1 DEF Made, Accounted, ToSet
    <3>3. \A i, j \in DOMAIN q : i < j /\ q[i].source = c /\ q[j].source = c =>
            q[i].line < q[j].line /\ q[i].seq < q[j].seq
      BY <2>1 DEF InOrder
    <3>4. QED
      BY <3>1, <3>2, <3>3, LinesOfMade
  <2>4. QED
    BY <2>2, <2>3
<1>2. QED
  BY <1>1, PipelineInvariant, PTL

\* A heartbeat made while no event is taken names the newest by number and by
\* hash, though two goroutines share them without a lock.
THEOREM CalmBeatAlwaysCurrent == AgentSpec => []CalmBeatIsCurrent
<1>1. BeatInv => CalmBeatIsCurrent
  BY DEF BeatInv, CalmBeatIsCurrent
<1>2. QED
  BY <1>1, PipelineInvariant, PTL

\* agent_sequence names one event for ever, whatever collectors race for the
\* numbers and however often the agent crashes and is started again.
THEOREM NumbersAlwaysIdentify == AgentSpec => []NumbersIdentify
<1>1. PipelineInv => NumbersIdentify
  <2> SUFFICES ASSUME PipelineInv PROVE NumbersIdentify
    OBVIOUS
  <2>1. ToSet(taken \o channel) = ToSet(taken) \union ToSet(channel)
    BY MembersOfConcat DEF PipelineInv, Typed
  <2>2. posted \union InFlight = Known
    BY <2>1 DEF InFlight, Known
  <2>3. QED
    BY <2>2 DEF PipelineInv, Identified, NumbersIdentify
<1>2. QED
  BY <1>1, PipelineInvariant, PTL

\* Hence what is proved of the store holds of the agent: each number drawn by any
\* collector is above all drawn before, by this run or an earlier one.
THEOREM AgentNeverReuses == AgentSpec => NeverReused
BY PipelineUsesStore, SequenceNeverReused, PTL
=============================================================================
