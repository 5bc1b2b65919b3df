--------------------------- MODULE WatchdogProofs ---------------------------
(***************************************************************************)
(* The dead-man's switch, for any set of agents, any heartbeat interval,   *)
(* limit and correlation window.                                           *)
(***************************************************************************)
EXTENDS Watchdog, Integers, TLAPS

----------------------------------------------------------------------------
(* The inductive invariant, in parts.                                      *)

Broadcasts == [state : States, disposition : Dispositions]

\* A loss comes with its assessment, and only a loss.
Whole(out) == out \in Broadcasts /\ (out.state = "TELEMETRY_LOSS" <=> out.disposition # "none")

AgentsInv ==
  /\ clock \in 0..MaxClock /\ known \subseteq Agents
  /\ state \in [Agents -> States] /\ last \in [Agents -> 0..clock]
  /\ reported \in [Agents -> States]
  /\ said \in [Agents -> Broadcasts] /\ \A a \in Agents : Whole(said[a])
  /\ intrusion \in 0..clock \union {None}

\* The evidence a round read is the newest still, or there is newer of this tick.
LoopInv ==
  /\ loop.step \in {"sleep", "status", "report"}
  /\ loop.step # "sleep" =>
       /\ loop.left \subseteq known
       /\ loop.latest \in 0..clock \union {None}
       /\ loop.latest = intrusion \/ intrusion = clock
  /\ loop.step = "report" =>
       /\ loop.agent \in loop.left
       /\ Whole(loop.out)
       /\ loop.out.disposition \in {"none", Disposition(loop.latest, clock)}

ReaderInv ==
  /\ reader.step \in {"idle", "snapshot", "check", "mark", "count", "assess"}
  /\ reader.step \in {"check", "mark", "count", "assess"} =>
       reader.now \in 0..clock /\ reader.left \subseteq reader.keys /\ reader.keys \subseteq known
  /\ reader.step \in {"mark", "count", "assess"} => reader.agent \in reader.left

Overdue(a) == clock - last[a] >= Limit

Noticed(a) == state[a] = "TELEMETRY_LOSS" /\ reported[a] = "TELEMETRY_LOSS"

\* Due already when the rounds began to fail.
LongOverdue(a) == clock - last[a] >= Limit + failed

\* When a round is over every agent has been noticed that was due at the last one
\* that did not fail; one under way has noticed those it is done with.
RoundInv ==
  /\ failed \in Nat
  /\ LossNoticedInTime
  /\ loop.step = "sleep" /\ loop.polled => \A a \in known : LongOverdue(a) => Noticed(a)
  /\ loop.step # "sleep" => \A a \in known \ loop.left : Overdue(a) => Noticed(a)
  /\ loop.step = "report" => (Overdue(loop.agent) => state[loop.agent] = "TELEMETRY_LOSS")

SwitchInv == AgentsInv /\ LoopInv /\ ReaderInv /\ RoundInv

----------------------------------------------------------------------------
(* Lemmas on the arithmetic and the assessment.                            *)

\* Silence for limit times interval counts as that many missed beats.
LEMMA IntervalsMissed ==
  ASSUME NEW d \in Nat, NEW h \in Nat \ {0}, NEW m \in Nat, d >= h * m
  PROVE  d \div h >= m
<1> DEFINE q == d \div h
<1>1. q \in Nat /\ d < h * (q + 1)
  OBVIOUS
<1> HIDE DEF q
<1>2. SUFFICES ASSUME q < m PROVE FALSE
  BY <1>1 DEF q
<1>3. PICK k \in Nat : m = q + 1 + k
  <2>1. m - (q + 1) \in Nat /\ m = q + 1 + (m - (q + 1))
    BY <1>1, <1>2
  <2>2. QED
    BY <2>1
<1>4. h * m = h * (q + 1) + h * k /\ h * k \in Nat
  BY <1>1, <1>3
<1>5. QED
  BY <1>1, <1>4

LEMMA LimitPositive == Limit \in Nat /\ Limit > 0
BY WatchdogAssumption DEF Limit

LEMMA OverdueIsMissed ==
  ASSUME AgentsInv, NEW a \in Agents, Overdue(a)
  PROVE  Missed(a, clock)
<1>1. clock - last[a] \in Nat
  <2>1. last[a] \in 0..clock /\ clock \in Nat
    BY WatchdogAssumption DEF AgentsInv
  <2>2. QED
    BY <2>1
<1>2. QED
  BY <1>1, IntervalsMissed, WatchdogAssumption DEF Missed, Overdue, Limit

LEMMA StatusIsWhole ==
  ASSUME NEW st \in States, NEW latest, NEW now
  PROVE  /\ Whole(Status(st, latest, now))
         /\ Status(st, latest, now).disposition \in {"none", Disposition(latest, now)}
BY DEF Whole, Status, Broadcasts, States, Dispositions, Disposition

LEMMA InitSwitch == Init => SwitchInv
<1> SUFFICES ASSUME Init PROVE SwitchInv
  OBVIOUS
<1>1. AgentsInv
  BY WatchdogAssumption DEF Init, AgentsInv, Whole, Broadcasts, States, Dispositions
<1>2. LoopInv /\ ReaderInv
  BY DEF Init, LoopInv, ReaderInv, Asleep, Idle
<1>3. RoundInv
  BY DEF Init, RoundInv, LossNoticedInTime, Asleep
<1>4. QED
  BY <1>1, <1>2, <1>3 DEF SwitchInv

\* Whoever is due since before the failed rounds is due.
LEMMA LongIsOverdue ==
  ASSUME AgentsInv, failed \in Nat, NEW a \in Agents, LongOverdue(a)
  PROVE  Overdue(a)
<1>1. clock - last[a] \in Int
  BY WatchdogAssumption DEF AgentsInv
<1>2. QED
  BY <1>1, LimitPositive DEF LongOverdue, Overdue

----------------------------------------------------------------------------
(* One lemma per action of the event loop.                                 *)

LEMMA RecordKeeps ==
  ASSUME SwitchInv, NEW a \in Agents, Record(a)
  PROVE  SwitchInv'
<1> USE WatchdogAssumption
<1>1. AgentsInv /\ LoopInv /\ ReaderInv /\ RoundInv
  BY DEF SwitchInv
<1>2. /\ loop.step = "sleep" /\ known' = known \union {a}
      /\ state' = [state EXCEPT ![a] = "HEALTHY"] /\ last' = [last EXCEPT ![a] = clock]
      /\ UNCHANGED <<clock, reported, said, intrusion, loop, failed, reader>>
  BY DEF Record
<1>3. AgentsInv'
  BY <1>1, <1>2 DEF AgentsInv, States
<1>4. LoopInv' /\ ReaderInv'
  BY <1>1, <1>2 DEF LoopInv, ReaderInv
<1>5. clock \in Nat /\ last'[a] = clock /\ clock - last'[a] = 0
  BY <1>1, <1>2 DEF AgentsInv
<1>6. \A b \in Agents \ {a} : last'[b] = last[b] /\ state'[b] = state[b]
  BY <1>1, <1>2 DEF AgentsInv
<1>7. LossNoticedInTime'
  <2> SUFFICES ASSUME NEW b \in known', clock - last'[b] > Limit + failed
               PROVE  state'[b] = "TELEMETRY_LOSS" /\ reported'[b] = "TELEMETRY_LOSS"
    BY <1>2 DEF LossNoticedInTime
  <2>1. b # a
    BY <1>1, <1>5, LimitPositive DEF RoundInv
  <2>2. b \in known /\ b \in Agents
    BY <1>1, <1>2, <2>1 DEF AgentsInv
  <2>3. QED
    BY <1>1, <1>2, <1>6, <2>1, <2>2 DEF RoundInv, LossNoticedInTime
<1>8. ASSUME loop.polled PROVE \A b \in known' : LongOverdue(b)' => Noticed(b)'
  <2> SUFFICES ASSUME NEW b \in known', LongOverdue(b)' PROVE Noticed(b)'
    OBVIOUS
  <2>1. b # a
    BY <1>1, <1>2, <1>5, LimitPositive DEF LongOverdue, RoundInv
  <2>2. b \in known /\ b \in Agents
    BY <1>1, <1>2, <2>1 DEF AgentsInv
  <2>3. LongOverdue(b)
    BY <1>2, <1>6, <2>1, <2>2 DEF LongOverdue
  <2>4. Noticed(b)
    BY <1>1, <1>2, <1>8, <2>2, <2>3 DEF RoundInv
  <2>5. QED
    BY <1>2, <1>6, <2>1, <2>2, <2>4 DEF Noticed
<1>9. RoundInv'
  BY <1>1, <1>2, <1>7, <1>8 DEF RoundInv
<1>10. QED
  BY <1>3, <1>4, <1>9 DEF SwitchInv

LEMMA LoopReadKeeps ==
  ASSUME SwitchInv, LoopRead
  PROVE  SwitchInv'
<1>1. AgentsInv /\ LoopInv /\ ReaderInv /\ RoundInv
  BY DEF SwitchInv
<1>2. UNCHANGED <<clock, agentVars, said, intrusion, reader>>
  BY DEF LoopRead
<1>3. AgentsInv' /\ ReaderInv'
  BY <1>1, <1>2 DEF AgentsInv, ReaderInv, agentVars
<1>4. CASE known = {}
  <2>1. loop'.step = "sleep"
    BY <1>4 DEF LoopRead, Asleep
  <2>2. LoopInv'
    BY <2>1 DEF LoopInv
  <2>3. RoundInv'
    BY <1>2, <1>4, <2>1 DEF LoopRead, RoundInv, LossNoticedInTime, agentVars
  <2>4. QED
    BY <1>3, <2>2, <2>3 DEF SwitchInv
<1>5. CASE known # {}
  <2>1. loop'.step = "status" /\ loop'.latest = intrusion /\ loop'.left = known /\ failed' = failed
    BY <1>5 DEF LoopRead
  <2>2. LoopInv'
    BY <1>1, <1>2, <2>1 DEF LoopInv, AgentsInv, agentVars
  <2>3. LossNoticedInTime'
    BY <1>1, <1>2, <2>1 DEF RoundInv, LossNoticedInTime, agentVars
  <2>4. RoundInv'
    BY <1>1, <1>2, <2>1, <2>3 DEF RoundInv, agentVars
  <2>5. QED
    BY <1>3, <2>2, <2>4 DEF SwitchInv
<1>6. QED
  BY <1>4, <1>5

\* A round that fails adds its second to what may pass unnoticed.
LEMMA LoopFailsKeeps ==
  ASSUME SwitchInv, LoopFails
  PROVE  SwitchInv'
<1>1. AgentsInv /\ LoopInv /\ ReaderInv /\ RoundInv
  BY DEF SwitchInv
<1>2. /\ UNCHANGED <<clock, known, state, last, reported, said, intrusion, reader>>
      /\ failed' = failed + 1 /\ loop'.step = "sleep"
  BY DEF LoopFails, Asleep, agentVars
<1>3. AgentsInv' /\ LoopInv' /\ ReaderInv'
  BY <1>1, <1>2 DEF AgentsInv, LoopInv, ReaderInv
<1>4. ASSUME NEW a \in known, clock - last[a] >= Limit + (failed + 1) PROVE Noticed(a)
  <2>1. clock - last[a] \in Int /\ failed \in Nat
    BY <1>1, WatchdogAssumption DEF AgentsInv, RoundInv
  <2>2. clock - last[a] > Limit + failed
    BY <1>4, <2>1, LimitPositive
  <2>3. QED
    BY <1>1, <2>2 DEF RoundInv, LossNoticedInTime, Noticed
<1>5. ASSUME NEW a \in known, clock - last[a] > Limit + (failed + 1)
      PROVE  clock - last[a] >= Limit + (failed + 1)
  <2>1. clock - last[a] \in Int /\ failed \in Nat
    BY <1>1, WatchdogAssumption DEF AgentsInv, RoundInv
  <2>2. QED
    BY <1>5, <2>1, LimitPositive
<1>6. failed' \in Nat
  BY <1>1, <1>2 DEF RoundInv
<1>7. RoundInv'
  BY <1>2, <1>4, <1>5, <1>6 DEF RoundInv, LossNoticedInTime, LongOverdue, Noticed
<1>8. QED
  BY <1>3, <1>7 DEF SwitchInv

LEMMA PollStatusKeeps ==
  ASSUME SwitchInv, NEW a \in Agents, PollStatus(a)
  PROVE  SwitchInv'
<1>1. AgentsInv /\ LoopInv /\ ReaderInv /\ RoundInv
  BY DEF SwitchInv
<1>2. /\ loop.step = "status" /\ a \in loop.left
      /\ state' = [state EXCEPT ![a] = Evaluated(a, clock)]
      /\ UNCHANGED <<clock, known, last, reported, said, intrusion, failed, reader>>
  BY DEF PollStatus
<1>3. /\ loop'.step = "report" /\ loop'.latest = loop.latest /\ loop'.left = loop.left
      /\ loop'.agent = a /\ loop'.out = Status(state'[a], loop.latest, clock)
  BY DEF PollStatus
<1>4. state[a] \in States /\ Evaluated(a, clock) \in States
  BY <1>1 DEF AgentsInv, Evaluated, States
<1>5. /\ state' \in [Agents -> States] /\ state'[a] = Evaluated(a, clock)
      /\ \A b \in Agents \ {a} : state'[b] = state[b]
  BY <1>1, <1>2, <1>4 DEF AgentsInv
<1>6. AgentsInv' /\ ReaderInv'
  BY <1>1, <1>2, <1>5 DEF AgentsInv, ReaderInv
<1>7. LoopInv'
  <2>1. Whole(loop'.out) /\ loop'.out.disposition \in {"none", Disposition(loop.latest, clock)}
    BY <1>3, <1>4, <1>5, StatusIsWhole
  <2>2. QED
    BY <1>1, <1>2, <1>3, <2>1 DEF LoopInv, Disposition
<1>8. \A b \in Agents : state[b] = "TELEMETRY_LOSS" => state'[b] = "TELEMETRY_LOSS"
  BY <1>5 DEF Evaluated
<1>9. RoundInv'
  <2>1. LossNoticedInTime'
    BY <1>1, <1>2, <1>8 DEF AgentsInv, RoundInv, LossNoticedInTime
  <2>2. \A b \in known' \ loop'.left : Overdue(b)' => Noticed(b)'
    BY <1>1, <1>2, <1>3, <1>8 DEF AgentsInv, RoundInv, Overdue, Noticed
  <2>3. Overdue(a)' => state'[a] = "TELEMETRY_LOSS"
    BY <1>1, <1>2, <1>5, OverdueIsMissed DEF Overdue, Evaluated
  <2>4. Overdue(loop.agent)' => state'[loop'.agent] = "TELEMETRY_LOSS"
    BY <1>3, <2>3 DEF Overdue
  <2>5. QED
    BY <1>1, <1>2, <1>3, <2>1, <2>2, <2>4 DEF RoundInv
<1>10. QED
  BY <1>6, <1>7, <1>9 DEF SwitchInv

LEMMA PollReportKeeps ==
  ASSUME SwitchInv, NEW a \in Agents, PollReport(a)
  PROVE  SwitchInv'
<1>1. AgentsInv /\ LoopInv /\ ReaderInv /\ RoundInv
  BY DEF SwitchInv
<1>2. /\ loop.step = "report" /\ loop.agent = a
      /\ UNCHANGED <<clock, known, state, last, intrusion, reader>>
  BY DEF PollReport
<1>3. reported' \in [Agents -> States] /\ reported'[a] = state[a]
      /\ \A b \in Agents \ {a} : reported'[b] = reported[b]
  BY <1>1 DEF PollReport, AgentsInv
<1>4. said' \in [Agents -> Broadcasts] /\ \A b \in Agents : Whole(said'[b])
  <2>1. Whole(loop.out) /\ loop.out \in Broadcasts
    BY <1>1, <1>2 DEF LoopInv, Whole
  <2>2. said' = said \/ said' = [said EXCEPT ![a] = loop.out]
    BY DEF PollReport
  <2>3. QED
    BY <1>1, <2>1, <2>2 DEF AgentsInv
<1>5. AgentsInv' /\ ReaderInv'
  BY <1>1, <1>2, <1>3, <1>4 DEF AgentsInv, ReaderInv
<1>6. \A b \in known \ (loop.left \ {a}) : Overdue(b)' => Noticed(b)'
  <2> SUFFICES ASSUME NEW b \in known \ (loop.left \ {a}), Overdue(b)' PROVE Noticed(b)'
    OBVIOUS
  <2>1. Overdue(b) /\ b \in Agents
    BY <1>1, <1>2 DEF AgentsInv, Overdue
  <2>2. CASE b = a
    BY <1>1, <1>2, <1>3, <2>1, <2>2 DEF RoundInv, Noticed
  <2>3. CASE b # a
    BY <1>1, <1>2, <1>3, <2>1, <2>3 DEF RoundInv, Noticed
  <2>4. QED
    BY <2>2, <2>3
<1>7. ASSUME failed' = failed PROVE LossNoticedInTime'
  <2> SUFFICES ASSUME NEW b \in known', clock' - last'[b] > Limit + failed'
               PROVE  state'[b] = "TELEMETRY_LOSS" /\ reported'[b] = "TELEMETRY_LOSS"
    BY DEF LossNoticedInTime
  <2>1. state[b] = "TELEMETRY_LOSS" /\ reported[b] = "TELEMETRY_LOSS" /\ b \in Agents
    BY <1>1, <1>2, <1>7 DEF AgentsInv, RoundInv, LossNoticedInTime
  <2>2. QED
    BY <1>2, <1>3, <2>1
<1>8. CASE loop.left \ {a} = {}
  <2>1. loop'.step = "sleep" /\ failed' = 0
    BY <1>8 DEF PollReport, Asleep
  <2>2. LoopInv'
    BY <2>1 DEF LoopInv
  <2>3. \A b \in known' : Overdue(b)' => Noticed(b)'
    BY <1>2, <1>6, <1>8
  <2>4. ASSUME NEW b \in known' PROVE LongOverdue(b)' => Overdue(b)'
    BY <2>1, LimitPositive DEF LongOverdue, Overdue
  <2>5. ASSUME NEW b \in known', clock' - last'[b] > Limit + failed' PROVE Overdue(b)'
    <3>1. clock' - last'[b] \in Int
      BY <1>1, <1>2, WatchdogAssumption DEF AgentsInv
    <3>2. QED
      BY <2>1, <2>5, <3>1, LimitPositive DEF Overdue
  <2>6. LossNoticedInTime'
    BY <2>3, <2>5 DEF LossNoticedInTime, Noticed
  <2>7. RoundInv'
    BY <2>1, <2>3, <2>4, <2>6 DEF RoundInv
  <2>8. QED
    BY <1>5, <2>2, <2>7 DEF SwitchInv
<1>9. CASE loop.left \ {a} # {}
  <2>1. /\ loop'.step = "status" /\ loop'.latest = loop.latest /\ loop'.left = loop.left \ {a}
        /\ failed' = failed
    BY <1>9 DEF PollReport
  <2>2. LoopInv'
    BY <1>1, <1>2, <2>1 DEF LoopInv
  <2>3. \A b \in known' \ loop'.left : Overdue(b)' => Noticed(b)'
    BY <1>2, <1>6, <2>1
  <2>4. RoundInv'
    BY <1>1, <1>7, <2>1, <2>3 DEF RoundInv
  <2>5. QED
    BY <1>5, <2>2, <2>4 DEF SwitchInv
<1>10. QED
  BY <1>8, <1>9

----------------------------------------------------------------------------
(* The thread of GET /watchdog: it only ever marks a loss.                 *)

LEMMA ReaderKeeps ==
  ASSUME SwitchInv,
         \/ GetLatest \/ GetSnapshot \/ (\E a \in Agents : GetCheck(a))
         \/ GetMark \/ GetCount \/ GetAssess
  PROVE  SwitchInv'
<1>1. AgentsInv /\ LoopInv /\ ReaderInv /\ RoundInv
  BY DEF SwitchInv
<1>2. UNCHANGED <<clock, known, last, reported, said, intrusion, loop, failed>>
  BY DEF GetLatest, GetSnapshot, GetCheck, GetMark, GetCount, GetAssess, Reading
<1>3. \/ UNCHANGED state
      \/ reader.step = "mark" /\ state' = [state EXCEPT ![reader.agent] = "TELEMETRY_LOSS"]
  BY DEF GetLatest, GetSnapshot, GetCheck, GetMark, GetCount, GetAssess
<1>4. /\ state' \in [Agents -> States]
      /\ \A b \in Agents : state[b] = "TELEMETRY_LOSS" => state'[b] = "TELEMETRY_LOSS"
  BY <1>1, <1>3 DEF AgentsInv, States
<1>5. ReaderInv'
  <2>1. CASE GetLatest
    BY <2>1 DEF GetLatest, Reading, ReaderInv
  <2>2. CASE GetSnapshot
    <3>1. clock \in 0..clock
      BY <1>1, WatchdogAssumption DEF AgentsInv
    <3>2. QED
      BY <1>2, <2>2, <3>1 DEF GetSnapshot, Reading, ReaderInv, Idle
  <2>3. CASE \E a \in Agents : GetCheck(a)
    BY <1>1, <1>2, <2>3 DEF GetCheck, Reading, ReaderInv, Idle, At
  <2>4. CASE GetMark
    BY <1>1, <1>2, <2>4 DEF GetMark, Reading, ReaderInv, At
  <2>5. CASE GetCount
    BY <1>1, <1>2, <2>5 DEF GetCount, Reading, ReaderInv, Idle, At, NextAgent
  <2>6. CASE GetAssess
    BY <1>1, <1>2, <2>6 DEF GetAssess, Reading, ReaderInv, Idle, At, NextAgent
  <2>7. QED
    BY <2>1, <2>2, <2>3, <2>4, <2>5, <2>6
<1>6. AgentsInv' /\ LoopInv'
  BY <1>1, <1>2, <1>4 DEF AgentsInv, LoopInv, Disposition
<1>7. RoundInv'
  <2>1. LossNoticedInTime'
    BY <1>1, <1>2, <1>4 DEF AgentsInv, RoundInv, LossNoticedInTime
  <2>2. \A b \in known : /\ (Overdue(b)' <=> Overdue(b)) /\ (LongOverdue(b)' <=> LongOverdue(b))
                         /\ (Noticed(b) => Noticed(b)')
    BY <1>1, <1>2, <1>4 DEF AgentsInv, Overdue, LongOverdue, Noticed
  <2>3. loop.step = "report" => (Overdue(loop.agent)' => state'[loop'.agent] = "TELEMETRY_LOSS")
    <3>1. loop.step = "report" => loop.agent \in known /\ loop.agent \in Agents
      BY <1>1 DEF LoopInv, AgentsInv
    <3>2. QED
      BY <1>1, <1>2, <1>4, <3>1 DEF RoundInv, Overdue
  <2>4. QED
    BY <1>1, <1>2, <2>1, <2>2, <2>3 DEF RoundInv
<1>8. QED
  BY <1>5, <1>6, <1>7 DEF SwitchInv

----------------------------------------------------------------------------
(* The surroundings.                                                       *)

LEMMA IntrudeKeeps ==
  ASSUME SwitchInv, Intrude
  PROVE  SwitchInv'
<1>1. AgentsInv /\ LoopInv /\ ReaderInv /\ RoundInv
  BY DEF SwitchInv
<1>2. intrusion' = clock /\ UNCHANGED <<clock, known, state, last, reported, said, loop, failed, reader>>
  BY DEF Intrude, agentVars
<1>3. clock \in 0..clock
  BY <1>1, WatchdogAssumption DEF AgentsInv
<1>4. AgentsInv' /\ LoopInv' /\ ReaderInv'
  BY <1>1, <1>2, <1>3 DEF AgentsInv, LoopInv, ReaderInv, Disposition
<1>5. RoundInv'
  BY <1>1, <1>2 DEF RoundInv, LossNoticedInTime, Overdue, LongOverdue, Noticed
<1>6. QED
  BY <1>4, <1>5 DEF SwitchInv

\* A tick comes when the round is over: what is late by more than the limit
\* now was due before.
LEMMA TickKeeps ==
  ASSUME SwitchInv, Tick
  PROVE  SwitchInv'
<1> USE WatchdogAssumption
<1>1. AgentsInv /\ LoopInv /\ ReaderInv /\ RoundInv
  BY DEF SwitchInv
<1>2. /\ clock < MaxClock /\ clock' = clock + 1 /\ loop = Asleep
      /\ UNCHANGED <<known, state, last, reported, said, intrusion, failed, reader>>
  BY DEF Tick, agentVars
<1>3. loop.step = "sleep" /\ loop.polled
  BY <1>2 DEF Asleep
<1>4. loop'.step = "sleep" /\ ~loop'.polled
  BY DEF Tick, Asleep
<1>5. clock \in Nat /\ clock' \in 0..MaxClock /\ 0..clock \subseteq 0..clock'
  BY <1>1, <1>2 DEF AgentsInv
<1>6. AgentsInv'
  BY <1>1, <1>2, <1>5 DEF AgentsInv
<1>7. LoopInv' /\ ReaderInv'
  BY <1>1, <1>2, <1>4, <1>5 DEF LoopInv, ReaderInv
<1>8. LossNoticedInTime'
  <2> SUFFICES ASSUME NEW b \in known', clock' - last'[b] > Limit + failed
               PROVE  state'[b] = "TELEMETRY_LOSS" /\ reported'[b] = "TELEMETRY_LOSS"
    BY <1>2 DEF LossNoticedInTime
  <2>1. b \in known /\ last[b] \in 0..clock
    BY <1>1, <1>2 DEF AgentsInv
  <2>2. LongOverdue(b)
    <3>1. clock' = clock + 1 /\ last'[b] = last[b] /\ last[b] \in Nat /\ last[b] <= clock
      BY <1>2, <1>5, <2>1
    <3>2. QED
      BY <1>1, <1>5, <3>1, LimitPositive DEF LongOverdue, RoundInv
  <2>3. Noticed(b)
    BY <1>1, <1>3, <2>1, <2>2 DEF RoundInv
  <2>4. QED
    BY <1>2, <2>3 DEF Noticed
<1>9. RoundInv'
  BY <1>1, <1>2, <1>4, <1>8 DEF RoundInv
<1>10. QED
  BY <1>6, <1>7, <1>9 DEF SwitchInv

LEMMA RestartKeeps ==
  ASSUME SwitchInv, Restart
  PROVE  SwitchInv'
<1>1. AgentsInv /\ clock \in Nat
  BY WatchdogAssumption DEF SwitchInv, AgentsInv
<1>2. AgentsInv'
  BY <1>1 DEF Restart, AgentsInv, Whole, Broadcasts, States, Dispositions
<1>3. LoopInv' /\ ReaderInv'
  BY DEF Restart, LoopInv, ReaderInv, Asleep, Idle
<1>4. RoundInv'
  BY DEF Restart, RoundInv, LossNoticedInTime, Asleep
<1>5. QED
  BY <1>2, <1>3, <1>4 DEF SwitchInv

----------------------------------------------------------------------------
(* The theorems.                                                           *)

\* The inductive invariant of the dead-man's switch: a round under way has
\* noticed every agent it is done with, and its evidence is not stale.
THEOREM SwitchAlways == Spec => []SwitchInv
<1>1. ASSUME SwitchInv, UNCHANGED vars PROVE SwitchInv'
  <2>1. AgentsInv' /\ LoopInv' /\ ReaderInv'
    BY <1>1 DEF SwitchInv, AgentsInv, LoopInv, ReaderInv, Disposition, vars, agentVars
  <2>2. RoundInv'
    BY <1>1 DEF SwitchInv, RoundInv, LossNoticedInTime, Overdue, LongOverdue, Noticed, vars, agentVars
  <2>3. QED
    BY <2>1, <2>2 DEF SwitchInv
<1>2. ASSUME SwitchInv, Next PROVE SwitchInv'
  BY <1>2, RecordKeeps, LoopReadKeeps, LoopFailsKeeps, PollStatusKeeps, PollReportKeeps, ReaderKeeps, IntrudeKeeps,
     TickKeeps, RestartKeeps DEF Next
<1>3. QED
  BY <1>1, <1>2, InitSwitch, PTL DEF Spec

\* Types, for any number of agents and any clock.
THEOREM SwitchTypeCorrect == Spec => []TypeOK
<1>1. ASSUME SwitchInv PROVE TypeOK
  <2>1. /\ clock \in 0..MaxClock
        /\ known \subseteq Agents
        /\ state \in [Agents -> States]
        /\ last \in [Agents -> 0..clock]
        /\ reported \in [Agents -> States]
        /\ said \in [Agents -> [state: States, disposition: Dispositions]]
        /\ \A a \in Agents : (said[a].state = "TELEMETRY_LOSS") <=> (said[a].disposition # "none")
        /\ intrusion \in 0..clock \cup {None}
    BY <1>1 DEF SwitchInv, AgentsInv, Whole, Broadcasts
  <2>2. /\ loop.step \in {"sleep", "status", "report"}
        /\ failed \in Nat
        /\ loop.step # "sleep" => loop.left \subseteq known /\ loop.latest \in 0..clock \cup {None}
    BY <1>1 DEF SwitchInv, LoopInv, RoundInv
  <2>3. /\ reader.step \in {"idle", "snapshot", "check", "mark", "count", "assess"}
        /\ reader.step \in {"check", "mark", "count", "assess"} =>
             reader.now <= clock /\ reader.left \subseteq reader.keys /\ reader.keys \subseteq known
    BY <1>1 DEF SwitchInv, ReaderInv, Idle
  <2>4. QED
    BY <2>1, <2>2, <2>3 DEF TypeOK
<1>2. QED
  BY <1>1, SwitchAlways, PTL

\* No interleaving of beats, rounds, readers and restarts hides a silent agent
\* from the evaluator of _watchdog_loop, whatever interval and limit are set.
THEOREM LossAlwaysNoticed == Spec => []LossNoticedInTime
<1>1. SwitchInv => LossNoticedInTime
  BY DEF SwitchInv, RoundInv
<1>2. QED
  BY <1>1, SwitchAlways, PTL

\* A loss is broadcast as a candidate Category (ii) just when there was an
\* intrusion within the window, although the round reads the evidence before it
\* goes over the agents and broadcasts what it built before.
THEOREM DispositionsJustified == Spec => DispositionJustified
<1> USE WatchdogAssumption
<1>1. ASSUME SwitchInv, Next, NEW a \in Agents, said'[a] # said[a]
      PROVE  /\ said'[a].disposition = "candidate_category_ii" => Recent
             /\ said'[a].disposition = "operational_warning" => ~Recent \/ intrusion = clock
  <2>1. CASE \E b \in Agents : PollReport(b)
    <3>1. PICK b \in Agents : PollReport(b)
      BY <2>1
    <3>2. said'[a] = loop.out /\ loop.step = "report"
      BY <1>1, <3>1 DEF PollReport, SwitchInv, AgentsInv
    <3>3. /\ loop.out.disposition \in {"none", Disposition(loop.latest, clock)}
          /\ loop.latest \in 0..clock \union {None}
          /\ loop.latest = intrusion \/ intrusion = clock
      BY <1>1, <3>2 DEF SwitchInv, LoopInv
    <3>4. clock \in Nat /\ None # clock
      BY <1>1 DEF SwitchInv, AgentsInv
    <3>5. CASE intrusion = clock
      BY <3>4, <3>5 DEF Recent
    <3>6. CASE loop.latest = intrusion
      BY <3>2, <3>3, <3>6 DEF Recent, Disposition
    <3>7. QED
      BY <3>3, <3>5, <3>6
  <2>2. CASE Restart
    <3>1. said'[a].disposition = "none"
      BY <2>2 DEF Restart
    <3>2. QED
      BY <3>1
  <2>3. CASE UNCHANGED said
    BY <1>1, <2>3
  <2>4. QED
    BY <1>1, <2>1, <2>2, <2>3
       DEF Next, Record, PollStatus, GetCheck, LoopRead, LoopFails, GetLatest, GetSnapshot, GetMark, GetCount,
           GetAssess, Reading, Intrude, Tick
<1>2. SwitchInv /\ [Next]_vars =>
        [\A a \in Agents : said'[a] # said[a] =>
           /\ said'[a].disposition = "candidate_category_ii" => Recent
           /\ said'[a].disposition = "operational_warning" => ~Recent \/ intrusion = clock]_vars
  BY <1>1
<1>3. QED
  BY <1>2, SwitchAlways, PTL DEF Spec, DispositionJustified
=============================================================================
