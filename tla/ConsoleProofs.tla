--------------------------- MODULE ConsoleProofs ---------------------------
(***************************************************************************)
(* Whatever the events, whatever is mounted and however many timers are    *)
(* pending: the stage stays consistent, the verdict an audit comes to is   *)
(* the right one for what was audited, and therefore what the cards say,   *)
(* but for what is scripted, agrees.                                       *)
(***************************************************************************)
EXTENDS Console, TLAPS

StageInv == StageTypeOK /\ StageConsistent

\* The handlers of the stage keep its invariant, one by one (App.jsx:76-122).
LEMMA StepKeepsStage ==
  ASSUME NEW n \in Steps, HandleStageStep(n)
  PROVE  StageInv'
<1>1. n \in {1, 2, 3, 4, 5}
  BY DEF Steps
<1>2. StageTypeOK'
  BY <1>1 DEF HandleStageStep, StageTypeOK, Steps, NodeStates
<1>3. StageConsistent'
  <2>1. HostKilled' <=> n > 2
    BY <1>1 DEF HandleStageStep, HostKilled
  <2>2. watchdogState' = "SUSPECTED_COMPROMISE" <=> n > 2
    BY DEF HandleStageStep
  <2>3. primaryNodeState' = "COMPROMISED" <=> n = 2
    BY DEF HandleStageStep
  <2>4. currentStep' = n /\ (n # 1 => n > 1) /\ (n > 2 <=> n \in 3..5)
    BY <1>1 DEF HandleStageStep
  <2>5. isSlaActive' <=> n > 1
    BY DEF HandleStageStep
  <2>6. QED
    BY <2>1, <2>2, <2>3, <2>4, <2>5 DEF StageConsistent
<1>4. QED
  BY <1>2, <1>3 DEF StageInv

LEMMA ToggleKeepsStage ==
  ASSUME StageInv, HandleToggleHostState
  PROVE  StageInv'
<1>1. CASE Revive
  BY <1>1 DEF Revive, StageInv, StageTypeOK, StageConsistent, Steps, NodeStates, HostKilled
<1>2. CASE Kill
  <2>1. StageTypeOK'
    BY <1>2 DEF Kill, StageInv, StageTypeOK, Steps, NodeStates
  <2>2. StageConsistent'
    BY <1>2 DEF Kill, StageConsistent, HostKilled
  <2>3. QED
    BY <2>1, <2>2 DEF StageInv
<1>3. QED
  BY <1>1, <1>2 DEF HandleToggleHostState

LEMMA ReportKeepsStage ==
  ASSUME StageInv, OpenReport \/ CloseReport
  PROVE  StageInv'
<1>1. isReportModalOpen' \in BOOLEAN
  BY DEF OpenReport, CloseReport
<1>2. UNCHANGED <<currentStep, isSlaActive, primaryNodeState, watchdogState>>
  BY DEF OpenReport, CloseReport
<1>3. QED
  BY <1>1, <1>2 DEF StageInv, StageTypeOK, StageConsistent, HostKilled

LEMMA UnchangedKeepsStage ==
  ASSUME StageInv, UNCHANGED stage
  PROVE  StageInv'
BY DEF stage, StageInv, StageTypeOK, StageConsistent, Steps, NodeStates, HostKilled

\* Of a console's actions, five move the stage.
LEMMA NextKeepsStage ==
  ASSUME StageInv, [Next]_vars
  PROVE  StageInv'
<1>1. ASSUME NEW n \in Steps, PressStep(n)
      PROVE  StageInv'
  BY <1>1, StepKeepsStage DEF PressStep
<1>2. CASE PressToggleHost
  BY <1>2, ToggleKeepsStage DEF PressToggleHost
<1>3. CASE PressReport
  BY <1>3, ReportKeepsStage DEF PressReport
<1>4. CASE PressCloseReport
  BY <1>4, ReportKeepsStage DEF PressCloseReport
<1>5. CASE Reload
  <2>1. HandleStageStep(1) /\ 1 \in Steps
    BY <1>5 DEF Reload, HandleResetStage, Steps
  <2>2. QED
    BY <2>1, StepKeepsStage
<1>6. CASE UNCHANGED stage
  BY <1>6, UnchangedKeepsStage
<1>7. CASE PressForm \/ PressMask \/ PressCopy
  BY <1>7, <1>6 DEF PressForm, PressMask, PressCopy
<1>8. CASE PressAudit \/ PressTamper \/ PressRestore
  BY <1>8, <1>6 DEF PressAudit, PressTamper, PressRestore
<1>9. ASSUME NEW tab, ChooseTab(tab)
      PROVE  StageInv'
  BY <1>9, <1>6 DEF ChooseTab
<1>10. ASSUME NEW filter, ChooseFilter(filter)
       PROVE  StageInv'
  BY <1>10, <1>6 DEF ChooseFilter
<1>11. ASSUME NEW ev, SelectEvent(ev)
       PROVE  StageInv'
  BY <1>11, <1>6 DEF SelectEvent
<1>12. ASSUME NEW i, Fire(i)
       PROVE  StageInv'
  BY <1>12, <1>6 DEF Fire
<1>13. CASE UNCHANGED vars
  BY <1>13, <1>6 DEF vars
<1>14. QED
  BY <1>1, <1>2, <1>3, <1>4, <1>5, <1>7, <1>8, <1>9, <1>10, <1>11, <1>12, <1>13 DEF Next

\* The stage's state is always of its type, and its five pieces agree with each other.
THEOREM StageAlways == Spec => []StageInv
<1>1. Init => StageInv
  <2>1. SUFFICES ASSUME StageInit
                 PROVE  StageInv
    BY DEF Init
  <2>2. StageTypeOK
    <3>1. currentStep \in Steps
      BY <2>1 DEF StageInit, Steps
    <3>2. isSlaActive \in BOOLEAN /\ isReportModalOpen \in BOOLEAN
      BY <2>1 DEF StageInit
    <3>3. QED
      BY <2>1, <3>1, <3>2 DEF StageInit, StageTypeOK, NodeStates
  <2>3. StageConsistent
    BY <2>1 DEF StageInit, StageConsistent, HostKilled
  <2>4. QED
    BY <2>2, <2>3 DEF StageInv
<1>2. StageInv /\ [Next]_vars => StageInv'
  BY NextKeepsStage
<1>3. QED
  BY <1>1, <1>2, PTL DEF Spec

----------------------------------------------------------------------------
(* The audit.                                                              *)

\* The timers of the two audits, each with what the render saw that made it, and
\* the one of the copy button.
LedgerTimer    == [delay : Nat, run : {"startVerify", "finishVerify"}, sees : BOOLEAN]
DashboardTimer == [delay : Nat, run : {"endAudit", "endTamper"}, sees : Nat]
CopyTimer      == [delay : Nat, run : {"endCopy"}, sees : {0}]
AuditTimer     == IF layout = "Ledger" THEN LedgerTimer ELSE DashboardTimer

AuditTypeOK ==
  /\ timers \in Seq(AuditTimer \union CopyTimer)
  /\ chainTampered \in BOOLEAN /\ tamperViolations \in Nat /\ verdict \in {"PASS", "FAIL"}

Damage == IF layout = "Ledger" THEN chainTampered ELSE tamperViolations > 0

\* What a timer will say when it fires.
WillSay(mounted, t) == IF mounted = "Ledger" THEN t.sees ELSE t.sees > 0

\* While nobody hurries it an audit that is under way has seen the damage as it
\* is, and when none is, the last one has told it.
Unhurried ==
  trusted =>
    /\ \A i \in DOMAIN timers : timers[i] \in AuditTimer => (WillSay(layout, timers[i]) <=> Damage)
    /\ (\E i \in DOMAIN timers : timers[i] \in AuditTimer) \/ (verdict = "FAIL" <=> Damage)

AppTold == layout = "Ledger" => (verdict = "FAIL" <=> tamperViolations = 1)

AuditInv == AuditTypeOK /\ Unhurried /\ AppTold

\* What is left when a timer has fired: every other one, and no more.
LEMMA WithoutFacts ==
  ASSUME NEW S, timers \in Seq(S), NEW i \in DOMAIN timers
  PROVE  /\ Without(i) \in Seq(S)
         /\ \A k \in DOMAIN Without(i) : \E j \in DOMAIN timers : Without(i)[k] = timers[j]
         /\ \A j \in DOMAIN timers \ {i} : \E k \in DOMAIN Without(i) : Without(i)[k] = timers[j]
<1> DEFINE n == Len(timers)
           front == SubSeq(timers, 1, i - 1)
           back  == SubSeq(timers, i + 1, n)
<1>1. n \in Nat /\ i \in 1..n /\ i \in Nat /\ DOMAIN timers = 1..n
  OBVIOUS
<1>2. front \in Seq(S) /\ Len(front) = i - 1 /\ \A k \in 1..(i - 1) : front[k] = timers[k]
  BY <1>1
<1>3. back \in Seq(S) /\ Len(back) = n - i /\ \A k \in 1..(n - i) : back[k] = timers[k + i]
  BY <1>1
<1> HIDE DEF front, back, n
<1>4. /\ front \o back \in Seq(S) /\ Len(front \o back) = n - 1
      /\ \A k \in 1..(i - 1) : (front \o back)[k] = front[k]
      /\ \A k \in i..(n - 1) : (front \o back)[k] = back[k - (i - 1)]
  <2>1. Len(front) \in Nat /\ Len(back) \in Nat /\ Len(front) + Len(back) = n - 1
    BY <1>1, <1>2, <1>3
  <2>2. \A k \in i..(n - 1) : k \in 1..(n - 1) /\ ~(k <= i - 1)
    BY <1>1
  <2>3. \A k \in 1..(i - 1) : k \in 1..(n - 1) /\ k <= i - 1
    BY <1>1
  <2>4. QED
    BY <1>2, <1>3, <2>1, <2>2, <2>3
<1>5. \A k \in i..(n - 1) : (front \o back)[k] = timers[k + 1]
  <2> SUFFICES ASSUME NEW k \in i..(n - 1) PROVE (front \o back)[k] = timers[k + 1]
    OBVIOUS
  <2>1. k - (i - 1) \in 1..(n - i) /\ (k - (i - 1)) + i = k + 1
    BY <1>1
  <2>2. QED
    BY <1>3, <1>4, <2>1
<1> DEFINE w == front \o back
<1>6. /\ w \in Seq(S) /\ DOMAIN w = 1..(n - 1)
      /\ \A k \in 1..(i - 1) : w[k] = timers[k]
      /\ \A k \in i..(n - 1) : w[k] = timers[k + 1]
  BY <1>1, <1>2, <1>4, <1>5
<1> HIDE DEF w
<1>7. ASSUME NEW k \in 1..(n - 1)
      PROVE  \E j \in 1..n : w[k] = timers[j]
  <2>1. (k \in 1..(i - 1) /\ k \in 1..n) \/ (k \in i..(n - 1) /\ k + 1 \in 1..n)
    BY <1>1
  <2>2. QED
    BY <1>6, <2>1
<1>8. ASSUME NEW j \in 1..n, j # i
      PROVE  \E k \in 1..(n - 1) : w[k] = timers[j]
  <2>1. CASE j < i
    BY <1>1, <1>6, <2>1
  <2>2. CASE j > i
    <3>1. j - 1 \in i..(n - 1) /\ j - 1 \in 1..(n - 1) /\ (j - 1) + 1 = j
      BY <1>1, <2>2
    <3>2. QED
      BY <1>6, <3>1
  <2>3. QED
    BY <1>1, <1>8, <2>1, <2>2
<1>9. w = Without(i)
  BY DEF w, front, back, n, Without
<1>10. QED
  BY <1>1, <1>6, <1>7, <1>8, <1>9

\* What is left when one has been set.
LEMMA AppendedFacts ==
  ASSUME NEW S, NEW s \in Seq(S), NEW t \in S
  PROVE  /\ Append(s, t) \in Seq(S)
         /\ Len(s) + 1 \in DOMAIN Append(s, t) /\ Append(s, t)[Len(s) + 1] = t
         /\ \A k \in DOMAIN s : k \in DOMAIN Append(s, t) /\ Append(s, t)[k] = s[k]
         /\ \A k \in DOMAIN Append(s, t) : k = Len(s) + 1 \/ k \in DOMAIN s
<1>1. Len(s) \in Nat /\ DOMAIN s = 1..Len(s)
  OBVIOUS
<1>2. /\ Append(s, t) \in Seq(S) /\ DOMAIN Append(s, t) = 1..(Len(s) + 1)
      /\ Append(s, t)[Len(s) + 1] = t /\ \A k \in 1..Len(s) : Append(s, t)[k] = s[k]
  OBVIOUS
<1>3. /\ Len(s) + 1 \in 1..(Len(s) + 1)
      /\ \A k \in 1..Len(s) : k \in 1..(Len(s) + 1)
      /\ \A k \in 1..(Len(s) + 1) : k = Len(s) + 1 \/ k \in 1..Len(s)
  BY <1>1
<1>4. QED
  BY <1>1, <1>2, <1>3

\* No audit ends with the copy button's timer.
LEMMA TimersApart ==
  ASSUME NEW t \in CopyTimer
  PROVE  t \notin AuditTimer
BY DEF CopyTimer, AuditTimer, LedgerTimer, DashboardTimer

\* A control sets a timer: it was pressed in a hurry, or it sees the damage as it is.
LEMMA SetKeepsAudit ==
  ASSUME AuditInv, layout' = layout, NEW t \in AuditTimer, timers' = Append(timers, t),
         chainTampered' \in BOOLEAN, tamperViolations' \in Nat, verdict' = verdict, AppTold',
         trusted' => timers = <<>> /\ (WillSay(layout, t) <=> Damage')
  PROVE  AuditInv'
<1>1. AuditTimer' = AuditTimer
  BY DEF AuditTimer
<1>2. timers \in Seq(AuditTimer \union CopyTimer)
  BY DEF AuditInv, AuditTypeOK
<1>3. /\ timers' \in Seq(AuditTimer \union CopyTimer)
      /\ Len(timers) + 1 \in DOMAIN timers' /\ timers'[Len(timers) + 1] = t
      /\ \A k \in DOMAIN timers' : k = Len(timers) + 1 \/ k \in DOMAIN timers
  BY <1>2, AppendedFacts
<1>4. AuditTypeOK'
  BY <1>1, <1>3 DEF AuditInv, AuditTypeOK
<1>5. ASSUME trusted'
      PROVE  /\ \A k \in DOMAIN timers' : timers'[k] \in AuditTimer' => (WillSay(layout', timers'[k]) <=> Damage')
             /\ \E k \in DOMAIN timers' : timers'[k] \in AuditTimer'
  <2>1. DOMAIN timers = {}
    BY <1>5
  <2>2. \A k \in DOMAIN timers' : timers'[k] = t
    BY <1>3, <2>1
  <2>3. WillSay(layout', t) <=> Damage'
    BY <1>5
  <2>4. QED
    BY <1>1, <1>3, <2>2, <2>3
<1>6. QED
  BY <1>4, <1>5 DEF AuditInv, Unhurried

\* An audit's timer fires and says what it saw.
LEMMA FiredKeepsAudit ==
  ASSUME AuditInv, layout' = layout, trusted' = trusted, NEW i \in DOMAIN timers,
         timers[i] \in AuditTimer, timers' = Without(i), chainTampered' = chainTampered,
         tamperViolations' \in Nat, verdict' \in {"PASS", "FAIL"}, Damage' = Damage, AppTold',
         verdict' = "FAIL" <=> WillSay(layout, timers[i])
  PROVE  AuditInv'
<1>1. AuditTimer' = AuditTimer
  BY DEF AuditTimer
<1>2. timers \in Seq(AuditTimer \union CopyTimer)
  BY DEF AuditInv, AuditTypeOK
<1>3. /\ timers' \in Seq(AuditTimer \union CopyTimer)
      /\ \A k \in DOMAIN timers' : \E j \in DOMAIN timers : timers'[k] = timers[j]
  BY <1>2, WithoutFacts
<1>4. AuditTypeOK'
  BY <1>1, <1>3 DEF AuditInv, AuditTypeOK
<1>5. ASSUME trusted'
      PROVE  /\ \A k \in DOMAIN timers' : timers'[k] \in AuditTimer' => (WillSay(layout', timers'[k]) <=> Damage')
             /\ verdict' = "FAIL" <=> Damage'
  <2>1. \A j \in DOMAIN timers : timers[j] \in AuditTimer => (WillSay(layout, timers[j]) <=> Damage)
    BY <1>5 DEF AuditInv, Unhurried
  <2>2. verdict' = "FAIL" <=> Damage'
    BY <2>1
  <2>3. \A k \in DOMAIN timers' : timers'[k] \in AuditTimer => (WillSay(layout, timers'[k]) <=> Damage)
    BY <1>3, <2>1
  <2>4. QED
    BY <1>1, <2>2, <2>3
<1>6. QED
  BY <1>4, <1>5 DEF AuditInv, Unhurried

\* The timer of the copy button comes and goes by itself.
LEMMA CopyKeepsAudit ==
  ASSUME AuditInv, UNCHANGED <<layout, audit>>,
         \/ timers' = Append(timers, [delay |-> 1500, run |-> "endCopy", sees |-> 0])
         \/ \E i \in DOMAIN timers : timers[i].run = "endCopy" /\ timers' = Without(i)
  PROVE  AuditInv'
<1>1. /\ AuditTimer' = AuditTimer /\ UNCHANGED <<chainTampered, tamperViolations, verdict, trusted>>
      /\ Damage' = Damage
  BY DEF AuditTimer, audit, Damage
<1>2. timers \in Seq(AuditTimer \union CopyTimer)
  BY DEF AuditInv, AuditTypeOK
<1>3. /\ timers' \in Seq(AuditTimer \union CopyTimer)
      /\ \A k \in DOMAIN timers' : timers'[k] \in CopyTimer \/ \E j \in DOMAIN timers : timers'[k] = timers[j]
      /\ \A j \in DOMAIN timers : timers[j] \in CopyTimer \/ \E k \in DOMAIN timers' : timers'[k] = timers[j]
  <2> DEFINE t == [delay |-> 1500, run |-> "endCopy", sees |-> 0]
  <2>1. CASE timers' = Append(timers, t)
    <3>1. t \in CopyTimer
      BY DEF CopyTimer
    <3> HIDE DEF t
    <3>2. QED
      BY <1>2, <2>1, <3>1, AppendedFacts
  <2>2. CASE \E i \in DOMAIN timers : timers[i].run = "endCopy" /\ timers' = Without(i)
    <3>1. PICK i \in DOMAIN timers : timers[i].run = "endCopy" /\ timers' = Without(i)
      BY <2>2
    <3>2. timers[i] \in AuditTimer \union CopyTimer
      BY <1>2
    <3>3. timers[i] \in CopyTimer
      BY <3>1, <3>2 DEF AuditTimer, LedgerTimer, DashboardTimer
    <3>4. QED
      BY <1>2, <3>1, <3>3, WithoutFacts
  <2>3. QED
    BY <2>1, <2>2
<1>4. AuditTypeOK' /\ AppTold'
  BY <1>1, <1>3 DEF AuditInv, AuditTypeOK, AppTold
<1>5. ASSUME trusted'
      PROVE  /\ \A k \in DOMAIN timers' : timers'[k] \in AuditTimer => (WillSay(layout', timers'[k]) <=> Damage)
             /\ (\E k \in DOMAIN timers' : timers'[k] \in AuditTimer) \/ (verdict' = "FAIL" <=> Damage)
  <2>1. /\ \A j \in DOMAIN timers : timers[j] \in AuditTimer => (WillSay(layout, timers[j]) <=> Damage)
        /\ (\E j \in DOMAIN timers : timers[j] \in AuditTimer) \/ (verdict = "FAIL" <=> Damage)
    BY <1>1, <1>5 DEF AuditInv, Unhurried
  <2>2. \A k \in DOMAIN timers' : timers'[k] \in AuditTimer => (WillSay(layout, timers'[k]) <=> Damage)
    BY <1>3, <2>1, TimersApart
  <2>3. (\E k \in DOMAIN timers' : timers'[k] \in AuditTimer) \/ (verdict' = "FAIL" <=> Damage)
    BY <1>1, <1>3, <2>1, TimersApart
  <2>4. QED
    BY <1>1, <2>2, <2>3
<1>6. QED
  BY <1>1, <1>4, <1>5 DEF AuditInv, Unhurried

\* The three controls of the audits, each set going by the handler of its component.
LEMMA PressKeepsAudit ==
  ASSUME AuditInv, PressAudit \/ PressTamper \/ PressRestore
  PROVE  AuditInv'
<1>1. /\ chainTampered \in BOOLEAN /\ tamperViolations \in Nat /\ layout' = layout /\ AppTold
  BY DEF AuditInv, AuditTypeOK, PressAudit, PressTamper, PressRestore
<1>2. CASE PressAudit /\ layout = "Ledger"
  <2> DEFINE t == Timer(400, "finishVerify", chainTampered)
  <2>1. timers' = Append(timers, t) /\ UNCHANGED <<chainTampered, verdict, tamperViolations>>
        /\ trusted' = (timers = <<>>)
    BY <1>2 DEF PressAudit, Ledger!HandleVerify, Ledger!SetTimeout, Ledger!Timer, Timer
  <2>2. t \in AuditTimer /\ (WillSay(layout, t) <=> Damage)
    BY <1>1, <1>2 DEF Timer, AuditTimer, LedgerTimer, WillSay, Damage
  <2> HIDE DEF t
  <2>3. AppTold' /\ (Damage' <=> Damage)
    BY <1>1, <2>1 DEF AppTold, Damage
  <2>4. QED
    BY <1>1, <2>1, <2>2, <2>3, SetKeepsAudit DEF AuditInv
<1>3. CASE PressAudit /\ layout # "Ledger"
  <2> DEFINE t == Timer(400, "endAudit", tamperViolations)
  <2>1. timers' = Append(timers, t) /\ UNCHANGED <<chainTampered, verdict, tamperViolations>>
        /\ trusted' = (timers = <<>>)
    BY <1>3 DEF PressAudit, Enterprise!HandleRunAudit, Enterprise!SetTimeout, Enterprise!Timer, Timer
  <2>2. t \in AuditTimer /\ (WillSay(layout, t) <=> Damage)
    BY <1>1, <1>3 DEF Timer, AuditTimer, DashboardTimer, WillSay, Damage
  <2> HIDE DEF t
  <2>3. AppTold' /\ (Damage' <=> Damage)
    BY <1>1, <2>1 DEF AppTold, Damage
  <2>4. QED
    BY <1>1, <2>1, <2>2, <2>3, SetKeepsAudit DEF AuditInv
<1>4. CASE PressTamper /\ layout = "Ledger"
  <2> DEFINE t == Timer(80, "startVerify", chainTampered)
  <2>1. timers' = Append(timers, t) /\ UNCHANGED <<verdict, tamperViolations>>
        /\ chainTampered' = TRUE /\ ~trusted'
    BY <1>4 DEF PressTamper, Ledger!HandleSimulateTamper, Ledger!SetTimeout, Ledger!Timer, Timer
  <2>2. t \in AuditTimer
    BY <1>1, <1>4 DEF Timer, AuditTimer, LedgerTimer
  <2> HIDE DEF t
  <2>3. AppTold'
    BY <1>1, <2>1 DEF AppTold
  <2>4. QED
    BY <1>1, <2>1, <2>2, <2>3, SetKeepsAudit
<1>5. CASE PressTamper /\ layout # "Ledger"
  <2> DEFINE t == Timer(150, "endTamper", tamperViolations')
  <2>1. timers' = Append(timers, t) /\ UNCHANGED <<chainTampered, verdict>>
        /\ (trusted' => timers = <<>>)
    BY <1>5 DEF PressTamper, Enterprise!HandleSimulateTamper, Enterprise!SetTimeout,
                Enterprise!Timer, Timer
  <2>2. tamperViolations' \in Nat
    BY <1>5 DEF PressTamper, Enterprise!HandleSimulateTamper
  <2>3. t \in AuditTimer /\ (WillSay(layout, t) <=> Damage')
    BY <1>1, <1>5, <2>2 DEF Timer, AuditTimer, DashboardTimer, WillSay, Damage
  <2> HIDE DEF t
  <2>4. AppTold'
    BY <1>1, <1>5 DEF AppTold
  <2>5. PICK u : u = t
    OBVIOUS
  <2>6. QED
    BY <1>1, <2>1, <2>2, <2>3, <2>4, <2>5, SetKeepsAudit
<1>6. CASE PressRestore
  <2>1. /\ chainTampered' = FALSE /\ verdict' = "PASS" /\ tamperViolations' = 0
        /\ timers' = timers /\ trusted' = (timers = <<>>)
    BY <1>6 DEF PressRestore, Ledger!HandleResetChain
  <2>2. AuditTypeOK' /\ AppTold'
    <3>1. AuditTimer' = AuditTimer
      BY <1>1 DEF AuditTimer
    <3>2. timers' \in Seq(AuditTimer' \union CopyTimer)
      BY <2>1, <3>1 DEF AuditInv, AuditTypeOK
    <3>3. chainTampered' \in BOOLEAN
      BY <2>1
    <3>4. AuditTypeOK'
      BY <2>1, <3>2, <3>3 DEF AuditTypeOK
    <3>5. AppTold'
      BY <2>1 DEF AppTold
    <3>6. QED
      BY <3>4, <3>5
  <2>3. ~Damage' /\ verdict' # "FAIL"
    BY <2>1 DEF Damage
  <2>4. ASSUME trusted' PROVE DOMAIN timers' = {}
    <3>1. timers' = <<>>
      BY <2>1, <2>4
    <3>2. QED
      BY <3>1
  <2>5. QED
    BY <2>2, <2>3, <2>4 DEF AuditInv, Unhurried
<1>7. QED
  BY <1>2, <1>3, <1>4, <1>5, <1>6

\* The five timers: only the ledger's first one sets another.
LEMMA FireKeepsAudit ==
  ASSUME AuditInv, NEW i \in DOMAIN timers, Fire(i)
  PROVE  AuditInv'
<1>1. /\ timers \in Seq(AuditTimer \union CopyTimer) /\ timers[i] \in AuditTimer \union CopyTimer
      /\ chainTampered \in BOOLEAN /\ tamperViolations \in Nat /\ verdict \in {"PASS", "FAIL"}
      /\ layout' = layout /\ trusted' = trusted /\ AppTold
  BY DEF AuditInv, AuditTypeOK, Fire
<1>2. Ledger!Without(i) = Without(i) /\ Enterprise!Without(i) = Without(i) /\ Minimal!Without(i) = Without(i)
  BY DEF Ledger!Without, Enterprise!Without, Minimal!Without, Without
<1>3. CASE Ledger!StartVerify(i)
  <2> DEFINE t == Timer(400, "finishVerify", timers[i].sees)
  <2>1. /\ timers' = Append(Without(i), t) /\ timers[i].run = "startVerify"
        /\ UNCHANGED <<chainTampered, verdict, tamperViolations>>
    BY <1>2, <1>3 DEF Ledger!StartVerify, Ledger!Timer, Timer
  <2>2. layout = "Ledger" /\ timers[i] \in AuditTimer /\ timers[i].sees \in BOOLEAN
    BY <1>1, <2>1 DEF AuditTimer, LedgerTimer, DashboardTimer, CopyTimer
  <2>3. t \in AuditTimer /\ (WillSay(layout, t) <=> WillSay(layout, timers[i]))
    BY <2>2 DEF Timer, AuditTimer, LedgerTimer, WillSay
  <2> HIDE DEF t
  <2>4. /\ Without(i) \in Seq(AuditTimer \union CopyTimer)
        /\ \A k \in DOMAIN Without(i) : \E j \in DOMAIN timers : Without(i)[k] = timers[j]
    BY <1>1, WithoutFacts
  <2> DEFINE w == Without(i)
  <2> HIDE DEF w
  <2>5. /\ w \in Seq(AuditTimer \union CopyTimer)
        /\ \A k \in DOMAIN w : \E j \in DOMAIN timers : w[k] = timers[j]
        /\ timers' = Append(w, t)
    BY <2>1, <2>4 DEF w
  <2>6. /\ timers' \in Seq(AuditTimer \union CopyTimer)
        /\ \E k \in DOMAIN timers' : timers'[k] = t
        /\ \A k \in DOMAIN timers' : timers'[k] = t \/ \E j \in DOMAIN timers : timers'[k] = timers[j]
    BY <2>3, <2>5, AppendedFacts
  <2>7. AuditTimer' = AuditTimer /\ (Damage' <=> Damage)
    BY <1>1, <2>1 DEF AuditTimer, Damage
  <2>8. AuditTypeOK' /\ AppTold'
    BY <1>1, <2>1, <2>6, <2>7 DEF AuditTypeOK, AppTold
  <2>9. ASSUME trusted'
        PROVE  \A k \in DOMAIN timers' : timers'[k] \in AuditTimer => (WillSay(layout', timers'[k]) <=> Damage)
    <3>1. \A j \in DOMAIN timers : timers[j] \in AuditTimer => (WillSay(layout, timers[j]) <=> Damage)
      BY <1>1, <2>9 DEF AuditInv, Unhurried
    <3>2. \A k \in DOMAIN timers' : timers'[k] \in AuditTimer => (WillSay(layout, timers'[k]) <=> Damage)
      BY <2>2, <2>3, <2>6, <3>1
    <3>3. QED
      BY <1>1, <3>2
  <2>10. QED
    BY <2>3, <2>6, <2>7, <2>8, <2>9 DEF AuditInv, Unhurried
<1>4. CASE Ledger!FinishVerify(i)
  <2>1. /\ timers' = Without(i) /\ timers[i].run = "finishVerify" /\ chainTampered' = chainTampered
        /\ verdict' = (IF timers[i].sees THEN "FAIL" ELSE "PASS")
        /\ tamperViolations' = (IF timers[i].sees THEN 1 ELSE 0)
    BY <1>2, <1>4 DEF Ledger!FinishVerify
  <2>2. layout = "Ledger" /\ timers[i] \in AuditTimer /\ timers[i].sees \in BOOLEAN
    BY <1>1, <2>1 DEF AuditTimer, LedgerTimer, DashboardTimer, CopyTimer
  <2>3. Damage' = Damage /\ (verdict' = "FAIL" <=> WillSay(layout, timers[i]))
    BY <1>1, <2>1, <2>2 DEF Damage, WillSay
  <2>4. tamperViolations' \in Nat /\ verdict' \in {"PASS", "FAIL"} /\ AppTold'
    BY <2>1 DEF AppTold
  <2>5. QED
    BY <1>1, <2>1, <2>2, <2>3, <2>4, FiredKeepsAudit
<1>5. CASE (Enterprise!EndAudit(i) \/ Enterprise!EndTamper(i)) /\ UNCHANGED chainTampered
  <2>1. /\ timers' = Without(i) /\ timers[i].run \in {"endAudit", "endTamper"}
        /\ UNCHANGED <<chainTampered, tamperViolations>>
        /\ verdict' = (IF timers[i].sees > 0 THEN "FAIL" ELSE "PASS")
    BY <1>2, <1>5 DEF Enterprise!EndAudit, Enterprise!EndTamper
  <2>2. layout # "Ledger" /\ timers[i] \in AuditTimer
    BY <1>1, <2>1 DEF AuditTimer, LedgerTimer, DashboardTimer, CopyTimer
  <2>3. Damage' = Damage /\ (verdict' = "FAIL" <=> WillSay(layout, timers[i]))
    BY <1>1, <2>1, <2>2 DEF Damage, WillSay
  <2>4. tamperViolations' \in Nat /\ verdict' \in {"PASS", "FAIL"} /\ AppTold'
    BY <1>1, <2>1, <2>2 DEF AppTold
  <2>5. QED
    BY <1>1, <2>1, <2>2, <2>3, <2>4, FiredKeepsAudit
<1>6. CASE Minimal!EndCopy(i) /\ UNCHANGED <<verifying, verdict, chainTampered, tamperViolations>>
  <2>1. UNCHANGED <<layout, audit>> /\ timers[i].run = "endCopy" /\ timers' = Without(i)
    BY <1>1, <1>2, <1>6 DEF audit, Minimal!EndCopy
  <2>2. QED
    BY <2>1, CopyKeepsAudit
<1>7. QED
  BY <1>3, <1>4, <1>5, <1>6 DEF Fire

\* No other action touches an audit, but a reload, which forgets it.
LEMMA NextKeepsAudit ==
  ASSUME AuditInv, [Next]_vars
  PROVE  AuditInv'
<1>1. CASE PressAudit \/ PressTamper \/ PressRestore
  BY <1>1, PressKeepsAudit
<1>2. ASSUME NEW i \in DOMAIN timers, Fire(i) PROVE AuditInv'
  BY <1>2, FireKeepsAudit
<1>3. CASE PressCopy
  <2>1. UNCHANGED <<layout, audit>>
        /\ timers' = Append(timers, [delay |-> 1500, run |-> "endCopy", sees |-> 0])
    BY <1>3 DEF PressCopy, Minimal!HandleCopyHash, Minimal!SetTimeout, Minimal!Timer
  <2>2. QED
    BY <2>1, CopyKeepsAudit
<1>4. CASE Reload
  <2>1. /\ timers' = <<>> /\ verdict' = "PASS" /\ chainTampered' = FALSE /\ tamperViolations' = 0
    BY <1>4 DEF Reload
  <2>2. AuditTypeOK'
    <3>1. timers' \in Seq(AuditTimer' \union CopyTimer)
      BY <2>1
    <3>2. chainTampered' \in BOOLEAN
      BY <2>1
    <3>3. QED
      BY <2>1, <3>1, <3>2 DEF AuditTypeOK
  <2>3. AppTold'
    BY <2>1 DEF AppTold
  <2>4. ~Damage' /\ verdict' # "FAIL"
    BY <2>1 DEF Damage
  <2>5. DOMAIN timers' = {}
    BY <2>1
  <2>6. QED
    BY <2>2, <2>3, <2>4, <2>5 DEF AuditInv, Unhurried
<1>5. CASE UNCHANGED <<layout, timers, audit>>
  <2>1. UNCHANGED <<layout, timers, verdict, chainTampered, tamperViolations, trusted>>
    BY <1>5 DEF audit
  <2>2. QED
    BY <2>1 DEF AuditInv, AuditTypeOK, AuditTimer, Unhurried, AppTold, Damage
<1>6. CASE PressToggleHost \/ PressReport \/ PressCloseReport \/ PressForm \/ PressMask
  BY <1>5, <1>6 DEF PressToggleHost, PressReport, PressCloseReport, PressForm, PressMask
<1>7. ASSUME NEW n, PressStep(n) \/ ChooseTab(n) \/ ChooseFilter(n) \/ SelectEvent(n) PROVE AuditInv'
  BY <1>5, <1>7 DEF PressStep, ChooseTab, ChooseFilter, SelectEvent
<1>8. CASE UNCHANGED vars
  BY <1>5, <1>8 DEF vars
<1>9. QED
  BY <1>1, <1>2, <1>3, <1>4, <1>6, <1>7, <1>8 DEF Next

\* No audit is under way when the page is loaded, and there is no damage.
LEMMA InitAudit == Init => AuditInv
<1> SUFFICES ASSUME Init
             PROVE  AuditInv
  OBVIOUS
<1>1. timers = <<>> /\ verdict = "PASS" /\ chainTampered = FALSE /\ tamperViolations = 0
  BY DEF Init
<1>2. AuditTypeOK
  <2>1. timers \in Seq(AuditTimer \union CopyTimer)
    BY <1>1
  <2>2. chainTampered \in BOOLEAN
    BY <1>1
  <2>3. QED
    BY <1>1, <2>1, <2>2 DEF AuditTypeOK
<1>3. AppTold
  BY <1>1 DEF AppTold
<1>4. ~Damage /\ verdict # "FAIL"
  BY <1>1 DEF Damage
<1>5. DOMAIN timers = {}
  BY <1>1
<1>6. QED
  BY <1>2, <1>3, <1>4, <1>5 DEF AuditInv, Unhurried

\* A verdict of either audit is that of the records once its timers are done, and
\* the ledger's is the one App was told, however many timers are pending at a time:
\* unless a control was pressed while one was, or the damage is the ledger's own
\* Simulate Tamper (`trusted`).
THEOREM VerdictAlwaysRight == Spec => []VerdictRight
<1>1. AuditInv => VerdictRight
  <2> SUFFICES ASSUME AuditInv PROVE VerdictRight
    OBVIOUS
  <2>1. trusted /\ timers = <<>> => (verdict = "FAIL" <=> Damage)
    BY DEF AuditInv, Unhurried
  <2>2. QED
    BY <2>1 DEF VerdictRight, AuditInv, AppTold, Damage
<1>2. QED
  BY <1>1, InitAudit, NextKeepsAudit, PTL DEF Spec

----------------------------------------------------------------------------
(* What the cards say.                                                     *)

Settled  == trusted /\ timers = <<>>
Subjects == {"host", "attack", "switch", "clock"} \union (IF Settled THEN {"evidence"} ELSE {})

\* What there is to say of a subject.
Fact(subject) ==
  CASE subject = "host"     -> IF HostKilled THEN "down" ELSE "up"
    [] subject = "attack"   -> IF primaryNodeState = "COMPROMISED" THEN "yes" ELSE "no"
    [] subject = "switch"   -> IF watchdogState = "SUSPECTED_COMPROMISE" THEN "fired" ELSE "armed"
    [] subject = "clock"    -> IF isSlaActive THEN "on" ELSE "off"
    [] subject = "evidence" -> IF Damage THEN "damaged" ELSE "intact"

Honest(says) ==
  \A t \in says : ~t.scripted /\ t.about \in Subjects => t.is = Fact(t.about)

LEMMA FactsOfStage ==
  /\ Fact("host") = IF HostKilled THEN "down" ELSE "up"
  /\ Fact("attack") = IF primaryNodeState = "COMPROMISED" THEN "yes" ELSE "no"
  /\ Fact("switch") = IF watchdogState = "SUSPECTED_COMPROMISE" THEN "fired" ELSE "armed"
  /\ Fact("clock") = IF isSlaActive THEN "on" ELSE "off"
  /\ Fact("evidence") = IF Damage THEN "damaged" ELSE "intact"
BY DEF Fact

LEMMA SaidHonestly ==
  ASSUME NEW subject, NEW value, subject \in Subjects => value = Fact(subject)
  PROVE  Honest(Says(subject, value))
BY DEF Honest, Says

LEMMA ScriptedHonest ==
  ASSUME NEW subject, NEW value
  PROVE  Honest(Scripted(subject, value))
BY DEF Honest, Scripted

LEMMA HonestTogether ==
  ASSUME NEW S, NEW T, Honest(S), Honest(T)
  PROVE  Honest(S \union T)
BY DEF Honest

LEMMA NothingHonest == Honest({})
BY DEF Honest

\* How a consistent stage looks to every dashboard.
LEMMA StageLook ==
  ASSUME StageInv
  PROVE  /\ currentStep \in {1, 2, 3, 4, 5}
         /\ HostKilled <=> currentStep \in {3, 4, 5}
         /\ HostKilled <=> watchdogState = "SUSPECTED_COMPROMISE"
         /\ primaryNodeState = "COMPROMISED" <=> currentStep = 2
         /\ currentStep # 1 => isSlaActive
BY DEF StageInv, StageTypeOK, StageConsistent, Steps

\* The statements the dashboards share, each honest by itself.
LEMMA StatementsHonest ==
  ASSUME StageInv
  PROVE  /\ Honest(Says("host", IF HostKilled THEN "down" ELSE "up"))
         /\ Honest(Says("switch", IF HostKilled THEN "fired" ELSE "armed"))
         /\ Honest(Says("clock", IF isSlaActive THEN "on" ELSE "off"))
         /\ Honest(Says("switch", IF watchdogState = "SUSPECTED_COMPROMISE" THEN "fired" ELSE "armed"))
         /\ Honest(Says("attack", IF primaryNodeState = "COMPROMISED" THEN "yes" ELSE "no"))
         /\ HostKilled => Honest(Says("host", "down")) /\ Honest(Says("switch", "fired"))
         /\ currentStep = 1 => Honest(Says("host", "up")) /\ Honest(Says("attack", "no"))
         /\ currentStep = 2 => Honest(Says("attack", "yes")) /\ Honest(Says("clock", "on"))
         /\ \A v : Honest(Says("masking", v)) /\ Honest(Says("event", v)) /\ Honest(Says("step", v))
<1>1. /\ HostKilled <=> watchdogState = "SUSPECTED_COMPROMISE"
      /\ HostKilled <=> currentStep \in {3, 4, 5}
      /\ primaryNodeState = "COMPROMISED" <=> currentStep = 2
      /\ currentStep # 1 => isSlaActive
  BY StageLook
<1>2. "masking" \notin Subjects /\ "event" \notin Subjects /\ "step" \notin Subjects
  BY DEF Subjects
<1>3. QED
  BY <1>1, <1>2, FactsOfStage, SaidHonestly

\* Once an audit is settled its verdict is that of the records.
LEMMA VerdictHonest ==
  ASSUME AuditInv
  PROVE  Honest(Says("evidence", IF verdict = "PASS" THEN "intact" ELSE "damaged"))
<1>1. ASSUME Settled
      PROVE  verdict = "FAIL" <=> Damage
  <2>1. DOMAIN timers = {}
    BY <1>1 DEF Settled
  <2>2. QED
    BY <1>1, <2>1 DEF Settled, AuditInv, Unhurried
<1>2. verdict \in {"PASS", "FAIL"}
  BY DEF AuditInv, AuditTypeOK
<1>3. ASSUME "evidence" \in Subjects
      PROVE  (IF verdict = "PASS" THEN "intact" ELSE "damaged") = Fact("evidence")
  <2>1. Settled
    BY <1>3 DEF Subjects
  <2>2. QED
    BY <1>1, <1>2, <2>1, FactsOfStage
<1>4. QED
  BY <1>3, SaidHonestly

LEMMA CountHonest ==
  ASSUME layout # "Ledger"
  PROVE  Honest(Says("evidence", IF tamperViolations > 0 THEN "damaged" ELSE "intact"))
<1>1. (IF tamperViolations > 0 THEN "damaged" ELSE "intact") = Fact("evidence")
  BY FactsOfStage DEF Damage
<1>2. QED
  BY <1>1, SaidHonestly

LEMMA EnterpriseHonest ==
  ASSUME StageInv, AuditInv, layout = "Enterprise"
  PROVE  Honest(SaidBy(Enterprise!Cards))
<1>1. /\ \A a, v : Enterprise!Says(a, v) = Says(a, v) /\ Enterprise!Scripted(a, v) = Scripted(a, v)
      /\ \A a, v : Enterprise!Card(a, v).says = a
      /\ Enterprise!HostKilled = HostKilled
  BY DEF Enterprise!Says, Says, Enterprise!Scripted, Scripted, Enterprise!Card, Enterprise!HostKilled, HostKilled
<1>2. Honest(Enterprise!SlaCard.says)
  BY <1>1, StatementsHonest DEF Enterprise!SlaCard
<1>3. Honest(Enterprise!HostBadge) /\ Honest(Enterprise!HostPings) /\ Honest(Enterprise!Masking)
  BY <1>1, StatementsHonest DEF Enterprise!HostBadge, Enterprise!HostPings, Enterprise!Masking
<1>4. Honest(Enterprise!HostCard.says)
  BY <1>1, <1>3, HonestTogether DEF Enterprise!HostCard
<1>5. Honest(Enterprise!VaultCard.says)
  <2>1. Honest(Enterprise!ChainBadge)
    BY <1>1, CountHonest DEF Enterprise!ChainBadge
  <2>2. Honest(Enterprise!EnclaveLocked)
    BY <1>1, ScriptedHonest, NothingHonest DEF Enterprise!EnclaveLocked
  <2>3. QED
    BY <1>1, <2>1, <2>2, HonestTogether DEF Enterprise!VaultCard
<1>6. Honest(Enterprise!Sequencer.says)
  <2>1. ASSUME HostKilled PROVE Honest(Enterprise!HostLost)
    <3>1. Honest(Says("host", "down") \union Says("switch", "fired"))
      BY <2>1, StatementsHonest, HonestTogether
    <3>2. QED
      BY <1>1, <3>1, ScriptedHonest, HonestTogether DEF Enterprise!HostLost
  <2>2. CASE HostKilled
    BY <1>1, <2>1, <2>2 DEF Enterprise!Sequencer, Enterprise!Narrative
  <2>3. CASE ~HostKilled /\ currentStep = 1
    <3>1. Enterprise!Narrative = Says("host", "up") \union Says("attack", "no")
      BY <1>1, <2>3 DEF Enterprise!Narrative
    <3>2. QED
      BY <1>1, <2>3, <3>1, StatementsHonest, HonestTogether DEF Enterprise!Sequencer
  <2>4. CASE ~HostKilled /\ currentStep = 2
    <3>1. Enterprise!Narrative = Says("attack", "yes") \union Says("clock", "on")
      BY <1>1, <2>4 DEF Enterprise!Narrative
    <3>2. QED
      BY <1>1, <2>4, <3>1, StatementsHonest, HonestTogether DEF Enterprise!Sequencer
  <2>5. QED
    BY <2>2, <2>3, <2>4, StageLook
<1>7. Honest(Enterprise!ReportCard.says)
  BY <1>1, <1>3, ScriptedHonest, HonestTogether DEF Enterprise!ReportCard
<1>8. Honest(Enterprise!TabBar.says)
  BY <1>1, <1>3 DEF Enterprise!TabBar
<1>9. Honest(Enterprise!Tab.says)
  <2>1. Honest(Enterprise!Feed.says)
    BY <1>1, <1>3, StatementsHonest, HonestTogether DEF Enterprise!Feed
  <2>2. Honest(Enterprise!Vault.says)
    BY <1>1, VerdictHonest DEF Enterprise!Vault
  <2>3. Honest(Enterprise!Infra.says)
    <3>1. Honest(Enterprise!HostBadge \union Scripted("switch", "armed"))
      BY <1>3, ScriptedHonest, HonestTogether
    <3>2. QED
      BY <1>1, <3>1, ScriptedHonest, HonestTogether DEF Enterprise!Infra
  <2>4. QED
    BY <1>1, <2>1, <2>2, <2>3, NothingHonest DEF Enterprise!Tab
<1>10. QED
  BY <1>2, <1>4, <1>5, <1>6, <1>7, <1>8, <1>9 DEF Honest, SaidBy, Enterprise!Cards

LEMMA StreamlinedHonest ==
  ASSUME StageInv, AuditInv
  PROVE  Honest(SaidBy(Streamlined!Cards))
<1>1. /\ \A a, v : Streamlined!Says(a, v) = Says(a, v) /\ Streamlined!Scripted(a, v) = Scripted(a, v)
      /\ \A a, v : Streamlined!Card(a, v).says = a
      /\ Streamlined!HostKilled = HostKilled
  BY DEF Streamlined!Says, Says, Streamlined!Scripted, Scripted, Streamlined!Card, Streamlined!HostKilled, HostKilled
<1>2. Honest(Streamlined!SlaCard.says) /\ Honest(Streamlined!TabBar.says)
  BY <1>1, StatementsHonest DEF Streamlined!SlaCard, Streamlined!TabBar
<1>3. Honest(Streamlined!HostBadge)
  BY <1>1, StatementsHonest DEF Streamlined!HostBadge
<1>4. Honest(Streamlined!StepCard.says)
  <2>1. CASE currentStep = 1
    <3>1. Streamlined!Narrative = Says("host", "up") \union Says("attack", "no")
      BY <1>1, <2>1 DEF Streamlined!Narrative
    <3>2. QED
      BY <1>1, <2>1, <3>1, StatementsHonest, HonestTogether DEF Streamlined!StepCard
  <2>2. CASE currentStep = 2
    <3>1. Streamlined!Narrative = Says("attack", "yes") \union Says("clock", "on")
      BY <1>1, <2>2 DEF Streamlined!Narrative
    <3>2. QED
      BY <1>1, <2>2, <3>1, StatementsHonest, HonestTogether DEF Streamlined!StepCard
  <2>3. CASE currentStep = 3
    <3>1. Streamlined!Narrative
            = (Says("host", "down") \union Says("switch", "fired")) \union Scripted("evidence", "intact")
      BY <1>1, <2>3 DEF Streamlined!Narrative
    <3>2. HostKilled
      BY <2>3, StageLook
    <3>3. Honest(Says("host", "down") \union Says("switch", "fired"))
      BY <3>2, StatementsHonest, HonestTogether
    <3>4. QED
      BY <1>1, <3>1, <3>3, ScriptedHonest, HonestTogether DEF Streamlined!StepCard
  <2>4. CASE currentStep = 4
    BY <1>1, <2>4, ScriptedHonest DEF Streamlined!StepCard, Streamlined!Narrative
  <2>5. CASE currentStep = 5
    BY <1>1, <2>5, NothingHonest DEF Streamlined!StepCard, Streamlined!Narrative
  <2>6. QED
    BY <2>1, <2>2, <2>3, <2>4, <2>5, StageLook
<1>5. Honest(Streamlined!Chips.says)
  BY <1>1, <1>3, ScriptedHonest, HonestTogether DEF Streamlined!Chips
<1>6. Honest(Streamlined!Tab.says)
  <2>1. Honest(Streamlined!Feed.says)
    BY <1>1, StatementsHonest, HonestTogether DEF Streamlined!Feed
  <2>2. Honest(Streamlined!Vault.says)
    BY <1>1, VerdictHonest DEF Streamlined!Vault
  <2>3. Honest(Streamlined!Infra.says)
    <3>1. Honest(Streamlined!HostBadge \union Scripted("switch", "armed"))
      BY <1>3, ScriptedHonest, HonestTogether
    <3>2. QED
      BY <1>1, <3>1, ScriptedHonest, HonestTogether DEF Streamlined!Infra
  <2>4. QED
    BY <1>1, <2>1, <2>2, <2>3, NothingHonest DEF Streamlined!Tab
<1>7. QED
  BY <1>2, <1>4, <1>5, <1>6 DEF Honest, SaidBy, Streamlined!Cards

LEMMA MinimalHonest ==
  ASSUME StageInv, layout = "Minimal"
  PROVE  Honest(SaidBy(Minimal!Cards))
<1>1. /\ \A a, v : Minimal!Says(a, v) = Says(a, v) /\ Minimal!Scripted(a, v) = Scripted(a, v)
      /\ \A a, v : Minimal!Card(a, v).says = a
      /\ Minimal!HostKilled = HostKilled
  BY DEF Minimal!Says, Says, Minimal!Scripted, Scripted, Minimal!Card, Minimal!HostKilled, HostKilled
<1>2. Honest(Minimal!HostBadge) /\ Honest(Minimal!SwitchBadge)
  BY <1>1, StatementsHonest DEF Minimal!HostBadge, Minimal!SwitchBadge
<1>3. /\ Honest(Minimal!SlaCard.says) /\ Honest(Minimal!TelemetryCard.says)
      /\ Honest(Minimal!WatchdogCard.says) /\ Honest(Minimal!Storyline.says)
      /\ Honest(Minimal!TabBar.says)
  BY <1>1, <1>2, StatementsHonest
     DEF Minimal!SlaCard, Minimal!TelemetryCard, Minimal!WatchdogCard, Minimal!Storyline,
         Minimal!TabBar
<1>4. Honest(Minimal!AuditCard.says)
  BY <1>1, CountHonest, ScriptedHonest, HonestTogether DEF Minimal!AuditCard
<1>5. Honest(Minimal!Briefing.says)
  <2>1. CASE currentStep = 1
    <3>1. Minimal!Briefing.says = Says("host", "up") \union Says("attack", "no")
      BY <1>1, <2>1 DEF Minimal!Briefing
    <3>2. QED
      BY <2>1, <3>1, StatementsHonest, HonestTogether
  <2>2. CASE currentStep = 2
    <3>1. Minimal!Briefing.says = Says("attack", "yes") \union Says("clock", "on")
      BY <1>1, <2>2 DEF Minimal!Briefing
    <3>2. QED
      BY <2>2, <3>1, StatementsHonest, HonestTogether
  <2>3. CASE currentStep = 3
    <3>1. Minimal!Briefing.says = Says("host", "down") \union Says("switch", "fired")
      BY <1>1, <2>3 DEF Minimal!Briefing
    <3>2. HostKilled
      BY <2>3, StageLook
    <3>3. QED
      BY <3>1, <3>2, StatementsHonest, HonestTogether
  <2>4. CASE currentStep = 4
    BY <1>1, <2>4, ScriptedHonest DEF Minimal!Briefing
  <2>5. CASE currentStep = 5
    BY <1>1, <2>5, NothingHonest DEF Minimal!Briefing
  <2>6. QED
    BY <2>1, <2>2, <2>3, <2>4, <2>5, StageLook
<1>6. Honest(Minimal!DualNode.says)
  <2>1. Honest(Minimal!PrimaryNode)
    <3>1. CASE HostKilled
      BY <1>1, <1>2, <3>1, NothingHonest, HonestTogether DEF Minimal!PrimaryNode
    <3>2. CASE ~HostKilled
      BY <1>1, <1>2, <3>2, StatementsHonest, HonestTogether DEF Minimal!PrimaryNode
    <3>3. QED
      BY <3>1, <3>2
  <2>2. Honest(Minimal!SentryNode)
    BY <1>1, StatementsHonest, ScriptedHonest, HonestTogether DEF Minimal!SentryNode
  <2>3. Honest(Minimal!PrimaryNode \union Minimal!SentryNode)
    BY <2>1, <2>2, HonestTogether
  <2>4. QED
    BY <1>1, <1>2, <2>3, HonestTogether DEF Minimal!DualNode
<1>7. Honest(Minimal!Tab.says)
  <2>1. Honest(Minimal!Overview.says)
    BY <1>1, StatementsHonest, HonestTogether DEF Minimal!Overview
  <2>2. Honest(Minimal!Compliance.says)
    BY <1>1, NothingHonest DEF Minimal!Compliance
  <2>3. QED
    BY <1>1, <2>1, <2>2, NothingHonest DEF Minimal!Tab
<1>8. QED
  BY <1>3, <1>4, <1>5, <1>6, <1>7 DEF Honest, SaidBy, Minimal!Cards

LEMMA LedgerHonest ==
  ASSUME AuditInv, layout = "Ledger"
  PROVE  Honest(SaidBy(Ledger!Cards))
<1>1. /\ \A a, v : Ledger!Says(a, v) = Says(a, v)
      /\ \A a, v : Ledger!Card(a, v).says = a
  BY DEF Ledger!Says, Says, Ledger!Card
<1>2. Honest(Ledger!StatusCard.says)
  BY <1>1, VerdictHonest DEF Ledger!StatusCard
<1>3. Honest(Ledger!LedgerPreview.says)
  <2>1. (IF chainTampered THEN "damaged" ELSE "intact") = Fact("evidence")
    BY FactsOfStage DEF Damage
  <2>2. QED
    BY <1>1, <2>1, SaidHonestly DEF Ledger!LedgerPreview
<1>4. Honest(Ledger!Controls.says)
  BY <1>1, NothingHonest DEF Ledger!Controls
<1>5. QED
  BY <1>2, <1>3, <1>4 DEF Honest, SaidBy, Ledger!Cards

\* What is mounted stays mounted.
LEMMA NextKeepsLayout == [Next]_vars => UNCHANGED layout
<1>1. ASSUME NEW n, PressStep(n) \/ ChooseTab(n) \/ ChooseFilter(n) \/ SelectEvent(n) \/ Fire(n)
      PROVE  UNCHANGED layout
  BY <1>1 DEF PressStep, ChooseTab, ChooseFilter, SelectEvent, Fire
<1>2. CASE \/ PressToggleHost \/ PressReport \/ PressCloseReport \/ PressForm \/ PressMask
           \/ PressCopy \/ PressAudit \/ PressTamper \/ PressRestore \/ Reload
  BY <1>2 DEF PressToggleHost, PressReport, PressCloseReport, PressForm, PressMask, PressCopy,
              PressAudit, PressTamper, PressRestore, Reload
<1>3. QED
  BY <1>1, <1>2 DEF Next, vars

\* No mixture of steps, kills, revivals, reloads and unhurried audits makes two
\* parts of a page contradict each other, but for what is scripted.
THEOREM ScreensAlwaysAgree == Spec => []ScreensAgree
<1>1. ASSUME StageInv, AuditInv, layout \in Layouts
      PROVE  ScreensAgree
  <2>1. Honest(SaidBy(Cards))
    BY <1>1, EnterpriseHonest, StreamlinedHonest, MinimalHonest, LedgerHonest DEF Cards, Layouts
  <2>2. ASSUME NEW subjects, subjects \subseteq Subjects
        PROVE  AgreeOn(subjects)
    BY <2>1, <2>2 DEF Honest, AgreeOn
  <2>3. {"host", "attack", "switch", "clock"} \subseteq Subjects
    BY DEF Subjects
  <2>4. trusted /\ timers = <<>> => {"evidence"} \subseteq Subjects
    BY DEF Subjects, Settled
  <2>5. QED
    BY <2>2, <2>3, <2>4 DEF ScreensAgree
<1>2. Spec => []AuditInv
  BY InitAudit, NextKeepsAudit, PTL DEF Spec
<1>3. Init => layout \in Layouts
  BY DEF Init
<1>4. layout \in Layouts /\ [Next]_vars => (layout \in Layouts)'
  BY NextKeepsLayout
<1>5. Spec => [](layout \in Layouts)
  BY <1>3, <1>4, PTL DEF Spec
<1>6. QED
  BY <1>1, <1>2, <1>5, StageAlways, PTL
=============================================================================
