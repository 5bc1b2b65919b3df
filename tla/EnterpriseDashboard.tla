------------------------ MODULE EnterpriseDashboard ------------------------
(***************************************************************************)
(* EnterpriseDashboard.jsx: four cards on the stage and the vault, the     *)
(* five steps with a narrative for executives, and a console of four tabs. *)
(* Its audit is simulated: two timers, and tamperViolations of App.        *)
(***************************************************************************)
EXTENDS StageDemo, Page

VARIABLES
  activeTab, logFilter, verifying,
  verdict,              \* auditResult.status
  tamperViolations,     \* these three are App's
  isPiiMasked,
  selectedEvent

CONSTANT Events         \* of the scenario: [id, source, severity, ...]

Tabs    == {"FEED", "VAULT", "DAG", "INFRA"}
Filters == {"ALL", "AUTH", "NGINX", "CRITICAL"}

\* The narrative is that of a killed host before it is that of the step.
HostLost  == Says("host", "down") \union Says("switch", "fired") \union Scripted("evidence", "intact")
Narrative ==
  IF HostKilled THEN HostLost
  ELSE CASE currentStep = 1 -> Says("host", "up") \union Says("attack", "no")
         [] currentStep = 2 -> Says("attack", "yes") \union Says("clock", "on")
         [] currentStep = 3 -> HostLost
         [] currentStep = 4 -> Scripted("evidence", "intact")
         [] OTHER           -> {}

FilteredEvents ==
  {ev \in Events : /\ logFilter = "AUTH" => ev.source = "auth.log"
                   /\ logFilter = "NGINX" => ev.source = "nginx"
                   /\ logFilter = "CRITICAL" => ev.severity \in {"CRITICAL", "ALERT"}}

\* The audit's answer is about the violations of the render that started it.
HandleRunAudit ==
  /\ verifying' = TRUE
  /\ SetTimeout(400, "endAudit", tamperViolations)
  /\ UNCHANGED <<verdict, tamperViolations>>

EndAudit(i) ==
  /\ timers[i].run = "endAudit"
  /\ verifying' = FALSE
  /\ verdict' = IF timers[i].sees > 0 THEN "FAIL" ELSE "PASS"
  /\ timers' = Without(i)
  /\ UNCHANGED tamperViolations

\* Seeded fault: the timer is told the count before the flip.
HandleSimulateTamper_OldCount ==
  /\ tamperViolations' = IF tamperViolations > 0 THEN 0 ELSE 1
  /\ SetTimeout(150, "endTamper", tamperViolations)
  /\ UNCHANGED <<verdict, verifying>>

HandleSimulateTamper ==
  /\ tamperViolations' = IF tamperViolations > 0 THEN 0 ELSE 1
  /\ SetTimeout(150, "endTamper", tamperViolations')
  /\ UNCHANGED <<verdict, verifying>>

EndTamper(i) ==
  /\ timers[i].run = "endTamper"
  /\ verdict' = IF timers[i].sees > 0 THEN "FAIL" ELSE "PASS"
  /\ timers' = Without(i)
  /\ UNCHANGED <<verifying, tamperViolations>>

HostBadge     == Says("host", IF HostKilled THEN "down" ELSE "up")
HostPings     == Says("switch", IF HostKilled THEN "fired" ELSE "armed")
ChainBadge    == Says("evidence", IF tamperViolations > 0 THEN "damaged" ELSE "intact")
EnclaveLocked == IF HostKilled THEN Scripted("evidence", "intact") ELSE {}
Masking       == Says("masking", isPiiMasked)
AuditButtons  == (IF verifying THEN {} ELSE Button("audit")) \union Button("tamper")

SlaCard    == Card(Says("clock", IF isSlaActive THEN "on" ELSE "off"), {})
HostCard   == Card(HostBadge \union HostPings, Button("toggleHost"))
VaultCard  == Card(ChainBadge \union EnclaveLocked, AuditButtons)
Sequencer  == Card(Narrative, Buttons("step", Steps))
ReportCard == Card(HostBadge \union Scripted("evidence", "intact"), Button("report"))
TabBar     == Card(Masking, Buttons("tab", Tabs) \union Button("mask"))

Feed  == Card(Says("event", selectedEvent.id) \union Masking,
              Buttons("filter", Filters) \union Buttons("select", FilteredEvents))
Vault == Card(Says("evidence", IF verdict = "PASS" THEN "intact" ELSE "damaged"), AuditButtons)

\* Of the two nodes the first follows the host.  The text of the second is fixed.
Infra == Card(HostBadge \union Scripted("switch", "armed") \union Scripted("evidence", "intact"),
              Button("toggleHost"))

\* The fourth tab, DAG, is text about the scenario.
Tab == CASE activeTab = "FEED"  -> Feed
         [] activeTab = "VAULT" -> Vault
         [] activeTab = "INFRA" -> Infra
         [] OTHER               -> Card({}, {})

Cards == <<SlaCard, HostCard, VaultCard, Sequencer, ReportCard, TabBar, Tab>>
=============================================================================
