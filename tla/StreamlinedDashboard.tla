------------------------ MODULE StreamlinedDashboard ------------------------
(***************************************************************************)
(* StreamlinedDashboard.jsx: the enterprise dashboard's ancestor.  It has  *)
(* no control that kills the host, offers the audit in its tab only, and   *)
(* its narrative goes by the step alone.                                   *)
(***************************************************************************)
EXTENDS StageDemo, Page

VARIABLES activeTab, logFilter, verifying, verdict, tamperViolations, isPiiMasked, selectedEvent

CONSTANT Events

Enterprise == INSTANCE EnterpriseDashboard

\* Word for word the enterprise dashboard's code, and the same tabs.
Tabs                 == Enterprise!Tabs
FilteredEvents       == Enterprise!FilteredEvents
HandleRunAudit       == Enterprise!HandleRunAudit
EndAudit(i)          == Enterprise!EndAudit(i)
HandleSimulateTamper == Enterprise!HandleSimulateTamper
EndTamper(i)         == Enterprise!EndTamper(i)

Narrative ==
  CASE currentStep = 1 -> Says("host", "up") \union Says("attack", "no")
    [] currentStep = 2 -> Says("attack", "yes") \union Says("clock", "on")
    [] currentStep = 3 -> Says("host", "down") \union Says("switch", "fired")
                          \union Scripted("evidence", "intact")
    [] currentStep = 4 -> Scripted("evidence", "intact")
    [] OTHER           -> {}

HostBadge == Says("host", IF HostKilled THEN "down" ELSE "up")

SlaCard  == Card(Says("clock", IF isSlaActive THEN "on" ELSE "off"), Button("report"))
StepCard == Card(Narrative, Buttons("step", Steps))
Chips    == Card(HostBadge \union Scripted("evidence", "intact"), {})
TabBar   == Card(Says("masking", isPiiMasked), Buttons("tab", Tabs) \union Button("mask"))

Feed  == Card(Says("event", selectedEvent.id) \union Says("masking", isPiiMasked),
              Buttons("filter", Enterprise!Filters) \union Buttons("select", FilteredEvents))
Vault == Card(Says("evidence", IF verdict = "PASS" THEN "intact" ELSE "damaged"),
              (IF verifying THEN {} ELSE Button("audit")) \union Button("tamper"))

\* The enterprise dashboard's two nodes, without the button.
Infra == Card(HostBadge \union Scripted("switch", "armed") \union Scripted("evidence", "intact"), {})

Tab == CASE activeTab = "FEED"  -> Feed
         [] activeTab = "VAULT" -> Vault
         [] activeTab = "INFRA" -> Infra
         [] OTHER               -> Card({}, {})

Cards == <<SlaCard, StepCard, Chips, TabBar, Tab>>
=============================================================================
