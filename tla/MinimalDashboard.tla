-------------------------- MODULE MinimalDashboard --------------------------
(***************************************************************************)
(* MinimalDashboard.jsx and the DualNodeStatus.jsx in it: four cards, the  *)
(* storyline, the briefing and a workspace of four tabs.  Its vault tab is *)
(* HashChainVerifier on records that lack the field it reads, so that      *)
(* rendering the tab throws (Console.tla).                                 *)
(***************************************************************************)
EXTENDS StageDemo, Page

VARIABLES activeTab, logFilter, tamperViolations, isPiiMasked, selectedEvent, copiedHash

CONSTANT Events

Tabs    == {"OVERVIEW", "COMPLIANCE", "VAULT", "DAG"}
Filters == {"ALL", "AUTH", "NGINX", "CRITICAL"}

FilteredEvents ==
  {ev \in Events : /\ logFilter = "AUTH" => ev.source = "auth.log"
                   /\ logFilter = "NGINX" => ev.source = "nginx"
                   /\ logFilter = "CRITICAL" => ev.severity \in {"CRITICAL", "ALERT"}}

HandleCopyHash ==
  /\ copiedHash' = TRUE
  /\ SetTimeout(1500, "endCopy", 0)

EndCopy(i) ==
  /\ timers[i].run = "endCopy"
  /\ copiedHash' = FALSE
  /\ timers' = Without(i)

HostBadge   == Says("host", IF HostKilled THEN "down" ELSE "up")
SwitchBadge == Says("switch", IF HostKilled THEN "fired" ELSE "armed")

SlaCard       == Card(Says("clock", IF isSlaActive THEN "on" ELSE "off"), {})
TelemetryCard == Card(HostBadge, {})
WatchdogCard  == Card(SwitchBadge, Button("toggleHost"))
AuditCard     == Card(Says("evidence", IF tamperViolations > 0 THEN "damaged" ELSE "intact")
                      \union Scripted("evidence", "intact"), {})
Storyline     == Card(Says("step", currentStep), Buttons("step", Steps))

Briefing ==
  Card(CASE currentStep = 1 -> Says("host", "up") \union Says("attack", "no")
         [] currentStep = 2 -> Says("attack", "yes") \union Says("clock", "on")
         [] currentStep = 3 -> Says("host", "down") \union Says("switch", "fired")
         [] currentStep = 4 -> Scripted("evidence", "intact")
         [] OTHER           -> {},
       Button("report"))

\* DualNodeStatus: the primary node by its state, the vault by the watchdog's.
\* It is given the count of tamperings and says 0 whatever it is.
PrimaryNode == HostBadge \union (IF HostKilled THEN {}
                                ELSE Says("attack", IF primaryNodeState = "COMPROMISED"
                                                    THEN "yes" ELSE "no"))
SentryNode  == Says("switch", IF watchdogState = "SUSPECTED_COMPROMISE" THEN "fired" ELSE "armed")
               \union Scripted("evidence", "intact")
DualNode    == Card(PrimaryNode \union SentryNode \union SwitchBadge, {})

TabBar == Card(Says("masking", isPiiMasked), Buttons("tab", Tabs) \union Button("mask"))

Overview   == Card(Says("event", selectedEvent.id) \union Says("masking", isPiiMasked),
                   Buttons("filter", Filters) \union Buttons("select", FilteredEvents)
                   \union Button("copy"))
Compliance == Card({}, Button("report"))

Tab == CASE activeTab = "OVERVIEW"   -> Overview
         [] activeTab = "COMPLIANCE" -> Compliance
         [] OTHER                    -> Card({}, {})

Cards == <<SlaCard, TelemetryCard, WatchdogCard, AuditCard, Storyline, Briefing,
           DualNode, TabBar, Tab>>
=============================================================================
