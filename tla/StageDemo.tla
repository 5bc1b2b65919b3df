----------------------------- MODULE StageDemo -----------------------------
(***************************************************************************)
(* The state App.jsx keeps for the stage demonstration and its handlers:   *)
(* the five steps of the pitch, the host that is killed and revived, the   *)
(* statutory clock and the report's form.  At this commit App hands the    *)
(* form's handlers down and no other: the rest are for the props that the  *)
(* dashboards of its history declare (Console.tla).                        *)
(***************************************************************************)
EXTENDS Naturals

VARIABLES
  currentStep,        \* of the pitch, 1 to 5
  isSlaActive,        \* the statutory six-hour clock runs
  primaryNodeState,
  watchdogState,
  isReportModalOpen

stage == <<currentStep, isSlaActive, primaryNodeState, watchdogState, isReportModalOpen>>

Steps      == 1..5
NodeStates == {"HEALTHY", "COMPROMISED", "KILLED"}
HostKilled == primaryNodeState = "KILLED"

StageInit ==
  /\ currentStep = 1
  /\ isSlaActive = FALSE
  /\ primaryNodeState = "HEALTHY"
  /\ watchdogState = "WATCHING"
  /\ isReportModalOpen = FALSE

HandleStageStep(n) ==
  /\ currentStep' = n
  /\ isSlaActive' = (n > 1)
  /\ primaryNodeState' = CASE n = 1 -> "HEALTHY" [] n = 2 -> "COMPROMISED" [] OTHER -> "KILLED"
  /\ watchdogState' = IF n > 2 THEN "SUSPECTED_COMPROMISE" ELSE "WATCHING"
  /\ isReportModalOpen' = (n = 5)

HandleResetStage == HandleStageStep(1)

\* Reviving the host takes the pitch back to its first step; the clock runs on.
Revive ==
  /\ HostKilled
  /\ primaryNodeState' = "HEALTHY"
  /\ watchdogState' = "WATCHING"
  /\ currentStep' = 1
  /\ UNCHANGED <<isSlaActive, isReportModalOpen>>

Kill ==
  /\ ~HostKilled
  /\ primaryNodeState' = "KILLED"
  /\ watchdogState' = "SUSPECTED_COMPROMISE"
  /\ isSlaActive' = TRUE
  /\ currentStep' = 3
  /\ UNCHANGED isReportModalOpen

\* Seeded fault: the handler forgets the step of the pitch.
HandleToggleHostState_KeepsStep ==
  /\ primaryNodeState' = IF HostKilled THEN "HEALTHY" ELSE "KILLED"
  /\ watchdogState' = IF HostKilled THEN "WATCHING" ELSE "SUSPECTED_COMPROMISE"
  /\ isSlaActive' = (isSlaActive \/ ~HostKilled)
  /\ UNCHANGED <<currentStep, isReportModalOpen>>

HandleToggleHostState == Revive \/ Kill

OpenReport ==
  /\ isReportModalOpen' = TRUE
  /\ UNCHANGED <<currentStep, isSlaActive, primaryNodeState, watchdogState>>

CloseReport ==
  /\ isReportModalOpen' = FALSE
  /\ UNCHANGED <<currentStep, isSlaActive, primaryNodeState, watchdogState>>

----------------------------------------------------------------------------
(* Properties of the stage.                                                *)

StageTypeOK ==
  /\ currentStep \in Steps
  /\ isSlaActive \in BOOLEAN
  /\ primaryNodeState \in NodeStates
  /\ watchdogState \in {"WATCHING", "SUSPECTED_COMPROMISE"}
  /\ isReportModalOpen \in BOOLEAN

\* Five pieces of state that the handlers set one by one agree: the
\* host is killed just when the watchdog suspects it and from the third step
\* on, compromised just at the second, and the clock runs unless all is well.
StageConsistent ==
  /\ HostKilled <=> watchdogState = "SUSPECTED_COMPROMISE"
  /\ HostKilled <=> currentStep \in 3..5
  /\ primaryNodeState = "COMPROMISED" <=> currentStep = 2
  /\ currentStep # 1 => isSlaActive
=============================================================================
