------------------------------ MODULE Console ------------------------------
(***************************************************************************)
(* One page of the stage demonstration: App's state (StageDemo), one of    *)
(* the dashboards on it, and the report's form over them.  A user presses  *)
(* any control the page offers at any time, timers fire, and the page may  *)
(* be loaded again.  `layout` is the component that is mounted, given the  *)
(* handlers of App that its props name; "Ledger" is HashChainVerifier      *)
(* alone, on its default records.  This composition is the module's own:   *)
(* App at this commit mounts CleanWhiteDashboard, which has none of it.    *)
(***************************************************************************)
EXTENDS StageDemo, Page

CONSTANTS
  Events,         \* of the scenario: [id, source, severity]
  MaxTimers       \* bound: timers pending at a time

ASSUME MaxTimersNat == MaxTimers \in Nat

VARIABLES
  layout,
  activeTab, logFilter, copiedHash,                   \* the dashboard's own
  verifying, verdict, chainTampered,                  \* its audit
  tamperViolations, isPiiMasked, selectedEvent,       \* App's
  isFiled, isAuthUnmasked,                            \* the form's
  crashed,        \* rendering threw: React has unmounted everything
  trusted         \* history: the last of the audit's controls was pressed
                  \* with no timer pending, and was not the ledger's tamper

view   == <<activeTab, logFilter, copiedHash, isPiiMasked, selectedEvent, crashed>>
audit  == <<verifying, verdict, chainTampered, tamperViolations, trusted>>
form   == <<isFiled, isAuthUnmasked>>
vars   == <<stage, timers, layout, view, audit, form>>

Enterprise  == INSTANCE EnterpriseDashboard
Streamlined == INSTANCE StreamlinedDashboard
Minimal     == INSTANCE MinimalDashboard
Ledger      == INSTANCE HashChainVerifier
Modal       == INSTANCE AnnexureIModal

Layouts == {"Enterprise", "Streamlined", "Minimal", "Ledger"}

Cards == CASE layout = "Enterprise"  -> Enterprise!Cards
           [] layout = "Streamlined" -> Streamlined!Cards
           [] layout = "Minimal"     -> Minimal!Cards
           [] OTHER                  -> Ledger!Cards

\* The form covers the page: while it is open nothing else can be pressed.
Offered ==
  IF crashed THEN {}
  ELSE IF isReportModalOpen THEN OfferedBy(Modal!Cards) ELSE OfferedBy(Cards)

Init ==
  /\ StageInit
  /\ timers = <<>>
  /\ layout \in Layouts
  /\ activeTab = IF layout = "Minimal" THEN "OVERVIEW" ELSE "FEED"
  /\ logFilter = "ALL"
  /\ copiedHash = FALSE
  /\ isPiiMasked = TRUE
  /\ selectedEvent \in {ev \in Events : ev.preset}
  /\ crashed = FALSE
  /\ verifying = FALSE
  /\ verdict = "PASS"
  /\ chainTampered = FALSE
  /\ tamperViolations = 0
  /\ isFiled = FALSE
  /\ isAuthUnmasked = FALSE
  /\ trusted = TRUE

----------------------------------------------------------------------------
(* The stage's controls.                                                   *)

PressStep(n) ==
  /\ <<"step", n>> \in Offered
  /\ HandleStageStep(n)
  /\ UNCHANGED <<timers, layout, view, audit, form>>

PressToggleHost ==
  /\ <<"toggleHost", 0>> \in Offered
  /\ HandleToggleHostState
  /\ UNCHANGED <<timers, layout, view, audit, form>>

PressReport ==
  /\ <<"report", 0>> \in Offered
  /\ OpenReport
  /\ UNCHANGED <<timers, layout, view, audit, form>>

PressCloseReport ==
  /\ <<"closeReport", 0>> \in Offered
  /\ CloseReport
  /\ UNCHANGED <<timers, layout, view, audit, form>>

PressForm ==
  /\ \/ <<"authMask", 0>> \in Offered /\ Modal!ToggleAuthMask
     \/ <<"file", 0>> \in Offered /\ Modal!HandleMarkFiled
  /\ UNCHANGED <<stage, timers, layout, view, audit>>

----------------------------------------------------------------------------
(* The view's controls.                                                    *)

\* The records that Minimal passes to HashChainVerifier have no `hash`, whose
\* slice the ledger preview takes: rendering throws and nothing catches it.
ChooseTab(tab) ==
  /\ <<"tab", tab>> \in Offered
  /\ activeTab' = tab
  /\ crashed' = (layout = "Minimal" /\ tab = "VAULT")
  /\ UNCHANGED <<stage, timers, layout, logFilter, copiedHash, isPiiMasked, selectedEvent,
                 audit, form>>

ChooseFilter(filter) ==
  /\ <<"filter", filter>> \in Offered
  /\ logFilter' = filter
  /\ UNCHANGED <<stage, timers, layout, activeTab, copiedHash, isPiiMasked, selectedEvent,
                 crashed, audit, form>>

SelectEvent(ev) ==
  /\ <<"select", ev>> \in Offered
  /\ selectedEvent' = ev
  /\ UNCHANGED <<stage, timers, layout, activeTab, logFilter, copiedHash, isPiiMasked,
                 crashed, audit, form>>

PressMask ==
  /\ <<"mask", 0>> \in Offered
  /\ isPiiMasked' = ~isPiiMasked
  /\ UNCHANGED <<stage, timers, layout, activeTab, logFilter, copiedHash, selectedEvent,
                 crashed, audit, form>>

PressCopy ==
  /\ <<"copy", 0>> \in Offered
  /\ Len(timers) < MaxTimers
  /\ Minimal!HandleCopyHash
  /\ UNCHANGED <<stage, layout, activeTab, logFilter, isPiiMasked, selectedEvent, crashed,
                 audit, form>>

----------------------------------------------------------------------------
(* The audit's controls and the timers.                                    *)

PressAudit ==
  /\ <<"audit", 0>> \in Offered
  /\ Len(timers) < MaxTimers
  /\ IF layout = "Ledger" THEN Ledger!HandleVerify
     ELSE Enterprise!HandleRunAudit /\ UNCHANGED chainTampered
  /\ trusted' = (timers = <<>>)
  /\ UNCHANGED <<stage, layout, view, form>>

PressTamper ==
  /\ <<"tamper", 0>> \in Offered
  /\ Len(timers) < MaxTimers
  /\ IF layout = "Ledger" THEN Ledger!HandleSimulateTamper
     ELSE Enterprise!HandleSimulateTamper /\ UNCHANGED chainTampered
  /\ trusted' = (timers = <<>> /\ layout # "Ledger")
  /\ UNCHANGED <<stage, layout, view, form>>

PressRestore ==
  /\ <<"restore", 0>> \in Offered
  /\ Ledger!HandleResetChain
  /\ trusted' = (timers = <<>>)
  /\ UNCHANGED <<stage, layout, view, form>>

Fire(i) ==
  /\ ~crashed
  /\ MayFire(i)
  /\ \/ /\ \/ Ledger!StartVerify(i)
           \/ Ledger!FinishVerify(i)
           \/ Enterprise!EndAudit(i) /\ UNCHANGED chainTampered
           \/ Enterprise!EndTamper(i) /\ UNCHANGED chainTampered
        /\ UNCHANGED copiedHash
     \/ /\ Minimal!EndCopy(i)
        /\ UNCHANGED <<verifying, verdict, chainTampered, tamperViolations>>
  /\ UNCHANGED <<stage, layout, activeTab, logFilter, isPiiMasked, selectedEvent, crashed,
                 trusted, form>>

\* Nothing is kept across a reload.
Reload ==
  /\ HandleResetStage      \* App's initial state
  /\ timers' = <<>>
  /\ activeTab' = IF layout = "Minimal" THEN "OVERVIEW" ELSE "FEED"
  /\ logFilter' = "ALL"
  /\ copiedHash' = FALSE
  /\ isPiiMasked' = TRUE
  /\ selectedEvent' \in {ev \in Events : ev.preset}
  /\ crashed' = FALSE
  /\ verifying' = FALSE
  /\ verdict' = "PASS"
  /\ chainTampered' = FALSE
  /\ tamperViolations' = 0
  /\ isFiled' = FALSE
  /\ isAuthUnmasked' = FALSE
  /\ trusted' = TRUE
  /\ UNCHANGED layout

Next ==
  \/ \E n \in Steps : PressStep(n)
  \/ PressToggleHost
  \/ PressReport
  \/ PressCloseReport
  \/ PressForm
  \/ \E tab \in Enterprise!Tabs \union Minimal!Tabs : ChooseTab(tab)
  \/ \E filter \in Enterprise!Filters : ChooseFilter(filter)
  \/ \E ev \in Events : SelectEvent(ev)
  \/ PressMask
  \/ PressCopy
  \/ PressAudit
  \/ PressTamper
  \/ PressRestore
  \/ \E i \in DOMAIN timers : Fire(i)
  \/ Reload

\* The browser fires the oldest timer in the end, however many shorter ones
\* are made meanwhile.
Fairness == WF_vars(timers # <<>> /\ Fire(1))

Spec == Init /\ [][Next]_vars /\ Fairness

----------------------------------------------------------------------------
(* Properties.                                                             *)

\* Whatever mixture of steps, kills, revivals and reloads was pressed, the cards,
\* the narrative and the tab, each rendered from a piece of state of its own,
\* say the same of the host, the attack, the dead-man's switch and the clock
\* (App.jsx:76-122).  Of the evidence they do as VerdictRight has it: when no
\* audit is under way and none was hurried.  What is scripted is left out: the
\* texts that call the evidence intact or the switch armed whatever becomes of
\* them (EnterpriseDashboard.jsx:863-879, StreamlinedDashboard.jsx:306-312) do
\* contradict the rest, as "AUDIT VERIFIED" does beside a failed audit.
AgreeOn(subjects) ==
  \A s, t \in {u \in SaidBy(Cards) : u.about \in subjects /\ ~u.scripted} :
    s.about = t.about => s.is = t.is

ScreensAgree ==
  /\ AgreeOn({"host", "attack", "switch", "clock"})
  /\ trusted /\ timers = <<>> => AgreeOn({"evidence"})

\* An audit nobody hurried tells the truth: once the timers are done the
\* verdict is FAIL just when there is damage, and the ledger's verdict is
\* what App was told of it (HashChainVerifier.jsx:36-106,
\* EnterpriseDashboard.jsx:157-201).  `trusted` leaves out what may end in a
\* wrong verdict: a control pressed while a timer is pending, and the ledger's
\* own Simulate Tamper, whose audit is of the records before the damage.
VerdictRight ==
  /\ trusted /\ timers = <<>> =>
       (verdict = "FAIL" <=> IF layout = "Ledger" THEN chainTampered ELSE tamperViolations > 0)
  /\ layout = "Ledger" => (verdict = "FAIL" <=> tamperViolations = 1)

\* The audit's button comes back, whatever else is pressed meanwhile.
AuditEnds == []<>~verifying
=============================================================================
