------------------------- MODULE HashChainVerifier -------------------------
(***************************************************************************)
(* HashChainVerifier.jsx on the records it has by default: a simulated     *)
(* audit of a ledger that the user may damage and restore.                 *)
(***************************************************************************)
EXTENDS Page

VARIABLES
  chainTampered,    \* a record of chainRecords is not verified
  verifying,
  verdict,          \* verificationResult.status
  tamperViolations  \* App's count, told by onTamperStatusChange

HandleVerify ==
  /\ verifying' = TRUE
  /\ SetTimeout(400, "finishVerify", chainTampered)
  /\ UNCHANGED <<chainTampered, verdict, tamperViolations>>

\* The audit that follows is made by the render before the damage.
HandleSimulateTamper ==
  /\ chainTampered' = TRUE
  /\ SetTimeout(80, "startVerify", chainTampered)
  /\ UNCHANGED <<verifying, verdict, tamperViolations>>

HandleResetChain ==
  /\ chainTampered' = FALSE
  /\ verdict' = "PASS"
  /\ tamperViolations' = 0
  /\ UNCHANGED <<verifying, timers>>

StartVerify(i) ==
  /\ timers[i].run = "startVerify"
  /\ verifying' = TRUE
  /\ timers' = Append(Without(i), Timer(400, "finishVerify", timers[i].sees))
  /\ UNCHANGED <<chainTampered, verdict, tamperViolations>>

\* Seeded fault: a failed audit leaves the button disabled.
FinishVerify_FailKeepsVerifying(i) ==
  /\ timers[i].run = "finishVerify"
  /\ verifying' = timers[i].sees
  /\ verdict' = IF timers[i].sees THEN "FAIL" ELSE "PASS"
  /\ tamperViolations' = IF timers[i].sees THEN 1 ELSE 0
  /\ timers' = Without(i)
  /\ UNCHANGED chainTampered

FinishVerify(i) ==
  /\ timers[i].run = "finishVerify"
  /\ verifying' = FALSE
  /\ verdict' = IF timers[i].sees THEN "FAIL" ELSE "PASS"
  /\ tamperViolations' = IF timers[i].sees THEN 1 ELSE 0
  /\ timers' = Without(i)
  /\ UNCHANGED chainTampered

StatusCard ==
  Card(Says("evidence", IF verdict = "PASS" THEN "intact" ELSE "damaged"), {})

\* The last three records, the one that may be damaged among them, as they are.
LedgerPreview == Card(Says("evidence", IF chainTampered THEN "damaged" ELSE "intact"), {})

\* Simulate Tamper or Restore Chain, by the verdict and not by the records.
Controls ==
  Card({},
       (IF verifying THEN {} ELSE Button("audit"))
       \union Button(IF verdict = "PASS" THEN "tamper" ELSE "restore"))

Cards == <<StatusCard, LedgerPreview, Controls>>
=============================================================================
