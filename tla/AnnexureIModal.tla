-------------------------- MODULE AnnexureIModal --------------------------
(***************************************************************************)
(* AnnexureIModal.jsx: the form of the statutory report.  App renders it   *)
(* always and it returns nothing while it is closed, so that what it keeps *)
(* survives closing, a new incident and a reset of the stage.              *)
(***************************************************************************)
EXTENDS Page

VARIABLES isFiled, isAuthUnmasked

ToggleAuthMask ==
  /\ isAuthUnmasked' = ~isAuthUnmasked
  /\ UNCHANGED isFiled

\* An alert follows 150 ms later; it changes nothing.
HandleMarkFiled ==
  /\ isFiled' = TRUE
  /\ UNCHANGED isAuthUnmasked

\* Escape closes the form as its cross does.  Print and export change nothing.
Header == Card(Says("signatory", IF isAuthUnmasked THEN "unmasked" ELSE "masked"),
               Button("authMask") \union Button("closeReport"))
Footer == Card(Says("report", IF isFiled THEN "dispatched" ELSE "pending"),
               IF isFiled THEN {} ELSE Button("file"))

Cards == <<Header, Footer>>
=============================================================================
