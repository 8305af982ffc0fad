------------------------------ MODULE MCReopening ------------------------------
(***************************************************************************)
(* The E7 part of ContinuityFixtures for TLC: a closed incident and at     *)
(* most two changes, among them those that reopen it.                      *)
(***************************************************************************)
EXTENDS RecoveryHardening, ContinuityFixtures

ReopeningFiles == {t \in (1..Len(RecoveryEdits)) \X (1..Len(RecoveryEdits)) : t[1] <= t[2]}

\* Decision d2 reopens the incident that d1 has closed.
Reopened ==
  [ValidFiles EXCEPT !.recovery.decisions["d2"].state = "reopened",
                     !.recovery.decisions["d2"].prior_closure = "d1"]

ReopeningRegistry(t) == Edit(Edit(Reopened, RecoveryEdits[t[1]]), RecoveryEdits[t[2]])
==============================================================================
