----------------------------- MODULE MCContinuity -----------------------------
(***************************************************************************)
(* Jobs for TLC: the files of ContinuityFixtures with at most two changes  *)
(* of the three registries, or one change and one fault.  (Not one change  *)
(* of E7 and one of E9: no program reads both.)                            *)
(***************************************************************************)
EXTENDS ContinuityChain, ContinuityFixtures

Edits == RecoveryEdits \o ConvergenceEdits \o DegradedEdits

ContinuityFiles ==
  {t \in (1..Len(Edits)) \X (1..Len(Edits) + Len(Faults)) :
     /\ t[1] <= t[2]
     /\ \/ t[1] > Len(RecoveryEdits)
        \/ t[2] <= Len(RecoveryEdits) + Len(ConvergenceEdits)
        \/ t[2] > Len(Edits)}

ContinuityRegistry(t) ==
  LET once == Edit(ValidFiles, Edits[t[1]])
  IN  IF t[2] <= Len(Edits) THEN Edit(once, Edits[t[2]])
      ELSE Fault(once, Faults[t[2] - Len(Edits)])
==============================================================================
