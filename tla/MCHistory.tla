------------------------------- MODULE MCHistory -------------------------------
(***************************************************************************)
(* Jobs for TLC: the files of HistoryFixtures with at most two changes, or *)
(* one change and one fault.  The forked ones with changes of E4 and E6    *)
(* only: E5 accepts none of them.                                          *)
(***************************************************************************)
EXTENDS HistoryTrees, HistoryFixtures

CleanEdits == TransparencyEdits \o TrustEdits \o GossipEdits
ForkedEdits == TrustEdits \o GossipEdits \o ForkEdits

Changes(edits) ==
  {t \in (1..Len(edits)) \X (1..Len(edits) + Len(Faults)) : t[1] <= t[2]}

HistoryFiles ==
  ({"clean"} \X Changes(CleanEdits)) \cup ({"forked"} \X Changes(ForkedEdits))

HistoryRegistry(f) ==
  LET edits == IF f[1] = "clean" THEN CleanEdits ELSE ForkedEdits
      once == Edit(IF f[1] = "clean" THEN Clean ELSE Forked, edits[f[2][1]])
      second == f[2][2]
  IN  IF second <= Len(edits) THEN Edit(once, edits[second])
      ELSE Fault(once, Faults[second - Len(edits)])
==============================================================================
