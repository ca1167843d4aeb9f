------------------------------ MODULE MCAnalyst -------------------------------
EXTENDS Analyst, TLC
CONSTANTS MaxAnalysis, MaxChanges
MCDexes == <<"", "xyz">>
MCDexOf == [m \in Markets |-> IF m = "btc" THEN "" ELSE "xyz"]
HeadlineSymmetry == Permutations(Headlines)

(* Bounds: the headlines, faults of the API and regime refreshes of one     *)
(* behaviour; its faults and listings of the universe.  With more than one  *)
(* of the former the universe stays as it is, with more than one of the     *)
(* latter no prompt is sent.                                                *)
Analysis == faults + brief
            + Cardinality({h \in Headlines : Active(h) \/ verdict[h] # "none"})
Changes == uniFaults + Cardinality(Early \ listed) + Cardinality(listed \ Early)
FewEvents == /\ Analysis <= MaxAnalysis
             /\ Changes <= MaxChanges
             /\ Analysis > 1 => Changes = 0 /\ ref = Idle
             /\ Changes > 1 => Analysis = 0 /\ ~Active("warmer") /\ hot = <<>>
=============================================================================
