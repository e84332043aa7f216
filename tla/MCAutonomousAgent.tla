--------------------------- MODULE MCAutonomousAgent ---------------------------
(* AutonomousAgent for TLC: three providers, of which pc is dearer and worse *)
(* than pa and not in the default list.                                      *)
EXTENDS AutonomousAgent

CONSTANTS pa, pb, pc

MCProviders == {pa, pb, pc}
MCDefaults == <<pa, pb>>
MCLists == {<<>>, <<pc, pb, pa>>, <<pc>>}

\* The default list has prices 0.12 and 0.09, qualities 0.92 and 0.87.
MCPrice == [p \in MCProviders |-> CASE p = pa -> 12 [] p = pb -> 9 [] p = pc -> 15]
MCQuality == [p \in MCProviders |-> CASE p = pa -> 92 [] p = pb -> 87 [] p = pc -> 90]
MCTimeoutMs == [p \in MCProviders |-> IF p = pc THEN 15 ELSE 10]
=============================================================================
