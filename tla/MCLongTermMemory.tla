-------------------------- MODULE MCLongTermMemory --------------------------
(* Instances of LongTermMemory for TLC. *)
EXTENDS LongTermMemory, TLC

CONSTANTS n1, n2, a, aa, b, lines, empty, meta

MCSectionOf == [n \in Names |-> IF n = n1 THEN "prefs" ELSE "project"]
MCAlike == {<<a, aa>>}
MCReload == [v \in Values |-> CASE v = empty -> meta [] v = lines -> a [] OTHER -> v]

Candidate(n, s, v, c) == [name |-> n, spelling |-> s, value |-> v, conf |-> c]
MCBatches == {<<Candidate(n1, "normal", b, 20)>>, <<Candidate(n1, "normal", empty, 0)>>,
              <<Candidate(n1, "other", aa, 0), Candidate(n1, "normal", b, 20)>>,
              <<Candidate(n1, "normal", b, 20), Candidate(n2, "normal", a, 0)>>}
MCInsights == {[name |-> n1, value |-> empty]}

Symmetry == Permutations(Loops)
=============================================================================
