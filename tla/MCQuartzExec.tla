--------------------------- MODULE MCQuartzExec ---------------------------
(* Instances of QuartzExec for TLC: model values and bounds. *)
EXTENDS QuartzExec, TLC

CONSTANTS n1, n2, a1, a2, m1, noJob, null

MCNode1 == {n1}
MCNode2 == {n1, n2}

MCJobOne == {m1}
MCJobMixed == {a1, m1}
MCJobThree == {a1, a2, m1}
MCManual == {m1}

\* The nodes are interchangeable.
MCSymmetry == Permutations(Node)

=============================================================================
