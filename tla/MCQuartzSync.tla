--------------------------- MODULE MCQuartzSync ---------------------------
(* Instances of QuartzSync for TLC. *)
EXTENDS QuartzSync, TLC

CONSTANTS i1, i2, w1, w2, cron, delay

OneInstance == {i1}
TwoInstances == {i1, i2}
OneWorker == {w1}
TwoWorkers == {w1, w2}
OneEach == {cron, delay}
TheDelay == {delay}

\* Workers are interchangeable, and so are instances.
MCSymmetry == Permutations(Worker) \cup Permutations(Instance)

=============================================================================
