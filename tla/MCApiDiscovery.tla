-------------------------- MODULE MCApiDiscovery --------------------------
(* Instances of ApiDiscovery for TLC: two processes, and versions that add,  *)
(* replace and drop tags, one of them with two announcements of the API.     *)
EXTENDS ApiDiscovery, TLC

CONSTANTS i1, i2, t1, t2, t3

MCInstance == {i1, i2}
MCTag == {t1, t2, t3}
MCVersion == 1 .. 4
MCDeclared == << <<{t1}>>, <<{t1}, {t2}>>, <<{t3}>>, <<>> >>

MCSymmetry == Permutations(Instance)

=============================================================================
