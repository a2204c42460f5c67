---------------------------- MODULE MCFileStore ----------------------------
(* Instances of FileStore for TLC: three directories on disk, one of which   *)
(* cannot be used, and a bucket.                                             *)
EXTENDS FileStore

CONSTANTS s1, s2, c1, c2, good, other, bad, bucket

MCSlot == {s1, s2}
MCConfig == {c1, c2}
MCContent == {good, other, bad, bucket}
MCLocal == {good, other, bad}
MCUsable == {good, other, bucket}

MCSymmetry == Permutations(Slot) \cup Permutations({good, other})

=============================================================================
