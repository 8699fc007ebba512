---------------------------- MODULE MCFilterPath ----------------------------
(* Two frames from each side and two of the filter's own.                   *)
EXTENDS FilterPath, TLC
CONSTANTS u1, u2, d1, d2, o1, o2
UpFrames == {u1, u2}
DownFrames == {d1, d2}
OwnFrames == {o1, o2}
Frames == Permutations(UpFrames) \cup Permutations(DownFrames) \cup Permutations(OwnFrames)
=============================================================================
