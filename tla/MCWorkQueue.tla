---------------------------- MODULE MCWorkQueue ----------------------------
(* Small instances of WorkQueue: three slots, the least size args.c allows. *)
EXTENDS WorkQueue, TLC

CONSTANTS j1, j2, j3, j4, p1, p2, c1, c2

ThreeJobs == {j1, j2, j3}
FourJobs  == {j1, j2, j3, j4}
JobSymmetry == Permutations(Jobs)
=============================================================================
