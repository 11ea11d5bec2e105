------------------------ MODULE MCTrackedResourceSet ------------------------
(* Small instances of TrackedResourceSet: two device types of two          *)
(* organizations and two request threads.                                  *)
EXTENDS TrackedResourceSet, TLC

CONSTANTS t1, t2, o1, o2, m1, m2

MCOrgOf == m1 :> o1 @@ m2 :> o2

ThreadSymmetry == Permutations(Threads)
=============================================================================
