---------------------- MODULE MCServiceProviderCatalog ----------------------
(* Two threads, two IoT Platform organizations and one of Bluemix.         *)
EXTENDS ServiceProviderCatalog, TLC

CONSTANTS t1, t2, i1, i2, b1

Symmetry == Permutations(Threads) \cup Permutations(IotOrgs)
=============================================================================
