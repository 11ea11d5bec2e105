------------------------ MODULE MCCredentialsFilter ------------------------
(* One or two threads, one session, up to four tokens and five logins.     *)
EXTENDS CredentialsFilter, TLC

CONSTANTS t1, t2, s1, k1, k2, k3, k4, l1, l2, l3, l4, l5

Symmetry == Permutations(Threads) \cup Permutations(Tokens) \cup Permutations(Logins)
=============================================================================
