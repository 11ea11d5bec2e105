-------------------------- MODULE MCPlatformClients --------------------------
(* Small instances of PlatformClients: two threads of a session.           *)
EXTENDS PlatformClients

CONSTANTS t1, t2
=============================================================================
