------------------------------ MODULE MCPreview ------------------------------
(* Small instances of Preview: a link to a resource of the adaptor and one *)
(* to a resource of another server.                                        *)
EXTENDS Preview

CONSTANTS own, foreign
=============================================================================
