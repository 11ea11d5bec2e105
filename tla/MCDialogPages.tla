--------------------------- MODULE MCDialogPages ---------------------------
(* Small instances of DialogPages: three resources, two types.             *)
EXTENDS DialogPages

CONSTANTS x1, x2, x3
=============================================================================
