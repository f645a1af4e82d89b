--------------------------- MODULE MCApplications ---------------------------
(* Small instances of Applications for TLC; the constants are in the cfg.  *)
EXTENDS Applications
=============================================================================
