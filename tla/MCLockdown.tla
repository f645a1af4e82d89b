----------------------------- MODULE MCLockdown -----------------------------
(* Small instances of Lockdown for TLC; the constants are in the cfg files. *)
EXTENDS Lockdown
=============================================================================
