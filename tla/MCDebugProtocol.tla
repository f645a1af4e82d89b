--------------------------- MODULE MCDebugProtocol ---------------------------
(* A small instance of DebugProtocol for TLC: digits to base 4, an answer whose
   checksum is 21, one of 10, which ends in a zero, and one of 00. *)
EXTENDS DebugProtocol

MCContents == {"OK", "E1", "E2"}
MCValue == [p \in MCContents |-> CASE p = "OK" -> 9 [] p = "E1" -> 4 [] OTHER -> 16]
=============================================================================
