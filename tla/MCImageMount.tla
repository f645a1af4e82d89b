----------------------------- MODULE MCImageMount -----------------------------
(* A small instance of ImageMount for TLC: an image of three pieces, the last a
   short one, and one whose path is a link that is shorter than it. *)
EXTENDS ImageMount

MCLength == [i \in Images |-> IF i = "developer" THEN 5 ELSE 4]
=============================================================================
