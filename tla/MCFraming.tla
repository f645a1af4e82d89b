------------------------------- MODULE MCFraming -------------------------------
(* Headers of two bytes, messages of two; a stray header asks for nothing, or for
   more than a message.  There is room for one frame and part of the second's
   header, or for part of its message. *)
EXTENDS Framing

MCLengths == {2}
MCRooms == {5, 7}
MCStrays == {0, 1, 3}
=============================================================================
