----------------------------- MODULE FrameContract -----------------------------
(***************************************************************************)
(* What the framing of SDMMD_Service.m promises those who receive through  *)
(* it, and the modules of the protocols above take for granted: the peer's *)
(* messages come one at a time, in order and whole; a receive that returns *)
(* none has taken none, or the stream is at its end.  The promise ends     *)
(* with a receive that gave up inside a message.                           *)
(***************************************************************************)
EXTENDS Naturals, Sequences

CONSTANT Messages   \* the messages, as numbers

VARIABLES
    pipe,     \* the messages sent and not received, in order
    ended,    \* the peer sends no more
    broken,   \* a receive gave up inside a message
    last      \* what the last receive returned, and the message (0: none)

vars == <<pipe, ended, broken, last>>

Init == pipe = <<>> /\ ended = FALSE /\ broken = FALSE
        /\ last = [result |-> "none", message |-> 0]

Put ==
    /\ ~ended
    /\ \E m \in Messages : pipe' = Append(pipe, m)
    /\ UNCHANGED <<ended, broken, last>>

End == ended' = TRUE /\ UNCHANGED <<pipe, broken, last>>

Get ==
    /\ pipe # <<>>
    /\ last' = [result |-> "success", message |-> Head(pipe)]
    /\ pipe' = Tail(pipe)
    /\ UNCHANGED <<ended, broken>>

\* Nothing came in time, or the stream ended: only here may a receive succeed
\* with no message
Miss ==
    /\ pipe = <<>>
    /\ \E result \in {"error", "invalidResponse"} \union {r \in {"success"} : ended} :
          last' = [result |-> result, message |-> 0]
    /\ UNCHANGED <<pipe, ended, broken>>

Break == pipe = <<>> /\ ~ended /\ broken' = TRUE

Next == Put \/ End \/ Get \/ Miss \/ Break \/ (broken /\ broken')

Spec == Init /\ [][Next]_vars
=============================================================================
