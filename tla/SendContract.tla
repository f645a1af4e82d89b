---------------------------- MODULE SendContract ----------------------------
(***************************************************************************)
(* What -[SDMMD_USBMuxListener send:] promises its callers, whatever       *)
(* threads they run on: SDMMD_USBMuxListener.h says that on return the     *)
(* packet is either a response packet or an empty one.  Here a response is *)
(* a number: packets are numbered in the order in which they are taken off *)
(* the usbmuxd socket.  A call returns the number of a response that has   *)
(* arrived and that no other call was ever given, or NoResponse.           *)
(***************************************************************************)
EXTENDS Naturals

CONSTANT Threads      \* the threads that call send:

VARIABLES
    state,            \* state[t]: where thread t stands in its call
    unclaimed,        \* responses that arrived and that no call was given
    last,             \* the number of the last packet taken off the socket
    result            \* result[t]: what the call of t returned

contractVars == <<state, unclaimed, last, result>>

NoResponse == 0

Init ==
    /\ state = [t \in Threads |-> "idle"]
    /\ unclaimed = {}
    /\ last = 0
    /\ result = [t \in Threads |-> NoResponse]

\* Thread t passes a packet to send:.
Call(t) ==
    /\ state[t] = "idle"
    /\ state' = [state EXCEPT ![t] = "sending"]
    /\ UNCHANGED <<unclaimed, last, result>>

\* The next packet is read.  It is kept only when it is a response.
Arrive ==
    /\ last' = last + 1
    /\ unclaimed' \in {unclaimed, unclaimed \union {last + 1}}
    /\ UNCHANGED <<state, result>>

\* The call of t returns one unclaimed response, which nobody gets again, or
\* the empty packet.
Return(t) ==
    /\ state[t] = "sending"
    /\ state' = [state EXCEPT ![t] = "returned"]
    /\ \E n \in unclaimed \union {NoResponse} :
          /\ result' = [result EXCEPT ![t] = n]
          /\ unclaimed' = unclaimed \ {n}
    /\ UNCHANGED last

\* Thread t is done with what it was given.
Discard(t) ==
    /\ state[t] = "returned"
    /\ state' = [state EXCEPT ![t] = "idle"]
    /\ result' = [result EXCEPT ![t] = NoResponse]
    /\ UNCHANGED <<unclaimed, last>>

Next ==
    \/ Arrive
    \/ \E t \in Threads : Call(t) \/ Return(t) \/ Discard(t)

Spec == Init /\ [][Next]_contractVars
=============================================================================
