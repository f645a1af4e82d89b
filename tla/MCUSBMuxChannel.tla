-------------------------- MODULE MCUSBMuxChannel ---------------------------
(* The start thread and a few clients on one usbmuxd connection.           *)
EXTENDS USBMuxChannel

CONSTANT Brief   \* the clients that send once; the other threads send twice

MCCalls == [t \in Threads |-> IF t \in Brief THEN 1 ELSE 2]
=============================================================================
