-------------------------- MODULE MCDeviceRegistry --------------------------
(* One reader of a list of up to three connections.                        *)
EXTENDS DeviceRegistry
=============================================================================
