----------------------------- MODULE MC_UsbHost -----------------------------
(* The USB host with a few addresses and a few disturbances of the bus.    *)
EXTENDS UsbHost
=============================================================================
