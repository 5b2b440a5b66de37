---------------------------- MODULE MCUSBMonitor ----------------------------
(* A plug, its disk follow-up and the unplug.                               *)
EXTENDS USBMonitor

MCPlugAndDisk == {1, 2}
MCDisk == {2}
=============================================================================
