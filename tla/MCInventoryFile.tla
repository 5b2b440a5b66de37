-------------------------- MODULE MCInventoryFile --------------------------
(* A monitor with its window's trust buttons, and the trust command.         *)
EXTENDS InventoryFile

MCUses == [t \in Thread |-> IF t = "command" THEN "command" ELSE "monitor"]
=============================================================================
