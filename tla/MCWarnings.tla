----------------------------- MODULE MCWarnings -----------------------------
(* Three devices; a trusted stick, and the worst an event alone can show:   *)
(* the same windows end in alerts of every severity.                        *)
EXTENDS Warnings, TLC

MCFactSet == {{"trusted"}, EventFact}

(* Nothing tells the devices apart.                                          *)
MCSwap == Permutations(Device)
=============================================================================
