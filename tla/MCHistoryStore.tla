--------------------------- MODULE MCHistoryStore ---------------------------
(* Both histories grow past their caps, three events and two alerts.        *)
EXTENDS HistoryStore

CONSTANT report

MCMaxRecords == [h \in History |-> IF h = "events" THEN 3 ELSE 2]
MCFound == {[h \in History |-> {}], [h \in History |-> 1 .. 4]}
=============================================================================
