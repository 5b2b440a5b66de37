--------------------------- MODULE MCAlertManager ---------------------------
(* A small instance of AlertManager: one identified device and the shared    *)
(* key "unknown", one assessment per branch of _build_candidate.            *)
EXTENDS AlertManager

CONSTANTS d1, unknown, host

MCDevice == {d1}

MCAssessment == {
  [level |-> "CRITICAL", rules |-> {"RAPID_RECONNECT"}],
  [level |-> "HIGH", rules |-> {}],
  [level |-> "MEDIUM", rules |-> {"FIRST_SEEN_DEVICE", "MULTIPLE_NEW_DEVICES"}],
  [level |-> "LOW", rules |-> {"RAPID_RECONNECT"}],
  [level |-> "MEDIUM", rules |-> {"IDENTITY_INCONSISTENCY"}],
  [level |-> "MEDIUM", rules |-> {}],
  [level |-> "LOW", rules |-> {"FIRST_SEEN_DEVICE"}],
  [level |-> "LOW", rules |-> {}] }
=============================================================================
