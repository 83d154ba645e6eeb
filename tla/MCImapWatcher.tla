--------------------------- MODULE MCImapWatcher ---------------------------
(* Two mailboxes, the default policies and detections that cover every      *)
(* outcome of persist_detection.                                            *)
EXTENDS ImapWatcher

MCPolicies ==
  { [id |-> 1, keys |-> {"min_risk_score"}, minRisk |-> 80,
     action |-> "quarantine", severity |-> "Critical"],
    [id |-> 2, keys |-> {"threat_type_contains"}, minRisk |-> 0,
     action |-> "hold_for_review", severity |-> "High"],
    [id |-> 3, keys |-> {"feature_true"}, minRisk |-> 0,
     action |-> "quarantine", severity |-> "High"] }

Clean == [risk |-> 10, url |-> 0, bec |-> FALSE, injected |-> FALSE,
          hits |-> {}, attach |-> 0, known |-> {}]

Suspicious(x) == [Clean EXCEPT !.risk = 50, !.hits = x]
Critical(x)   == [Clean EXCEPT !.risk = 85, !.hits = x]
HeldBec(r)    == [Clean EXCEPT !.bec = TRUE, !.risk = r]

MCDetections == << {Suspicious({"lure"})},
                   {Critical({"known_bad"}), HeldBec(20)},
                   {Critical({"known_bad"}), HeldBec(75)},
                   {Suspicious({"lure"})} >>

MCBoxOf == [m \in Msgs |-> IF m <= 2 THEN "alice" ELSE "bob"]

=============================================================================
