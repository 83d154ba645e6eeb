------------------------------ MODULE Verdict ------------------------------
(***************************************************************************)
(* The decision persist_detection (services/ingest.py) takes on one        *)
(* analysed message: which policy applies, what the final score is, whether *)
(* the message is a threat, the status its row gets, whether a case is      *)
(* opened and which SIEM events are raised.  Every ingestion path (IMAP     *)
(* watcher, cloud connectors, API, user report) goes through it.            *)
(*                                                                         *)
(* A detection is the record                                               *)
(*   risk      final_risk_score of analyze_email_hybrid                    *)
(*   url       heuristic_score (the url_threat_score column)               *)
(*   bec       threat_type contains "BEC"                                  *)
(*   injected  features["prompt_injection_detected"]                       *)
(*   hits      the intel indicators its IOCs match (live rows)             *)
(*   attach    the highest risk score of its scanned attachments           *)
(*   known     the reputation scores learned for its sender and URLs       *)
(***************************************************************************)
EXTENDS Integers

CONSTANTS
  Policies,      \* enabled rows of the tenant's policies table
  Blocked,       \* indicators whose verdict is "block"
  SiemMinScore   \* siem_config()["min_score"]

Actions    == {"quarantine", "hold_for_review", "allow"}
Severities == {"Critical", "High", "Medium", "Low"}

\* A policy row: its conditions are the keys it sets ("unsupported" stands for
\* any the engine does not know); minRisk counts when "min_risk_score" is one.
Policy == [id : Nat, keys : SUBSET {"min_risk_score", "threat_type_contains",
                                    "feature_true", "sender_domain", "unsupported"},
           minRisk : 0..100, action : Actions, severity : Severities]

ASSUME VerdictAssumption == Policies \subseteq Policy /\ SiemMinScore \in Int

Larger(a, b)  == IF a >= b THEN a ELSE b
Smaller(a, b) == IF a <= b THEN a ELSE b

----------------------------------------------------------------------------
(* framework/policy_engine.py *)

\* _matches: a policy without conditions, or with a key the engine does not
\* support, matches nothing; otherwise every condition it sets must hold.  The
\* analysis it looks at carries no "sender", so "sender_domain" never holds.
Matches(p, d) ==
  /\ p.keys # {}
  /\ p.keys \cap {"unsupported", "sender_domain"} = {}
  /\ "min_risk_score" \in p.keys => d.risk >= p.minRisk
  /\ "threat_type_contains" \in p.keys => d.bec
  /\ "feature_true" \in p.keys => d.injected

Priority == [quarantine |-> 3, hold_for_review |-> 2, allow |-> 1]

\* apply_policies: the matching policy of highest priority, the first by id
\* among equals; "allow"/"Low" when none matches.
PolicyResult(d) ==
  LET matching == {p \in Policies : Matches(p, d)}
      best == CHOOSE p \in matching :
                \A q \in matching :
                  \/ Priority[p.action] > Priority[q.action]
                  \/ Priority[p.action] = Priority[q.action] /\ p.id <= q.id
  IN  IF matching = {} THEN [action |-> "allow", severity |-> "Low"]
      ELSE [action |-> best.action, severity |-> best.severity]

----------------------------------------------------------------------------
(* framework/threat_intel.py and framework/learning.py *)

IntelBlock(d) == d.hits \cap Blocked # {}

\* apply_reputation: the worst learned score decides first, then the best.
ReputationDelta(known) ==
  IF \E s \in known : s >= 60 THEN 25
  ELSE IF \E s \in known : s <= -60 THEN -25
  ELSE 0

----------------------------------------------------------------------------
(* services/ingest.py *)

\* "A blocklist match is decisive": at least 90.
BlockFloor(score, block) == IF block THEN Larger(score, 90) ELSE score

\* "A malicious attachment is also decisive": at least the attachment's risk.
AttachmentFloor(score, attach) ==
  IF attach >= 80 THEN Larger(score, attach) ELSE score

\* The learned adjustment comes last and is clamped to 0..100.
Adjusted(score, delta) ==
  IF delta = 0 THEN score ELSE Larger(0, Smaller(100, score + delta))

FinalScore(d) ==
  Adjusted(AttachmentFloor(BlockFloor(d.risk, IntelBlock(d)), d.attach),
           ReputationDelta(d.known))

IsThreat(d) ==
  \/ FinalScore(d) > 70
  \/ d.url > 70
  \/ PolicyResult(d).action = "quarantine"
  \/ IntelBlock(d)

\* Mutation: a status no reader of the emails table knows.
StatusMisspelt(d) ==
  IF PolicyResult(d).action = "hold_for_review" /\ ~IntelBlock(d)
    THEN "Held" ELSE IF IsThreat(d) THEN "Quarantined" ELSE "Allowed"

\* A hold policy wins over the quarantine unless the blocklist matched.
Status(d) ==
  IF PolicyResult(d).action = "hold_for_review" /\ ~IntelBlock(d)
    THEN "Needs Review"
  ELSE IF IsThreat(d) THEN "Quarantined"
  ELSE "Allowed"

Statuses == {"Quarantined", "Needs Review", "Allowed"}

OpensCase(d) == IsThreat(d) /\ PolicyResult(d).severity \in {"Critical", "High"}

\* The SIEM events submitted: the alert of a threat, the extra event of the
\* default "quarantine" playbook, or the event of the suspicious band.
SiemEvents(d) ==
  IF IsThreat(d)
    THEN {"email_alert"} \cup (IF PolicyResult(d).action = "quarantine"
                                 THEN {"critical_email"} ELSE {})
    ELSE IF FinalScore(d) >= SiemMinScore THEN {"email_suspicious"}
    ELSE {}

=============================================================================
