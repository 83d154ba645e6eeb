---------------------------- MODULE MCFeedback ----------------------------
(* Instances of Feedback for TLC. *)
EXTENDS Feedback, TLC

CONSTANTS e1, e2, alice, bob, domain, linkdomain, url, home, homehost, file

\* db.py and policy_engine.py:9-31: the policies the system is seeded with.
DefaultPolicies ==
  {[id |-> 1, keys |-> {"min_risk_score"}, minRisk |-> 80, action |-> "quarantine", severity |-> "Critical"],
   [id |-> 2, keys |-> {"threat_type_contains"}, minRisk |-> 0, action |-> "hold_for_review", severity |-> "High"],
   [id |-> 3, keys |-> {"feature_true"}, minRisk |-> 0, action |-> "quarantine", severity |-> "High"]}

\* Nothing tells analysts apart.
AnalystSymmetry == Permutations(Analysts)

MCBlockable == {url, home, homehost, file}
MCDomainOf == [i \in {url, home, homehost} |-> IF i = url THEN linkdomain ELSE domain]

\* Two mails of one domain.  e1 links to a page on a host with a non-ASCII name,
\* which DOMAIN_RE does not take for a domain, and has an attachment; e2 is a BEC
\* mail that links to a page of its own domain first, whose URL and host are two
\* IOCs, then to the page of e1, and carries a malicious attachment.
MCFacts ==
  [e \in {e1, e2} |->
     IF e = e1
     THEN [sender |-> alice, domain |-> domain, iocs |-> {url, file},
           urls |-> <<linkdomain>>, risk |-> 75, url |-> 20, bec |-> FALSE, attach |-> 0]
     ELSE [sender |-> bob, domain |-> domain, iocs |-> {home, homehost, url},
           urls |-> <<domain, linkdomain>>, risk |-> 40, url |-> 20, bec |-> TRUE, attach |-> 80]]

\* The same without the hold policy's say on e2.
MCFactsPlain == [MCFacts EXCEPT ![e2].bec = FALSE]

=============================================================================
