----------------------------- MODULE MCDetector -----------------------------
(* Instances of Detector for TLC. *)
EXTENDS Detector, Corpus

CONSTANTS lookalike, punycode, shared, listed

\* A domain that contains a brand, a punycode domain, and a hosting domain on
\* which anyone may have a page.
MCHost ==
  [d \in {lookalike, punycode, shared} |->
     [ip |-> FALSE, idn |-> d = punycode, typo |-> IF d = lookalike THEN 75 ELSE 0]]

\* Two pretexts of the corpus, one delivered as a file, which has no variant for
\* a new domain, and one whose request is the fraud; of their variants those the
\* detector can tell, and the first.
MCLures ==
  <<[lure |-> "voicemail", brands |-> <<"microsoft365">>, severity |-> 76, byFile |-> TRUE],
    [lure |-> "vendor_bank_change", brands |-> <<"generic_vendor">>, severity |-> 92,
     byFile |-> FALSE]>>
Attached(i, e, n) == [id |-> i, lure |-> "voicemail", brand |-> "microsoft365",
                  evasion |-> e, severity |-> n]
Linked(i, e, n) == [id |-> i, lure |-> "vendor_bank_change", brand |-> "generic_vendor",
                  evasion |-> e, severity |-> n]
MCTechniques ==
  {Attached(1, "html_smuggling", 86), Attached(9, "lookalike_domain", 82),
   Attached(10, "homoglyph", 84), Attached(12, "url_shortener", 80),
   Linked(13, "lookalike_domain", 98), Linked(14, "homoglyph", 99),
   Linked(16, "url_shortener", 96), Linked(24, "new_domain", 98)}
ASSUME TechniquesAreBuilt ==
  MCTechniques = {t \in Build(MCLures) : t.evasion \in
    {"html_smuggling", "lookalike_domain", "homoglyph", "url_shortener", "new_domain"}}

Page(d)   == [domain |-> d, keywords |-> 0, brandHost |-> FALSE, idnHost |-> FALSE]
Login(d)  == [domain |-> d, keywords |-> 3, brandHost |-> TRUE, idnHost |-> FALSE]
\* A page under a subdomain with a letter that only looks Latin.
Foreign(d) == [Page(d) EXCEPT !.idnHost = TRUE]
MCOtherUrls == {Page(lookalike), Login(shared)}

Plain == [hidden |-> FALSE, blob |-> FALSE, mismatch |-> FALSE, payment |-> FALSE,
          newAccount |-> FALSE, secrecy |-> FALSE, solicits |-> FALSE,
          urgency |-> 0, becWords |-> 0, injections |-> 0, lures |-> {}, brands |-> {}]
Asks == [Plain EXCEPT !.solicits = TRUE]
Texts ==
  {Plain, Asks,
   [Plain EXCEPT !.hidden = TRUE],
   [Plain EXCEPT !.injections = 1],
   [Asks EXCEPT !.urgency = 5],
   [Asks EXCEPT !.lures = {"voicemail"}, !.brands = {"microsoft365"}],
   [Plain EXCEPT !.lures = {"vendor_bank_change"}],
   [Plain EXCEPT !.lures = {"voicemail", "vendor_bank_change"}, !.brands = {"microsoft365"}, !.payment = TRUE,
                 !.newAccount = TRUE, !.becWords = 5]}
Words2(w) == [spf |-> w, dkim |-> w, dmarc |-> w]
Auths == {ImapAuth(Words2("absent")), ImapAuth(Words2("none")), CloudAuth(Words2("fail")),
          CloudAuth([spf |-> "fail", dkim |-> "none", dmarc |-> "fail"])}

LinksOf(u) ==
  [ips |-> 0, shorteners |-> 0, badTlds |-> 0,
   brandWords |-> IF u = NoUrl THEN 0 ELSE IF Host[u.domain].typo = 75 THEN 1 ELSE 0]
MCMails ==
  {[first |-> u, links |-> LinksOf(u), text |-> t, auth |-> a, reply |-> "same", themed |-> 0] :
     u \in {NoUrl, Page(lookalike), Page(punycode), Page(shared)}, t \in Texts, a \in Auths}
  \cup
  {[first |-> Foreign(shared), links |-> LinksOf(Page(shared)), text |-> t, auth |-> a,
    reply |-> "same", themed |-> 0] : t \in {Plain, Asks}, a \in Auths}
  \cup
  {[first |-> Page(shared), links |-> [LinksOf(Page(shared)) EXCEPT !.badTlds = n],
    text |-> t, auth |-> ImapAuth(Words2("absent")), reply |-> r, themed |-> k] :
     n \in 0..1, t \in {Plain, Asks}, r \in {"same", "lookalike"}, k \in {0, 3}}

MCAnswers ==
  {NoAnswer,
   [score |-> 0, confidence |-> 95, label |-> "Safe"],
   [score |-> 60, confidence |-> 70, label |-> "vague"],
   [score |-> 70, confidence |-> 80, label |-> "named"],
   [score |-> 90, confidence |-> 90, label |-> "BEC"]}

Harmless == [kind |-> "document", claimsPdf |-> TRUE, claimsDoc |-> FALSE, double |-> FALSE,
             magic |-> "pdf", macros |-> "none", active |-> FALSE, locked |-> FALSE,
             carriesExecutable |-> FALSE, blocked |-> FALSE, virus |-> FALSE]
MCFiles == {[Harmless EXCEPT !.kind = "archive", !.claimsPdf = FALSE, !.magic = "zip",
                             !.carriesExecutable = TRUE]}

MCReputations == {-60, 60}
MCPolicies ==
  {[id |-> 1, keys |-> {"min_risk_score"}, minRisk |-> 80, action |-> "quarantine", severity |-> "Critical"],
   [id |-> 2, keys |-> {"threat_type_contains"}, minRisk |-> 0, action |-> "hold_for_review", severity |-> "High"],
   [id |-> 3, keys |-> {"feature_true"}, minRisk |-> 0, action |-> "quarantine", severity |-> "High"]}
MCAges == {NoAge, 1, 20}

=============================================================================
