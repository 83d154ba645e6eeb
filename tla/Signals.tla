------------------------------ MODULE Signals ------------------------------
(***************************************************************************)
(* What the detector (services/ai_detector.py) measures on a message before *)
(* any model is asked: wording, authentication, domain intelligence,        *)
(* business-email-compromise signals, instructions to the scanner, and the  *)
(* match against the technique corpus (framework/phish_corpus.py).  Each    *)
(* layer is a score of 0..100.  Text is abstracted to the facts the layers  *)
(* look for, so a fact here is what a regular expression or a word list     *)
(* decides there.                                                           *)
(***************************************************************************)
EXTENDS Integers

CONSTANTS
  Host,            \* registered domain -> [ip, idn : BOOLEAN, typo : 0, 60, 75 or 85]
  Lures, Brands,   \* pretexts and impersonated brands the corpus knows
  HighValueLures,  \* pretexts where the request itself is the fraud
  Generic,         \* the brand "generic_vendor"
  Techniques,      \* the corpus: [id, lure, brand, evasion, severity]
  NoUrl            \* a message without a URL

Score   == 0..100
Domains == DOMAIN Host

\* The first URL: its registered domain, words in it, a brand as a subdomain
\* and a non-ASCII subdomain.
Url == [domain : Domains, keywords : 0..6, brandHost : BOOLEAN, idnHost : BOOLEAN]

\* The text, and counts over all URLs (IP hosts, shorteners, suspicious
\* top-level domains, brands inside a domain name).
Text == [hidden : BOOLEAN, blob : BOOLEAN, mismatch : BOOLEAN, payment : BOOLEAN,
         newAccount : BOOLEAN, secrecy : BOOLEAN, solicits : BOOLEAN,
         urgency : 0..6, becWords : Nat, injections : Nat,
         lures : SUBSET Lures, brands : SUBSET Brands]
Links == [ips : Nat, shorteners : Nat, badTlds : Nat, brandWords : Nat]
Verdicts == {"pass", "fail", "unknown"}
Auth == [spf : Verdicts, dkim : Verdicts, dmarc : Verdicts]

\* themed: most security words in the domain of the sender or of a URL.
Message == [first : Url \cup {NoUrl}, links : Links, text : Text, auth : Auth,
            reply : {"same", "other", "lookalike"}, themed : Nat]

ASSUME SignalsAssumption ==
  /\ Host \in [Domains -> [ip : BOOLEAN, idn : BOOLEAN, typo : {0, 60, 75, 85}]]
  /\ NoUrl \notin Url
  /\ HighValueLures \subseteq Lures
  /\ Techniques \subseteq [id : Nat, lure : Lures, brand : Brands \cup {Generic},
                           evasion : STRING, severity : Score]
  \* build_phishing_corpus.py rates every high-value pretext,
  /\ \A l \in HighValueLures : \E t \in Techniques : t.lure = l
  \* starts at a severity of 72, and lists a lookalike of every brand it lists
  /\ \A t \in Techniques :
       /\ t.severity >= 70
       /\ \E u \in Techniques : u.lure = t.lure /\ u.brand = t.brand /\ u.evasion = "lookalike_domain"

Higher(x, y) == IF x >= y THEN x ELSE y
Lower(x, y)  == IF x <= y THEN x ELSE y
Points(c, n) == IF c THEN n ELSE 0
HasUrl(m)    == m.first # NoUrl

----------------------------------------------------------------------------
(* Authentication.  A cloud connector reads "none" and errors as unknown;    *)
(* the IMAP watcher takes any word but "pass" for a failure and a message    *)
(* without an SPF or DKIM result for one that passed.                        *)

Words == {"pass", "fail", "none", "absent"}
CloudAuth(words) ==
  [k \in DOMAIN words |-> IF words[k] \in {"pass", "fail"} THEN words[k] ELSE "unknown"]
ImapAuth(words) ==
  [k \in DOMAIN words |->
     CASE words[k] = "pass"   -> "pass"
       [] words[k] = "absent" -> IF k = "dmarc" THEN "unknown" ELSE "pass"
       [] OTHER               -> "fail"]

\* layer2_auth_check
AuthScore(auth) ==
  Points(auth.spf = "fail", 20) + Points(auth.dkim = "fail", 20)
    + Points(auth.dmarc = "fail", 30)

\* layer1_heuristics
HeuristicScore(m) ==
  Lower(100, Points(m.text.hidden, 25) + 15 * m.text.urgency + Points(m.text.blob, 20)
             + Points(m.text.mismatch, 35) + 30 * m.links.ips + 20 * m.links.shorteners
             + 25 * m.links.badTlds + 30 * m.links.brandWords)

----------------------------------------------------------------------------
(* layer3_domain_intel, of the first URL only.  What WHOIS says is an age in *)
(* days or NoAge (no date, or the lookup raises: the 20 points the code has  *)
(* for a failed lookup compare "xyz" with ".xyz" and are never given).       *)
NoAge == -1
Ages  == {NoAge} \cup Nat

AgePoints(age) ==
  CASE age = NoAge     -> 0
    [] age \in 0..2    -> 70
    [] age \in 3..13   -> 50
    [] age \in 14..29  -> 30
    [] age \in 30..89  -> 15
    [] OTHER           -> 0
TypoPoints(u)  == Lower(80, Higher(Host[u.domain].typo, Points(u.brandHost, 50)))
NonAscii(u)    == Host[u.domain].idn \/ u.idnHost
Intel == [score : Score, target : BOOLEAN, idn : BOOLEAN, age : Ages]

\* Mutation: the sum is stored before it is capped.
UncappedIntel(u, age) ==
  [score  |-> Lower(25, 5 * u.keywords) + Points(Host[u.domain].ip, 60)
              + Points(NonAscii(u), 70) + TypoPoints(u) + AgePoints(age),
   target |-> u.brandHost \/ Host[u.domain].typo > 0,
   idn    |-> NonAscii(u),
   age    |-> age]

DomainIntel(u, age) ==
  [score  |-> Lower(100, Lower(25, 5 * u.keywords) + Points(Host[u.domain].ip, 60)
                         + Points(NonAscii(u), 70) + TypoPoints(u) + AgePoints(age)),
   target |-> u.brandHost \/ Host[u.domain].typo > 0,
   idn    |-> NonAscii(u),
   age    |-> age]
NoIntel == [score |-> 0, target |-> FALSE, idn |-> FALSE, age |-> NoAge]

----------------------------------------------------------------------------
\* detect_bec_signals
BecScore(m) ==
  Lower(100, Lower(45, 7 * m.text.becWords)
             + Points(m.reply # "same", 25) + Points(m.reply = "lookalike", 25)
             + Points(m.text.payment, 20) + Points(m.text.newAccount, 20)
             + Points(m.text.secrecy, 15))

\* detect_prompt_injection: one attempt is decisive, more saturate.
InjectionScore(m) ==
  IF m.text.injections = 0 THEN 0 ELSE Lower(100, 60 + 15 * m.text.injections)

\* _themed_domain_score
ThemedScore(m) == IF m.themed >= 3 THEN 78 ELSE IF m.themed = 2 THEN 60 ELSE 0

\* _auth_floor: an unauthenticated sender who asks for an action on a link.
AuthFloor(m) ==
  LET auth == AuthScore(m.auth)
      asks == m.text.solicits
  IN  IF ~HasUrl(m) THEN 0
      ELSE Higher(Points(auth >= 70, 80),
                  Higher(Points(auth >= 50 /\ asks, 82),
                         Points(m.links.badTlds > 0 /\ (auth >= 40 \/ asks), 76)))

----------------------------------------------------------------------------
(* match_email.  The detector hands it no scanned attachments and no BEC     *)
(* features, which leaves four of the evasions it knows.                     *)
SeenEvasions(m, intel) ==
  (IF intel.target \/ m.links.brandWords > 0 THEN {"lookalike_domain", "homoglyph"} ELSE {})
  \cup (IF m.links.shorteners > 0 THEN {"url_shortener"} ELSE {})
  \cup (IF intel.age \in 0..29 THEN {"new_domain"} ELSE {})

\* With evasions in sight only a listed (lure, brand, evasion) counts; without,
\* the first listed variant of each pretext that names a brand in sight.
Hits(lures, brands, evasions) ==
  IF evasions # {}
    THEN {t \in Techniques : /\ t.lure \in lures /\ t.evasion \in evasions
                             /\ t.brand \in IF brands = {} THEN {Generic} ELSE brands}
    ELSE {t \in Techniques :
            /\ t.lure \in lures /\ t.brand \in brands
            /\ \A s \in Techniques : s.lure = t.lure /\ s.brand \in brands => t.id <= s.id}

Worst(hits) ==
  LET severities == {t.severity : t \in hits}
  IN  IF hits = {} THEN 0
      ELSE CHOOSE n \in severities : \A k \in severities : n >= k

CorpusMatch(m, intel) ==
  LET lures     == m.text.lures
      brands    == m.text.brands
      evasions  == SeenEvasions(m, intel)
      highValue == lures \cap HighValueLures # {}
      hits      == Hits(lures, brands, evasions)
  IN  IF lures = {} \/ (brands = {} /\ evasions = {} /\ ~highValue)
        THEN [score |-> 0, matched |-> FALSE, highValue |-> FALSE]
      ELSE IF brands = {} /\ evasions = {}
        THEN [score |-> 65, matched |-> TRUE, highValue |-> TRUE]
      ELSE [score |-> Worst(hits), matched |-> hits # {}, highValue |-> highValue]

=============================================================================
