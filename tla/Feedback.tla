------------------------------ MODULE Feedback ------------------------------
(***************************************************************************)
(* The feedback loop over stored emails: ingestion decides with the         *)
(* tenant's blocklist and learned reputation (services/ingest.py), analysts *)
(* review, release and delete emails (api/router.py), and their verdicts    *)
(* change the blocklist and the reputation (framework/learning.py,          *)
(* framework/threat_intel.py) that later emails are decided with.           *)
(*                                                                         *)
(* Each COMMIT is a step.  POST /emails/{id}/review is three transactions:  *)
(* the verdict, what is learned from it, and the blocklisting; the email    *)
(* may be reviewed, released or deleted by somebody else between them, and  *)
(* an exception after the first is logged and swallowed.                    *)
(***************************************************************************)
EXTENDS Integers, Sequences, FiniteSets

CONSTANTS
  Emails,
  Analysts,
  Indicators,    \* values IOCs can have
  Blockable,     \* those of a type auto_block_iocs promotes
  DomainOf,      \* url and domain indicators -> registered domain
  Facts,         \* email -> sender, sender domain, IOCs, the registered domains
                 \* of its URLs in order, and what analysis found
  UrlsLookedUp,  \* URLs apply_reputation looks at (5)
  Policies, SiemMinScore,
  MaxReviews,    \* bound: verdicts in a behaviour
  MaxEdits,      \* bound: indicators edited by hand in a behaviour
  MaxFaults      \* bound: failed transactions in a behaviour

V == INSTANCE Verdict WITH Blocked <- Indicators

\* The registered domains an email names, in a URL or by themselves.
Links(e) == {DomainOf[i] : i \in Facts[e].iocs \cap DOMAIN DomainOf}

ASSUME FeedbackAssumption ==
  /\ Blockable \subseteq Indicators
  /\ DOMAIN DomainOf \subseteq Indicators
  /\ \A e \in Emails : Facts[e].iocs \subseteq Indicators /\ IsFiniteSet(Facts[e].iocs)
  /\ \A e \in Emails : Facts[e].urls \in Seq(Links(e))
  /\ UrlsLookedUp \in Nat /\ MaxReviews \in Nat /\ MaxEdits \in Nat /\ MaxFaults \in Nat

VARIABLES
  mail,        \* email -> its row and where its ingestion is
  quarantine,  \* emails with a quarantine row
  intel,       \* intel_indicators: indicator -> its verdict: "block", "other"
               \* (allow, suspicious) or "none" without a row
  rep,         \* reputation: kind and value -> score, 0 without a row
  review,      \* analyst -> the review request in progress
  verdicts,    \* history: the verdicts committed, in order
  edited,      \* history: indicators set or deleted by hand
  unlearned,   \* history: stored emails a review of which failed after its verdict
  emptied,     \* history: stored emails whose quarantine row was emptied
  released,    \* history: stored emails released
  faults

hist == <<verdicts, edited, unlearned, emptied, released>>
vars == <<mail, quarantine, intel, rep, review, hist, faults>>

Addr(e)   == <<"sender_addr", Facts[e].sender>>
Domain(e) == <<"sender_domain", Facts[e].domain>>
Keys == UNION {{Addr(e), Domain(e)} \cup {<<"url_domain", u>> : u \in Links(e)} : e \in Emails}

Verdicts == {"safe", "phishing", "review"}
ReviewStatus == [safe |-> "Marked Safe", phishing |-> "Confirmed Phishing", review |-> "Needs Review"]

IntelVerdicts == {"none", "block", "other"}

NoRow == [at |-> "new", blockers |-> {}, status |-> "none", reviewed |-> "none"]
NoReview == [step |-> "idle"]
Stored(e) == mail[e].at = "stored"

Row == [at : {"new", "enriched", "stored", "gone"},
        blockers : SUBSET Indicators,
        status : V!Statuses \cup {"none"},
        reviewed : {"none", "Released"} \cup {ReviewStatus[v] : v \in Verdicts}]
InProgress == [step : {"learn", "block"}, email : Emails, verdict : Verdicts]

TypeOK ==
  /\ mail \in [Emails -> Row]
  /\ quarantine \subseteq Emails
  /\ intel \in [Indicators -> IntelVerdicts]
  /\ rep \in [Keys -> -100..100]
  /\ review \in [Analysts -> {NoReview} \cup InProgress]
  /\ verdicts \in Seq([email : Emails, verdict : Verdicts])
  /\ edited \subseteq Indicators
  /\ unlearned \cup emptied \cup released \subseteq Emails
  /\ Len(verdicts) <= MaxReviews /\ faults \in 0..MaxFaults

Init ==
  /\ mail = [e \in Emails |-> NoRow]
  /\ quarantine = {}
  /\ intel = [i \in Indicators |-> "none"]
  /\ rep = [k \in Keys |-> 0]
  /\ review = [a \in Analysts |-> NoReview]
  /\ verdicts = <<>> /\ edited = {} /\ unlearned = {} /\ emptied = {} /\ released = {}
  /\ faults = 0

Fault == faults < MaxFaults /\ faults' = faults + 1

----------------------------------------------------------------------------
(* persist_detection *)

\* enrich: the indicators with verdict "block" among the email's IOCs, as the
\* transaction reads them.
Enrich(e) ==
  /\ mail[e].at = "new"
  /\ mail' = [mail EXCEPT ![e].at = "enriched",
                          ![e].blockers = {i \in Facts[e].iocs : intel[i] = "block"}]
  /\ UNCHANGED <<quarantine, intel, rep, review, hist, faults>>

\* What apply_reputation looks an email up with: its sender and the first URLs.
Values(e) ==
  {Facts[e].sender, Facts[e].domain}
  \cup {Facts[e].urls[n] : n \in {k \in DOMAIN Facts[e].urls : k <= UrlsLookedUp}}

\* It takes every row with one of these values, whatever the kind of the row.
Known(e) == {rep[k] : k \in {j \in Keys : j[2] \in Values(e)}}

Detection(e) ==
  [risk |-> Facts[e].risk, url |-> Facts[e].url, bec |-> Facts[e].bec, injected |-> FALSE,
   hits |-> mail[e].blockers, attach |-> Facts[e].attach, known |-> Known(e)]

\* Mutation: the hold policy is looked at first.
HoldFirst(e) ==
  IF V!PolicyResult(Detection(e)).action = "hold_for_review" THEN "Needs Review"
  ELSE V!Status(Detection(e))

DecidedStatus(e) == V!Status(Detection(e))

\* The rest of the transaction: decide, INSERT the rows, COMMIT.
Store(e) ==
  /\ mail[e].at = "enriched"
  /\ mail' = [mail EXCEPT ![e].at = "stored", ![e].status = DecidedStatus(e)]
  /\ quarantine' = IF V!IsThreat(Detection(e)) THEN quarantine \cup {e} ELSE quarantine
  /\ UNCHANGED <<intel, rep, review, hist, faults>>

----------------------------------------------------------------------------
(* POST /v1/emails/{id}/review *)

\* First transaction: the verdict of an email that exists.
Review(a, e, v) ==
  /\ review[a] = NoReview
  /\ Stored(e)
  /\ Len(verdicts) < MaxReviews
  /\ mail' = [mail EXCEPT ![e].reviewed = ReviewStatus[v]]
  /\ review' = [review EXCEPT ![a] = [step |-> "learn", email |-> e, verdict |-> v]]
  /\ verdicts' = Append(verdicts, [email |-> e, verdict |-> v])
  /\ UNCHANGED <<quarantine, intel, rep, edited, unlearned, emptied, released, faults>>

Clamp(n) == V!Larger(-100, V!Smaller(100, n))

\* Mutation: the upsert adds without GREATEST and LEAST.
Unclamped(k, delta) == rep[k] + delta

\* _bump
Bumped(k, delta) == Clamp(rep[k] + delta)

\* Mutation: the domain is trusted as much as the address.
FullSafeDelta(e, k) ==
  IF k \in {Addr(e), Domain(e)} THEN -40 ELSE 0

\* _SAFE_DELTA for the address, half of it for the domain.
SafeDelta(e, k) ==
  IF k = Addr(e) THEN -40 ELSE IF k = Domain(e) THEN -20 ELSE 0

\* _CONFIRMED_DELTA once for the sender's domain, and once for every url or
\* domain IOC: a URL and its own domain are two IOCs of one registered domain.
ConfirmedDelta(e, k) ==
  IF k = Domain(e) THEN 40
  ELSE 40 * Cardinality({i \in Facts[e].iocs \cap DOMAIN DomainOf : k = <<"url_domain", DomainOf[i]>>})

Learned(e, v) ==
  [k \in Keys |-> CASE v = "safe"     -> Bumped(k, SafeDelta(e, k))
                    [] v = "phishing" -> Bumped(k, ConfirmedDelta(e, k))
                    [] OTHER          -> rep[k]]

Finish(a) == review' = [review EXCEPT ![a] = NoReview]

\* Second transaction, learn_from_verdict; nothing when the email is gone.
Learn(a) ==
  /\ review[a] # NoReview /\ review[a].step = "learn"
  /\ LET e == review[a].email
         v == review[a].verdict
     IN /\ rep' = IF Stored(e) THEN Learned(e, v) ELSE rep
        /\ IF Stored(e) /\ v = "phishing"
             THEN review' = [review EXCEPT ![a].step = "block"]
             ELSE Finish(a)
  /\ UNCHANGED <<mail, quarantine, intel, hist, faults>>

\* Mutation: the IOCs whose reputation was bumped are taken for all of them.
LinkIocs(e) == Facts[e].iocs \cap DOMAIN DomainOf

\* The IOCs an email has rows for, of the types auto_block_iocs promotes.
PromotedIocs(e) == Facts[e].iocs \cap Blockable

\* Mutation: the list is rebuilt from the email at hand.
OnlyBlocked(e) ==
  [i \in Indicators |-> IF Stored(e) /\ i \in PromotedIocs(e) THEN "block" ELSE "none"]

\* auto_block_iocs: they become "block", whatever they were.
WithBlocked(e) ==
  [i \in Indicators |-> IF Stored(e) /\ i \in PromotedIocs(e) THEN "block" ELSE intel[i]]

\* Third transaction.
AutoBlock(a) ==
  /\ review[a] # NoReview /\ review[a].step = "block"
  /\ intel' = WithBlocked(review[a].email)
  /\ Finish(a)
  /\ UNCHANGED <<mail, quarantine, rep, hist, faults>>

\* The second or the third transaction raises; the handler answers success.
LearningFails(a) ==
  /\ review[a] # NoReview
  /\ Fault
  /\ unlearned' = unlearned \cup {e \in {review[a].email} : Stored(e)}
  /\ Finish(a)
  /\ UNCHANGED <<mail, quarantine, intel, rep, verdicts, edited, emptied, released>>

----------------------------------------------------------------------------
(* The other requests, a transaction each. *)

\* Mutation: only the quarantine row goes.
StatusKept(e) == mail[e].status

ReleasedStatus(e) == "Allowed"

\* POST /v1/emails/{id}/release
Release(e) ==
  /\ Stored(e)
  /\ quarantine' = quarantine \ {e}
  /\ mail' = [mail EXCEPT ![e].status = ReleasedStatus(e), ![e].reviewed = "Released"]
  /\ released' = released \cup {e}
  /\ UNCHANGED <<intel, rep, review, verdicts, edited, unlearned, emptied, faults>>

\* DELETE /v1/emails/{id}; the IOC rows go with the email (ON DELETE CASCADE).
Delete(e) ==
  /\ Stored(e)
  /\ quarantine' = quarantine \ {e}
  /\ mail' = [mail EXCEPT ![e] = [NoRow EXCEPT !.at = "gone"]]
  /\ unlearned' = unlearned \ {e} /\ emptied' = emptied \ {e} /\ released' = released \ {e}
  /\ UNCHANGED <<intel, rep, review, verdicts, edited, faults>>

\* DELETE /v1/quarantine/empty/all
EmptyQuarantine ==
  /\ quarantine # {}
  /\ quarantine' = {}
  /\ emptied' = emptied \cup quarantine
  /\ UNCHANGED <<mail, intel, rep, review, verdicts, edited, unlearned, released, faults>>

\* POST and DELETE /v1/intel/indicators
EditIntel(i, verdict) ==
  /\ intel[i] # verdict
  /\ Cardinality(edited \cup {i}) <= MaxEdits
  /\ intel' = [intel EXCEPT ![i] = verdict]
  /\ edited' = edited \cup {i}
  /\ UNCHANGED <<mail, quarantine, rep, review, verdicts, unlearned, emptied, released, faults>>

\* POST /v1/emails/{id}/remediate with block_ioc
Remediate(e) ==
  /\ Stored(e)
  /\ intel' = WithBlocked(e)
  /\ UNCHANGED <<mail, quarantine, rep, review, hist, faults>>

----------------------------------------------------------------------------
Ingest(e)  == Enrich(e) \/ Store(e)
Request(a) == Learn(a) \/ AutoBlock(a)

\* Everything arrived and no request is in progress.
Quiet ==
  /\ \A e \in Emails : mail[e].at \in {"stored", "gone"}
  /\ \A a \in Analysts : review[a] = NoReview
  /\ UNCHANGED vars

Next ==
  \/ \E e \in Emails : Ingest(e) \/ Release(e) \/ Delete(e) \/ Remediate(e)
  \/ \E a \in Analysts :
       \/ \E e \in Emails, v \in Verdicts : Review(a, e, v)
       \/ Request(a)
       \/ LearningFails(a)
  \/ EmptyQuarantine
  \/ \E i \in Indicators, verdict \in IntelVerdicts : EditIntel(i, verdict)
  \/ Quiet

Spec == Init /\ [][Next]_vars

----------------------------------------------------------------------------
(* Properties. *)

\* ingest.py:93 "A blocklist match is decisive": an email decided with a
\* blocklisted IOC is delivered only by an analyst's release, whatever the
\* policies hold and however trusted its sender has become meanwhile.
BlocklistIsDecisive ==
  \A e \in Emails :
    mail[e].at = "stored" /\ mail[e].blockers # {} /\ mail[e].status # "Quarantined" => e \in released

\* The quarantine table and the status column tell the same story: a listed
\* email is held back, and a "Quarantined" one is listed until the quarantine
\* is emptied (ingest.py:133-136, 218-222; router.py:621-623, 649-650, 704).
QuarantineIsConsistent ==
  \A e \in Emails :
    /\ e \in quarantine => Stored(e) /\ mail[e].status \in {"Quarantined", "Needs Review"}
    /\ Stored(e) /\ mail[e].status = "Quarantined" => e \in quarantine \cup emptied

\* "Confirmed Phishing" means something for later mail: once the review of an
\* email that still exists is over, each of its promotable IOCs is blocked,
\* unless somebody changed the indicator by hand or the learning failed
\* (router.py:687-696, learning.py:74-85, threat_intel.py:127-151).
ConfirmedIsBlocked ==
  \A e \in Emails :
    /\ Stored(e) /\ mail[e].reviewed = "Confirmed Phishing" /\ e \notin unlearned
    /\ \A a \in Analysts : review[a] # NoReview => review[a].email # e
    => \A i \in Facts[e].iocs \cap Blockable : intel[i] = "block" \/ i \in edited

\* The verdicts v given on mail of an address or a domain.
Given(v, k) ==
  {i \in DOMAIN verdicts : /\ verdicts[i].verdict = v
                           /\ k \in {Addr(verdicts[i].email), Domain(verdicts[i].email)}}

Trusted(e)  == V!ReputationDelta(Known(e)) < 0
KnownBad(e) == V!ReputationDelta(Known(e)) > 0

\* Trust is earned and so is distrust.  The score of an email is lowered only if
\* what it is looked up with was the address of two "Marked Safe" verdicts or the
\* domain of three, and raised only if it was the sender's domain of two
\* confirmations or a domain one confirmed email names: rows are matched by
\* value, so an email that links to its own domain makes that known bad at once,
\* with 40 for the URL and 40 for its host (learning.py:27-31, 73-91, 99-126).
TrustIsEarned ==
  \A e \in Emails :
    /\ Trusted(e) => \E m \in Emails :
         \/ Facts[m].sender \in Values(e) /\ Cardinality(Given("safe", Addr(m))) >= 2
         \/ Facts[m].domain \in Values(e) /\ Cardinality(Given("safe", Domain(m))) >= 3
    /\ KnownBad(e) => \E m \in Emails :
         \/ Facts[m].domain \in Values(e) /\ Cardinality(Given("phishing", Domain(m))) >= 2
         \/ /\ Links(m) \cap Values(e) # {}
            /\ \E i \in DOMAIN verdicts : verdicts[i] = [email |-> m, verdict |-> "phishing"]

\* What an analyst blocked stays blocked until somebody edits the indicator:
\* no verdict, release or deletion takes a block away (threat_intel.py:93-124).
BlocksOnlyGrow ==
  [][\A i \in Indicators : intel[i] = "block" /\ intel'[i] # "block" => i \in edited']_vars

\* ingest.py:103 "A malicious attachment is also decisive".
AttachmentIsDecisive ==
  \A e \in Emails :
    Stored(e) /\ Facts[e].attach >= 80 /\ mail[e].status = "Allowed" => e \in released

=============================================================================
