--------------------------- MODULE FeedbackProofs ---------------------------
(***************************************************************************)
(* Proofs about Feedback, for any number of emails and analysts, any         *)
(* indicators, policies and interleaving: the blocklist decides and only     *)
(* grows, quarantine and status agree, a confirmation blocks, and trust is   *)
(* earned by one verdict at a time.                                         *)
(***************************************************************************)
EXTENDS Feedback, CountingLemmas

----------------------------------------------------------------------------
(* Lemmas about the operators. *)

\* A reputation score stays within -100..100 whatever is added to it.
LEMMA ClampBounds == ASSUME NEW n \in Int PROVE Clamp(n) \in -100..100
BY DEF Clamp, V!Larger, V!Smaller

\* A confirmation adds a whole number to every score.
LEMMA ConfirmedDeltaInt ==
  ASSUME NEW e \in Emails, NEW k PROVE ConfirmedDelta(e, k) \in Int
<1> DEFINE S == {i \in Facts[e].iocs \cap DOMAIN DomainOf : k = <<"url_domain", DomainOf[i]>>}
<1>1. IsFiniteSet(Facts[e].iocs)
  BY FeedbackAssumption
<1>2. IsFiniteSet(S)
  BY <1>1, FS_Subset
<1>3. Cardinality(S) \in Nat
  BY <1>2, FS_CardinalityType
<1> QED
  BY <1>3 DEF ConfirmedDelta

\* What a verdict teaches keeps every score a score.
LEMMA LearnedType ==
  ASSUME rep \in [Keys -> -100..100], NEW e \in Emails, NEW v
  PROVE  Learned(e, v) \in [Keys -> -100..100]
<1>1. SUFFICES ASSUME NEW k \in Keys
               PROVE  /\ Bumped(k, SafeDelta(e, k)) \in -100..100
                      /\ Bumped(k, ConfirmedDelta(e, k)) \in -100..100
                      /\ rep[k] \in -100..100
  BY DEF Learned
<1>2. rep[k] \in -100..100
  OBVIOUS
<1>3. SafeDelta(e, k) \in Int /\ ConfirmedDelta(e, k) \in Int
  BY ConfirmedDeltaInt DEF SafeDelta
<1>4. rep[k] + SafeDelta(e, k) \in Int /\ rep[k] + ConfirmedDelta(e, k) \in Int
  BY <1>2, <1>3
<1> QED
  BY <1>2, <1>4, ClampBounds DEF Bumped

\* The decision has one of three outcomes.
LEMMA DecidedStatusType == ASSUME NEW e PROVE DecidedStatus(e) \in V!Statuses
BY DEF DecidedStatus, V!Status, V!Statuses

\* A blocklisted IOC makes a threat of the email and quarantines it, whatever
\* the policies, the score and the reputation are.
LEMMA BlockersDecide ==
  ASSUME NEW e \in Emails, mail[e].blockers # {}, mail[e].blockers \subseteq Indicators
  PROVE  V!IsThreat(Detection(e)) /\ DecidedStatus(e) = "Quarantined"
<1>1. V!IntelBlock(Detection(e))
  BY DEF V!IntelBlock, Detection
<1>2. V!IsThreat(Detection(e))
  BY <1>1 DEF V!IsThreat
<1> QED
  BY <1>1, <1>2 DEF DecidedStatus, V!Status

\* An email is quarantined by status only if it is a threat, and a threat is
\* never delivered by the decision.
LEMMA ThreatStatus ==
  ASSUME NEW e
  PROVE  /\ DecidedStatus(e) = "Quarantined" => V!IsThreat(Detection(e))
         /\ V!IsThreat(Detection(e)) => DecidedStatus(e) \in {"Quarantined", "Needs Review"}
BY DEF DecidedStatus, V!Status

----------------------------------------------------------------------------
(* Types. *)

\* Every step keeps rows, indicators, scores and requests well formed.
THEOREM Typing == Spec => []TypeOK
<1>1. Init => TypeOK
  BY FeedbackAssumption, EmptySeq DEF Init, TypeOK, Row, NoRow, IntelVerdicts
<1>2. TypeOK /\ [Next]_vars => TypeOK'
  <2> SUFFICES ASSUME TypeOK, [Next]_vars PROVE TypeOK'
    OBVIOUS
  <2> USE DEF TypeOK
  <2>1. ASSUME NEW e \in Emails, Enrich(e) PROVE TypeOK'
    <3>1. {i \in Facts[e].iocs : intel[i] = "block"} \in SUBSET Indicators
      BY FeedbackAssumption
    <3> DEFINE row == [mail[e] EXCEPT !.at = "enriched", !.blockers = {i \in Facts[e].iocs : intel[i] = "block"}]
    <3>2. row \in Row
      BY <3>1, ZenonT(60) DEF Row
    <3>3. mail' = [mail EXCEPT ![e] = row]
      BY <2>1 DEF Enrich
    <3>4. mail' \in [Emails -> Row]
      BY <3>2, <3>3
    <3> QED
      BY <2>1, <3>4 DEF Enrich, hist
  <2>2. ASSUME NEW e \in Emails, Store(e) PROVE TypeOK'
    <3> DEFINE row == [mail[e] EXCEPT !.at = "stored", !.status = DecidedStatus(e)]
    <3>1. row \in Row
      BY DecidedStatusType, ZenonT(60) DEF Row
    <3>2. mail' = [mail EXCEPT ![e] = row]
      BY <2>2 DEF Store
    <3>3. mail' \in [Emails -> Row]
      BY <3>1, <3>2
    <3>4. quarantine' \subseteq Emails
      BY <2>2 DEF Store
    <3> QED
      BY <2>2, <3>3, <3>4 DEF Store, hist
  <2>3. ASSUME NEW e \in Emails, Release(e) PROVE TypeOK'
    <3> DEFINE row == [mail[e] EXCEPT !.status = ReleasedStatus(e), !.reviewed = "Released"]
    <3>1. row \in Row
      BY ZenonT(60) DEF Row, ReleasedStatus, V!Statuses
    <3>2. mail' = [mail EXCEPT ![e] = row]
      BY <2>3 DEF Release
    <3>3. mail' \in [Emails -> Row]
      BY <3>1, <3>2
    <3> QED
      BY <2>3, <3>3 DEF Release
  <2>4. ASSUME NEW e \in Emails, Delete(e) PROVE TypeOK'
    <3> DEFINE row == [NoRow EXCEPT !.at = "gone"]
    <3>1. row \in Row
      BY DEF Row, NoRow
    <3>2. mail' = [mail EXCEPT ![e] = row]
      BY <2>4 DEF Delete
    <3>3. mail' \in [Emails -> Row]
      BY <3>1, <3>2
    <3> QED
      BY <2>4, <3>3 DEF Delete
  <2>5. ASSUME NEW e \in Emails, Remediate(e) PROVE TypeOK'
    BY <2>5 DEF Remediate, WithBlocked, IntelVerdicts, hist
  <2>6. ASSUME NEW a \in Analysts, NEW e \in Emails, NEW v \in Verdicts, Review(a, e, v) PROVE TypeOK'
    <3>1. mail' \in [Emails -> Row]
      BY <2>6 DEF Review, Row
    <3>2. [step |-> "learn", email |-> e, verdict |-> v] \in InProgress
      BY DEF InProgress
    <3>3. review' \in [Analysts -> {NoReview} \cup InProgress]
      BY <2>6, <3>2 DEF Review
    <3> DEFINE given == [email |-> e, verdict |-> v]
    <3>4. given \in [email : Emails, verdict : Verdicts] /\ verdicts' = Append(verdicts, given)
      BY <2>6 DEF Review
    <3> HIDE DEF given
    <3>5. /\ verdicts' \in Seq([email : Emails, verdict : Verdicts])
          /\ Len(verdicts') = Len(verdicts) + 1
      BY <3>4, AppendProperties
    <3>6. Len(verdicts') <= MaxReviews
      BY <2>6, <3>5, FeedbackAssumption, LenProperties DEF Review
    <3> QED
      BY <2>6, <3>1, <3>3, <3>5, <3>6 DEF Review
  <2>7. ASSUME NEW a \in Analysts, Learn(a) PROVE TypeOK'
    <3>1. review[a] \in InProgress
      BY <2>7 DEF Learn
    <3>2. rep' \in [Keys -> -100..100]
      BY <2>7, <3>1, LearnedType DEF Learn, InProgress
    <3>3. review' \in [Analysts -> {NoReview} \cup InProgress]
      BY <2>7, <3>1 DEF Learn, Finish, InProgress
    <3> QED
      BY <2>7, <3>2, <3>3 DEF Learn, hist
  <2>8. ASSUME NEW a \in Analysts, AutoBlock(a) PROVE TypeOK'
    BY <2>8 DEF AutoBlock, WithBlocked, Finish, IntelVerdicts, hist
  <2>9. ASSUME NEW a \in Analysts, LearningFails(a) PROVE TypeOK'
    <3>1. review' \in [Analysts -> {NoReview} \cup InProgress]
      BY <2>9 DEF LearningFails, Finish
    <3>2. unlearned' \subseteq Emails
      BY <2>9 DEF LearningFails, InProgress
    <3>3. faults' \in 0..MaxFaults
      BY <2>9, FeedbackAssumption DEF LearningFails, Fault
    <3> QED
      BY <2>9, <3>1, <3>2, <3>3 DEF LearningFails
  <2>10. CASE EmptyQuarantine
    BY <2>10 DEF EmptyQuarantine
  <2>11. ASSUME NEW i \in Indicators, NEW w \in IntelVerdicts, EditIntel(i, w) PROVE TypeOK'
    BY <2>11 DEF EditIntel
  <2>12. CASE UNCHANGED vars
    BY <2>12 DEF vars, hist
  <2> QED
    BY <2>1, <2>2, <2>3, <2>4, <2>5, <2>6, <2>7, <2>8, <2>9, <2>10, <2>11, <2>12
    DEF Next, Ingest, Request, Quiet
<1> QED
  BY <1>1, <1>2, PTL DEF Spec

----------------------------------------------------------------------------
(* Safety.  The three invariants rest on the type invariant; what a         *)
(* confirmation leaves behind also needs to know who still has to do it.     *)

\* An email whose ingestion has not committed has no verdict, and somebody is
\* about to block the IOCs of a confirmed one, or they are blocked.
Pending(e) ==
  \E a \in Analysts : review[a] \in InProgress /\ review[a].email = e /\ review[a].verdict = "phishing"
Blocked(e) ==
  \A i \in Facts[e].iocs \cap Blockable : intel[i] = "block" \/ i \in edited

Unreviewed == \A e \in Emails : mail[e].at \in {"new", "enriched"} => mail[e].reviewed = "none"
Handled ==
  \A e \in Emails :
    Stored(e) /\ mail[e].reviewed = "Confirmed Phishing" /\ e \notin unlearned => Pending(e) \/ Blocked(e)

IInv == TypeOK /\ QuarantineIsConsistent /\ BlocklistIsDecisive /\ Unreviewed /\ Handled

\* The inductive invariant holds at the start.
LEMMA InitIInv == Init => IInv
<1> SUFFICES ASSUME Init PROVE IInv
  OBVIOUS
<1>1. TypeOK
  BY FeedbackAssumption, EmptySeq DEF Init, TypeOK, Row, NoRow, IntelVerdicts
<1> QED
  BY <1>1 DEF Init, IInv, QuarantineIsConsistent, BlocklistIsDecisive, Unreviewed, Handled, NoRow, Stored

\* A listed email is held back, a "Quarantined" one is listed or was emptied.
LEMMA QuarantineStep ==
  TypeOK /\ QuarantineIsConsistent /\ [Next]_vars => QuarantineIsConsistent'
<1> SUFFICES ASSUME TypeOK, QuarantineIsConsistent, [Next]_vars PROVE QuarantineIsConsistent'
  OBVIOUS
<1> USE DEF QuarantineIsConsistent, Stored
<1>1. ASSUME NEW e \in Emails, Enrich(e) PROVE QuarantineIsConsistent'
  BY <1>1 DEF Enrich, TypeOK, Row, hist
<1>2. ASSUME NEW e \in Emails, Store(e) PROVE QuarantineIsConsistent'
  <2>1. \A m \in Emails \ {e} : mail'[m] = mail[m] /\ (m \in quarantine' <=> m \in quarantine)
    BY <1>2 DEF Store, TypeOK
  <2>2. mail'[e].status = DecidedStatus(e) /\ mail'[e].at = "stored"
    BY <1>2 DEF Store, TypeOK, Row
  <2>3. e \in quarantine' <=> V!IsThreat(Detection(e))
    BY <1>2 DEF Store
  <2> QED
    BY <1>2, <2>1, <2>2, <2>3, ThreatStatus DEF Store, hist
<1>3. ASSUME NEW e \in Emails, Release(e) PROVE QuarantineIsConsistent'
  BY <1>3 DEF Release, TypeOK, Row, ReleasedStatus
<1>4. ASSUME NEW e \in Emails, Delete(e) PROVE QuarantineIsConsistent'
  BY <1>4 DEF Delete, TypeOK, Row, NoRow
<1>5. ASSUME NEW e \in Emails, Remediate(e) PROVE QuarantineIsConsistent'
  BY <1>5 DEF Remediate, hist
<1>6. ASSUME NEW a \in Analysts, NEW e \in Emails, NEW v \in Verdicts, Review(a, e, v)
      PROVE QuarantineIsConsistent'
  <2>1. \A m \in Emails : mail'[m].at = mail[m].at /\ mail'[m].status = mail[m].status
    BY <1>6 DEF Review, TypeOK, Row
  <2> QED
    BY <1>6, <2>1 DEF Review
<1>7. ASSUME NEW a \in Analysts, Learn(a) \/ AutoBlock(a) \/ LearningFails(a)
      PROVE QuarantineIsConsistent'
  BY <1>7 DEF Learn, AutoBlock, LearningFails, hist
<1>8. CASE EmptyQuarantine
  BY <1>8 DEF EmptyQuarantine
<1>9. ASSUME NEW i \in Indicators, NEW w \in IntelVerdicts, EditIntel(i, w) PROVE QuarantineIsConsistent'
  BY <1>9 DEF EditIntel
<1>10. CASE UNCHANGED vars
  BY <1>10 DEF vars, hist
<1> QED
  BY <1>1, <1>2, <1>3, <1>4, <1>5, <1>6, <1>7, <1>8, <1>9, <1>10 DEF Next, Ingest, Request, Quiet

\* Only a release delivers an email decided with a blocklisted IOC.
LEMMA BlocklistStep == TypeOK /\ BlocklistIsDecisive /\ [Next]_vars => BlocklistIsDecisive'
<1> SUFFICES ASSUME TypeOK, BlocklistIsDecisive, [Next]_vars PROVE BlocklistIsDecisive'
  OBVIOUS
<1> USE DEF BlocklistIsDecisive
<1>1. ASSUME NEW e \in Emails, Enrich(e) PROVE BlocklistIsDecisive'
  BY <1>1 DEF Enrich, TypeOK, Row, hist
<1>2. ASSUME NEW e \in Emails, Store(e) PROVE BlocklistIsDecisive'
  <2>1. \A m \in Emails \ {e} : mail'[m] = mail[m]
    BY <1>2 DEF Store, TypeOK
  <2>2. mail'[e].status = DecidedStatus(e) /\ mail'[e].blockers = mail[e].blockers
    BY <1>2 DEF Store, TypeOK, Row
  <2>3. mail[e].blockers \subseteq Indicators
    BY DEF TypeOK, Row
  <2> QED
    BY <1>2, <2>1, <2>2, <2>3, BlockersDecide DEF Store, hist
<1>3. ASSUME NEW e \in Emails, Release(e) PROVE BlocklistIsDecisive'
  BY <1>3 DEF Release, TypeOK, Row
<1>4. ASSUME NEW e \in Emails, Delete(e) PROVE BlocklistIsDecisive'
  BY <1>4 DEF Delete, TypeOK, Row, NoRow
<1>5. ASSUME NEW e \in Emails, Remediate(e) PROVE BlocklistIsDecisive'
  BY <1>5 DEF Remediate, hist
<1>6. ASSUME NEW a \in Analysts, NEW e \in Emails, NEW v \in Verdicts, Review(a, e, v)
      PROVE BlocklistIsDecisive'
  <2>1. \A m \in Emails : /\ mail'[m].at = mail[m].at
                           /\ mail'[m].status = mail[m].status
                           /\ mail'[m].blockers = mail[m].blockers
    BY <1>6 DEF Review, TypeOK, Row
  <2> QED
    BY <1>6, <2>1 DEF Review
<1>7. ASSUME NEW a \in Analysts, Learn(a) \/ AutoBlock(a) \/ LearningFails(a)
      PROVE BlocklistIsDecisive'
  BY <1>7 DEF Learn, AutoBlock, LearningFails, hist
<1>8. CASE EmptyQuarantine
  BY <1>8 DEF EmptyQuarantine
<1>9. ASSUME NEW i \in Indicators, NEW w \in IntelVerdicts, EditIntel(i, w) PROVE BlocklistIsDecisive'
  BY <1>9 DEF EditIntel
<1>10. CASE UNCHANGED vars
  BY <1>10 DEF vars, hist
<1> QED
  BY <1>1, <1>2, <1>3, <1>4, <1>5, <1>6, <1>7, <1>8, <1>9, <1>10 DEF Next, Ingest, Request, Quiet

\* A verdict is given on stored email only.
LEMMA UnreviewedStep == TypeOK /\ Unreviewed /\ [Next]_vars => Unreviewed'
<1> SUFFICES ASSUME TypeOK, Unreviewed, [Next]_vars PROVE Unreviewed'
  OBVIOUS
<1> USE DEF Unreviewed
<1>1. ASSUME NEW e \in Emails, Enrich(e) \/ Store(e) PROVE Unreviewed'
  BY <1>1 DEF Enrich, Store, TypeOK, Row
<1>2. ASSUME NEW e \in Emails, Release(e) \/ Delete(e) PROVE Unreviewed'
  BY <1>2 DEF Release, Delete, Stored, TypeOK, Row, NoRow
<1>3. ASSUME NEW a \in Analysts, NEW e \in Emails, NEW v \in Verdicts, Review(a, e, v) PROVE Unreviewed'
  BY <1>3 DEF Review, Stored, TypeOK, Row
<1>4. ASSUME UNCHANGED mail PROVE Unreviewed'
  BY <1>4
<1>5. ASSUME NEW a \in Analysts, Learn(a) \/ AutoBlock(a) \/ LearningFails(a) PROVE UNCHANGED mail
  BY <1>5 DEF Learn, AutoBlock, LearningFails
<1>6. ASSUME NEW e \in Emails, Remediate(e) PROVE UNCHANGED mail
  BY <1>6 DEF Remediate
<1>7. ASSUME NEW i \in Indicators, NEW w \in IntelVerdicts, EditIntel(i, w) PROVE UNCHANGED mail
  BY <1>7 DEF EditIntel
<1>8. CASE EmptyQuarantine
  BY <1>4, <1>8 DEF EmptyQuarantine
<1>9. CASE UNCHANGED vars
  BY <1>4, <1>9 DEF vars
<1> QED
  BY <1>1, <1>2, <1>3, <1>4, <1>5, <1>6, <1>7, <1>8, <1>9 DEF Next, Ingest, Request, Quiet

\* An idle analyst has no request, and a busy one's request is well formed.
LEMMA BusyRequest ==
  ASSUME TypeOK, NEW a \in Analysts
  PROVE  review[a] # NoReview <=> review[a] \in InProgress
<1>1. NoReview \notin InProgress
  <2> SUFFICES ASSUME NoReview \in InProgress PROVE FALSE
    OBVIOUS
  <2>1. NoReview.step \in {"learn", "block"}
    BY DEF InProgress
  <2>2. NoReview.step = "idle"
    BY DEF NoReview
  <2> QED
    BY <2>1, <2>2
<1> QED
  BY <1>1 DEF TypeOK

\* A request that ends, or goes on, leaves the other analysts' requests alone.
LEMMA PendingStep ==
  ASSUME TypeOK, TypeOK', NEW a \in Analysts, NEW e \in Emails, Pending(e),
         \A b \in Analysts \ {a} : review'[b] = review[b],
         \/ review[a] = NoReview
         \/ review[a].email # e
         \/ review[a].verdict # "phishing"
  PROVE  Pending(e)'
<1>1. PICK b \in Analysts : review[b] \in InProgress /\ review[b].email = e /\ review[b].verdict = "phishing"
  BY DEF Pending
<1>2. b # a
  BY <1>1, BusyRequest
<1> QED
  BY <1>1, <1>2 DEF Pending

\* Blocking only adds blocks.
LEMMA BlockedStep ==
  ASSUME TypeOK, NEW e \in Emails, NEW m \in Emails, Blocked(e), intel' = WithBlocked(m), edited' = edited
  PROVE  Blocked(e)'
BY FeedbackAssumption DEF Blocked, WithBlocked, TypeOK

\* The IOCs of a confirmed email stay blocked or about to be, whoever reviews,
\* releases or deletes at the same time.
LEMMA HandledStep == TypeOK /\ TypeOK' /\ Unreviewed /\ Handled /\ [Next]_vars => Handled'
<1> SUFFICES ASSUME TypeOK, TypeOK', Unreviewed, Handled, [Next]_vars,
                    NEW m \in Emails, Stored(m)', mail'[m].reviewed = "Confirmed Phishing", m \notin unlearned'
             PROVE  Pending(m)' \/ Blocked(m)'
  BY DEF Handled
<1> USE DEF Handled, Stored
<1>1. ASSUME NEW e \in Emails, Enrich(e) PROVE Pending(m)' \/ Blocked(m)'
  <2>1. m # e
    BY <1>1, ZenonT(60) DEF Enrich, TypeOK, Row
  <2>2. Pending(m) \/ Blocked(m)
    BY <1>1, <2>1 DEF Enrich, TypeOK, hist
  <2> QED
    BY <1>1, <2>2 DEF Enrich, Pending, Blocked, hist
<1>2. ASSUME NEW e \in Emails, Store(e) PROVE Pending(m)' \/ Blocked(m)'
  <2>1. m # e
    BY <1>2, ZenonT(60) DEF Store, TypeOK, Row, Unreviewed
  <2>2. Pending(m) \/ Blocked(m)
    BY <1>2, <2>1 DEF Store, TypeOK, hist
  <2> QED
    BY <1>2, <2>2 DEF Store, Pending, Blocked, hist
<1>3. ASSUME NEW e \in Emails, Release(e) PROVE Pending(m)' \/ Blocked(m)'
  <2>1. m # e
    <3>1. mail \in [Emails -> Row]
      BY DEF TypeOK
    <3>2. mail'[e].reviewed = "Released"
      BY <1>3, <3>1 DEF Release, Row
    <3> QED
      BY <3>2
  <2>2. Pending(m) \/ Blocked(m)
    BY <1>3, <2>1 DEF Release, TypeOK
  <2> QED
    BY <1>3, <2>2 DEF Release, Pending, Blocked
<1>4. ASSUME NEW e \in Emails, Delete(e) PROVE Pending(m)' \/ Blocked(m)'
  <2>1. m # e
    BY <1>4 DEF Delete, TypeOK, NoRow
  <2>2. Pending(m) \/ Blocked(m)
    BY <1>4, <2>1 DEF Delete, TypeOK
  <2> QED
    BY <1>4, <2>2 DEF Delete, Pending, Blocked
<1>5. ASSUME NEW e \in Emails, Remediate(e) PROVE Pending(m)' \/ Blocked(m)'
  <2>1. Pending(m) \/ Blocked(m)
    BY <1>5 DEF Remediate, hist
  <2>2. CASE Pending(m)
    BY <1>5, <2>2 DEF Remediate, Pending
  <2>3. CASE Blocked(m)
    BY <1>5, <2>3, BlockedStep DEF Remediate, hist
  <2> QED
    BY <2>1, <2>2, <2>3
<1>6. ASSUME NEW a \in Analysts, NEW e \in Emails, NEW v \in Verdicts, Review(a, e, v)
      PROVE Pending(m)' \/ Blocked(m)'
  <2>1. CASE m = e
    <3> DEFINE request == [step |-> "learn", email |-> e, verdict |-> v]
    <3>1. mail \in [Emails -> Row] /\ review \in [Analysts -> {NoReview} \cup InProgress]
      BY DEF TypeOK
    <3>2. mail'[e].reviewed = ReviewStatus[v]
      BY <1>6, <3>1 DEF Review, Row
    <3>3. v = "phishing"
      <4>1. ReviewStatus[v] = "Confirmed Phishing"
        BY <2>1, <3>2
      <4>2. v \in {"safe", "phishing", "review"}
        BY DEF Verdicts
      <4>3. ReviewStatus["safe"] # "Confirmed Phishing" /\ ReviewStatus["review"] # "Confirmed Phishing"
        BY DEF ReviewStatus
      <4> QED
        BY <4>1, <4>2, <4>3
    <3>4. request \in InProgress
      BY DEF InProgress
    <3>5. review'[a] = request
      BY <1>6, <3>1 DEF Review
    <3>6. request.email = m /\ request.verdict = "phishing"
      BY <2>1, <3>3
    <3> HIDE DEF request
    <3> QED
      BY <3>4, <3>5, <3>6 DEF Pending
  <2>2. CASE m # e
    <3>1. Pending(m) \/ Blocked(m)
      BY <1>6, <2>2 DEF Review, TypeOK
    <3>2. CASE Pending(m)
      <4>1. review[a] = NoReview /\ \A b \in Analysts \ {a} : review'[b] = review[b]
        BY <1>6 DEF Review, TypeOK
      <4> QED
        BY <3>2, <4>1, PendingStep
    <3>3. CASE Blocked(m)
      BY <1>6, <3>3 DEF Review, Blocked
    <3> QED
      BY <3>1, <3>2, <3>3
  <2> QED
    BY <2>1, <2>2
<1>7. ASSUME NEW a \in Analysts, Learn(a) PROVE Pending(m)' \/ Blocked(m)'
  <2>1. mail' = mail /\ intel' = intel /\ edited' = edited /\ unlearned' = unlearned
    BY <1>7 DEF Learn, hist
  <2>2. Pending(m) \/ Blocked(m)
    BY <2>1
  <2>3. \A b \in Analysts \ {a} : review'[b] = review[b]
    BY <1>7 DEF Learn, Finish, TypeOK
  <2>4. CASE Blocked(m)
    BY <2>1, <2>4 DEF Blocked
  <2>5. CASE Pending(m) /\ (review[a].email # m \/ review[a].verdict # "phishing")
    BY <2>3, <2>5, PendingStep
  <2>6. CASE review[a].email = m /\ review[a].verdict = "phishing"
    <3>1. review[a] \in InProgress
      BY <1>7, BusyRequest DEF Learn
    <3>2. review' = [review EXCEPT ![a].step = "block"]
      BY <1>7, <2>1, <2>6 DEF Learn
    <3>3. review'[a] = [review[a] EXCEPT !.step = "block"]
      BY <3>2 DEF TypeOK
    <3>4. review'[a] \in InProgress /\ review'[a].email = m /\ review'[a].verdict = "phishing"
      BY <2>6, <3>1, <3>3 DEF InProgress
    <3> QED
      BY <3>4 DEF Pending
  <2> QED
    BY <2>2, <2>4, <2>5, <2>6
<1>8. ASSUME NEW a \in Analysts, AutoBlock(a) PROVE Pending(m)' \/ Blocked(m)'
  <2>1. review[a] \in InProgress
    BY <1>8, BusyRequest DEF AutoBlock
  <2> DEFINE e == review[a].email
  <2>2. e \in Emails
    BY <2>1 DEF InProgress
  <2>3. mail' = mail /\ edited' = edited /\ unlearned' = unlearned /\ intel' = WithBlocked(e)
    BY <1>8 DEF AutoBlock, hist
  <2>4. \A b \in Analysts \ {a} : review'[b] = review[b]
    BY <1>8 DEF AutoBlock, Finish, TypeOK
  <2>5. CASE m = e
    BY <2>3, <2>5, FeedbackAssumption DEF Blocked, WithBlocked, PromotedIocs
  <2>6. CASE m # e /\ Pending(m)
    BY <2>4, <2>6, PendingStep
  <2>7. CASE Blocked(m)
    BY <2>2, <2>3, <2>7, BlockedStep
  <2> QED
    BY <2>3, <2>5, <2>6, <2>7
<1>9. ASSUME NEW a \in Analysts, LearningFails(a) PROVE Pending(m)' \/ Blocked(m)'
  <2>1. mail' = mail /\ intel' = intel /\ edited' = edited
    BY <1>9 DEF LearningFails
  <2>2. m \notin unlearned /\ m # review[a].email
    BY <1>9, <2>1 DEF LearningFails
  <2>3. \A b \in Analysts \ {a} : review'[b] = review[b]
    BY <1>9 DEF LearningFails, Finish, TypeOK
  <2>4. CASE Pending(m)
    BY <2>2, <2>3, <2>4, PendingStep
  <2>5. CASE Blocked(m)
    BY <2>1, <2>5 DEF Blocked
  <2> QED
    BY <2>1, <2>2, <2>4, <2>5
<1>10. CASE EmptyQuarantine
  BY <1>10 DEF EmptyQuarantine, Pending, Blocked
<1>11. ASSUME NEW i \in Indicators, NEW w \in IntelVerdicts, EditIntel(i, w)
       PROVE Pending(m)' \/ Blocked(m)'
  <2>1. Pending(m) \/ Blocked(m)
    BY <1>11 DEF EditIntel
  <2>2. CASE Pending(m)
    BY <1>11, <2>2 DEF EditIntel, Pending
  <2>3. CASE Blocked(m)
    BY <1>11, <2>3, FeedbackAssumption DEF EditIntel, Blocked, TypeOK
  <2> QED
    BY <2>1, <2>2, <2>3
<1>12. CASE UNCHANGED vars
  BY <1>12 DEF vars, hist, Pending, Blocked
<1> QED
  BY <1>1, <1>2, <1>3, <1>4, <1>5, <1>6, <1>7, <1>8, <1>9, <1>10, <1>11, <1>12
  DEF Next, Ingest, Request, Quiet

\* The strengthened invariant holds in every reachable state.
THEOREM Invariance == Spec => []IInv
<1>1. TypeOK /\ TypeOK' /\ IInv /\ [Next]_vars => IInv'
  BY QuarantineStep, BlocklistStep, UnreviewedStep, HandledStep DEF IInv
<1> QED
  BY <1>1, InitIInv, Typing, PTL DEF Spec

\* Every email decided with a blocklisted IOC is quarantined until an analyst
\* releases it (ingest.py:93-136).
THEOREM BlocklistDecides == Spec => []BlocklistIsDecisive
BY Invariance, PTL DEF IInv

\* The quarantine table and the status column agree (ingest.py:133-222,
\* router.py:615-653, 699-707).
THEOREM QuarantineAgrees == Spec => []QuarantineIsConsistent
BY Invariance, PTL DEF IInv

\* A confirmed email's IOCs are blocked when its review is over, however the
\* three transactions of concurrent reviews interleave (router.py:655-697).
THEOREM ConfirmationBlocks == Spec => []ConfirmedIsBlocked
<1>1. IInv => ConfirmedIsBlocked
  <2> SUFFICES ASSUME IInv, NEW e \in Emails, Stored(e), mail[e].reviewed = "Confirmed Phishing",
                      e \notin unlearned,
                      \A a \in Analysts : review[a] # NoReview => review[a].email # e
               PROVE  Blocked(e)
    BY DEF ConfirmedIsBlocked, Blocked
  <2>1. ~Pending(e)
    BY BusyRequest DEF Pending, IInv
  <2> QED
    BY <2>1 DEF IInv, Handled
<1> QED
  BY <1>1, Invariance, PTL

\* No verdict, release or deletion takes a block away (threat_intel.py:93-151).
THEOREM BlocksStay == Spec => BlocksOnlyGrow
<1>1. TypeOK /\ [Next]_vars
      => [\A i \in Indicators : intel[i] = "block" /\ intel'[i] # "block" => i \in edited']_vars
  <2> SUFFICES ASSUME TypeOK, [Next]_vars, NEW i \in Indicators, intel[i] = "block", intel'[i] # "block"
               PROVE  i \in edited'
    OBVIOUS
  <2>1. intel' # intel
    OBVIOUS
  <2>2. ASSUME NEW e \in Emails PROVE ~Remediate(e)
    BY DEF Remediate, WithBlocked, TypeOK
  <2>3. ASSUME NEW a \in Analysts PROVE ~AutoBlock(a)
    BY DEF AutoBlock, WithBlocked, TypeOK
  <2>4. ASSUME NEW j \in Indicators, NEW w \in IntelVerdicts, EditIntel(j, w) PROVE i \in edited'
    BY <2>4 DEF EditIntel, TypeOK
  <2>5. ASSUME NEW e \in Emails PROVE ~Ingest(e) /\ ~Release(e) /\ ~Delete(e)
    BY <2>1 DEF Ingest, Enrich, Store, Release, Delete
  <2>6. ASSUME NEW a \in Analysts
        PROVE  /\ ~Learn(a) /\ ~LearningFails(a)
               /\ \A e \in Emails, v \in Verdicts : ~Review(a, e, v)
    BY <2>1 DEF Learn, LearningFails, Review
  <2>7. ~EmptyQuarantine /\ ~UNCHANGED vars
    BY <2>1 DEF EmptyQuarantine, vars
  <2> QED
    BY <2>2, <2>3, <2>4, <2>5, <2>6, <2>7 DEF Next, Request, Quiet
<1> QED
  BY <1>1, Typing, PTL DEF Spec, BlocksOnlyGrow

----------------------------------------------------------------------------
(* Trust is earned.  A verdict counts from its first transaction on, and the *)
(* second transaction spends it: the reviews in between are the difference.  *)

\* The analysts whose verdict v on mail of an address or a domain is committed
\* and not yet learned from.
Learning(v, k) ==
  {a \in Analysts : /\ review[a] # NoReview /\ review[a].step = "learn" /\ review[a].verdict = v
                    /\ k \in {Addr(review[a].email), Domain(review[a].email)}}

\* The verdicts learned from, or lost.
Spent(v, k) == Cardinality(Given(v, k)) - Cardinality(Learning(v, k))

SpentIsSound(v, k) == IsFiniteSet(Learning(v, k)) /\ Spent(v, k) >= 0
SpentAreSound == \A v \in {"safe", "phishing"}, e \in Emails : SpentIsSound(v, Addr(e)) /\ SpentIsSound(v, Domain(e))

\* Every score is within what the verdicts learned from pay for.
ScoresArePaidFor ==
  \A e \in Emails :
    /\ rep[Addr(e)] >= -40 * Spent("safe", Addr(e))
    /\ rep[Domain(e)] >= -20 * Spent("safe", Domain(e))
    /\ rep[Domain(e)] <= 40 * Spent("phishing", Domain(e))

TrustInvariant == TypeOK /\ SpentAreSound /\ ScoresArePaidFor

\* The verdicts given on mail of a key are finitely many.
LEMMA GivenFinite ==
  ASSUME TypeOK, NEW v, NEW k
  PROVE  IsFiniteSet(Given(v, k)) /\ Cardinality(Given(v, k)) \in Nat
<1>1. Len(verdicts) \in Nat /\ DOMAIN verdicts = 1..Len(verdicts)
  BY LenProperties DEF TypeOK
<1>2. IsFiniteSet(1..Len(verdicts))
  BY <1>1, FS_Interval
<1>3. Given(v, k) \in SUBSET (1..Len(verdicts))
  BY <1>1 DEF Given
<1>4. IsFiniteSet(Given(v, k))
  BY <1>2, <1>3, FS_Subset
<1> QED
  BY <1>4, FS_CardinalityType

\* What is spent is a whole number, no more than what was given.
LEMMA SpentType ==
  ASSUME TypeOK, NEW v, NEW k, SpentIsSound(v, k)
  PROVE  Spent(v, k) \in Nat /\ Spent(v, k) <= Cardinality(Given(v, k))
<1>1. Cardinality(Learning(v, k)) \in Nat
  BY FS_CardinalityType DEF SpentIsSound
<1>2. Cardinality(Given(v, k)) \in Nat
  BY GivenFinite
<1> QED
  BY <1>1, <1>2 DEF Spent, SpentIsSound

\* Nothing spent is a fraction or negative.
SpentAreWhole ==
  \A v \in {"safe", "phishing"}, e \in Emails : Spent(v, Addr(e)) \in Nat /\ Spent(v, Domain(e)) \in Nat

\* What is spent is a whole number for every address and domain.
LEMMA SpentTypes == TypeOK /\ SpentAreSound => SpentAreWhole
BY SpentType DEF SpentAreSound, SpentAreWhole

\* A verdict committed is one to learn from.
LEMMA ReviewSpends ==
  ASSUME TypeOK, TypeOK', NEW a \in Analysts, NEW e \in Emails, NEW w \in Verdicts, Review(a, e, w),
         NEW v, NEW k, SpentIsSound(v, k)
  PROVE  SpentIsSound(v, k)' /\ Spent(v, k)' = Spent(v, k)
<1> DEFINE given == [email |-> e, verdict |-> w]
           request == [step |-> "learn", email |-> e, verdict |-> w]
           Counts == w = v /\ k \in {Addr(e), Domain(e)}
           n == Len(verdicts) + 1
<1>1. /\ given.email = e /\ given.verdict = w
      /\ given \in [email : Emails, verdict : Verdicts]
      /\ request.step = "learn" /\ request.email = e /\ request.verdict = w /\ request \in InProgress
  BY DEF InProgress
<1>2. /\ verdicts' = Append(verdicts, given)
      /\ review[a] = NoReview /\ review' = [review EXCEPT ![a] = request]
  BY DEF Review
<1> HIDE DEF given, request
<1>3. Len(verdicts) \in Nat /\ DOMAIN verdicts = 1..Len(verdicts) /\ n \notin DOMAIN verdicts
  BY LenProperties DEF TypeOK
<1>4. DOMAIN verdicts' = 1..n /\ verdicts'[n] = given /\ \A i \in DOMAIN verdicts : verdicts'[i] = verdicts[i]
  BY <1>1, <1>2, <1>3 DEF TypeOK
<1>5. Given(v, k)' = IF Counts THEN Given(v, k) \cup {n} ELSE Given(v, k)
  <2>1. \A i \in DOMAIN verdicts : i \in Given(v, k)' <=> i \in Given(v, k)
    BY <1>3, <1>4 DEF Given
  <2>2. n \in Given(v, k)' <=> Counts
    BY <1>1, <1>3, <1>4 DEF Given
  <2>3. Given(v, k)' \subseteq DOMAIN verdicts \cup {n} /\ Given(v, k) \subseteq DOMAIN verdicts
    BY <1>3, <1>4 DEF Given
  <2> QED
    <3>1. CASE Counts
      BY <2>1, <2>2, <2>3, <3>1
    <3>2. CASE ~Counts
      BY <2>1, <2>2, <2>3, <3>2
    <3> HIDE DEF Counts
    <3> QED
      BY <3>1, <3>2
<1>6. n \notin Given(v, k)
  BY <1>3 DEF Given
<1>7. review'[a] = request /\ \A b \in Analysts \ {a} : review'[b] = review[b]
  BY <1>2 DEF TypeOK
<1>8. request # NoReview
  BY <1>1 DEF NoReview
<1>9. Learning(v, k)' = IF Counts THEN Learning(v, k) \cup {a} ELSE Learning(v, k)
  <2>1. \A b \in Analysts \ {a} : b \in Learning(v, k)' <=> b \in Learning(v, k)
    BY <1>7 DEF Learning
  <2>2. a \in Learning(v, k)' <=> Counts
    BY <1>1, <1>7, <1>8 DEF Learning
  <2>3. Learning(v, k)' \subseteq Analysts /\ Learning(v, k) \subseteq Analysts /\ a \notin Learning(v, k)
    BY <1>2 DEF Learning
  <2> QED
    BY <2>1, <2>2, <2>3
<1>10. a \notin Learning(v, k)
  BY <1>2 DEF Learning
<1>11. IsFiniteSet(Given(v, k)) /\ Cardinality(Given(v, k)) \in Nat
  BY GivenFinite
<1>12. IsFiniteSet(Learning(v, k)) /\ Cardinality(Learning(v, k)) \in Nat
  BY FS_CardinalityType DEF SpentIsSound
<1>13. CASE Counts
  <2>1. Given(v, k)' = Given(v, k) \cup {n} /\ Learning(v, k)' = Learning(v, k) \cup {a}
    BY <1>5, <1>9, <1>13
  <2>2. Cardinality(Given(v, k) \cup {n}) = Cardinality(Given(v, k)) + 1
    BY <1>6, <1>11, FS_AddElement
  <2>3. /\ IsFiniteSet(Learning(v, k) \cup {a})
        /\ Cardinality(Learning(v, k) \cup {a}) = Cardinality(Learning(v, k)) + 1
    BY <1>10, <1>12, FS_AddElement
  <2> QED
    BY <1>11, <1>12, <2>1, <2>2, <2>3 DEF Spent, SpentIsSound
<1>14. CASE ~Counts
  <2>1. Given(v, k)' = Given(v, k) /\ Learning(v, k)' = Learning(v, k)
    BY <1>5, <1>9, <1>14
  <2> QED
    BY <2>1 DEF Spent, SpentIsSound
<1> QED
  BY <1>13, <1>14

\* A request that moves on, or ends, spends its verdict if it had one to spend.
LEMMA RequestSpends ==
  ASSUME TypeOK, verdicts' = verdicts, NEW a \in Analysts,
         \A b \in Analysts \ {a} : review'[b] = review[b],
         review'[a] = NoReview \/ review'[a].step = "block",
         NEW v, NEW k, SpentIsSound(v, k)
  PROVE  /\ SpentIsSound(v, k)'
         /\ Spent(v, k)' = Spent(v, k) + (IF a \in Learning(v, k) THEN 1 ELSE 0)
<1>1. Given(v, k)' = Given(v, k)
  BY DEF Given
<1>2. Learning(v, k)' = Learning(v, k) \ {a}
  <2>1. \A b \in Analysts \ {a} : b \in Learning(v, k)' <=> b \in Learning(v, k)
    BY DEF Learning
  <2>2. a \notin Learning(v, k)'
    BY DEF Learning
  <2>3. Learning(v, k)' \subseteq Analysts /\ Learning(v, k) \subseteq Analysts
    BY DEF Learning
  <2> QED
    BY <2>1, <2>2, <2>3
<1>3. IsFiniteSet(Learning(v, k)) /\ Cardinality(Learning(v, k)) \in Nat
  BY FS_CardinalityType DEF SpentIsSound
<1>4. /\ IsFiniteSet(Learning(v, k) \ {a})
      /\ Cardinality(Learning(v, k) \ {a})
           = IF a \in Learning(v, k) THEN Cardinality(Learning(v, k)) - 1 ELSE Cardinality(Learning(v, k))
  BY <1>3, FS_RemoveElement
<1>5. Cardinality(Given(v, k)) \in Nat
  BY GivenFinite
<1> QED
  BY <1>1, <1>2, <1>3, <1>4, <1>5 DEF Spent, SpentIsSound

\* A verdict "phishing" is not learned by an address, and by a domain once.
LEMMA ConfirmedDeltaOf ==
  ASSUME NEW e \in Emails, NEW m \in Emails
  PROVE  /\ ConfirmedDelta(e, Addr(m)) = 0
         /\ ConfirmedDelta(e, Domain(m)) = IF Domain(m) = Domain(e) THEN 40 ELSE 0
<1>1. Addr(m) # Domain(e)
  BY DEF Addr, Domain
<1>2. /\ {i \in Facts[e].iocs \cap DOMAIN DomainOf : Addr(m) = <<"url_domain", DomainOf[i]>>} = {}
      /\ {i \in Facts[e].iocs \cap DOMAIN DomainOf : Domain(m) = <<"url_domain", DomainOf[i]>>} = {}
  BY DEF Addr, Domain
<1>3. Cardinality({}) = 0
  BY FS_EmptySet
<1> QED
  BY <1>1, <1>2, <1>3 DEF ConfirmedDelta

\* A verdict "safe" takes at most 40 from the email's address and 20 from its domain.
LEMMA SafeDeltaOf ==
  ASSUME NEW e \in Emails, NEW m \in Emails
  PROVE  /\ SafeDelta(e, Addr(m)) = IF Addr(m) = Addr(e) THEN -40 ELSE 0
         /\ SafeDelta(e, Domain(m)) = IF Domain(m) = Domain(e) THEN -20 ELSE 0
BY DEF SafeDelta, Addr, Domain

\* Addresses and domains have a score.
LEMMA KeysOf == ASSUME NEW e \in Emails PROVE Addr(e) \in Keys /\ Domain(e) \in Keys
BY DEF Keys

\* What changes neither verdicts nor requests spends nothing.
LEMMA NothingSpent ==
  ASSUME UNCHANGED <<verdicts, review>>, NEW v, NEW k
  PROVE  Spent(v, k)' = Spent(v, k) /\ (SpentIsSound(v, k) => SpentIsSound(v, k)')
BY DEF Spent, SpentIsSound, Given, Learning

\* Spending more than a score needs keeps it paid for.
LEMMA ScoresStayPaidFor ==
  ASSUME TypeOK, SpentAreSound, ScoresArePaidFor, SpentAreSound', rep' = rep, TypeOK',
         \A v \in {"safe", "phishing"}, e \in Emails :
           Spent(v, Addr(e))' >= Spent(v, Addr(e)) /\ Spent(v, Domain(e))' >= Spent(v, Domain(e))
  PROVE  ScoresArePaidFor'
<1> SUFFICES ASSUME NEW e \in Emails
             PROVE  /\ rep[Addr(e)] >= -40 * Spent("safe", Addr(e))'
                    /\ rep[Domain(e)] >= -20 * Spent("safe", Domain(e))'
                    /\ rep[Domain(e)] <= 40 * Spent("phishing", Domain(e))'
  BY DEF ScoresArePaidFor
<1> DEFINE s == Spent("safe", Addr(e))   s1 == Spent("safe", Addr(e))'
           d == Spent("safe", Domain(e)) d1 == Spent("safe", Domain(e))'
           p == Spent("phishing", Domain(e)) p1 == Spent("phishing", Domain(e))'
<1>1. s \in Nat /\ d \in Nat /\ p \in Nat
  BY SpentType DEF SpentAreSound
<1>2. s1 \in Nat /\ d1 \in Nat /\ p1 \in Nat
  <2>1. SpentAreWhole'
    BY SpentTypes, PTL
  <2> QED
    BY <2>1 DEF SpentAreWhole
<1>3. s1 >= s /\ d1 >= d /\ p1 >= p
  OBVIOUS
<1>4. rep[Addr(e)] >= -40 * s /\ rep[Domain(e)] >= -20 * d /\ rep[Domain(e)] <= 40 * p
  BY DEF ScoresArePaidFor
<1>5. rep[Addr(e)] \in Int /\ rep[Domain(e)] \in Int
  <2>1. rep \in [Keys -> -100..100] /\ Addr(e) \in Keys /\ Domain(e) \in Keys
    BY KeysOf DEF TypeOK
  <2>2. rep[Addr(e)] \in -100..100 /\ rep[Domain(e)] \in -100..100
    BY <2>1
  <2> QED
    BY <2>2
<1> HIDE DEF s, s1, d, d1, p, p1
<1>6. rep[Addr(e)] >= -40 * s1 /\ rep[Domain(e)] >= -20 * d1 /\ rep[Domain(e)] <= 40 * p1
  BY <1>1, <1>2, <1>3, <1>4, <1>5
<1> QED
  BY <1>6 DEF s1, d1, p1

\* A score that moves by the price of one more verdict, and is then clamped,
\* is paid for by one more verdict.
LEMMA ClampedIsPaidFor ==
  ASSUME NEW r \in -100..100, NEW n \in Nat, NEW c \in {20, 40}
  PROVE  /\ r >= -c * n => Clamp(r - c) >= -c * (n + 1) /\ Clamp(r) >= -c * n /\ Clamp(r + c) >= -c * n
         /\ r <= c * n => Clamp(r + c) <= c * (n + 1) /\ Clamp(r) <= c * n /\ Clamp(r - c) <= c * n
<1>1. CASE c = 20
  BY <1>1 DEF Clamp, V!Larger, V!Smaller
<1>2. CASE c = 40
  BY <1>2 DEF Clamp, V!Larger, V!Smaller
<1> QED
  BY <1>1, <1>2

\* The lesson of a verdict is paid for by that verdict.
LEMMA LessonIsPaidFor ==
  ASSUME TypeOK, TypeOK', SpentAreSound, SpentAreSound', ScoresArePaidFor, NEW a \in Analysts,
         review[a] \in InProgress, review[a].step = "learn",
         rep' = Learned(review[a].email, review[a].verdict),
         \A v \in {"safe", "phishing"}, m \in Emails :
           /\ Spent(v, Addr(m))' = Spent(v, Addr(m)) + (IF a \in Learning(v, Addr(m)) THEN 1 ELSE 0)
           /\ Spent(v, Domain(m))' = Spent(v, Domain(m)) + (IF a \in Learning(v, Domain(m)) THEN 1 ELSE 0)
  PROVE  ScoresArePaidFor'
<1> DEFINE e == review[a].email
           w == review[a].verdict
<1>1. e \in Emails /\ w \in Verdicts /\ review[a] # NoReview
  BY BusyRequest DEF InProgress
<1> SUFFICES ASSUME NEW m \in Emails
             PROVE  /\ rep'[Addr(m)] >= -40 * Spent("safe", Addr(m))'
                    /\ rep'[Domain(m)] >= -20 * Spent("safe", Domain(m))'
                    /\ rep'[Domain(m)] <= 40 * Spent("phishing", Domain(m))'
  BY DEF ScoresArePaidFor
<1>2. \A v : /\ a \in Learning(v, Addr(m)) <=> w = v /\ Addr(m) = Addr(e)
             /\ a \in Learning(v, Domain(m)) <=> w = v /\ Domain(m) = Domain(e)
  <2>1. Addr(m) # Domain(e) /\ Domain(m) # Addr(e)
    BY DEF Addr, Domain
  <2> QED
    BY <1>1, <2>1 DEF Learning
<1> DEFINE s == Spent("safe", Addr(m))   s1 == Spent("safe", Addr(m))'
           d == Spent("safe", Domain(m)) d1 == Spent("safe", Domain(m))'
           p == Spent("phishing", Domain(m)) p1 == Spent("phishing", Domain(m))'
           ra == rep[Addr(m)]
           rd == rep[Domain(m)]
<1>3. s \in Nat /\ d \in Nat /\ p \in Nat
  BY SpentType DEF SpentAreSound
<1>4. /\ s1 = s + (IF w = "safe" /\ Addr(m) = Addr(e) THEN 1 ELSE 0)
      /\ d1 = d + (IF w = "safe" /\ Domain(m) = Domain(e) THEN 1 ELSE 0)
      /\ p1 = p + (IF w = "phishing" /\ Domain(m) = Domain(e) THEN 1 ELSE 0)
  BY <1>2
<1>5. ra >= -40 * s /\ rd >= -20 * d /\ rd <= 40 * p
  BY DEF ScoresArePaidFor
<1>6. ra \in -100..100 /\ rd \in -100..100
  BY KeysOf DEF TypeOK
<1>7. \A k \in Keys : rep'[k] = CASE w = "safe"     -> Bumped(k, SafeDelta(e, k))
                                  [] w = "phishing" -> Bumped(k, ConfirmedDelta(e, k))
                                  [] OTHER          -> rep[k]
  BY DEF Learned
<1>8. CASE w = "safe"
  <2>1. /\ rep'[Addr(m)] = Clamp(ra + IF Addr(m) = Addr(e) THEN -40 ELSE 0)
        /\ rep'[Domain(m)] = Clamp(rd + IF Domain(m) = Domain(e) THEN -20 ELSE 0)
    BY <1>1, <1>7, <1>8, KeysOf, SafeDeltaOf DEF Bumped
  <2> HIDE DEF s, s1, d, d1, p, p1, ra, rd, e, w
  <2>2. rep'[Addr(m)] >= -40 * s1
    <3>1. CASE Addr(m) = Addr(e)
      <4>1. s1 = s + 1 /\ rep'[Addr(m)] = Clamp(ra - 40)
        BY <1>4, <1>6, <1>8, <2>1, <3>1
      <4> QED
        BY <1>3, <1>5, <1>6, <4>1, ClampedIsPaidFor
    <3>2. CASE Addr(m) # Addr(e)
      <4>1. s1 = s /\ rep'[Addr(m)] = Clamp(ra)
        BY <1>3, <1>4, <1>6, <2>1, <3>2
      <4> QED
        BY <1>3, <1>5, <1>6, <4>1, ClampedIsPaidFor
    <3> QED
      BY <3>1, <3>2
  <2>3. rep'[Domain(m)] >= -20 * d1 /\ rep'[Domain(m)] <= 40 * p1
    <3>1. p1 = p
      BY <1>3, <1>4, <1>8
    <3>2. CASE Domain(m) = Domain(e)
      <4>1. d1 = d + 1 /\ rep'[Domain(m)] = Clamp(rd - 20)
        BY <1>4, <1>6, <1>8, <2>1, <3>2
      <4>2. Clamp(rd - 20) >= -20 * (d + 1)
        BY <1>3, <1>5, <1>6, ClampedIsPaidFor
      <4>3. Clamp(rd - 20) <= 40 * p
        BY <1>3, <1>5, <1>6 DEF Clamp, V!Larger, V!Smaller
      <4> QED
        BY <3>1, <4>1, <4>2, <4>3
    <3>3. CASE Domain(m) # Domain(e)
      <4>1. d1 = d /\ rep'[Domain(m)] = Clamp(rd)
        BY <1>3, <1>4, <1>6, <2>1, <3>3
      <4> QED
        BY <1>3, <1>5, <1>6, <3>1, <4>1, ClampedIsPaidFor
    <3> QED
      BY <3>2, <3>3
  <2> QED
    BY <2>2, <2>3 DEF s1, d1, p1
<1>9. CASE w = "phishing"
  <2>1. /\ rep'[Addr(m)] = Clamp(ra + 0)
        /\ rep'[Domain(m)] = Clamp(rd + IF Domain(m) = Domain(e) THEN 40 ELSE 0)
    BY <1>1, <1>7, <1>9, KeysOf, ConfirmedDeltaOf DEF Bumped
  <2> HIDE DEF s, s1, d, d1, p, p1, ra, rd, e, w
  <2>2. s1 = s /\ d1 = d
    BY <1>3, <1>4, <1>9
  <2>3. rep'[Addr(m)] >= -40 * s1
    <3>1. rep'[Addr(m)] = Clamp(ra)
      BY <1>6, <2>1
    <3> QED
      BY <1>3, <1>5, <1>6, <2>2, <3>1, ClampedIsPaidFor
  <2>4. rep'[Domain(m)] >= -20 * d1 /\ rep'[Domain(m)] <= 40 * p1
    <3>1. CASE Domain(m) = Domain(e)
      <4>1. p1 = p + 1 /\ rep'[Domain(m)] = Clamp(rd + 40)
        BY <1>4, <1>9, <2>1, <3>1
      <4>2. Clamp(rd + 40) <= 40 * (p + 1)
        BY <1>3, <1>5, <1>6, ClampedIsPaidFor
      <4>3. Clamp(rd + 40) >= -20 * d
        BY <1>3, <1>5, <1>6 DEF Clamp, V!Larger, V!Smaller
      <4> QED
        BY <2>2, <4>1, <4>2, <4>3
    <3>2. CASE Domain(m) # Domain(e)
      <4>1. p1 = p /\ rep'[Domain(m)] = Clamp(rd)
        BY <1>3, <1>4, <1>6, <2>1, <3>2
      <4> QED
        BY <1>3, <1>5, <1>6, <2>2, <4>1, ClampedIsPaidFor
    <3> QED
      BY <3>1, <3>2
  <2> QED
    BY <2>3, <2>4 DEF s1, d1, p1
<1>10. CASE w \notin {"safe", "phishing"}
  <2>1. rep'[Addr(m)] = ra /\ rep'[Domain(m)] = rd
    BY <1>7, <1>10, KeysOf
  <2>2. s1 = s /\ d1 = d /\ p1 = p
    BY <1>3, <1>4, <1>10
  <2> QED
    BY <1>5, <2>1, <2>2
<1> QED
  BY <1>8, <1>9, <1>10

\* Every step pays for the scores it moves.
LEMMA TrustStep == TrustInvariant /\ TypeOK' /\ [Next]_vars => TrustInvariant'
<1> SUFFICES ASSUME TypeOK, SpentAreSound, ScoresArePaidFor, TypeOK', [Next]_vars
             PROVE  SpentAreSound' /\ ScoresArePaidFor'
  BY DEF TrustInvariant
<1>1. ASSUME rep' = rep,
             \A v \in {"safe", "phishing"}, e \in Emails :
               /\ SpentIsSound(v, Addr(e))' /\ Spent(v, Addr(e))' >= Spent(v, Addr(e))
               /\ SpentIsSound(v, Domain(e))' /\ Spent(v, Domain(e))' >= Spent(v, Domain(e))
      PROVE  SpentAreSound' /\ ScoresArePaidFor'
  <2>1. SpentAreSound'
    BY <1>1 DEF SpentAreSound
  <2> QED
    BY <1>1, <2>1, ScoresStayPaidFor
<1>2. \A v \in {"safe", "phishing"}, e \in Emails :
        /\ SpentIsSound(v, Addr(e)) /\ Spent(v, Addr(e)) \in Nat
        /\ SpentIsSound(v, Domain(e)) /\ Spent(v, Domain(e)) \in Nat
  BY SpentTypes DEF SpentAreSound, SpentAreWhole
<1>3. ASSUME UNCHANGED <<verdicts, review, rep>> PROVE SpentAreSound' /\ ScoresArePaidFor'
  <2>1. \A v, k : Spent(v, k)' = Spent(v, k) /\ (SpentIsSound(v, k) => SpentIsSound(v, k)')
    BY <1>3, NothingSpent
  <2> QED
    BY <1>1, <1>2, <1>3, <2>1
<1>4. ASSUME NEW e \in Emails, Ingest(e) \/ Release(e) \/ Delete(e) \/ Remediate(e)
      PROVE  UNCHANGED <<verdicts, review, rep>>
  BY <1>4 DEF Ingest, Enrich, Store, Release, Delete, Remediate, hist
<1>5. ASSUME EmptyQuarantine \/ (\E i \in Indicators, w \in IntelVerdicts : EditIntel(i, w)) \/ UNCHANGED vars
      PROVE  UNCHANGED <<verdicts, review, rep>>
  BY <1>5 DEF EmptyQuarantine, EditIntel, vars, hist
<1>6. ASSUME NEW a \in Analysts, NEW e \in Emails, NEW w \in Verdicts, Review(a, e, w)
      PROVE  SpentAreSound' /\ ScoresArePaidFor'
  <2>1. \A v, k : SpentIsSound(v, k) => SpentIsSound(v, k)' /\ Spent(v, k)' = Spent(v, k)
    BY <1>6, ReviewSpends
  <2>2. rep' = rep
    BY <1>6 DEF Review
  <2> QED
    BY <1>1, <1>2, <2>1, <2>2
<1>7. ASSUME NEW a \in Analysts, verdicts' = verdicts,
             \A b \in Analysts \ {a} : review'[b] = review[b],
             review'[a] = NoReview \/ review'[a].step = "block",
             rep' = rep \/ (/\ review[a] \in InProgress /\ review[a].step = "learn"
                            /\ rep' = Learned(review[a].email, review[a].verdict))
      PROVE  SpentAreSound' /\ ScoresArePaidFor'
  <2>1. \A v, k : SpentIsSound(v, k) =>
          /\ SpentIsSound(v, k)'
          /\ Spent(v, k)' = Spent(v, k) + (IF a \in Learning(v, k) THEN 1 ELSE 0)
    BY <1>7, RequestSpends
  <2>2. \A v \in {"safe", "phishing"}, e \in Emails :
          /\ SpentIsSound(v, Addr(e))' /\ Spent(v, Addr(e))' >= Spent(v, Addr(e))
          /\ SpentIsSound(v, Domain(e))' /\ Spent(v, Domain(e))' >= Spent(v, Domain(e))
    BY <1>2, <2>1
  <2>3. SpentAreSound'
    BY <2>2 DEF SpentAreSound
  <2>4. CASE rep' = rep
    BY <1>1, <2>2, <2>4
  <2>5. CASE /\ review[a] \in InProgress /\ review[a].step = "learn"
             /\ rep' = Learned(review[a].email, review[a].verdict)
    <3>1. \A v \in {"safe", "phishing"}, m \in Emails :
            /\ Spent(v, Addr(m))' = Spent(v, Addr(m)) + (IF a \in Learning(v, Addr(m)) THEN 1 ELSE 0)
            /\ Spent(v, Domain(m))' = Spent(v, Domain(m)) + (IF a \in Learning(v, Domain(m)) THEN 1 ELSE 0)
      BY <1>2, <2>1
    <3> QED
      BY <2>3, <2>5, <3>1, LessonIsPaidFor
  <2> QED
    BY <1>7, <2>4, <2>5
<1>8. ASSUME NEW a \in Analysts, Learn(a) PROVE SpentAreSound' /\ ScoresArePaidFor'
  <2>1. review[a] \in InProgress /\ review[a].step = "learn"
    BY <1>8, BusyRequest DEF Learn
  <2>2. verdicts' = verdicts
    BY <1>8 DEF Learn, hist
  <2>3. review' = [review EXCEPT ![a].step = "block"] \/ Finish(a)
    BY <1>8 DEF Learn
  <2>4. /\ \A b \in Analysts \ {a} : review'[b] = review[b]
        /\ review'[a] = NoReview \/ review'[a].step = "block"
    BY <2>1, <2>3 DEF Finish, TypeOK, InProgress
  <2>5. rep' = rep \/ rep' = Learned(review[a].email, review[a].verdict)
    BY <1>8 DEF Learn
  <2> QED
    BY <1>7, <2>1, <2>2, <2>4, <2>5
<1>9. ASSUME NEW a \in Analysts, AutoBlock(a) \/ LearningFails(a) PROVE SpentAreSound' /\ ScoresArePaidFor'
  <2>1. verdicts' = verdicts /\ rep' = rep /\ Finish(a)
    BY <1>9 DEF AutoBlock, LearningFails, hist
  <2>2. review'[a] = NoReview /\ \A b \in Analysts \ {a} : review'[b] = review[b]
    BY <2>1 DEF Finish, TypeOK
  <2> QED
    BY <1>7, <2>1, <2>2
<1> QED
  BY <1>3, <1>4, <1>5, <1>6, <1>8, <1>9 DEF Next, Request, Quiet

\* Without verdicts there are no scores to pay for.
LEMMA InitTrust == Init => SpentAreSound /\ ScoresArePaidFor
<1> SUFFICES ASSUME Init PROVE SpentAreSound /\ ScoresArePaidFor
  OBVIOUS
<1>1. \A v, k : Learning(v, k) = {} /\ Given(v, k) = {}
  BY DEF Init, Learning, Given
<1>2. IsFiniteSet({}) /\ Cardinality({}) = 0
  BY FS_EmptySet
<1>3. \A v, k : SpentIsSound(v, k) /\ Spent(v, k) = 0
  BY <1>1, <1>2 DEF SpentIsSound, Spent
<1>4. \A e \in Emails : rep[Addr(e)] = 0 /\ rep[Domain(e)] = 0
  BY KeysOf DEF Init
<1> QED
  BY <1>3, <1>4 DEF SpentAreSound, ScoresArePaidFor

\* Every score is paid for by verdicts learned from, in every reachable state.
THEOREM TrustInductive == Spec => []TrustInvariant
<1>1. TypeOK /\ Init => TrustInvariant
  BY InitTrust DEF TrustInvariant
<1> QED
  BY <1>1, TrustStep, Typing, PTL DEF Spec

----------------------------------------------------------------------------
(* Where a score cannot come from: no verdict raises an address, none lowers  *)
(* a linked domain, and a linked domain is raised by a confirmation only.     *)

\* Every review in progress is of a verdict committed.
ReviewsAreGiven ==
  \A a \in Analysts : review[a] # NoReview =>
    \E i \in DOMAIN verdicts : verdicts[i].email = review[a].email /\ verdicts[i].verdict = review[a].verdict

\* A confirmed email names the domain of a key.
Confirmed(k) ==
  \E i \in DOMAIN verdicts : verdicts[i].verdict = "phishing" /\ k[2] \in Links(verdicts[i].email)

AddrsAreNeverBad == \A e \in Emails : rep[Addr(e)] <= 0

LinksAreConfirmed ==
  \A k \in Keys : k[1] = "url_domain" => rep[k] >= 0 /\ (rep[k] > 0 => Confirmed(k))

OriginInvariant == TypeOK /\ ReviewsAreGiven /\ AddrsAreNeverBad /\ LinksAreConfirmed

\* A confirmation raises a linked domain only if the email names it.
LEMMA ConfirmedDeltaOfLink ==
  ASSUME NEW e \in Emails, NEW k \in Keys, k[1] = "url_domain"
  PROVE  ConfirmedDelta(e, k) \in Nat /\ (ConfirmedDelta(e, k) > 0 => k[2] \in Links(e))
<1> DEFINE S == {i \in Facts[e].iocs \cap DOMAIN DomainOf : k = <<"url_domain", DomainOf[i]>>}
<1>1. k # Domain(e)
  BY DEF Domain
<1>2. ConfirmedDelta(e, k) = 40 * Cardinality(S)
  BY <1>1 DEF ConfirmedDelta
<1>3. IsFiniteSet(Facts[e].iocs) /\ S \subseteq Facts[e].iocs
  BY FeedbackAssumption
<1>4. Cardinality(S) \in Nat
  BY <1>3, FS_Subset, FS_CardinalityType
<1>5. ASSUME k[2] \notin Links(e) PROVE Cardinality(S) = 0
  <2>1. S = {}
    BY <1>5 DEF Links
  <2> QED
    BY <2>1, FS_EmptySet
<1> HIDE DEF S
<1> QED
  BY <1>2, <1>4, <1>5

\* What a verdict teaches comes from where the invariant says.
LEMMA LessonHasOrigin ==
  ASSUME TypeOK, AddrsAreNeverBad, LinksAreConfirmed, NEW e \in Emails, NEW w \in Verdicts,
         \E i \in DOMAIN verdicts : verdicts[i].email = e /\ verdicts[i].verdict = w,
         rep' = Learned(e, w), verdicts' = verdicts
  PROVE  AddrsAreNeverBad' /\ LinksAreConfirmed'
<1>1. \A k \in Keys : /\ rep[k] \in -100..100
                      /\ rep'[k] = CASE w = "safe"     -> Bumped(k, SafeDelta(e, k))
                                     [] w = "phishing" -> Bumped(k, ConfirmedDelta(e, k))
                                     [] OTHER          -> rep[k]
  BY DEF Learned, TypeOK
<1>2. ASSUME NEW m \in Emails PROVE rep'[Addr(m)] <= 0
  <2>1. Addr(m) \in Keys /\ rep[Addr(m)] <= 0
    BY KeysOf DEF AddrsAreNeverBad
  <2>2. SafeDelta(e, Addr(m)) \in {-40, 0} /\ ConfirmedDelta(e, Addr(m)) = 0
    BY SafeDeltaOf, ConfirmedDeltaOf
  <2>3. rep[Addr(m)] \in -100..100
    BY <1>1, <2>1
  <2>4. \A d \in {-40, 0} : Clamp(rep[Addr(m)] + d) <= 0
    BY <2>1, <2>3 DEF Clamp, V!Larger, V!Smaller
  <2> QED
    BY <1>1, <2>1, <2>2, <2>4 DEF Bumped
<1>3. ASSUME NEW k \in Keys, k[1] = "url_domain"
      PROVE  rep'[k] >= 0 /\ (rep'[k] > 0 => Confirmed(k))
  <2>1. rep[k] >= 0 /\ (rep[k] > 0 => Confirmed(k)) /\ rep[k] \in -100..100
    BY <1>1, <1>3 DEF LinksAreConfirmed
  <2>2. CASE w = "phishing"
    <3>1. ConfirmedDelta(e, k) \in Nat /\ (ConfirmedDelta(e, k) > 0 => k[2] \in Links(e))
      BY <1>3, ConfirmedDeltaOfLink
    <3>2. rep'[k] = Clamp(rep[k] + ConfirmedDelta(e, k))
      BY <1>1, <2>2 DEF Bumped
    <3>3. rep'[k] >= 0 /\ (rep'[k] > 0 => rep[k] > 0 \/ ConfirmedDelta(e, k) > 0)
      BY <2>1, <3>1, <3>2 DEF Clamp, V!Larger, V!Smaller
    <3>4. k[2] \in Links(e) => Confirmed(k)
      BY <2>2 DEF Confirmed
    <3> QED
      BY <2>1, <3>1, <3>3, <3>4
  <2>3. CASE w = "safe"
    <3>1. SafeDelta(e, k) = 0
      BY <1>3 DEF SafeDelta, Addr, Domain
    <3>2. Clamp(rep[k] + 0) = rep[k]
      BY <2>1 DEF Clamp, V!Larger, V!Smaller
    <3> QED
      BY <1>1, <2>1, <2>3, <3>1, <3>2 DEF Bumped
  <2>4. CASE w \notin {"safe", "phishing"}
    BY <1>1, <2>1, <2>4
  <2> QED
    BY <2>2, <2>3, <2>4
<1>4. \A k : Confirmed(k)' <=> Confirmed(k)
  BY DEF Confirmed
<1> QED
  BY <1>2, <1>3, <1>4 DEF AddrsAreNeverBad, LinksAreConfirmed

\* What keeps the scores and the verdicts keeps their origins.
LEMMA OriginsStay ==
  ASSUME AddrsAreNeverBad, LinksAreConfirmed, rep' = rep, verdicts' = verdicts
  PROVE  AddrsAreNeverBad' /\ LinksAreConfirmed'
BY DEF AddrsAreNeverBad, LinksAreConfirmed, Confirmed

\* A verdict committed keeps those before it.
LEMMA VerdictsStay ==
  ASSUME TypeOK, NEW a \in Analysts, NEW e \in Emails, NEW w \in Verdicts, Review(a, e, w)
  PROVE  /\ \A i \in DOMAIN verdicts : i \in DOMAIN verdicts' /\ verdicts'[i] = verdicts[i]
         /\ \E i \in DOMAIN verdicts' : verdicts'[i].email = e /\ verdicts'[i].verdict = w
<1> DEFINE given == [email |-> e, verdict |-> w]
           n == Len(verdicts) + 1
<1>1. /\ given.email = e /\ given.verdict = w
      /\ given \in [email : Emails, verdict : Verdicts]
      /\ verdicts' = Append(verdicts, given)
  BY DEF Review
<1> HIDE DEF given
<1>2. Len(verdicts) \in Nat /\ DOMAIN verdicts = 1..Len(verdicts)
  BY LenProperties DEF TypeOK
<1>3. DOMAIN verdicts' = 1..n /\ verdicts'[n] = given /\ \A i \in DOMAIN verdicts : verdicts'[i] = verdicts[i]
  BY <1>1, <1>2 DEF TypeOK
<1> QED
  BY <1>1, <1>2, <1>3

\* Every step keeps the origins of the scores.
LEMMA OriginStep == OriginInvariant /\ TypeOK' /\ [Next]_vars => OriginInvariant'
<1> SUFFICES ASSUME TypeOK, ReviewsAreGiven, AddrsAreNeverBad, LinksAreConfirmed, TypeOK', [Next]_vars
             PROVE  ReviewsAreGiven' /\ AddrsAreNeverBad' /\ LinksAreConfirmed'
  BY DEF OriginInvariant
<1>1. ASSUME UNCHANGED <<verdicts, review, rep>>
      PROVE  ReviewsAreGiven' /\ AddrsAreNeverBad' /\ LinksAreConfirmed'
  BY <1>1, OriginsStay DEF ReviewsAreGiven
<1>2. ASSUME NEW e \in Emails, Ingest(e) \/ Release(e) \/ Delete(e) \/ Remediate(e)
      PROVE  UNCHANGED <<verdicts, review, rep>>
  BY <1>2 DEF Ingest, Enrich, Store, Release, Delete, Remediate, hist
<1>3. ASSUME EmptyQuarantine \/ (\E i \in Indicators, w \in IntelVerdicts : EditIntel(i, w)) \/ UNCHANGED vars
      PROVE  UNCHANGED <<verdicts, review, rep>>
  BY <1>3 DEF EmptyQuarantine, EditIntel, vars, hist
<1>4. ASSUME NEW a \in Analysts, NEW e \in Emails, NEW w \in Verdicts, Review(a, e, w)
      PROVE  ReviewsAreGiven' /\ AddrsAreNeverBad' /\ LinksAreConfirmed'
  <2> DEFINE request == [step |-> "learn", email |-> e, verdict |-> w]
  <2>1. /\ \A i \in DOMAIN verdicts : i \in DOMAIN verdicts' /\ verdicts'[i] = verdicts[i]
        /\ \E i \in DOMAIN verdicts' : verdicts'[i].email = e /\ verdicts'[i].verdict = w
    BY <1>4, VerdictsStay
  <2>2. review' = [review EXCEPT ![a] = request] /\ rep' = rep /\ request.email = e /\ request.verdict = w
    BY <1>4 DEF Review
  <2> HIDE DEF request
  <2>3. review'[a] = request /\ \A b \in Analysts \ {a} : review'[b] = review[b]
    BY <2>2 DEF TypeOK
  <2>4. ASSUME NEW b \in Analysts, review'[b] # NoReview
        PROVE  \E i \in DOMAIN verdicts' : verdicts'[i].email = review'[b].email /\ verdicts'[i].verdict = review'[b].verdict
    <3>1. CASE b = a
      BY <2>1, <2>2, <2>3, <3>1
    <3>2. CASE b # a
      <4>1. review'[b] = review[b]
        BY <2>3, <3>2
      <4>2. PICK i \in DOMAIN verdicts : verdicts[i].email = review[b].email /\ verdicts[i].verdict = review[b].verdict
        BY <2>4, <4>1 DEF ReviewsAreGiven
      <4> QED
        BY <2>1, <4>1, <4>2
    <3> QED
      BY <3>1, <3>2
  <2>5. \A k : Confirmed(k) => Confirmed(k)'
    BY <2>1 DEF Confirmed
  <2>6. AddrsAreNeverBad'
    BY <2>2 DEF AddrsAreNeverBad
  <2>7. LinksAreConfirmed'
    BY <2>2, <2>5 DEF LinksAreConfirmed
  <2> QED
    BY <2>4, <2>6, <2>7 DEF ReviewsAreGiven
<1>5. ASSUME NEW a \in Analysts, verdicts' = verdicts,
             \A b \in Analysts \ {a} : review'[b] = review[b],
             \/ review'[a] = NoReview
             \/ /\ review[a] # NoReview
                /\ review'[a].email = review[a].email /\ review'[a].verdict = review[a].verdict
      PROVE  ReviewsAreGiven'
  <2> SUFFICES ASSUME NEW b \in Analysts, review'[b] # NoReview
               PROVE  \E i \in DOMAIN verdicts : verdicts[i].email = review'[b].email /\ verdicts[i].verdict = review'[b].verdict
    BY <1>5 DEF ReviewsAreGiven
  <2>1. review[b] # NoReview /\ review'[b].email = review[b].email /\ review'[b].verdict = review[b].verdict
    BY <1>5
  <2> QED
    BY <2>1 DEF ReviewsAreGiven
<1>6. ASSUME NEW a \in Analysts, Learn(a) PROVE ReviewsAreGiven' /\ AddrsAreNeverBad' /\ LinksAreConfirmed'
  <2>1. review[a] \in InProgress /\ review[a] # NoReview
    BY <1>6, BusyRequest DEF Learn
  <2>2. verdicts' = verdicts
    BY <1>6 DEF Learn, hist
  <2>3. review' = [review EXCEPT ![a].step = "block"] \/ Finish(a)
    BY <1>6 DEF Learn
  <2>4. /\ \A b \in Analysts \ {a} : review'[b] = review[b]
        /\ \/ review'[a] = NoReview
           \/ review'[a].email = review[a].email /\ review'[a].verdict = review[a].verdict
    BY <2>1, <2>3 DEF Finish, TypeOK, InProgress
  <2>5. ReviewsAreGiven'
    BY <1>5, <2>1, <2>2, <2>4
  <2>6. rep' = rep \/ rep' = Learned(review[a].email, review[a].verdict)
    BY <1>6 DEF Learn
  <2>7. CASE rep' = rep
    BY <2>2, <2>5, <2>7, OriginsStay
  <2>8. CASE rep' = Learned(review[a].email, review[a].verdict)
    <3>1. review[a].email \in Emails /\ review[a].verdict \in Verdicts
      BY <2>1 DEF InProgress
    <3>2. \E i \in DOMAIN verdicts : verdicts[i].email = review[a].email /\ verdicts[i].verdict = review[a].verdict
      BY <2>1 DEF ReviewsAreGiven
    <3> QED
      BY <2>2, <2>5, <2>8, <3>1, <3>2, LessonHasOrigin
  <2> QED
    BY <2>6, <2>7, <2>8
<1>7. ASSUME NEW a \in Analysts, AutoBlock(a) \/ LearningFails(a)
      PROVE  ReviewsAreGiven' /\ AddrsAreNeverBad' /\ LinksAreConfirmed'
  <2>1. verdicts' = verdicts /\ rep' = rep /\ Finish(a)
    BY <1>7 DEF AutoBlock, LearningFails, hist
  <2>2. review'[a] = NoReview /\ \A b \in Analysts \ {a} : review'[b] = review[b]
    BY <2>1 DEF Finish, TypeOK
  <2> QED
    BY <1>5, <2>1, <2>2, OriginsStay
<1> QED
  BY <1>1, <1>2, <1>3, <1>4, <1>6, <1>7 DEF Next, Request, Quiet

\* Every score comes from verdicts that can move it, in every reachable state.
THEOREM OriginInductive == Spec => []OriginInvariant
<1>1. TypeOK /\ Init => OriginInvariant
  BY KeysOf DEF OriginInvariant, Init, ReviewsAreGiven, AddrsAreNeverBad, LinksAreConfirmed
<1> QED
  BY <1>1, OriginStep, Typing, PTL DEF Spec

\* A row is of an address, of a sender's domain or of a linked domain.
LEMMA KindsOfKeys ==
  ASSUME NEW k \in Keys
  PROVE  \/ \E m \in Emails : k = Addr(m) /\ k[2] = Facts[m].sender
         \/ \E m \in Emails : k = Domain(m) /\ k[2] = Facts[m].domain
         \/ k[1] = "url_domain"
BY DEF Keys, Addr, Domain

\* A score of 60 comes from two confirmations of a sender's domain or from one
\* of an email that names the domain; a score of -60 from two safe verdicts of
\* an address or three of a domain.
LEMMA ScoreIsEarned ==
  ASSUME TrustInvariant, OriginInvariant, NEW k \in Keys
  PROVE  /\ rep[k] <= -60 => \E m \in Emails :
              \/ k[2] = Facts[m].sender /\ Cardinality(Given("safe", Addr(m))) >= 2
              \/ k[2] = Facts[m].domain /\ Cardinality(Given("safe", Domain(m))) >= 3
         /\ rep[k] >= 60 => \E m \in Emails :
              \/ k[2] = Facts[m].domain /\ Cardinality(Given("phishing", Domain(m))) >= 2
              \/ /\ k[2] \in Links(m)
                 /\ \E i \in DOMAIN verdicts : verdicts[i] = [email |-> m, verdict |-> "phishing"]
<1>1. rep[k] \in -100..100
  BY DEF TrustInvariant, TypeOK
<1>2. ASSUME NEW v \in {"safe", "phishing"}, NEW m \in Emails
      PROVE  /\ Spent(v, Addr(m)) \in Nat /\ Spent(v, Addr(m)) <= Cardinality(Given(v, Addr(m)))
             /\ Spent(v, Domain(m)) \in Nat /\ Spent(v, Domain(m)) <= Cardinality(Given(v, Domain(m)))
             /\ Cardinality(Given(v, Addr(m))) \in Nat /\ Cardinality(Given(v, Domain(m))) \in Nat
  BY SpentType, GivenFinite DEF SpentAreSound, TrustInvariant
<1>3. ASSUME NEW m \in Emails, k = Addr(m)
      PROVE  rep[k] < 60 /\ (rep[k] <= -60 => Cardinality(Given("safe", Addr(m))) >= 2)
  <2>1. rep[k] <= 0 /\ rep[k] >= -40 * Spent("safe", Addr(m))
    BY <1>3 DEF OriginInvariant, AddrsAreNeverBad, TrustInvariant, ScoresArePaidFor
  <2> QED
    BY <1>1, <1>2, <2>1
<1>4. ASSUME NEW m \in Emails, k = Domain(m)
      PROVE  /\ rep[k] >= 60 => Cardinality(Given("phishing", Domain(m))) >= 2
             /\ rep[k] <= -60 => Cardinality(Given("safe", Domain(m))) >= 3
  <2>1. rep[k] <= 40 * Spent("phishing", Domain(m)) /\ rep[k] >= -20 * Spent("safe", Domain(m))
    BY <1>4 DEF TrustInvariant, ScoresArePaidFor
  <2> QED
    BY <1>1, <1>2, <2>1
<1>5. CASE k[1] = "url_domain"
  <2>1. rep[k] >= 0 /\ (rep[k] > 0 => Confirmed(k))
    BY <1>5 DEF OriginInvariant, LinksAreConfirmed
  <2>2. ASSUME Confirmed(k)
        PROVE  \E m \in Emails : /\ k[2] \in Links(m)
                                 /\ \E i \in DOMAIN verdicts : verdicts[i] = [email |-> m, verdict |-> "phishing"]
    <3>1. PICK i \in DOMAIN verdicts : verdicts[i].verdict = "phishing" /\ k[2] \in Links(verdicts[i].email)
      BY <2>2 DEF Confirmed
    <3>2. verdicts[i] \in [email : Emails, verdict : Verdicts]
      <4>1. verdicts \in Seq([email : Emails, verdict : Verdicts])
        BY DEF TrustInvariant, TypeOK
      <4>2. Len(verdicts) \in Nat /\ DOMAIN verdicts = 1..Len(verdicts)
        BY <4>1, LenProperties
      <4> QED
        BY <4>1, <4>2, ElementOfSeq
    <3>3. /\ verdicts[i].email \in Emails
          /\ verdicts[i] = [email |-> verdicts[i].email, verdict |-> "phishing"]
      BY <3>1, <3>2
    <3> QED
      BY <3>1, <3>3
  <2> QED
    BY <1>1, <2>1, <2>2
<1>6. CASE \E m \in Emails : k = Addr(m) /\ k[2] = Facts[m].sender
  <2>1. PICK m \in Emails : k = Addr(m) /\ k[2] = Facts[m].sender
    BY <1>6
  <2>2. ~(rep[k] >= 60) /\ (rep[k] <= -60 => Cardinality(Given("safe", Addr(m))) >= 2)
    BY <1>1, <1>3, <2>1
  <2> QED
    BY <2>1, <2>2
<1>7. CASE \E m \in Emails : k = Domain(m) /\ k[2] = Facts[m].domain
  BY <1>4, <1>7
<1> QED
  BY <1>5, <1>6, <1>7, KindsOfKeys

\* A score is lowered by trust only after two safe verdicts on an address or
\* three on a domain the email is looked up with, and raised only after two
\* confirmations of a domain or one of an email that names it, however the
\* transactions of concurrent reviews interleave or fail (learning.py:73-126).
THEOREM TrustHolds == Spec => []TrustIsEarned
<1>1. TrustInvariant /\ OriginInvariant => TrustIsEarned
  <2> SUFFICES ASSUME TrustInvariant, OriginInvariant, NEW e \in Emails
               PROVE  /\ Trusted(e) => \E m \in Emails :
                           \/ Facts[m].sender \in Values(e) /\ Cardinality(Given("safe", Addr(m))) >= 2
                           \/ Facts[m].domain \in Values(e) /\ Cardinality(Given("safe", Domain(m))) >= 3
                      /\ KnownBad(e) => \E m \in Emails :
                           \/ Facts[m].domain \in Values(e) /\ Cardinality(Given("phishing", Domain(m))) >= 2
                           \/ /\ Links(m) \cap Values(e) # {}
                              /\ \E i \in DOMAIN verdicts : verdicts[i] = [email |-> m, verdict |-> "phishing"]
    BY DEF TrustIsEarned
  <2>1. ASSUME Trusted(e) PROVE \E k \in Keys : k[2] \in Values(e) /\ rep[k] <= -60
    BY <2>1 DEF Trusted, Known, V!ReputationDelta
  <2>2. ASSUME KnownBad(e) PROVE \E k \in Keys : k[2] \in Values(e) /\ rep[k] >= 60
    BY <2>2 DEF KnownBad, Known, V!ReputationDelta
  <2>3. ASSUME Trusted(e)
        PROVE  \E m \in Emails :
                 \/ Facts[m].sender \in Values(e) /\ Cardinality(Given("safe", Addr(m))) >= 2
                 \/ Facts[m].domain \in Values(e) /\ Cardinality(Given("safe", Domain(m))) >= 3
    <3>1. PICK k \in Keys : k[2] \in Values(e) /\ rep[k] <= -60
      BY <2>1, <2>3
    <3>2. PICK m \in Emails :
            \/ k[2] = Facts[m].sender /\ Cardinality(Given("safe", Addr(m))) >= 2
            \/ k[2] = Facts[m].domain /\ Cardinality(Given("safe", Domain(m))) >= 3
      BY <3>1, ScoreIsEarned
    <3> QED
      BY <3>1, <3>2
  <2>4. ASSUME KnownBad(e)
        PROVE  \E m \in Emails :
                 \/ Facts[m].domain \in Values(e) /\ Cardinality(Given("phishing", Domain(m))) >= 2
                 \/ /\ Links(m) \cap Values(e) # {}
                    /\ \E i \in DOMAIN verdicts : verdicts[i] = [email |-> m, verdict |-> "phishing"]
    <3>1. PICK k \in Keys : k[2] \in Values(e) /\ rep[k] >= 60
      BY <2>2, <2>4
    <3>2. PICK m \in Emails :
            \/ k[2] = Facts[m].domain /\ Cardinality(Given("phishing", Domain(m))) >= 2
            \/ /\ k[2] \in Links(m)
               /\ \E i \in DOMAIN verdicts : verdicts[i] = [email |-> m, verdict |-> "phishing"]
      BY <3>1, ScoreIsEarned
    <3> QED
      BY <3>1, <3>2
  <2> QED
    BY <2>3, <2>4
<1> QED
  BY <1>1, TrustInductive, OriginInductive, PTL

=============================================================================
