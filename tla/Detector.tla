------------------------------ MODULE Detector ------------------------------
(***************************************************************************)
(* One analysis of a message, analyze_email_hybrid followed by              *)
(* persist_detection, among other threads that analyse messages with links  *)
(* to the same domains and share the table domain_intel_cache, an unreliable *)
(* WHOIS service, and a language model that may answer anything or nothing. *)
(***************************************************************************)
EXTENDS Scoring, AttachmentScan

CONSTANTS
  Mails,         \* the messages that arrive
  OtherUrls,     \* first URLs of the messages other threads analyse
  WhoisAges,     \* answers of WHOIS
  Answers,       \* answers of the language model
  MlScores,      \* answers of the classifier; 0 when it is absent
  Risks,         \* behavioural_risk_score of recipients
  Files,         \* attachments
  Reputations,   \* learned scores of a sender and its links
  Policies, Blocked, SiemMinScore,
  None           \* nothing yet

ASSUME DetectorAssumption ==
  /\ Mails \subseteq Message /\ OtherUrls \subseteq Url
  /\ WhoisAges \subseteq Ages /\ NoAnswer \in Answers /\ Answers \subseteq Answer
  /\ MlScores \subseteq Score /\ Risks \subseteq Score
  /\ Files \subseteq File /\ Reputations \subseteq -100..100

V == INSTANCE Verdict

ASSUME PolicyAssumption == Policies \subseteq V!Policy

VARIABLES
  fast,      \* DETECTOR_FAST_PATH of this process
  cache,     \* domain_intel_cache: domain -> Intel or None
  stage,     \* of this analysis
  mail, intel, layers, answer, final, label,
  borrowed,  \* history: intel was read from the table, not measured on the link
  row        \* the stored verdict
vars == <<fast, cache, stage, mail, intel, layers, answer, final, label, borrowed, row>>

Stages  == {"idle", "look up", "whois", "combine", "judged", "stored", "failed"}

Init ==
  /\ fast \in BOOLEAN
  /\ cache = [d \in Domains |-> None]
  /\ stage = "idle"
  /\ mail = None /\ intel = NoIntel /\ layers = None /\ answer = NoAnswer
  /\ final = 0 /\ label = None /\ borrowed = FALSE /\ row = None

----------------------------------------------------------------------------
(* The analysis. *)

Receive(m) ==
  /\ stage = "idle"
  /\ mail' = m
  /\ stage' = IF HasUrl(m) THEN "look up" ELSE "combine"
  /\ UNCHANGED <<fast, cache, intel, layers, answer, final, label, borrowed, row>>

\* _get_cached_domain_intel: a row of the registered domain answers for any URL
\* on it; errors read as a miss.
LookUp ==
  /\ stage = "look up"
  /\ \/ /\ cache[mail.first.domain] # None
        /\ intel' = cache[mail.first.domain]
        /\ borrowed' = TRUE
        /\ stage' = "combine"
     \/ /\ stage' = "whois"
        /\ UNCHANGED <<intel, borrowed>>
  /\ UNCHANGED <<fast, cache, mail, layers, answer, final, label, row>>

\* Mutation: the entry keeps the score and forgets the features.
StoredScore(i) == [NoIntel EXCEPT !.score = i.score]

\* _set_cached_domain_intel: what it stores of an analysed URL.
Stored(i) == i

\* The rest of layer3_domain_intel; the upsert may fail silently.
Whois(age) ==
  /\ stage = "whois"
  /\ intel' = DomainIntel(mail.first, age)
  /\ \/ cache' = [cache EXCEPT ![mail.first.domain] = Stored(intel')]
     \/ UNCHANGED cache
  /\ stage' = "combine"
  /\ UNCHANGED <<fast, mail, layers, answer, final, label, borrowed, row>>

\* The layers of a message, with intel from the domain layer.
LayersOf(m, i, ml, risk) ==
  LET match == CorpusMatch(m, i)
  IN  [h |-> HeuristicScore(m), a |-> AuthScore(m.auth), d |-> i.score,
       bec |-> BecScore(m), inj |-> InjectionScore(m), corpus |-> match.score,
       floor |-> AuthFloor(m), ml |-> ml, risk |-> risk,
       matched |-> match.matched, highValue |-> match.highValue,
       target |-> i.target, idn |-> i.idn, hidden |-> m.text.hidden,
       themed |-> ThemedScore(m) >= 78 /\ m.text.solicits]

\* The model is asked unless the fast path answers in its place; an answer
\* that is no object, or has the wrong types inside, makes the analysis raise.
Judge(ml, risk, x) ==
  /\ stage = "combine"
  /\ layers' = LayersOf(mail, intel, ml, risk)
  /\ answer' = IF fast /\ TakesFastPath(layers') THEN FastAnswer(layers') ELSE x
  /\ final' = FinalRisk(layers', answer')
  /\ label' = Label(layers', final', answer'.label)
  /\ stage' = "judged"
  /\ UNCHANGED <<fast, cache, mail, intel, borrowed, row>>

Malformed(ml, risk) ==
  /\ stage = "combine"
  /\ ~(fast /\ TakesFastPath(LayersOf(mail, intel, ml, risk)))
  /\ stage' = "failed"
  /\ UNCHANGED <<fast, cache, mail, intel, layers, answer, final, label, borrowed, row>>

----------------------------------------------------------------------------
(* persist_detection: the decision is Verdict's. *)

\* Mutation: the score persisted is url_threat_score, not final_risk_score.
UrlDetection(hits, files, known) ==
  [risk |-> layers.d, url |-> layers.h, bec |-> label = "BEC",
   injected |-> mail.text.injections > 0,
   hits |-> hits, attach |-> AttachmentRisk(files), known |-> known]

Detection(hits, files, known) ==
  [risk |-> final, url |-> layers.h, bec |-> label = "BEC",
   injected |-> mail.text.injections > 0,
   hits |-> hits, attach |-> AttachmentRisk(files), known |-> known]

\* Mutation: the blocklist renames whatever the detector said.
KeptLabel(d, said) == said

\* A floor of the ingest renames a message the detector called harmless.
StoredLabel(d, said) ==
  IF said \notin {"Unknown", "Safe"} THEN said
  ELSE IF V!IntelBlock(d) THEN "known bad"
  ELSE IF d.attach >= 80 THEN "malware"
  ELSE said

Persist(hits, files, known) ==
  /\ stage = "judged"
  /\ LET d == Detection(hits, files, known)
     IN  row' = [score |-> V!FinalScore(d), status |-> V!Status(d),
                 label |-> StoredLabel(d, label), attach |-> d.attach,
                 delta |-> V!ReputationDelta(known)]
  /\ stage' = "stored"
  /\ UNCHANGED <<fast, cache, mail, intel, layers, answer, final, label, borrowed>>

----------------------------------------------------------------------------
(* Other threads, and the table's age limit.  The analysis reads the table    *)
(* once: what others do to it afterwards no longer reaches it, and is left    *)
(* out.                                                                       *)
Reading == stage \in {"idle", "look up", "whois"}

OtherAnalysis(u, age) ==
  /\ Reading /\ cache[u.domain] = None
  /\ cache' = [cache EXCEPT ![u.domain] = Stored(DomainIntel(u, age))]
  /\ UNCHANGED <<fast, stage, mail, intel, layers, answer, final, label, borrowed, row>>

Expire(d) ==
  /\ Reading /\ cache[d] # None
  /\ cache' = [cache EXCEPT ![d] = None]
  /\ UNCHANGED <<fast, stage, mail, intel, layers, answer, final, label, borrowed, row>>

Others == \/ \E u \in OtherUrls, age \in WhoisAges : OtherAnalysis(u, age)
          \/ \E d \in Domains : Expire(d)

Next ==
  \/ \E m \in Mails : Receive(m)
  \/ LookUp
  \/ \E age \in WhoisAges : Whois(age)
  \/ \E ml \in MlScores, risk \in Risks : \/ \E x \in Answers : Judge(ml, risk, x)
                                          \/ Malformed(ml, risk)
  \/ \E hits \in SUBSET Blocked, files \in SUBSET Files, known \in SUBSET Reputations :
       Persist(hits, files, known)
  \/ Others

Spec == Init /\ [][Next]_vars

----------------------------------------------------------------------------
(* Properties. *)

\* Types of the state.
TypeOK ==
  /\ fast \in BOOLEAN /\ stage \in Stages
  /\ cache \in [Domains -> Intel \cup {None}]
  /\ mail \in Mails \cup {None} /\ intel \in Intel
  /\ layers \in Layers \cup {None}
  /\ answer \in Answer /\ final \in Score /\ label \in Labels \cup {None}
  /\ borrowed \in BOOLEAN
  /\ stage = "stored" => row.status \in V!Statuses /\ row.score \in Score

Judged == stage \in {"judged", "stored"}

\* What the facts of a message owe: the comments call each of these signals
\* decisive on its own.  The host of the link is among them if it was measured.
Owed(m, measured) ==
  LET typo == HasUrl(m) /\ Host[m.first.domain].typo >= 75
      idn  == HasUrl(m) /\ (Host[m.first.domain].idn \/ (measured /\ m.first.idnHost))
      auth == AuthScore(m.auth)
      bars == {Points(typo, 80), Points(idn, 85),
               Points(m.text.injections > 0, 75), Points(m.text.hidden, 75),
               Points(HasUrl(m) /\ auth >= 70, 80),
               Points(HeuristicScore(m) >= 40 /\ auth >= 70, 85),
               Points(m.text.lures \cap HighValueLures # {} /\ auth >= 40, 85),
               Points(m.themed >= 3 /\ m.text.solicits, 80)}
  IN  CHOOSE n \in bars : \A k \in bars : n >= k

\* ai_detector.py:840-905: what is conclusive in the message or in the registered
\* domain of its link stays so, whatever another thread cached for the domain,
\* whatever WHOIS and the model answer and whether or not the fast path took
\* their place; so does the host of the link, unless a cached entry stood in.
DecisiveSignalsHold == Judged => final >= Owed(mail, ~borrowed)

\* "a safety net that can raise the score": no answer of the model brings a
\* message below the score it has when the model is silent.
ModelOnlyRaises == Judged => final >= FinalRisk(layers, NoAnswer)

\* The fast path is a shortcut: it takes the side of the bar of 70 that the
\* layers take without a model.
FastPathAgrees ==
  Judged /\ fast /\ TakesFastPath(layers)
    => (final >= 70 <=> FinalRisk(layers, NoAnswer) >= 70)

\* deterministic_score "must stand on its own" and mirrors the floors of the
\* hybrid score: it never sees a threat the hybrid score misses, except when
\* WHOIS reports a young domain, an evasion that replaces the corpus match of a
\* brand by an exact search for a technique that may not be listed.
OfflineAgrees ==
  Judged /\ IsOfflineThreat(LayersOf(mail, NoIntel, layers.ml, layers.risk)) /\ final < 70
    => intel.age \in 3..29 /\ ~layers.matched /\ mail.text.brands # {}

\* A policy that quarantines for a score the detector calls harmless.
SetsLowBar(p) == p.action = "quarantine" /\ p.keys = {"min_risk_score"} /\ p.minRisk < 70

\* "the label has to move with the score": a quarantined row with a vague label
\* had its score raised after the label was chosen, and one called Safe or
\* Unknown is there for its heuristics, a bad reputation or such a policy alone.
LabelFollowsVerdict ==
  stage = "stored" /\ row.status = "Quarantined" =>
    /\ row.label \in VagueLabels => final < 70
    /\ row.label \in {"Safe", "Unknown"} =>
         layers.h > 70 \/ row.delta = 25 \/ \E p \in Policies : SetsLowBar(p)

\* A message at the detector's bar, or with a malicious attachment, is let
\* through only by learned trust, by a hold or, since the ingest asks for more
\* than 70, at 70 exactly.
AllowedIsExplained ==
  stage = "stored" /\ row.status = "Allowed" /\ (final >= 70 \/ row.attach >= 80)
    => row.delta = -25 \/ (final = 70 /\ row.attach < 80)

=============================================================================
