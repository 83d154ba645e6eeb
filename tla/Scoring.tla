------------------------------ MODULE Scoring ------------------------------
(***************************************************************************)
(* How analyze_email_hybrid (services/ai_detector.py) combines the layers   *)
(* with a language model's answer into one score and one label, and what    *)
(* deterministic_score makes of the same message without a model.           *)
(*                                                                         *)
(* A record of Layers holds what the layers found:                          *)
(*   h, a, d, bec, inj, corpus  their scores                               *)
(*   matched, highValue         the corpus named a technique / a pretext    *)
(*                              whose request is the fraud                  *)
(*   target, idn, hidden        brand lookalike, non-ASCII domain, hidden   *)
(*                              characters                                  *)
(*   floor                      _auth_floor                                 *)
(*   themed                     security-theme domain with a solicitation   *)
(*   ml                         the classifier's answer, 0 when absent      *)
(*   risk                       behavioural_risk_score of the recipient     *)
(* The model's answer is [score, confidence, label].                        *)
(***************************************************************************)
EXTENDS Signals

Layers == [h : Score, a : Score, d : Score, bec : Score, inj : Score,
           corpus : Score, floor : Score, ml : Score, risk : Score,
           matched : BOOLEAN, highValue : BOOLEAN, target : BOOLEAN,
           idn : BOOLEAN, hidden : BOOLEAN, themed : BOOLEAN]

(* Labels: "vague" stands for the words of VAGUE_LABELS the model may use,   *)
(* "benign" for a harmless word that is not among them (the model is told to *)
(* answer in Uzbek by default), "named" for a threat it names.               *)
ModelLabels == {"Unknown", "Safe", "vague", "benign", "named", "BEC"}
Labels == ModelLabels \cup {"evasion", "link", "technique", "spoofed", "phishing"}
VagueLabels == {"Safe", "Unknown", "vague", "link"}
Answer == [score : Score, confidence : Score, label : ModelLabels]

\* _llm_soc_analysis returned {}: the model is slow, down or unreadable.
NoAnswer == [score |-> 0, confidence |-> 40, label |-> "Unknown"]

Raised(x, c, y) == IF c THEN Higher(x, y) ELSE x

----------------------------------------------------------------------------
\* deterministic_high: what the cheap layers alone make of the message.
DeterministicHigh(s) ==
  LET worst == Higher(Higher(s.corpus, s.d), Higher(s.bec, s.inj))
      spoof == \/ s.a >= 70 /\ (s.d >= 50 \/ s.h >= 40)
               \/ s.highValue /\ s.a >= 40
  IN  Higher(Raised(worst, spoof, 85), s.floor)

ConclusiveBenign(s) ==
  /\ ~s.matched /\ ~s.highValue
  /\ s.a = 0 /\ s.d = 0
  /\ s.h <= 15 /\ s.bec < 30 /\ s.inj < 30

\* The shortcut of DETECTOR_FAST_PATH and the answer it puts in the model's place.
TakesFastPath(s)  == DeterministicHigh(s) >= 80 \/ ConclusiveBenign(s)
FastAnswer(s) ==
  IF DeterministicHigh(s) >= 80
    THEN [score |-> DeterministicHigh(s), confidence |-> 90, label |-> "Unknown"]
    ELSE [score |-> s.h, confidence |-> 80, label |-> "Safe"]

----------------------------------------------------------------------------
\* The weighted average.
Blend(s, x) ==
  (22 * s.h + 10 * s.a + 20 * s.d + 12 * s.risk + 20 * x.score + 10 * s.bec
     + 6 * s.inj) \div 100

\* Floors for signals that are conclusive on their own.
ContentFloor(s) ==
  LET domain == Raised(Raised(0, s.d >= 75, s.d), s.target /\ s.d >= 70, Higher(s.d, 80))
      text   == Raised(Raised(0, s.bec >= 70, s.bec), s.inj >= 70, s.inj)
      hidden == Raised(Raised(0, s.idn, 85), s.hidden, 75)
  IN  Higher(Higher(domain, text), hidden)

\* Mutation: the themed-domain floor is only in deterministic_score.
UnthemedFloor(s) ==
  LET known == Raised(Raised(0, s.corpus >= 70, s.corpus), s.highValue /\ s.a >= 40, 85)
  IN  Higher(known, Higher(s.floor, Raised(Raised(0, s.a >= 70, 60),
                                           s.a >= 70 /\ (s.d >= 50 \/ s.h >= 40), 85)))

SenderFloor(s) ==
  LET known == Raised(Raised(0, s.corpus >= 70, s.corpus), s.highValue /\ s.a >= 40, 85)
      link  == Raised(s.floor, s.themed, 80)
      spoof == Raised(Raised(0, s.a >= 70, 60),
                      s.a >= 70 /\ (s.d >= 50 \/ s.h >= 40), 85)
  IN  Higher(Higher(known, link), spoof)

ModelFloor(x) == IF x.score >= 70 /\ x.confidence >= 60 THEN x.score ELSE 0

SafetyNet(s) ==
  Higher(Raised(0, DeterministicHigh(s) >= 70, DeterministicHigh(s)),
         Raised(0, s.ml >= 75, s.ml))

\* Mutation: a confident "harmless" of the model switches the floors off.
TrustingScore(s, x) ==
  IF x.score <= 20 /\ x.confidence >= 90 THEN Blend(s, x)
  ELSE Higher(Higher(Blend(s, x), ModelFloor(x)),
              Higher(Higher(ContentFloor(s), SenderFloor(s)), SafetyNet(s)))

\* Mutation: the floors were not written yet.
DilutedScore(s, x) == Higher(Blend(s, x), ModelFloor(x))

FinalRisk(s, x) ==
  Higher(Higher(Blend(s, x), ModelFloor(x)),
         Higher(Higher(ContentFloor(s), SenderFloor(s)), SafetyNet(s)))

----------------------------------------------------------------------------
\* threat_type: the model's word unless it is none; a vague word does not stay
\* on a score of 70 or more.
Label(s, final, said) ==
  LET own == IF said # "Unknown" THEN said
             ELSE IF s.inj >= 35 THEN "evasion"
             ELSE IF s.bec >= 45 THEN "BEC"
             ELSE IF s.d >= 60 THEN "link"
             ELSE IF final < 30 THEN "Safe" ELSE "Unknown"
  IN  IF final >= 70 /\ own \in VagueLabels
        THEN IF s.matched THEN (IF s.highValue THEN "BEC" ELSE "technique")
             ELSE IF s.a >= 70 THEN "spoofed" ELSE "phishing"
        ELSE own

----------------------------------------------------------------------------
\* deterministic_score, over layers measured without WHOIS.
OfflineScore(s) ==
  LET blend == (30 * s.h + 20 * s.a + 15 * s.bec + 10 * s.inj + 25 * s.corpus) \div 100
      spoof == s.a >= 70 /\ (s.h >= 40 \/ s.corpus >= 50)
      text  == Raised(Raised(0, s.bec >= 70, s.bec), s.inj >= 70, s.inj)
      known == Raised(Raised(0, s.corpus >= 70, s.corpus),
                      spoof \/ (s.highValue /\ s.a >= 40), 85)
      late  == Raised(Raised(s.floor, s.themed, 80), s.ml >= 75, s.ml)
  IN  Higher(Higher(blend, text), Higher(known, late))

IsOfflineThreat(s) == OfflineScore(s) >= 70

=============================================================================
