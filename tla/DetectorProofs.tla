--------------------------- MODULE DetectorProofs ---------------------------
(***************************************************************************)
(* Proofs about Detector: for every table of domains, every corpus, every    *)
(* message, every answer of WHOIS and of the models, and every reputation.   *)
(***************************************************************************)
EXTENDS Detector, FiniteSetTheorems, SequenceTheorems, TLAPS

----------------------------------------------------------------------------
(* A nonempty finite set of integers has a greatest element, by the well-      *)
(* foundedness of the strict inclusion between what lies above its elements.   *)

\* A finite set of integers that is not empty has a greatest.
LEMMA GreatestInteger ==
  ASSUME NEW S, S \subseteq Int, IsFiniteSet(S), S # {}
  PROVE  \E n \in S : \A k \in S : n >= k
<1> DEFINE Above(n) == {k \in S : k > n}
           F == {Above(n) : n \in S}
<1>1. F \subseteq FiniteSubsetsOf(S) /\ F # {}
  <2>1. FiniteSubsetsOf(S) = SUBSET S
    BY FS_FiniteSubsetsOfFinite
  <2>2. \A n \in S : Above(n) \in SUBSET S
    OBVIOUS
  <2>3. F \subseteq SUBSET S
    BY <2>2
  <2>4. F # {}
    OBVIOUS
  <2> QED
    BY <2>1, <2>3, <2>4
<1>2. PICK A \in F : \A B \in F : ~ (<<B, A>> \in StrictSubsetOrdering(S))
  <2> HIDE DEF F
  <2> QED
    BY <1>1, FS_StrictSubsetOrderingWellFounded, WFMin, Zenon
<1>3. PICK n \in S : A = Above(n)
  BY <1>2
<1>4. \A k \in S : ~ (k > n)
  <2> SUFFICES ASSUME NEW k \in S, k > n PROVE FALSE
    OBVIOUS
  <2>1. /\ \A j \in S : j > k => j > n
        /\ ~ (k > k)
    OBVIOUS
  <2>2. Above(k) \subseteq Above(n) /\ k \in Above(n) /\ k \notin Above(k)
    BY <2>1, Zenon
  <2>3. <<Above(k), Above(n)>> \in StrictSubsetOrdering(S)
    BY <2>2 DEF StrictSubsetOrdering
  <2> QED
    BY <1>2, <1>3, <2>3
<1> QED
  BY <1>4

\* A set of scores that is not empty has a greatest.
LEMMA GreatestScore ==
  ASSUME NEW S, S \subseteq Score, S # {}
  PROVE  \E n \in S : \A k \in S : n >= k
<1>1. IsFiniteSet(0..100)
  <2>1. 0 \in Int /\ 100 \in Int
    OBVIOUS
  <2> QED
    BY <2>1, FS_Interval, Zenon
<1>2. IsFiniteSet(S)
  BY <1>1, FS_Subset DEF Score
<1>3. S \subseteq Int
  BY DEF Score
<1> QED
  BY <1>2, <1>3, GreatestInteger

\* A nonempty set of numbers has a least element.
LEMMA LeastNumber ==
  ASSUME NEW S, S \subseteq Nat, S # {}
  PROVE  \E n \in S : \A k \in S : n <= k
<1>1. PICK top \in S : TRUE
  OBVIOUS
<1>2. top \in Nat
  OBVIOUS
<1> DEFINE T == {j \in 0..top : top - j \in S}
<1>3. IsFiniteSet(T) /\ T \subseteq Int /\ 0 \in T
  <2>1. IsFiniteSet(0..top)
    BY <1>2, FS_Interval
  <2>2. T \in SUBSET (0..top)
    OBVIOUS
  <2>3. IsFiniteSet(T)
    <3> HIDE DEF T
    <3> QED
      BY <2>1, <2>2, FS_Subset
  <2> QED
    BY <1>1, <1>2, <2>3
<1>4. PICK j \in T : \A i \in T : j >= i
  <2> HIDE DEF T
  <2> QED
    BY <1>3, GreatestInteger
<1>5. top - j \in S /\ j \in 0..top
  OBVIOUS
<1>6. ASSUME NEW k \in S PROVE top - j <= k
  <2>1. CASE k <= top
    <3>1. top - k \in 0..top /\ top - (top - k) = k
      BY <1>2, <2>1
    <3>2. top - k \in T
      BY <3>1
    <3>3. j >= top - k
      BY <1>4, <3>2
    <3> QED
      BY <1>2, <1>5, <3>3
  <2>2. CASE ~(k <= top)
    BY <1>2, <1>5, <2>2
  <2> QED
    BY <2>1, <2>2
<1> QED
  BY <1>5, <1>6

----------------------------------------------------------------------------
(* The layers are scores. *)

\* The higher of two scores is one of them, and below neither.
LEMMA HigherScore ==
  \A x, y \in Score : /\ Higher(x, y) \in Score /\ Higher(x, y) >= x /\ Higher(x, y) >= y
                      /\ Higher(x, y) \in {x, y}
BY DEF Higher, Score

\* A conditional floor never lowers a score, and is reached when its condition
\* holds.
LEMMA RaisedScore ==
  ASSUME NEW x \in Score, NEW y \in Score, NEW c \in BOOLEAN
  PROVE  Raised(x, c, y) \in Score /\ Raised(x, c, y) >= x /\ (c => Raised(x, c, y) >= y)
BY DEF Raised, Higher, Score

\* The authentication layer gives a score.
LEMMA AuthType ==
  ASSUME NEW auth \in Auth
  PROVE  AuthScore(auth) \in Score
BY DEF AuthScore, Points, Score

\* A capped sum is a score.
LEMMA CappedScore ==
  ASSUME NEW n \in Nat PROVE Lower(100, n) \in Score /\ Lower(100, n) <= n
BY DEF Lower, Score

\* The heuristic layer gives a score.
LEMMA HeuristicType ==
  ASSUME NEW m \in Message PROVE HeuristicScore(m) \in Score
<1>1. m.text \in Text /\ m.links \in Links
  BY DEF Message
<1>2. /\ m.links.ips \in Nat /\ m.links.shorteners \in Nat /\ m.links.badTlds \in Nat
      /\ m.links.brandWords \in Nat /\ m.text.urgency \in Nat
  BY <1>1 DEF Links, Text
<1>3. \A c, n : n \in Nat => Points(c, n) \in Nat
  BY DEF Points
<1>4. Points(m.text.hidden, 25) \in Nat /\ Points(m.text.blob, 20) \in Nat
      /\ Points(m.text.mismatch, 35) \in Nat
  BY <1>3
<1>5. Points(m.text.hidden, 25) + 15 * m.text.urgency + Points(m.text.blob, 20)
        + Points(m.text.mismatch, 35) + 30 * m.links.ips + 20 * m.links.shorteners
        + 25 * m.links.badTlds + 30 * m.links.brandWords \in Nat
  BY <1>2, <1>4
<1> QED
  BY <1>5, CappedScore DEF HeuristicScore

\* The BEC layer gives a score.
LEMMA BecType ==
  ASSUME NEW m \in Message PROVE BecScore(m) \in Score
<1>1. m.text.becWords \in Nat
  BY DEF Message, Text
<1>2. Lower(45, 7 * m.text.becWords) \in Nat
  BY <1>1 DEF Lower
<1>3. \A c, n : n \in Nat => Points(c, n) \in Nat
  BY DEF Points
<1>4. /\ Points(m.reply # "same", 25) \in Nat /\ Points(m.reply = "lookalike", 25) \in Nat
      /\ Points(m.text.payment, 20) \in Nat /\ Points(m.text.newAccount, 20) \in Nat
      /\ Points(m.text.secrecy, 15) \in Nat
  BY <1>3
<1>5. Lower(45, 7 * m.text.becWords) + Points(m.reply # "same", 25)
        + Points(m.reply = "lookalike", 25) + Points(m.text.payment, 20)
        + Points(m.text.newAccount, 20) + Points(m.text.secrecy, 15) \in Nat
  BY <1>2, <1>4
<1> QED
  BY <1>5, CappedScore DEF BecScore

\* One instruction to the scanner is decisive.
LEMMA InjectionType ==
  ASSUME NEW m \in Message
  PROVE  InjectionScore(m) \in Score /\ (m.text.injections > 0 => InjectionScore(m) >= 75)
<1>1. m.text.injections \in Nat
  BY DEF Message, Text
<1> QED
  BY <1>1 DEF InjectionScore, Lower, Score

\* Failed authentication with a link is a threat by itself.
LEMMA FloorType ==
  ASSUME NEW m \in Message
  PROVE  AuthFloor(m) \in Score /\ (HasUrl(m) /\ AuthScore(m.auth) >= 70 => AuthFloor(m) >= 80)
<1>1. AuthScore(m.auth) \in Score
  BY AuthType DEF Message
<1>2. \A c : Points(c, 80) \in Score /\ Points(c, 82) \in Score /\ Points(c, 76) \in Score
  BY DEF Points, Score
<1>3. AuthScore(m.auth) >= 70 => Points(AuthScore(m.auth) >= 70, 80) = 80
  BY DEF Points
<1> DEFINE auth == AuthScore(m.auth)
           asks == m.text.solicits
           failed == Points(auth >= 70, 80)
           weak   == Points(auth >= 50 /\ asks, 82)
           cheap  == Points(m.links.badTlds > 0 /\ (auth >= 40 \/ asks), 76)
<1>4. AuthFloor(m) = IF ~HasUrl(m) THEN 0 ELSE Higher(failed, Higher(weak, cheap))
  BY Zenon DEF AuthFloor
<1>5. failed \in Score /\ weak \in Score /\ cheap \in Score /\ (auth >= 70 => failed = 80)
  BY <1>2, <1>3
<1> HIDE DEF auth, failed, weak, cheap
<1>6. /\ Higher(failed, Higher(weak, cheap)) \in Score
      /\ Higher(failed, Higher(weak, cheap)) >= failed
  BY <1>5, HigherScore
<1> QED
  BY <1>4, <1>5, <1>6 DEF Score, auth

\* What a lookalike or a non-ASCII domain owes is in every answer of the domain
\* layer, whatever URL on the domain it was measured on.
Bears(i, d) ==
  /\ Host[d].typo >= 75 => i.target /\ i.score >= 75
  /\ Host[d].idn => i.idn

\* A domain registered less than three days ago is a threat by that alone.
YoungIsRated(i) == i.age \in 0..2 => i.score >= 70

\* What is entered for a URL bears what its domain owes, and rates a young
\* domain.
LEMMA IntelType ==
  ASSUME NEW u \in Url, NEW age \in Ages
  PROVE  /\ DomainIntel(u, age) \in Intel
         /\ Bears(DomainIntel(u, age), u.domain)
         /\ YoungIsRated(DomainIntel(u, age))
<1> DEFINE h == Host[u.domain]
           points == Lower(25, 5 * u.keywords) + Points(h.ip, 60)
                       + Points(NonAscii(u), 70) + TypoPoints(u) + AgePoints(age)
<1>1. h.typo \in {0, 60, 75, 85} /\ h.idn \in BOOLEAN /\ h.ip \in BOOLEAN
  BY SignalsAssumption DEF Url, Domains
<1>2. u.keywords \in 0..6 /\ u.brandHost \in BOOLEAN /\ u.idnHost \in BOOLEAN
  BY DEF Url
<1>3. Lower(25, 5 * u.keywords) \in Nat
  BY <1>2 DEF Lower
<1>4. TypoPoints(u) \in Nat /\ (h.typo >= 75 => TypoPoints(u) >= 75)
  BY <1>1 DEF TypoPoints, Lower, Higher, Points
<1>5. AgePoints(age) \in Nat /\ (age \in 0..2 => AgePoints(age) = 70)
  BY DEF AgePoints, Ages, NoAge
<1>6. Points(h.ip, 60) \in Nat /\ Points(NonAscii(u), 70) \in Nat
  BY DEF Points
<1>7. points \in Nat /\ points >= TypoPoints(u) /\ points >= AgePoints(age)
  BY <1>3, <1>4, <1>5, <1>6
<1>8. DomainIntel(u, age).score = Lower(100, points)
  BY DEF DomainIntel
<1>9. DomainIntel(u, age).score \in Score /\ (h.typo >= 75 => DomainIntel(u, age).score >= 75)
  <2> HIDE DEF points
  <2> QED
    BY <1>1, <1>4, <1>7, <1>8 DEF Lower, Score
<1>10. NonAscii(u) \in BOOLEAN /\ (u.brandHost \/ h.typo > 0) \in BOOLEAN
  BY <1>1, <1>2 DEF NonAscii
<1>11. /\ DomainIntel(u, age).target = (u.brandHost \/ h.typo > 0)
       /\ DomainIntel(u, age).idn = NonAscii(u) /\ DomainIntel(u, age).age = age
       /\ DomainIntel(u, age) = [score |-> DomainIntel(u, age).score,
                                 target |-> DomainIntel(u, age).target,
                                 idn |-> DomainIntel(u, age).idn,
                                 age |-> DomainIntel(u, age).age]
  BY Zenon DEF DomainIntel
<1>12. DomainIntel(u, age) \in Intel
  <2>1. DomainIntel(u, age).target \in BOOLEAN /\ DomainIntel(u, age).idn \in BOOLEAN
    BY <1>10, <1>11, Zenon
  <2>2. \A n \in Score, a, b \in BOOLEAN :
          [score |-> n, target |-> a, idn |-> b, age |-> age] \in Intel
    BY DEF Intel
  <2> QED
    BY <1>9, <1>11, <2>1, <2>2, Zenon
<1>13. Bears(DomainIntel(u, age), u.domain)
  <2>1. h.typo >= 75 => h.typo > 0
    BY <1>1
  <2>2. Host[u.domain].idn => DomainIntel(u, age).idn
    BY <1>11, Zenon DEF NonAscii
  <2>3. Host[u.domain].typo >= 75 => DomainIntel(u, age).target
    BY <2>1, <1>11, Zenon
  <2>4. Host[u.domain].typo >= 75 => DomainIntel(u, age).score >= 75
    BY <1>9, Zenon
  <2> QED
    BY <2>2, <2>3, <2>4, Zenon DEF Bears
<1>14. YoungIsRated(DomainIntel(u, age))
  <2> HIDE DEF points
  <2>1. age \in 0..2 => Lower(100, points) >= 70
    BY <1>5, <1>7 DEF Lower
  <2>2. DomainIntel(u, age).age = age
    BY <1>11
  <2> QED
    BY <1>8, <2>1, <2>2 DEF YoungIsRated
<1> QED
  BY <1>12, <1>13, <1>14

\* A match of the corpus; a pretext whose request is the fraud is always seen.
LEMMA MatchType ==
  ASSUME NEW m \in Message, NEW i \in Intel
  PROVE  /\ CorpusMatch(m, i).score \in Score
         /\ CorpusMatch(m, i).matched \in BOOLEAN
         /\ CorpusMatch(m, i).highValue \in BOOLEAN
         /\ m.text.lures \cap HighValueLures # {} => CorpusMatch(m, i).highValue
<1> DEFINE lures == m.text.lures
           brands == m.text.brands
           evasions == SeenEvasions(m, i)
           hits == Hits(lures, brands, evasions)
           high == lures \cap HighValueLures # {}
           some == hits # {}
<1>1. hits \subseteq Techniques
  BY DEF Hits
<1>2. Worst(hits) \in Score
  <2> DEFINE severities == {t.severity : t \in hits}
  <2>1. severities \subseteq Score
    BY <1>1, SignalsAssumption
  <2>2. CASE hits = {}
    BY <2>2 DEF Worst, Score
  <2>3. CASE hits # {}
    <3>1. severities # {}
      BY <2>3
    <3>2. PICK top \in severities : \A k \in severities : top >= k
      <4> HIDE DEF severities
      <4> QED
        BY <2>1, <3>1, GreatestScore
    <3>3. (CHOOSE n \in severities : \A k \in severities : n >= k) \in severities
      <4> HIDE DEF severities
      <4> QED
        BY <3>2, Zenon
    <3>4. Worst(hits) = CHOOSE n \in severities : \A k \in severities : n >= k
      BY <2>3, Zenon DEF Worst
    <3> QED
      BY <2>1, <3>3, <3>4
  <2> QED
    BY <2>2, <2>3
<1>3. high \in BOOLEAN /\ some \in BOOLEAN
  BY Zenon
<1>4. CorpusMatch(m, i) =
        IF lures = {} \/ (brands = {} /\ evasions = {} /\ ~high)
          THEN [score |-> 0, matched |-> FALSE, highValue |-> FALSE]
        ELSE IF brands = {} /\ evasions = {}
          THEN [score |-> 65, matched |-> TRUE, highValue |-> TRUE]
        ELSE [score |-> Worst(hits), matched |-> some, highValue |-> high]
  BY Zenon DEF CorpusMatch
<1>5. high => lures # {}
  OBVIOUS
<1>6. 0 \in Score /\ 65 \in Score
  BY DEF Score
<1> HIDE DEF high, some, hits, lures, brands, evasions
<1>7. /\ CorpusMatch(m, i).score \in Score
      /\ CorpusMatch(m, i).matched \in BOOLEAN /\ CorpusMatch(m, i).highValue \in BOOLEAN
      /\ high => CorpusMatch(m, i).highValue
  <2> DEFINE none == lures = {} \/ (brands = {} /\ evasions = {} /\ ~high)
  <2>1. ASSUME none PROVE /\ ~high
                          /\ CorpusMatch(m, i) =
                               [score |-> 0, matched |-> FALSE, highValue |-> FALSE]
    BY <1>4, <1>5, <2>1, Zenon
  <2>2. CASE none
    <3>1. /\ CorpusMatch(m, i).score = 0 /\ CorpusMatch(m, i).matched = FALSE
          /\ CorpusMatch(m, i).highValue = FALSE /\ ~high
      BY <2>1, <2>2
    <3> QED
      BY <1>6, <3>1, Zenon
  <2>3. CASE ~none /\ brands = {} /\ evasions = {}
    <3>1. CorpusMatch(m, i) = [score |-> 65, matched |-> TRUE, highValue |-> TRUE]
      BY <1>4, <2>3, Zenon
    <3>2. /\ CorpusMatch(m, i).score = 65 /\ CorpusMatch(m, i).matched = TRUE
          /\ CorpusMatch(m, i).highValue = TRUE
      BY <3>1
    <3> QED
      BY <1>6, <3>2, Zenon
  <2>4. CASE ~none /\ ~(brands = {} /\ evasions = {})
    <3>1. CorpusMatch(m, i) = [score |-> Worst(hits), matched |-> some, highValue |-> high]
      BY <1>4, <2>4, Zenon
    <3>2. /\ CorpusMatch(m, i).score = Worst(hits) /\ CorpusMatch(m, i).matched = some
          /\ CorpusMatch(m, i).highValue = high
      BY <3>1
    <3> QED
      BY <1>2, <1>3, <3>2, Zenon
  <2> QED
    BY <2>2, <2>3, <2>4, Zenon
<1> QED
  BY <1>7 DEF high, lures

\* The layers of a message have their types.
LEMMA LayersType ==
  ASSUME NEW m \in Message, NEW i \in Intel, NEW ml \in Score, NEW risk \in Score
  PROVE  LayersOf(m, i, ml, risk) \in Layers
<1> DEFINE match == CorpusMatch(m, i)
           themed == ThemedScore(m) >= 78 /\ m.text.solicits
<1>1. /\ HeuristicScore(m) \in Score /\ AuthScore(m.auth) \in Score /\ BecScore(m) \in Score
      /\ InjectionScore(m) \in Score /\ AuthFloor(m) \in Score
  BY HeuristicType, AuthType, BecType, InjectionType, FloorType DEF Message
<1>2. /\ match.score \in Score /\ match.matched \in BOOLEAN /\ match.highValue \in BOOLEAN
  BY MatchType
<1>3. themed \in BOOLEAN
  BY Zenon
<1>4. m.text.hidden \in BOOLEAN
  BY DEF Message, Text
<1>5. i.score \in Score /\ i.target \in BOOLEAN /\ i.idn \in BOOLEAN
  BY DEF Intel
<1>6. LayersOf(m, i, ml, risk) =
      [h |-> HeuristicScore(m), a |-> AuthScore(m.auth), d |-> i.score,
       bec |-> BecScore(m), inj |-> InjectionScore(m), corpus |-> match.score,
       floor |-> AuthFloor(m), ml |-> ml, risk |-> risk,
       matched |-> match.matched, highValue |-> match.highValue,
       target |-> i.target, idn |-> i.idn, hidden |-> m.text.hidden,
       themed |-> themed]
  BY Zenon DEF LayersOf
<1> HIDE DEF match, themed
<1> QED
  BY <1>1, <1>2, <1>3, <1>4, <1>5, <1>6 DEF Layers

----------------------------------------------------------------------------
(* The score. *)

\* The fields of a record of layers.
LEMMA LayerTypes ==
  ASSUME NEW s \in Layers
  PROVE  /\ s.h \in Score /\ s.a \in Score /\ s.d \in Score /\ s.bec \in Score
         /\ s.inj \in Score /\ s.corpus \in Score /\ s.floor \in Score
         /\ s.ml \in Score /\ s.risk \in Score
         /\ s.matched \in BOOLEAN /\ s.highValue \in BOOLEAN /\ s.target \in BOOLEAN
         /\ s.idn \in BOOLEAN /\ s.hidden \in BOOLEAN /\ s.themed \in BOOLEAN
BY DEF Layers

\* The highest decisive layer is a score.
LEMMA DeterministicType ==
  ASSUME NEW s \in Layers
  PROVE  DeterministicHigh(s) \in Score
BY LayerTypes DEF DeterministicHigh, Raised, Higher, Score

\* The floors that rest on the content of a message.
LEMMA ContentType ==
  ASSUME NEW s \in Layers
  PROVE  /\ ContentFloor(s) \in Score
         /\ s.target /\ s.d >= 70 => ContentFloor(s) >= 80
         /\ s.inj >= 75 => ContentFloor(s) >= 75
         /\ s.idn => ContentFloor(s) >= 85
         /\ s.hidden => ContentFloor(s) >= 75
BY LayerTypes DEF ContentFloor, Raised, Higher, Score

\* The floors that rest on its sender.
LEMMA SenderType ==
  ASSUME NEW s \in Layers
  PROVE  /\ SenderFloor(s) \in Score
         /\ SenderFloor(s) >= s.floor
         /\ s.a >= 70 /\ s.h >= 40 => SenderFloor(s) >= 85
         /\ s.highValue /\ s.a >= 40 => SenderFloor(s) >= 85
         /\ s.themed => SenderFloor(s) >= 80
BY LayerTypes DEF SenderFloor, Raised, Higher, Score

\* The safety net reaches the highest decisive layer.
LEMMA NetType ==
  ASSUME NEW s \in Layers
  PROVE  /\ SafetyNet(s) \in Score
         /\ DeterministicHigh(s) >= 70 => SafetyNet(s) >= DeterministicHigh(s)
<1>1. DeterministicHigh(s) \in Score /\ s.ml \in Score
  BY DeterministicType, LayerTypes
<1> QED
  BY <1>1 DEF SafetyNet, Raised, Higher, Score

\* The part of the score the model has no say in.
Floors(s) == Higher(Higher(ContentFloor(s), SenderFloor(s)), SafetyNet(s))

\* The floors together are as high as each of them.
LEMMA FloorsType ==
  ASSUME NEW s \in Layers
  PROVE  /\ Floors(s) \in Score
         /\ Floors(s) >= ContentFloor(s) /\ Floors(s) >= SenderFloor(s)
         /\ Floors(s) >= SafetyNet(s)
<1>1. ContentFloor(s) \in Score /\ SenderFloor(s) \in Score /\ SafetyNet(s) \in Score
  BY ContentType, SenderType, NetType
<1> QED
  BY <1>1 DEF Floors, Higher, Score

\* The fields of an answer of the model.
LEMMA AnswerTypes ==
  ASSUME NEW x \in Answer PROVE x.score \in Score /\ x.confidence \in Score
BY DEF Answer

\* A silent model is an answer.
LEMMA NoAnswerType == NoAnswer \in Answer
BY DEF NoAnswer, Answer, ModelLabels, Score

\* The weighted average stays a score and grows with the model's answer.
Mean(h, a, d, risk, x, bec, inj) ==
  (22 * h + 10 * a + 20 * d + 12 * risk + 20 * x + 10 * bec + 6 * inj) \div 100

\* The weighted mean is a score, grows with the model's answer, and is low when
\* all is quiet.
LEMMA Average ==
  ASSUME NEW h \in Score, NEW a \in Score, NEW d \in Score, NEW risk \in Score,
         NEW bec \in Score, NEW inj \in Score, NEW x \in Score
  PROVE  /\ Mean(h, a, d, risk, x, bec, inj) \in Score
         /\ Mean(h, a, d, risk, x, bec, inj) >= Mean(h, a, d, risk, 0, bec, inj)
         /\ (h <= 15 /\ a = 0 /\ d = 0 /\ bec < 30 /\ inj < 30 /\ x = h) =>
              Mean(h, a, d, risk, x, bec, inj) < 70
<1> DEFINE rest == 22 * h + 10 * a + 20 * d + 12 * risk + 10 * bec + 6 * inj
<1>1. rest \in 0..8000 /\ x \in 0..100
  BY SMTT(60) DEF Score
<1>2. /\ 22 * h + 10 * a + 20 * d + 12 * risk + 20 * x + 10 * bec + 6 * inj = rest + 20 * x
      /\ 22 * h + 10 * a + 20 * d + 12 * risk + 20 * 0 + 10 * bec + 6 * inj = rest
  BY DEF Score
<1>3. (h <= 15 /\ a = 0 /\ d = 0 /\ bec < 30 /\ inj < 30 /\ x = h) => rest + 20 * x <= 3000
  BY DEF Score
<1> HIDE DEF rest
<1> QED
  BY <1>1, <1>2, <1>3 DEF Mean, Score

\* The blend is a score, lowest without an answer, and low when the layers are
\* benign.
LEMMA BlendGrows ==
  ASSUME NEW s \in Layers, NEW x \in Answer
  PROVE  /\ Blend(s, x) \in Score /\ Blend(s, x) >= Blend(s, NoAnswer)
         /\ ConclusiveBenign(s) /\ x.score = s.h => Blend(s, x) < 70
<1>1. /\ s.h \in Score /\ s.a \in Score /\ s.d \in Score /\ s.risk \in Score
      /\ s.bec \in Score /\ s.inj \in Score /\ x.score \in Score
  BY LayerTypes, AnswerTypes
<1>2. Blend(s, x) = Mean(s.h, s.a, s.d, s.risk, x.score, s.bec, s.inj)
  BY Zenon DEF Blend, Mean
<1>3. Blend(s, NoAnswer) = Mean(s.h, s.a, s.d, s.risk, 0, s.bec, s.inj)
  <2>1. NoAnswer.score = 0
    BY DEF NoAnswer
  <2> QED
    BY <2>1, Zenon DEF Blend, Mean
<1>4. /\ Mean(s.h, s.a, s.d, s.risk, x.score, s.bec, s.inj) \in Score
      /\ Mean(s.h, s.a, s.d, s.risk, x.score, s.bec, s.inj)
           >= Mean(s.h, s.a, s.d, s.risk, 0, s.bec, s.inj)
      /\ (s.h <= 15 /\ s.a = 0 /\ s.d = 0 /\ s.bec < 30 /\ s.inj < 30 /\ x.score = s.h) =>
           Mean(s.h, s.a, s.d, s.risk, x.score, s.bec, s.inj) < 70
  BY <1>1, Average, ZenonT(60)
<1> QED
  BY <1>2, <1>3, <1>4, Zenon DEF ConclusiveBenign

\* The final score is the highest of blend, model and floors.
LEMMA FinalIs ==
  ASSUME NEW s \in Layers, NEW x \in Answer
  PROVE  /\ FinalRisk(s, x) = Higher(Higher(Blend(s, x), ModelFloor(x)), Floors(s))
         /\ FinalRisk(s, x) \in Score
         /\ FinalRisk(s, x) >= Floors(s)
         /\ ModelFloor(x) \in Score
<1>1. ModelFloor(x) \in Score
  BY AnswerTypes DEF ModelFloor, Score
<1> QED
  BY <1>1, BlendGrows, FloorsType DEF FinalRisk, Floors, Higher, Score

\* No answer lowers the score of silence.
LEMMA SilenceIsLowest ==
  ASSUME NEW s \in Layers, NEW x \in Answer
  PROVE  FinalRisk(s, x) >= FinalRisk(s, NoAnswer)
<1>1. ModelFloor(NoAnswer) = 0
  BY DEF ModelFloor, NoAnswer
<1>2. /\ FinalRisk(s, x) = Higher(Higher(Blend(s, x), ModelFloor(x)), Floors(s))
      /\ FinalRisk(s, NoAnswer) = Higher(Higher(Blend(s, NoAnswer), 0), Floors(s))
      /\ ModelFloor(x) \in Score
  BY <1>1, FinalIs, NoAnswerType
<1>3. /\ Blend(s, x) \in Score /\ Blend(s, NoAnswer) \in Score /\ Floors(s) \in Score
      /\ Blend(s, x) >= Blend(s, NoAnswer)
  BY BlendGrows, FloorsType, NoAnswerType
<1> QED
  BY <1>2, <1>3, SMTT(30) DEF Higher, Score

\* The shortcut's answer is an answer.
LEMMA FastAnswerType ==
  ASSUME NEW s \in Layers PROVE FastAnswer(s) \in Answer
BY LayerTypes, DeterministicType DEF FastAnswer, Answer, ModelLabels, Score

\* The shortcut decides on the side of the bar the layers are on.
LEMMA ShortcutAgrees ==
  ASSUME NEW s \in Layers, TakesFastPath(s)
  PROVE  FinalRisk(s, FastAnswer(s)) >= 70 <=> FinalRisk(s, NoAnswer) >= 70
<1>1. CASE DeterministicHigh(s) >= 80
  <2>1. Floors(s) >= 80
    BY <1>1, FloorsType, NetType, DeterministicType DEF Score
  <2>2. \A x \in Answer : FinalRisk(s, x) >= 70
    BY <2>1, FinalIs, FloorsType DEF Score
  <2> QED
    BY <2>2, FastAnswerType, NoAnswerType
<1>2. CASE ~(DeterministicHigh(s) >= 80) /\ ConclusiveBenign(s)
  <2>1. FastAnswer(s) = [score |-> s.h, confidence |-> 80, label |-> "Safe"]
    BY <1>2 DEF FastAnswer
  <2>2. s.h \in 0..15 /\ s.a = 0 /\ s.d = 0 /\ s.bec \in 0..29 /\ s.inj \in 0..29
        /\ s.risk \in 0..100
    BY <1>2, LayerTypes DEF ConclusiveBenign, Score
  <2>3. Blend(s, FastAnswer(s)) < 70
    BY <1>2, <2>1, BlendGrows, FastAnswerType
  <2>4. ModelFloor(FastAnswer(s)) = 0
    BY <2>1, <2>2 DEF ModelFloor
  <2>5. FinalRisk(s, FastAnswer(s)) >= 70 => Floors(s) >= 70
    BY <2>3, <2>4, FinalIs, FastAnswerType, FloorsType, BlendGrows DEF Higher, Score
  <2>6. Floors(s) >= 70 => FinalRisk(s, FastAnswer(s)) >= 70 /\ FinalRisk(s, NoAnswer) >= 70
    BY FinalIs, FastAnswerType, NoAnswerType, FloorsType DEF Score
  <2>7. FinalRisk(s, FastAnswer(s)) >= FinalRisk(s, NoAnswer)
    BY SilenceIsLowest, FastAnswerType
  <2>8. FinalRisk(s, FastAnswer(s)) \in Int /\ FinalRisk(s, NoAnswer) \in Int
    BY FinalIs, FastAnswerType, NoAnswerType DEF Score
  <2> QED
    BY <2>5, <2>6, <2>7, <2>8
<1> QED
  BY <1>1, <1>2 DEF TakesFastPath

\* The bars of Owed.
Typo(m) == HasUrl(m) /\ Host[m.first.domain].typo >= 75
Idn(m, measured) == HasUrl(m) /\ (Host[m.first.domain].idn \/ (measured /\ m.first.idnHost))
Bars(m, measured) ==
  {Points(Typo(m), 80), Points(Idn(m, measured), 85),
   Points(m.text.injections > 0, 75), Points(m.text.hidden, 75),
   Points(HasUrl(m) /\ AuthScore(m.auth) >= 70, 80),
   Points(HeuristicScore(m) >= 40 /\ AuthScore(m.auth) >= 70, 85),
   Points(m.text.lures \cap HighValueLures # {} /\ AuthScore(m.auth) >= 40, 85),
   Points(m.themed >= 3 /\ m.text.solicits, 80)}

\* What a message owes is one of the bars.
LEMMA OwedType ==
  ASSUME NEW m \in Message, NEW measured
  PROVE  Owed(m, measured) \in Score /\ Owed(m, measured) \in Bars(m, measured)
<1>1. \A c : Points(c, 75) \in Score /\ Points(c, 80) \in Score /\ Points(c, 85) \in Score
  BY DEF Points, Score
<1>2. Bars(m, measured) \subseteq Score /\ Bars(m, measured) # {}
  BY <1>1 DEF Bars
<1>3. Owed(m, measured) = CHOOSE n \in Bars(m, measured) : \A k \in Bars(m, measured) : n >= k
  BY Zenon DEF Owed, Bars, Typo, Idn
<1>4. PICK n \in Bars(m, measured) : \A k \in Bars(m, measured) : n >= k
  BY <1>2, GreatestScore
<1> QED
  BY <1>2, <1>3, <1>4, Zenon

\* What a message owes is in the floors of its layers, once the domain layer
\* bears what the domain of its link owes and, if it measured the link, what its
\* host does.
LEMMA OwedIsPaid ==
  ASSUME NEW m \in Message, NEW i \in Intel, NEW ml \in Score, NEW risk \in Score,
         NEW measured, HasUrl(m) => Bears(i, m.first.domain),
         HasUrl(m) /\ measured /\ m.first.idnHost => i.idn
  PROVE  Floors(LayersOf(m, i, ml, risk)) >= Owed(m, measured)
<1> DEFINE s == LayersOf(m, i, ml, risk)
           auth == AuthScore(m.auth)
<1>1. s \in Layers
  BY LayersType
<1>2. /\ s.h = HeuristicScore(m) /\ s.a = auth /\ s.inj = InjectionScore(m)
      /\ s.floor = AuthFloor(m) /\ s.hidden = m.text.hidden
      /\ s.target = i.target /\ s.idn = i.idn /\ s.d = i.score
      /\ s.highValue = CorpusMatch(m, i).highValue
  BY DEF LayersOf
<1>3. m.themed >= 3 /\ m.text.solicits => s.themed
  <2>1. m.themed >= 3 => ThemedScore(m) >= 78
    BY DEF ThemedScore
  <2>2. s.themed = (ThemedScore(m) >= 78 /\ m.text.solicits)
    BY Zenon DEF LayersOf
  <2> QED
    BY <2>1, <2>2, Zenon
<1>4. Typo(m) => s.target /\ s.d >= 75
  BY <1>2 DEF Bears, Typo
<1>5. Idn(m, measured) => s.idn
  BY <1>2, Zenon DEF Bears, Idn
<1>6. /\ s.h \in Score /\ s.a \in Score /\ s.d \in Score /\ s.inj \in Score /\ s.floor \in Score
  BY <1>1, LayerTypes
<1>7. Floors(s) \in Score /\ Floors(s) >= ContentFloor(s) /\ Floors(s) >= SenderFloor(s)
      /\ ContentFloor(s) \in Score /\ SenderFloor(s) \in Score
  BY <1>1, FloorsType, ContentType, SenderType
<1>8. \A b \in Bars(m, measured) : Floors(s) >= b
  <2> HIDE DEF s, auth
  <2> DEFINE Pays(c, n) == n \in Score /\ (c => Floors(s) >= n)
  <2>0. \A c, n : Pays(c, n) => Floors(s) >= Points(c, n)
    BY <1>7 DEF Points, Score
  <2>1. Pays(Typo(m), 80)
    BY <1>1, <1>4, <1>6, <1>7, ContentType DEF Score
  <2>2. Pays(Idn(m, measured), 85)
    BY <1>1, <1>5, <1>7, ContentType DEF Score
  <2>3. Pays(m.text.injections > 0, 75)
    BY <1>1, <1>2, <1>6, <1>7, InjectionType, ContentType DEF Score
  <2>4. Pays(m.text.hidden, 75)
    BY <1>1, <1>2, <1>7, ContentType DEF Score
  <2>5. Pays(HasUrl(m) /\ auth >= 70, 80)
    BY <1>1, <1>2, <1>6, <1>7, FloorType, SenderType DEF Score, auth
  <2>6. Pays(HeuristicScore(m) >= 40 /\ auth >= 70, 85)
    BY <1>1, <1>2, <1>7, SenderType DEF Score
  <2>7. Pays(m.text.lures \cap HighValueLures # {} /\ auth >= 40, 85)
    BY <1>1, <1>2, <1>7, MatchType, SenderType DEF Score
  <2>8. Pays(m.themed >= 3 /\ m.text.solicits, 80)
    BY <1>1, <1>3, <1>7, SenderType DEF Score
  <2> HIDE DEF Pays
  <2> QED
    BY <2>0, <2>1, <2>2, <2>3, <2>4, <2>5, <2>6, <2>7, <2>8 DEF Bars, auth
<1> QED
  BY <1>8, OwedType

\* Every analysis has a label of the list.
LEMMA LabelType ==
  ASSUME NEW s \in Layers, NEW n \in Score, NEW x \in Answer
  PROVE  Label(s, n, x.label) \in Labels
<1>1. x.label \in ModelLabels
  BY DEF Answer
<1> QED
  BY <1>1 DEF Label, Labels, ModelLabels, VagueLabels

----------------------------------------------------------------------------
(* The decision. *)

\* The worse of two scores is a score.
LEMMA WorseScore == \A x, y \in Score : Worse(x, y) \in Score
BY DEF Worse, Score

\* A file's risk is a score.
LEMMA ScanType == ASSUME NEW f \in File PROVE ScanRisk(f) \in Score
<1>1. \A c : /\ If(c, 60) \in Score /\ If(c, 65) \in Score /\ If(c, 70) \in Score
             /\ If(c, 80) \in Score /\ If(c, 85) \in Score /\ If(c, 45) \in Score
             /\ If(c, 100) \in Score /\ If(c, 90) \in Score
  BY DEF If, Score
<1>2. NameRisk(f) \in Score /\ PdfRisk(f) \in Score
  BY <1>1, WorseScore DEF NameRisk, PdfRisk
<1>3. ContentRisk(f) \in Score
  BY DEF ContentRisk, If, Score
<1>4. MacroRisk(f) \in Score
  BY DEF MacroRisk, If, Score
<1>5. ArchiveRisk(f) \in Score
  BY DEF ArchiveRisk, If, Worse, Score
<1>6. Inspected(f) \in Score
  BY <1>2, <1>3, <1>4, <1>5, WorseScore DEF Inspected
<1>7. (IF f.blocked THEN 95 ELSE Inspected(f)) \in Score
  BY <1>6 DEF Score
<1> QED
  BY <1>1, <1>7, WorseScore DEF ScanRisk

\* The risk of all attachments is a score.
LEMMA AttachmentType ==
  ASSUME NEW files, files \subseteq File PROVE AttachmentRisk(files) \in Score
<1> DEFINE S == {ScanRisk(f) : f \in files}
<1>1. CASE files = {}
  BY <1>1 DEF AttachmentRisk, Score
<1>2. CASE files # {}
  <2>1. S \subseteq Score /\ S # {}
    BY <1>2, ScanType
  <2>2. PICK n \in S : \A k \in S : n >= k
    <3> HIDE DEF S
    <3> QED
      BY <2>1, GreatestScore
  <2>3. n \in S /\ \A f \in files : n >= ScanRisk(f)
    BY <2>2
  <2>4. AttachmentRisk(files) = CHOOSE k \in S : \A f \in files : k >= ScanRisk(f)
    BY <1>2, Zenon DEF AttachmentRisk
  <2>5. AttachmentRisk(files) \in S
    <3> HIDE DEF S
    <3> QED
      BY <2>3, <2>4, Zenon
  <2> QED
    BY <2>1, <2>5
<1> QED
  BY <1>1, <1>2

\* The policy applied is one that matches, when there is one.
LEMMA PolicyIsOne ==
  ASSUME NEW d, V!PolicyResult(d).action = "quarantine"
  PROVE  \E p \in Policies : V!Matches(p, d) /\ p.action = "quarantine"
<1> DEFINE matching == {p \in Policies : V!Matches(p, d)}
           Wins(p, q) == \/ V!Priority[p.action] > V!Priority[q.action]
                         \/ V!Priority[p.action] = V!Priority[q.action] /\ p.id <= q.id
           best == CHOOSE p \in matching : \A q \in matching : Wins(p, q)
<1>1. V!PolicyResult(d) = IF matching = {} THEN [action |-> "allow", severity |-> "Low"]
                          ELSE [action |-> best.action, severity |-> best.severity]
  BY Zenon DEF V!PolicyResult
<1>2. matching # {}
  <2> SUFFICES ASSUME matching = {} PROVE FALSE
    OBVIOUS
  <2>1. V!PolicyResult(d) = [action |-> "allow", severity |-> "Low"]
    BY <1>1
  <2>2. V!PolicyResult(d).action = "allow"
    BY <2>1
  <2> QED
    BY <2>2
<1>3. \A p \in matching : p.id \in Nat /\ p.action \in {"quarantine", "hold_for_review", "allow"}
  BY PolicyAssumption DEF V!Policy, V!Actions
<1>4. /\ V!Priority["quarantine"] = 3 /\ V!Priority["hold_for_review"] = 2
      /\ V!Priority["allow"] = 1
  BY DEF V!Priority
<1> DEFINE Of(action) == {p \in matching : p.action = action}
           first == IF Of("quarantine") # {} THEN Of("quarantine")
                    ELSE IF Of("hold_for_review") # {} THEN Of("hold_for_review") ELSE Of("allow")
           ids == {p.id : p \in first}
<1>5. first # {} /\ first \subseteq matching
  BY <1>2, <1>3
<1>6. \A p \in first, q \in matching :
        \/ V!Priority[p.action] > V!Priority[q.action]
        \/ V!Priority[p.action] = V!Priority[q.action] /\ q \in first
  BY <1>3, <1>4
<1> HIDE DEF first, matching
<1>7. PICK n \in ids : \A k \in ids : n <= k
  <2>1. ids \subseteq Nat /\ ids # {}
    BY <1>3, <1>5
  <2> HIDE DEF ids
  <2> QED
    BY <2>1, LeastNumber
<1>8. PICK p \in first : p.id = n
  BY <1>7
<1>9. \A q \in matching : Wins(p, q)
  BY <1>6, <1>7, <1>8
<1>10. best \in matching
  <2> HIDE DEF Wins
  <2> QED
    BY <1>5, <1>9, Zenon
<1>11. best.action = "quarantine"
  <2>1. V!PolicyResult(d) = [action |-> best.action, severity |-> best.severity]
    BY <1>1, <1>2
  <2> HIDE DEF best
  <2>2. V!PolicyResult(d).action = best.action
    BY <2>1
  <2> QED
    BY <2>2
<1> HIDE DEF best
<1> QED
  BY <1>10, <1>11 DEF matching

\* Reputation moves a score by 25, up or down, or not at all.
LEMMA DeltaType == \A known : V!ReputationDelta(known) \in {-25, 0, 25}
BY DEF V!ReputationDelta

\* The floors of the ingest raise, and only the learned trust lowers.
LEMMA IngestRaises ==
  ASSUME NEW d, d.risk \in Score, d.attach \in Score
  PROVE  /\ V!FinalScore(d) \in Score
         /\ V!ReputationDelta(d.known) # -25 =>
              /\ V!FinalScore(d) >= d.risk
              /\ d.attach >= 80 => V!FinalScore(d) >= d.attach
<1> DEFINE n == V!AttachmentFloor(V!BlockFloor(d.risk, V!IntelBlock(d)), d.attach)
           delta == V!ReputationDelta(d.known)
<1>1. n \in Score /\ n >= d.risk /\ (d.attach >= 80 => n >= d.attach)
  BY DEF V!AttachmentFloor, V!BlockFloor, V!Larger, Score
<1>2. delta \in {-25, 0, 25}
  BY DeltaType
<1>3. V!FinalScore(d) = V!Adjusted(n, delta)
  BY DEF V!FinalScore
<1> HIDE DEF n, delta
<1>4. /\ V!Adjusted(n, delta) \in Score
      /\ delta # -25 => V!Adjusted(n, delta) >= n
  BY <1>1, <1>2 DEF V!Adjusted, V!Larger, V!Smaller, Score
<1> QED
  BY <1>1, <1>3, <1>4 DEF Score, delta

----------------------------------------------------------------------------
(* The analysis among others. *)

\* Whatever thread wrote an entry of the table, and from whatever URL, it bears
\* what its domain owes and rates a young domain as a threat; so does what this
\* analysis has read of it.
DomainsAreHonest ==
  /\ cache \in [Domains -> Intel \cup {None}]
  /\ \A d \in Domains : cache[d] # None => Bears(cache[d], d) /\ YoungIsRated(cache[d])
  /\ intel \in Intel /\ YoungIsRated(intel)
  /\ stage = "combine" /\ HasUrl(mail) =>
       /\ Bears(intel, mail.first.domain)
       /\ ~borrowed /\ mail.first.idnHost => intel.idn

AnalysisIsSound ==
  /\ fast \in BOOLEAN /\ stage \in Stages
  /\ mail \in Mails \cup {None}
  /\ stage # "idle" => mail \in Mails
  /\ stage \in {"look up", "whois"} => HasUrl(mail)
  /\ layers \in Layers \cup {None} /\ answer \in Answer /\ final \in Score
  /\ label \in Labels \cup {None} /\ borrowed \in BOOLEAN

\* A judged message: layers that bear what its domain owes, and the score they
\* and the answer make.
JudgedIsSound ==
  Judged =>
    /\ layers \in Layers /\ layers = LayersOf(mail, intel, layers.ml, layers.risk)
    /\ final = FinalRisk(layers, answer) /\ label = Label(layers, final, answer.label)
    /\ fast /\ TakesFastPath(layers) => answer = FastAnswer(layers)
    /\ Floors(layers) >= Owed(mail, ~borrowed)

\* The stored row is the decision on a detection with the score of some files.
DetectionWith(hits, n, known) ==
  [risk |-> final, url |-> layers.h, bec |-> label = "BEC",
   injected |-> mail.text.injections > 0, hits |-> hits, attach |-> n, known |-> known]

RowOf(d) ==
  [score |-> V!FinalScore(d), status |-> V!Status(d), label |-> StoredLabel(d, label),
   attach |-> d.attach, delta |-> V!ReputationDelta(d.known)]

RowIsSound ==
  stage = "stored" =>
    \E hits, known : \E n \in Score : row = RowOf(DetectionWith(hits, n, known))

DetectorInvariant == DomainsAreHonest /\ AnalysisIsSound /\ JudgedIsSound /\ RowIsSound

\* The inductive invariant holds at the start.
LEMMA DetectorInitially == ASSUME Init PROVE DetectorInvariant
<1> USE DEF Init
<1>1. NoIntel \in Intel /\ YoungIsRated(NoIntel)
  BY DEF NoIntel, Intel, Score, Ages, NoAge, YoungIsRated
<1>2. DomainsAreHonest
  BY <1>1 DEF DomainsAreHonest
<1>3. AnalysisIsSound
  <2>1. borrowed \in BOOLEAN
    BY Zenon
  <2>2. /\ fast \in BOOLEAN /\ stage = "idle" /\ mail = None /\ layers = None
        /\ answer = NoAnswer /\ final = 0 /\ label = None
    OBVIOUS
  <2> HIDE DEF Init
  <2> QED
    BY <2>1, <2>2, NoAnswerType DEF AnalysisIsSound, Stages, Score
<1> QED
  BY <1>2, <1>3 DEF DetectorInvariant, JudgedIsSound, RowIsSound, Judged

\* Every entry of the cache is written with what its domain owes.
LEMMA DomainsStep ==
  ASSUME DetectorInvariant, Next PROVE DomainsAreHonest'
<1> USE DetectorAssumption DEF DetectorInvariant, DomainsAreHonest
<1>1. ASSUME NEW m \in Mails, Receive(m) PROVE DomainsAreHonest'
  BY <1>1 DEF Receive
<1>2. CASE LookUp
  <2>1. HasUrl(mail) /\ mail \in Message
    BY <1>2 DEF LookUp, AnalysisIsSound
  <2>2. mail.first \in Url /\ mail.first.domain \in Domains
    BY <2>1 DEF Message, HasUrl, Url
  <2> QED
    BY <1>2, <2>1, <2>2 DEF LookUp
<1>3. ASSUME NEW age \in WhoisAges, Whois(age) PROVE DomainsAreHonest'
  <2>1. HasUrl(mail) /\ mail \in Message
    BY <1>3 DEF Whois, AnalysisIsSound
  <2>2. mail.first \in Url /\ mail.first.domain \in Domains
    BY <2>1 DEF Message, HasUrl, Url
  <2>3. intel' \in Intel /\ Bears(intel', mail.first.domain) /\ YoungIsRated(intel')
    BY <1>3, <2>2, IntelType DEF Whois
  <2>5. mail.first.idnHost => intel'.idn
    BY <1>3, Zenon DEF Whois, DomainIntel, NonAscii
  <2>4. cache' = [cache EXCEPT ![mail.first.domain] = intel'] \/ cache' = cache
    BY <1>3 DEF Whois, Stored
  <2> QED
    BY <1>3, <2>2, <2>3, <2>4, <2>5 DEF Whois
<1>4. ASSUME NEW ml \in MlScores, NEW risk \in Risks,
             (\E x \in Answers : Judge(ml, risk, x)) \/ Malformed(ml, risk)
      PROVE  DomainsAreHonest'
  BY <1>4 DEF Judge, Malformed
<1>5. ASSUME NEW hits, NEW files, NEW known, Persist(hits, files, known)
      PROVE  DomainsAreHonest'
  BY <1>5 DEF Persist
<1>6. ASSUME NEW u \in OtherUrls, NEW age \in WhoisAges, OtherAnalysis(u, age)
      PROVE  DomainsAreHonest'
  <2>1. u \in Url /\ u.domain \in Domains
    BY DEF Url
  <2>2. /\ DomainIntel(u, age) \in Intel /\ Bears(DomainIntel(u, age), u.domain)
        /\ YoungIsRated(DomainIntel(u, age))
    BY <2>1, IntelType
  <2>3. cache' = [cache EXCEPT ![u.domain] = DomainIntel(u, age)]
    BY <1>6 DEF OtherAnalysis, Stored
  <2> QED
    BY <1>6, <2>1, <2>2, <2>3 DEF OtherAnalysis
<1>7. ASSUME NEW d \in Domains, Expire(d) PROVE DomainsAreHonest'
  BY <1>7 DEF Expire
<1> QED
  BY <1>1, <1>2, <1>3, <1>4, <1>5, <1>6, <1>7 DEF Next, Others

\* Judging a message.
LEMMA JudgeStep ==
  ASSUME DetectorInvariant, NEW ml \in MlScores, NEW risk \in Risks, NEW x \in Answers,
         Judge(ml, risk, x)
  PROVE  AnalysisIsSound' /\ JudgedIsSound'
<1> USE DetectorAssumption DEF DetectorInvariant
<1>1. mail \in Mails /\ mail \in Message /\ intel \in Intel /\ ml \in Score /\ risk \in Score
      /\ x \in Answer /\ (HasUrl(mail) => Bears(intel, mail.first.domain))
      /\ (HasUrl(mail) /\ ~borrowed /\ mail.first.idnHost => intel.idn)
  BY DEF Judge, AnalysisIsSound, DomainsAreHonest
<1>2. layers' = LayersOf(mail, intel, ml, risk) /\ UNCHANGED <<fast, mail, borrowed>>
  BY DEF Judge
<1>3. layers' \in Layers /\ Floors(layers') >= Owed(mail, ~borrowed)
  BY <1>1, <1>2, LayersType, OwedIsPaid
<1>4. answer' = IF fast /\ TakesFastPath(layers') THEN FastAnswer(layers') ELSE x
  BY DEF Judge
<1>5. answer' \in Answer
  BY <1>1, <1>3, <1>4, FastAnswerType
<1>6. final' = FinalRisk(layers', answer') /\ final' \in Score
  BY <1>3, <1>5, FinalIs DEF Judge
<1>7. label' = Label(layers', final', answer'.label) /\ label' \in Labels
  BY <1>3, <1>5, <1>6, LabelType DEF Judge
<1>8. stage' = "judged"
  BY DEF Judge
<1>9. AnalysisIsSound'
  BY <1>1, <1>2, <1>3, <1>5, <1>6, <1>7, <1>8 DEF AnalysisIsSound, Stages
<1>10. Owed(mail', ~borrowed') = Owed(mail, ~borrowed)
  BY <1>2
<1>11. layers' = LayersOf(mail', intel', layers'.ml, layers'.risk)
  <2>1. layers'.ml = ml /\ layers'.risk = risk
    BY <1>2 DEF LayersOf
  <2>2. intel' = intel
    BY DEF Judge
  <2> QED
    BY <1>2, <2>1, <2>2
<1>12. JudgedIsSound'
  BY <1>2, <1>3, <1>4, <1>6, <1>7, <1>10, <1>11 DEF JudgedIsSound
<1> QED
  BY <1>9, <1>12

\* A stored row follows from the analysis.
LEMMA PersistStep ==
  ASSUME DetectorInvariant, NEW hits \in SUBSET Blocked, NEW files \in SUBSET Files,
         NEW known \in SUBSET Reputations, Persist(hits, files, known)
  PROVE  RowIsSound'
<1> DEFINE n == AttachmentRisk(files)
           d == DetectionWith(hits, n, known)
<1>1. n \in Score
  BY DetectorAssumption, AttachmentType
<1>2. Detection(hits, files, known) = d
  BY Zenon DEF Detection, DetectionWith
<1>3. d.known = known
  BY DEF DetectionWith
<1>4. row' = RowOf(d)
  <2>1. row' = [score |-> V!FinalScore(Detection(hits, files, known)),
                status |-> V!Status(Detection(hits, files, known)),
                label |-> StoredLabel(Detection(hits, files, known), label),
                attach |-> Detection(hits, files, known).attach,
                delta |-> V!ReputationDelta(known)]
    BY DEF Persist
  <2> HIDE DEF d
  <2> QED
    BY <1>2, <1>3, <2>1 DEF RowOf
<1>5. UNCHANGED <<layers, mail, final, label>>
  BY DEF Persist
<1>6. RowOf(d)' = RowOf(d)
  BY <1>5 DEF RowOf, DetectionWith
<1> QED
  BY <1>1, <1>4, <1>6 DEF RowIsSound

\* A row stays as long as its analysis does.
LEMMA RowStays ==
  ASSUME RowIsSound, UNCHANGED <<stage, mail, layers, final, label, row>> PROVE RowIsSound'
<1>1. \A hits, known : \A n \in Score :
        RowOf(DetectionWith(hits, n, known))' = RowOf(DetectionWith(hits, n, known))
  BY DEF RowOf, DetectionWith
<1> QED
  BY <1>1 DEF RowIsSound

\* Every action preserves the inductive invariant.
LEMMA AnalysisStep == ASSUME DetectorInvariant, Next PROVE DetectorInvariant'
<1> USE DetectorAssumption DEF DetectorInvariant
<1>1. DomainsAreHonest'
  BY DomainsStep
<1>2. ASSUME NEW m \in Mails, Receive(m) PROVE DetectorInvariant'
  BY <1>1, <1>2 DEF Receive, AnalysisIsSound, JudgedIsSound, RowIsSound, Judged, Stages
<1>3. CASE LookUp
  BY <1>1, <1>3 DEF LookUp, AnalysisIsSound, JudgedIsSound, RowIsSound, Judged, Stages
<1>4. ASSUME NEW age \in WhoisAges, Whois(age) PROVE DetectorInvariant'
  BY <1>1, <1>4 DEF Whois, AnalysisIsSound, JudgedIsSound, RowIsSound, Judged, Stages
<1>5. ASSUME NEW ml \in MlScores, NEW risk \in Risks, NEW x \in Answers, Judge(ml, risk, x)
      PROVE  DetectorInvariant'
  <2>1. RowIsSound'
    BY <1>5 DEF Judge, RowIsSound
  <2> QED
    BY <1>1, <1>5, <2>1, JudgeStep
<1>6. ASSUME NEW ml \in MlScores, NEW risk \in Risks, Malformed(ml, risk)
      PROVE  DetectorInvariant'
  BY <1>1, <1>6 DEF Malformed, AnalysisIsSound, JudgedIsSound, RowIsSound, Judged, Stages
<1>7. ASSUME NEW hits \in SUBSET Blocked, NEW files \in SUBSET Files,
             NEW known \in SUBSET Reputations, Persist(hits, files, known)
      PROVE  DetectorInvariant'
  <2>1. RowIsSound'
    BY <1>7, PersistStep
  <2>2. AnalysisIsSound' /\ JudgedIsSound'
    BY <1>7 DEF Persist, AnalysisIsSound, JudgedIsSound, Judged, Stages
  <2> QED
    BY <1>1, <2>1, <2>2
<1>8. CASE Others
  <2>1. UNCHANGED <<fast, stage, mail, intel, layers, answer, final, label, borrowed, row>>
    BY <1>8 DEF Others, OtherAnalysis, Expire
  <2>2. RowIsSound'
    BY <2>1, RowStays
  <2> QED
    BY <1>1, <2>1, <2>2 DEF AnalysisIsSound, JudgedIsSound, Judged
<1> QED
  BY <1>2, <1>3, <1>4, <1>5, <1>6, <1>7, <1>8 DEF Next

\* So does every step.
LEMMA DetectorStep == ASSUME DetectorInvariant, [Next]_vars PROVE DetectorInvariant'
<1>1. CASE Next
  BY <1>1, AnalysisStep
<1>2. CASE UNCHANGED vars
  <2>1. RowIsSound'
    BY <1>2, RowStays DEF vars, DetectorInvariant
  <2> QED
    BY <1>2, <2>1 DEF vars, DetectorInvariant, DomainsAreHonest, AnalysisIsSound,
       JudgedIsSound, Judged
<1> QED
  BY <1>1, <1>2

\* The inductive invariant holds in every reachable state.
THEOREM DetectorInvariance == Spec => []DetectorInvariant
BY DetectorInitially, DetectorStep, PTL DEF Spec

\* The state is well typed; in particular no stored score leaves 0..100.
THEOREM DetectorTyping == Spec => []TypeOK
<1>1. DetectorInvariant => TypeOK
  <2> SUFFICES ASSUME DetectorInvariant PROVE TypeOK
    OBVIOUS
  <2>1. stage = "stored" => row.status \in V!Statuses /\ row.score \in Score
    <3> SUFFICES ASSUME stage = "stored" PROVE row.status \in V!Statuses /\ row.score \in Score
      OBVIOUS
    <3>1. PICK hits, known : \E n \in Score : row = RowOf(DetectionWith(hits, n, known))
      BY DEF DetectorInvariant, RowIsSound
    <3>2. PICK n \in Score : row = RowOf(DetectionWith(hits, n, known))
      BY <3>1
    <3> DEFINE d == DetectionWith(hits, n, known)
    <3>3. d.risk \in Score /\ d.attach \in Score
      BY DEF DetectorInvariant, AnalysisIsSound, DetectionWith
    <3>5. row.score = V!FinalScore(d) /\ row.status = V!Status(d)
      <4> HIDE DEF d
      <4> QED
        BY <3>2 DEF RowOf, d
    <3>4. V!Status(d) \in V!Statuses
      BY DEF V!Status, V!Statuses
    <3> QED
      BY <3>5, <3>3, <3>4, IngestRaises
  <2> QED
    BY <2>1 DEF DetectorInvariant, DomainsAreHonest, AnalysisIsSound, TypeOK
<1> QED
  BY <1>1, DetectorInvariance, PTL

\* What is conclusive in a message or in the domain of its link stays so, whatever
\* other threads cached for the domain, whatever WHOIS, the classifier and the
\* model answer; and so does the host of a link that was measured itself.
THEOREM DecisiveHolds == Spec => []DecisiveSignalsHold
<1>1. DetectorInvariant => DecisiveSignalsHold
  <2> SUFFICES ASSUME DetectorInvariant, Judged PROVE final >= Owed(mail, ~borrowed)
    BY DEF DecisiveSignalsHold
  <2>1. layers \in Layers /\ Floors(layers) >= Owed(mail, ~borrowed) /\ final = FinalRisk(layers, answer)
        /\ answer \in Answer /\ mail \in Message
    BY DetectorAssumption
    DEF DetectorInvariant, JudgedIsSound, AnalysisIsSound, Judged
  <2>2. final \in Score /\ final >= Floors(layers) /\ Floors(layers) \in Score
    BY <2>1, FinalIs, FloorsType
  <2>3. Owed(mail, ~borrowed) \in Score
    BY <2>1, OwedType
  <2> QED
    BY <2>1, <2>2, <2>3 DEF Score
<1> QED
  BY <1>1, DetectorInvariance, PTL

\* No answer of the model lowers the score.
THEOREM ModelRaises == Spec => []ModelOnlyRaises
<1>1. DetectorInvariant => ModelOnlyRaises
  BY SilenceIsLowest
  DEF DetectorInvariant, JudgedIsSound, AnalysisIsSound, ModelOnlyRaises
<1> QED
  BY <1>1, DetectorInvariance, PTL

\* The fast path takes the side of the bar the layers take.
THEOREM FastPathIsFaithful == Spec => []FastPathAgrees
<1>1. DetectorInvariant => FastPathAgrees
  BY ShortcutAgrees DEF DetectorInvariant, JudgedIsSound, FastPathAgrees
<1> QED
  BY <1>1, DetectorInvariance, PTL

\* A message the ingest lets through at the detector's bar, or with a malicious
\* attachment, was trusted, or stands at the bar exactly.
THEOREM AllowedHasReason == Spec => []AllowedIsExplained
<1>1. DetectorInvariant => AllowedIsExplained
  <2> SUFFICES ASSUME DetectorInvariant, stage = "stored", row.status = "Allowed",
                      final >= 70 \/ row.attach >= 80, row.delta # -25
               PROVE  final = 70 /\ row.attach < 80
    BY DEF AllowedIsExplained
  <2>1. PICK hits, known : \E n \in Score : row = RowOf(DetectionWith(hits, n, known))
    BY DEF DetectorInvariant, RowIsSound
  <2>2. PICK n \in Score : row = RowOf(DetectionWith(hits, n, known))
    BY <2>1
  <2> DEFINE d == DetectionWith(hits, n, known)
  <2>3. d.risk = final /\ d.attach = n /\ final \in Score
    BY DEF DetectorInvariant, AnalysisIsSound, DetectionWith
  <2> HIDE DEF d
  <2>4. row.status = V!Status(d) /\ row.attach = n /\ row.delta = V!ReputationDelta(d.known)
    BY <2>2, <2>3 DEF RowOf, d
  <2>5. ~ V!IsThreat(d)
    BY <2>4 DEF V!Status
  <2>6. V!FinalScore(d) \in Score /\ V!FinalScore(d) >= final
        /\ (n >= 80 => V!FinalScore(d) >= n)
    BY <2>3, <2>4, IngestRaises
  <2>7. ~ (V!FinalScore(d) > 70)
    BY <2>5 DEF V!IsThreat
  <2> QED
    BY <2>3, <2>4, <2>6, <2>7 DEF Score
<1> QED
  BY <1>1, DetectorInvariance, PTL

----------------------------------------------------------------------------
(* The label follows the verdict. *)

\* A score at the bar is never called by a vague word.
LEMMA LabelIsNamed ==
  ASSUME NEW s, NEW n \in Score, n >= 70, NEW said
  PROVE  Label(s, n, said) \notin VagueLabels
BY DEF Label, VagueLabels

\* An instruction to the scanner puts the message at the bar.
LEMMA InjectionDecides ==
  ASSUME DetectorInvariant, Judged, mail.text.injections > 0 PROVE final >= 70
<1>1. mail \in Message
  BY DetectorAssumption DEF DetectorInvariant, AnalysisIsSound, Judged
<1>2. layers \in Layers /\ final = FinalRisk(layers, answer) /\ answer \in Answer
      /\ layers = LayersOf(mail, intel, layers.ml, layers.risk)
  BY DEF DetectorInvariant, JudgedIsSound, AnalysisIsSound
<1>3. layers.inj = InjectionScore(mail)
  BY <1>2 DEF LayersOf
<1>4. layers.inj >= 75
  BY <1>1, <1>3, InjectionType
<1>5. ContentFloor(layers) >= 75 /\ ContentFloor(layers) \in Score
  BY <1>2, <1>4, ContentType
<1>6. Floors(layers) \in Score /\ Floors(layers) >= ContentFloor(layers)
  BY <1>2, FloorsType
<1>7. final \in Score /\ final >= Floors(layers)
  BY <1>2, FinalIs
<1> QED
  BY <1>5, <1>6, <1>7 DEF Score

\* A quarantined row with a vague label had its score raised after the label was
\* chosen; one called Safe or Unknown is there for its heuristics, a bad
\* reputation, or a policy that quarantines for a low score.
THEOREM LabelHolds == Spec => []LabelFollowsVerdict
<1>1. DetectorInvariant => LabelFollowsVerdict
  <2> SUFFICES ASSUME DetectorInvariant, stage = "stored", row.status = "Quarantined"
               PROVE  /\ row.label \in VagueLabels => final < 70
                      /\ row.label \in {"Safe", "Unknown"} =>
                           layers.h > 70 \/ row.delta = 25 \/ \E p \in Policies : SetsLowBar(p)
    BY DEF LabelFollowsVerdict
  <2>1. PICK hits, known : \E n \in Score : row = RowOf(DetectionWith(hits, n, known))
    BY DEF DetectorInvariant, RowIsSound
  <2>2. PICK n \in Score : row = RowOf(DetectionWith(hits, n, known))
    BY <2>1
  <2> DEFINE d == DetectionWith(hits, n, known)
  <2>3. /\ d.risk = final /\ d.attach = n /\ final \in Score /\ d.url = layers.h
        /\ d.bec = (label = "BEC") /\ d.injected = (mail.text.injections > 0)
    BY Zenon DEF DetectorInvariant, AnalysisIsSound, DetectionWith
  <2> HIDE DEF d
  <2>4. /\ row.status = V!Status(d) /\ row.label = StoredLabel(d, label)
        /\ row.delta = V!ReputationDelta(d.known)
    BY <2>2, <2>3 DEF RowOf, d
  <2>5. Judged /\ label = Label(layers, final, answer.label)
    BY DEF Judged, DetectorInvariant, JudgedIsSound
  <2>6. final >= 70 => label \notin VagueLabels
    BY <2>3, <2>5, LabelIsNamed
  <2>7. row.label \in VagueLabels => row.label = label
    BY <2>4 DEF StoredLabel, VagueLabels
  <2>8. row.label \in VagueLabels => final < 70
    BY <2>3, <2>6, <2>7 DEF Score
  <2>9. ASSUME row.label \in {"Safe", "Unknown"}, ~(layers.h > 70), row.delta # 25
        PROVE  \E p \in Policies : SetsLowBar(p)
    <3>1. label \in {"Safe", "Unknown"} /\ final < 70
      BY <2>7, <2>8, <2>9 DEF VagueLabels
    <3>2. ~V!IntelBlock(d) /\ ~(d.attach >= 80)
      BY <2>4, <2>9, <3>1 DEF StoredLabel
    <3>3. V!IsThreat(d)
      BY <2>4 DEF V!Status
    <3>4. ~(V!FinalScore(d) > 70)
      <4>1. V!FinalScore(d) = V!Adjusted(final, row.delta)
        BY <2>3, <2>4, <3>2 DEF V!FinalScore, V!BlockFloor, V!AttachmentFloor
      <4>2. row.delta \in {-25, 0}
        BY <2>4, <2>9, DeltaType
      <4> QED
        BY <2>3, <3>1, <4>1, <4>2 DEF V!Adjusted, V!Larger, V!Smaller, Score
    <3>5. V!PolicyResult(d).action = "quarantine"
      BY <2>3, <2>9, <3>2, <3>3, <3>4 DEF V!IsThreat
    <3>6. PICK p \in Policies : V!Matches(p, d) /\ p.action = "quarantine"
      BY <3>5, PolicyIsOne
    <3>7. /\ p.keys \subseteq {"min_risk_score", "threat_type_contains", "feature_true",
                               "sender_domain", "unsupported"}
          /\ p.minRisk \in 0..100
      BY PolicyAssumption DEF V!Policy
    <3>8. "threat_type_contains" \notin p.keys
      BY <2>3, <3>1, <3>6 DEF V!Matches
    <3>9. "feature_true" \notin p.keys
      <4> SUFFICES ASSUME "feature_true" \in p.keys PROVE FALSE
        OBVIOUS
      <4>1. mail.text.injections > 0
        BY <2>3, <3>6 DEF V!Matches
      <4>2. final >= 70
        BY <2>5, <4>1, InjectionDecides
      <4> QED
        BY <2>3, <3>1, <4>2 DEF Score
    <3>10. p.keys # {} /\ p.keys \cap {"unsupported", "sender_domain"} = {}
           /\ ("min_risk_score" \in p.keys => final >= p.minRisk)
      BY <2>3, <3>6 DEF V!Matches
    <3>11. p.keys = {"min_risk_score"}
      BY <3>7, <3>8, <3>9, <3>10
    <3>12. p.minRisk < 70
      BY <2>3, <3>1, <3>7, <3>10, <3>11 DEF Score
    <3> QED
      BY <3>6, <3>11, <3>12 DEF SetsLowBar
  <2> QED
    BY <2>8, <2>9
<1> QED
  BY <1>1, DetectorInvariance, PTL

----------------------------------------------------------------------------
(* The score without a model or WHOIS, and the hybrid score.  They share every *)
(* floor but the corpus match: WHOIS may put an evasion in sight that is not    *)
(* listed for the brand the message names.                                     *)

Listed(m, i) == Hits(m.text.lures, m.text.brands, SeenEvasions(m, i))

\* Every listed technique is a threat by its severity.
LEMMA WorstIsSevere ==
  ASSUME NEW S, S \subseteq Techniques, S # {} PROVE Worst(S) \in Score /\ Worst(S) >= 70
<1> DEFINE severities == {t.severity : t \in S}
<1>1. severities \subseteq Score /\ severities # {} /\ \A n \in severities : n >= 70
  BY SignalsAssumption
<1>2. Worst(S) = CHOOSE n \in severities : \A k \in severities : n >= k
  BY Zenon DEF Worst
<1> HIDE DEF severities
<1>3. PICK top \in severities : \A k \in severities : top >= k
  BY <1>1, GreatestScore
<1>4. Worst(S) \in severities
  BY <1>2, <1>3, Zenon
<1> QED
  BY <1>1, <1>4

\* When the corpus makes a threat of a message, and when it does not.
LEMMA MatchCases ==
  ASSUME NEW m \in Message, NEW i \in Intel
  PROVE  /\ CorpusMatch(m, i).highValue = (m.text.lures \cap HighValueLures # {})
         /\ CorpusMatch(m, i).score >= 70 =>
              Listed(m, i) # {} /\ (m.text.brands # {} \/ SeenEvasions(m, i) # {})
         /\ CorpusMatch(m, i).score < 70 =>
              /\ CorpusMatch(m, i).score = 0 \/ CorpusMatch(m, i).highValue
              /\ m.text.brands # {} => Listed(m, i) = {} /\ ~CorpusMatch(m, i).matched
              /\ SeenEvasions(m, i) # {} => Listed(m, i) = {}
<1> DEFINE lures == m.text.lures
           brands == m.text.brands
           evasions == SeenEvasions(m, i)
           hits == Listed(m, i)
           high == lures \cap HighValueLures # {}
           some == hits # {}
           none == lures = {} \/ (brands = {} /\ evasions = {} /\ ~high)
           match == CorpusMatch(m, i)
<1>1. match = IF none THEN [score |-> 0, matched |-> FALSE, highValue |-> FALSE]
              ELSE IF brands = {} /\ evasions = {}
                THEN [score |-> 65, matched |-> TRUE, highValue |-> TRUE]
              ELSE [score |-> Worst(hits), matched |-> some, highValue |-> high]
  BY Zenon DEF CorpusMatch, Listed
<1>2. hits \subseteq Techniques /\ (lures = {} => hits = {}) /\ (high => lures # {})
  BY DEF Listed, Hits
<1>3. hits # {} => Worst(hits) >= 70
  BY <1>2, WorstIsSevere
<1>4. hits = {} => Worst(hits) = 0
  BY DEF Worst
<1>5. high \in BOOLEAN /\ some \in BOOLEAN /\ (some <=> hits # {}) /\ Worst(hits) \in Score
  <2>1. 0 \in Score
    BY DEF Score
  <2> QED
    BY <1>2, <1>4, <2>1, WorstIsSevere
<1> DEFINE Goal == /\ match.highValue = high
                   /\ match.score >= 70 => hits # {} /\ (brands # {} \/ evasions # {})
                   /\ match.score < 70 => /\ match.score = 0 \/ match.highValue
                                          /\ brands # {} => hits = {} /\ ~match.matched
                                          /\ evasions # {} => hits = {}
<1> HIDE DEF lures, brands, evasions, hits, high, some, match
<1>6. ASSUME none PROVE Goal
  <2>1. match = [score |-> 0, matched |-> FALSE, highValue |-> FALSE]
    BY <1>1, <1>6
  <2>2. match.score = 0 /\ match.matched = FALSE /\ match.highValue = FALSE
    BY <2>1
  <2>3. high = FALSE
    BY <1>2, <1>5, <1>6
  <2>4. brands # {} \/ evasions # {} => hits = {}
    BY <1>2, <1>6
  <2> HIDE DEF none
  <2>5. match.highValue = high
    BY <2>2, <2>3, Zenon
  <2>6. ~(match.score >= 70)
    BY <2>2
  <2> QED
    BY <2>2, <2>4, <2>5, <2>6, Zenon
<1>7. ASSUME ~none, brands = {} /\ evasions = {} PROVE Goal
  <2>1. match = [score |-> 65, matched |-> TRUE, highValue |-> TRUE] /\ high
    BY <1>1, <1>7
  <2>2. match.score = 65 /\ match.highValue = TRUE
    BY <2>1
  <2> QED
    BY <1>5, <1>7, <2>1, <2>2
<1>8. ASSUME ~none, ~(brands = {} /\ evasions = {}) PROVE Goal
  <2>1. match = [score |-> Worst(hits), matched |-> some, highValue |-> high]
    BY <1>1, <1>8
  <2>2. match.score = Worst(hits) /\ match.matched = some /\ match.highValue = high
    BY <2>1
  <2>3. CASE hits = {}
    BY <1>4, <1>5, <1>8, <2>2, <2>3
  <2>4. CASE hits # {}
    <3>1. match.score >= 70 /\ match.score \in Score
      BY <1>3, <1>5, <2>2, <2>4
    <3>2. ~(match.score < 70)
      BY <3>1 DEF Score
    <3> QED
      BY <1>8, <2>2, <2>4, <3>1, <3>2
  <2> QED
    BY <2>3, <2>4
<1> QED
  BY <1>6, <1>7, <1>8 DEF lures, brands, evasions, hits, high, match

\* A message below the bar has none of what puts it there by itself.
LEMMA BelowBar ==
  ASSUME NEW s \in Layers, NEW x \in Answer, FinalRisk(s, x) < 70
  PROVE  /\ s.bec < 70 /\ s.inj < 70 /\ s.floor < 70 /\ s.corpus < 70 /\ s.d < 70 /\ s.ml < 75
         /\ ~(s.a >= 70 /\ s.h >= 40) /\ ~(s.highValue /\ s.a >= 40) /\ ~s.themed
<1>1. /\ Floors(s) \in Score /\ ContentFloor(s) \in Score /\ SenderFloor(s) \in Score
      /\ SafetyNet(s) \in Score /\ FinalRisk(s, x) \in Score
      /\ Floors(s) >= ContentFloor(s) /\ Floors(s) >= SenderFloor(s) /\ Floors(s) >= SafetyNet(s)
      /\ FinalRisk(s, x) >= Floors(s)
  BY FloorsType, ContentType, SenderType, NetType, FinalIs
<1>2. ContentFloor(s) < 70 /\ SenderFloor(s) < 70 /\ SafetyNet(s) < 70
  BY <1>1 DEF Score
<1>3. s.bec < 70 /\ s.inj < 70
  BY <1>2, LayerTypes DEF ContentFloor, Raised, Higher, Score
<1>4. s.corpus < 70 /\ s.floor < 70
  BY <1>2, LayerTypes DEF SenderFloor, Raised, Higher, Score
<1>5. ~(s.a >= 70 /\ s.h >= 40) /\ ~(s.highValue /\ s.a >= 40) /\ ~s.themed
  BY <1>1, <1>2, SenderType DEF Score
<1>6. s.ml < 75
  BY <1>2, DeterministicType, LayerTypes DEF SafetyNet, Raised, Higher, Score
<1>7. s.d < 70
  <2> DEFINE worst == Higher(Higher(s.corpus, s.d), Higher(s.bec, s.inj))
             spoof == \/ s.a >= 70 /\ (s.d >= 50 \/ s.h >= 40)
                      \/ s.highValue /\ s.a >= 40
  <2>0. worst \in Score /\ worst >= s.d
    <3>1. s.corpus \in Score /\ s.d \in Score /\ s.bec \in Score /\ s.inj \in Score
      BY LayerTypes
    <3>2. /\ Higher(s.corpus, s.d) \in Score /\ Higher(s.corpus, s.d) >= s.d
          /\ Higher(s.bec, s.inj) \in Score
      BY <3>1, HigherScore
    <3>3. worst \in Score /\ worst >= Higher(s.corpus, s.d)
      BY <3>2, HigherScore
    <3> QED
      BY <3>1, <3>2, <3>3 DEF Score
  <2>1. DeterministicHigh(s) >= s.d /\ DeterministicHigh(s) \in Score
    <3>1. DeterministicHigh(s) = Higher(Raised(worst, spoof, 85), s.floor)
      BY Zenon DEF DeterministicHigh
    <3> HIDE DEF worst, spoof
    <3>2. Raised(worst, spoof, 85) \in Score /\ Raised(worst, spoof, 85) >= s.d
      BY <2>0, LayerTypes DEF Raised, Higher, Score
    <3> QED
      BY <3>1, <3>2, LayerTypes, SMTT(30) DEF Higher, Score
  <2>2. DeterministicHigh(s) < 70
    BY <1>1, <1>2, <2>1, NetType DEF Score
  <2> QED
    BY <2>1, <2>2, LayerTypes DEF Score
<1> QED
  BY <1>3, <1>4, <1>5, <1>6, <1>7

\* The scores authentication can give.
LEMMA AuthValues ==
  ASSUME NEW auth \in Auth PROVE AuthScore(auth) \in {0, 20, 30, 40, 50, 70}
BY DEF AuthScore, Points

\* The weighted sum of deterministic_score stays below the bar without a match.
OfflineSum(h, a, bec, inj, corpus) == 30 * h + 20 * a + 15 * bec + 10 * inj + 25 * corpus

\* That sum, of layers that are each below what decides.
LEMMA OfflineSumBound ==
  ASSUME NEW h \in Score, NEW a \in Score, NEW bec \in Score, NEW inj \in Score, NEW corpus \in Score,
         bec < 70, inj = 0, corpus < 70, a <= 50 \/ (a <= 70 /\ h < 40)
  PROVE  OfflineSum(h, a, bec, inj, corpus) \in Nat /\ OfflineSum(h, a, bec, inj, corpus) < 7000
BY DEF OfflineSum, Score

\* Without those, deterministic_score makes a threat of what the corpus lists.
LEMMA OfflineNeedsMatch ==
  ASSUME NEW o \in Layers, OfflineScore(o) >= 70,
         o.bec < 70, o.inj = 0, o.floor < 70, o.ml < 75, o.a \in {0, 20, 30, 40, 50, 70},
         ~(o.a >= 70 /\ o.h >= 40), ~(o.highValue /\ o.a >= 40), ~o.themed,
         o.corpus < 70 => o.corpus = 0 \/ o.highValue
  PROVE  o.corpus >= 70
<1> SUFFICES ASSUME o.corpus < 70 PROVE FALSE
  BY LayerTypes DEF Score
<1> DEFINE sum == OfflineSum(o.h, o.a, o.bec, o.inj, o.corpus)
           blend == sum \div 100
<1>1. /\ o.h \in 0..100 /\ o.bec \in 0..69 /\ o.corpus \in 0..69 /\ o.floor \in 0..69
      /\ o.ml \in 0..74 /\ o.highValue \in BOOLEAN /\ o.themed \in BOOLEAN
  BY LayerTypes DEF Score
<1>2. sum \in Nat /\ sum < 7000
  <2>1. /\ o.h \in Score /\ o.a \in Score /\ o.bec \in Score /\ o.inj \in Score
        /\ o.corpus \in Score
    BY LayerTypes
  <2>2. o.a <= 50 \/ (o.a <= 70 /\ o.h < 40)
    BY <2>1 DEF Score
  <2> QED
    BY <2>1, <2>2, OfflineSumBound
<1>3. blend \in 0..69
  <2> HIDE DEF sum
  <2> QED
    BY <1>2
<1>4. ~(o.a >= 70 /\ (o.h >= 40 \/ o.corpus >= 50))
  BY <1>1
<1> DEFINE spoof == o.a >= 70 /\ (o.h >= 40 \/ o.corpus >= 50)
           text  == Raised(Raised(0, o.bec >= 70, o.bec), o.inj >= 70, o.inj)
           known == Raised(Raised(0, o.corpus >= 70, o.corpus), spoof \/ (o.highValue /\ o.a >= 40), 85)
           late  == Raised(Raised(o.floor, o.themed, 80), o.ml >= 75, o.ml)
<1>5. OfflineScore(o) = Higher(Higher(blend, text), Higher(known, late))
  BY Zenon DEF OfflineScore, OfflineSum
<1>6. text = 0
  BY <1>1 DEF Raised
<1>7. known = 0
  BY <1>1, <1>4 DEF Raised
<1>8. late = o.floor
  BY <1>1 DEF Raised
<1> HIDE DEF blend, text, known, late
<1> QED
  BY <1>1, <1>3, <1>5, <1>6, <1>7, <1>8 DEF Higher

\* Only an evasion that WHOIS brings into sight hides a match.
LEMMA HiddenMatch ==
  ASSUME NEW m \in Message, NEW i \in Intel,
         CorpusMatch(m, NoIntel).score >= 70, CorpusMatch(m, i).score < 70
  PROVE  i.age \in 0..29 /\ ~CorpusMatch(m, i).matched /\ m.text.brands # {}
<1> DEFINE lures == m.text.lures
           brands == m.text.brands
           E0 == SeenEvasions(m, NoIntel)
           E1 == SeenEvasions(m, i)
<1>1. NoIntel \in Intel /\ NoIntel.target = FALSE /\ NoIntel.age = -1
  BY DEF NoIntel, Intel, Score, Ages, NoAge
<1>2. Listed(m, NoIntel) # {} /\ (brands # {} \/ E0 # {})
  BY <1>1, MatchCases
<1>3. (brands # {} => Listed(m, i) = {} /\ ~CorpusMatch(m, i).matched) /\ (E1 # {} => Listed(m, i) = {})
  BY MatchCases
<1>4. E0 \subseteq E1
  BY <1>1 DEF SeenEvasions
<1>5. E0 = {}
  <2> SUFFICES ASSUME E0 # {} PROVE FALSE
    OBVIOUS
  <2>1. Listed(m, NoIntel) \subseteq Listed(m, i)
    BY <1>4 DEF Listed, Hits
  <2> QED
    BY <1>2, <1>3, <1>4, <2>1
<1>6. brands # {} /\ Listed(m, i) = {} /\ ~CorpusMatch(m, i).matched
  BY <1>2, <1>3, <1>5
<1>7. E1 # {}
  <2> SUFFICES ASSUME E1 = {} PROVE FALSE
    OBVIOUS
  <2>1. Listed(m, i) = Listed(m, NoIntel)
    BY <1>5 DEF Listed
  <2> QED
    BY <1>2, <1>6, <2>1
<1>8. PICK t \in Techniques : t.lure \in lures /\ t.brand \in brands
  BY <1>2, <1>5 DEF Listed, Hits
<1>9. PICK u \in Techniques : u.lure = t.lure /\ u.brand = t.brand /\ u.evasion = "lookalike_domain"
  BY SignalsAssumption
<1>10. "lookalike_domain" \notin E1
  <2> SUFFICES ASSUME "lookalike_domain" \in E1 PROVE FALSE
    OBVIOUS
  <2>1. u \in Listed(m, i)
    BY <1>6, <1>7, <1>8, <1>9 DEF Listed, Hits
  <2> QED
    BY <1>6, <2>1
<1>11. "url_shortener" \notin E1
  BY <1>5 DEF SeenEvasions
<1>12. i.age \in 0..29
  BY <1>7, <1>10, <1>11 DEF SeenEvasions
<1> QED
  BY <1>6, <1>12

\* deterministic_score never sees a threat the hybrid score misses, except when
\* WHOIS reports a domain of 3 to 29 days and so hides a match of the corpus.
THEOREM OfflineHolds == Spec => []OfflineAgrees
<1>1. DetectorInvariant => OfflineAgrees
  <2> DEFINE s == layers
             o == LayersOf(mail, NoIntel, layers.ml, layers.risk)
  <2> SUFFICES ASSUME DetectorInvariant, Judged, OfflineScore(o) >= 70, final < 70
               PROVE  intel.age \in 3..29 /\ ~s.matched /\ mail.text.brands # {}
    BY DEF OfflineAgrees, IsOfflineThreat
  <2>1. mail \in Message /\ intel \in Intel /\ YoungIsRated(intel)
    BY DetectorAssumption DEF DetectorInvariant, AnalysisIsSound, DomainsAreHonest, Judged
  <2>2. s \in Layers /\ s = LayersOf(mail, intel, s.ml, s.risk) /\ answer \in Answer
        /\ final = FinalRisk(s, answer)
    BY DEF DetectorInvariant, JudgedIsSound, AnalysisIsSound
  <2>3. NoIntel \in Intel
    BY DEF NoIntel, Intel, Score, Ages, NoAge
  <2>4. s.ml \in Score /\ s.risk \in Score
    BY <2>2, LayerTypes
  <2>5. o \in Layers
    BY <2>1, <2>3, <2>4, LayersType
  <2>6. /\ s.h = HeuristicScore(mail) /\ s.a = AuthScore(mail.auth) /\ s.bec = BecScore(mail)
        /\ s.inj = InjectionScore(mail) /\ s.floor = AuthFloor(mail) /\ s.d = intel.score
        /\ s.corpus = CorpusMatch(mail, intel).score
        /\ s.matched = CorpusMatch(mail, intel).matched
        /\ s.highValue = CorpusMatch(mail, intel).highValue
        /\ s.themed = (ThemedScore(mail) >= 78 /\ mail.text.solicits)
    <3> DEFINE t == LayersOf(mail, intel, s.ml, s.risk)
    <3>1. /\ t.h = HeuristicScore(mail) /\ t.a = AuthScore(mail.auth) /\ t.bec = BecScore(mail)
          /\ t.inj = InjectionScore(mail) /\ t.floor = AuthFloor(mail) /\ t.d = intel.score
          /\ t.corpus = CorpusMatch(mail, intel).score
          /\ t.matched = CorpusMatch(mail, intel).matched
          /\ t.highValue = CorpusMatch(mail, intel).highValue
          /\ t.themed = (ThemedScore(mail) >= 78 /\ mail.text.solicits)
      BY Zenon DEF LayersOf
    <3>2. s = t
      BY <2>2
    <3> HIDE DEF t
    <3> QED
      BY <3>1, <3>2
  <2>7. /\ o.h = HeuristicScore(mail) /\ o.a = AuthScore(mail.auth) /\ o.bec = BecScore(mail)
        /\ o.inj = InjectionScore(mail) /\ o.floor = AuthFloor(mail) /\ o.ml = s.ml
        /\ o.corpus = CorpusMatch(mail, NoIntel).score
        /\ o.highValue = CorpusMatch(mail, NoIntel).highValue
        /\ o.themed = (ThemedScore(mail) >= 78 /\ mail.text.solicits)
    BY Zenon DEF LayersOf
  <2> HIDE DEF s, o
  <2>8. /\ s.bec < 70 /\ s.inj < 70 /\ s.floor < 70 /\ s.corpus < 70 /\ s.d < 70 /\ s.ml < 75
        /\ ~(s.a >= 70 /\ s.h >= 40) /\ ~(s.highValue /\ s.a >= 40) /\ ~s.themed
    BY <2>2, BelowBar
  <2>9. o.highValue = s.highValue
    BY <2>1, <2>3, <2>6, <2>7, MatchCases
  <2>10. o.inj = 0
    <3>1. mail.text.injections \in Nat
      BY <2>1 DEF Message, Text
    <3>2. ~(mail.text.injections > 0)
      BY <2>1, <2>6, <2>8, InjectionType DEF Score
    <3> QED
      BY <2>7, <3>1, <3>2 DEF InjectionScore
  <2>11. o.a \in {0, 20, 30, 40, 50, 70}
    BY <2>1, <2>7, AuthValues DEF Message
  <2>12. o.corpus < 70 => o.corpus = 0 \/ o.highValue
    BY <2>1, <2>3, <2>7, MatchCases
  <2>13. o.corpus >= 70
    BY <2>5, <2>6, <2>7, <2>8, <2>9, <2>10, <2>11, <2>12, OfflineNeedsMatch
  <2>14. intel.age \in 0..29 /\ ~s.matched /\ mail.text.brands # {}
    BY <2>1, <2>6, <2>7, <2>8, <2>13, HiddenMatch
  <2>15. intel.age \notin 0..2
    <3>1. intel.age \in 0..2 => intel.score >= 70
      BY <2>1 DEF YoungIsRated
    <3>2. intel.score \in Score /\ intel.score < 70
      BY <2>1, <2>6, <2>8 DEF Intel
    <3> QED
      BY <3>1, <3>2 DEF Score
  <2> QED
    BY <2>14, <2>15
<1> QED
  BY <1>1, DetectorInvariance, PTL

----------------------------------------------------------------------------
(* The assumption on the corpus is what build_phishing_corpus.py generates:    *)
(* from pretexts rated 70 and more it generates techniques rated 70 and more,   *)
(* and a lookalike domain for every brand of every pretext.                    *)

C == INSTANCE Corpus

Evasions == {"lookalike_domain", "homoglyph", "subdomain_spoof", "url_shortener",
             "open_redirect", "legit_hosting", "aitm_proxy", "qr_code",
             "image_only_body", "display_name_spoof", "reply_to_mismatch", "new_domain",
             "html_smuggling", "encrypted_archive", "nested_archive", "macro_document",
             "double_extension", "unicode_rtl", "thread_hijack", "compromised_sender"}

\* Two lists put together.
LEMMA JoinOf ==
  ASSUME NEW s \in Seq(Evasions), NEW t \in Seq(Evasions)
  PROVE  /\ s \o t \in Seq(Evasions) /\ Len(s \o t) = Len(s) + Len(t)
         /\ Len(s) \in Nat /\ Len(t) \in Nat
         /\ Len(s) > 0 => (s \o t)[1] = s[1]
         /\ Len(t) > 0 => (s \o t)[Len(s) + 1] = t[1]
<1>1. /\ s \o t \in Seq(Evasions) /\ Len(s \o t) = Len(s) + Len(t)
      /\ \A i \in 1 .. Len(s) + Len(t) : (s \o t)[i] = IF i <= Len(s) THEN s[i] ELSE t[i - Len(s)]
  BY ConcatProperties
<1>2. Len(s) \in Nat /\ Len(t) \in Nat
  BY LenProperties
<1>3. Len(t) > 0 => (s \o t)[Len(s) + 1] = t[1]
  <2>1. (Len(s) + 1) - Len(s) = 1 /\ ~(Len(s) + 1 <= Len(s))
    BY <1>2
  <2> QED
    BY <1>1, <1>2, <2>1
<1> QED
  BY <1>1, <1>2, <1>3

\* What the generator puts a pretext together with.
LEMMA PoolType ==
  ASSUME NEW l PROVE /\ C!Pool(l) \in Seq(Evasions)
                     /\ \E k \in DOMAIN C!Pool(l) : C!Pool(l)[k] = "lookalike_domain"
<1> DEFINE links == C!LinkEvasions
           some == SubSeq(links, 1, 4)
           files == C!FileEvasions \o C!CtxEvasions
<1>1. /\ links \in Seq(Evasions) /\ Len(links) = 12 /\ links[1] = "lookalike_domain"
      /\ C!FileEvasions \in Seq(Evasions) /\ Len(C!FileEvasions) = 6
      /\ C!CtxEvasions \in Seq(Evasions) /\ Len(C!CtxEvasions) = 2
  BY DEF C!LinkEvasions, C!FileEvasions, C!CtxEvasions, Evasions
<1> HIDE DEF links
<1>2. some \in Seq(Evasions) /\ Len(some) = 4 /\ some[1] = links[1]
  <2>1. \A i \in 1..4 : links[i] \in Evasions
    <3> SUFFICES ASSUME NEW i \in 1..4 PROVE links[i] \in Evasions
      OBVIOUS
    <3>1. i \in 1..Len(links)
      BY <1>1
    <3> QED
      BY <1>1, <3>1, ElementOfSeq
  <2>2. /\ SubSeq(links, 1, 4) \in Seq(Evasions) /\ Len(SubSeq(links, 1, 4)) = 4 - 1 + 1
        /\ \A i \in 1..(4 - 1 + 1) : SubSeq(links, 1, 4)[i] = links[1 + i - 1]
    BY <2>1, SubSeqProperties
  <2>3. 1 \in 1..(4 - 1 + 1) /\ 1 + 1 - 1 = 1 /\ 4 - 1 + 1 = 4
    OBVIOUS
  <2> QED
    BY <2>2, <2>3
<1> HIDE DEF some
<1>3. files \in Seq(Evasions) /\ Len(files) = 8
  <2>1. files \in Seq(Evasions) /\ Len(files) = Len(C!FileEvasions) + Len(C!CtxEvasions)
    BY <1>1, JoinOf, Zenon
  <2> QED
    BY <1>1, <2>1
<1> HIDE DEF files
<1>4. CASE l.byFile
  <2>1. C!Pool(l) = files \o some
    BY <1>4 DEF C!Pool, files, some, links
  <2>2. /\ files \o some \in Seq(Evasions) /\ Len(files \o some) = 12
        /\ (files \o some)[9] = some[1]
    <3>1. /\ files \o some \in Seq(Evasions) /\ Len(files \o some) = Len(files) + Len(some)
          /\ Len(some) > 0 => (files \o some)[Len(files) + 1] = some[1]
      BY <1>2, <1>3, JoinOf, Zenon
    <3> QED
      BY <1>2, <1>3, <3>1
  <2>3. 9 \in DOMAIN (files \o some)
    BY <2>2, LenProperties
  <2> QED
    BY <1>1, <1>2, <2>1, <2>2, <2>3
<1>5. CASE ~l.byFile
  <2>1. C!Pool(l) = links \o C!CtxEvasions
    BY <1>5 DEF C!Pool, links
  <2>2. /\ links \o C!CtxEvasions \in Seq(Evasions) /\ Len(links \o C!CtxEvasions) = 14
        /\ (links \o C!CtxEvasions)[1] = links[1]
    <3>1. /\ links \o C!CtxEvasions \in Seq(Evasions)
          /\ Len(links \o C!CtxEvasions) = Len(links) + Len(C!CtxEvasions)
          /\ Len(links) > 0 => (links \o C!CtxEvasions)[1] = links[1]
      BY <1>1, JoinOf, Zenon
    <3> QED
      BY <1>1, <3>1
  <2>3. 1 \in DOMAIN (links \o C!CtxEvasions)
    BY <2>2, LenProperties
  <2> QED
    BY <1>1, <2>1, <2>2, <2>3
<1> QED
  BY <1>4, <1>5

\* No evasion makes a pretext milder.
LEMMA SeverityIsKept ==
  ASSUME NEW l \in C!Lure, l.severity >= 70, NEW evasion \in Evasions
  PROVE  C!Severity(l, evasion) >= 70 /\ C!Severity(l, evasion) \in Score
<1>1. C!Modifier(evasion) \in 0..12
  BY DEF C!Modifier, Evasions
<1>2. l.severity \in Nat
  BY DEF C!Lure
<1> QED
  BY <1>1, <1>2 DEF C!Severity, Score

\* The generated corpus is as Signals assumes it: from pretexts rated 70 and
\* more, every entry of build_phishing_corpus.py is rated 70 and more, and has a
\* lookalike of the same brand under the same pretext beside it.
THEOREM BuilderListsLookalikes ==
  ASSUME NEW lures \in Seq(C!Lure), \A i \in DOMAIN lures : lures[i].severity >= 70,
         NEW t \in C!Build(lures)
  PROVE  /\ t.severity \in Score /\ t.severity >= 70
         /\ \E u \in C!Build(lures) : u.lure = t.lure /\ u.brand = t.brand /\ u.evasion = "lookalike_domain"
<1>1. PICK p \in C!Places(lures) : t = C!Entry(lures, p)
  BY DEF C!Build
<1>2. PICK i \in DOMAIN lures :
        \E b \in C!BrandPlaces(lures[i]), e \in DOMAIN C!Pool(lures[i]) : p = <<i, b, e>>
  BY <1>1 DEF C!Places
<1>3. PICK b \in C!BrandPlaces(lures[i]), e \in DOMAIN C!Pool(lures[i]) : p = <<i, b, e>>
  BY <1>2
<1>4. PICK k \in DOMAIN C!Pool(lures[i]) : C!Pool(lures[i])[k] = "lookalike_domain"
  BY PoolType
<1>5. <<i, b, k>> \in C!Places(lures)
  BY <1>3, <1>4 DEF C!Places
<1> DEFINE u == C!Entry(lures, <<i, b, k>>)
<1>6. u \in C!Build(lures)
  BY <1>5 DEF C!Build
<1>7. /\ t.lure = lures[i].lure /\ t.brand = lures[i].brands[b]
      /\ t.severity = C!Severity(lures[i], C!Pool(lures[i])[e])
  BY <1>1, <1>3 DEF C!Entry
<1>8. u.lure = lures[i].lure /\ u.brand = lures[i].brands[b] /\ u.evasion = "lookalike_domain"
  BY <1>4 DEF C!Entry
<1>9. lures[i] \in C!Lure
  BY <1>2
<1>10. C!Pool(lures[i])[e] \in Evasions
  BY PoolType, <1>3
<1>11. t.severity \in Score /\ t.severity >= 70
  BY <1>2, <1>7, <1>9, <1>10, SeverityIsKept
<1> HIDE DEF u
<1> QED
  BY <1>6, <1>7, <1>8, <1>11

=============================================================================
