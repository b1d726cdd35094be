---------------------------- MODULE AdviceProofs ----------------------------
(***************************************************************************)
(* What advice is worth: a document in doubt reaches a decision, the       *)
(* figures about a transaction are those of its past, the anomaly models   *)
(* are not judged by what they learnt from, nothing of the reference       *)
(* documents is lost, a search answers the best it may show, and what a    *)
(* language model says of a case is accepted only if the evidence says it. *)
(* For any customers, documents and similarities, any transactions and     *)
(* scores, any sources and rankings, any evidence and any model.           *)
(***************************************************************************)
EXTENDS Engines, Investigation, Filters

-----------------------------------------------------------------------------
(* Scores are numbers.                                                     *)

LEMMA NamesAreFinite ==
    ASSUME NEW c, IsFiniteSet(c.alternates)
    PROVE  IsFiniteSet(NamesOf(c)) /\ Canonical(c.name) \in NamesOf(c)
<1> DEFINE A == {a \in c.alternates : UsableName(a)}
           N == {Canonical(a) : a \in A}
           f == [a \in A |-> Canonical(a)]
<1>1. IsFiniteSet(A)
  BY FS_Subset
<1>2. f \in Surjection(A, N)
  BY DEF Surjection
<1> HIDE DEF f, A
<1>3. IsFiniteSet(N)
  BY <1>1, <1>2, FS_Surjection
<1>4. NamesOf(c) = N \cup {Canonical(c.name)}
  BY DEF NamesOf, N, A
<1> HIDE DEF N
<1>5. QED
  BY <1>3, <1>4, FS_AddElement

LEMMA NameScoreIsNumber ==
    ASSUME NEW doc \in Documents, NEW i \in DOMAIN Customers
    PROVE  NameScore(doc, Customers[i]) \in Int
<1> DEFINE M == NamesOf(Customers[i])
           V == {Similar(Canonical(doc.name), n) : n \in M}
           f == [n \in M |-> Similar(Canonical(doc.name), n)]
<1>1. IsFiniteSet(M) /\ M # {}
  BY MatcherAssumption, NamesAreFinite
<1>2. f \in Surjection(M, V)
  BY DEF Surjection
<1>3. V \in SUBSET Int
  BY InputsAssumption
<1>4. NameScore(doc, Customers[i]) = Max(V)
  BY DEF NameScore
<1>5. V # {}
  BY <1>1
<1> HIDE DEF f, M, V
<1>6. IsFiniteSet(V)
  BY <1>1, <1>2, FS_Surjection
<1>7. \E top \in V : \A v \in V : v <= top
  BY <1>3, <1>5, <1>6, GreatestExists
<1>8. \E top \in V : \A v \in V : top >= v
  BY <1>3, <1>7
<1>9. Max(V) \in V
  BY <1>8 DEF Max
<1>10. QED
  BY <1>3, <1>4, <1>9

LEMMA ScoreIsNumber ==
    ASSUME NEW doc \in Documents, NEW i \in DOMAIN Customers
    PROVE  Score(doc, Customers[i]) \in Int
<1>1. NameScore(doc, Customers[i]) \in Int
  BY NameScoreIsNumber
<1>2. \A p, q : DobScore(p, q) \in Int
  BY DEF DobScore
<1>3. \A k \in {"number", "street", "city", "country"} : \A a, b : Weighed(k, a, b) \in Int
  BY DEF Weighed, ComponentWeight
<1>4. \A a, b : AddressScore(a, b) \in Int
  BY <1>3, MatcherAssumption DEF AddressScore
<1>5. QED
  BY <1>1, <1>2, <1>4 DEF Score

-----------------------------------------------------------------------------
(* A ranking is the whole shortlist, the best scores first.                *)

Size == IF TopK < Len(Customers) THEN TopK ELSE Len(Customers)

LEMMA RankingIsWhole ==
    ASSUME NEW doc, NEW s \in Shortlists(doc), NEW ranking \in Rankings(doc, s)
    PROVE  /\ Size \in Nat \ {0} /\ s \subseteq DOMAIN Customers
           /\ ranking \in [1 .. Size -> s]
           /\ \A i \in s : \E n \in 1 .. Size : ranking[n] = i
           /\ \A m, n \in 1 .. Size :
                 m < n => /\ ranking[m] # ranking[n]
                          /\ Score(doc, Customers[ranking[m]]) >= Score(doc, Customers[ranking[n]])
<1>1. Len(Customers) \in Nat \ {0} /\ DOMAIN Customers = 1 .. Len(Customers)
  BY MatcherAssumption
<1>2. Size \in Nat \ {0}
  BY <1>1, MatcherAssumption DEF Size
<1>3. s \subseteq DOMAIN Customers /\ Cardinality(s) = Size
  BY DEF Shortlists, Size
<1>4. IsFiniteSet(s)
  BY <1>1, <1>3, CardinalityUpTo, FS_Subset
<1>5. /\ ranking \in [1 .. Size -> s]
      /\ \A m, n \in 1 .. Size :
            m < n => /\ ranking[m] # ranking[n]
                     /\ Score(doc, Customers[ranking[m]]) >= Score(doc, Customers[ranking[n]])
  BY <1>3 DEF Rankings
<1>6. \A m, n \in 1 .. Size : ranking[m] = ranking[n] => m = n
  BY <1>2, <1>5
<1>7. ranking \in Injection(1 .. Size, s)
  BY <1>5, <1>6 DEF Injection, IsInjective
<1>8. Cardinality(1 .. Size) = Size
  BY <1>2, CardinalityUpTo
<1>9. ranking \in Surjection(1 .. Size, s)
  BY <1>3, <1>4, <1>7, <1>8, FS_Injection
<1>10. QED
  BY <1>2, <1>3, <1>5, <1>9 DEF Surjection

-----------------------------------------------------------------------------
(* What analyze_kyc makes of a ranking.                                    *)

Shown == IF Size <= TopN THEN Size ELSE TopN

LEMMA ResultsAreTheFirst ==
    ASSUME Size \in Nat \ {0}, NEW s, NEW ranking \in [1 .. Size -> s]
    PROVE  /\ Shown \in 1 .. Size
           /\ DOMAIN Results(ranking) = 1 .. Shown
           /\ \A n \in 1 .. Shown : Results(ranking)[n] = ranking[n]
<1>1. TopN \in Nat \ {0}
  BY MatcherAssumption
<1>2. ranking \in Seq(s) /\ Len(ranking) = Size
  OBVIOUS
<1>3. CASE Size <= TopN
  BY <1>2, <1>3 DEF Shown, Results
<1>4. CASE ~(Size <= TopN)
  <2>1. Shown = TopN /\ TopN \in 1 .. Size
    BY <1>1, <1>4 DEF Shown
  <2>2. Results(ranking) = SubSeq(ranking, 1, TopN)
    BY <1>2, <1>4 DEF Results
  <2>3. /\ DOMAIN SubSeq(ranking, 1, TopN) = 1 .. TopN
        /\ \A n \in 1 .. TopN : SubSeq(ranking, 1, TopN)[n] = ranking[n]
    BY <1>2, <2>1
  <2>4. QED
    BY <2>1, <2>2, <2>3
<1>5. QED
  BY <1>3, <1>4

\* The own record is first or not; another result is a match or not.
LEMMA FindingTells ==
    ASSUME NEW doc \in Documents, NEW own, NEW s \in Shortlists(doc), NEW ranking \in Rankings(doc, s),
           NEW f, f = Finding(doc, own, ranking)
    PROVE  /\ NotFirst(f) <=> ranking[1] # own
           /\ f.others # {} <=> \E n \in 1 .. Shown :
                 ranking[n] # own /\ IsMatch(Score(doc, Customers[ranking[n]]))
           /\ f.dob => DobContradicts(doc.dob, Customers[own].dob)
           /\ ranking[1] = own => f.dob = DobContradicts(doc.dob, Customers[own].dob)
<1> DEFINE listing == Results(ranking)
           ranks == {i \in DOMAIN listing : listing[i] = own}
<1>1. /\ Size \in Nat \ {0} /\ ranking \in [1 .. Size -> s]
      /\ \A m, n \in 1 .. Size : m < n => ranking[m] # ranking[n]
  BY RankingIsWhole
<1>2. /\ Shown \in 1 .. Size /\ DOMAIN listing = 1 .. Shown
      /\ \A n \in 1 .. Shown : listing[n] = ranking[n]
  BY <1>1, ResultsAreTheFirst
<1>3. /\ f.rank = IF ranks = {} THEN 0 ELSE Min(ranks)
      /\ f.dob = (ranks # {} /\ DobContradicts(doc.dob, Customers[own].dob))
      /\ f.others = {listing[i] : i \in {i \in DOMAIN listing :
                        listing[i] # own /\ IsMatch(Score(doc, Customers[listing[i]]))}}
  BY DEF Finding
<1>4. ranks = {n \in 1 .. Shown : ranking[n] = own}
  BY <1>2
<1>5. 1 \in 1 .. Shown
  BY <1>1, <1>2
<1>6. f.others # {} <=> \E n \in 1 .. Shown :
         ranking[n] # own /\ IsMatch(Score(doc, Customers[ranking[n]]))
  <2>1. f.others # {} <=> \E n \in DOMAIN listing :
           listing[n] # own /\ IsMatch(Score(doc, Customers[listing[n]]))
    <3> HIDE DEF listing, ranks
    <3>1. QED
      BY <1>3
  <2> HIDE DEF listing
  <2>2. QED
    BY <1>2, <2>1
<1>7. CASE ranking[1] = own
  <2>1. ranks = {1}
    BY <1>1, <1>2, <1>4, <1>5, <1>7
  <2> HIDE DEF ranks
  <2>2. Min(ranks) = 1
    BY <2>1 DEF Min
  <2>3. ~NotFirst(f) /\ f.dob = DobContradicts(doc.dob, Customers[own].dob)
    BY <1>3, <2>1, <2>2 DEF NotFirst, DobContradicts
  <2>4. QED
    BY <1>6, <1>7, <2>3
<1>8. CASE ranking[1] # own
  <2>1. 1 \notin ranks
    BY <1>4, <1>8
  <2>2. f.rank # 1
    <3>1. CASE ranks = {}
      BY <1>3, <3>1
    <3>2. CASE ranks # {}
      <4>1. PICK n \in 1 .. Shown : ranking[n] = own
        BY <1>4, <3>2
      <4>2. ranks = {n} /\ n \in Int
        <5>1. ASSUME NEW m \in 1 .. Shown, ranking[m] = own PROVE m = n
          BY <1>1, <1>2, <4>1, <5>1
        <5>2. QED
          BY <1>1, <1>2, <1>4, <4>1, <5>1
      <4> HIDE DEF ranks
      <4>3. Min(ranks) = n
        BY <4>2 DEF Min
      <4>4. QED
        BY <1>3, <2>1, <3>2, <4>2, <4>3
    <3>3. QED
      BY <3>1, <3>2
  <2>3. QED
    BY <1>3, <1>6, <1>8, <2>2, Zenon DEF NotFirst
<1>9. QED
  BY <1>7, <1>8

LEMMA FloorTells ==
    ASSUME NEW f, f.dob \in BOOLEAN
    PROVE  LET floor == Engine_floor({Kyc_match_evidence(f, "doc")})
           IN  /\ floor \in {"REVIEW", "none"}
               /\ floor = "REVIEW" <=> f.others # {} \/ NotFirst(f) \/ f.dob
<1> DEFINE e == Kyc_match_evidence(f, "doc")
<1>1. /\ e.kind = "KYCM"
      /\ e.signs = (IF f.others # {} THEN {"others"} ELSE {})
                   \cup (IF NotFirst(f) THEN {"notFirst"} ELSE {})
                   \cup (IF f.dob THEN {"dob"} ELSE {})
  BY DEF Kyc_match_evidence
<1>2. e.signs \cap {"others", "notFirst", "dob"} # {} <=> f.others # {} \/ NotFirst(f) \/ f.dob
  BY <1>1
<1>3. "instruction" \notin e.signs
  BY <1>1
<1> HIDE DEF e
<1>4. ForcesReview(e) <=> f.others # {} \/ NotFirst(f) \/ f.dob
  BY <1>1, <1>2, <1>3 DEF ForcesReview, Suspicious
<1>5. Engine_floor({e}) = IF ForcesReview(e) THEN "REVIEW" ELSE "none"
  BY DEF Engine_floor
<1>6. QED
  BY <1>4, <1>5 DEF e

\* The scores decide.  When the own record comes first, a second match is the
\* second result, as there are two results if there are two candidates.
LEMMA DoubtIsSeen ==
    ASSUME NEW doc \in Documents, NEW own \in DOMAIN Customers,
           NEW s \in Shortlists(doc), NEW ranking \in Rankings(doc, s)
    PROVE  KycDoubtForcesReview(doc, own, s, ranking)
<1>1. PICK score : score = [i \in DOMAIN Customers |-> Score(doc, Customers[i])]
  OBVIOUS
<1>2. score \in [DOMAIN Customers -> Int]
  BY <1>1, ScoreIsNumber
<1>3. /\ Size \in Nat \ {0} /\ s \subseteq DOMAIN Customers
      /\ ranking \in [1 .. Size -> s] /\ \A i \in s : \E n \in 1 .. Size : ranking[n] = i
      /\ \A m, n \in 1 .. Size : m < n => /\ ranking[m] # ranking[n]
                                          /\ score[ranking[m]] >= score[ranking[n]]
  <2>1. /\ Size \in Nat \ {0} /\ s \subseteq DOMAIN Customers
        /\ ranking \in [1 .. Size -> s] /\ \A i \in s : \E n \in 1 .. Size : ranking[n] = i
        /\ \A m, n \in 1 .. Size :
              m < n => /\ ranking[m] # ranking[n]
                       /\ Score(doc, Customers[ranking[m]]) >= Score(doc, Customers[ranking[n]])
    BY RankingIsWhole
  <2>2. \A n \in 1 .. Size : score[ranking[n]] = Score(doc, Customers[ranking[n]])
    BY <1>1, <2>1
  <2>3. QED
    BY <2>1, <2>2
<1>4. /\ Shown \in 1 .. Size /\ (Size > 1 => Shown > 1)
  BY <1>3, MatcherAssumption DEF Shown
<1>5. PICK f : f = Finding(doc, own, ranking)
  OBVIOUS
<1>6. /\ NotFirst(f) <=> ranking[1] # own
      /\ f.others # {} <=> \E n \in 1 .. Shown : ranking[n] # own /\ score[ranking[n]] >= MatchThreshold
      /\ f.dob => DobContradicts(doc.dob, Customers[own].dob)
      /\ ranking[1] = own => f.dob = DobContradicts(doc.dob, Customers[own].dob)
  <2>1. /\ NotFirst(f) <=> ranking[1] # own
        /\ f.others # {} <=> \E n \in 1 .. Shown :
              ranking[n] # own /\ IsMatch(Score(doc, Customers[ranking[n]]))
        /\ f.dob => DobContradicts(doc.dob, Customers[own].dob)
        /\ ranking[1] = own => f.dob = DobContradicts(doc.dob, Customers[own].dob)
    BY <1>5, FindingTells
  <2>2. \A n \in 1 .. Shown : IsMatch(Score(doc, Customers[ranking[n]])) <=> score[ranking[n]] >= MatchThreshold
    BY <1>1, <1>3, <1>4 DEF IsMatch
  <2>3. QED
    BY <2>1, <2>2
<1>7. f.dob \in BOOLEAN
  BY <1>5 DEF Finding
<1> DEFINE match(i) == score[i] >= MatchThreshold
           doubt == \/ own \notin s
                    \/ DobContradicts(doc.dob, Customers[own].dob)
                    \/ \E i \in s \ {own} : match(i) \/ score[i] > score[own]
           tie == own \in s /\ \E i \in s \ {own} : score[i] = score[own]
           seen == f.others # {} \/ NotFirst(f) \/ f.dob
<1>8. 1 \in 1 .. Size /\ ranking[1] \in s
  BY <1>3
\* Whoever is ranked has at most the first one's score, and at most the
\* second one's if he is not the first.
<1>9. \A i \in s : score[i] <= score[ranking[1]]
  <2> SUFFICES ASSUME NEW i \in s PROVE score[i] <= score[ranking[1]]
    OBVIOUS
  <2>1. PICK n \in 1 .. Size : ranking[n] = i
    BY <1>3
  <2>2. n = 1 \/ 1 < n
    BY <1>3
  <2>3. score[i] \in Int /\ score[ranking[1]] \in Int
    BY <1>2, <1>3, <1>8
  <2>4. QED
    BY <1>3, <1>8, <2>1, <2>2, <2>3
<1>10. ASSUME NEW i \in s, i # ranking[1]
       PROVE  2 \in 1 .. Shown /\ ranking[2] # ranking[1] /\ score[i] <= score[ranking[2]]
  <2>1. PICK n \in 1 .. Size : ranking[n] = i
    BY <1>3
  <2>2. n # 1
    BY <1>10, <2>1
  <2>3. Size > 1 /\ (n = 2 \/ 2 < n) /\ 2 \in 1 .. Size
    BY <1>3, <2>2
  <2>4. 2 \in 1 .. Shown
    BY <1>3, <1>4, <2>3
  <2>5. ranking[2] # ranking[1]
    BY <1>3, <1>8, <2>3
  <2>6. score[i] \in Int /\ score[ranking[2]] \in Int
    BY <1>2, <1>3, <2>3
  <2>7. QED
    BY <1>3, <2>1, <2>3, <2>4, <2>5, <2>6
<1>11. doubt => seen
  <2> SUFFICES ASSUME doubt, ranking[1] = own, ~f.dob PROVE f.others # {}
    BY <1>6
  <2>1. PICK i \in s \ {own} : match(i) \/ score[i] > score[own]
    BY <1>6, <1>8
  <2>2. score[i] <= score[own] /\ score[i] \in Int /\ score[own] \in Int
    BY <1>2, <1>3, <1>9, <2>1
  <2>3. match(i)
    BY <2>1, <2>2
  <2>4. 2 \in 1 .. Shown /\ ranking[2] # own /\ score[i] <= score[ranking[2]]
    BY <1>10, <2>1
  <2>5. score[ranking[2]] \in Int
    BY <1>2, <1>3, <1>4, <2>4
  <2>6. score[ranking[2]] >= MatchThreshold
    BY <2>2, <2>3, <2>4, <2>5 DEF MatchThreshold
  <2>7. QED
    BY <1>6, <2>4, <2>6
<1>12. seen => doubt \/ tie
  <2> SUFFICES ASSUME seen, own \in s, ~f.dob PROVE doubt \/ tie
    BY <1>6
  <2>1. CASE f.others # {}
    <3>1. PICK n \in 1 .. Shown : ranking[n] # own /\ match(ranking[n])
      BY <1>6, <2>1
    <3>2. ranking[n] \in s \ {own}
      BY <1>3, <1>4, <3>1
    <3>3. QED
      BY <3>1, <3>2
  <2>2. CASE NotFirst(f)
    <3>1. ranking[1] \in s \ {own} /\ score[own] <= score[ranking[1]]
      BY <1>6, <1>8, <1>9, <2>2
    <3>2. score[own] \in Int /\ score[ranking[1]] \in Int
      BY <1>2, <1>3, <1>8
    <3>3. score[ranking[1]] > score[own] \/ score[ranking[1]] = score[own]
      BY <3>1, <3>2
    <3>4. QED
      BY <3>1, <3>3
  <2>3. QED
    BY <2>1, <2>2
<1>13. /\ doubt <=> \/ own \notin s
                    \/ DobContradicts(doc.dob, Customers[own].dob)
                    \/ \E i \in s \ {own} : \/ IsMatch(Score(doc, Customers[i]))
                                            \/ Score(doc, Customers[i]) > Score(doc, Customers[own])
       /\ tie <=> own \in s /\ \E i \in s \ {own} :
                                  Score(doc, Customers[i]) = Score(doc, Customers[own])
  BY <1>1, <1>3 DEF IsMatch
<1> HIDE DEF doubt, tie, seen
<1>14. LET floor == Engine_floor({Kyc_match_evidence(f, "doc")})
       IN  (doubt => floor = "REVIEW") /\ (floor # "none" => doubt \/ tie)
  <2>1. LET floor == Engine_floor({Kyc_match_evidence(f, "doc")})
        IN  floor \in {"REVIEW", "none"} /\ (floor = "REVIEW" <=> seen)
    BY <1>7, FloorTells DEF seen
  <2>2. QED
    BY <1>11, <1>12, <2>1
<1>15. QED
  BY <1>5, <1>13, <1>14 DEF KycDoubtForcesReview

-----------------------------------------------------------------------------
KycAsked ==
    call = "kyc" =>
        /\ asked.doc \in Documents /\ asked.own \in DOMAIN Customers
        /\ asked.shortlist \in Shortlists(asked.doc)
        /\ asked.ranking \in Rankings(asked.doc, asked.shortlist)

\* Whatever the customers, the document and the similarity of names, and in
\* whatever order equal candidates come, a document in doubt reaches no
\* decision below REVIEW, although the auditor looks at the first results
\* only (entity_matcher.py:29-79, agents/auditor/agent.py:33-71).
THEOREM DoubtIsNeverLost == EnginesSpec => []DoubtForcesReview
<1>1. EnginesInit => KycAsked
  BY DEF EnginesInit, KycAsked
<1>2. KycAsked /\ [EnginesNext]_enginesVars => KycAsked'
  <2> SUFFICES ASSUME KycAsked, [EnginesNext]_enginesVars, call' = "kyc" PROVE KycAsked'
    BY DEF KycAsked
  <2>1. CASE AnalyzeKycCall
    <3>1. PICK doc \in Documents, own \in DOMAIN Customers :
             \E s \in Shortlists(doc) : \E ranking \in Rankings(doc, s) :
                 asked' = [doc |-> doc, own |-> own, shortlist |-> s, ranking |-> ranking]
      BY <2>1 DEF AnalyzeKycCall
    <3>2. PICK s \in Shortlists(doc) : \E ranking \in Rankings(doc, s) :
             asked' = [doc |-> doc, own |-> own, shortlist |-> s, ranking |-> ranking]
      BY <3>1
    <3>3. PICK ranking \in Rankings(doc, s) :
             asked' = [doc |-> doc, own |-> own, shortlist |-> s, ranking |-> ranking]
      BY <3>2
    <3>4. /\ asked'.doc = doc /\ asked'.own = own /\ asked'.shortlist = s
          /\ asked'.ranking = ranking
      BY <3>3
    <3>5. QED
      BY <3>4 DEF KycAsked
  <2>2. CASE UNCHANGED enginesVars
    BY <2>2 DEF enginesVars, KycAsked
  <2>3. QED
    BY <2>1, <2>2 DEF EnginesNext, ReconcileCall, LookBackCall, SplitCall, ThresholdCall, TrainCall
<1>3. KycAsked => DoubtForcesReview
  BY DoubtIsSeen DEF KycAsked, DoubtForcesReview
<1>4. QED
  BY <1>1, <1>2, <1>3, PTL DEF EnginesSpec

-----------------------------------------------------------------------------
(* Which rows are learnt from and which are judged by.                     *)

LEMMA QuantilesAscend ==
    ASSUME NEW n \in Nat \ {0}, NEW times \in [1 .. n -> Int],
           \A i, j \in 1 .. n : i < j => times[i] <= times[j],
           NEW a \in 0 .. 9, NEW b \in 0 .. 9, a <= b
    PROVE  /\ Quantile(times, a) \in Int /\ Quantile(times, b) \in Int
           /\ Quantile(times, a) <= Quantile(times, b)
<1> DEFINE slope(k) == IF k = n THEN 0 ELSE times[k + 1] - times[k]
           p == a * (n - 1)
           q == b * (n - 1)
           k == 1 + p \div 10
           l == 1 + q \div 10
           r == p % 10
           s == q % 10
<1>1. Len(times) = n
  OBVIOUS
<1>2. Quantile(times, a) = 10 * times[k] + r * slope(k) /\ Quantile(times, b) = 10 * times[l] + s * slope(l)
  BY <1>1 DEF Quantile
<1>3. /\ p \in Nat /\ q \in Nat /\ p <= q /\ q <= 9 * (n - 1)
  <2>1. \A m \in Nat, c \in 0 .. 9 : c * m \in Nat /\ c * m <= 9 * m
    OBVIOUS
  <2>2. \A m \in Nat, c, d \in 0 .. 9 : c <= d => c * m <= d * m
    OBVIOUS
  <2>3. n - 1 \in Nat
    OBVIOUS
  <2>4. p \in Nat /\ q \in Nat
    BY <2>1, <2>3
  <2>5. p <= q
    BY <2>2, <2>3
  <2>6. q <= 9 * (n - 1)
    BY <2>1, <2>3
  <2>7. QED
    BY <2>4, <2>5, <2>6
<1> HIDE DEF p, q
<1>4. /\ k \in 1 .. n /\ l \in 1 .. n /\ r \in 0 .. 9 /\ s \in 0 .. 9
      /\ k < l \/ (k = l /\ r <= s)
  BY <1>3
<1>5. \A i \in 1 .. n : times[i] \in Int /\ slope(i) \in Nat
  OBVIOUS
<1>6. \A c, m \in Nat : c * m \in Nat
  OBVIOUS
<1>7. times[k] \in Int /\ times[l] \in Int /\ slope(k) \in Nat /\ slope(l) \in Nat
  BY <1>4, <1>5
<1>8. CASE k = l /\ r <= s
  <2>1. slope(k) = slope(l) /\ times[k] = times[l]
    BY <1>8
  <2> HIDE DEF k, l, r, s, slope
  <2>2. r * slope(k) <= s * slope(k)
    <3>1. \A c, d, m \in Nat : c <= d => c * m <= d * m
      OBVIOUS
    <3>2. r \in Nat /\ s \in Nat /\ r <= s
      BY <1>4, <1>8
    <3>3. QED
      BY <1>7, <3>1, <3>2
  <2>3. r * slope(k) \in Nat /\ s * slope(l) \in Nat
    <3>1. r \in Nat /\ s \in Nat
      BY <1>4
    <3>2. QED
      BY ONLY <1>6, <1>7, <3>1
  <2>4. r * slope(k) <= s * slope(l) /\ r * slope(k) \in Int /\ s * slope(l) \in Int
    BY <2>1, <2>2, <2>3
  <2>5. times[k] \in Int /\ times[k] = times[l]
    BY <1>7, <2>1
  <2>6. \A x, u, w \in Int : u <= w => /\ 10 * x + u \in Int /\ 10 * x + w \in Int
                                      /\ 10 * x + u <= 10 * x + w
    OBVIOUS
  <2>7. /\ 10 * times[k] + r * slope(k) \in Int /\ 10 * times[k] + s * slope(l) \in Int
        /\ 10 * times[k] + r * slope(k) <= 10 * times[k] + s * slope(l)
    BY ONLY <2>4, <2>5, <2>6
  <2>8. QED
    BY ONLY <1>2, <2>5, <2>7
<1>9. CASE k < l
  <2>1. slope(k) = times[k + 1] - times[k] /\ k + 1 \in 1 .. n
    BY <1>4, <1>9
  <2>2. times[k + 1] <= times[l] /\ times[k + 1] \in Int
    BY <1>4, <1>9, <2>1
  <2> HIDE DEF k, l, r, s, slope
  <2>3. r * slope(k) \in Nat /\ r * slope(k) <= 10 * slope(k)
    <3>1. \A m \in Nat, c \in 0 .. 9 : c * m \in Nat /\ c * m <= 10 * m
      OBVIOUS
    <3>2. QED
      BY <1>4, <1>7, <3>1
  <2>4. s * slope(l) \in Nat
    BY <1>4, <1>6, <1>7
  <2>5. \A x, y, z \in Int, u, w \in Nat : u <= 10 * (y - x) /\ y <= z => 10 * x + u <= 10 * z + w
    OBVIOUS
  <2>6. 10 * times[k] + r * slope(k) <= 10 * times[l] + s * slope(l)
    BY <1>7, <2>1, <2>2, <2>3, <2>4, <2>5
  <2>7. 10 * times[k] + r * slope(k) \in Int /\ 10 * times[l] + s * slope(l) \in Int
    <3>1. \A x, y \in Int : 10 * x + y \in Int
      OBVIOUS
    <3>2. r * slope(k) \in Int /\ s * slope(l) \in Int
      BY <2>3, <2>4
    <3>3. QED
      BY <1>7, <3>1, <3>2
  <2>8. QED
    BY <1>2, <2>6, <2>7, Zenon
<1>10. QED
  BY <1>4, <1>8, <1>9

LEMMA SplitsAreSound ==
    ASSUME NEW n \in Nat \ {0}, NEW times \in [1 .. n -> Int],
           \A i, j \in 1 .. n : i < j => times[i] <= times[j], NEW episodes
    PROVE  SplitIsSound(times, episodes)
<1> DEFINE b1 == Quantile(times, TrainTenths)
           b2 == Quantile(times, TrainTenths + ValTenths)
           purged == Purged(times, episodes, b1, b2)
           keep == DOMAIN times \ purged
           s == Split(times, episodes)
           parts == <<s.train, s.val, s.test>>
           kept == s.train \cup s.val \cup s.test
<1>1. b1 \in Int /\ b2 \in Int /\ b1 <= b2
  <2>1. TrainTenths \in 0 .. 9 /\ TrainTenths + ValTenths \in 0 .. 9 /\ TrainTenths <= TrainTenths + ValTenths
    BY FitAssumption
  <2>2. QED
    BY <2>1, QuantilesAscend
<1>2. /\ s.train = {i \in keep : 10 * times[i] < b1}
      /\ s.val = {i \in keep : b1 <= 10 * times[i] /\ 10 * times[i] < b2}
      /\ s.test = {i \in keep : b2 <= 10 * times[i]}
      /\ s.until = b1
  BY DEF Split
<1>3. \A i \in DOMAIN times : times[i] \in Int
  OBVIOUS
<1>4. ASSUME NEW i \in keep, NEW j \in keep, episodes[i] = episodes[j], episodes[i] # ""
      PROVE  /\ ~Straddles(times[i], times[j], b1) /\ ~Straddles(times[i], times[j], b2)
  BY <1>4 DEF Purged
<1>5. ASSUME NEW i \in purged
      PROVE  episodes[i] # ""
  BY <1>5 DEF Purged
<1> HIDE DEF b1, b2, purged, s
<1>6. kept = keep
  BY <1>1, <1>2, <1>3
<1>7. \A i \in keep : /\ i \in parts[1] <=> 10 * times[i] < b1
                      /\ i \in parts[2] <=> b1 <= 10 * times[i] /\ 10 * times[i] < b2
                      /\ i \in parts[3] <=> b2 <= 10 * times[i]
  BY <1>2
<1>8. \A p \in 1 .. 3 : parts[p] \subseteq keep
  BY <1>2
<1> HIDE DEF kept, keep, parts
<1>9. \A i \in keep : times[i] \in Int
  BY <1>3 DEF keep
<1>10. ASSUME NEW p \in 1 .. 3, NEW q \in 1 .. 3, p < q, NEW i \in parts[p], NEW j \in parts[q]
       PROVE  times[i] < times[j]
  <2>1. i \in keep /\ j \in keep /\ times[i] \in Int /\ times[j] \in Int
    BY <1>8, <1>9
  <2>2. CASE p = 1 /\ q \in {2, 3}
    <3>1. 10 * times[i] < b1 /\ (b1 <= 10 * times[j] \/ b2 <= 10 * times[j])
      BY <1>7, <2>1, <2>2
    <3>2. QED
      BY ONLY <1>1, <2>1, <3>1
  <2>3. CASE p = 2 /\ q = 3
    <3>1. 10 * times[i] < b2 /\ b2 <= 10 * times[j]
      BY <1>7, <2>1, <2>3
    <3>2. QED
      BY ONLY <1>1, <2>1, <3>1
  <2>4. (p = 1 /\ q \in {2, 3}) \/ (p = 2 /\ q = 3)
    BY <1>10
  <2>5. QED
    BY <2>2, <2>3, <2>4
<1>11. ASSUME NEW i \in keep, NEW j \in keep, episodes[i] = episodes[j], episodes[i] # "", NEW p \in 1 .. 3
       PROVE  i \in parts[p] <=> j \in parts[p]
  <2>1. /\ ~Straddles(times[i], times[j], b1) /\ ~Straddles(times[i], times[j], b2)
        /\ ~Straddles(times[j], times[i], b1) /\ ~Straddles(times[j], times[i], b2)
    BY <1>4, <1>11
  <2>2. times[i] \in Int /\ times[j] \in Int
    BY <1>9
  <2>3. /\ 10 * times[i] < b1 <=> 10 * times[j] < b1
        /\ 10 * times[i] < b2 <=> 10 * times[j] < b2
    BY <1>1, <2>1, <2>2 DEF Straddles
  <2>4. /\ b1 <= 10 * times[i] <=> b1 <= 10 * times[j]
        /\ b2 <= 10 * times[i] <=> b2 <= 10 * times[j]
    <3>1. \A x, b \in Int : b <= x <=> ~(x < b)
      OBVIOUS
    <3>2. 10 * times[i] \in Int /\ 10 * times[j] \in Int
      BY ONLY <2>2
    <3>3. QED
      BY ONLY <1>1, <2>3, <3>1, <3>2
  <2>5. CASE p = 1
    BY <1>7, <2>3, <2>5
  <2>6. CASE p = 2
    BY <1>7, <2>3, <2>4, <2>6
  <2>7. CASE p = 3
    BY <1>7, <2>4, <2>7
  <2>8. QED
    BY <2>5, <2>6, <2>7
<1>12. \A i \in DOMAIN times \ kept : episodes[i] # ""
  BY <1>5, <1>6 DEF keep
<1>13. \A i \in kept : InTrainingPeriod(s, times[i]) <=> i \in s.train
  BY <1>2, <1>6 DEF InTrainingPeriod
<1>14. QED
  BY <1>6, <1>10, <1>11, <1>12, <1>13, Zenon DEF SplitIsSound, s, kept, parts

-----------------------------------------------------------------------------
(* The threshold that flags best.                                          *)

Fraction == [num : Nat, den : Nat \ {0}]

LEMMA LessIsAnOrder ==
    ASSUME NEW f \in Fraction, NEW g \in Fraction, NEW h \in Fraction
    PROVE  /\ ~Less(f, f)
           /\ Less(f, g) /\ Less(g, h) => Less(f, h)
<1> DEFINE a == f.num
           b == f.den
           c == g.num
           d == g.den
           e == h.num
           k == h.den
<1>1. a \in Nat /\ c \in Nat /\ e \in Nat /\ b \in Nat \ {0} /\ d \in Nat \ {0} /\ k \in Nat \ {0}
  BY DEF Fraction
<1> HIDE DEF a, b, c, d, e, k
<1>2. a * d < c * b /\ c * k < e * d => a * k < e * b
  <2> SUFFICES ASSUME a * d < c * b, c * k < e * d PROVE a * k < e * b
    OBVIOUS
  <2>1. \A x, y \in Nat, z \in Nat \ {0} : x < y => x * z < y * z
    OBVIOUS
  <2>2. \A x, y \in Nat : x * y \in Nat
    OBVIOUS
  <2>3. (a * d) * k < (c * b) * k /\ (c * k) * b < (e * d) * b
    BY <1>1, <2>1, <2>2
  <2>4. (a * d) * k = (a * k) * d /\ (c * b) * k = (c * k) * b /\ (e * d) * b = (e * b) * d
    BY <1>1
  <2>5. (a * k) * d < (e * b) * d
    <3>1. (a * d) * k \in Nat /\ (c * b) * k \in Nat /\ (e * d) * b \in Nat
      BY <1>1, <2>2
    <3>2. QED
      BY <2>3, <2>4, <3>1
  <2>6. \A x, y \in Nat, z \in Nat \ {0} : x * z < y * z => x < y
    OBVIOUS
  <2>7. QED
    BY <1>1, <2>2, <2>5, <2>6
<1>3. ~(a * b < a * b)
  BY <1>1
<1>4. QED
  BY <1>2, <1>3 DEF Less, a, b, c, d, e, k

\* Of finitely many fractions one is beaten by none: the one that beats most.
LEMMA BestExists ==
    ASSUME NEW S, IsFiniteSet(S), S # {}, NEW F \in [S -> Fraction]
    PROVE  \E t \in S : \A u \in S : ~Less(F[t], F[u])
<1> DEFINE below(t) == {u \in S : Less(F[u], F[t])}
           key == [t \in S |-> Cardinality(below(t))]
           V == {key[t] : t \in S}
<1>1. \A t \in S : IsFiniteSet(below(t)) /\ Cardinality(below(t)) \in Nat
  BY FS_Subset, FS_CardinalityType
<1>2. V \in SUBSET Int /\ V # {}
  <2>1. \A t \in S : key[t] \in Int
    BY <1>1
  <2> HIDE DEF key
  <2>2. QED
    BY <2>1
<1>3. IsFiniteSet(V)
  <2>1. key \in Surjection(S, V)
    BY DEF Surjection
  <2>2. QED
    BY <2>1, FS_Surjection
<1>4. PICK t \in S : \A v \in V : v <= key[t]
  <2> HIDE DEF V
  <2>1. \E v \in V : \A w \in V : w <= v
    BY <1>2, <1>3, GreatestExists
  <2>2. QED
    BY <2>1 DEF V
<1>5. ASSUME NEW u \in S, Less(F[t], F[u])
      PROVE  FALSE
  <2>1. below(t) \subseteq below(u)
    <3> SUFFICES ASSUME NEW w \in below(t) PROVE w \in below(u)
      OBVIOUS
    <3>1. w \in S /\ Less(F[w], F[t])
      OBVIOUS
    <3>2. Less(F[w], F[u])
      BY <1>5, <3>1, LessIsAnOrder
    <3>3. QED
      BY <3>1, <3>2
  <2>2. t \in below(u) /\ t \notin below(t)
    BY <1>5, LessIsAnOrder
  <2>3. key[u] <= key[t] /\ key[t] = Cardinality(below(t)) /\ key[u] = Cardinality(below(u))
    BY <1>4
  <2> HIDE DEF below, key
  <2>4. /\ Cardinality(below(t)) <= Cardinality(below(u))
        /\ Cardinality(below(t)) = Cardinality(below(u)) => below(t) = below(u)
    BY <1>1, <2>1, FS_Subset
  <2>5. QED
    BY <1>1, <2>2, <2>3, <2>4
<1>6. QED
  BY <1>5

LEMMA LeastExists ==
    ASSUME NEW S \in SUBSET Int, IsFiniteSet(S), S # {}
    PROVE  Min(S) \in S /\ \A m \in S : Min(S) <= m
<1> DEFINE N == {-m : m \in S}
           f == [m \in S |-> -m]
<1>1. f \in Surjection(S, N)
  BY DEF Surjection
<1>2. N \in SUBSET Int /\ N # {}
  OBVIOUS
<1> HIDE DEF N, f
<1>3. IsFiniteSet(N)
  BY <1>1, FS_Surjection
<1>4. PICK top \in N : \A m \in N : m <= top
  BY <1>2, <1>3, GreatestExists
<1>5. \E least \in S : \A m \in S : least <= m
  <2>1. PICK least \in S : top = -least
    BY DEF N
  <2>2. \A m \in S : -m <= -least
    BY <1>4, <2>1 DEF N
  <2>3. \A m \in S : least <= m
    BY <2>2
  <2>4. QED
    BY <2>3
<1>6. QED
  BY <1>5 DEF Min

LEMMA F1IsAFraction ==
    ASSUME NEW n \in Nat, NEW truths \in [1 .. n -> {0, 1}], NEW points \in [1 .. n -> Nat],
           \E i \in 1 .. n : truths[i] = 1, NEW t
    PROVE  /\ F1(truths, points, t) \in Fraction
           /\ (\A i \in 1 .. n : ~Flagged(points[i], t)) => F1(truths, points, t).num = 0
<1> DEFINE those(label, flagged) == {i \in 1 .. n : truths[i] = label /\ Flagged(points[i], t) = flagged}
           tp == Cardinality(those(1, TRUE))
           fp == Cardinality(those(0, TRUE))
           fn == Cardinality(those(1, FALSE))
<1>1. F1(truths, points, t) = [num |-> 2 * tp, den |-> 2 * tp + fp + fn]
  BY DEF F1, Count
<1>2. \A label, flagged : /\ IsFiniteSet(those(label, flagged)) /\ Cardinality(those(label, flagged)) \in Nat
                          /\ Cardinality(those(label, flagged)) = 0 <=> those(label, flagged) = {}
  <2> SUFFICES ASSUME NEW label, NEW flagged
               PROVE  /\ IsFiniteSet(those(label, flagged)) /\ Cardinality(those(label, flagged)) \in Nat
                      /\ Cardinality(those(label, flagged)) = 0 <=> those(label, flagged) = {}
    OBVIOUS
  <2>1. IsFiniteSet(1 .. n) /\ those(label, flagged) \subseteq 1 .. n
    BY CardinalityUpTo
  <2> HIDE DEF those
  <2>2. IsFiniteSet(those(label, flagged))
    BY <2>1, FS_Subset
  <2>3. QED
    BY <2>2, FS_CardinalityType, FS_EmptySet
<1>3. those(1, TRUE) # {} \/ those(1, FALSE) # {}
  <2>1. PICK i \in 1 .. n : truths[i] = 1
    OBVIOUS
  <2>2. Flagged(points[i], t) = TRUE \/ Flagged(points[i], t) = FALSE
    BY DEF Flagged
  <2>3. QED
    BY <2>1, <2>2
<1>4. (\A i \in 1 .. n : ~Flagged(points[i], t)) => those(1, TRUE) = {}
  OBVIOUS
<1> HIDE DEF those
<1>5. tp \in Nat /\ fp \in Nat /\ fn \in Nat /\ tp + fn # 0
  <2>1. tp \in Nat /\ fp \in Nat /\ fn \in Nat
    BY <1>2
  <2>2. tp # 0 \/ fn # 0
    BY <1>2, <1>3
  <2> HIDE DEF tp, fp, fn
  <2>3. QED
    BY <2>1, <2>2
<1>6. (\A i \in 1 .. n : ~Flagged(points[i], t)) => tp = 0
  BY <1>2, <1>4
<1> HIDE DEF tp, fp, fn
<1>7. 2 * tp \in Nat /\ 2 * tp + fp + fn \in Nat \ {0}
  BY <1>5
<1>8. QED
  BY <1>1, <1>6, <1>7 DEF Fraction

\* A threshold flags what the least score that reaches it flags.
LEMMA ThresholdsAreBest ==
    ASSUME NEW n \in Nat \ {0}, NEW truths \in [1 .. n -> {0, 1}], NEW points \in [1 .. n -> Nat]
    PROVE  ThresholdIsBest(truths, points)
<1> SUFFICES ASSUME \E i \in 1 .. n : truths[i] = 1
             PROVE  \A t \in 0 .. Max({points[i] : i \in DOMAIN points}) + 1 :
                       ~Less(F1(truths, points, F1OptimalThreshold(truths, points)), F1(truths, points, t))
  BY DEF ThresholdIsBest
<1> DEFINE S == {points[i] : i \in DOMAIN points}
           f(t) == F1(truths, points, t)
           F == [t \in S |-> f(t)]
           M == {t \in S : \A j \in DOMAIN points : ~Less(f(t), f(points[j]))}
           best == F1OptimalThreshold(truths, points)
<1>1. \A t : f(t) \in Fraction
  BY F1IsAFraction
<1>2. IsFiniteSet(S) /\ S # {} /\ S \in SUBSET Nat
  <2>1. points \in Surjection(1 .. n, S) /\ S # {} /\ S \in SUBSET Nat
    BY DEF Surjection
  <2>2. QED
    BY <2>1, CardinalityUpTo, FS_Surjection
<1>3. best \in M
  <2>1. \E t \in S : \A u \in S : ~Less(F[t], F[u])
    <3>1. F \in [S -> Fraction]
      BY <1>1
    <3> HIDE DEF S, F
    <3>2. QED
      BY <1>2, <3>1, BestExists
  <2>2. M # {}
    BY <2>1
  <2>3. M \in SUBSET Int /\ IsFiniteSet(M)
    BY <1>2, FS_Subset
  <2>4. best = Min(M)
    BY DEF F1OptimalThreshold
  <2> HIDE DEF M, best
  <2>5. QED
    BY <2>2, <2>3, <2>4, LeastExists
<1>4. best \in S /\ \A u \in S : ~Less(f(best), f(u))
  BY <1>3
<1>5. Max(S) \in Int
  <2>1. S \in SUBSET Int
    BY <1>2
  <2> HIDE DEF S
  <2>2. \E top \in S : \A m \in S : top >= m
    <3>1. \E top \in S : \A m \in S : m <= top
      BY <1>2, <2>1, GreatestExists
    <3>2. QED
      BY <2>1, <3>1
  <2>3. Max(S) \in S
    BY <2>2 DEF Max
  <2>4. QED
    BY <2>1, <2>3
<1> HIDE DEF best
<1>6. ASSUME NEW t \in Int
      PROVE  ~Less(f(best), f(t))
  <2> DEFINE A == {s \in S : s >= t}
  <2>1. CASE A = {}
    <3>1. \A i \in 1 .. n : ~Flagged(points[i], t)
      BY <2>1 DEF Flagged
    <3>2. f(t).num = 0
      BY <3>1, F1IsAFraction
    <3>3. f(best).num \in Nat /\ f(best).den \in Nat /\ f(t).den \in Nat
      BY <1>1 DEF Fraction
    <3> HIDE DEF f
    <3>4. \A x, y \in Nat : ~(x * y < 0 * y)
      OBVIOUS
    <3>5. f(best).num * f(t).den \in Nat /\ 0 * f(best).den = 0
      <4>1. \A x, y \in Nat : x * y \in Nat /\ 0 * y = 0
        OBVIOUS
      <4>2. QED
        BY <3>3, <4>1
    <3>6. QED
      BY <3>2, <3>5 DEF Less
  <2>2. CASE A # {}
    <3> DEFINE u == Min(A)
    <3>1. A \in SUBSET Int /\ IsFiniteSet(A)
      BY <1>2, FS_Subset
    <3>2. u \in A /\ \A s \in A : u <= s
      <4> HIDE DEF A
      <4>1. QED
        BY <2>2, <3>1, LeastExists
    <3> HIDE DEF u
    <3>3. u \in S /\ u >= t /\ u \in Int
      BY <1>2, <3>2
    <3>4. \A i \in DOMAIN truths : Flagged(points[i], t) = Flagged(points[i], u)
      <4> SUFFICES ASSUME NEW i \in 1 .. n PROVE Flagged(points[i], t) <=> Flagged(points[i], u)
        BY DEF Flagged
      <4>1. points[i] \in S /\ points[i] \in Int
        OBVIOUS
      <4>2. points[i] >= t => u <= points[i]
        BY <3>2, <4>1
      <4>3. QED
        BY <3>3, <4>1, <4>2 DEF Flagged
    <3>5. \A label, flagged : Count(truths, points, t, label, flagged) = Count(truths, points, u, label, flagged)
      BY <3>4 DEF Count
    <3>6. f(t) = f(u)
      BY <3>5 DEF F1
    <3>7. QED
      BY <1>4, <3>3, <3>6
  <2>3. QED
    BY <2>1, <2>2
<1>7. QED
  BY <1>5, <1>6 DEF best

-----------------------------------------------------------------------------
(* The epochs.                                                             *)

Runs == [best : Int, kept : Nat, stale : Nat]

\* What is kept is what the best epoch so far brought.
BestSoFar(aps, run) ==
    /\ run.kept \in 1 .. Len(aps) /\ run.best = aps[run.kept]
    /\ \A e \in 1 .. Len(aps) : aps[e] <= aps[run.kept] + Tolerance
    /\ run.stale = Len(aps) - run.kept /\ run.stale <= Patience

Training ==
    call = "train" => asked \in Seq(Nat) /\ answer \in Runs /\ BestSoFar(asked, answer)

LEMMA EpochKeepsTheBest ==
    ASSUME NEW aps \in Seq(Nat), NEW run \in Runs, NEW ap \in Nat, run.stale < Patience,
           NEW after, after = Epoch(run, Len(aps) + 1, ap), NEW grown, grown = Append(aps, ap),
           (aps = <<>> /\ run = Start) \/ BestSoFar(aps, run)
    PROVE  grown \in Seq(Nat) /\ after \in Runs /\ BestSoFar(grown, after)
<1> DEFINE n == Len(aps) + 1
<1>1. /\ grown \in Seq(Nat) /\ Len(grown) = n /\ grown[n] = ap /\ n \in Nat \ {0}
      /\ \A e \in 1 .. n - 1 : grown[e] = aps[e] /\ grown[e] \in Nat
  OBVIOUS
<1>2. Tolerance \in Nat /\ Patience \in Nat \ {0}
  BY FitAssumption
<1>3. run = Start => ap > run.best + Tolerance
  BY <1>2 DEF Start
<1>4. CASE ap > run.best + Tolerance
  <2>1. after = [best |-> ap, kept |-> n, stale |-> 0]
    BY <1>4 DEF Epoch
  <2>2. after \in Runs /\ after.best = ap /\ after.kept = n /\ after.stale = 0
    <3> HIDE DEF n
    <3>1. QED
      BY ONLY <1>1, <2>1, ap \in Nat DEF Runs
  <2>3. ASSUME NEW e \in 1 .. n
        PROVE  grown[e] <= ap + Tolerance
    <3>1. CASE e = n
      BY <1>1, <1>2, <3>1
    <3>2. CASE e # n
      <4>1. e \in 1 .. Len(aps) /\ grown[e] = aps[e] /\ aps[e] \in Nat
        BY <1>1, <3>2
      <4>2. aps[e] <= run.best + Tolerance /\ run.best \in Int
        BY <4>1 DEF Runs, BestSoFar
      <4>3. QED
        BY <1>2, <1>4, <4>1, <4>2
    <3>3. QED
      BY <3>1, <3>2
  <2>4. QED
    BY <1>1, <1>2, <2>2, <2>3 DEF BestSoFar
<1>5. CASE ~(ap > run.best + Tolerance)
  <2>1. /\ run.kept \in 1 .. Len(aps) /\ run.best = aps[run.kept]
        /\ \A e \in 1 .. Len(aps) : aps[e] <= aps[run.kept] + Tolerance
        /\ run.stale = Len(aps) - run.kept
    BY <1>3, <1>5 DEF BestSoFar
  <2>2. after = [run EXCEPT !.stale = @ + 1]
    BY <1>5 DEF Epoch
  <2>3. run \in Runs /\ run.stale \in Nat /\ run.best \in Int
    BY DEF Runs
  <2>4. after \in Runs /\ after.best = run.best /\ after.kept = run.kept /\ after.stale = run.stale + 1
    <3>1. PICK c \in Int, d \in Nat, e \in Nat : run = [best |-> c, kept |-> d, stale |-> e]
      BY ONLY <2>3 DEF Runs
    <3>2. after = [best |-> c, kept |-> d, stale |-> e + 1]
      BY ONLY <2>2, <3>1
    <3>3. QED
      BY ONLY <3>1, <3>2 DEF Runs
  <2>5. after.kept \in 1 .. n /\ grown[after.kept] = run.best
    BY <1>1, <2>1, <2>4
  <2>6. ASSUME NEW e \in 1 .. n
        PROVE  grown[e] <= run.best + Tolerance
    <3>1. CASE e = n
      BY <1>1, <1>2, <1>5, <2>3, <3>1
    <3>2. CASE e # n
      <4>1. e \in 1 .. Len(aps) /\ grown[e] = aps[e]
        BY <1>1, <3>2
      <4>2. QED
        BY <2>1, <4>1
    <3>3. QED
      BY <3>1, <3>2
  <2>7. after.stale = n - after.kept /\ after.stale <= Patience
    <3>1. Len(aps) \in Nat /\ run.kept \in Nat /\ run.stale = Len(aps) - run.kept /\ run.stale < Patience
      BY <2>1
    <3>2. QED
      BY ONLY <1>2, <2>3, <2>4, <3>1
  <2>8. QED
    BY <1>1, <2>4, <2>5, <2>6, <2>7 DEF BestSoFar
<1>6. QED
  BY <1>4, <1>5

-----------------------------------------------------------------------------
Started == call = "none" => asked = <<>>

FittingAsked ==
    /\ call = "split" =>
          /\ asked.times \in [1 .. FitLen -> Int]
          /\ \A i, j \in 1 .. FitLen : i < j => asked.times[i] <= asked.times[j]
    /\ call = "threshold" =>
          \E n \in Nat \ {0} : asked.labels \in [1 .. n -> {0, 1}] /\ asked.scores \in [1 .. n -> Nat]

LEMMA FittingKept ==
    Started /\ FittingAsked /\ Training /\ [EnginesNext]_enginesVars => (Started /\ FittingAsked /\ Training)'
<1> SUFFICES ASSUME Started, FittingAsked, Training, [EnginesNext]_enginesVars
             PROVE  (Started /\ FittingAsked /\ Training)'
  OBVIOUS
<1>1. CASE SplitCall
  <2>1. PICK times \in [1 .. FitLen -> Times], episodes \in [1 .. FitLen -> EpisodeIds] :
           /\ \A i, j \in 1 .. FitLen : i < j => times[i] <= times[j]
           /\ asked' = [times |-> times, episodes |-> episodes]
    BY <1>1, Zenon DEF SplitCall
  <2>2. call' = "split" /\ asked'.times = times /\ times \in [1 .. FitLen -> Int]
    BY <1>1, <2>1, RowsAssumption DEF SplitCall
  <2>3. QED
    BY <2>1, <2>2 DEF Started, FittingAsked, Training
<1>2. CASE ThresholdCall
  <2>1. PICK n \in 1 .. FitLen : \E truths \in [1 .. n -> {0, 1}], points \in [1 .. n -> Scores] :
           asked' = [labels |-> truths, scores |-> points]
    BY <1>2, Zenon DEF ThresholdCall
  <2>2. PICK truths \in [1 .. n -> {0, 1}], points \in [1 .. n -> Scores] :
           asked' = [labels |-> truths, scores |-> points]
    BY <2>1
  <2>3. n \in Nat \ {0} /\ points \in [1 .. n -> Nat] /\ asked'.labels = truths /\ asked'.scores = points
    <3>1. n \in Nat \ {0} /\ asked'.labels = truths /\ asked'.scores = points
      BY <2>2, RowsAssumption
    <3>2. points \in [1 .. n -> Nat]
      BY RowsAssumption
    <3>3. QED
      BY <3>1, <3>2
  <2>4. call' = "threshold"
    BY <1>2 DEF ThresholdCall
  <2>5. QED
    BY <2>3, <2>4 DEF Started, FittingAsked, Training
<1>3. CASE TrainCall
  <2> DEFINE run == IF call = "none" THEN Start ELSE answer
  <2>1. /\ call \in {"none", "train"} /\ call' = "train" /\ run.stale < Patience
        /\ \E ap \in Scores : asked' = Append(asked, ap) /\ answer' = Epoch(run, Len(asked) + 1, ap)
    BY <1>3 DEF TrainCall
  <2>2. PICK ap \in Scores : asked' = Append(asked, ap) /\ answer' = Epoch(run, Len(asked) + 1, ap)
    BY <2>1
  <2>3. /\ asked \in Seq(Nat) /\ run \in Runs
        /\ (asked = <<>> /\ run = Start) \/ BestSoFar(asked, run)
    <3>1. CASE call = "none"
      BY <3>1, FitAssumption DEF Started, Start, Runs
    <3>2. CASE call = "train"
      BY <3>2 DEF Training
    <3>3. QED
      BY <2>1, <3>1, <3>2
  <2>4. ap \in Nat
    BY RowsAssumption
  <2> HIDE DEF run
  <2>5. Training'
    <3>1. PICK after, grown : /\ after = answer' /\ grown = asked'
                           /\ after = Epoch(run, Len(asked) + 1, ap) /\ grown = Append(asked, ap)
      BY <2>2
    <3>2. grown \in Seq(Nat) /\ after \in Runs /\ BestSoFar(grown, after)
      BY <2>1, <2>3, <2>4, <3>1, EpochKeepsTheBest
    <3>3. QED
      BY <3>1, <3>2 DEF Training, Runs, BestSoFar
  <2>6. QED
    BY <2>1, <2>5 DEF Started, FittingAsked
<1>4. CASE ReconcileCall \/ AnalyzeKycCall \/ LookBackCall
  <2>1. call' \in {"reconciliation", "kyc", "behaviour"}
    BY <1>4 DEF ReconcileCall, AnalyzeKycCall, LookBackCall
  <2>2. QED
    BY <2>1 DEF Started, FittingAsked, Training
<1>5. CASE UNCHANGED enginesVars
  BY <1>5 DEF Started, FittingAsked, Training, enginesVars
<1>6. QED
  BY <1>1, <1>2, <1>3, <1>4, <1>5 DEF EnginesNext

LEMMA FittedIsSound ==
    ASSUME FittingAsked, Training
    PROVE  FittingIsSound
<1>1. ASSUME call = "split" PROVE SplitIsSound(asked.times, asked.episodes)
  <2>1. /\ asked.times \in [1 .. FitLen -> Int] /\ FitLen \in Nat \ {0}
        /\ \A i, j \in 1 .. FitLen : i < j => asked.times[i] <= asked.times[j]
    BY <1>1, RowsAssumption DEF FittingAsked
  <2>2. QED
    BY <2>1, SplitsAreSound
<1>2. ASSUME call = "threshold" PROVE ThresholdIsBest(asked.labels, asked.scores)
  BY <1>2, ThresholdsAreBest DEF FittingAsked
<1>3. ASSUME call = "train" PROVE KeepsTheBestEpoch(asked, answer)
  <2>1. DOMAIN asked = 1 .. Len(asked) /\ Len(asked) \in Nat
    BY <1>3 DEF Training
  <2>2. answer.kept \in Int /\ Len(asked) \in Int /\ Patience \in Int
    BY <1>3, FitAssumption DEF Training, Runs
  <2>3. QED
    BY <1>3, <2>1, <2>2 DEF Training, BestSoFar, KeepsTheBestEpoch
<1>4. QED
  BY <1>1, <1>2, <1>3 DEF FittingIsSound

\* However the rows of a data set lie in time and whatever the models score:
\* no row and no episode is both learnt from and judged by, no threshold at
\* all flags better than the one chosen, and training keeps the best epoch
\* (splits.py:25-56, metrics/anomaly.py, neural/common.py).
THEOREM FittingIsAlwaysSound == EnginesSpec => []FittingIsSound
<1>1. EnginesInit => Started /\ FittingAsked /\ Training
  BY DEF EnginesInit, Started, FittingAsked, Training
<1>2. QED
  BY <1>1, FittingKept, FittedIsSound, PTL DEF EnginesSpec

-----------------------------------------------------------------------------
(* The rows so far.                                                        *)

LEMMA TopExists ==
    ASSUME NEW S \in SUBSET Int, IsFiniteSet(S), S # {}
    PROVE  Max(S) \in S /\ \A m \in S : m <= Max(S)
<1>1. \E n \in S : \A m \in S : m <= n
  BY GreatestExists
<1>2. \E n \in S : \A m \in S : n >= m
  BY <1>1
<1>3. Max(S) \in S /\ \A m \in S : Max(S) >= m
  BY <1>2 DEF Max
<1>4. QED
  BY <1>3

Row == [cust : {r.cust : r \in NewRows}, time : Times, amount : Int,
        outgoing : {r.outgoing : r \in NewRows},
        sender : {r.sender : r \in NewRows}, receiver : {r.receiver : r \in NewRows},
        sender_country : {r.sender_country : r \in NewRows},
        receiver_country : {r.receiver_country : r \in NewRows}]

InOrderOfTime(all) ==
    all \in Seq(Row) /\ \A i, j \in DOMAIN all : i <= j => all[i].time <= all[j].time

LEMMA RowsOf ==
    ASSUME NEW all, InOrderOfTime(all)
    PROVE  /\ Len(all) \in Nat /\ DOMAIN all = 1 .. Len(all)
           /\ \A i \in 1 .. Len(all) : all[i].time \in Times /\ all[i].time \in Int /\ all[i].amount \in Int
           /\ \A i, j \in 1 .. Len(all) : i <= j => all[i].time <= all[j].time
<1>1. Len(all) \in Nat /\ DOMAIN all = 1 .. Len(all)
  BY DEF InOrderOfTime
<1>2. \A i \in 1 .. Len(all) : all[i] \in Row
  BY <1>1 DEF InOrderOfTime
<1>3. \A r \in Row : r.time \in Times /\ r.amount \in Int
  BY DEF Row
<1>4. QED
  BY <1>1, <1>2, <1>3, RowsAssumption DEF InOrderOfTime

-----------------------------------------------------------------------------
(* Sorting.                                                                *)

CodeOf(all) == [i \in 1 .. Len(all) |-> Code(all, all[i].cust)]

LEMMA CodesTell ==
    ASSUME NEW all, InOrderOfTime(all)
    PROVE  /\ CodeOf(all) \in [1 .. Len(all) -> 1 .. Len(all)]
           /\ \A i, j \in 1 .. Len(all) : CodeOf(all)[i] = CodeOf(all)[j] <=> all[i].cust = all[j].cust
<1> DEFINE n == Len(all)
           mine(c) == {j \in DOMAIN all : all[j].cust = c}
<1>1. n \in Nat /\ DOMAIN all = 1 .. n
  BY RowsOf
<1>2. ASSUME NEW i \in 1 .. n
      PROVE  Code(all, all[i].cust) \in 1 .. n /\ all[Code(all, all[i].cust)].cust = all[i].cust
  <2> DEFINE S == mine(all[i].cust)
  <2>1. S \subseteq 1 .. n /\ i \in S
    BY <1>1
  <2>2. IsFiniteSet(S)
    BY <1>1, <2>1, CardinalityUpTo, FS_Subset
  <2>3. Code(all, all[i].cust) = Min(S)
    BY DEF Code
  <2>4. S \in SUBSET Int /\ S # {}
    BY <2>1
  <2> HIDE DEF S
  <2>5. Min(S) \in S
    BY <2>2, <2>4, LeastExists
  <2>6. QED
    BY <2>1, <2>3, <2>5 DEF S
<1>3. QED
  BY <1>1, <1>2 DEF CodeOf

\* The earlier rows are in the order of the keys already.
LEMMA SortsByCode ==
    ASSUME NEW all, InOrderOfTime(all), NEW i \in 1 .. Len(all), NEW j \in 1 .. Len(all)
    PROVE  SortsBefore(all, i, j) <=>
              CodeOf(all)[i] < CodeOf(all)[j] \/ (CodeOf(all)[i] = CodeOf(all)[j] /\ i < j)
<1>1. /\ Len(all) \in Nat
      /\ \A k \in 1 .. Len(all) : all[k].time \in Int
      /\ \A k, l \in 1 .. Len(all) : k <= l => all[k].time <= all[l].time
  BY RowsOf
<1>2. CodeOf(all)[i] = Code(all, all[i].cust) /\ CodeOf(all)[j] = Code(all, all[j].cust)
  BY DEF CodeOf
<1>3. i \in Int /\ j \in Int
  BY <1>1
<1>4. i < j => all[i].time <= all[j].time
  BY <1>1, <1>3
<1>5. all[i].time < all[j].time => i < j
  BY <1>1, <1>3
<1>6. all[i].time \in Int /\ all[j].time \in Int
  BY <1>1
<1>7. QED
  BY <1>2, <1>3, <1>4, <1>5, <1>6 DEF SortsBefore

\* at[p] stands at place p, place[i] is where i stands.
Sorted(all, at, place) ==
    /\ at \in [1 .. Len(all) -> 1 .. Len(all)] /\ place \in [1 .. Len(all) -> 1 .. Len(all)]
    /\ \A i \in 1 .. Len(all) : at[place[i]] = i
    /\ \A p \in 1 .. Len(all) : place[at[p]] = p
    /\ \A i, j \in 1 .. Len(all) : place[i] < place[j] <=> SortsBefore(all, i, j)

LEMMA PlaceIsRank ==
    ASSUME NEW all, InOrderOfTime(all), NEW i \in 1 .. Len(all)
    PROVE  Place(all)[i] = Rank(1 .. Len(all), CodeOf(all), i)
<1> DEFINE n == Len(all)
           A == {j \in DOMAIN all : SortsBefore(all, j, i)}
           B == NoLater(1 .. n, CodeOf(all), i)
<1>1. n \in Nat /\ DOMAIN all = 1 .. n
  BY RowsOf
<1>2. \A j \in 1 .. n : SortsBefore(all, j, i) <=>
          CodeOf(all)[j] < CodeOf(all)[i] \/ (CodeOf(all)[j] = CodeOf(all)[i] /\ j < i)
  BY SortsByCode
<1>3. CodeOf(all) \in [1 .. n -> 1 .. n]
  BY CodesTell
<1>4. \A j \in 1 .. n : CodeOf(all)[j] \in Int
  BY <1>3
<1>5. B = A \cup {i} /\ i \notin A
  <2>1. \A j \in 1 .. n : j \in B <=> j \in A \/ j = i
    BY <1>1, <1>2, <1>4 DEF NoLater
  <2>2. i \notin A
    BY <1>1, <1>2, <1>4
  <2>3. QED
    BY <1>1, <2>1, <2>2 DEF NoLater
<1>6. IsFiniteSet(A)
  BY <1>1, CardinalityUpTo, FS_Subset
<1>7. Place(all)[i] = 1 + Cardinality(A)
  BY <1>1 DEF Place
<1> HIDE DEF A, B
<1>8. Cardinality(B) = Cardinality(A) + 1 /\ Cardinality(A) \in Nat
  BY <1>5, <1>6, FS_AddElement, FS_CardinalityType
<1>9. QED
  BY <1>7, <1>8 DEF Rank, B

LEMMA AtIsSorted ==
    ASSUME NEW all, InOrderOfTime(all)
    PROVE  Sorted(all, At(all), Place(all))
<1> DEFINE n == Len(all)
           I == 1 .. n
           key == CodeOf(all)
           at == At(all)
           place == Place(all)
<1>1. n \in Nat /\ DOMAIN all = I
  BY RowsOf
<1>2. I \in SUBSET Int /\ IsFiniteSet(I) /\ Cardinality(I) = n /\ key \in [I -> Int]
  BY <1>1, CardinalityUpTo, CodesTell
<1> HIDE DEF I, key, at, place
<1>3. \A i \in I : place[i] = Rank(I, key, i) /\ place[i] \in I
  BY <1>2, PlaceIsRank, RankType DEF I, key, place
<1>4. place \in [I -> I]
  BY <1>1, <1>3 DEF place, Place
<1>5. \A i, j \in I : SortsBefore(all, i, j) <=> key[i] < key[j] \/ (key[i] = key[j] /\ i < j)
  BY SortsByCode DEF I, key
<1>6. \A i, j \in I : SortsBefore(all, i, j) => place[i] < place[j]
  BY <1>2, <1>3, <1>5, RankIsStrict
<1>7. \A i, j \in I : i # j => SortsBefore(all, i, j) \/ SortsBefore(all, j, i)
  BY <1>2, <1>5
<1>8. \A i, j \in I : place[i] < place[j] <=> SortsBefore(all, i, j)
  <2>1. \A i \in I : place[i] \in Int
    BY <1>2, <1>4
  <2>2. QED
    BY <1>6, <1>7, <2>1
<1>9. \A i, j \in I : place[i] = place[j] => i = j
  <2>1. \A i \in I : place[i] \in Int
    BY <1>2, <1>4
  <2>2. QED
    BY <1>6, <1>7, <2>1
<1>10. \A p \in I : \E i \in I : place[i] = p
  <2> TAKE p \in I
  <2>1. p \in 1 .. Cardinality(I)
    BY <1>2 DEF I
  <2>2. Nth(I, key, p) \in I /\ Rank(I, key, Nth(I, key, p)) = p
    BY <1>2, <2>1, EveryPlaceIsTaken
  <2>3. QED
    BY <1>3, <2>2
<1>11. \A p \in I : at[p] = CHOOSE i \in I : place[i] = p
  BY <1>1 DEF at, At, place
<1>12. \A p \in I : at[p] \in I /\ place[at[p]] = p
  BY <1>10, <1>11
<1>13. at \in [I -> I]
  <2>1. at = [p \in I |-> CHOOSE i \in I : place[i] = p]
    BY <1>1 DEF at, At, place
  <2>2. QED
    BY <1>12, <2>1
<1>14. \A i \in I : at[place[i]] = i
  BY <1>4, <1>9, <1>12
<1>15. QED
  BY <1>4, <1>8, <1>12, <1>13, <1>14 DEF Sorted, I, at, place

-----------------------------------------------------------------------------
(* Places and rows.                                                        *)

\* The places from a to before p hold the rows S.
Holds(all, a, p, S) ==
    /\ p \in 1 .. Len(all) /\ a \in 1 .. p /\ S \subseteq 1 .. Len(all)
    /\ \A q \in 1 .. Len(all) : q \in a .. p - 1 <=> At(all)[q] \in S

Amounts(all) == [j \in DOMAIN all |-> all[j].amount]

LEMMA HoldsCounts ==
    ASSUME NEW all, InOrderOfTime(all), NEW a, NEW p, NEW S, Holds(all, a, p, S)
    PROVE  /\ S = {At(all)[q] : q \in a .. p - 1}
           /\ IsFiniteSet(S) /\ Cardinality(S) = p - a
           /\ Running(all, At(all), p) - Running(all, At(all), a) = SumFunctionOnSet(Amounts(all), S)
<1> DEFINE n == Len(all)
           at == At(all)
           P == a .. p - 1
<1>1. n \in Nat /\ DOMAIN all = 1 .. n /\ \A i \in 1 .. n : all[i].amount \in Int
  BY RowsOf
<1>2. Sorted(all, at, Place(all))
  BY AtIsSorted
<1> HIDE DEF at
<1>3. /\ at \in [1 .. n -> 1 .. n] /\ Place(all) \in [1 .. n -> 1 .. n]
      /\ \A i \in 1 .. n : at[Place(all)[i]] = i
      /\ \A q \in 1 .. n : Place(all)[at[q]] = q
  BY <1>2 DEF Sorted
<1>4. /\ p \in 1 .. n /\ a \in 1 .. p /\ S \subseteq 1 .. n
      /\ \A q \in 1 .. n : q \in P <=> at[q] \in S
  BY DEF Holds, at
<1>5. P \subseteq 1 .. n /\ p \in Int /\ a \in Int
  BY <1>1, <1>4
<1>6. S = {at[q] : q \in P}
  <2>1. \A i \in S : i = at[Place(all)[i]] /\ Place(all)[i] \in 1 .. n
    BY <1>3, <1>4
  <2>2. \A i \in S : Place(all)[i] \in P
    BY <1>4, <2>1
  <2> HIDE DEF P
  <2>3. S \subseteq {at[q] : q \in P}
    BY <2>1, <2>2
  <2>4. {at[q] : q \in P} \subseteq S
    BY <1>4, <1>5
  <2>5. QED
    BY <2>3, <2>4
<1>7. \A q, r \in P : at[q] = at[r] => q = r
  BY <1>3, <1>5
<1>8. IsFiniteSet(P) /\ Cardinality(P) = p - a
  <2>1. a <= p /\ p - 1 \in Int
    BY <1>4, <1>5
  <2>2. IsFiniteSet(P) /\ Cardinality(P) = IF a > p - 1 THEN 0 ELSE (p - 1) - a + 1
    BY <1>5, <2>1, FS_Interval
  <2>3. QED
    BY <1>5, <2>1, <2>2
<1>9. IsFiniteSet(S) /\ Cardinality(S) = p - a
  <2> DEFINE f == [q \in P |-> at[q]]
  <2> HIDE DEF P
  <2>1. f \in Bijection(P, S)
    BY <1>6, <1>7 DEF Bijection, Injection, Surjection, IsInjective
  <2> HIDE DEF f
  <2>2. QED
    BY <1>8, <2>1, FS_Bijection DEF ExistsBijection
<1>10. Running(all, at, p) - Running(all, at, a) = SumFunctionOnSet(Amounts(all), S)
  <2> DEFINE g == [q \in DOMAIN all |-> all[at[q]].amount]
             A == 1 .. a - 1
  <2>1. \A q \in 1 .. n : g[q] \in Int /\ g[q] = Amounts(all)[at[q]]
    BY <1>1, <1>3 DEF Amounts
  <2>2. A \cap P = {} /\ A \cup P = 1 .. p - 1 /\ A \subseteq 1 .. n
    BY <1>1, <1>4
  <2>3. IsFiniteSet(A)
    BY <1>5, FS_Interval
  <2>4. Running(all, at, p) = SumFunctionOnSet(g, 1 .. p - 1) /\ Running(all, at, a) = SumFunctionOnSet(g, A)
    BY DEF Running
  <2> HIDE DEF g, A, P
  <2>5. Numbers(g, A) /\ Numbers(g, P) /\ Numbers(g, A \cup P)
    BY <1>5, <2>1, <2>2 DEF Numbers
  <2>6. SumFunctionOnSet(g, A \cup P) = SumFunctionOnSet(g, A) + SumFunctionOnSet(g, P)
    BY <1>8, <2>2, <2>3, <2>5, SumsUp
  <2>7. SumFunctionOnSet(g, A) \in Int /\ SumFunctionOnSet(g, P) \in Int
    BY <1>8, <2>3, <2>5, SumType
  <2>8. \A q \in P : g[q] \in Int /\ g[q] = Amounts(all)[at[q]]
    BY <1>5, <2>1
  <2>9. SumFunctionOnSet(g, P) = SumFunctionOnSet(Amounts(all), {at[q] : q \in P})
    BY <1>7, <1>8, <2>8, SumRenames
  <2>a. SumFunctionOnSet(g, 1 .. p - 1) = SumFunctionOnSet(g, A \cup P)
    BY <2>2
  <2> DEFINE whole == SumFunctionOnSet(g, A \cup P)
             first == SumFunctionOnSet(g, A)
             last == SumFunctionOnSet(g, P)
  <2>b. whole = first + last /\ first \in Int /\ last \in Int
    BY <2>6, <2>7
  <2>c. Running(all, at, p) = whole /\ Running(all, at, a) = first
    BY <2>4, <2>a
  <2> HIDE DEF whole, first, last
  <2>d. Running(all, at, p) - Running(all, at, a) = last
    BY <2>b, <2>c
  <2>10. Running(all, at, p) - Running(all, at, a) = SumFunctionOnSet(g, P)
    BY <2>d DEF last
  <2>11. QED
    BY <1>6, <2>9, <2>10
<1>11. QED
  BY <1>6, <1>9, <1>10 DEF at

\* A customer's places are next to each other, in the order of the rows.
LEMMA GroupHoldsPrior ==
    ASSUME NEW all, InOrderOfTime(all), NEW i \in 1 .. Len(all)
    PROVE  Holds(all, GroupStart(all, At(all), Place(all)[i]), Place(all)[i], PriorRows(all, i))
<1> DEFINE n == Len(all)
           at == At(all)
           place == Place(all)
           code == CodeOf(all)
           p == place[i]
           S == {q \in 1 .. p : all[at[q]].cust = all[at[p]].cust}
           start == GroupStart(all, at, p)
<1>1. n \in Nat /\ DOMAIN all = 1 .. n
  BY RowsOf
<1> HIDE DEF at, place, code
<1>2. Sorted(all, at, place)
  BY AtIsSorted DEF at, place
<1>3. /\ at \in [1 .. n -> 1 .. n] /\ place \in [1 .. n -> 1 .. n]
      /\ \A j \in 1 .. n : at[place[j]] = j
      /\ \A q \in 1 .. n : place[at[q]] = q
      /\ \A j, k \in 1 .. n : place[j] < place[k] <=> SortsBefore(all, j, k)
  BY <1>2 DEF Sorted
<1>4. \A j, k \in 1 .. n : SortsBefore(all, j, k) <=> code[j] < code[k] \/ (code[j] = code[k] /\ j < k)
  BY SortsByCode DEF code
<1>5. /\ \A j \in 1 .. n : code[j] \in Int
      /\ \A j, k \in 1 .. n : code[j] = code[k] <=> all[j].cust = all[k].cust
  BY <1>1, CodesTell DEF code
<1>6. p \in 1 .. n /\ at[p] = i /\ p \in Int
  BY <1>1, <1>3
<1> HIDE DEF p
<1>7. start \in 1 .. p /\ all[at[start]].cust = all[i].cust
      /\ \A q \in 1 .. p : all[at[q]].cust = all[i].cust => start <= q
  <2>1. S \subseteq 1 .. p /\ p \in S
    BY <1>6
  <2>2. IsFiniteSet(S)
    BY <1>6, <2>1, CardinalityUpTo, FS_Subset
  <2>3. start = Min(S)
    BY DEF GroupStart
  <2>4. S \in SUBSET Int /\ S # {}
    BY <2>1
  <2> HIDE DEF S, start
  <2>5. start \in S /\ \A q \in S : start <= q
    BY <2>2, <2>3, <2>4, LeastExists
  <2>6. QED
    BY <1>6, <2>1, <2>5 DEF S
<1> HIDE DEF start
<1>8. ASSUME NEW q \in 1 .. n
      PROVE  q \in start .. p - 1 <=> at[q] \in PriorRows(all, i)
  <2> DEFINE j == at[q]
             s == at[start]
  <2>a. start \in 1 .. n
    BY <1>1, <1>6, <1>7
  <2>1. j \in 1 .. n /\ s \in 1 .. n /\ place[j] = q /\ place[s] = start /\ place[i] = p /\ i \in 1 .. n
    BY <1>3, <2>a DEF p
  <2> HIDE DEF j, s
  <2>2. (q < p <=> SortsBefore(all, j, i)) /\ (q < start <=> SortsBefore(all, j, s))
    BY <1>3, <2>1
  <2>3. code[j] \in Int /\ code[i] \in Int /\ code[s] \in Int /\ code[s] = code[i] /\ j \in Int /\ i \in Int /\ s \in Int
    BY <1>1, <1>5, <1>7, <2>1 DEF s
  <2>4. ASSUME q \in start .. p - 1
        PROVE  j \in PriorRows(all, i)
    <3>1. ~(q < start) /\ q < p
      BY <1>6, <1>7, <2>4
    <3>2. code[j] = code[i] /\ j < i
      BY <1>4, <2>1, <2>2, <2>3, <3>1
    <3>3. all[j].cust = all[i].cust /\ j \in 1 .. i - 1
      BY <1>1, <1>5, <2>1, <2>3, <3>2
    <3>4. QED
      BY <3>3 DEF PriorRows
  <2>5. ASSUME j \in PriorRows(all, i)
        PROVE  q \in start .. p - 1
    <3>1. all[j].cust = all[i].cust /\ j < i
      BY <2>5, <2>3 DEF PriorRows
    <3>2. code[j] = code[i]
      BY <1>5, <2>1, <3>1
    <3>3. q < p
      BY <1>4, <2>1, <2>2, <3>1, <3>2
    <3>4. q \in 1 .. p /\ all[at[q]].cust = all[i].cust
      BY <1>6, <3>1, <3>3 DEF j
    <3>5. start <= q
      BY <1>7, <3>4
    <3>6. QED
      BY <1>6, <1>7, <3>3, <3>5
  <2>6. QED
    BY <2>4, <2>5 DEF j
<1>9. PriorRows(all, i) \subseteq 1 .. n
  BY <1>1 DEF PriorRows
<1>10. QED
  BY <1>6, <1>7, <1>8, <1>9 DEF Holds, at, place, p, start

-----------------------------------------------------------------------------
(* Windows.                                                                *)

LEMMA WithoutGaps ==
    ASSUME NEW n \in Nat, NEW B \in SUBSET (1 .. n),
           \A q \in B, r \in 1 .. n : r <= q => r \in B
    PROVE  Cardinality(B) \in 0 .. n /\ B = 1 .. Cardinality(B)
<1>1. IsFiniteSet(B)
  BY CardinalityUpTo, FS_Subset
<1>2. CASE B = {}
  <2>1. Cardinality(B) = 0
    BY <1>2, FS_EmptySet
  <2>2. QED
    BY <1>2, <2>1
<1>3. CASE B # {}
  <2>1. B \in SUBSET Int
    OBVIOUS
  <2>2. PICK top \in B : \A q \in B : q <= top
    BY <1>1, <1>3, <2>1, GreatestExists
  <2>a. top \in 1 .. n /\ \A q \in B : q \in 1 .. n
    OBVIOUS
  <2>b. \A r \in 1 .. top : r \in 1 .. n /\ r <= top
    BY <2>a
  <2>c. \A q \in B : q \in 1 .. top
    BY <2>2, <2>a
  <2>3. B = 1 .. top /\ top \in 1 .. n
    BY <2>a, <2>b, <2>c
  <2>4. Cardinality(B) = top
    BY <2>3, CardinalityUpTo
  <2>5. QED
    BY <2>3, <2>4
<1>4. QED
  BY <1>2, <1>3

Keys(all) == [q \in DOMAIN all |-> SortKey(all, At(all)[q])]
Within(all, i, w) == {j \in PriorRows(all, i) : all[i].time - all[j].time <= w}

\* A key with a window below it reaches no row of another customer.
LEMMA KeysAreApart ==
    ASSUME NEW w \in Windows, NEW s \in Times, NEW t \in Times,
           NEW a \in Nat, NEW b \in Nat, a < b
    PROVE  a * KeyShift + s < b * KeyShift + t - w
<1>1. s - t + w < KeyShift /\ KeyShift \in Nat /\ w \in Nat /\ s \in Int /\ t \in Int
  BY KeysAssumption, BehaviourAssumption, RowsAssumption
<1>2. b * KeyShift = (b - a - 1) * KeyShift + a * KeyShift + KeyShift
  BY <1>1
<1>3. (b - a - 1) * KeyShift >= 0
  <2>1. b - a - 1 \in Nat
    OBVIOUS
  <2>2. QED
    BY <1>1, <2>1
<1> DEFINE x == (b - a - 1) * KeyShift
           y == a * KeyShift
           z == b * KeyShift
<1>4. x \in Int /\ y \in Int /\ z \in Int /\ z = x + y + KeyShift /\ x >= 0
  BY <1>1, <1>2, <1>3
<1> HIDE DEF x, y, z
<1>5. y + s < z + t - w
  BY <1>1, <1>4
<1>6. QED
  BY <1>5 DEF y, z

LEMMA KeysOfRows ==
    ASSUME NEW all, InOrderOfTime(all), NEW w \in Windows,
           NEW i \in 1 .. Len(all), NEW j \in 1 .. Len(all), SortsBefore(all, j, i)
    PROVE  /\ SortKey(all, i) \in Int /\ SortKey(all, j) \in Int
           /\ SortKey(all, j) <= SortKey(all, i)
           /\ SortKey(all, j) >= SortKey(all, i) - w <=> j \in Within(all, i, w)
<1> DEFINE n == Len(all)
           a == CodeOf(all)[j]
           b == CodeOf(all)[i]
           s == all[j].time
           t == all[i].time
<1>1. n \in Nat /\ s \in Times /\ t \in Times /\ s \in Int /\ t \in Int
      /\ \A k, l \in 1 .. n : k <= l => all[k].time <= all[l].time
  BY RowsOf
<1>2. a \in Nat /\ b \in Nat /\ (a = b <=> all[j].cust = all[i].cust)
  <2>1. CodeOf(all) \in [1 .. n -> 1 .. n]
    BY CodesTell
  <2>2. a = b <=> all[j].cust = all[i].cust
    BY CodesTell
  <2>3. CodeOf(all)[j] \in 1 .. n /\ CodeOf(all)[i] \in 1 .. n
    BY <2>1
  <2> HIDE DEF n
  <2>4. a \in 1 .. n /\ b \in 1 .. n
    BY <2>3
  <2> HIDE DEF a, b
  <2>5. a \in Nat /\ b \in Nat
    BY <2>4
  <2>6. QED
    BY <2>2, <2>5
<1>3. SortKey(all, i) = b * KeyShift + t /\ SortKey(all, j) = a * KeyShift + s
  <2>1. a = Code(all, all[j].cust) /\ b = Code(all, all[i].cust)
    BY DEF CodeOf
  <2> HIDE DEF a, b
  <2>2. QED
    BY <2>1 DEF SortKey
<1>4. a < b \/ (a = b /\ j < i)
  BY SortsByCode
<1>5. i \in Int /\ j \in Int /\ w \in Nat /\ KeyShift \in Nat
  BY <1>1, BehaviourAssumption
<1>6. j \in Within(all, i, w) <=> a = b /\ j < i /\ t - s <= w
  BY <1>1, <1>2, <1>5 DEF Within, PriorRows
<1>10. j < i => s <= t
  BY <1>1, <1>5
<1> HIDE DEF a, b, s, t
<1>7. a * KeyShift \in Int /\ b * KeyShift \in Int
  BY <1>2, <1>5
<1>8. CASE a < b
  <2> DEFINE x == a * KeyShift
             y == b * KeyShift
  <2>1. x + s < y + t - w
    BY <1>1, <1>2, <1>8, KeysAreApart
  <2>2. /\ SortKey(all, i) = y + t /\ SortKey(all, j) = x + s
        /\ x \in Int /\ y \in Int
    BY <1>3, <1>7
  <2> HIDE DEF x, y
  <2>3. s \in Int /\ t \in Int /\ w \in Nat /\ x \in Int /\ y \in Int
    BY <1>1, <1>5, <2>2
  <2>4. x + s <= y + t /\ ~(x + s >= y + t - w) /\ x + s \in Int /\ y + t \in Int
    BY ONLY <2>1, <2>3
  <2>5. j \notin Within(all, i, w)
    BY <1>2, <1>6, <1>8
  <2>6. /\ SortKey(all, i) \in Int /\ SortKey(all, j) \in Int
        /\ SortKey(all, j) <= SortKey(all, i)
    BY ONLY <2>2, <2>4
  <2>7. ~(SortKey(all, j) >= SortKey(all, i) - w)
    BY ONLY <2>2, <2>3, <2>4
  <2>8. QED
    BY <2>5, <2>6, <2>7
<1>9. CASE a = b /\ j < i
  <2>1. s <= t
    BY <1>9, <1>10
  <2>2. QED
    BY <1>1, <1>3, <1>5, <1>6, <1>7, <1>9, <2>1
<1>11. QED
  BY <1>4, <1>8, <1>9

LEMMA WindowHolds ==
    ASSUME NEW all, InOrderOfTime(all), NEW i \in 1 .. Len(all), NEW w \in Windows
    PROVE  Holds(all, SearchLeft(Keys(all), Keys(all)[Place(all)[i]] - w), Place(all)[i], Within(all, i, w))
<1> DEFINE n == Len(all)
           at == At(all)
           place == Place(all)
           p == place[i]
           keys == Keys(all)
           B == {q \in DOMAIN keys : keys[q] < keys[p] - w}
           left == SearchLeft(keys, keys[p] - w)
<1>1. n \in Nat /\ DOMAIN all = 1 .. n /\ w \in Nat
  BY RowsOf, BehaviourAssumption
<1> HIDE DEF at, place
<1>2. Sorted(all, at, place)
  BY AtIsSorted DEF at, place
<1>3. /\ at \in [1 .. n -> 1 .. n] /\ place \in [1 .. n -> 1 .. n]
      /\ \A j \in 1 .. n : at[place[j]] = j
      /\ \A q \in 1 .. n : place[at[q]] = q
      /\ \A j, k \in 1 .. n : place[j] < place[k] <=> SortsBefore(all, j, k)
  BY <1>2 DEF Sorted
<1>4. p \in 1 .. n /\ at[p] = i
  BY <1>3
<1> HIDE DEF p
<1>5. DOMAIN keys = 1 .. n /\ \A q \in 1 .. n : keys[q] = SortKey(all, at[q])
  BY <1>1 DEF Keys, at
<1> HIDE DEF keys
<1>6. ASSUME NEW q \in 1 .. n, NEW r \in 1 .. n, q < r
      PROVE  /\ keys[q] \in Int /\ keys[r] \in Int /\ keys[q] <= keys[r]
             /\ keys[q] >= keys[r] - w <=> at[q] \in Within(all, at[r], w)
  <2>1. at[q] \in 1 .. n /\ at[r] \in 1 .. n /\ SortsBefore(all, at[q], at[r])
    BY <1>3, <1>6
  <2>2. QED
    BY <1>5, <2>1, KeysOfRows
<1>7. \A q \in 1 .. n : keys[q] \in Int
  <2> SUFFICES ASSUME NEW q \in 1 .. n PROVE keys[q] \in Int
    OBVIOUS
  <2>1. at[q] \in 1 .. n /\ CodeOf(all)[at[q]] \in Nat /\ all[at[q]].time \in Int /\ KeyShift \in Nat
    <3>1. at[q] \in 1 .. n
      BY <1>3
    <3>2. CodeOf(all) \in [1 .. n -> 1 .. n]
      BY CodesTell
    <3>3. all[at[q]].time \in Int
      BY <3>1, RowsOf
    <3>4. QED
      BY <1>1, <3>1, <3>2, <3>3, BehaviourAssumption
  <2>2. keys[q] = CodeOf(all)[at[q]] * KeyShift + all[at[q]].time
    BY <1>5, <2>1 DEF SortKey, CodeOf
  <2>3. QED
    BY <2>1, <2>2
<1>8. B \in SUBSET (1 .. n) /\ p \notin B
  BY <1>1, <1>4, <1>5, <1>7
<1>9. \A q \in B, r \in 1 .. n : r <= q => r \in B
  <2> SUFFICES ASSUME NEW q \in B, NEW r \in 1 .. n, r <= q PROVE r \in B
    OBVIOUS
  <2>1. q \in 1 .. n /\ keys[q] < keys[p] - w
    BY <1>5
  <2>2. r = q \/ keys[r] <= keys[q]
    BY <1>1, <1>6, <2>1
  <2>3. keys[r] \in Int /\ keys[q] \in Int /\ keys[p] \in Int
    BY <1>4, <1>7, <2>1
  <2>4. keys[r] < keys[p] - w
    BY <1>1, <2>1, <2>2, <2>3
  <2>5. QED
    BY <1>5, <2>4
<1>10. left = 1 + Cardinality(B)
  BY DEF SearchLeft
<1>11. \A q \in 1 .. n : q \in B <=> keys[q] < keys[p] - w
  BY <1>5
<1> HIDE DEF B, left
<1>12. Cardinality(B) \in 0 .. n /\ B = 1 .. Cardinality(B)
  BY <1>1, <1>8, <1>9, WithoutGaps
<1>13. left \in 1 .. p /\ \A q \in 1 .. n : q \in B <=> q < left
  BY <1>1, <1>4, <1>8, <1>10, <1>12
<1>14. ASSUME NEW q \in 1 .. n
       PROVE  q \in left .. p - 1 <=> at[q] \in Within(all, i, w)
  <2>1. CASE q < p
    <3>1. keys[q] \in Int /\ keys[p] \in Int /\ (keys[q] >= keys[p] - w <=> at[q] \in Within(all, i, w))
      BY <1>4, <1>6, <2>1
    <3>2. keys[q] >= keys[p] - w <=> ~(keys[q] < keys[p] - w)
      BY <1>1, <3>1
    <3>3. q \in left .. p - 1 <=> ~(q < left)
      BY <1>1, <1>4, <1>13, <2>1
    <3>4. QED
      BY <1>11, <1>13, <3>1, <3>2, <3>3
  <2>2. CASE ~(q < p)
    <3>1. q \notin left .. p - 1
      BY <1>1, <1>4, <1>13, <2>2
    <3>2. at[q] \notin PriorRows(all, i)
      <4>1. q \notin GroupStart(all, At(all), Place(all)[i]) .. p - 1
        <5>1. Holds(all, GroupStart(all, At(all), Place(all)[i]), Place(all)[i], PriorRows(all, i))
          BY GroupHoldsPrior
        <5>2. GroupStart(all, At(all), Place(all)[i]) \in Int
          BY <1>1, <5>1 DEF Holds
        <5>3. QED
          BY <1>1, <1>4, <2>2, <5>2
      <4>2. QED
        BY <4>1, GroupHoldsPrior DEF Holds, at, place, p
    <3>3. QED
      BY <3>1, <3>2 DEF Within
  <2>3. QED
    BY <2>1, <2>2
<1>15. Within(all, i, w) \subseteq 1 .. n
  BY <1>1 DEF Within, PriorRows
<1>16. QED
  BY <1>4, <1>13, <1>14, <1>15 DEF Holds, at, place, p, left, keys

-----------------------------------------------------------------------------
(* The other figures.                                                      *)

\* Of the places before its own a row's customer has the prior rows.
LEMMA PriorPlaces ==
    ASSUME NEW all, InOrderOfTime(all), NEW i \in 1 .. Len(all), NEW q \in 1 .. Len(all)
    PROVE  At(all)[q] \in PriorRows(all, i) <=>
              q < Place(all)[i] /\ all[At(all)[q]].cust = all[i].cust
<1> DEFINE n == Len(all)
           j == At(all)[q]
<1>1. n \in Nat
  BY RowsOf
<1>2. /\ At(all) \in [1 .. n -> 1 .. n] /\ Place(all)[j] = q
      /\ \A k, l \in 1 .. n : Place(all)[k] < Place(all)[l] <=> SortsBefore(all, k, l)
  BY AtIsSorted DEF Sorted
<1>3. j \in 1 .. n
  BY <1>2
<1> HIDE DEF j
<1>4. q < Place(all)[i] <=> SortsBefore(all, j, i)
  BY <1>2, <1>3
<1>5. SortsBefore(all, j, i) <=>
              CodeOf(all)[j] < CodeOf(all)[i] \/ (CodeOf(all)[j] = CodeOf(all)[i] /\ j < i)
  BY <1>3, SortsByCode
<1>6. CodeOf(all)[j] = CodeOf(all)[i] <=> all[j].cust = all[i].cust
  BY <1>3, CodesTell
<1>7. CodeOf(all)[j] \in Int /\ CodeOf(all)[i] \in Int
  BY <1>1, <1>3, CodesTell
<1>8. j \in PriorRows(all, i) <=> j < i /\ all[j].cust = all[i].cust
  BY <1>1, <1>3 DEF PriorRows
<1>9. QED
  BY <1>4, <1>5, <1>6, <1>7, <1>8 DEF j

LEMMA SameIsCounted ==
    ASSUME NEW all, InOrderOfTime(all), NEW i \in 1 .. Len(all), NEW f,
           \A j \in 1 .. Len(all) : f[j] = f[i] => all[j].cust = all[i].cust
    PROVE  LET same == {j \in PriorRows(all, i) : f[j] = f[i]}
           IN  /\ SameEarlier([q \in DOMAIN all |-> f[At(all)[q]]], Place(all)[i]) = Cardinality(same)
               /\ IsFiniteSet(same)
<1> DEFINE n == Len(all)
           at == At(all)
           p == Place(all)[i]
           keys == [q \in DOMAIN all |-> f[at[q]]]
           P == {q \in 1 .. p - 1 : keys[q] = keys[p]}
           S == {j \in PriorRows(all, i) : f[j] = f[i]}
<1>1. n \in Nat /\ DOMAIN all = 1 .. n
  BY RowsOf
<1>2. /\ at \in [1 .. n -> 1 .. n] /\ Place(all) \in [1 .. n -> 1 .. n]
      /\ \A j \in 1 .. n : at[Place(all)[j]] = j
      /\ \A q \in 1 .. n : Place(all)[at[q]] = q
  BY AtIsSorted DEF Sorted
<1>3. p \in 1 .. n /\ at[p] = i
  BY <1>2
<1>4. \A q \in 1 .. n : at[q] \in PriorRows(all, i) <=> q < p /\ all[at[q]].cust = all[i].cust
  BY PriorPlaces
<1> HIDE DEF at, p
<1>5. \A q \in 1 .. n : keys[q] = f[at[q]]
  BY <1>1
<1>6. SameEarlier(keys, p) = Cardinality(P)
  BY DEF SameEarlier
<1> HIDE DEF keys
<1>7. \A q \in 1 .. n : q \in P <=> q < p /\ f[at[q]] = f[i]
  BY <1>1, <1>3, <1>5
<1>8. P \in SUBSET (1 .. n)
  BY <1>1, <1>3
<1>9. \A q \in 1 .. n : q \in P <=> at[q] \in S
  BY <1>2, <1>4, <1>7
<1>10. S \in SUBSET (1 .. n)
  BY <1>1 DEF PriorRows
<1> HIDE DEF P, S
<1>11. IsFiniteSet(P)
  BY <1>1, <1>8, CardinalityUpTo, FS_Subset
<1>12. \A q, r \in P : at[q] = at[r] => q = r
  BY <1>2, <1>8
<1>13. \A j \in S : Place(all)[j] \in P /\ at[Place(all)[j]] = j
  BY <1>2, <1>9, <1>10
<1> DEFINE g == [q \in P |-> at[q]]
<1>14. g \in Bijection(P, S)
  <2>1. g \in [P -> S]
    BY <1>8, <1>9
  <2>2. \A j \in S : \E q \in P : g[q] = j
    BY <1>13
  <2>3. \A q, r \in P : g[q] = g[r] => q = r
    BY <1>12
  <2> HIDE DEF g
  <2>4. QED
    BY <2>1, <2>2, <2>3 DEF Bijection, Injection, Surjection, IsInjective
<1>15. IsFiniteSet(S) /\ Cardinality(S) = Cardinality(P)
  BY <1>11, <1>14, FS_Bijection DEF ExistsBijection
<1>16. SameEarlier(keys, p) = Cardinality(S) /\ IsFiniteSet(S)
  BY <1>6, <1>15
<1>17. QED
  BY <1>16 DEF keys, S, at, p

\* The row before in the group is the last of the prior ones.
LEMMA GapIsToTheLast ==
    ASSUME NEW all, InOrderOfTime(all), NEW i \in 1 .. Len(all)
    PROVE  LET p == Place(all)[i]
               start == GroupStart(all, At(all), p)
           IN  /\ p = start <=> PriorRows(all, i) = {}
               /\ p # start => At(all)[p - 1] = Max(PriorRows(all, i))
<1> DEFINE n == Len(all)
           at == At(all)
           p == Place(all)[i]
           start == GroupStart(all, At(all), p)
           prior == PriorRows(all, i)
<1>1. n \in Nat
  BY RowsOf
<1>2. Holds(all, start, p, prior)
  BY GroupHoldsPrior
<1> HIDE DEF start
<1>3. /\ p \in 1 .. n /\ start \in 1 .. p /\ prior \subseteq 1 .. n
      /\ \A q \in 1 .. n : q \in start .. p - 1 <=> at[q] \in prior
  BY <1>2 DEF Holds
<1>4. prior = {at[q] : q \in start .. p - 1} /\ IsFiniteSet(prior)
  BY <1>2, HoldsCounts
<1>5. /\ at \in [1 .. n -> 1 .. n]
      /\ \A q \in 1 .. n : Place(all)[at[q]] = q
      /\ \A k, l \in 1 .. n : Place(all)[k] < Place(all)[l] <=> SortsBefore(all, k, l)
  BY AtIsSorted DEF Sorted
<1>6. p = start <=> prior = {}
  <2>1. p = start => start .. p - 1 = {}
    BY <1>1, <1>3
  <2>2. p # start => start \in start .. p - 1 /\ start \in 1 .. n
    BY <1>1, <1>3
  <2> HIDE DEF p, at, prior
  <2>3. QED
    BY <1>3, <1>4, <2>1, <2>2
<1>7. ASSUME p # start PROVE at[p - 1] = Max(prior)
  <2> DEFINE last == at[p - 1]
  <2>1. p - 1 \in 1 .. n /\ p - 1 \in start .. p - 1
    BY <1>1, <1>3, <1>7
  <2>2. last \in prior
    BY <1>3, <2>1
  <2>3. prior \in SUBSET Int /\ prior # {}
    BY <1>1, <1>3, <2>2
  <2>4. \A j \in prior : all[j].cust = all[i].cust
    BY DEF PriorRows
  <2> HIDE DEF prior
  <2>5. Max(prior) \in prior /\ \A m \in prior : m <= Max(prior)
    BY <1>4, <2>3, TopExists
  <2>6. PICK q \in start .. p - 1 : Max(prior) = at[q]
    BY <1>4, <2>5
  <2>7. ASSUME last < at[q] PROVE FALSE
    <3>1. q \in 1 .. n /\ at[q] \in 1 .. n /\ last \in 1 .. n
      <4>1. q \in 1 .. n
        BY <1>1, <1>3, <2>6
      <4>2. QED
        BY <1>5, <2>1, <4>1
    <3>2. all[at[q]].cust = all[last].cust
      BY <2>2, <2>4, <2>5, <2>6
    <3>3. CodeOf(all)[at[q]] = CodeOf(all)[last]
      BY <3>1, <3>2, CodesTell
    <3>4. SortsBefore(all, last, at[q])
      BY <2>7, <3>1, <3>3, SortsByCode
    <3>5. p - 1 < q
      BY <1>5, <2>1, <3>1, <3>4
    <3>6. QED
      BY <1>1, <1>3, <2>6, <3>5
  <2>8. last \in Int /\ Max(prior) \in Int /\ last <= Max(prior)
    BY <2>2, <2>3, <2>5
  <2>9. QED
    BY <2>6, <2>7, <2>8
<1>8. QED
  BY <1>6, <1>7 DEF start

\* The row of the same customer with m rows after it, up to row i.
Mine(all, i) == PriorRows(all, i) \cup {i}
Later(all, i, j) == {l \in Mine(all, i) : l > j}
NthBack(all, i, m) == CHOOSE j \in Mine(all, i) : Cardinality(Later(all, i, j)) = m

LEMMA OneRowPerDistance ==
    ASSUME NEW all, NEW i \in Nat, NEW j \in Mine(all, i), NEW k \in Mine(all, i),
           Cardinality(Later(all, i, j)) = Cardinality(Later(all, i, k))
    PROVE  j = k
<1>1. Mine(all, i) \subseteq 0 .. i
  BY DEF Mine, PriorRows
<1>a. IsFiniteSet(0 .. i)
  BY FS_Interval
<1>2. IsFiniteSet(Mine(all, i))
  BY <1>1, <1>a, FS_Subset
<1>3. ASSUME NEW a \in Mine(all, i), NEW b \in Mine(all, i), a < b,
             Cardinality(Later(all, i, a)) = Cardinality(Later(all, i, b))
      PROVE  FALSE
  <2>1. a \in Int /\ b \in Int /\ \A l \in Mine(all, i) : l \in Int
    BY <1>1
  <2>a. ASSUME NEW l \in Mine(all, i), l > b PROVE l > a
    <3>1. l \in Int
      BY <2>1
    <3>2. QED
      BY <1>3, <2>1, <2>a, <3>1
  <2>b. Later(all, i, b) \subseteq Later(all, i, a)
    BY <2>a DEF Later
  <2>c. b \in Later(all, i, a)
    BY <1>3 DEF Later
  <2>d. b \notin Later(all, i, b)
    BY <2>1 DEF Later
  <2>2. Later(all, i, b) \subseteq Later(all, i, a) /\ b \in Later(all, i, a) /\ b \notin Later(all, i, b)
    BY <2>b, <2>c, <2>d
  <2>3. IsFiniteSet(Later(all, i, a))
    BY <1>2, FS_Subset DEF Later
  <2>4. Later(all, i, b) = Later(all, i, a)
    BY <1>3, <2>2, <2>3, FS_Subset
  <2>5. QED
    BY <2>2, <2>4
<1>4. j \in Int /\ k \in Int
  BY <1>1
<1>5. QED
  BY <1>3, <1>4

LEMMA NthBackStands ==
    ASSUME NEW all, InOrderOfTime(all), NEW i \in 1 .. Len(all), NEW m \in Nat,
           Place(all)[i] - m >= GroupStart(all, At(all), Place(all)[i])
    PROVE  /\ At(all)[Place(all)[i] - m] = NthBack(all, i, m) /\ NthBack(all, i, m) \in Mine(all, i)
           /\ Cardinality(Later(all, i, NthBack(all, i, m))) = m
<1> DEFINE n == Len(all)
           at == At(all)
           p == Place(all)[i]
           start == GroupStart(all, at, p)
           prior == PriorRows(all, i)
           j == at[p - m]
           S == {l \in prior : l > j}
<1>1. n \in Nat
  BY RowsOf
<1>2. Holds(all, start, p, prior)
  BY GroupHoldsPrior
<1>a. p - m >= start
  OBVIOUS
<1> HIDE DEF start
<1>3. /\ p \in 1 .. n /\ start \in 1 .. p /\ prior \subseteq 1 .. n
      /\ \A q \in 1 .. n : q \in start .. p - 1 <=> at[q] \in prior
  BY <1>2 DEF Holds
<1>4. /\ at \in [1 .. n -> 1 .. n] /\ at[p] = i
      /\ \A q \in 1 .. n : Place(all)[at[q]] = q
      /\ \A k, l \in 1 .. n : Place(all)[k] < Place(all)[l] <=> SortsBefore(all, k, l)
  BY AtIsSorted DEF Sorted
<1> HIDE DEF at, p
<1>5. p - m \in 1 .. n /\ p - m \in start .. p /\ p \in Int /\ start \in Int
  BY <1>1, <1>3, <1>a
<1>6. j \in Mine(all, i) /\ j \in 1 .. n
  <2>1. CASE m = 0
    BY <1>4, <1>5, <2>1 DEF Mine
  <2>2. CASE m # 0
    <3>1. p - m \in start .. p - 1
      BY <1>5, <2>2
    <3>2. QED
      BY <1>3, <1>4, <1>5, <3>1 DEF Mine
  <2>3. QED
    BY <2>1, <2>2
<1>7. \A k \in Mine(all, i) : all[k].cust = all[i].cust /\ k \in 1 .. n
  BY <1>3 DEF Mine, PriorRows
<1> HIDE DEF j
<1>8. ASSUME NEW q \in 1 .. n, at[q] \in Mine(all, i)
      PROVE  at[q] > j <=> q > p - m
  <2>1. at[q] \in 1 .. n /\ Place(all)[at[q]] = q /\ Place(all)[j] = p - m
    BY <1>4, <1>5 DEF j
  <2>2. CodeOf(all)[at[q]] = CodeOf(all)[j]
    BY <1>6, <1>7, <1>8, <2>1, CodesTell
  <2>3. SortsBefore(all, j, at[q]) <=> j < at[q]
    <3>1. CodeOf(all) \in [1 .. n -> 1 .. n]
      BY CodesTell
    <3>2. CodeOf(all)[j] \in Int
      BY <1>6, <3>1
    <3>3. QED
      BY <1>6, <2>1, <2>2, <3>2, SortsByCode
  <2>4. p - m < q <=> SortsBefore(all, j, at[q])
    BY <1>4, <1>6, <2>1
  <2>5. QED
    BY <1>5, <1>6, <2>1, <2>3, <2>4
<1>9. i \in Mine(all, i) /\ i \notin prior
  BY DEF Mine, PriorRows
<1>10. m # 0 => i > j
  <2>1. p > p - m <=> at[p] > j
    BY <1>3, <1>4, <1>8, <1>9
  <2>2. QED
    BY <1>4, <1>5, <2>1
<1>11. CASE m = 0
  <2>1. j = i
    BY <1>4, <1>5, <1>11 DEF j
  <2>2. Later(all, i, j) = {}
    <3>1. \A k \in prior : k < i
      BY DEF PriorRows
    <3>2. \A k \in Mine(all, i) : ~(k > i)
      BY <1>3, <3>1 DEF Mine
    <3>3. QED
      BY <2>1, <3>2 DEF Later
  <2>3. Cardinality(Later(all, i, j)) = m
    BY <1>11, <2>2, FS_EmptySet
  <2>4. QED
    BY <1>1, <1>6, <2>3, OneRowPerDistance DEF NthBack, j, at, p
<1>12. CASE m # 0
  <2>1. Holds(all, p - m + 1, p, S)
    <3>1. p - m + 1 \in 1 .. p /\ S \subseteq 1 .. n
      BY <1>3, <1>5, <1>12
    <3>2. ASSUME NEW q \in 1 .. n PROVE q \in (p - m + 1) .. p - 1 <=> at[q] \in S
      <4>1. at[q] \in S <=> at[q] \in prior /\ q > p - m
        BY <1>8 DEF Mine
      <4>2. at[q] \in S <=> q \in start .. p - 1 /\ q > p - m
        BY <1>3, <4>1
      <4>3. q \in Int
        OBVIOUS
      <4>4. QED
        BY <1>5, <4>2, <4>3
    <3>3. QED
      BY <1>3, <3>1, <3>2 DEF Holds, at
  <2>2. IsFiniteSet(S) /\ Cardinality(S) = p - (p - m + 1)
    BY <2>1, HoldsCounts
  <2>3. Later(all, i, j) = S \cup {i} /\ i \notin S
    BY <1>9, <1>10, <1>12 DEF Later, Mine
  <2>4. Cardinality(S \cup {i}) = Cardinality(S) + 1
    BY <2>2, <2>3, FS_AddElement
  <2> HIDE DEF S
  <2>5. Cardinality(Later(all, i, j)) = m
    BY <1>5, <2>2, <2>3, <2>4
  <2>6. QED
    BY <1>1, <1>6, <2>5, OneRowPerDistance DEF NthBack, j, at, p
<1>13. QED
  BY <1>11, <1>12

-----------------------------------------------------------------------------
(* What is counted by hand.                                                *)

PartyOf(all) == [j \in 1 .. Len(all) |-> <<all[j].cust, Party(all[j])>>]
CountryOf(all) == [j \in 1 .. Len(all) |-> <<all[j].cust, Country(all[j])>>]
RepeatOf(all) == [j \in 1 .. Len(all) |-> <<<<all[j].cust, Party(all[j])>>, all[j].amount>>]

ByHand(all, i) ==
    LET prior == PriorRows(all, i)
    IN  [n_prior  |-> Cardinality(prior),
         count    |-> [w \in Windows |-> Cardinality(Within(all, i, w))],
         sum      |-> [w \in Windows |-> SumFunctionOnSet(Amounts(all), Within(all, i, w))],
         total    |-> IF Cardinality(prior) < MinHistory THEN 0 ELSE SumFunctionOnSet(Amounts(all), prior),
         gap      |-> IF prior = {} THEN -1 ELSE all[i].time - all[Max(prior)].time,
         newParty   |-> ~\E j \in prior : Party(all[j]) = Party(all[i]),
         newCountry |-> ~\E j \in prior : Country(all[j]) = Country(all[i]),
         repeats    |-> Cardinality({j \in prior : /\ all[j].amount = all[i].amount
                                                   /\ Party(all[j]) = Party(all[i])}),
         sequence |-> [k \in 1 .. SeqLen |-> IF SeqLen - k <= Cardinality(prior)
                                             THEN NthBack(all, i, SeqLen - k) ELSE -1]]

LEMMA FeaturesAreByHand ==
    ASSUME NEW all, InOrderOfTime(all), NEW i \in 1 .. Len(all)
    PROVE  Features(all, i) = ByHand(all, i)
<1> DEFINE n == Len(all)
           at == At(all)
           p == Place(all)[i]
           start == GroupStart(all, at, p)
           prior == PriorRows(all, i)
           left(w) == SearchLeft(Keys(all), Keys(all)[p] - w)
           F == Features(all, i)
           H == ByHand(all, i)
<1>1. n \in Nat /\ DOMAIN all = 1 .. n
  BY RowsOf
<1>2. Holds(all, start, p, prior)
  BY GroupHoldsPrior
<1>3. p \in 1 .. n /\ start \in 1 .. p /\ prior \subseteq 1 .. n /\ p \in Int /\ start \in Int
  BY <1>1, <1>2 DEF Holds
<1>4. /\ IsFiniteSet(prior) /\ Cardinality(prior) = p - start
      /\ Running(all, at, p) - Running(all, at, start) = SumFunctionOnSet(Amounts(all), prior)
  BY <1>2, HoldsCounts
<1>5. \A w \in Windows :
          /\ Cardinality(Within(all, i, w)) = p - left(w)
          /\ Running(all, at, p) - Running(all, at, left(w)) = SumFunctionOnSet(Amounts(all), Within(all, i, w))
  <2> TAKE w \in Windows
  <2>1. Holds(all, left(w), p, Within(all, i, w))
    BY WindowHolds
  <2> HIDE DEF left, p, at
  <2>2. QED
    BY <2>1, HoldsCounts DEF at
<1>6. at[p] = i /\ at \in [1 .. n -> 1 .. n]
  BY AtIsSorted DEF Sorted
<1> HIDE DEF at, p, start
<1>7. F.n_prior = H.n_prior
  BY <1>4 DEF Features, ByHand, at, p, start
<1>8. F.count = H.count /\ F.sum = H.sum
  <2>1. F.count = [w \in Windows |-> p - left(w)]
    BY DEF Features, Keys, at, p
  <2>2. F.sum = [w \in Windows |-> Running(all, at, p) - Running(all, at, left(w))]
    BY DEF Features, Keys, at, p
  <2>3. H.count = [w \in Windows |-> Cardinality(Within(all, i, w))]
        /\ H.sum = [w \in Windows |-> SumFunctionOnSet(Amounts(all), Within(all, i, w))]
    BY DEF ByHand
  <2> HIDE DEF F, H, left
  <2>4. QED
    BY <1>5, <2>1, <2>2, <2>3
<1>9. F.total = H.total
  <2>1. F.total = IF p - start < MinHistory THEN 0 ELSE Running(all, at, p) - Running(all, at, start)
    BY DEF Features, at, p, start
  <2>2. H.total = IF Cardinality(prior) < MinHistory THEN 0 ELSE SumFunctionOnSet(Amounts(all), prior)
    BY DEF ByHand
  <2> HIDE DEF F, H
  <2>3. QED
    BY <1>4, <2>1, <2>2
<1>10. F.gap = H.gap
  <2>1. F.gap = IF p = start THEN -1 ELSE all[i].time - all[at[p - 1]].time
    BY DEF Features, at, p, start
  <2>2. H.gap = IF prior = {} THEN -1 ELSE all[i].time - all[Max(prior)].time
    BY DEF ByHand
  <2>3. (p = start <=> prior = {}) /\ (p # start => at[p - 1] = Max(prior))
    BY GapIsToTheLast DEF at, p, start
  <2> HIDE DEF F, H
  <2>4. QED
    BY <2>1, <2>2, <2>3
<1>11. F.newParty = H.newParty
  <2> DEFINE same == {j \in prior : PartyOf(all)[j] = PartyOf(all)[i]}
             keys == [q \in DOMAIN all |-> <<all[at[q]].cust, Party(all[at[q]])>>]
             val == [q \in DOMAIN all |-> PartyOf(all)[at[q]]]
  <2>1. F.newParty = (SameEarlier(keys, p) = 0)
    BY DEF Features, at, p
  <2>2. keys = val
    BY <1>1, <1>6 DEF PartyOf
  <2>3. \A j \in 1 .. n : PartyOf(all)[j] = PartyOf(all)[i] =>
            all[j].cust = all[i].cust
    BY DEF PartyOf
  <2>4. SameEarlier(val, p) = Cardinality(same) /\ IsFiniteSet(same)
    BY <2>3, SameIsCounted DEF at, p
  <2>5. \A j \in prior : PartyOf(all)[j] = PartyOf(all)[i] <=> Party(all[j]) = Party(all[i])
    BY <1>3 DEF PartyOf, PriorRows
  <2>6. H.newParty = ~\E j \in prior : Party(all[j]) = Party(all[i])
    BY DEF ByHand
  <2>7. same = {} <=> ~\E j \in prior : Party(all[j]) = Party(all[i])
    BY <2>5
  <2> HIDE DEF F, H, keys, val, same
  <2>8. Cardinality(same) = 0 <=> same = {}
    BY <2>4, FS_EmptySet
  <2>9. QED
    BY <2>1, <2>2, <2>4, <2>6, <2>7, <2>8
<1>12. F.newCountry = H.newCountry
  <2> DEFINE same == {j \in prior : CountryOf(all)[j] = CountryOf(all)[i]}
             keys == [q \in DOMAIN all |-> <<all[at[q]].cust, Country(all[at[q]])>>]
             val == [q \in DOMAIN all |-> CountryOf(all)[at[q]]]
  <2>1. F.newCountry = (SameEarlier(keys, p) = 0)
    BY DEF Features, at, p
  <2>2. keys = val
    BY <1>1, <1>6 DEF CountryOf
  <2>3. \A j \in 1 .. n : CountryOf(all)[j] = CountryOf(all)[i] =>
            all[j].cust = all[i].cust
    BY DEF CountryOf
  <2>4. SameEarlier(val, p) = Cardinality(same) /\ IsFiniteSet(same)
    BY <2>3, SameIsCounted DEF at, p
  <2>5. \A j \in prior : CountryOf(all)[j] = CountryOf(all)[i] <=> Country(all[j]) = Country(all[i])
    BY <1>3 DEF CountryOf, PriorRows
  <2>6. H.newCountry = ~\E j \in prior : Country(all[j]) = Country(all[i])
    BY DEF ByHand
  <2>7. same = {} <=> ~\E j \in prior : Country(all[j]) = Country(all[i])
    BY <2>5
  <2> HIDE DEF F, H, keys, val, same
  <2>8. Cardinality(same) = 0 <=> same = {}
    BY <2>4, FS_EmptySet
  <2>9. QED
    BY <2>1, <2>2, <2>4, <2>6, <2>7, <2>8
<1>13. F.repeats = H.repeats
  <2> DEFINE same == {j \in prior : RepeatOf(all)[j] = RepeatOf(all)[i]}
             keys == [q \in DOMAIN all |-> <<<<all[at[q]].cust, Party(all[at[q]])>>, all[at[q]].amount>>]
             val == [q \in DOMAIN all |-> RepeatOf(all)[at[q]]]
             hand == {j \in prior : all[j].amount = all[i].amount /\ Party(all[j]) = Party(all[i])}
  <2>1. F.repeats = SameEarlier(keys, p)
    BY DEF Features, at, p
  <2>2. keys = val
    BY <1>1, <1>6 DEF RepeatOf
  <2>3. \A j \in 1 .. n : RepeatOf(all)[j] = RepeatOf(all)[i] =>
            all[j].cust = all[i].cust
    BY DEF RepeatOf
  <2>4. SameEarlier(val, p) = Cardinality(same)
    BY <2>3, SameIsCounted DEF at, p
  <2>5. same = hand
    BY <1>3 DEF RepeatOf, PriorRows
  <2>6. H.repeats = Cardinality(hand)
    BY DEF ByHand
  <2> HIDE DEF F, H, keys, val, same, hand
  <2>7. QED
    BY <2>1, <2>2, <2>4, <2>5, <2>6
<1>14. F.sequence = H.sequence
  <2>1. F.sequence = [k \in 1 .. SeqLen |-> IF p - (SeqLen - k) >= start THEN at[p - (SeqLen - k)] ELSE -1]
    BY DEF Features, at, p, start
  <2>2. H.sequence = [k \in 1 .. SeqLen |-> IF SeqLen - k <= Cardinality(prior)
                                             THEN NthBack(all, i, SeqLen - k) ELSE -1]
    BY DEF ByHand
  <2>3. ASSUME NEW k \in 1 .. SeqLen
        PROVE  /\ p - (SeqLen - k) >= start <=> SeqLen - k <= Cardinality(prior)
               /\ p - (SeqLen - k) >= start => at[p - (SeqLen - k)] = NthBack(all, i, SeqLen - k)
    <3> DEFINE m == SeqLen - k
    <3>1. m \in Nat
      BY BehaviourAssumption
    <3> HIDE DEF m
    <3>2. p - m >= start => at[p - m] = NthBack(all, i, m)
      BY <3>1, NthBackStands DEF at, p, start
    <3>3. p - m >= start <=> m <= Cardinality(prior)
      BY <1>3, <1>4, <3>1
    <3>4. QED
      BY <3>2, <3>3 DEF m
  <2> HIDE DEF F, H
  <2>4. QED
    BY <2>1, <2>2, <2>3
<1>15. /\ F = [n_prior |-> F.n_prior, count |-> F.count, sum |-> F.sum, total |-> F.total, gap |-> F.gap,
               newParty |-> F.newParty, newCountry |-> F.newCountry, repeats |-> F.repeats,
               sequence |-> F.sequence]
       /\ H = [n_prior |-> H.n_prior, count |-> H.count, sum |-> H.sum, total |-> H.total, gap |-> H.gap,
               newParty |-> H.newParty, newCountry |-> H.newCountry, repeats |-> H.repeats,
               sequence |-> H.sequence]
  BY DEF Features, ByHand
<1> HIDE DEF F, H
<1>16. F = H
  BY <1>7, <1>8, <1>9, <1>10, <1>11, <1>12, <1>13, <1>14, <1>15
<1>17. QED
  BY <1>16 DEF F, H

-----------------------------------------------------------------------------
(* What is asked of the figures.                                           *)

\* How many rows of the customer lie before a row is where it stands in its
\* group.
LEMMA PriorCounts ==
    ASSUME NEW all, InOrderOfTime(all), NEW i \in 1 .. Len(all)
    PROVE  /\ PriorRows(all, i) \subseteq 1 .. Len(all) /\ IsFiniteSet(PriorRows(all, i))
           /\ Cardinality(PriorRows(all, i)) = Place(all)[i] - GroupStart(all, At(all), Place(all)[i])
           /\ Place(all)[i] \in 1 .. Len(all) /\ At(all)[Place(all)[i]] = i
           /\ GroupStart(all, At(all), Place(all)[i]) \in 1 .. Place(all)[i]
<1> DEFINE p == Place(all)[i]
           start == GroupStart(all, At(all), p)
           prior == PriorRows(all, i)
<1>1. Holds(all, start, p, prior)
  BY GroupHoldsPrior
<1>2. p \in 1 .. Len(all) /\ start \in 1 .. p /\ prior \subseteq 1 .. Len(all)
  BY <1>1 DEF Holds
<1>3. At(all)[p] = i
  BY AtIsSorted DEF Sorted
<1> HIDE DEF start, p, prior
<1>4. IsFiniteSet(prior) /\ Cardinality(prior) = p - start
  BY <1>1, HoldsCounts
<1>5. QED
  BY <1>2, <1>3, <1>4 DEF start, p, prior

LEMMA NthBackIs ==
    ASSUME NEW all, InOrderOfTime(all), NEW i \in 1 .. Len(all),
           NEW m \in Nat, m <= Cardinality(PriorRows(all, i))
    PROVE  /\ NthBack(all, i, m) \in Mine(all, i)
           /\ Cardinality(Later(all, i, NthBack(all, i, m))) = m
           /\ m = 0 => NthBack(all, i, m) = i
<1> DEFINE p == Place(all)[i]
           start == GroupStart(all, At(all), p)
<1>0. Len(all) \in Nat
  BY RowsOf
<1>1. /\ Cardinality(PriorRows(all, i)) = p - start
      /\ p \in 1 .. Len(all) /\ At(all)[p] = i /\ start \in 1 .. p
  BY PriorCounts
<1> HIDE DEF p, start
<1>2. p - m >= start
  BY <1>0, <1>1
<1>3. /\ At(all)[p - m] = NthBack(all, i, m) /\ NthBack(all, i, m) \in Mine(all, i)
      /\ Cardinality(Later(all, i, NthBack(all, i, m))) = m
  BY <1>2, NthBackStands DEF p, start
<1>4. m = 0 => p - m = p
  BY <1>0, <1>1
<1>5. QED
  BY <1>1, <1>3, <1>4

LEMMA FartherIsEarlier ==
    ASSUME NEW all, InOrderOfTime(all), NEW i \in 1 .. Len(all),
           NEW l \in Nat, NEW m \in Nat, l < m, m <= Cardinality(PriorRows(all, i))
    PROVE  NthBack(all, i, m) < NthBack(all, i, l)
<1> DEFINE a == NthBack(all, i, m)
           b == NthBack(all, i, l)
<1>0. PriorRows(all, i) \subseteq 1 .. Len(all) /\ IsFiniteSet(PriorRows(all, i)) /\ Len(all) \in Nat
  BY PriorCounts, RowsOf
<1>1. Cardinality(PriorRows(all, i)) \in Nat
  BY <1>0, FS_CardinalityType
<1>2. l <= Cardinality(PriorRows(all, i))
  BY <1>1
<1>3. a \in Mine(all, i) /\ Cardinality(Later(all, i, a)) = m
  BY NthBackIs
<1>4. b \in Mine(all, i) /\ Cardinality(Later(all, i, b)) = l
  BY <1>2, NthBackIs
<1>5. Mine(all, i) \subseteq 1 .. Len(all) /\ IsFiniteSet(Mine(all, i))
  BY <1>0, FS_AddElement DEF Mine
<1> HIDE DEF a, b
<1>6. a \in Int /\ b \in Int /\ \A c \in Mine(all, i) : c \in Int
  BY <1>0, <1>3, <1>4, <1>5
<1>7. ASSUME b <= a PROVE FALSE
  <2>1. Later(all, i, a) \subseteq Later(all, i, b)
    <3> SUFFICES ASSUME NEW c \in Mine(all, i), c > a PROVE c > b
      BY DEF Later
    <3>1. c \in Int
      BY <1>6
    <3>2. QED
      BY <1>6, <1>7, <3>1
  <2>2. IsFiniteSet(Later(all, i, b))
    BY <1>5, FS_Subset DEF Later
  <2>3. Cardinality(Later(all, i, a)) <= Cardinality(Later(all, i, b))
    BY <2>1, <2>2, FS_Subset
  <2>4. QED
    BY <1>3, <1>4, <2>3
<1>8. QED
  BY <1>6, <1>7 DEF a, b

LEMMA SequenceLooksBack ==
    ASSUME NEW all, InOrderOfTime(all), NEW i \in 1 .. Len(all)
    PROVE  LET sequence == ByHand(all, i).sequence
           IN  /\ sequence[SeqLen] = i
               /\ {sequence[k] : k \in 1 .. SeqLen} \ {-1, i} \subseteq PriorRows(all, i)
               /\ \A k, l \in 1 .. SeqLen : k < l /\ sequence[k] # -1 => sequence[k] < sequence[l]
<1> DEFINE sequence == ByHand(all, i).sequence
           prior == PriorRows(all, i)
           N == Cardinality(prior)
<1>1. sequence = [k \in 1 .. SeqLen |-> IF SeqLen - k <= N THEN NthBack(all, i, SeqLen - k) ELSE -1]
  BY DEF ByHand
<1>2. IsFiniteSet(prior)
  BY PriorCounts
<1> HIDE DEF sequence
<1>3. N \in Nat
  BY <1>2, FS_CardinalityType
<1>4. SeqLen \in Nat /\ SeqLen \in 1 .. SeqLen /\ SeqLen - SeqLen = 0
  BY BehaviourAssumption
<1>5. sequence[SeqLen] = i
  <2>1. 0 <= N
    BY <1>3
  <2>2. NthBack(all, i, 0) = i
    BY <2>1, NthBackIs
  <2>3. QED
    BY <1>1, <1>4, <2>1, <2>2
<1>6. ASSUME NEW k \in 1 .. SeqLen, sequence[k] \notin {-1, i}
      PROVE  sequence[k] \in prior
  <2> DEFINE m == SeqLen - k
  <2>1. m \in Nat
    BY <1>4
  <2> HIDE DEF m
  <2>2. m <= N /\ sequence[k] = NthBack(all, i, m)
    BY <1>1, <1>6 DEF m
  <2>3. NthBack(all, i, m) \in Mine(all, i)
    BY <2>1, <2>2, NthBackIs
  <2>4. QED
    BY <1>6, <2>2, <2>3 DEF Mine
<1>7. ASSUME NEW k \in 1 .. SeqLen, NEW l \in 1 .. SeqLen, k < l, sequence[k] # -1
      PROVE  sequence[k] < sequence[l]
  <2> DEFINE a == SeqLen - k
             b == SeqLen - l
  <2>1. a \in Nat /\ b \in Nat /\ b < a
    BY <1>4, <1>7
  <2> HIDE DEF a, b
  <2>2. a <= N /\ sequence[k] = NthBack(all, i, a)
    BY <1>1, <1>7 DEF a
  <2>3. b <= N
    BY <1>3, <2>1, <2>2
  <2>4. sequence[l] = NthBack(all, i, b)
    BY <1>1, <2>3 DEF b
  <2>5. NthBack(all, i, a) < NthBack(all, i, b)
    BY <2>1, <2>2, FartherIsEarlier
  <2>6. QED
    BY <2>2, <2>4, <2>5
<1>8. QED
  BY <1>5, <1>6, <1>7 DEF sequence

LEMMA FeaturesDoLookBack ==
    ASSUME NEW all, InOrderOfTime(all), NEW i \in 1 .. Len(all)
    PROVE  FeaturesLookBack(all, i)
<1> DEFINE f == Features(all, i)
           prior == PriorRows(all, i)
<1>1. f = ByHand(all, i)
  BY FeaturesAreByHand
<1>2. /\ f.n_prior = Cardinality(prior)
      /\ f.total = IF f.n_prior < MinHistory THEN 0 ELSE SumFunctionOnSet(Amounts(all), prior)
      /\ f.gap = IF prior = {} THEN -1 ELSE all[i].time - all[Max(prior)].time
      /\ f.newParty = ~\E j \in prior : Party(all[j]) = Party(all[i])
  BY <1>1 DEF ByHand
<1>3. \A w \in Windows : /\ f.count[w] = Cardinality(Within(all, i, w))
                         /\ f.sum[w] = SumFunctionOnSet(Amounts(all), Within(all, i, w))
  BY <1>1 DEF ByHand
<1>4. /\ f.sequence[SeqLen] = i
      /\ {f.sequence[k] : k \in 1 .. SeqLen} \ {-1, i} \subseteq prior
      /\ \A k, l \in 1 .. SeqLen :
             k < l /\ f.sequence[k] # -1 => f.sequence[k] < f.sequence[l]
  BY <1>1, SequenceLooksBack
<1>5. QED
  BY <1>2, <1>3, <1>4 DEF FeaturesLookBack, Within, Amounts

LEMMA ThePastIsTheSame ==
    ASSUME NEW all, InOrderOfTime(all), NEW i \in 1 .. Len(all)
    PROVE  PastIsTheSame(all, i)
<1> DEFINE f == Features(all, i)
           e == Evidence(all, i)
           g == Governance(all, i)
           mine == History(all, all[i].cust)
           prior == PriorRows(all, i)
<1>1. f = ByHand(all, i)
  BY FeaturesAreByHand
<1>2. /\ DOMAIN all = 1 .. Len(all) /\ Len(all) \in Nat
      /\ \A j \in 1 .. Len(all) : all[j].time \in Int
      /\ \A j, k \in 1 .. Len(all) : j <= k => all[j].time <= all[k].time
  BY RowsOf
<1>3. mine \subseteq 1 .. Len(all) /\ i \in mine /\ prior \subseteq mine /\ Prior(all, i) \subseteq mine
  BY <1>2 DEF History, PriorRows, Prior
<1>4. Prior(all, i) \subseteq prior
  <2> SUFFICES ASSUME NEW j \in 1 .. Len(all), all[j].cust = all[i].cust, all[j].time < all[i].time
               PROVE  j \in 1 .. i - 1
    BY <1>2 DEF Prior, History, PriorRows
  <2>1. all[j].time \in Int /\ all[i].time \in Int /\ (i <= j => all[i].time <= all[j].time)
    BY <1>2
  <2>2. QED
    BY <1>2, <2>1
<1>5. IsFiniteSet(prior)
  BY PriorCounts
<1>6. e.n_prior <= f.n_prior
  <2>1. e.n_prior = Cardinality(Prior(all, i)) /\ f.n_prior = Cardinality(prior)
    BY <1>1 DEF Evidence, ByHand
  <2>2. QED
    BY <1>4, <1>5, <2>1, FS_Subset
<1>7. ASSUME \A j \in mine \ {i} : all[j].time # all[i].time
      PROVE  /\ f.n_prior = e.n_prior /\ f.count = e.count /\ f.repeats = e.repeats
             /\ f.newParty = ~e.seenParty /\ f.newCountry = ~e.seenCountry
             /\ g.crossBorder => f.newCountry
  <2>1. prior \subseteq Prior(all, i)
    <3> SUFFICES ASSUME NEW j \in prior PROVE all[j].time < all[i].time
      BY <1>3 DEF Prior
    <3>1. j \in 1 .. Len(all) /\ j \in mine /\ j < i
      BY <1>2, <1>3 DEF PriorRows
    <3>2. all[j].time \in Int /\ all[i].time \in Int /\ all[j].time <= all[i].time
      BY <1>2, <3>1
    <3>3. all[j].time # all[i].time
      BY <1>2, <1>7, <3>1
    <3>4. QED
      BY <3>2, <3>3
  <2>2. Prior(all, i) = prior
    BY <1>4, <2>1
  <2> HIDE DEF mine
  <2>3. e = [n_prior |-> Cardinality(prior),
             count   |-> [w \in Windows |-> Cardinality({j \in prior : all[i].time - all[j].time <= w})],
             seenParty   |-> \E j \in prior : Party(all[j]) = Party(all[i]),
             seenCountry |-> \E j \in prior : Country(all[j]) = Country(all[i]),
             repeats     |-> Cardinality({j \in prior : /\ all[j].amount = all[i].amount
                                                        /\ Party(all[j]) = Party(all[i])})]
    BY <2>2 DEF Evidence
  <2>4. g.crossBorder => ~\E j \in prior : Country(all[j]) = Country(all[i])
    BY <2>2 DEF Governance
  <2> HIDE DEF e, f, g, prior
  <2>5. /\ f.n_prior = Cardinality(prior)
        /\ f.count = [w \in Windows |-> Cardinality({j \in prior : all[i].time - all[j].time <= w})]
    BY <1>1 DEF ByHand, Within, prior
  <2>6. /\ f.repeats = Cardinality({j \in prior : /\ all[j].amount = all[i].amount
                                                  /\ Party(all[j]) = Party(all[i])})
        /\ f.newParty = ~\E j \in prior : Party(all[j]) = Party(all[i])
        /\ f.newCountry = ~\E j \in prior : Country(all[j]) = Country(all[i])
    BY <1>1 DEF ByHand, prior
  <2>7. e.n_prior = f.n_prior /\ e.count = f.count
    BY <2>3, <2>5
  <2>8. e.repeats = f.repeats
    BY <2>3, <2>6
  <2>9. f.newParty = ~e.seenParty /\ f.newCountry = ~e.seenCountry /\ (g.crossBorder => f.newCountry)
    BY <2>3, <2>4, <2>6
  <2>10. QED
    BY <2>7, <2>8, <2>9
<1>8. ASSUME NEW j \in mine, all[j].time # all[i].time, Country(all[j]) = Country(all[i])
      PROVE  ~(g.crossBorder /\ Governance(all, j).crossBorder)
  <2>1. all[j].cust = all[i].cust /\ j \in DOMAIN all /\ i \in DOMAIN all
    BY <1>2 DEF History
  <2>2. all[j].time < all[i].time \/ all[i].time < all[j].time
    BY <1>2, <1>8, <2>1
  <2>3. CASE all[j].time < all[i].time
    <3>1. j \in Prior(all, i)
      BY <2>1, <2>3 DEF Prior, History
    <3>2. QED
      BY <1>8, <3>1 DEF Governance
  <2>4. CASE all[i].time < all[j].time
    <3>1. i \in Prior(all, j)
      BY <2>1, <2>4 DEF Prior, History
    <3>2. QED
      BY <1>8, <3>1 DEF Governance
  <2>5. QED
    BY <2>2, <2>3, <2>4
<1>9. QED
  BY <1>6, <1>7, <1>8 DEF PastIsTheSame

-----------------------------------------------------------------------------
(* What happens later.                                                     *)

WithoutLast(all) == SubSeq(all, 1, Len(all) - 1)

LEMMA BeforeTheLast ==
    ASSUME NEW all, InOrderOfTime(all), all # <<>>
    PROVE  /\ InOrderOfTime(WithoutLast(all)) /\ Len(WithoutLast(all)) = Len(all) - 1
           /\ Len(all) \in Nat \ {0} /\ DOMAIN WithoutLast(all) = 1 .. Len(all) - 1
           /\ \A i \in 1 .. Len(all) - 1 : WithoutLast(all)[i] = all[i]
<1> DEFINE n == Len(all)
<1>1. n \in Nat \ {0} /\ all \in Seq(Row) /\ DOMAIN all = 1 .. n
  BY DEF InOrderOfTime
<1>2. /\ WithoutLast(all) \in Seq(Row) /\ Len(WithoutLast(all)) = n - 1
      /\ \A i \in 1 .. n - 1 : WithoutLast(all)[i] = all[i]
  BY <1>1 DEF WithoutLast
<1>3. DOMAIN WithoutLast(all) = 1 .. n - 1
  BY <1>2
<1>4. QED
  BY <1>1, <1>2, <1>3 DEF InOrderOfTime

LEMMA SumsAreTheSame ==
    ASSUME NEW f, NEW g, NEW A, IsFiniteSet(A), \A a \in A : f[a] = g[a] /\ g[a] \in Int
    PROVE  SumFunctionOnSet(f, A) = SumFunctionOnSet(g, A)
<1> DEFINE at == [a \in A |-> a]
<1>1. \A a \in A : g[a] \in Int /\ g[a] = f[at[a]]
  OBVIOUS
<1>2. \A a, b \in A : at[a] = at[b] => a = b
  OBVIOUS
<1>3. {at[a] : a \in A} = A
  OBVIOUS
<1> HIDE DEF at
<1>4. SumFunctionOnSet(g, A) = SumFunctionOnSet(f, {at[a] : a \in A})
  BY <1>1, <1>2, SumRenames
<1>5. QED
  BY <1>3, <1>4

\* By hand nothing is counted that comes after a row.
LEMMA LaterRowsDoNotCount ==
    ASSUME NEW all, InOrderOfTime(all), all # <<>>, NEW i \in 1 .. Len(all) - 1
    PROVE  ByHand(WithoutLast(all), i) = ByHand(all, i)
<1> DEFINE b == WithoutLast(all)
           prior == PriorRows(all, i)
           same(S) == SumFunctionOnSet(Amounts(b), S) = SumFunctionOnSet(Amounts(all), S)
<1>1. /\ InOrderOfTime(b) /\ Len(b) = Len(all) - 1 /\ DOMAIN b = 1 .. Len(all) - 1 /\ Len(all) \in Nat
      /\ \A j \in 1 .. Len(all) - 1 : b[j] = all[j]
  BY BeforeTheLast
<1>2. DOMAIN all = 1 .. Len(all) /\ \A j \in 1 .. Len(all) : all[j].amount \in Int
  BY RowsOf
<1>3. i \in 1 .. Len(all) /\ 1 .. i - 1 \subseteq 1 .. Len(all) - 1
  BY <1>1
<1> HIDE DEF b
<1>4. PriorRows(b, i) = prior /\ prior \subseteq 1 .. Len(all) - 1
  BY <1>1, <1>3 DEF PriorRows
<1>5. IsFiniteSet(prior)
  BY <1>3, PriorCounts
<1>6. \A w \in Windows : Within(b, i, w) = Within(all, i, w)
  BY <1>1, <1>4 DEF Within
<1>7. \A S \in SUBSET prior : same(S)
  <2> SUFFICES ASSUME NEW S \in SUBSET prior PROVE same(S)
    OBVIOUS
  <2>1. IsFiniteSet(S)
    BY <1>5, FS_Subset
  <2>2. \A a \in S : Amounts(b)[a] = Amounts(all)[a] /\ Amounts(all)[a] \in Int
    <3> SUFFICES ASSUME NEW a \in S PROVE Amounts(b)[a] = Amounts(all)[a] /\ Amounts(all)[a] \in Int
      OBVIOUS
    <3>1. a \in 1 .. Len(all) - 1 /\ a \in 1 .. Len(all)
      BY <1>1, <1>4
    <3>2. QED
      BY <1>1, <1>2, <3>1 DEF Amounts
  <2>3. QED
    BY <2>1, <2>2, SumsAreTheSame
<1>8. \A m \in Nat : NthBack(b, i, m) = NthBack(all, i, m)
  BY <1>4 DEF NthBack, Later, Mine
<1>9. \A w \in Windows : Within(all, i, w) \in SUBSET prior
  BY DEF Within
<1>10. prior # {} => b[Max(prior)] = all[Max(prior)]
  <2>1. prior # {} => Max(prior) \in prior
    BY <1>1, <1>4, <1>5, TopExists
  <2>2. QED
    BY <1>1, <1>4, <2>1
<1>11. b[i] = all[i] /\ \A j \in prior : b[j] = all[j]
  BY <1>1, <1>4
<1>12. [w \in Windows |-> Cardinality(Within(b, i, w))] = [w \in Windows |-> Cardinality(Within(all, i, w))]
  BY <1>6
<1>13. [w \in Windows |-> SumFunctionOnSet(Amounts(b), Within(b, i, w))]
       = [w \in Windows |-> SumFunctionOnSet(Amounts(all), Within(all, i, w))]
  BY <1>6, <1>7, <1>9
<1>14. SumFunctionOnSet(Amounts(b), prior) = SumFunctionOnSet(Amounts(all), prior)
  BY <1>7
<1>15. [k \in 1 .. SeqLen |-> IF SeqLen - k <= Cardinality(prior) THEN NthBack(b, i, SeqLen - k) ELSE -1]
       = [k \in 1 .. SeqLen |-> IF SeqLen - k <= Cardinality(prior) THEN NthBack(all, i, SeqLen - k) ELSE -1]
  <2>1. \A k \in 1 .. SeqLen : SeqLen - k \in Nat
    BY BehaviourAssumption
  <2>2. QED
    BY <1>8, <2>1
<1>16. (~\E j \in prior : Party(b[j]) = Party(b[i])) = (~\E j \in prior : Party(all[j]) = Party(all[i]))
  BY <1>11
<1>17. (~\E j \in prior : Country(b[j]) = Country(b[i])) = (~\E j \in prior : Country(all[j]) = Country(all[i]))
  BY <1>11
<1>18. {j \in prior : b[j].amount = b[i].amount /\ Party(b[j]) = Party(b[i])}
       = {j \in prior : all[j].amount = all[i].amount /\ Party(all[j]) = Party(all[i])}
  BY <1>11
<1>19. (IF prior = {} THEN -1 ELSE b[i].time - b[Max(prior)].time)
       = (IF prior = {} THEN -1 ELSE all[i].time - all[Max(prior)].time)
  BY <1>10, <1>11
<1> HIDE DEF prior
<1>20. QED
  BY <1>4, <1>12, <1>13, <1>14, <1>15, <1>16, <1>17, <1>18, <1>19 DEF ByHand, b, prior

LEMMA LaterRowsChangeNothing ==
    ASSUME NEW all, InOrderOfTime(all), all # <<>>, NEW i \in DOMAIN WithoutLast(all)
    PROVE  /\ Features(WithoutLast(all), i) = Features(all, i)
           /\ Evidence(WithoutLast(all), i) = Evidence(all, i)
           /\ Governance(WithoutLast(all), i) = Governance(all, i)
<1> DEFINE b == WithoutLast(all)
           prior == Prior(all, i)
<1>1. /\ InOrderOfTime(b) /\ Len(b) = Len(all) - 1 /\ DOMAIN b = 1 .. Len(all) - 1 /\ Len(all) \in Nat \ {0}
      /\ \A j \in 1 .. Len(all) - 1 : b[j] = all[j]
  BY BeforeTheLast
<1>2. /\ DOMAIN all = 1 .. Len(all)
      /\ \A j \in 1 .. Len(all) : all[j].time \in Int
      /\ \A j, k \in 1 .. Len(all) : j <= k => all[j].time <= all[k].time
  BY RowsOf
<1>3. i \in 1 .. Len(all) - 1 /\ i \in 1 .. Len(all) /\ i \in 1 .. Len(b)
  BY <1>1
<1> HIDE DEF b
<1>4. Features(b, i) = Features(all, i)
  <2>1. Features(all, i) = ByHand(all, i) /\ Features(b, i) = ByHand(b, i)
    BY <1>1, <1>3, FeaturesAreByHand
  <2>2. QED
    BY <1>3, <2>1, LaterRowsDoNotCount DEF b
<1>5. \A j \in 1 .. Len(all) : all[j].time < all[i].time => j \in 1 .. Len(all) - 1
  <2> SUFFICES ASSUME NEW j \in 1 .. Len(all), all[j].time < all[i].time, j = Len(all) PROVE FALSE
    BY <1>1
  <2>1. all[i].time <= all[j].time /\ all[i].time \in Int /\ all[j].time \in Int
    BY <1>1, <1>2, <1>3
  <2>2. QED
    BY <2>1
<1>6. b[i] = all[i]
  BY <1>1, <1>3
<1>7. Prior(b, i) = prior
  <2>1. \A j : j \in 1 .. Len(all) - 1 => j \in 1 .. Len(all)
    BY <1>1
  <2>2. QED
    BY <1>1, <1>2, <1>5, <1>6, <2>1 DEF Prior, History
<1>8. \A j \in prior : b[j] = all[j]
  BY <1>1, <1>2, <1>5 DEF Prior, History
<1> HIDE DEF prior
<1>9. Evidence(b, i) = Evidence(all, i)
  <2>1. \A w \in Windows : {j \in prior : b[i].time - b[j].time <= w} = {j \in prior : all[i].time - all[j].time <= w}
    BY <1>6, <1>8
  <2>2. {j \in prior : b[j].amount = b[i].amount /\ Party(b[j]) = Party(b[i])}
        = {j \in prior : all[j].amount = all[i].amount /\ Party(all[j]) = Party(all[i])}
    BY <1>6, <1>8
  <2>3. (\E j \in prior : Party(b[j]) = Party(b[i])) = (\E j \in prior : Party(all[j]) = Party(all[i]))
    BY <1>6, <1>8
  <2>4. (\E j \in prior : Country(b[j]) = Country(b[i])) = (\E j \in prior : Country(all[j]) = Country(all[i]))
    BY <1>6, <1>8
  <2>5. [w \in Windows |-> Cardinality({j \in prior : b[i].time - b[j].time <= w})]
        = [w \in Windows |-> Cardinality({j \in prior : all[i].time - all[j].time <= w})]
    BY <2>1
  <2>6. QED
    BY <1>7, <2>2, <2>3, <2>4, <2>5 DEF Evidence, prior
<1>10. Governance(b, i) = Governance(all, i)
  <2>1. {j \in prior \cup {i} : /\ b[i].time - b[j].time <= StructuringWindow
                                /\ BandLow <= b[j].amount /\ b[j].amount < BandHigh}
        = {j \in prior \cup {i} : /\ all[i].time - all[j].time <= StructuringWindow
                                  /\ BandLow <= all[j].amount /\ all[j].amount < BandHigh}
    BY <1>6, <1>8
  <2>2. (\E j \in prior : Country(b[j]) = Country(b[i])) = (\E j \in prior : Country(all[j]) = Country(all[i]))
    BY <1>6, <1>8
  <2>3. QED
    BY <1>6, <1>7, <2>1, <2>2 DEF Governance, prior
<1>11. QED
  BY <1>4, <1>9, <1>10 DEF b

-----------------------------------------------------------------------------
(* A transaction after the other.                                          *)

BehaviourInv == InOrderOfTime(rows) /\ (call = "behaviour" => rows # <<>>)

LEMMA BehaviourStarts ==
    EnginesInit => BehaviourInv
<1>1. <<>> \in Seq(Row) /\ DOMAIN <<>> = {}
  OBVIOUS
<1>2. QED
  BY <1>1 DEF EnginesInit, BehaviourInv, InOrderOfTime

LEMMA RowsStayInOrder ==
    ASSUME BehaviourInv, LookBackCall
    PROVE  BehaviourInv'
<1>1. PICK r \in NewRows, t \in Times :
          /\ rows # <<>> => t >= rows[Len(rows)].time
          /\ rows' = Append(rows, [r EXCEPT !.time = t])
  BY DEF LookBackCall
<1> DEFINE new == [r EXCEPT !.time = t]
           n == Len(rows)
<1>2. new \in Row /\ new.time = t
  <2>1. /\ r = [cust |-> r.cust, time |-> r.time, amount |-> r.amount, outgoing |-> r.outgoing,
                sender |-> r.sender, receiver |-> r.receiver,
                sender_country |-> r.sender_country, receiver_country |-> r.receiver_country]
        /\ r.amount \in Int
    BY RowsAssumption
  <2>2. new = [cust |-> r.cust, time |-> t, amount |-> r.amount, outgoing |-> r.outgoing,
               sender |-> r.sender, receiver |-> r.receiver,
               sender_country |-> r.sender_country, receiver_country |-> r.receiver_country]
    BY <2>1
  <2>3. QED
    BY <2>1, <2>2 DEF Row
<1> HIDE DEF new
<1>3. /\ rows \in Seq(Row) /\ n \in Nat /\ DOMAIN rows = 1 .. n
      /\ \A i \in 1 .. n : rows[i].time \in Int
      /\ \A i, j \in 1 .. n : i <= j => rows[i].time <= rows[j].time
  BY RowsOf DEF BehaviourInv, InOrderOfTime
<1>4. rows' = Append(rows, new)
  BY <1>1 DEF new
<1>5. /\ rows' \in Seq(Row) /\ Len(rows') = n + 1 /\ DOMAIN rows' = 1 .. n + 1
      /\ rows'[n + 1] = new /\ \A i \in 1 .. n : rows'[i] = rows[i]
  BY <1>2, <1>3, <1>4
<1>6. ASSUME NEW i \in 1 .. n + 1, NEW j \in 1 .. n + 1, i <= j
      PROVE  rows'[i].time <= rows'[j].time
  <2>0. t \in Int
    BY RowsAssumption
  <2>1. CASE j \in 1 .. n
    <3>1. i \in 1 .. n
      BY <1>3, <1>6, <2>1
    <3>2. QED
      BY <1>3, <1>5, <1>6, <2>1, <3>1
  <2>2. CASE j = n + 1 /\ i \in 1 .. n
    <3>1. rows # <<>> /\ n \in 1 .. n /\ i <= n
      BY <1>3, <2>2
    <3>2. rows[i].time <= rows[n].time /\ rows[n].time <= t /\ rows[i].time \in Int /\ rows[n].time \in Int
      BY <1>1, <1>3, <2>0, <2>2, <3>1
    <3>3. rows[i].time <= t
      BY <2>0, <3>2
    <3>4. QED
      BY <1>2, <1>5, <2>2, <3>3
  <2>3. CASE j = n + 1 /\ i = n + 1
    BY <1>2, <1>5, <2>0, <2>3
  <2>4. QED
    BY <1>3, <2>1, <2>2, <2>3
<1>7. rows' # <<>>
  BY <1>3, <1>5
<1>8. QED
  BY <1>5, <1>6, <1>7 DEF BehaviourInv, InOrderOfTime

LEMMA BehaviourIsKept ==
    ASSUME BehaviourInv, [EnginesNext]_enginesVars
    PROVE  BehaviourInv'
<1>1. CASE LookBackCall
  BY <1>1, RowsStayInOrder
<1>2. CASE ReconcileCall
  BY <1>2 DEF ReconcileCall, BehaviourInv, InOrderOfTime
<1>3. CASE AnalyzeKycCall
  BY <1>3 DEF AnalyzeKycCall, BehaviourInv, InOrderOfTime
<1>4. CASE SplitCall
  BY <1>4 DEF SplitCall, BehaviourInv, InOrderOfTime
<1>5. CASE ThresholdCall
  BY <1>5 DEF ThresholdCall, BehaviourInv, InOrderOfTime
<1>6. CASE TrainCall
  BY <1>6 DEF TrainCall, BehaviourInv, InOrderOfTime
<1>7. CASE UNCHANGED enginesVars
  BY <1>7 DEF enginesVars, BehaviourInv, InOrderOfTime
<1>8. QED
  BY <1>1, <1>2, <1>3, <1>4, <1>5, <1>6, <1>7 DEF EnginesNext

LEMMA OnlyThePastCountsNow ==
    ASSUME BehaviourInv
    PROVE  OnlyThePastCounts
<1> SUFFICES ASSUME call = "behaviour" 
             PROVE  /\ FeaturesLookBack(rows, Len(rows)) /\ PastIsTheSame(rows, Len(rows))
                    /\ \A i \in DOMAIN WithoutLast(rows) :
                           /\ Features(WithoutLast(rows), i) = Features(rows, i)
                           /\ Evidence(WithoutLast(rows), i) = Evidence(rows, i)
                           /\ Governance(WithoutLast(rows), i) = Governance(rows, i)
  BY DEF OnlyThePastCounts, WithoutLast
<1>1. InOrderOfTime(rows) /\ rows # <<>>
  BY DEF BehaviourInv
<1>2. Len(rows) \in 1 .. Len(rows)
  BY <1>1, BeforeTheLast
<1>3. QED
  BY <1>1, <1>2, FeaturesDoLookBack, ThePastIsTheSame, LaterRowsChangeNothing

\* Whatever the transactions, however many and in whatever number at one
\* time: every figure about one is what one would count by hand over its
\* customer's earlier ones, and what happens later changes none of them
\* (builder.py:84-167, evidence.py:120-146, governance_scoring.py:69-83).
THEOREM OnlyThePastEverCounts == EnginesSpec => []OnlyThePastCounts
<1>1. EnginesInit => BehaviourInv
  BY BehaviourStarts
<1>2. BehaviourInv /\ [EnginesNext]_enginesVars => BehaviourInv'
  BY BehaviourIsKept
<1>3. BehaviourInv => OnlyThePastCounts
  BY OnlyThePastCountsNow
<1>4. QED
  BY <1>1, <1>2, <1>3, PTL DEF EnginesSpec

-----------------------------------------------------------------------------
(* Rankings, cut down and cut off.                                         *)

\* Positions of n chunks, none of them twice.
Listing(s, n) == s \in Seq(1 .. n) /\ IsInjective(s)
Precedes(s, i, j) == \E p, q \in DOMAIN s : p < q /\ s[p] = i /\ s[q] = j

LEMMA ListingOf ==
    ASSUME NEW n \in Nat, NEW s, Listing(s, n)
    PROVE  /\ Len(s) \in Nat /\ DOMAIN s = 1 .. Len(s)
           /\ ToSet(s) \subseteq 1 .. n /\ IsFiniteSet(ToSet(s))
           /\ Cardinality(ToSet(s)) = Len(s) /\ Cardinality(ToSet(s)) \in Nat
<1>1. Len(s) \in Nat /\ DOMAIN s = 1 .. Len(s) /\ \A p \in 1 .. Len(s) : s[p] \in 1 .. n
  BY DEF Listing
<1>2. ToSet(s) = {s[p] : p \in 1 .. Len(s)}
  BY <1>1 DEF ToSet
<1>3. ToSet(s) \subseteq 1 .. n
  BY <1>1, <1>2
<1>4. IsFiniteSet(1 .. Len(s)) /\ Cardinality(1 .. Len(s)) = Len(s)
  BY <1>1, CardinalityUpTo
<1>5. s \in Bijection(1 .. Len(s), ToSet(s))
  <2>1. s \in [1 .. Len(s) -> ToSet(s)]
    BY <1>1, <1>2 DEF Listing
  <2>2. \A t \in ToSet(s) : \E p \in 1 .. Len(s) : s[p] = t
    BY <1>2
  <2>3. \A p, q \in 1 .. Len(s) : s[p] = s[q] => p = q
    BY <1>1 DEF Listing, IsInjective
  <2>4. QED
    BY <2>1, <2>2, <2>3 DEF Bijection, Injection, Surjection, IsInjective
<1>6. ExistsBijection(1 .. Len(s), ToSet(s))
  BY <1>5 DEF ExistsBijection
<1>7. IsFiniteSet(ToSet(s)) /\ Cardinality(ToSet(s)) = Cardinality(1 .. Len(s))
  BY <1>4, <1>6, FS_Bijection
<1>8. QED
  BY <1>1, <1>3, <1>4, <1>7

LEMMA PermittedKeepsOrder ==
    ASSUME NEW n \in Nat, NEW s, Listing(s, n), NEW A \in SUBSET (1 .. n)
    PROVE  /\ Listing(Permitted(s, A), n)
           /\ ToSet(Permitted(s, A)) = A \cap ToSet(s)
           /\ \A i, j \in A : Precedes(s, i, j) => Precedes(Permitted(s, A), i, j)
<1> DEFINE I == {p \in DOMAIN s : s[p] \in A}
           key == [p \in I |-> p]
           c == Cardinality(I)
           L == Permitted(s, A)
<1>1. s \in Seq(1 .. n) /\ DOMAIN s = 1 .. Len(s) /\ Len(s) \in Nat /\ IsInjective(s)
  BY DEF Listing
<1>2. I \in SUBSET DOMAIN s /\ key \in [I -> Int] /\ \A p \in I : key[p] = p /\ p \in Int
  BY <1>1
<1>3. L = Pick(s, I, key)
  BY DEF Permitted, Where
<1> HIDE DEF I, key, L
<1>p. /\ Pick(s, I, key) \in Seq(1 .. n)
      /\ Len(Pick(s, I, key)) = Cardinality(I) /\ Cardinality(I) \in Nat
      /\ \E place : /\ Enumerates(place, I, key)
                    /\ \A m \in 1 .. Cardinality(I) : Pick(s, I, key)[m] = s[place[m]]
  <2>1. s \in Seq(1 .. n) /\ I \in SUBSET DOMAIN s /\ key \in [I -> Int]
    BY <1>1, <1>2
  <2>2. QED
    BY ONLY <2>1, PickIsOrdered
<1>4. L \in Seq(1 .. n) /\ Len(L) = c /\ c \in Nat
  BY <1>3, <1>p
<1>5. PICK place : Enumerates(place, I, key) /\ \A m \in 1 .. c : L[m] = s[place[m]]
  BY <1>3, <1>p
<1>6. /\ place \in [1 .. c -> I] /\ \A p \in I : \E m \in 1 .. c : place[m] = p
      /\ \A l, m \in 1 .. c : l < m => place[l] < place[m]
  BY <1>2, <1>5 DEF Enumerates
<1>7. DOMAIN L = 1 .. c
  BY <1>4
<1>8. \A m \in 1 .. c : place[m] \in I /\ place[m] \in DOMAIN s /\ place[m] \in Int
  BY <1>1, <1>2, <1>6
<1>9. IsInjective(L)
  <2> SUFFICES ASSUME NEW l \in 1 .. c, NEW m \in 1 .. c, L[l] = L[m], l < m
               PROVE  FALSE
    BY <1>4, <1>7 DEF IsInjective
  <2>1. s[place[l]] = s[place[m]]
    BY <1>5
  <2>2. place[l] = place[m]
    BY <1>1, <1>8, <2>1 DEF IsInjective
  <2>3. QED
    BY <1>6, <1>8, <2>2
<1>10. ToSet(L) = A \cap ToSet(s)
  <2>1. ASSUME NEW x \in ToSet(L) PROVE x \in A \cap ToSet(s)
    <3>1. PICK m \in 1 .. c : x = L[m]
      BY <1>7 DEF ToSet
    <3>2. x = s[place[m]] /\ place[m] \in I
      BY <1>5, <1>8, <3>1
    <3>3. QED
      BY <1>2, <3>2 DEF ToSet, I
  <2>2. ASSUME NEW x \in A \cap ToSet(s) PROVE x \in ToSet(L)
    <3>1. PICK p \in DOMAIN s : x = s[p]
      BY DEF ToSet
    <3>2. p \in I
      BY <3>1 DEF I
    <3>3. PICK m \in 1 .. c : place[m] = p
      BY <1>6, <3>2
    <3>4. L[m] = x
      BY <1>5, <3>1, <3>3
    <3>5. QED
      BY <1>7, <3>4 DEF ToSet
  <2>3. QED
    BY <2>1, <2>2
<1>11. ASSUME NEW i \in A, NEW j \in A, Precedes(s, i, j) PROVE Precedes(L, i, j)
  <2>1. PICK p, q \in DOMAIN s : p < q /\ s[p] = i /\ s[q] = j
    BY <1>11 DEF Precedes
  <2>2. p \in I /\ q \in I
    BY <2>1 DEF I
  <2>3. PICK l \in 1 .. c : place[l] = p
    BY <1>6, <2>2
  <2>4. PICK m \in 1 .. c : place[m] = q
    BY <1>6, <2>2
  <2>5. l < m
    <3>1. l \in Int /\ m \in Int /\ l # m /\ p \in Int /\ q \in Int
      BY <1>2, <1>4, <2>1, <2>2, <2>3, <2>4
    <3>2. ~(m < l)
      BY <1>6, <2>1, <2>3, <2>4, <3>1
    <3>3. QED
      BY <3>1, <3>2
  <2>6. L[l] = i /\ L[m] = j
    BY <1>5, <2>1, <2>3, <2>4
  <2>7. QED
    BY <1>7, <2>5, <2>6 DEF Precedes
<1>12. QED
  BY <1>4, <1>9, <1>10, <1>11 DEF Listing, L

LEMMA TakeKeepsOrder ==
    ASSUME NEW n \in Nat, NEW s, Listing(s, n), NEW m \in Nat
    PROVE  /\ Listing(Take(s, m), n) /\ Len(Take(s, m)) = Least(m, Len(s))
           /\ ToSet(Take(s, m)) \subseteq ToSet(s)
           /\ \A i, j : Precedes(s, i, j) /\ j \in ToSet(Take(s, m)) => Precedes(Take(s, m), i, j)
<1> DEFINE T == Take(s, m)
           l == Least(m, Len(s))
<1>1. s \in Seq(1 .. n) /\ DOMAIN s = 1 .. Len(s) /\ Len(s) \in Nat /\ IsInjective(s)
  BY DEF Listing
<1>2. l \in Nat /\ l <= Len(s) /\ l \in 0 .. Len(s)
  BY <1>1 DEF Least
<1> HIDE DEF l
<1>3. T = SubSeq(s, 1, l)
  BY DEF Take, l
<1>4. /\ T \in Seq(1 .. n) /\ Len(T) = l /\ DOMAIN T = 1 .. l
      /\ \A p \in 1 .. l : T[p] = s[p] /\ p \in DOMAIN s
  BY <1>1, <1>2, <1>3
<1> HIDE DEF T
<1>5. IsInjective(T)
  BY <1>1, <1>4 DEF IsInjective
<1>6. ToSet(T) \subseteq ToSet(s)
  BY <1>4 DEF ToSet
<1>7. ASSUME NEW i, NEW j, Precedes(s, i, j), j \in ToSet(T) PROVE Precedes(T, i, j)
  <2>1. PICK p, q \in DOMAIN s : p < q /\ s[p] = i /\ s[q] = j
    BY <1>7 DEF Precedes
  <2>2. PICK r \in 1 .. l : T[r] = j
    BY <1>4, <1>7 DEF ToSet
  <2>3. r = q
    BY <1>1, <1>4, <2>1, <2>2 DEF IsInjective
  <2>4. p \in 1 .. l
    BY <1>1, <1>2, <2>1, <2>2, <2>3
  <2>5. QED
    BY <1>4, <2>1, <2>2, <2>3, <2>4 DEF Precedes
<1>8. QED
  BY <1>4, <1>5, <1>6, <1>7 DEF Listing, T, l

\* Who is ahead of an element stands at an earlier place.
LEMMA AheadIsEarlier ==
    ASSUME NEW n \in Nat, NEW s, Listing(s, n), NEW i, NEW r \in DOMAIN s, Precedes(s, i, s[r])
    PROVE  \E q \in 1 .. r - 1 : s[q] = i
<1>1. DOMAIN s = 1 .. Len(s) /\ Len(s) \in Nat /\ IsInjective(s)
  BY DEF Listing
<1>2. PICK p, q \in DOMAIN s : p < q /\ s[p] = i /\ s[q] = s[r]
  BY DEF Precedes
<1>3. q = r
  BY <1>1, <1>2 DEF IsInjective
<1>4. p \in 1 .. r - 1
  BY <1>1, <1>2, <1>3
<1>5. QED
  BY <1>2, <1>4

\* A ranking of all lists them all, and who has the better place is ahead.
LEMMA RankingLists ==
    ASSUME NEW n \in Nat, NEW order, IsRanking(order, n)
    PROVE  /\ Listing(order, n) /\ Len(order) = n /\ ToSet(order) = 1 .. n
           /\ \A i, j \in 1 .. n :
                  (CHOOSE r \in DOMAIN order : order[r] = i) < (CHOOSE r \in DOMAIN order : order[r] = j)
                     => Precedes(order, i, j)
<1>1. order \in [1 .. n -> 1 .. n] /\ IsInjective(order)
  BY DEF IsRanking
<1>2. order \in Seq(1 .. n) /\ Len(order) = n /\ DOMAIN order = 1 .. n
  BY <1>1
<1>3. Listing(order, n)
  BY <1>1, <1>2 DEF Listing
<1>4. ToSet(order) \subseteq 1 .. n /\ Cardinality(ToSet(order)) = n
  BY <1>2, <1>3, ListingOf
<1>5. ToSet(order) = 1 .. n
  BY <1>4, CardinalityUpTo, FS_Subset
<1>6. ASSUME NEW i \in 1 .. n PROVE \E r \in DOMAIN order : order[r] = i
  BY <1>5 DEF ToSet
<1>7. ASSUME NEW i \in 1 .. n, NEW j \in 1 .. n,
             (CHOOSE r \in DOMAIN order : order[r] = i) < (CHOOSE r \in DOMAIN order : order[r] = j)
      PROVE  Precedes(order, i, j)
  <2> DEFINE p == CHOOSE r \in DOMAIN order : order[r] = i
             q == CHOOSE r \in DOMAIN order : order[r] = j
  <2>1. p \in DOMAIN order /\ order[p] = i /\ q \in DOMAIN order /\ order[q] = j
    BY <1>6
  <2>2. p < q
    BY <1>7
  <2> HIDE DEF p, q
  <2>3. QED
    BY <2>1, <2>2 DEF Precedes
<1>8. QED
  BY <1>2, <1>3, <1>5, <1>7

-----------------------------------------------------------------------------
(* Scores.                                                                 *)

\* In units of which there are enough, the next place is worth less.
LEMMA NextIsWorthLess ==
    ASSUME NEW x \in Nat \ {0}, NEW y \in Nat, x < y, NEW N \in Nat, y <= N,
           NEW unit \in Nat, unit >= N * N
    PROVE  unit \div x \in Nat /\ unit \div y \in Nat /\ unit \div x > unit \div y
<1> DEFINE q == unit \div y
           r == unit % y
           p == unit \div x
           t == unit % x
<1>1. /\ q \in Int /\ r \in 0 .. y - 1 /\ unit = y * q + r
      /\ p \in Int /\ t \in 0 .. x - 1 /\ unit = x * p + t
  OBVIOUS
<1> HIDE DEF q, r, p, t
<1>2. y \in Nat \ {0} /\ r \in Nat /\ t \in Nat /\ r < y /\ t < x
  BY <1>1
<1>3. y * y <= N * N /\ y * y \in Nat /\ N * N \in Nat
  BY <1>2
<1>4. y * y <= unit
  BY <1>3
<1>5. q >= y
  <2> SUFFICES ASSUME q <= y - 1 PROVE FALSE
    BY <1>1, <1>2
  <2>1. y * q <= y * (y - 1)
    BY <1>1, <1>2
  <2>2. y * (y - 1) = y * y - y
    BY <1>2
  <2>3. y * q \in Int /\ y * y \in Int
    BY <1>1, <1>2
  <2>4. QED
    BY <1>1, <1>2, <1>4, <2>1, <2>2, <2>3
<1>6. p > q
  <2> SUFFICES ASSUME p <= q PROVE FALSE
    BY <1>1
  <2>1. x * p <= x * q
    BY <1>1, <1>2
  <2>2. x * q <= (y - 1) * q
    BY <1>1, <1>2, <1>5
  <2>3. (y - 1) * q = y * q - q
    BY <1>1, <1>2
  <2>4. x * p \in Int /\ x * q \in Int /\ y * q \in Int
    BY <1>1, <1>2
  <2>5. unit < y * q
    BY <1>1, <1>2, <1>5, <2>1, <2>2, <2>3, <2>4
  <2>6. QED
    BY <1>1, <1>2, <2>4, <2>5
<1>7. q \in Nat /\ p \in Nat
  BY <1>1, <1>2, <1>5, <1>6
<1>8. QED
  BY <1>6, <1>7 DEF p, q

LEMMA FinestIsEnough ==
    ASSUME NEW n \in Nat
    PROVE  Finest(n) \in Nat /\ Finest(n) >= (RRF_K + n) * (RRF_K + n)
<1> DEFINE N == RRF_K + n
           M == N * N
<1>1. N \in Nat \ {0}
  BY DEF RRF_K
<1> HIDE DEF N
<1>2. M \in Nat /\ M >= 1
  BY <1>1
<1>3. Finest(n) = 4 * (M * M)
  BY <1>1 DEF Finest, N
<1> HIDE DEF M
<1>4. M * M >= M /\ M * M \in Nat
  BY <1>2
<1>5. QED
  BY <1>2, <1>3, <1>4 DEF M, N

\* The score of a listed chunk, and that nobody behind it has as much.
LEMMA ReciprocalFalls ==
    ASSUME NEW n \in Nat, NEW s, Listing(s, n), NEW i \in 1 .. n, NEW j \in 1 .. n
    PROVE  /\ Reciprocal(s, i, Finest(n)) \in Nat
           /\ Precedes(s, i, j) => Reciprocal(s, i, Finest(n)) > Reciprocal(s, j, Finest(n))
           /\ j \notin ToSet(s) => Reciprocal(s, i, Finest(n)) >= Reciprocal(s, j, Finest(n))
<1> DEFINE unit == Finest(n)
           N == RRF_K + n
           place(x) == CHOOSE r \in DOMAIN s : s[r] = x
<1>1. /\ Len(s) \in Nat /\ DOMAIN s = 1 .. Len(s) /\ ToSet(s) \subseteq 1 .. n
      /\ Cardinality(ToSet(s)) = Len(s) /\ IsInjective(s)
  BY ListingOf DEF Listing
<1>2. IsFiniteSet(1 .. n) /\ Cardinality(1 .. n) = n
  BY CardinalityUpTo
<1>3. Len(s) <= n
  BY <1>1, <1>2, FS_Subset
<1>4. unit \in Nat /\ unit >= N * N /\ N \in Nat
  BY FinestIsEnough DEF RRF_K
<1> HIDE DEF unit
<1>5. ASSUME NEW x \in 1 .. n, NEW p \in DOMAIN s, s[p] = x
      PROVE  Reciprocal(s, x, unit) = unit \div (RRF_K + p)
  <2>1. place(x) \in DOMAIN s /\ s[place(x)] = x
    BY <1>5
  <2>2. place(x) = p
    BY <1>1, <1>5, <2>1 DEF IsInjective
  <2>3. QED
    BY <1>5, <2>2 DEF Reciprocal
<1>6. ASSUME NEW x \in 1 .. n, x \notin ToSet(s)
      PROVE  Reciprocal(s, x, unit) = 0
  BY <1>6 DEF Reciprocal, ToSet
<1>7. ASSUME NEW p \in DOMAIN s
      PROVE  RRF_K + p \in Nat \ {0} /\ RRF_K + p <= N
  BY <1>1, <1>3 DEF RRF_K
<1>8. ASSUME NEW p \in DOMAIN s
      PROVE  unit \div (RRF_K + p) \in Nat
  <2> DEFINE y == RRF_K + p
  <2>1. y \in Nat \ {0}
    BY <1>7
  <2> HIDE DEF y
  <2>2. unit \div y \in Nat
    <3> DEFINE q == unit \div y
               r == unit % y
    <3>2. q \in Int /\ r \in 0 .. y - 1 /\ unit = y * q + r
      BY <1>4, <2>1
    <3> HIDE DEF q, r
    <3>3. SUFFICES ASSUME q <= -1 PROVE FALSE
      BY <3>2 DEF q
    <3>4. y * q <= -y
      BY <2>1, <3>2, <3>3
    <3>5. QED
      BY <1>4, <2>1, <3>2, <3>4
  <2>3. QED
    BY <2>2 DEF y
<1>9. ASSUME NEW x \in 1 .. n PROVE Reciprocal(s, x, unit) \in Nat
  <2>1. CASE x \in ToSet(s)
    <3>1. PICK p \in DOMAIN s : s[p] = x
      BY <2>1 DEF ToSet
    <3>2. QED
      BY <1>5, <1>8, <3>1
  <2>2. CASE x \notin ToSet(s)
    BY <1>6, <2>2
  <2>3. QED
    BY <2>1, <2>2
<1>10. ASSUME Precedes(s, i, j) PROVE Reciprocal(s, i, unit) > Reciprocal(s, j, unit)
  <2>1. PICK p, q \in DOMAIN s : p < q /\ s[p] = i /\ s[q] = j
    BY <1>10 DEF Precedes
  <2> DEFINE x == RRF_K + p
             y == RRF_K + q
  <2>2. x \in Nat \ {0} /\ y \in Nat \ {0} /\ x < y /\ y <= N
    BY <1>1, <1>7, <2>1 DEF RRF_K
  <2>3. Reciprocal(s, i, unit) = unit \div x /\ Reciprocal(s, j, unit) = unit \div y
    BY <1>5, <2>1
  <2> HIDE DEF x, y
  <2>4. unit \div x > unit \div y
    BY <1>4, <2>2, NextIsWorthLess
  <2>5. QED
    BY <2>3, <2>4
<1>11. ASSUME j \notin ToSet(s) PROVE Reciprocal(s, i, unit) >= Reciprocal(s, j, unit)
  BY <1>6, <1>9, <1>11
<1>12. QED
  BY <1>9, <1>10, <1>11 DEF unit

\* The vector store is asked for enough: at least as many of the allowed come
\* back as the answer can hold.
LEMMA EnoughIsFetched ==
    ASSUME NEW n \in Nat, NEW chunks, Len(chunks) = n, NEW A \in SUBSET (1 .. n),
           NEW order, IsRanking(order, n), NEW k \in Nat
    PROVE  LET top == Permitted(Take(order, Fetch(chunks, A, k)), A)
           IN  Listing(top, n) /\ ToSet(top) \subseteq A /\ Len(top) >= Least(k, Cardinality(A))
<1> DEFINE F == Fetch(chunks, A, k)
           T == Take(order, F)
           top == Permitted(T, A)
           others == (1 .. n) \ A
<1>1. IsFiniteSet(1 .. n) /\ Cardinality(1 .. n) = n
  BY CardinalityUpTo
<1>2. /\ IsFiniteSet(A) /\ IsFiniteSet(others)
      /\ Cardinality(A) \in Nat /\ Cardinality(others) = n - Cardinality(A) /\ Cardinality(others) \in Nat
  <2>1. IsFiniteSet(A) /\ IsFiniteSet(others)
    BY <1>1, FS_Subset
  <2>2. Cardinality(A) \in Nat /\ Cardinality(others) \in Nat
    BY <2>1, FS_CardinalityType
  <2>3. A \cup others = 1 .. n /\ A \cap others = {}
    OBVIOUS
  <2> HIDE DEF others
  <2>4. Cardinality(A \cup others) = Cardinality(A) + Cardinality(others) - Cardinality(A \cap others)
    BY <2>1, FS_Union
  <2>5. Cardinality({}) = 0
    BY FS_EmptySet
  <2>a. Cardinality(A \cup others) = n /\ Cardinality(A \cap others) = 0
    BY <1>1, <2>3, <2>5
  <2>6. n = Cardinality(A) + Cardinality(others)
    BY <2>2, <2>4, <2>a
  <2>7. QED
    BY <2>1, <2>2, <2>6
<1>3. /\ F \in Nat /\ F <= n
      /\ F = n \/ F = Larger(k, CandidateK) + n - Cardinality(A)
      /\ Larger(k, CandidateK) \in Nat /\ Larger(k, CandidateK) >= k
  BY <1>2, CandidateAssumption DEF Fetch, Least, Larger
<1> HIDE DEF F
<1>4. Listing(order, n) /\ Len(order) = n
  BY RankingLists
<1>5. Listing(T, n) /\ Len(T) = F
  <2>1. Listing(T, n) /\ Len(T) = Least(F, n)
    BY <1>3, <1>4, TakeKeepsOrder
  <2>2. QED
    BY <1>3, <2>1 DEF Least
<1> HIDE DEF T
<1>6. Listing(top, n) /\ ToSet(top) = A \cap ToSet(T)
  BY <1>5, PermittedKeepsOrder
<1> HIDE DEF top
<1>7. /\ Len(top) = Cardinality(ToSet(top)) /\ Cardinality(ToSet(top)) \in Nat
      /\ Cardinality(ToSet(T)) = F /\ IsFiniteSet(ToSet(T)) /\ ToSet(T) \subseteq 1 .. n
      /\ IsFiniteSet(ToSet(top))
  BY <1>5, <1>6, ListingOf
<1>8. F <= Cardinality(ToSet(top)) + Cardinality(others)
  <2> DEFINE rest == others \cap ToSet(T)
  <2>1. rest \subseteq others /\ ToSet(T) = ToSet(top) \cup rest
    BY <1>6, <1>7
  <2>2. IsFiniteSet(rest) /\ Cardinality(rest) <= Cardinality(others) /\ Cardinality(rest) \in Nat
    <3>1. IsFiniteSet(rest) /\ Cardinality(rest) <= Cardinality(others)
      BY <1>2, <2>1, FS_Subset
    <3>2. QED
      BY <3>1, FS_CardinalityType
  <2> HIDE DEF rest
  <2>3. Cardinality(ToSet(top) \cup rest) = Cardinality(ToSet(top)) + Cardinality(rest) - Cardinality(ToSet(top) \cap rest)
    BY <1>7, <2>2, FS_Union
  <2>4. Cardinality(ToSet(top) \cap rest) \in Nat
    <3>1. IsFiniteSet(ToSet(top) \cap rest)
      BY <1>7, FS_Subset
    <3>2. QED
      BY <3>1, FS_CardinalityType
  <2>5. QED
    BY <1>2, <1>7, <2>1, <2>2, <2>3, <2>4
<1>9. Len(top) >= Least(k, Cardinality(A))
  BY <1>2, <1>3, <1>7, <1>8 DEF Least
<1>10. QED
  BY <1>6, <1>9 DEF top, T, F

-----------------------------------------------------------------------------
(* Searches.                                                               *)

Beats(bm25, dense, mode, i, j) ==
    /\ mode # "dense" => Precedes(bm25, i, j)
    /\ mode # "bm25"  => Precedes(dense, i, j)

\* The k best of the allowed, in the order of the rankings that count.
IsBest(hits, n, A, k, mode, bm25, dense) ==
    /\ Listing(hits, n) /\ ToSet(hits) \subseteq A
    /\ Len(hits) = Least(k, Cardinality(A))
    /\ \A i \in A, j \in ToSet(hits) : Beats(bm25, dense, mode, i, j) => Precedes(hits, i, j)

LEMMA CutOff ==
    ASSUME NEW n \in Nat, NEW A \in SUBSET (1 .. n), NEW s, Listing(s, n), ToSet(s) \subseteq A,
           NEW k \in Nat, Len(s) >= Least(k, Cardinality(A)),
           NEW mode, NEW bm25, NEW dense,
           \A i \in A, j \in ToSet(s) : Beats(bm25, dense, mode, i, j) => Precedes(s, i, j)
    PROVE  IsBest(Take(s, k), n, A, k, mode, bm25, dense)
<1> DEFINE T == Take(s, k)
<1>1. /\ Listing(T, n) /\ Len(T) = Least(k, Len(s)) /\ ToSet(T) \subseteq ToSet(s)
      /\ \A i, j : Precedes(s, i, j) /\ j \in ToSet(T) => Precedes(T, i, j)
  BY TakeKeepsOrder
<1>2. Len(s) \in Nat /\ Cardinality(ToSet(s)) = Len(s)
  BY ListingOf
<1>3. IsFiniteSet(A)
  BY CardinalityUpTo, FS_Subset
<1>4. Len(s) <= Cardinality(A) /\ Cardinality(A) \in Nat
  BY <1>2, <1>3, FS_Subset, FS_CardinalityType
<1> HIDE DEF T
<1>5. Len(T) = Least(k, Cardinality(A))
  BY <1>1, <1>2, <1>4 DEF Least
<1>6. \A i \in A, j \in ToSet(T) : Beats(bm25, dense, mode, i, j) => Precedes(T, i, j)
  BY <1>1
<1>7. QED
  BY <1>1, <1>5, <1>6 DEF IsBest, T

LEMMA LexicalSearch ==
    ASSUME NEW n \in Nat, NEW A \in SUBSET (1 .. n), NEW bm25, IsRanking(bm25, n), NEW dense, NEW k \in Nat
    PROVE  /\ IsBest(Take(Permitted(bm25, A), k), n, A, k, "bm25", bm25, dense)
           /\ Listing(Permitted(bm25, A), n) /\ ToSet(Permitted(bm25, A)) = A
           /\ Len(Permitted(bm25, A)) = Cardinality(A)
           /\ \A i, j \in A : Precedes(bm25, i, j) => Precedes(Permitted(bm25, A), i, j)
<1> DEFINE L == Permitted(bm25, A)
<1>1. Listing(bm25, n) /\ ToSet(bm25) = 1 .. n
  BY RankingLists
<1>a. /\ Listing(L, n) /\ ToSet(L) = A \cap ToSet(bm25)
      /\ \A i, j \in A : Precedes(bm25, i, j) => Precedes(L, i, j)
  BY <1>1, PermittedKeepsOrder
<1> HIDE DEF L
<1>2. /\ Listing(L, n) /\ ToSet(L) = A
      /\ \A i, j \in A : Precedes(bm25, i, j) => Precedes(L, i, j)
  BY <1>1, <1>a
<1>3. Len(L) = Cardinality(A) /\ Cardinality(A) \in Nat
  BY <1>2, ListingOf
<1>4. Len(L) >= Least(k, Cardinality(A))
  BY <1>3 DEF Least
<1>5. \A i \in A, j \in ToSet(L) : Beats(bm25, dense, "bm25", i, j) => Precedes(L, i, j)
  BY <1>2 DEF Beats
<1>6. IsBest(Take(L, k), n, A, k, "bm25", bm25, dense)
  BY <1>2, <1>4, <1>5, CutOff
<1>7. QED
  BY <1>2, <1>3, <1>6 DEF L

\* What the vector store answers keeps its order.
LEMMA DenseTop ==
    ASSUME NEW n \in Nat, NEW chunks, Len(chunks) = n, NEW A \in SUBSET (1 .. n),
           NEW dense, IsRanking(dense, n), NEW k \in Nat
    PROVE  LET top == Permitted(Take(dense, Fetch(chunks, A, k)), A)
           IN  /\ Listing(top, n) /\ ToSet(top) \subseteq A /\ Len(top) >= Least(k, Cardinality(A))
               /\ \A i \in A, j \in ToSet(top) : Precedes(dense, i, j) => Precedes(top, i, j)
<1> DEFINE F == Fetch(chunks, A, k)
           T == Take(dense, F)
           top == Permitted(T, A)
<1>1. Listing(top, n) /\ ToSet(top) \subseteq A /\ Len(top) >= Least(k, Cardinality(A))
  BY EnoughIsFetched
<1>2. F \in Nat
  <2>1. IsFiniteSet(1 .. n) /\ Cardinality(1 .. n) = n
    BY CardinalityUpTo
  <2>2. IsFiniteSet(A) /\ Cardinality(A) <= n
    BY <2>1, FS_Subset
  <2>3. Cardinality(A) \in Nat
    BY <2>2, FS_CardinalityType
  <2>4. QED
    BY <2>2, <2>3, CandidateAssumption DEF Fetch, Least, Larger
<1> HIDE DEF F
<1>3. Listing(dense, n)
  BY RankingLists
<1>4. Listing(T, n) /\ \A i, j : Precedes(dense, i, j) /\ j \in ToSet(T) => Precedes(T, i, j)
  BY <1>2, <1>3, TakeKeepsOrder
<1> HIDE DEF T
<1>5. ToSet(top) = A \cap ToSet(T) /\ \A i, j \in A : Precedes(T, i, j) => Precedes(top, i, j)
  BY <1>4, PermittedKeepsOrder
<1> HIDE DEF top
<1>6. \A i \in A, j \in ToSet(top) : Precedes(dense, i, j) => Precedes(top, i, j)
  BY <1>4, <1>5
<1>7. QED
  BY <1>1, <1>6 DEF top, T, F

LEMMA DenseSearch ==
    ASSUME NEW n \in Nat, NEW chunks, Len(chunks) = n, NEW A \in SUBSET (1 .. n),
           NEW dense, IsRanking(dense, n), NEW bm25, NEW k \in Nat
    PROVE  IsBest(Take(Permitted(Take(dense, Fetch(chunks, A, k)), A), k), n, A, k, "dense", bm25, dense)
<1> DEFINE top == Permitted(Take(dense, Fetch(chunks, A, k)), A)
<1>1. /\ Listing(top, n) /\ ToSet(top) \subseteq A /\ Len(top) >= Least(k, Cardinality(A))
      /\ \A i \in A, j \in ToSet(top) : Precedes(dense, i, j) => Precedes(top, i, j)
  BY DenseTop
<1> HIDE DEF top
<1>2. \A i \in A, j \in ToSet(top) : Beats(bm25, dense, "dense", i, j) => Precedes(top, i, j)
  BY <1>1 DEF Beats
<1>3. IsBest(Take(top, k), n, A, k, "dense", bm25, dense)
  BY <1>1, <1>2, CutOff
<1>4. QED
  BY <1>3 DEF top

\* Positions sorted by scores: higher scores are ahead.
LEMMA SortedByScore ==
    ASSUME NEW n \in Nat, NEW S \in SUBSET (1 .. n), NEW score \in [S -> Int]
    PROVE  LET sorted == Pick([i \in 1 .. n |-> i], S, [i \in S |-> -score[i]])
           IN  /\ Listing(sorted, n) /\ ToSet(sorted) = S
               /\ \A i, j \in S : score[i] > score[j] => Precedes(sorted, i, j)
<1> DEFINE s == [i \in 1 .. n |-> i]
           key == [i \in S |-> -score[i]]
           c == Cardinality(S)
           sorted == Pick(s, S, key)
<1>1. s \in Seq(1 .. n) /\ S \in SUBSET DOMAIN s /\ key \in [S -> Int] /\ \A i \in 1 .. n : s[i] = i
  OBVIOUS
<1>2. \A i \in S : key[i] = -score[i] /\ score[i] \in Int
  OBVIOUS
<1> HIDE DEF s, key
<1>3. /\ Pick(s, S, key) \in Seq(1 .. n)
      /\ Len(Pick(s, S, key)) = Cardinality(S) /\ Cardinality(S) \in Nat
      /\ \E place : /\ Enumerates(place, S, key)
                    /\ \A m \in 1 .. Cardinality(S) : Pick(s, S, key)[m] = s[place[m]]
  <2> DEFINE R == 1 .. n
  <2>1. s \in Seq(R) /\ S \in SUBSET DOMAIN s /\ key \in [S -> Int]
    BY <1>1
  <2> HIDE DEF R
  <2>2. /\ Pick(s, S, key) \in Seq(R)
        /\ Len(Pick(s, S, key)) = Cardinality(S) /\ Cardinality(S) \in Nat
        /\ \E place : /\ Enumerates(place, S, key)
                      /\ \A m \in 1 .. Cardinality(S) : Pick(s, S, key)[m] = s[place[m]]
    BY ONLY <2>1, PickIsOrdered
  <2>3. QED
    BY <2>2 DEF R
<1>4. PICK place : Enumerates(place, S, key) /\ \A m \in 1 .. c : sorted[m] = s[place[m]]
  BY <1>3
<1> HIDE DEF sorted
<1>5. place \in [1 .. c -> S] /\ \A i \in S : \E m \in 1 .. c : place[m] = i
  BY <1>4 DEF Enumerates
<1>6. \A m \in 1 .. c : sorted[m] = place[m] /\ place[m] \in S
  BY <1>1, <1>4, <1>5
<1>7. DOMAIN sorted = 1 .. c /\ sorted \in Seq(1 .. n) /\ c \in Nat
  BY <1>3 DEF sorted
<1>8. S \in SUBSET Int
  OBVIOUS
<1>9. IsInjective(sorted)
  <2> SUFFICES ASSUME NEW l \in 1 .. c, NEW m \in 1 .. c, sorted[l] = sorted[m] PROVE l = m
    BY <1>7 DEF IsInjective
  <2>1. place[l] = place[m]
    BY <1>6
  <2>2. QED
    BY <1>1, <1>4, <1>7, <1>8, <2>1, EnumeratesOnce
<1>10. ToSet(sorted) = S
  <2>1. ToSet(sorted) = {sorted[m] : m \in 1 .. c}
    BY <1>7 DEF ToSet
  <2>2. \A m \in 1 .. c : sorted[m] \in S
    BY <1>6
  <2>3. ASSUME NEW i \in S PROVE \E m \in 1 .. c : sorted[m] = i
    BY <1>5, <1>6
  <2>4. ToSet(sorted) \subseteq S
    BY <2>1, <2>2
  <2>5. S \subseteq ToSet(sorted)
    BY <2>1, <2>3
  <2>6. QED
    BY <2>4, <2>5
<1>11. ASSUME NEW i \in S, NEW j \in S, score[i] > score[j] PROVE Precedes(sorted, i, j)
  <2>1. PICK l \in 1 .. c : place[l] = i
    BY <1>5
  <2>2. PICK m \in 1 .. c : place[m] = j
    BY <1>5
  <2>3. key[i] < key[j] /\ key[i] \in Int /\ key[j] \in Int
    BY <1>2, <1>11
  <2>4. ~(m < l) /\ l # m
    BY <1>4, <2>1, <2>2, <2>3 DEF Enumerates
  <2>5. l < m
    BY <1>7, <2>4
  <2>6. QED
    BY <1>6, <1>7, <2>1, <2>2, <2>5 DEF Precedes
<1>12. QED
  BY <1>7, <1>9, <1>10, <1>11 DEF Listing, sorted, s, key

\* Who beats another in both rankings has the higher sum.
LEMMA HybridSearch ==
    ASSUME NEW n \in Nat, NEW chunks, Len(chunks) = n, NEW A \in SUBSET (1 .. n),
           NEW bm25, IsRanking(bm25, n), NEW dense, IsRanking(dense, n), NEW k \in Nat
    PROVE  LET lexical    == Permitted(bm25, A)
               dense_top  == Permitted(Take(dense, Fetch(chunks, A, k)), A)
               candidates == Take(lexical, Larger(k, CandidateK))
               fused      == [i \in ToSet(candidates) \cup ToSet(dense_top) |->
                                 Reciprocal(candidates, i, Finest(n)) + Reciprocal(dense_top, i, Finest(n))]
               sorted     == Pick([i \in 1 .. n |-> i], DOMAIN fused, [i \in DOMAIN fused |-> -fused[i]])
           IN  IsBest(Take(sorted, k), n, A, k, "hybrid", bm25, dense)
<1> DEFINE lexical    == Permitted(bm25, A)
           dense_top  == Permitted(Take(dense, Fetch(chunks, A, k)), A)
           C          == Larger(k, CandidateK)
           candidates == Take(lexical, C)
           S          == ToSet(candidates) \cup ToSet(dense_top)
           score(x, i) == Reciprocal(x, i, Finest(n))
           fused      == [i \in S |-> score(candidates, i) + score(dense_top, i)]
           sorted     == Pick([i \in 1 .. n |-> i], S, [i \in S |-> -fused[i]])
<1>1. /\ Listing(lexical, n) /\ ToSet(lexical) = A /\ Len(lexical) = Cardinality(A)
      /\ \A i, j \in A : Precedes(bm25, i, j) => Precedes(lexical, i, j)
  BY LexicalSearch
<1>2. /\ Listing(dense_top, n) /\ ToSet(dense_top) \subseteq A
      /\ \A i \in A, j \in ToSet(dense_top) : Precedes(dense, i, j) => Precedes(dense_top, i, j)
  BY DenseTop
<1>3. C \in Nat /\ C >= k
  BY CandidateAssumption DEF Larger
<1>4. Cardinality(A) \in Nat /\ IsFiniteSet(A)
  BY <1>1, ListingOf
<1> HIDE DEF lexical, dense_top, C
<1>5. /\ Listing(candidates, n) /\ Len(candidates) = Least(C, Cardinality(A))
      /\ ToSet(candidates) \subseteq A
      /\ \A i, j : Precedes(lexical, i, j) /\ j \in ToSet(candidates) => Precedes(candidates, i, j)
  BY <1>1, <1>3, TakeKeepsOrder
<1> HIDE DEF candidates
<1>6. S \subseteq A /\ S \in SUBSET (1 .. n)
  BY <1>2, <1>5
<1>7. ASSUME NEW i \in 1 .. n
      PROVE  score(candidates, i) \in Nat /\ score(dense_top, i) \in Nat
  BY <1>2, <1>5, ReciprocalFalls
<1> HIDE DEF score
<1>8. fused \in [S -> Int] /\ \A i \in S : fused[i] = score(candidates, i) + score(dense_top, i)
  BY <1>6, <1>7
<1> HIDE DEF fused, S
<1>9. /\ Listing(sorted, n) /\ ToSet(sorted) = S
      /\ \A i, j \in S : fused[i] > fused[j] => Precedes(sorted, i, j)
  BY <1>6, <1>8, SortedByScore
<1> HIDE DEF sorted
<1>10. Len(sorted) >= Least(k, Cardinality(A))
  <2>1. Len(sorted) = Cardinality(S) /\ IsFiniteSet(S) /\ Cardinality(S) \in Nat
    BY <1>9, ListingOf
  <2>2. Cardinality(ToSet(candidates)) = Len(candidates)
    BY <1>5, ListingOf
  <2>3. ToSet(candidates) \subseteq S
    BY DEF S
  <2>4. Cardinality(ToSet(candidates)) <= Cardinality(S)
    BY <2>1, <2>3, FS_Subset
  <2>5. QED
    BY <1>3, <1>4, <1>5, <2>1, <2>2, <2>4 DEF Least
<1>11. ASSUME NEW i \in A, NEW j \in S, Precedes(bm25, i, j), Precedes(dense, i, j)
       PROVE  Precedes(sorted, i, j)
  <2>0. i \in 1 .. n /\ j \in 1 .. n /\ j \in A
    BY <1>6
  <2>1. /\ j \in ToSet(candidates) => Precedes(candidates, i, j)
        /\ j \in ToSet(dense_top) => Precedes(dense_top, i, j)
    BY <1>1, <1>2, <1>5, <1>11, <2>0
  <2>2. /\ Precedes(candidates, i, j) => score(candidates, i) > score(candidates, j)
        /\ j \notin ToSet(candidates) => score(candidates, i) >= score(candidates, j)
        /\ Precedes(dense_top, i, j) => score(dense_top, i) > score(dense_top, j)
        /\ j \notin ToSet(dense_top) => score(dense_top, i) >= score(dense_top, j)
    BY <1>2, <1>5, <2>0, ReciprocalFalls DEF score
  <2>3. /\ score(candidates, i) \in Nat /\ score(dense_top, i) \in Nat
        /\ score(candidates, j) \in Nat /\ score(dense_top, j) \in Nat
    BY <1>7, <2>0
  <2>4. j \in ToSet(candidates) \/ j \in ToSet(dense_top)
    BY DEF S
  <2>5. \A x : Precedes(x, i, j) => i \in ToSet(x)
    BY DEF Precedes, ToSet
  <2>6. i \in S
    BY <2>1, <2>4, <2>5 DEF S
  <2>7. score(candidates, i) + score(dense_top, i) > score(candidates, j) + score(dense_top, j)
    <3> DEFINE a == score(candidates, i)
               b == score(dense_top, i)
               c == score(candidates, j)
               d == score(dense_top, j)
    <3>1. a \in Nat /\ b \in Nat /\ c \in Nat /\ d \in Nat
      BY <2>3
    <3>2. (a > c /\ b >= d) \/ (a >= c /\ b > d) \/ (a > c /\ b > d)
      BY <2>1, <2>2, <2>4
    <3> HIDE DEF a, b, c, d
    <3>3. a + b > c + d
      BY <3>1, <3>2
    <3>4. QED
      BY <3>3 DEF a, b, c, d
  <2>8. fused[i] > fused[j]
    BY <1>8, <2>6, <2>7
  <2>9. QED
    BY <1>9, <2>6, <2>8
<1>12. \A i \in A, j \in ToSet(sorted) : Beats(bm25, dense, "hybrid", i, j) => Precedes(sorted, i, j)
  BY <1>9, <1>11 DEF Beats
<1>13. IsBest(Take(sorted, k), n, A, k, "hybrid", bm25, dense)
  BY <1>6, <1>9, <1>10, <1>12, CutOff
<1>14. DOMAIN fused = S
  BY <1>8
<1>15. QED
  BY <1>13, <1>14 DEF sorted, fused, S, candidates, C, dense_top, lexical, score

LEMMA SearchIsBest ==
    ASSUME NEW n \in Nat, NEW chunks, Len(chunks) = n, DOMAIN chunks = 1 .. n,
           NEW bm25, IsRanking(bm25, n), NEW dense, IsRanking(dense, n),
           NEW mode \in Modes, NEW k \in Nat, NEW include_untrusted \in BOOLEAN
    PROVE  IsBest(Search(chunks, bm25, dense, mode, k, include_untrusted), n,
                  Allowed(chunks, include_untrusted), k, mode, bm25, dense)
<1> DEFINE A == Allowed(chunks, include_untrusted)
           hits == Search(chunks, bm25, dense, mode, k, include_untrusted)
<1>1. A \in SUBSET (1 .. n)
  BY DEF Allowed
<1>2. CASE mode = "bm25"
  <2>1. hits = Take(Permitted(bm25, A), k)
    BY <1>2 DEF Search
  <2>2. IsBest(Take(Permitted(bm25, A), k), n, A, k, "bm25", bm25, dense)
    BY <1>1, LexicalSearch
  <2>3. QED
    BY <1>2, <2>1, <2>2
<1>3. CASE mode = "dense"
  <2>1. hits = Take(Permitted(Take(dense, Fetch(chunks, A, k)), A), k)
    BY <1>3 DEF Search
  <2>2. IsBest(Take(Permitted(Take(dense, Fetch(chunks, A, k)), A), k), n, A, k, "dense", bm25, dense)
    BY <1>1, DenseSearch
  <2>3. QED
    BY <1>3, <2>1, <2>2
<1>4. CASE mode = "hybrid"
  <2> DEFINE lexical    == Permitted(bm25, A)
             dense_top  == Permitted(Take(dense, Fetch(chunks, A, k)), A)
             candidates == Take(lexical, Larger(k, CandidateK))
             fused      == [i \in ToSet(candidates) \cup ToSet(dense_top) |->
                               Reciprocal(candidates, i, Finest(n)) + Reciprocal(dense_top, i, Finest(n))]
             sorted     == Pick([i \in 1 .. n |-> i], DOMAIN fused, [i \in DOMAIN fused |-> -fused[i]])
  <2>1. hits = Take(sorted, k)
    BY <1>4 DEF Search
  <2> HIDE DEF A
  <2>2. IsBest(Take(sorted, k), n, A, k, "hybrid", bm25, dense)
    BY <1>1, HybridSearch
  <2> HIDE DEF sorted
  <2>3. QED
    BY <1>4, <2>1, <2>2 DEF A
<1>5. QED
  BY <1>2, <1>3, <1>4 DEF Modes

LEMMA AnswersAreBest ==
    ASSUME NEW n \in Nat, NEW chunks, Len(chunks) = n, DOMAIN chunks = 1 .. n,
           NEW bm25, IsRanking(bm25, n), NEW dense, IsRanking(dense, n),
           NEW mode \in Modes, NEW k \in Nat, NEW include_untrusted \in BOOLEAN
    PROVE  AnswersAreTheBestAllowed(chunks, bm25, dense, mode, k, include_untrusted)
<1> DEFINE A == Allowed(chunks, include_untrusted)
           hits == Search(chunks, bm25, dense, mode, k, include_untrusted)
           place(order, i) == CHOOSE r \in DOMAIN order : order[r] = i
           beats(i, j) == /\ mode # "dense" => place(bm25, i) < place(bm25, j)
                          /\ mode # "bm25"  => place(dense, i) < place(dense, j)
<1>1. IsBest(hits, n, A, k, mode, bm25, dense)
  BY SearchIsBest
<1>2. A \subseteq 1 .. n
  BY DEF Allowed
<1> HIDE DEF hits, A
<1>3. ASSUME NEW i \in A, NEW r \in DOMAIN hits, beats(i, hits[r])
      PROVE  \E q \in 1 .. r - 1 : hits[q] = i
  <2>1. Listing(hits, n) /\ hits[r] \in ToSet(hits) /\ hits[r] \in A
    BY <1>1 DEF IsBest, ToSet
  <2>2. i \in 1 .. n /\ hits[r] \in 1 .. n
    BY <1>2, <2>1
  <2>3. mode # "dense" => Precedes(bm25, i, hits[r])
    BY <1>3, <2>2, RankingLists
  <2>4. mode # "bm25" => Precedes(dense, i, hits[r])
    BY <1>3, <2>2, RankingLists
  <2>5. Precedes(hits, i, hits[r])
    BY <1>1, <2>1, <2>3, <2>4 DEF IsBest, Beats
  <2>6. QED
    BY <2>1, <2>5, AheadIsEarlier
<1>4. Len(hits) = Least(k, Cardinality(A)) /\ IsInjective(hits) /\ ToSet(hits) \subseteq A
  BY <1>1 DEF IsBest, Listing
<1>5. QED
  BY <1>3, <1>4 DEF AnswersAreTheBestAllowed, hits, A

-----------------------------------------------------------------------------
(* Sequences of sequences, one after the other.                            *)

LEMMA ConcatHolds ==
    ASSUME NEW S, NEW s \in Seq(S), NEW t \in Seq(S)
    PROVE  /\ s \o t \in Seq(S) /\ Len(s \o t) = Len(s) + Len(t)
           /\ Len(s) \in Nat /\ Len(t) \in Nat
           /\ DOMAIN (s \o t) = 1 .. Len(s) + Len(t)
           /\ \A p \in 1 .. Len(s) : (s \o t)[p] = s[p]
           /\ \A p \in 1 .. Len(t) : (s \o t)[Len(s) + p] = t[p]
           /\ \A p \in 1 .. Len(s) + Len(t) : p \notin 1 .. Len(s) =>
                  p - Len(s) \in 1 .. Len(t) /\ (s \o t)[p] = t[p - Len(s)]
           /\ ToSet(s \o t) = ToSet(s) \cup ToSet(t)
<1>1. /\ s \o t \in Seq(S) /\ Len(s \o t) = Len(s) + Len(t)
      /\ Len(s) \in Nat /\ Len(t) \in Nat /\ DOMAIN s = 1 .. Len(s) /\ DOMAIN t = 1 .. Len(t)
      /\ \A p \in 1 .. Len(s) : (s \o t)[p] = s[p]
      /\ \A p \in 1 .. Len(s) + Len(t) : p > Len(s) => (s \o t)[p] = t[p - Len(s)]
  OBVIOUS
<1>2. DOMAIN (s \o t) = 1 .. Len(s) + Len(t)
  BY <1>1
<1> DEFINE c == s \o t
           m == Len(s)
           n == Len(t)
<1>3. /\ m \in Nat /\ n \in Nat /\ DOMAIN c = 1 .. m + n
      /\ \A p \in 1 .. m : c[p] = s[p]
      /\ \A p \in 1 .. m + n : p > m => c[p] = t[p - m]
  BY <1>1, <1>2
<1>4. ToSet(s) = {s[p] : p \in 1 .. m} /\ ToSet(t) = {t[p] : p \in 1 .. n} /\ ToSet(c) = {c[p] : p \in 1 .. m + n}
  BY <1>1, <1>2 DEF ToSet
<1> HIDE DEF c, m, n
<1>5. \A p \in 1 .. n : c[m + p] = t[p]
  <2> SUFFICES ASSUME NEW p \in 1 .. n PROVE c[m + p] = t[p]
    OBVIOUS
  <2>1. m + p \in 1 .. m + n /\ m + p > m /\ (m + p) - m = p
    BY <1>3
  <2>2. QED
    BY <1>3, <2>1
<1>6. \A p \in 1 .. m + n : p \notin 1 .. m => p - m \in 1 .. n /\ c[p] = t[p - m]
  <2> SUFFICES ASSUME NEW p \in 1 .. m + n, p \notin 1 .. m PROVE p - m \in 1 .. n /\ c[p] = t[p - m]
    OBVIOUS
  <2>1. p > m /\ p - m \in 1 .. n
    BY <1>3
  <2>2. QED
    BY <1>3, <2>1
<1>7. ToSet(c) = ToSet(s) \cup ToSet(t)
  <2>1. ASSUME NEW p \in 1 .. m + n PROVE c[p] \in ToSet(s) \cup ToSet(t)
    <3>1. CASE p \in 1 .. m
      BY <1>3, <1>4, <3>1
    <3>2. CASE p \notin 1 .. m
      BY <1>4, <1>6, <3>2
    <3>3. QED
      BY <3>1, <3>2
  <2>2. ASSUME NEW p \in 1 .. m PROVE s[p] \in ToSet(c)
    <3>1. p \in 1 .. m + n /\ c[p] = s[p]
      BY <1>3
    <3>2. QED
      BY <1>4, <3>1
  <2>3. ASSUME NEW p \in 1 .. n PROVE t[p] \in ToSet(c)
    <3>1. m + p \in 1 .. m + n /\ c[m + p] = t[p]
      BY <1>3, <1>5
    <3>2. QED
      BY <1>4, <3>1
  <2>4. ToSet(c) \subseteq ToSet(s) \cup ToSet(t)
    BY <1>4, <2>1
  <2>5. ToSet(s) \subseteq ToSet(c) /\ ToSet(t) \subseteq ToSet(c)
    BY <1>4, <2>2, <2>3
  <2>6. QED
    BY <2>4, <2>5
<1>8. QED
  BY <1>1, <1>2, <1>5, <1>6, <1>7 DEF c, m, n

Flattens(h, seqs, S) ==
    /\ h \in [0 .. Len(seqs) -> Seq(S)] /\ h[0] = <<>>
    /\ \A n \in 1 .. Len(seqs) : h[n] = h[n - 1] \o seqs[n]
    /\ FlattenSeq(seqs) = h[Len(seqs)]

LEMMA FlattenUnfolds ==
    ASSUME NEW S, NEW seqs \in Seq(Seq(S))
    PROVE  \E h : Flattens(h, seqs, S)
<1> DEFINE N == Len(seqs)
           V == Seq(S)
           apply == [p \in V \X (1 .. N) |-> p[1] \o seqs[p[2]]]
<1>1. N \in Nat /\ \A n \in 1 .. N : seqs[n] \in V
  OBVIOUS
<1>2. \A v \in V, n \in 1 .. N : apply[<<v, n>>] = v \o seqs[n] /\ v \o seqs[n] \in V
  BY <1>1, ConcatHolds
<1>b. <<>> \in V
  OBVIOUS
<1> HIDE DEF V
<1>c. \A v \in V, n \in 1 .. N : apply[<<v, n>>] \in V
  BY <1>2
<1> HIDE DEF apply
<1>3. StaysIn(V, apply, 1 .. N) /\ <<>> \in V
  BY <1>b, <1>c DEF StaysIn
<1> HIDE DEF N
<1>4. PICK g \in [0 .. N -> V] : g[0] = <<>> /\ \A n \in 1 .. N : g[n] = apply[<<g[n - 1], n>>]
  <2>1. N \in Nat
    BY <1>1
  <2> DEFINE e == <<>>
  <2>a. StaysIn(V, apply, 1 .. N) /\ e \in V
    BY <1>3
  <2> HIDE DEF e
  <2>b. \E g \in [0 .. N -> V] : g[0] = e /\ \A n \in 1 .. N : g[n] = apply[<<g[n - 1], n>>]
    BY ONLY <2>a, <2>1, StepsExist, SMTT(20)
  <2>2. \E g \in [0 .. N -> V] : g[0] = <<>> /\ \A n \in 1 .. N : g[n] = apply[<<g[n - 1], n>>]
    BY <2>b DEF e
  <2>3. QED
    BY <2>2
<1>5. \A n \in 1 .. N : n - 1 \in 0 .. N /\ g[n - 1] \in V /\ g[n] = g[n - 1] \o seqs[n]
  <2> SUFFICES ASSUME NEW n \in 1 .. N
               PROVE  n - 1 \in 0 .. N /\ g[n - 1] \in V /\ g[n] = g[n - 1] \o seqs[n]
    OBVIOUS
  <2>1. n - 1 \in 0 .. N
    BY <1>1
  <2>2. g[n - 1] \in V
    BY <2>1
  <2>3. QED
    BY <1>2, <1>4, <2>1, <2>2
<1>6. FlattenSeq(seqs) = g[N]
  <2>1. CASE N = 0
    <3>1. seqs = <<>>
      BY <2>1 DEF N
    <3>2. FlattenSeq(seqs) = seqs
      BY <2>1 DEF FlattenSeq, N
    <3>3. QED
      BY <1>4, <2>1, <3>1, <3>2
  <2>2. CASE N # 0
    <3> DEFINE Flat(f) == f = [i \in 1 .. N |-> IF i = 1 THEN seqs[i] ELSE f[i - 1] \o seqs[i]]
               f0 == CHOOSE f : Flat(f)
               F == [i \in 1 .. N |-> g[i]]
    <3>1. FlattenSeq(seqs) = f0[N]
      BY <2>2 DEF FlattenSeq, N
    <3>2. g[1] = seqs[1]
      <4>1. 1 \in 1 .. N /\ 1 - 1 = 0
        BY <1>1, <2>2
      <4>2. g[1] = <<>> \o seqs[1]
        BY <1>4, <1>5, <4>1
      <4>3. seqs[1] \in Seq(S)
        BY <1>1, <4>1 DEF V
      <4>4. <<>> \o seqs[1] = seqs[1]
        BY <4>3
      <4>5. QED
        BY <4>2, <4>4
    <3>3. Flat(F)
      <4> SUFFICES ASSUME NEW i \in 1 .. N, i # 1 PROVE g[i] = F[i - 1] \o seqs[i]
        BY <3>2
      <4>1. i - 1 \in 1 .. N
        BY <1>1
      <4>2. QED
        BY <1>5, <4>1
    <3>4. \E f : Flat(f)
      BY <3>3
    <3> HIDE DEF Flat
    <3>5. Flat(f0)
      BY <3>4
    <3> HIDE DEF f0
    <3>6. \A i \in 1 .. N : f0[i] = IF i = 1 THEN seqs[i] ELSE f0[i - 1] \o seqs[i]
      BY <3>5 DEF Flat
    <3> DEFINE P == {n \in 0 .. N : n = 0 \/ f0[n] = g[n]}
    <3>7. 0 \in P
      BY <1>1
    <3>8. ASSUME NEW m \in 0 .. N - 1, m \in P PROVE m + 1 \in P
      <4>1. m + 1 \in 1 .. N /\ (m + 1) - 1 = m /\ m + 1 \in 0 .. N
        BY <1>1
      <4>2. CASE m = 0
        BY <3>2, <3>6, <4>1, <4>2
      <4>3. CASE m # 0
        <5>1. f0[m] = g[m] /\ m + 1 # 1
          BY <3>8, <4>3
        <5>2. f0[m + 1] = f0[m] \o seqs[m + 1]
          BY <3>6, <4>1, <5>1
        <5>3. g[m + 1] = g[m] \o seqs[m + 1]
          BY <1>5, <4>1
        <5>4. QED
          BY <4>1, <5>1, <5>2, <5>3
      <4>4. QED
        BY <4>2, <4>3
    <3> HIDE DEF P
    <3>9. 0 .. N \subseteq P
      BY <1>1, <3>7, <3>8, Inductively
    <3>10. QED
      BY <1>1, <2>2, <3>1, <3>9 DEF P
  <2>3. QED
    BY <2>1, <2>2
<1>7. QED
  BY <1>4, <1>5, <1>6 DEF Flattens, N, V

\* An element of the whole is one of the parts, and the other way round.
LEMMA FlattenHolds ==
    ASSUME NEW S, NEW seqs \in Seq(Seq(S))
    PROVE  /\ FlattenSeq(seqs) \in Seq(S)
           /\ \A x : x \in ToSet(FlattenSeq(seqs)) <=> \E i \in DOMAIN seqs : x \in ToSet(seqs[i])
<1> DEFINE N == Len(seqs)
<1>1. PICK h : Flattens(h, seqs, S)
  BY FlattenUnfolds
<1>2. /\ h \in [0 .. N -> Seq(S)] /\ h[0] = <<>>
      /\ \A n \in 1 .. N : h[n] = h[n - 1] \o seqs[n]
      /\ FlattenSeq(seqs) = h[N]
  BY <1>1 DEF Flattens
<1>3. N \in Nat /\ DOMAIN seqs = 1 .. N /\ \A i \in 1 .. N : seqs[i] \in Seq(S)
  OBVIOUS
<1> HIDE DEF N
<1> DEFINE holds(n) == \A x : x \in ToSet(h[n]) <=> \E i \in 1 .. n : x \in ToSet(seqs[i])
           P == {n \in 0 .. N : holds(n)}
<1>4. 0 \in P
  <2>1. ToSet(h[0]) = {}
    BY <1>2 DEF ToSet
  <2>2. QED
    BY <1>3, <2>1
<1>5. ASSUME NEW m \in 0 .. N - 1, m \in P PROVE m + 1 \in P
  <2>1. m + 1 \in 1 .. N /\ (m + 1) - 1 = m /\ m + 1 \in 0 .. N /\ m \in 0 .. N
    BY <1>3
  <2>2. h[m + 1] = h[m] \o seqs[m + 1] /\ h[m] \in Seq(S) /\ seqs[m + 1] \in Seq(S)
    BY <1>2, <1>3, <2>1
  <2>3. ToSet(h[m + 1]) = ToSet(h[m]) \cup ToSet(seqs[m + 1])
    BY <2>2, ConcatHolds
  <2>4. 1 .. m + 1 = (1 .. m) \cup {m + 1}
    BY <2>1
  <2>5. holds(m)
    BY <1>5
  <2>6. holds(m + 1)
    BY <2>3, <2>4, <2>5
  <2>7. QED
    BY <2>1, <2>6
<1> HIDE DEF P
<1>6. 0 .. N \subseteq P
  BY <1>3, <1>4, <1>5, Inductively
<1>7. holds(N)
  BY <1>3, <1>6 DEF P
<1>8. N \in 0 .. N
  BY <1>3
<1>9. FlattenSeq(seqs) \in Seq(S)
  BY <1>2, <1>8
<1>10. QED
  BY <1>2, <1>3, <1>7, <1>9

\* Ids that tell the elements of a part apart, and the parts, tell all apart.
TellsApart(s) == \A p, q \in DOMAIN s : s[p].id = s[q].id => p = q

LEMMA FlattenTellsApart ==
    ASSUME NEW S, NEW seqs \in Seq(Seq(S)),
           \A i \in DOMAIN seqs : TellsApart(seqs[i]),
           \A i, j \in DOMAIN seqs : i # j => \A x \in ToSet(seqs[i]), y \in ToSet(seqs[j]) : x.id # y.id
    PROVE  TellsApart(FlattenSeq(seqs))
<1> DEFINE N == Len(seqs)
<1>1. PICK h : Flattens(h, seqs, S)
  BY FlattenUnfolds
<1>2. /\ h \in [0 .. N -> Seq(S)] /\ h[0] = <<>>
      /\ \A n \in 1 .. N : h[n] = h[n - 1] \o seqs[n]
      /\ FlattenSeq(seqs) = h[N]
  BY <1>1 DEF Flattens
<1>3. N \in Nat /\ DOMAIN seqs = 1 .. N /\ \A i \in 1 .. N : seqs[i] \in Seq(S)
  OBVIOUS
<1>a. /\ \A i \in 1 .. N : TellsApart(seqs[i])
      /\ \A i, j \in 1 .. N : i # j => \A x \in ToSet(seqs[i]), y \in ToSet(seqs[j]) : x.id # y.id
  BY <1>3
<1> HIDE DEF N
<1> DEFINE within(n) == \A x \in ToSet(h[n]) : \E i \in 1 .. n : x \in ToSet(seqs[i])
           P == {n \in 0 .. N : within(n) /\ TellsApart(h[n])}
<1>4. 0 \in P
  <2>1. ToSet(h[0]) = {} /\ DOMAIN h[0] = {}
    BY <1>2 DEF ToSet
  <2>2. QED
    BY <1>3, <2>1 DEF TellsApart
<1>5. ASSUME NEW m \in 0 .. N - 1, m \in P PROVE m + 1 \in P
  <2>1. m + 1 \in 1 .. N /\ (m + 1) - 1 = m /\ m + 1 \in 0 .. N /\ m \in 0 .. N
    BY <1>3
  <2> DEFINE s == h[m]
             t == seqs[m + 1]
  <2>2. h[m + 1] = s \o t /\ s \in Seq(S) /\ t \in Seq(S)
    BY <1>2, <1>3, <2>1
  <2>a. within(m) /\ TellsApart(s) /\ TellsApart(t)
    BY <1>5, <1>a, <2>1
  <2> HIDE DEF s, t
  <2> DEFINE k == Len(s)
             l == Len(t)
  <2>3. /\ ToSet(s \o t) = ToSet(s) \cup ToSet(t)
        /\ k \in Nat /\ l \in Nat /\ DOMAIN (s \o t) = 1 .. k + l
        /\ \A p \in 1 .. k : (s \o t)[p] = s[p]
        /\ \A p \in 1 .. k + l : p \notin 1 .. k => p - k \in 1 .. l /\ (s \o t)[p] = t[p - k]
    BY ONLY <2>2, ConcatHolds
  <2>4. 1 .. m + 1 = (1 .. m) \cup {m + 1} /\ m + 1 \notin 1 .. m /\ 1 .. m \subseteq 1 .. N
    BY <1>3, <2>1
  <2>5. within(m) /\ TellsApart(s)
    BY <2>a
  <2>6. DOMAIN s = 1 .. k /\ DOMAIN t = 1 .. l /\ TellsApart(t)
    BY <2>2, <2>a
  <2> HIDE DEF k, l
  <2>7. \A x \in ToSet(s), y \in ToSet(t) : x.id # y.id
    <3> SUFFICES ASSUME NEW x \in ToSet(s), NEW y \in ToSet(t) PROVE x.id # y.id
      OBVIOUS
    <3>1. PICK i \in 1 .. m : x \in ToSet(seqs[i])
      BY <2>5 DEF s
    <3>2. i # m + 1 /\ i \in 1 .. N
      BY <2>4
    <3>3. QED
      BY <1>a, <2>1, <3>1, <3>2 DEF t
  <2>8. within(m + 1)
    <3> SUFFICES ASSUME NEW x \in ToSet(h[m + 1]) PROVE \E i \in 1 .. m + 1 : x \in ToSet(seqs[i])
      OBVIOUS
    <3>1. x \in ToSet(s) \/ x \in ToSet(t)
      BY <2>2, <2>3
    <3>2. QED
      BY <2>4, <2>5, <3>1 DEF s, t
  <2>9. TellsApart(s \o t)
    <3> SUFFICES ASSUME NEW p \in 1 .. k + l, NEW q \in 1 .. k + l, (s \o t)[p].id = (s \o t)[q].id
                 PROVE  p = q
      BY <2>3 DEF TellsApart
    <3>1. ASSUME NEW u \in 1 .. k, NEW v \in 1 .. k + l, v \notin 1 .. k, (s \o t)[u].id = (s \o t)[v].id
          PROVE  FALSE
      <4>1. (s \o t)[u] \in ToSet(s) /\ (s \o t)[v] \in ToSet(t)
        BY <2>3, <2>6, <3>1 DEF ToSet
      <4>2. QED
        BY <2>7, <3>1, <4>1
    <3>2. CASE p \in 1 .. k /\ q \in 1 .. k
      BY <2>3, <2>5, <2>6, <3>2 DEF TellsApart
    <3>3. CASE p \notin 1 .. k /\ q \notin 1 .. k
      <4>1. p - k \in 1 .. l /\ q - k \in 1 .. l /\ t[p - k].id = t[q - k].id
        BY <2>3, <3>3
      <4>2. p - k = q - k
        BY <2>6, <4>1 DEF TellsApart
      <4>3. QED
        BY <2>3, <4>2
    <3>4. QED
      BY <3>1, <3>2, <3>3
  <2>10. QED
    BY <2>1, <2>2, <2>8, <2>9
<1> HIDE DEF P
<1>6. 0 .. N \subseteq P
  BY <1>3, <1>4, <1>5, Inductively
<1>7. TellsApart(h[N])
  BY <1>3, <1>6 DEF P
<1>8. QED
  BY <1>2, <1>7

AddUp(a, b, c) == \A i \in DOMAIN c : Len(a[i]) + Len(b[i]) = Len(c[i])

\* If the parts of two add up to those of a third, so do the wholes.
LEMMA FlattenAddsUp ==
    ASSUME NEW R, NEW S, NEW T, NEW a \in Seq(Seq(R)), NEW b \in Seq(Seq(S)), NEW c \in Seq(Seq(T)),
           Len(a) = Len(c), Len(b) = Len(c),
           AddUp(a, b, c)
    PROVE  Len(FlattenSeq(a)) + Len(FlattenSeq(b)) = Len(FlattenSeq(c))
<1> DEFINE N == Len(c)
<1>1. PICK f : Flattens(f, a, R)
  BY FlattenUnfolds
<1>2. PICK g : Flattens(g, b, S)
  BY FlattenUnfolds
<1>3. PICK h : Flattens(h, c, T)
  BY FlattenUnfolds
<1>4. /\ f \in [0 .. N -> Seq(R)] /\ f[0] = <<>> /\ \A n \in 1 .. N : f[n] = f[n - 1] \o a[n]
      /\ FlattenSeq(a) = f[N]
  BY <1>1 DEF Flattens
<1>5. /\ g \in [0 .. N -> Seq(S)] /\ g[0] = <<>> /\ \A n \in 1 .. N : g[n] = g[n - 1] \o b[n]
      /\ FlattenSeq(b) = g[N]
  BY <1>2 DEF Flattens
<1>6. /\ h \in [0 .. N -> Seq(T)] /\ h[0] = <<>> /\ \A n \in 1 .. N : h[n] = h[n - 1] \o c[n]
      /\ FlattenSeq(c) = h[N]
  BY <1>3 DEF Flattens
<1>b. DOMAIN a = 1 .. N /\ DOMAIN b = 1 .. N /\ DOMAIN c = 1 .. N /\ N \in Nat
  OBVIOUS
<1>c. \A i \in 1 .. N : a[i] \in Seq(R)
  BY <1>b
<1>d. \A i \in 1 .. N : b[i] \in Seq(S)
  BY <1>b
<1>e. \A i \in 1 .. N : c[i] \in Seq(T)
  BY <1>b
<1>7. /\ N \in Nat /\ \A i \in 1 .. N : a[i] \in Seq(R) /\ b[i] \in Seq(S) /\ c[i] \in Seq(T)
      /\ \A i \in 1 .. N : Len(a[i]) + Len(b[i]) = Len(c[i])
  BY <1>b, <1>c, <1>d, <1>e DEF AddUp
<1> HIDE DEF N
<1> DEFINE P == {n \in 0 .. N : Len(f[n]) + Len(g[n]) = Len(h[n])}
<1>8. 0 \in P
  BY <1>4, <1>5, <1>6, <1>7
<1>9. ASSUME NEW m \in 0 .. N - 1, m \in P PROVE m + 1 \in P
  <2>1. m + 1 \in 1 .. N /\ (m + 1) - 1 = m /\ m + 1 \in 0 .. N /\ m \in 0 .. N
    BY <1>7
  <2>2. f[m + 1] = f[m] \o a[m + 1] /\ f[m] \in Seq(R) /\ a[m + 1] \in Seq(R)
    BY <1>4, <1>7, <2>1
  <2>3. g[m + 1] = g[m] \o b[m + 1] /\ g[m] \in Seq(S) /\ b[m + 1] \in Seq(S)
    BY <1>5, <1>7, <2>1
  <2>4. h[m + 1] = h[m] \o c[m + 1] /\ h[m] \in Seq(T) /\ c[m + 1] \in Seq(T)
    BY <1>6, <1>7, <2>1
  <2>5. Len(f[m + 1]) = Len(f[m]) + Len(a[m + 1]) /\ Len(f[m]) \in Nat /\ Len(a[m + 1]) \in Nat
    BY <2>2, ConcatHolds
  <2>6. Len(g[m + 1]) = Len(g[m]) + Len(b[m + 1]) /\ Len(g[m]) \in Nat /\ Len(b[m + 1]) \in Nat
    BY <2>3, ConcatHolds
  <2>7. Len(h[m + 1]) = Len(h[m]) + Len(c[m + 1]) /\ Len(h[m]) \in Nat /\ Len(c[m + 1]) \in Nat
    BY <2>4, ConcatHolds
  <2>8. Len(a[m + 1]) + Len(b[m + 1]) = Len(c[m + 1]) /\ Len(f[m]) + Len(g[m]) = Len(h[m])
    BY <1>7, <1>9, <2>1
  <2> DEFINE x == Len(f[m])
             y == Len(g[m])
             z == Len(h[m])
             u == Len(a[m + 1])
             v == Len(b[m + 1])
             w == Len(c[m + 1])
  <2> HIDE DEF x, y, z, u, v, w
  <2>a. /\ x \in Nat /\ y \in Nat /\ z \in Nat /\ u \in Nat /\ v \in Nat /\ w \in Nat
        /\ u + v = w /\ x + y = z
    BY <2>5, <2>6, <2>7, <2>8 DEF x, y, z, u, v, w
  <2>b. (x + u) + (y + v) = z + w
    BY <2>a
  <2>9. Len(f[m + 1]) + Len(g[m + 1]) = Len(h[m + 1])
    BY <2>5, <2>6, <2>7, <2>b DEF x, y, z, u, v, w
  <2>10. QED
    BY <2>1, <2>9
<1> HIDE DEF P
<1>10. 0 .. N \subseteq P
  BY <1>7, <1>8, <1>9, Inductively
<1>11. N \in P
  <2>1. N \in 0 .. N
    BY <1>7
  <2>2. QED
    BY <1>10, <2>1
<1>12. Len(f[N]) + Len(g[N]) = Len(h[N])
  BY <1>11 DEF P
<1>13. QED
  BY <1>4, <1>5, <1>6, <1>12

-----------------------------------------------------------------------------
(* Folds over sequences, unfolded.                                         *)

LEMMA MaxUpTo ==
    ASSUME NEW n \in Nat \ {0}
    PROVE  Max(1 .. n) = n /\ (1 .. n) \ {n} = 1 .. n - 1 /\ n \in 1 .. n /\ 1 .. n # {}
<1> DEFINE m == Max(1 .. n)
<1>1. n \in 1 .. n /\ \A y \in 1 .. n : n >= y
  OBVIOUS
<1>2. m \in 1 .. n /\ \A y \in 1 .. n : m >= y
  BY <1>1 DEF Max
<1> HIDE DEF m
<1>3. m = n
  BY <1>1, <1>2
<1>4. (1 .. n) \ {n} = 1 .. n - 1
  OBVIOUS
<1>5. QED
  BY <1>1, <1>3, <1>4 DEF m

LEMMA MaxInside ==
    ASSUME NEW N \in Nat, NEW T \in SUBSET (1 .. N), T # {}
    PROVE  Max(T) \in T
<1>1. T \in SUBSET Int
  OBVIOUS
<1>2. IsFiniteSet(1 .. N)
  BY CardinalityUpTo
<1>3. IsFiniteSet(T)
  BY <1>2, FS_Subset
<1>4. PICK n \in T : \A m \in T : m <= n
  BY <1>1, <1>3, GreatestExists
<1>5. \E x \in T : \A y \in T : x >= y
  BY <1>1, <1>4
<1>6. QED
  BY <1>5 DEF Max

MaxOf(N) == [T \in SUBSET (1 .. N) |-> Max(T)]

FoldsFromLeft(g, N, b, apply) ==
    g = [T \in SUBSET (1 .. N) |-> IF T = {} THEN b ELSE apply[<<g[T \ {Max(T)}], Max(T)>>]]

\* What FoldLeft unfolds to, for a step inside V.
LEMMA FoldFromLeft ==
    ASSUME NEW N \in Nat, NEW V, NEW b \in V, NEW apply, StaysIn(V, apply, 1 .. N)
    PROVE  \E g \in [SUBSET (1 .. N) -> V] : FoldsFromLeft(g, N, b, apply)
<1> DEFINE D == 1 .. N
<1>1. IsFiniteSet(D)
  BY CardinalityUpTo
<1>2. \A T \in SUBSET D : T # {} => Max(T) \in T
  BY MaxInside
<1>3. Chooses(MaxOf(N), D)
  BY <1>2 DEF Chooses, MaxOf
<1>4. PICK g \in [SUBSET D -> V] : Folding(g, D, b, MaxOf(N), apply)
  BY <1>1, <1>3, FoldsExist
<1>5. \A T \in SUBSET D : MaxOf(N)[T] = Max(T)
  BY DEF MaxOf
<1>6. g = [T \in SUBSET D |-> IF T = {} THEN b ELSE apply[<<g[T \ {Max(T)}], Max(T)>>]]
  BY <1>4, <1>5 DEF Folding
<1>7. QED
  BY <1>6 DEF FoldsFromLeft

Follows(g, N, V, b, apply) ==
    /\ g[{}] = b
    /\ \A n \in 1 .. N : g[1 .. n - 1] \in V => g[1 .. n] = apply[<<g[1 .. n - 1], n>>]

LEMMA FoldSteps ==
    ASSUME NEW N \in Nat, NEW V, NEW b \in V, NEW apply, StaysIn(V, apply, 1 .. N),
           NEW g, Follows(g, N, V, b, apply)
    PROVE  \E h \in [0 .. N -> V] : /\ h[0] = b /\ h[N] = g[1 .. N]
                                    /\ \A n \in 1 .. N : h[n] = apply[<<h[n - 1], n>>]
<1> DEFINE P == {n \in 0 .. N : g[1 .. n] \in V}
           h == [n \in 0 .. N |-> g[1 .. n]]
<1>1. 0 \in P
  BY DEF Follows
<1>2. ASSUME NEW m \in 0 .. N - 1, m \in P PROVE m + 1 \in P
  <2>1. m + 1 \in 1 .. N /\ m + 1 \in 0 .. N /\ (m + 1) - 1 = m
    OBVIOUS
  <2>2. g[1 .. m + 1] = apply[<<g[1 .. m], m + 1>>] /\ g[1 .. m] \in V
    BY <1>2, <2>1 DEF Follows
  <2>3. g[1 .. m + 1] \in V
    BY <2>1, <2>2 DEF StaysIn
  <2>4. QED
    BY <2>1, <2>3
<1> HIDE DEF P
<1>3. 0 .. N \subseteq P
  BY <1>1, <1>2, Inductively
<1>4. \A n \in 0 .. N : g[1 .. n] \in V
  BY <1>3 DEF P
<1>5. h \in [0 .. N -> V]
  BY <1>4
<1>6. h[0] = b /\ h[N] = g[1 .. N]
  <2>1. 0 \in 0 .. N /\ N \in 0 .. N /\ 1 .. 0 = {}
    OBVIOUS
  <2>2. QED
    BY <2>1 DEF Follows
<1>7. \A n \in 1 .. N : h[n] = apply[<<h[n - 1], n>>]
  <2> SUFFICES ASSUME NEW n \in 1 .. N PROVE h[n] = apply[<<h[n - 1], n>>]
    OBVIOUS
  <2>1. n \in 0 .. N /\ n - 1 \in 0 .. N
    OBVIOUS
  <2>2. QED
    BY <1>4, <2>1 DEF Follows
<1>8. QED
  BY <1>5, <1>6, <1>7

-----------------------------------------------------------------------------
(* Sections.                                                               *)

Slugs(W) == [word : W, numbers : Seq(Nat)]
SectionsOf(W, U) == [id : Slugs(W), title : Slugs(W), units : Seq(U) \ {<<>>}]

\* There is always a number no section of the file has yet.
LEMMA SlugIsFree ==
    ASSUME NEW W, NEW U, NEW sections \in Seq(SectionsOf(W, U)), NEW slug \in Slugs(W)
    PROVE  /\ SectionId(slug, sections) \in Slugs(W)
           /\ \A i \in DOMAIN sections : sections[i].id # SectionId(slug, sections)
<1> DEFINE L == Len(sections)
           used == {sections[i].id : i \in DOMAIN sections}
           numbered(n) == [slug EXCEPT !.numbers = Append(@, n)]
           free == {n \in 2 .. L + 2 : numbered(n) \notin used}
<1>1. L \in Nat /\ DOMAIN sections = 1 .. L
  OBVIOUS
<1>2. slug = [word |-> slug.word, numbers |-> slug.numbers] /\ slug.word \in W /\ slug.numbers \in Seq(Nat)
  BY DEF Slugs
<1>3. \A n \in Nat : numbered(n) = [word |-> slug.word, numbers |-> Append(slug.numbers, n)]
  <2> DEFINE w == slug.word
             k == slug.numbers
  <2>1. slug = [word |-> w, numbers |-> k]
    BY <1>2
  <2> HIDE DEF w, k
  <2>2. \A n \in Nat : [slug EXCEPT !.numbers = Append(k, n)] = [word |-> w, numbers |-> Append(k, n)]
    BY <2>1
  <2>3. QED
    BY <2>2 DEF w, k
<1>4. \A n \in Nat : /\ Append(slug.numbers, n) \in Seq(Nat)
                     /\ Append(slug.numbers, n)[Len(slug.numbers) + 1] = n
  BY <1>2
<1> HIDE DEF numbered
<1>5. \A n \in Nat : numbered(n) \in Slugs(W)
  <2> SUFFICES ASSUME NEW n \in Nat PROVE numbered(n) \in Slugs(W)
    OBVIOUS
  <2> DEFINE k == Append(slug.numbers, n)
             w == slug.word
  <2>1. k \in Seq(Nat) /\ w \in W
    BY <1>2, <1>4
  <2>2. numbered(n) = [word |-> w, numbers |-> k]
    BY <1>3
  <2> HIDE DEF k, w
  <2>3. QED
    BY <2>1, <2>2 DEF Slugs
<1>6. \A m, n \in Nat : numbered(m) = numbered(n) => m = n
  <2> SUFFICES ASSUME NEW m \in Nat, NEW n \in Nat, numbered(m) = numbered(n) PROVE m = n
    OBVIOUS
  <2>1. numbered(m).numbers = Append(slug.numbers, m) /\ numbered(n).numbers = Append(slug.numbers, n)
    BY <1>3
  <2>2. Append(slug.numbers, m) = Append(slug.numbers, n)
    BY <2>1
  <2>3. QED
    BY <1>4, <2>2
<1>7. IsFiniteSet(used) /\ Cardinality(used) <= L
  <2> DEFINE f == [i \in 1 .. L |-> sections[i].id]
  <2>1. used = {sections[i].id : i \in 1 .. L}
    BY <1>1
  <2>2. f \in Surjection(1 .. L, used)
    BY <2>1 DEF Surjection
  <2>3. IsFiniteSet(1 .. L) /\ Cardinality(1 .. L) = L
    BY <1>1, CardinalityUpTo
  <2> HIDE DEF f
  <2>4. QED
    BY <2>2, <2>3, FS_Surjection
<1> HIDE DEF used
<1>8. free # {}
  <2> SUFFICES ASSUME free = {} PROVE FALSE
    OBVIOUS
  <2> DEFINE f == [n \in 2 .. L + 2 |-> numbered(n)]
  <2>1. \A n \in 2 .. L + 2 : numbered(n) \in used
    OBVIOUS
  <2>2. 2 .. L + 2 \subseteq Nat
    BY <1>1
  <2>3. f \in Injection(2 .. L + 2, used)
    <3>1. f \in [2 .. L + 2 -> used]
      BY <2>1
    <3>2. \A m, n \in 2 .. L + 2 : f[m] = f[n] => m = n
      BY <1>6, <2>2
    <3>3. QED
      BY <3>1, <3>2 DEF Injection, IsInjective
  <2> HIDE DEF f
  <2>4. Cardinality(2 .. L + 2) <= Cardinality(used)
    BY <1>7, <2>3, FS_Injection
  <2>5. Cardinality(2 .. L + 2) = L + 1
    <3>1. 2 \in Int /\ L + 2 \in Int /\ 2 <= L + 2
      BY <1>1
    <3>2. Cardinality(2 .. L + 2) = IF 2 > L + 2 THEN 0 ELSE L + 2 - 2 + 1
      BY <3>1, FS_Interval
    <3>3. QED
      BY <1>1, <3>2
  <2>6. Cardinality(used) \in Nat
    BY <1>7, FS_CardinalityType
  <2>7. QED
    BY <1>1, <1>7, <2>4, <2>5, <2>6
<1> DEFINE next == CHOOSE n \in free : \A m \in free : n <= m
<1>9. next \in free
  <2>1. free \in SUBSET Nat
    BY <1>1
  <2>2. \E n \in free : \A m \in free : n <= m
    BY <1>8, <2>1, LeastNumberExists
  <2>3. QED
    BY <2>2
<1>10. SectionId(slug, sections) = IF slug \notin used THEN slug ELSE numbered(next)
  BY DEF SectionId, used, numbered
<1> HIDE DEF next
<1>11. next \in Nat /\ numbered(next) \notin used
  BY <1>1, <1>9
<1>12. SectionId(slug, sections) \in Slugs(W) \ used
  BY <1>5, <1>10, <1>11
<1>13. QED
  BY <1>12 DEF used

\* What is read of a file, in sets of words and of sentences.
IsBody(body, W, U) ==
    /\ Len(body) \in Nat /\ DOMAIN body = 1 .. Len(body)
    /\ \A i \in 1 .. Len(body) : body[i].title \in Slugs(W) /\ body[i].units \in Seq(U)

AddSection(done, h) ==
    IF h.units = <<>> THEN done
    ELSE Append(done, [id |-> SectionId(h.title, done), title |-> h.title, units |-> h.units])

\* done[n]: what the first n headings became.
SectionSteps(done, body, V) ==
    /\ done \in [0 .. Len(body) -> V] /\ done[0] = <<>>
    /\ \A n \in 1 .. Len(body) : done[n] = AddSection(done[n - 1], body[n])
    /\ Sections(body) = done[Len(body)]

LEMMA AddSectionType ==
    ASSUME NEW W, NEW U, NEW done \in Seq(SectionsOf(W, U)),
           NEW h, h.title \in Slugs(W), h.units \in Seq(U)
    PROVE  AddSection(done, h) \in Seq(SectionsOf(W, U))
<1> DEFINE new == [id |-> SectionId(h.title, done), title |-> h.title, units |-> h.units]
<1>1. SectionId(h.title, done) \in Slugs(W)
  BY SlugIsFree
<1>2. CASE h.units = <<>>
  BY <1>2 DEF AddSection
<1>3. CASE h.units # <<>>
  <2>1. new \in SectionsOf(W, U)
    BY <1>1, <1>3 DEF SectionsOf
  <2> HIDE DEF new
  <2>2. Append(done, new) \in Seq(SectionsOf(W, U))
    BY <2>1
  <2>3. QED
    BY <1>3, <2>2 DEF AddSection, new
<1>4. QED
  BY <1>2, <1>3

LEMMA SectionsUnfold ==
    ASSUME NEW W, NEW U, NEW body, IsBody(body, W, U)
    PROVE  \E done : SectionSteps(done, body, Seq(SectionsOf(W, U)))
<1> DEFINE V == Seq(SectionsOf(W, U))
           N == Len(body)
           D == 1 .. N
           apply == [p \in V \X D |-> AddSection(p[1], body[p[2]])]
           It(g) == g = [T \in SUBSET D |-> IF T = {} THEN <<>> ELSE AddSection(g[T \ {Max(T)}], body[Max(T)])]
           g0 == CHOOSE g : It(g)
<1>1. N \in Nat /\ DOMAIN body = D /\ \A n \in D : body[n].title \in Slugs(W) /\ body[n].units \in Seq(U)
  BY DEF IsBody
<1>2. Sections(body) = g0[D]
  BY <1>1 DEF Sections, FoldLeft, MapThenFoldSet, AddSection
<1>3. <<>> \in V
  OBVIOUS
<1>4. \A v \in V, n \in D : AddSection(v, body[n]) \in V
  BY <1>1, AddSectionType
<1> HIDE DEF V, N
<1>5. \A v \in V, n \in D : apply[<<v, n>>] = AddSection(v, body[n])
  OBVIOUS
<1> HIDE DEF apply
<1>6. StaysIn(V, apply, D)
  BY <1>4, <1>5 DEF StaysIn
<1> HIDE DEF It, g0
<1>7. PICK g \in [SUBSET D -> V] : FoldsFromLeft(g, N, <<>>, apply)
  BY <1>1, <1>3, <1>6, FoldFromLeft
<1>8. It(g)
  <2> SUFFICES ASSUME NEW T \in SUBSET D, T # {}
               PROVE  apply[<<g[T \ {Max(T)}], Max(T)>>] = AddSection(g[T \ {Max(T)}], body[Max(T)])
    BY <1>7 DEF It, FoldsFromLeft
  <2>1. g[T \ {Max(T)}] \in V
    BY <1>7
  <2>2. Max(T) \in D
    BY <1>1, MaxInside
  <2>3. QED
    BY <1>5, <2>1, <2>2
<1>9. It(g0)
  BY <1>8 DEF g0
<1>10. \A T \in SUBSET D :
          g0[T] = IF T = {} THEN <<>> ELSE AddSection(g0[T \ {Max(T)}], body[Max(T)])
  BY <1>9 DEF It
<1>11. g0[{}] = <<>>
  BY <1>10
<1>12. \A n \in D : g0[1 .. n] = AddSection(g0[1 .. n - 1], body[n])
  <2> SUFFICES ASSUME NEW n \in D PROVE g0[1 .. n] = AddSection(g0[1 .. n - 1], body[n])
    OBVIOUS
  <2>1. n \in Nat \ {0} /\ 1 .. n \in SUBSET D
    BY <1>1
  <2>2. Max(1 .. n) = n /\ (1 .. n) \ {n} = 1 .. n - 1 /\ 1 .. n # {}
    BY <2>1, MaxUpTo
  <2>3. QED
    BY <1>10, <2>1, <2>2
<1>13. Follows(g0, N, V, <<>>, apply)
  BY <1>5, <1>11, <1>12 DEF Follows
<1>14. PICK h \in [0 .. N -> V] : /\ h[0] = <<>> /\ h[N] = g0[1 .. N]
                                  /\ \A n \in 1 .. N : h[n] = apply[<<h[n - 1], n>>]
  BY <1>1, <1>3, <1>6, <1>13, FoldSteps
<1>15. \A n \in D : h[n] = AddSection(h[n - 1], body[n])
  <2> SUFFICES ASSUME NEW n \in D PROVE h[n] = AddSection(h[n - 1], body[n])
    OBVIOUS
  <2>1. n - 1 \in 0 .. N
    BY <1>1
  <2>2. h[n - 1] \in V /\ h[n] = apply[<<h[n - 1], n>>]
    BY <1>14, <2>1
  <2>3. QED
    BY <1>5, <2>2
<1>16. QED
  BY <1>2, <1>14, <1>15 DEF SectionSteps, N, V

\* The sections of a file have different ids.
LEMMA SectionsHold ==
    ASSUME NEW W, NEW U, NEW body, IsBody(body, W, U)
    PROVE  Sections(body) \in Seq(SectionsOf(W, U)) /\ TellsApart(Sections(body))
<1> DEFINE V == Seq(SectionsOf(W, U))
           N == Len(body)
<1>1. PICK done : SectionSteps(done, body, V)
  BY SectionsUnfold
<1>2. /\ done \in [0 .. N -> V] /\ done[0] = <<>> /\ Sections(body) = done[N]
      /\ \A n \in 1 .. N : done[n] = AddSection(done[n - 1], body[n])
  BY <1>1 DEF SectionSteps
<1>3. N \in Nat /\ \A n \in 1 .. N : body[n].title \in Slugs(W) /\ body[n].units \in Seq(U)
  BY DEF IsBody
<1> HIDE DEF N
<1> DEFINE P == {n \in 0 .. N : TellsApart(done[n])}
<1>4. 0 \in P
  <2>1. DOMAIN done[0] = {}
    BY <1>2
  <2>2. QED
    BY <1>3, <2>1 DEF TellsApart
<1>5. ASSUME NEW m \in 0 .. N - 1, m \in P PROVE m + 1 \in P
  <2> DEFINE s == done[m]
             h == body[m + 1]
             new == [id |-> SectionId(h.title, s), title |-> h.title, units |-> h.units]
  <2>1. m + 1 \in 1 .. N /\ m + 1 \in 0 .. N /\ m \in 0 .. N /\ (m + 1) - 1 = m
    BY <1>3
  <2>2. done[m + 1] = AddSection(s, h) /\ s \in V /\ h.title \in Slugs(W) /\ TellsApart(s)
    BY <1>2, <1>3, <1>5, <2>1
  <2> HIDE DEF s, h
  <2>3. CASE h.units = <<>>
    BY <2>1, <2>2, <2>3 DEF AddSection
  <2>4. CASE h.units # <<>>
    <3> DEFINE x == SectionId(h.title, s)
    <3>1. done[m + 1] = Append(s, new) /\ new.id = x
      BY <2>2, <2>4 DEF AddSection
    <3>2. \A i \in DOMAIN s : s[i].id # x
      BY <2>2, SlugIsFree
    <3> HIDE DEF new, x
    <3> DEFINE t == Append(s, new)
    <3>3. /\ DOMAIN s = 1 .. Len(s) /\ Len(s) \in Nat /\ DOMAIN t = 1 .. Len(s) + 1
          /\ t[Len(s) + 1] = new /\ \A i \in 1 .. Len(s) : t[i] = s[i]
      BY <2>2
    <3> HIDE DEF t
    <3>4. ASSUME NEW p \in 1 .. Len(s) + 1, NEW q \in 1 .. Len(s) + 1, t[p].id = t[q].id PROVE p = q
      <4>1. CASE p \in 1 .. Len(s) /\ q \in 1 .. Len(s)
        BY <2>2, <3>3, <3>4, <4>1 DEF TellsApart
      <4>2. CASE p = Len(s) + 1 /\ q = Len(s) + 1
        BY <4>2
      <4>3. CASE p \in 1 .. Len(s) /\ q = Len(s) + 1
        BY <3>1, <3>2, <3>3, <3>4, <4>3
      <4>4. CASE q \in 1 .. Len(s) /\ p = Len(s) + 1
        BY <3>1, <3>2, <3>3, <3>4, <4>4
      <4>5. QED
        BY <3>3, <4>1, <4>2, <4>3, <4>4
    <3>5. TellsApart(t)
      BY <3>3, <3>4 DEF TellsApart
    <3>6. QED
      BY <2>1, <3>1, <3>5 DEF t
  <2>5. QED
    BY <2>3, <2>4
<1> HIDE DEF P
<1>6. 0 .. N \subseteq P
  BY <1>3, <1>4, <1>5, Inductively
<1>7. N \in 0 .. N
  BY <1>3
<1>8. TellsApart(done[N]) /\ done[N] \in V
  BY <1>2, <1>6, <1>7 DEF P
<1>9. QED
  BY <1>2, <1>8

-----------------------------------------------------------------------------
(* Loading.                                                                *)

Causes == {"outside_source_root", "unsupported_extension", "file_too_large", "invalid_document",
           "no_content", "duplicate_document_id", "none"}
DocumentsOf(I, T, W, U) ==
    {d \in [id : I, trust : T, sections : Seq(SectionsOf(W, U))] : TellsApart(d.sections)}
LoadedOf(I, P, T, W, U) == [documents : Seq(DocumentsOf(I, T, W, U)), rejected : Seq(P \X Causes)]

IsFiles(files, I, P, W, U) ==
    /\ Len(files) \in Nat /\ DOMAIN files = 1 .. Len(files)
    /\ \A i \in 1 .. Len(files) : files[i].id \in I /\ files[i].path \in P /\ IsBody(files[i].body, W, U)

LoadFile(r, f, trust) ==
    LET reason == Reason(f, {r.documents[i].id : i \in DOMAIN r.documents})
    IN  IF reason # "none" THEN [r EXCEPT !.rejected = Append(@, <<f.path, reason>>)]
        ELSE [r EXCEPT !.documents = Append(@,
                 [id |-> f.id, trust |-> trust, sections |-> Sections(f.body)])]

\* Every file is either a document more or a rejection more.
OneMore(new, r) == Len(new.documents) + Len(new.rejected) = Len(r.documents) + Len(r.rejected) + 1

LEMMA LoadFileHolds ==
    ASSUME NEW I, NEW P, NEW T, NEW W, NEW U, NEW r \in LoadedOf(I, P, T, W, U), NEW trust \in T,
           NEW f, f.id \in I, f.path \in P, IsBody(f.body, W, U)
    PROVE  LoadFile(r, f, trust) \in LoadedOf(I, P, T, W, U) /\ OneMore(LoadFile(r, f, trust), r)
<1> DEFINE D == DocumentsOf(I, T, W, U)
           R == P \X Causes
           docs == r.documents
           rej == r.rejected
           seen == {docs[i].id : i \in DOMAIN docs}
           reason == Reason(f, seen)
           d == [id |-> f.id, trust |-> trust, sections |-> Sections(f.body)]
           x == <<f.path, reason>>
           new == LoadFile(r, f, trust)
<1>1. r = [documents |-> docs, rejected |-> rej] /\ docs \in Seq(D) /\ rej \in Seq(R)
  BY DEF LoadedOf
<1>2. reason \in Causes
  BY DEF Reason, Causes
<1>3. d \in D
  <2>1. Sections(f.body) \in Seq(SectionsOf(W, U)) /\ TellsApart(Sections(f.body))
    BY SectionsHold
  <2>2. QED
    BY <2>1 DEF DocumentsOf
<1>4. x \in R
  BY <1>2
<1>5. new = IF reason # "none" THEN [r EXCEPT !.rejected = Append(rej, x)]
            ELSE [r EXCEPT !.documents = Append(docs, d)]
  BY DEF LoadFile
<1> HIDE DEF D, R, docs, rej, seen, reason, d, x, new
<1>6. new = IF reason # "none" THEN [documents |-> docs, rejected |-> Append(rej, x)]
            ELSE [documents |-> Append(docs, d), rejected |-> rej]
  <2> DEFINE a == Append(rej, x)
             b == Append(docs, d)
  <2> HIDE DEF a, b
  <2>1. [r EXCEPT !.rejected = a] = [documents |-> docs, rejected |-> a]
    BY <1>1
  <2>2. [r EXCEPT !.documents = b] = [documents |-> b, rejected |-> rej]
    BY <1>1
  <2>3. QED
    BY <1>5, <2>1, <2>2 DEF a, b
<1>7. /\ Append(docs, d) \in Seq(D) /\ Len(Append(docs, d)) = Len(docs) + 1
      /\ Append(rej, x) \in Seq(R) /\ Len(Append(rej, x)) = Len(rej) + 1
      /\ Len(docs) \in Nat /\ Len(rej) \in Nat
  BY <1>1, <1>3, <1>4
<1>8. new \in [documents : Seq(D), rejected : Seq(R)]
  BY <1>1, <1>6, <1>7
<1>9. Len(new.documents) + Len(new.rejected) = Len(docs) + Len(rej) + 1
  BY <1>6, <1>7
<1>10. QED
  BY <1>8, <1>9 DEF LoadedOf, D, R, docs, rej, new, OneMore

LoadSteps(r, files, trust, V) ==
    /\ r \in [0 .. Len(files) -> V] /\ r[0] = [documents |-> <<>>, rejected |-> <<>>]
    /\ \A n \in 1 .. Len(files) : r[n] = LoadFile(r[n - 1], files[n], trust)
    /\ LoadDocuments(files, trust) = r[Len(files)]

LEMMA LoadUnfolds ==
    ASSUME NEW I, NEW P, NEW T, NEW W, NEW U, NEW files, IsFiles(files, I, P, W, U), NEW trust \in T
    PROVE  \E r : LoadSteps(r, files, trust, LoadedOf(I, P, T, W, U))
<1> DEFINE V == LoadedOf(I, P, T, W, U)
           N == Len(files)
           D == 1 .. N
           none == [documents |-> <<>>, rejected |-> <<>>]
           apply == [p \in V \X D |-> LoadFile(p[1], files[p[2]], trust)]
           It(g) == g = [S \in SUBSET D |-> IF S = {} THEN none ELSE LoadFile(g[S \ {Max(S)}], files[Max(S)], trust)]
           g0 == CHOOSE g : It(g)
<1>1. /\ N \in Nat /\ DOMAIN files = D
      /\ \A n \in D : files[n].id \in I /\ files[n].path \in P /\ IsBody(files[n].body, W, U)
  BY DEF IsFiles
<1>2. LoadDocuments(files, trust) = g0[D]
  BY <1>1 DEF LoadDocuments, FoldLeft, MapThenFoldSet, LoadFile
<1>3. none \in V
  BY DEF LoadedOf
<1>4. \A v \in V, n \in D : LoadFile(v, files[n], trust) \in V
  BY <1>1, LoadFileHolds
<1> HIDE DEF V, N, none, It, g0
<1>5. \A v \in V, n \in D : apply[<<v, n>>] = LoadFile(v, files[n], trust)
  OBVIOUS
<1> HIDE DEF apply
<1>6. StaysIn(V, apply, D)
  BY <1>4, <1>5 DEF StaysIn
<1>7. PICK g \in [SUBSET D -> V] : FoldsFromLeft(g, N, none, apply)
  BY <1>1, <1>3, <1>6, FoldFromLeft
<1>8. It(g)
  <2> SUFFICES ASSUME NEW S \in SUBSET D, S # {}
               PROVE  apply[<<g[S \ {Max(S)}], Max(S)>>] = LoadFile(g[S \ {Max(S)}], files[Max(S)], trust)
    BY <1>7 DEF It, FoldsFromLeft
  <2>1. g[S \ {Max(S)}] \in V
    BY <1>7
  <2>2. Max(S) \in D
    BY <1>1, MaxInside
  <2>3. QED
    BY <1>5, <2>1, <2>2
<1>9. It(g0)
  BY <1>8 DEF g0
<1>10. \A S \in SUBSET D :
          g0[S] = IF S = {} THEN none ELSE LoadFile(g0[S \ {Max(S)}], files[Max(S)], trust)
  BY <1>9 DEF It
<1>11. g0[{}] = none
  BY <1>10
<1>12. \A n \in D : g0[1 .. n] = LoadFile(g0[1 .. n - 1], files[n], trust)
  <2> SUFFICES ASSUME NEW n \in D PROVE g0[1 .. n] = LoadFile(g0[1 .. n - 1], files[n], trust)
    OBVIOUS
  <2>1. n \in Nat \ {0} /\ 1 .. n \in SUBSET D
    BY <1>1
  <2>2. Max(1 .. n) = n /\ (1 .. n) \ {n} = 1 .. n - 1 /\ 1 .. n # {}
    BY <2>1, MaxUpTo
  <2>3. QED
    BY <1>10, <2>1, <2>2
<1>13. Follows(g0, N, V, none, apply)
  BY <1>5, <1>11, <1>12 DEF Follows
<1>14. PICK h \in [0 .. N -> V] : /\ h[0] = none /\ h[N] = g0[1 .. N]
                                  /\ \A n \in 1 .. N : h[n] = apply[<<h[n - 1], n>>]
  BY <1>1, <1>3, <1>6, <1>13, FoldSteps
<1>15. \A n \in D : h[n] = LoadFile(h[n - 1], files[n], trust)
  <2> SUFFICES ASSUME NEW n \in D PROVE h[n] = LoadFile(h[n - 1], files[n], trust)
    OBVIOUS
  <2>1. n - 1 \in 0 .. N
    BY <1>1
  <2>2. h[n - 1] \in V /\ h[n] = apply[<<h[n - 1], n>>]
    BY <1>14, <2>1
  <2>3. QED
    BY <1>5, <2>2
<1>16. QED
  BY <1>2, <1>14, <1>15 DEF LoadSteps, N, V, none

AllRead(r, files) == Len(r.documents) + Len(r.rejected) = Len(files)

LEMMA LoadHolds ==
    ASSUME NEW I, NEW P, NEW T, NEW W, NEW U, NEW files, IsFiles(files, I, P, W, U), NEW trust \in T
    PROVE  LoadDocuments(files, trust) \in LoadedOf(I, P, T, W, U) /\ AllRead(LoadDocuments(files, trust), files)
<1> DEFINE V == LoadedOf(I, P, T, W, U)
           N == Len(files)
<1>1. PICK r : LoadSteps(r, files, trust, V)
  BY LoadUnfolds
<1>2. /\ r \in [0 .. N -> V] /\ r[0] = [documents |-> <<>>, rejected |-> <<>>]
      /\ \A n \in 1 .. N : r[n] = LoadFile(r[n - 1], files[n], trust)
      /\ LoadDocuments(files, trust) = r[N]
  BY <1>1 DEF LoadSteps
<1>3. /\ N \in Nat
      /\ \A n \in 1 .. N : files[n].id \in I /\ files[n].path \in P /\ IsBody(files[n].body, W, U)
  BY DEF IsFiles
<1> HIDE DEF N, V
<1> DEFINE Q == {n \in 0 .. N : Len(r[n].documents) + Len(r[n].rejected) = n}
<1>4. 0 \in Q
  <2>1. Len(r[0].documents) = 0 /\ Len(r[0].rejected) = 0
    BY <1>2
  <2>2. Len(r[0].documents) + Len(r[0].rejected) = 0
    BY <2>1
  <2>3. 0 \in 0 .. N
    BY <1>3
  <2>4. QED
    BY <2>2, <2>3
<1>5. ASSUME NEW m \in 0 .. N - 1, m \in Q PROVE m + 1 \in Q
  <2>1. m + 1 \in 1 .. N /\ m + 1 \in 0 .. N /\ m \in 0 .. N /\ (m + 1) - 1 = m
    BY <1>3
  <2>2. r[m] \in V /\ r[m + 1] = LoadFile(r[m], files[m + 1], trust)
    BY <1>2, <2>1
  <2>3. files[m + 1].id \in I /\ files[m + 1].path \in P /\ IsBody(files[m + 1].body, W, U)
    BY <1>3, <2>1
  <2>4. Len(r[m + 1].documents) + Len(r[m + 1].rejected) = Len(r[m].documents) + Len(r[m].rejected) + 1
    <3> DEFINE f == files[m + 1]
               v == r[m]
    <3>1. v \in LoadedOf(I, P, T, W, U) /\ f.id \in I /\ f.path \in P /\ IsBody(f.body, W, U)
      BY <2>2, <2>3 DEF V
    <3> HIDE DEF f, v
    <3>2. OneMore(LoadFile(v, f, trust), v)
      BY <3>1, LoadFileHolds
    <3>3. QED
      BY <2>2, <3>2 DEF f, v, OneMore
  <2>5. Len(r[m].documents) + Len(r[m].rejected) = m
    BY <1>5
  <2>6. QED
    BY <2>1, <2>4, <2>5
<1> HIDE DEF Q
<1>6. 0 .. N \subseteq Q
  BY <1>3, <1>4, <1>5, Inductively
<1>7. N \in 0 .. N
  BY <1>3
<1>8. r[N] \in V /\ Len(r[N].documents) + Len(r[N].rejected) = N
  BY <1>2, <1>6, <1>7 DEF Q
<1>9. QED
  BY <1>2, <1>8 DEF V, N, AllRead

-----------------------------------------------------------------------------
(* Counting words.                                                         *)

Counted(U) == \A u \in U : u.words \in Nat

LEMMA WordsType ==
    ASSUME NEW U, Counted(U), NEW s \in Seq(U)
    PROVE  Words(s) \in Nat
<1> DEFINE D == 1 .. Len(s)
           f == [i \in D |-> s[i].words]
<1>1. DOMAIN s = D /\ Len(s) \in Nat /\ \A i \in D : s[i] \in U
  OBVIOUS
<1>2. Counts(f, D)
  BY <1>1 DEF Counts, Counted
<1>3. IsFiniteSet(D)
  BY <1>1, CardinalityUpTo
<1>4. Words(s) = SumFunctionOnSet(f, D)
  BY <1>1 DEF Words
<1> HIDE DEF f, D
<1>5. QED
  BY <1>2, <1>3, <1>4, SumIsNatural

LEMMA WordsOfNone == Words(<<>>) = 0
<1> DEFINE f == [i \in DOMAIN <<>> |-> <<>>[i].words]
<1>1. DOMAIN <<>> = {}
  OBVIOUS
<1>2. Words(<<>>) = SumFunctionOnSet(f, {})
  BY <1>1 DEF Words
<1> HIDE DEF f
<1>3. QED
  BY <1>2, SumOfNone

LEMMA WordsOfAppend ==
    ASSUME NEW U, Counted(U), NEW s \in Seq(U), NEW u \in U
    PROVE  Words(Append(s, u)) = Words(s) + u.words
<1> DEFINE L == Len(s)
           t == Append(s, u)
           A == 1 .. L + 1
           B == 1 .. L
           f == [i \in A |-> t[i].words]
           g == [i \in B |-> s[i].words]
           at == [i \in B |-> i]
<1>1. /\ DOMAIN s = B /\ L \in Nat /\ DOMAIN t = A /\ \A i \in B : s[i] \in U /\ t[i] = s[i]
      /\ t[L + 1] = u /\ u.words \in Nat
  BY DEF Counted
<1>2. Words(t) = SumFunctionOnSet(f, A) /\ Words(s) = SumFunctionOnSet(g, B)
  BY <1>1 DEF Words
<1>3. A \ {L + 1} = B /\ L + 1 \in A /\ B \subseteq A
  BY <1>1
<1>4. \A i \in B : g[i] \in Nat /\ g[i] = f[at[i]] /\ at[i] = i
  BY <1>1, <1>3 DEF Counted
<1>5. f[L + 1] = u.words
  BY <1>1, <1>3
<1>6. \A i \in A : f[i] \in Int
  <2> SUFFICES ASSUME NEW i \in A PROVE f[i] \in Int
    OBVIOUS
  <2>1. CASE i = L + 1
    BY <1>1, <1>5, <2>1
  <2>2. CASE i # L + 1
    <3>1. i \in B
      BY <1>3, <2>2
    <3>2. t[i] = s[i] /\ s[i].words \in Nat
      BY <1>1, <3>1 DEF Counted
    <3>3. QED
      BY <3>2
  <2>3. QED
    BY <2>1, <2>2
<1>7. IsFiniteSet(A) /\ IsFiniteSet(B)
  <2>1. L + 1 \in Nat
    BY <1>1
  <2>2. QED
    BY <1>1, <2>1, CardinalityUpTo
<1> HIDE DEF t, f, g, at, A, B
<1>8. Numbers(f, A)
  BY <1>6 DEF Numbers
<1>9. SumFunctionOnSet(f, A) = f[L + 1] + SumFunctionOnSet(f, A \ {L + 1})
  BY <1>3, <1>7, <1>8, SumTakesOut
<1>10. SumFunctionOnSet(g, B) = SumFunctionOnSet(f, {at[p] : p \in B})
  <2>1. \A p \in B : g[p] \in Int /\ g[p] = f[at[p]]
    BY <1>4
  <2>2. \A p, q \in B : at[p] = at[q] => p = q
    BY <1>4
  <2>3. QED
    BY <1>7, <2>1, <2>2, SumRenames
<1>11. {at[p] : p \in B} = B
  BY <1>4
<1>12. Words(s) \in Nat
  BY WordsType
<1>13. SumFunctionOnSet(f, B) = Words(s)
  BY <1>2, <1>10, <1>11
<1>14. Words(t) = u.words + Words(s)
  BY <1>2, <1>3, <1>5, <1>9, <1>13
<1>15. QED
  BY <1>1, <1>12, <1>14 DEF t

-----------------------------------------------------------------------------
(* Chunks of a section.                                                    *)

\* c is units[a .. b].
IsPart(c, units, a, b) ==
    /\ a \in Nat \ {0} /\ b \in Nat /\ a <= b + 1 /\ b <= Len(units)
    /\ Len(c) = b - a + 1 /\ DOMAIN c = 1 .. b - a + 1
    /\ \A p \in 1 .. b - a + 1 : c[p] = units[a + p - 1]

LEMMA PartGrows ==
    ASSUME NEW U, NEW units \in Seq(U), NEW c \in Seq(U), NEW a, NEW b, IsPart(c, units, a, b),
           b + 1 <= Len(units)
    PROVE  IsPart(Append(c, units[b + 1]), units, a, b + 1)
<1> DEFINE d == Append(c, units[b + 1])
           L == b - a + 1
<1>1. /\ a \in Nat \ {0} /\ b \in Nat /\ a <= b + 1 /\ Len(units) \in Nat
      /\ Len(c) = L /\ \A p \in 1 .. L : c[p] = units[a + p - 1]
  BY DEF IsPart
<1>2. /\ Len(d) = L + 1 /\ DOMAIN d = 1 .. L + 1 /\ d[L + 1] = units[b + 1]
      /\ \A p \in 1 .. L : d[p] = c[p]
  <2>1. b + 1 \in 1 .. Len(units) /\ DOMAIN units = 1 .. Len(units) /\ units[b + 1] \in U
    BY <1>1
  <2>2. c \in Seq(U) /\ Len(c) = L
    BY <1>1
  <2> DEFINE u == units[b + 1]
  <2> HIDE DEF u
  <2>3. u \in U
    BY <2>1 DEF u
  <2>4. /\ Len(Append(c, u)) = L + 1 /\ DOMAIN Append(c, u) = 1 .. L + 1 /\ Append(c, u)[L + 1] = u
        /\ \A p \in 1 .. L : Append(c, u)[p] = c[p]
    BY <2>2, <2>3
  <2>5. QED
    BY <2>4 DEF u
<1> HIDE DEF d
<1>3. ASSUME NEW p \in 1 .. L + 1 PROVE d[p] = units[a + p - 1]
  <2>1. CASE p = L + 1
    <3>1. a + p - 1 = b + 1
      BY <1>1, <2>1
    <3>2. QED
      BY <1>2, <2>1, <3>1
  <2>2. CASE p # L + 1
    <3>1. p \in 1 .. L
      BY <1>1, <2>2
    <3>2. QED
      BY <1>1, <1>2, <3>1
  <2>3. QED
    BY <2>1, <2>2
<1>4. L + 1 = (b + 1) - a + 1 /\ b + 1 \in Nat /\ a <= (b + 1) + 1
  BY <1>1
<1>5. QED
  BY <1>1, <1>2, <1>3, <1>4 DEF IsPart, d

LEMMA CarriedIsPart ==
    ASSUME NEW U, Counted(U), NEW units \in Seq(U), NEW c \in Seq(U), NEW a, NEW b, IsPart(c, units, a, b)
    PROVE  /\ Carried(c) \in Seq(U) /\ Words(Carried(c)) <= OverlapWords
           /\ \E k : a <= k /\ IsPart(Carried(c), units, k, b)
<1> DEFINE L == Len(c)
           from == {n \in 1 .. L + 1 : Words(SubSeq(c, n, L)) <= OverlapWords}
           n0 == CHOOSE n \in from : \A m \in from : n <= m
           d == SubSeq(c, n0, L)
<1>1. /\ a \in Nat \ {0} /\ b \in Nat /\ a <= b + 1 /\ b <= Len(units)
      /\ L = b - a + 1 /\ L \in Nat /\ \A p \in 1 .. L : c[p] = units[a + p - 1]
  BY DEF IsPart
<1>2. L + 1 \in from
  <2>1. SubSeq(c, L + 1, L) = <<>>
    BY <1>1
  <2> DEFINE e == SubSeq(c, L + 1, L)
  <2> HIDE DEF e
  <2>a. Words(e) = 0
    BY <2>1, WordsOfNone DEF e
  <2>b. Words(e) <= OverlapWords
    BY <2>a, ChunkingAssumption
  <2>2. Words(SubSeq(c, L + 1, L)) <= OverlapWords
    BY <2>b DEF e
  <2>3. L + 1 \in 1 .. L + 1
    BY <1>1
  <2> HIDE DEF L
  <2>4. QED
    BY <2>2, <2>3
<1>3. n0 \in from
  <2>a. from \subseteq 1 .. L + 1
    OBVIOUS
  <2>b. L \in Nat
    BY <1>1
  <2> HIDE DEF from, L
  <2>c. 1 .. L + 1 \subseteq Nat
    BY <2>b
  <2>1. from \in SUBSET Nat /\ from # {}
    BY <2>a, <2>c, <1>2
  <2>2. \E n \in from : \A m \in from : n <= m
    BY <2>1, LeastNumberExists
  <2>3. QED
    BY <2>2
<1>4. Carried(c) = d
  BY DEF Carried
<1> HIDE DEF n0
<1>5. n0 \in 1 .. L + 1 /\ Words(d) <= OverlapWords
  BY <1>3
<1>6. /\ d \in Seq(U) /\ Len(d) = L - n0 + 1 /\ DOMAIN d = 1 .. L - n0 + 1
      /\ \A p \in 1 .. L - n0 + 1 : d[p] = c[n0 + p - 1]
  BY <1>1, <1>5
<1> HIDE DEF d, from, L
<1> DEFINE k == a + n0 - 1
<1>7. a <= k /\ k \in Nat \ {0} /\ k <= b + 1 /\ b - k + 1 = L - n0 + 1
  BY <1>1, <1>5
<1>8. ASSUME NEW p \in 1 .. b - k + 1 PROVE d[p] = units[k + p - 1]
  <2>1. p \in 1 .. L - n0 + 1 /\ n0 + p - 1 \in 1 .. L /\ a + (n0 + p - 1) - 1 = k + p - 1
    BY <1>1, <1>5, <1>7
  <2>2. QED
    BY <1>1, <1>6, <2>1
<1>9. IsPart(d, units, k, b)
  BY <1>1, <1>6, <1>7, <1>8 DEF IsPart
<1>10. QED
  BY <1>4, <1>5, <1>6, <1>7, <1>9

-----------------------------------------------------------------------------
\* What is cut off so far, and what is still growing.
Early(c, U, units, a, bound) ==
    /\ c \in Seq(U) /\ Words(c) <= bound
    /\ \E f, t : f <= a /\ IsPart(c, units, f, t)
CutsOf(U) == [chunks : Seq(Seq(U)), current : Seq(U)]
CutUpTo(cut, U, units, n, a, bound) ==
    /\ cut \in CutsOf(U) /\ (n # 0 => cut.current # <<>>) /\ Words(cut.current) <= bound
    /\ IsPart(cut.current, units, a, n)
    /\ \A c \in ToSet(cut.chunks) : Early(c, U, units, a, bound)
    /\ \A p \in 1 .. n : p < a => \E c \in ToSet(cut.chunks) : units[p] \in ToSet(c)

LEMMA AppendHolds ==
    ASSUME NEW S, NEW s \in Seq(S), NEW x \in S
    PROVE  /\ Append(s, x) \in Seq(S) /\ Append(s, x) # <<>>
           /\ ToSet(Append(s, x)) = ToSet(s) \cup {x}
<1> DEFINE t == Append(s, x)
           L == Len(s)
<1>1. /\ t \in Seq(S) /\ L \in Nat /\ DOMAIN s = 1 .. L /\ DOMAIN t = 1 .. L + 1 /\ Len(t) = L + 1
      /\ t[L + 1] = x /\ \A p \in 1 .. L : t[p] = s[p]
  OBVIOUS
<1> HIDE DEF t, L
<1>2. 1 .. L + 1 = (1 .. L) \cup {L + 1}
  BY <1>1
<1>3. ToSet(t) = {t[p] : p \in 1 .. L + 1} /\ ToSet(s) = {s[p] : p \in 1 .. L}
  BY <1>1 DEF ToSet
<1>4. ToSet(t) = ToSet(s) \cup {x}
  BY <1>1, <1>2, <1>3
<1>5. t # <<>>
  BY <1>1
<1>6. QED
  BY <1>1, <1>4, <1>5 DEF t

LEMMA GrowHolds ==
    ASSUME NEW U, Counted(U), NEW units \in Seq(U), NEW n \in Nat, n + 1 <= Len(units),
           NEW longest \in Nat, \A p \in 1 .. Len(units) : units[p].words <= longest,
           NEW cut, NEW a, CutUpTo(cut, U, units, n, a, Larger(OverlapWords + longest, MaxWords))
    PROVE  \E k : CutUpTo(Grow(cut, units[n + 1]), U, units, n + 1, k, Larger(OverlapWords + longest, MaxWords))
<1> DEFINE u == units[n + 1]
           bound == Larger(OverlapWords + longest, MaxWords)
           chunks == cut.chunks
           current == cut.current
           full == current # <<>> /\ Words(current) + u.words > MaxWords
           tail == Carried(current)
<1>1. /\ cut = [chunks |-> chunks, current |-> current] /\ chunks \in Seq(Seq(U)) /\ current \in Seq(U)
      /\ Words(current) <= bound /\ IsPart(current, units, a, n)
      /\ \A c \in ToSet(chunks) : Early(c, U, units, a, bound)
      /\ \A p \in 1 .. n : p < a => \E c \in ToSet(chunks) : units[p] \in ToSet(c)
  BY DEF CutUpTo, CutsOf
<1>2. u \in U /\ u.words \in Nat /\ u.words <= longest
  <2>1. n + 1 \in 1 .. Len(units) /\ DOMAIN units = 1 .. Len(units)
    OBVIOUS
  <2>2. QED
    BY <2>1 DEF Counted
<1>3. /\ bound \in Nat /\ OverlapWords + longest <= bound /\ MaxWords <= bound /\ OverlapWords \in Nat
      /\ MaxWords \in Nat
  BY ChunkingAssumption DEF Larger
<1>4. Grow(cut, u) = IF full THEN [chunks |-> Append(chunks, current), current |-> Append(tail, u)]
                     ELSE [chunks |-> chunks, current |-> Append(current, u)]
  <2> DEFINE x == Append(current, u)
  <2>1. Grow(cut, u) = IF full THEN [chunks |-> Append(chunks, current), current |-> Append(tail, u)]
                       ELSE [cut EXCEPT !.current = x]
    BY DEF Grow
  <2> HIDE DEF x, chunks, current
  <2>2. [cut EXCEPT !.current = x] = [chunks |-> chunks, current |-> x]
    BY <1>1
  <2>3. QED
    BY <2>1, <2>2 DEF x, chunks, current
<1>5. a \in Nat \ {0} /\ a <= n + 1
  BY <1>1 DEF IsPart
<1> HIDE DEF bound, chunks, current, u
<1>6. Words(current) \in Nat
  BY <1>1, WordsType
<1>7. CASE full
  <2> DEFINE next == Append(tail, u)
             all == Append(chunks, current)
  <2>1. PICK k : a <= k /\ IsPart(tail, units, k, n)
    BY <1>1, CarriedIsPart
  <2>2. tail \in Seq(U) /\ Words(tail) <= OverlapWords
    BY <1>1, CarriedIsPart
  <2> HIDE DEF tail
  <2>3. Words(next) = Words(tail) + u.words /\ Words(tail) \in Nat
    BY <1>2, <2>2, WordsOfAppend, WordsType
  <2>4. Words(next) <= bound
    BY <1>2, <1>3, <2>2, <2>3
  <2>5. next \in Seq(U) /\ next # <<>>
    BY <1>2, <2>2, AppendHolds
  <2>6. IsPart(next, units, k, n + 1)
    BY <2>1, <2>2, PartGrows DEF u
  <2>7. all \in Seq(Seq(U)) /\ ToSet(all) = ToSet(chunks) \cup {current}
    BY <1>1, AppendHolds
  <2>8. k \in Nat \ {0}
    BY <2>1 DEF IsPart
  <2>9. ASSUME NEW c \in ToSet(all) PROVE Early(c, U, units, k, bound)
    <3>1. CASE c = current
      BY <1>1, <2>1, <3>1 DEF Early
    <3>2. CASE c # current
      <4>1. Early(c, U, units, a, bound)
        BY <1>1, <2>7, <3>2
      <4>2. PICK f, t : f <= a /\ IsPart(c, units, f, t)
        BY <4>1 DEF Early
      <4>3. f \in Nat
        BY <4>2 DEF IsPart
      <4>4. f <= k
        BY <1>5, <2>1, <2>8, <4>2, <4>3
      <4>5. QED
        BY <4>1, <4>2, <4>4 DEF Early
    <3>3. QED
      BY <3>1, <3>2
  <2>10. ASSUME NEW p \in 1 .. n + 1, p < k PROVE \E c \in ToSet(all) : units[p] \in ToSet(c)
    <3>1. k <= n + 1
      BY <2>1 DEF IsPart
    <3>2. p \in 1 .. n
      BY <2>8, <2>10, <3>1
    <3>3. CASE p < a
      BY <1>1, <2>7, <3>2, <3>3
    <3>4. CASE ~(p < a)
      <4> DEFINE q == p - a + 1
      <4>1. q \in 1 .. n - a + 1 /\ a + q - 1 = p
        BY <1>5, <3>2, <3>4
      <4>2. current[q] = units[p] /\ q \in DOMAIN current
        BY <1>1, <4>1 DEF IsPart
      <4>3. units[p] \in ToSet(current)
        BY <4>2 DEF ToSet
      <4>4. QED
        BY <2>7, <4>3
    <3>5. QED
      BY <3>3, <3>4
  <2> HIDE DEF next, all
  <2> DEFINE new == [chunks |-> all, current |-> next]
  <2>11. CutUpTo(new, U, units, n + 1, k, bound)
    BY <2>4, <2>5, <2>6, <2>7, <2>9, <2>10 DEF CutUpTo, CutsOf
  <2>12. QED
    BY <1>4, <1>7, <2>11 DEF next, all, u, bound
<1>8. CASE ~full
  <2> DEFINE next == Append(current, u)
  <2>1. Words(next) = Words(current) + u.words
    BY <1>1, <1>2, WordsOfAppend
  <2>2. Words(next) <= bound
    <3>1. CASE current = <<>>
      <4>1. Words(current) = 0
        BY <3>1, WordsOfNone
      <4>2. QED
        BY <1>2, <1>3, <2>1, <4>1
    <3>2. CASE current # <<>>
      BY <1>2, <1>3, <1>6, <1>8, <2>1, <3>2
    <3>3. QED
      BY <3>1, <3>2
  <2>3. next \in Seq(U) /\ next # <<>>
    <3>1. current \in Seq(U) /\ u \in U
      BY <1>1, <1>2
    <3> HIDE DEF u
    <3>2. QED
      BY <3>1, AppendHolds
  <2>4. IsPart(next, units, a, n + 1)
    BY <1>1, PartGrows DEF u
  <2>5. \A p \in 1 .. n + 1 : p < a => \E c \in ToSet(chunks) : units[p] \in ToSet(c)
    <3> SUFFICES ASSUME NEW p \in 1 .. n + 1, p < a PROVE \E c \in ToSet(chunks) : units[p] \in ToSet(c)
      OBVIOUS
    <3>1. p \in 1 .. n
      BY <1>5
    <3>2. QED
      BY <1>1, <3>1
  <2> HIDE DEF next
  <2> DEFINE new == [chunks |-> chunks, current |-> next]
  <2>6. CutUpTo(new, U, units, n + 1, a, bound)
    BY <1>1, <2>2, <2>3, <2>4, <2>5 DEF CutUpTo, CutsOf
  <2>7. QED
    BY <1>4, <1>8, <2>6 DEF next, u, bound
<1>9. QED
  BY <1>7, <1>8

LEMMA GrowType ==
    ASSUME NEW U, Counted(U), NEW cut \in CutsOf(U), NEW u \in U
    PROVE  Grow(cut, u) \in CutsOf(U)
<1> DEFINE chunks == cut.chunks
           current == cut.current
           full == current # <<>> /\ Words(current) + u.words > MaxWords
<1>1. cut = [chunks |-> chunks, current |-> current] /\ chunks \in Seq(Seq(U)) /\ current \in Seq(U)
  BY DEF CutsOf
<1>2. Grow(cut, u) = IF full THEN [chunks |-> Append(chunks, current), current |-> Append(Carried(current), u)]
                     ELSE [cut EXCEPT !.current = Append(current, u)]
  BY DEF Grow
<1> HIDE DEF chunks, current
<1>3. Carried(current) \in Seq(U)
  <2> DEFINE L == Len(current)
  <2>1. IsPart(current, current, 1, L)
    BY <1>1 DEF IsPart
  <2>2. QED
    BY <1>1, <2>1, CarriedIsPart
<1> DEFINE x == Append(current, u)
           y == Append(Carried(current), u)
           z == Append(chunks, current)
<1>4. x \in Seq(U) /\ y \in Seq(U) /\ z \in Seq(Seq(U))
  BY <1>1, <1>3
<1> HIDE DEF x, y, z
<1>5. [cut EXCEPT !.current = x] = [chunks |-> chunks, current |-> x]
  BY <1>1
<1>6. [chunks |-> z, current |-> y] \in CutsOf(U) /\ [chunks |-> chunks, current |-> x] \in CutsOf(U)
  BY <1>1, <1>4 DEF CutsOf
<1>7. QED
  BY <1>2, <1>5, <1>6 DEF x, y, z

CutSteps(r, units, V) ==
    /\ r \in [0 .. Len(units) -> V] /\ r[0] = [chunks |-> <<>>, current |-> <<>>]
    /\ \A n \in 1 .. Len(units) : r[n] = Grow(r[n - 1], units[n])
    /\ FoldLeft(Grow, [chunks |-> <<>>, current |-> <<>>], units) = r[Len(units)]

LEMMA CutsUnfold ==
    ASSUME NEW U, Counted(U), NEW units \in Seq(U)
    PROVE  \E r : CutSteps(r, units, CutsOf(U))
<1> DEFINE V == CutsOf(U)
           N == Len(units)
           D == 1 .. N
           none == [chunks |-> <<>>, current |-> <<>>]
           apply == [p \in V \X D |-> Grow(p[1], units[p[2]])]
           It(g) == g = [S \in SUBSET D |-> IF S = {} THEN none ELSE Grow(g[S \ {Max(S)}], units[Max(S)])]
           g0 == CHOOSE g : It(g)
<1>1. N \in Nat /\ DOMAIN units = D /\ \A n \in D : units[n] \in U
  OBVIOUS
<1>2. FoldLeft(Grow, none, units) = g0[D]
  BY <1>1 DEF FoldLeft, MapThenFoldSet
<1>3. none \in V
  BY DEF CutsOf
<1>4. \A v \in V, n \in D : Grow(v, units[n]) \in V
  BY <1>1, GrowType
<1> HIDE DEF V, N, none, It, g0
<1>5. \A v \in V, n \in D : apply[<<v, n>>] = Grow(v, units[n])
  OBVIOUS
<1> HIDE DEF apply
<1>6. StaysIn(V, apply, D)
  BY <1>4, <1>5 DEF StaysIn
<1>7. PICK g \in [SUBSET D -> V] : FoldsFromLeft(g, N, none, apply)
  BY <1>1, <1>3, <1>6, FoldFromLeft
<1>8. It(g)
  <2> SUFFICES ASSUME NEW S \in SUBSET D, S # {}
               PROVE  apply[<<g[S \ {Max(S)}], Max(S)>>] = Grow(g[S \ {Max(S)}], units[Max(S)])
    BY <1>7 DEF It, FoldsFromLeft
  <2>1. g[S \ {Max(S)}] \in V
    BY <1>7
  <2>2. Max(S) \in D
    BY <1>1, MaxInside
  <2>3. QED
    BY <1>5, <2>1, <2>2
<1>9. It(g0)
  BY <1>8 DEF g0
<1>10. \A S \in SUBSET D :
          g0[S] = IF S = {} THEN none ELSE Grow(g0[S \ {Max(S)}], units[Max(S)])
  BY <1>9 DEF It
<1>11. g0[{}] = none
  BY <1>10
<1>12. \A n \in D : g0[1 .. n] = Grow(g0[1 .. n - 1], units[n])
  <2> SUFFICES ASSUME NEW n \in D PROVE g0[1 .. n] = Grow(g0[1 .. n - 1], units[n])
    OBVIOUS
  <2>1. n \in Nat \ {0} /\ 1 .. n \in SUBSET D
    BY <1>1
  <2>2. Max(1 .. n) = n /\ (1 .. n) \ {n} = 1 .. n - 1 /\ 1 .. n # {}
    BY <2>1, MaxUpTo
  <2>3. QED
    BY <1>10, <2>1, <2>2
<1>13. Follows(g0, N, V, none, apply)
  BY <1>5, <1>11, <1>12 DEF Follows
<1>14. PICK h \in [0 .. N -> V] : /\ h[0] = none /\ h[N] = g0[1 .. N]
                                  /\ \A n \in 1 .. N : h[n] = apply[<<h[n - 1], n>>]
  BY <1>1, <1>3, <1>6, <1>13, FoldSteps
<1>15. \A n \in D : h[n] = Grow(h[n - 1], units[n])
  <2> SUFFICES ASSUME NEW n \in D PROVE h[n] = Grow(h[n - 1], units[n])
    OBVIOUS
  <2>1. n - 1 \in 0 .. N
    BY <1>1
  <2>2. h[n - 1] \in V /\ h[n] = apply[<<h[n - 1], n>>]
    BY <1>14, <2>1
  <2>3. QED
    BY <1>5, <2>2
<1>16. QED
  BY <1>2, <1>14, <1>15 DEF CutSteps, N, V, none


\* What a section is cut into, before a short end is joined.
LEMMA CutHolds ==
    ASSUME NEW U, Counted(U), NEW units \in Seq(U),
           NEW longest \in Nat, \A p \in 1 .. Len(units) : units[p].words <= longest
    PROVE  \E k : CutUpTo(FoldLeft(Grow, [chunks |-> <<>>, current |-> <<>>], units), U, units, Len(units), k,
                          Larger(OverlapWords + longest, MaxWords))
<1> DEFINE bound == Larger(OverlapWords + longest, MaxWords)
           N == Len(units)
           none == [chunks |-> <<>>, current |-> <<>>]
<1>1. PICK r : CutSteps(r, units, CutsOf(U))
  BY CutsUnfold
<1>2. /\ r \in [0 .. N -> CutsOf(U)] /\ r[0] = none
      /\ \A n \in 1 .. N : r[n] = Grow(r[n - 1], units[n])
      /\ FoldLeft(Grow, none, units) = r[N]
  BY <1>1 DEF CutSteps
<1>3. N \in Nat /\ bound \in Nat
  BY ChunkingAssumption DEF Larger
<1> HIDE DEF bound
<1> DEFINE P == {n \in 0 .. N : \E k : CutUpTo(r[n], U, units, n, k, bound)}
<1>4. 0 \in P
  <2>1. none \in CutsOf(U)
    BY DEF CutsOf
  <2>2. Words(none.current) <= bound
    <3>1. Words(<<>>) = 0
      BY WordsOfNone
    <3>2. none.current = <<>>
      OBVIOUS
    <3>3. QED
      BY <1>3, <3>1, <3>2
  <2>3. IsPart(none.current, units, 1, 0)
    BY <1>3 DEF IsPart
  <2>4. ToSet(none.chunks) = {}
    BY DEF ToSet
  <2>5. CutUpTo(none, U, units, 0, 1, bound)
    BY <2>1, <2>2, <2>3, <2>4 DEF CutUpTo
  <2>6. 0 \in 0 .. N
    BY <1>3
  <2> HIDE DEF none
  <2>7. QED
    BY <1>2, <2>5, <2>6
<1> HIDE DEF none
<1>5. ASSUME NEW m \in 0 .. N - 1, m \in P PROVE m + 1 \in P
  <2>1. m + 1 \in 1 .. N /\ (m + 1) - 1 = m /\ m + 1 \in 0 .. N /\ m \in Nat /\ m + 1 <= Len(units)
    BY <1>3
  <2>2. PICK a : CutUpTo(r[m], U, units, m, a, bound)
    BY <1>5
  <2>3. r[m + 1] = Grow(r[m], units[m + 1])
    BY <1>2, <2>1
  <2> DEFINE cut == r[m]
  <2> HIDE DEF cut
  <2>4. CutUpTo(cut, U, units, m, a, Larger(OverlapWords + longest, MaxWords))
    BY <2>2 DEF bound, cut
  <2>5. \E k : CutUpTo(Grow(cut, units[m + 1]), U, units, m + 1, k, Larger(OverlapWords + longest, MaxWords))
    BY <2>1, <2>4, GrowHolds
  <2>6. QED
    BY <2>1, <2>3, <2>5 DEF bound, cut
<1> HIDE DEF P
<1>6. 0 .. N \subseteq P
  BY <1>3, <1>4, <1>5, Inductively
<1>7. N \in 0 .. N
  BY <1>3
<1>8. \E k : CutUpTo(r[N], U, units, N, k, bound)
  BY <1>6, <1>7 DEF P
<1>9. QED
  BY <1>2, <1>8 DEF bound, none, N

LEMMA WordsOfBoth ==
    ASSUME NEW U, Counted(U), NEW s \in Seq(U), NEW t \in Seq(U)
    PROVE  Words(s \o t) = Words(s) + Words(t)
<1> DEFINE c == s \o t
           L == Len(s)
           M == Len(t)
           A == 1 .. L
           B == L + 1 .. L + M
           T == 1 .. M
           f == [i \in 1 .. L + M |-> c[i].words]
           g == [i \in A |-> s[i].words]
           h == [i \in T |-> t[i].words]
           same == [i \in A |-> i]
           shift == [i \in T |-> L + i]
<1>1. /\ L \in Nat /\ M \in Nat /\ DOMAIN c = 1 .. L + M /\ DOMAIN s = A /\ DOMAIN t = T
      /\ \A p \in A : c[p] = s[p] /\ s[p] \in U
      /\ \A p \in T : c[L + p] = t[p] /\ t[p] \in U
      /\ c \in Seq(U)
  BY ConcatHolds
<1>2. Words(c) = SumFunctionOnSet(f, 1 .. L + M) /\ Words(s) = SumFunctionOnSet(g, A) /\ Words(t) = SumFunctionOnSet(h, T)
  BY <1>1 DEF Words
<1>3. /\ A \cup B = 1 .. L + M /\ A \cap B = {} /\ A \subseteq 1 .. L + M
      /\ \A p \in T : L + p \in 1 .. L + M /\ L + p \in B
  BY <1>1
<1> HIDE DEF c
<1>4. \A i \in 1 .. L + M : c[i] \in U
  BY <1>1
<1>5. \A i \in 1 .. L + M : f[i] \in Int
  BY <1>4 DEF Counted
<1>6. \A p \in A : g[p] \in Int /\ g[p] = f[same[p]]
  BY <1>1, <1>3 DEF Counted
<1>7. \A p \in T : h[p] \in Int /\ h[p] = f[shift[p]]
  <2> SUFFICES ASSUME NEW p \in T PROVE h[p] \in Int /\ h[p] = f[shift[p]]
    OBVIOUS
  <2>1. c[L + p] = t[p] /\ t[p].words \in Int /\ L + p \in 1 .. L + M
    BY <1>1, <1>3 DEF Counted
  <2>2. f[L + p] = c[L + p].words
    BY <2>1
  <2>3. QED
    BY <2>1, <2>2
<1>8. {same[p] : p \in A} = A /\ \A p, q \in A : same[p] = same[q] => p = q
  OBVIOUS
<1>9. {shift[p] : p \in T} = B /\ \A p, q \in T : shift[p] = shift[q] => p = q
  <2>1. \A p \in T : shift[p] = L + p
    OBVIOUS
  <2>2. ASSUME NEW x \in B PROVE x \in {shift[p] : p \in T}
    <3>1. x - L \in T /\ shift[x - L] = x
      BY <1>1
    <3>2. QED
      BY <3>1
  <2>3. \A p, q \in T : shift[p] = shift[q] => p = q
    BY <1>1, <2>1
  <2>4. {shift[p] : p \in T} \subseteq B
    BY <1>3, <2>1
  <2>5. QED
    BY <2>2, <2>3, <2>4
<1>10. IsFiniteSet(A) /\ IsFiniteSet(T) /\ IsFiniteSet(1 .. L + M)
  <2>1. L + M \in Nat
    BY <1>1
  <2>2. QED
    BY <1>1, <2>1, CardinalityUpTo
<1>11. IsFiniteSet(B)
  <2>1. B \subseteq 1 .. L + M
    BY <1>3
  <2>2. QED
    BY <1>10, <2>1, FS_Subset
<1> HIDE DEF f, g, h, same, shift, A, B, T
<1>12. SumFunctionOnSet(g, A) = SumFunctionOnSet(f, {same[p] : p \in A})
  <2>1. \A p \in A : g[p] \in Int /\ g[p] = f[same[p]]
    BY <1>6
  <2>2. \A p, q \in A : same[p] = same[q] => p = q
    BY <1>8
  <2>3. IsFiniteSet(A)
    BY <1>10
  <2>4. QED
    BY ONLY <2>1, <2>2, <2>3, SumRenames
<1>13. SumFunctionOnSet(h, T) = SumFunctionOnSet(f, {shift[p] : p \in T})
  <2>1. \A p \in T : h[p] \in Int /\ h[p] = f[shift[p]]
    BY <1>7
  <2>2. \A p, q \in T : shift[p] = shift[q] => p = q
    BY <1>9
  <2>3. IsFiniteSet(T)
    BY <1>10
  <2>4. QED
    BY ONLY <2>1, <2>2, <2>3, SumRenames
<1>14. Numbers(f, A \cup B)
  BY <1>3, <1>5 DEF Numbers
<1>15. SumFunctionOnSet(f, A \cup B) = SumFunctionOnSet(f, A) + SumFunctionOnSet(f, B)
  BY <1>3, <1>10, <1>11, <1>14, SumsUp
<1>16. QED
  BY <1>2, <1>3, <1>8, <1>9, <1>12, <1>13, <1>15 DEF c

\* Fewer of the sentences have no more words.
LEMMA WordsOfFewer ==
    ASSUME NEW U, Counted(U), NEW s \in Seq(U), NEW I \in SUBSET DOMAIN s, NEW key \in [I -> Int]
    PROVE  Pick(s, I, key) \in Seq(U) /\ Words(Pick(s, I, key)) <= Words(s)
<1> DEFINE c == Pick(s, I, key)
           n == Cardinality(I)
           D == 1 .. Len(s)
           f == [i \in D |-> s[i].words]
           g == [i \in 1 .. n |-> c[i].words]
<1>1. DOMAIN s = D /\ Len(s) \in Nat /\ (\A i \in D : s[i] \in U) /\ I \subseteq D
  OBVIOUS
<1>p. /\ Pick(s, I, key) \in Seq(U)
      /\ Len(Pick(s, I, key)) = Cardinality(I) /\ Cardinality(I) \in Nat
      /\ \E place : /\ Enumerates(place, I, key)
                    /\ \A m \in 1 .. Cardinality(I) : Pick(s, I, key)[m] = s[place[m]]
  BY PickIsOrdered
<1>2. c \in Seq(U) /\ DOMAIN c = 1 .. n /\ n \in Nat
  BY <1>p
<1>3. PICK place : Enumerates(place, I, key) /\ \A m \in 1 .. n : c[m] = s[place[m]]
  BY <1>p
<1>4. Words(s) = SumFunctionOnSet(f, D) /\ Words(c) = SumFunctionOnSet(g, 1 .. n)
  BY <1>1, <1>2 DEF Words
<1> HIDE DEF c, n
<1>5. /\ place \in [1 .. n -> I] /\ \A i \in I : \E m \in 1 .. n : place[m] = i
  BY <1>3 DEF Enumerates, n
<1>6. {place[m] : m \in 1 .. n} = I
  BY <1>5
<1>7. \A p, q \in 1 .. n : place[p] = place[q] => p = q
  <2>1. I \in SUBSET Int
    BY <1>1
  <2>2. QED
    BY <1>2, <1>3, <2>1, EnumeratesOnce DEF n
<1>8. \A m \in 1 .. n : g[m] \in Int /\ g[m] = f[place[m]]
  <2> SUFFICES ASSUME NEW m \in 1 .. n PROVE g[m] \in Int /\ g[m] = f[place[m]]
    OBVIOUS
  <2>1. place[m] \in D /\ c[m] = s[place[m]]
    BY <1>1, <1>3, <1>5
  <2>2. f[place[m]] = s[place[m]].words /\ s[place[m]].words \in Int
    BY <1>1, <2>1 DEF Counted
  <2>3. QED
    BY <2>1, <2>2
<1>9. Counts(f, D)
  BY <1>1 DEF Counts, Counted
<1>10. IsFiniteSet(D) /\ IsFiniteSet(1 .. n)
  BY <1>1, <1>2, CardinalityUpTo
<1> HIDE DEF f, g, D
<1>11. SumFunctionOnSet(g, 1 .. n) = SumFunctionOnSet(f, {place[m] : m \in 1 .. n})
  <2> DEFINE E == 1 .. n
  <2>1. \A p \in E : g[p] \in Int /\ g[p] = f[place[p]]
    BY <1>8
  <2>2. \A p, q \in E : place[p] = place[q] => p = q
    BY <1>7
  <2>3. IsFiniteSet(E)
    BY <1>10
  <2> HIDE DEF E
  <2>4. SumFunctionOnSet(g, E) = SumFunctionOnSet(f, {place[p] : p \in E})
    BY ONLY <2>1, <2>2, <2>3, SumRenames
  <2>5. QED
    BY <2>4 DEF E
<1>12. SumFunctionOnSet(f, I) <= SumFunctionOnSet(f, D)
  BY <1>1, <1>9, <1>10, SumOfPart
<1>13. QED
  BY <1>2, <1>4, <1>6, <1>11, <1>12 DEF c

InOrder(c, units) ==
    \A p, q \in DOMAIN c : p < q =>
        \E v \in {i \in DOMAIN units : units[i] = c[p]}, w \in {i \in DOMAIN units : units[i] = c[q]} : v < w
WellCut(c, U, units, bound) ==
    c \in Seq(U) /\ ToSet(c) \subseteq ToSet(units) /\ Words(c) <= bound /\ InOrder(c, units)

LEMMA PartIsWellCut ==
    ASSUME NEW U, NEW units \in Seq(U), NEW c \in Seq(U), NEW a, NEW b, IsPart(c, units, a, b)
    PROVE  ToSet(c) \subseteq ToSet(units) /\ InOrder(c, units)
<1> DEFINE L == b - a + 1
<1>1. /\ a \in Nat \ {0} /\ b \in Nat /\ a <= b + 1 /\ b <= Len(units) /\ Len(units) \in Nat
      /\ DOMAIN c = 1 .. L /\ \A p \in 1 .. L : c[p] = units[a + p - 1]
      /\ DOMAIN units = 1 .. Len(units)
  BY DEF IsPart
<1>2. \A p \in 1 .. L : a + p - 1 \in 1 .. Len(units)
  BY <1>1
<1>3. ToSet(c) \subseteq ToSet(units)
  BY <1>1, <1>2 DEF ToSet
<1>4. InOrder(c, units)
  <2> SUFFICES ASSUME NEW p \in 1 .. L, NEW q \in 1 .. L, p < q
               PROVE  \E v \in {i \in DOMAIN units : units[i] = c[p]}, w \in {i \in DOMAIN units : units[i] = c[q]} : v < w
    BY <1>1 DEF InOrder
  <2>1. /\ a + p - 1 \in {i \in DOMAIN units : units[i] = c[p]}
        /\ a + q - 1 \in {i \in DOMAIN units : units[i] = c[q]}
    BY <1>1, <1>2
  <2>2. a + p - 1 < a + q - 1
    BY <1>1
  <2>3. QED
    BY <2>1, <2>2
<1>5. QED
  BY <1>3, <1>4

\* What a short end adds.
IsTheRest(rest, last, tail) ==
    /\ Joined(last, tail) = last \o rest /\ Words(rest) <= Words(tail)
    /\ ToSet(rest) = ToSet(tail) \ ToSet(last)
    /\ \A m \in DOMAIN rest : rest[m] \notin ToSet(last)
    /\ \A m, n \in DOMAIN rest : m < n =>
           \E p, q \in DOMAIN tail : p < q /\ tail[p] = rest[m] /\ tail[q] = rest[n]

LEMMA FilteredTail ==
    ASSUME NEW U, Counted(U), NEW last \in Seq(U), NEW tail \in Seq(U)
    PROVE  \E rest \in Seq(U) : IsTheRest(rest, last, tail)
<1> DEFINE I == {p \in DOMAIN tail : \A i \in DOMAIN last : last[i] # tail[p]}
           key == [p \in I |-> p]
           rest == Pick(tail, I, key)
           c == Cardinality(I)
<1>1. DOMAIN tail = 1 .. Len(tail) /\ Len(tail) \in Nat
  OBVIOUS
<1>2. I \in SUBSET DOMAIN tail /\ key \in [I -> Int] /\ \A p \in I : key[p] = p /\ p \in Int
  BY <1>1
<1>3. Joined(last, tail) = last \o rest
  BY DEF Joined, Where
<1>4. \A p \in DOMAIN tail : p \in I <=> tail[p] \notin ToSet(last)
  BY DEF ToSet
<1> HIDE DEF I, key, rest
<1>p. /\ Pick(tail, I, key) \in Seq(U)
      /\ Len(Pick(tail, I, key)) = Cardinality(I) /\ Cardinality(I) \in Nat
      /\ \E place : /\ Enumerates(place, I, key)
                    /\ \A m \in 1 .. Cardinality(I) : Pick(tail, I, key)[m] = tail[place[m]]
  <2>1. tail \in Seq(U) /\ I \in SUBSET DOMAIN tail /\ key \in [I -> Int]
    BY <1>2
  <2>2. QED
    BY ONLY <2>1, PickIsOrdered
<1>5. rest \in Seq(U) /\ Words(rest) <= Words(tail)
  BY <1>2, WordsOfFewer DEF rest
<1>6. DOMAIN rest = 1 .. c /\ c \in Nat
  BY <1>p DEF rest
<1>7. PICK place : Enumerates(place, I, key) /\ \A m \in 1 .. c : rest[m] = tail[place[m]]
  BY <1>p DEF rest
<1> HIDE DEF c
<1>8. /\ place \in [1 .. c -> I] /\ \A i \in I : \E m \in 1 .. c : place[m] = i
      /\ \A m, n \in 1 .. c : m < n => \/ key[place[m]] < key[place[n]]
                                       \/ (key[place[m]] = key[place[n]] /\ place[m] < place[n])
  BY <1>7 DEF Enumerates, c
<1>9. ToSet(rest) = {rest[m] : m \in 1 .. c} /\ ToSet(tail) = {tail[p] : p \in DOMAIN tail}
  BY <1>6 DEF ToSet
<1>10. \A m \in 1 .. c : place[m] \in I /\ rest[m] = tail[place[m]] /\ rest[m] \notin ToSet(last)
  BY <1>2, <1>4, <1>7, <1>8
<1>11. ToSet(rest) = ToSet(tail) \ ToSet(last)
  <2>1. ToSet(rest) \subseteq ToSet(tail) \ ToSet(last)
    BY <1>2, <1>9, <1>10
  <2>2. ASSUME NEW p \in DOMAIN tail, tail[p] \notin ToSet(last) PROVE tail[p] \in ToSet(rest)
    <3>1. PICK m \in 1 .. c : place[m] = p
      BY <1>4, <1>8, <2>2
    <3>2. QED
      BY <1>9, <1>10, <3>1
  <2>3. ToSet(tail) \ ToSet(last) \subseteq ToSet(rest)
    BY <1>9, <2>2
  <2>4. QED
    BY <2>1, <2>3
<1>12. ASSUME NEW m \in 1 .. c, NEW n \in 1 .. c, m < n
       PROVE  \E p, q \in DOMAIN tail : p < q /\ tail[p] = rest[m] /\ tail[q] = rest[n]
  <2>1. place[m] \in DOMAIN tail /\ place[n] \in DOMAIN tail
    BY <1>2, <1>10
  <2>2. key[place[m]] = place[m] /\ key[place[n]] = place[n] /\ place[m] \in Int /\ place[n] \in Int
    BY <1>2, <1>10
  <2>3. place[m] < place[n]
    BY <1>8, <1>12, <2>2
  <2>4. QED
    BY <1>10, <2>1, <2>3
<1>13. IsTheRest(rest, last, tail)
  BY <1>3, <1>5, <1>6, <1>10, <1>11, <1>12 DEF IsTheRest
<1>14. QED
  BY <1>5, <1>13

LEMMA JoinedHolds ==
    ASSUME NEW U, Counted(U), NEW units \in Seq(U), NEW last \in Seq(U), NEW tail \in Seq(U),
           NEW a, NEW b, IsPart(last, units, a, b), NEW k, IsPart(tail, units, k, Len(units)), a <= k,
           NEW bound \in Nat, Words(last) <= bound, Words(tail) < MinWords
    PROVE  /\ WellCut(Joined(last, tail), U, units, bound + MinWords - 1)
           /\ ToSet(Joined(last, tail)) = ToSet(last) \cup ToSet(tail)
<1>0. PICK rest \in Seq(U) : IsTheRest(rest, last, tail)
  BY FilteredTail
<1>1. /\ Joined(last, tail) = last \o rest /\ Words(rest) <= Words(tail)
      /\ ToSet(rest) = ToSet(tail) \ ToSet(last)
      /\ \A m \in DOMAIN rest : rest[m] \notin ToSet(last)
      /\ \A m, n \in DOMAIN rest : m < n =>
             \E p, q \in DOMAIN tail : p < q /\ tail[p] = rest[m] /\ tail[q] = rest[n]
  BY <1>0 DEF IsTheRest
<1> DEFINE c == last \o rest
           L == Len(last)
           R == Len(rest)
<1>2. /\ c \in Seq(U) /\ L \in Nat /\ R \in Nat /\ DOMAIN c = 1 .. L + R
      /\ \A p \in 1 .. L : c[p] = last[p]
      /\ \A p \in 1 .. L + R : p \notin 1 .. L => p - L \in 1 .. R /\ c[p] = rest[p - L]
      /\ ToSet(c) = ToSet(last) \cup ToSet(rest)
  BY ConcatHolds
<1>3. DOMAIN rest = 1 .. R /\ DOMAIN last = 1 .. L
  OBVIOUS
<1>4. ToSet(last) \subseteq ToSet(units) /\ InOrder(last, units) /\ ToSet(tail) \subseteq ToSet(units)
  BY PartIsWellCut
<1>5. ToSet(c) = ToSet(last) \cup ToSet(tail)
  BY <1>1, <1>2
<1>6. Words(c) <= bound + MinWords - 1
  <2>1. Words(c) = Words(last) + Words(rest)
    BY WordsOfBoth
  <2>2. Words(last) \in Nat /\ Words(rest) \in Nat /\ Words(tail) \in Nat
    BY WordsType
  <2>3. MinWords \in Nat
    BY ChunkingAssumption
  <2> HIDE DEF c
  <2>4. QED
    BY <1>1, <2>1, <2>2, <2>3
<1>7. /\ a \in Nat \ {0} /\ b \in Nat /\ L = b - a + 1 /\ b <= Len(units) /\ a <= b + 1
      /\ \A p \in 1 .. L : last[p] = units[a + p - 1]
  BY DEF IsPart
<1>8. /\ k \in Nat \ {0} /\ DOMAIN tail = 1 .. Len(units) - k + 1
      /\ (\A p \in 1 .. Len(units) - k + 1 : tail[p] = units[k + p - 1])
      /\ Len(units) \in Nat /\ DOMAIN units = 1 .. Len(units)
  BY DEF IsPart
<1> HIDE DEF c, L, R
<1> DEFINE at(x) == {i \in DOMAIN units : units[i] = x}
<1>9. ASSUME NEW p \in 1 .. L + R, NEW q \in 1 .. L + R, p < q PROVE \E v \in at(c[p]), w \in at(c[q]) : v < w
  <2>1. CASE q \in 1 .. L
    <3>1. p \in 1 .. L
      BY <1>2, <1>9, <2>1
    <3>2. c[p] = last[p] /\ c[q] = last[q]
      BY <1>2, <2>1, <3>1
    <3>3. QED
      BY <1>3, <1>4, <1>9, <2>1, <3>1, <3>2 DEF InOrder
  <2>2. CASE p \in 1 .. L /\ q \notin 1 .. L
    <3>1. q - L \in 1 .. R /\ c[q] = rest[q - L] /\ c[q] \notin ToSet(last)
      BY <1>1, <1>2, <1>3, <2>2
    <3>2. c[q] \in ToSet(tail)
      <4>1. rest[q - L] \in ToSet(rest)
        BY <1>3, <3>1 DEF ToSet
      <4>2. QED
        BY <1>1, <3>1, <4>1
    <3>3. PICK j \in 1 .. Len(units) - k + 1 : c[q] = units[k + j - 1]
      BY <1>8, <3>2 DEF ToSet
    <3> DEFINE v == a + p - 1
               w == k + j - 1
    <3>4. v \in 1 .. Len(units) /\ units[v] = c[p] /\ v <= b /\ v \in Int
      <4>1. v \in Int /\ v >= 1 /\ v <= b
        BY <1>7, <2>2
      <4>2. c[p] = last[p] /\ last[p] = units[v]
        BY <1>2, <1>7, <2>2
      <4> HIDE DEF v
      <4>3. v \in 1 .. Len(units)
        BY <1>7, <1>8, <4>1
      <4>4. QED
        BY <4>1, <4>2, <4>3
    <3>5. w \in 1 .. Len(units) /\ a <= w /\ w \in Int
      <4> DEFINE l == Len(units)
      <4>1. k \in Nat \ {0} /\ l \in Nat /\ j \in 1 .. l - k + 1 /\ a \in Nat /\ a <= k
        BY <1>7, <1>8
      <4> HIDE DEF l
      <4>2. w \in 1 .. l /\ a <= w /\ w \in Int
        BY ONLY <4>1
      <4>3. QED
        BY <4>2 DEF l
    <3>6. ~(w <= b)
      <4>0. SUFFICES ASSUME w <= b PROVE FALSE
        OBVIOUS
      <4>1. w - a + 1 \in 1 .. L /\ a + (w - a + 1) - 1 = w
        <5>1. w \in Int /\ a <= w /\ a \in Int /\ b \in Int /\ L = b - a + 1
          BY <1>7, <3>5
        <5> HIDE DEF w
        <5>2. QED
          BY ONLY <5>1, <4>0
      <4>2. last[w - a + 1] = units[w]
        BY <1>7, <4>1
      <4>3. units[w] \in ToSet(last)
        BY <1>3, <4>1, <4>2 DEF ToSet
      <4>4. QED
        BY <3>1, <3>3, <4>3
    <3>7. v < w
      <4>1. v \in Int /\ w \in Int /\ b \in Int /\ v <= b
        BY <1>7, <3>4, <3>5
      <4> HIDE DEF v, w
      <4>2. QED
        BY ONLY <3>6, <4>1
    <3>8. v \in at(c[p]) /\ w \in at(c[q])
      BY <1>8, <3>3, <3>4, <3>5
    <3>9. QED
      BY <3>7, <3>8
  <2>3. CASE p \notin 1 .. L /\ q \notin 1 .. L
    <3> DEFINE m == p - L
               n == q - L
    <3>1. m \in 1 .. R /\ n \in 1 .. R /\ c[p] = rest[m] /\ c[q] = rest[n]
      BY <1>2, <2>3
    <3>2. m < n
      BY <1>2, <1>9
    <3>3. PICK i, j \in DOMAIN tail : i < j /\ tail[i] = rest[m] /\ tail[j] = rest[n]
      BY <1>1, <1>3, <3>1, <3>2
    <3>4. k + i - 1 \in 1 .. Len(units) /\ k + j - 1 \in 1 .. Len(units) /\ k + i - 1 < k + j - 1
      <4> DEFINE l == Len(units)
      <4>1. k \in Nat \ {0} /\ l \in Nat /\ i \in 1 .. l - k + 1 /\ j \in 1 .. l - k + 1 /\ i < j
        BY <1>8, <3>3
      <4> HIDE DEF l
      <4>2. /\ k \in Int /\ l \in Int /\ i \in Int /\ j \in Int
            /\ 1 <= k /\ 1 <= i /\ i < j /\ j <= l - k + 1
        BY ONLY <4>1
      <4>3. k + i - 1 \in Int /\ 1 <= k + i - 1 /\ k + i - 1 < k + j - 1
        BY ONLY <4>2
      <4>4. k + j - 1 \in Int /\ k + j - 1 <= l /\ l \in Int
        BY ONLY <4>2
      <4>5. k + i - 1 \in 1 .. l /\ k + j - 1 \in 1 .. l
        BY ONLY <4>3, <4>4
      <4>6. QED
        BY <4>3, <4>5 DEF l
    <3>5. units[k + i - 1] = c[p] /\ units[k + j - 1] = c[q]
      BY <1>8, <3>1, <3>3
    <3>6. k + i - 1 \in at(c[p]) /\ k + j - 1 \in at(c[q])
      BY <1>8, <3>4, <3>5
    <3>7. QED
      BY <3>4, <3>6
  <2>4. p \in 1 .. L \/ p \notin 1 .. L
    OBVIOUS
  <2>5. q \in 1 .. L \/ q \notin 1 .. L
    OBVIOUS
  <2>6. QED
    BY <2>1, <2>2, <2>3
<1>10. InOrder(c, units)
  BY <1>2, <1>9 DEF InOrder
<1>11. ToSet(c) \subseteq ToSet(units)
  BY <1>4, <1>5
<1>12. QED
  BY <1>1, <1>2, <1>5, <1>6, <1>10, <1>11 DEF WellCut, c

LEMMA LongestExists ==
    ASSUME NEW U, Counted(U), NEW units \in Seq(U) \ {<<>>}
    PROVE  LET longest == CHOOSE n \in {u.words : u \in ToSet(units)} : \A u \in ToSet(units) : u.words <= n
           IN  longest \in Nat /\ \A p \in 1 .. Len(units) : units[p].words <= longest
<1> DEFINE N == Len(units)
           W == {u.words : u \in ToSet(units)}
           longest == CHOOSE n \in W : \A u \in ToSet(units) : u.words <= n
           f == [p \in 1 .. N |-> units[p].words]
<1>1. N \in Nat /\ N # 0 /\ DOMAIN units = 1 .. N /\ \A p \in 1 .. N : units[p] \in U
  OBVIOUS
<1>2. ToSet(units) = {units[p] : p \in 1 .. N}
  BY <1>1 DEF ToSet
<1>3. f \in Surjection(1 .. N, W)
  <2>1. f \in [1 .. N -> W]
    BY <1>2
  <2>2. \A n \in W : \E p \in 1 .. N : f[p] = n
    BY <1>2
  <2>3. QED
    BY <2>1, <2>2 DEF Surjection
<1>4. IsFiniteSet(1 .. N)
  BY <1>1, CardinalityUpTo
<1>5. IsFiniteSet(W)
  <2> HIDE DEF f, W, N
  <2>1. QED
    BY <1>3, <1>4, FS_Surjection
<1>6. W \in SUBSET Nat
  BY <1>1, <1>2 DEF Counted
<1>7. W # {}
  <2>1. 1 \in 1 .. N
    BY <1>1
  <2>2. units[1] \in ToSet(units)
    BY <1>2, <2>1
  <2>3. units[1].words \in W
    BY <2>2
  <2>4. QED
    BY <2>3
<1>8. PICK n \in W : \A m \in W : m <= n
  <2> HIDE DEF W
  <2>1. W \in SUBSET Int
    BY <1>6
  <2>2. QED
    BY <1>5, <1>7, <2>1, GreatestExists
<1>9. \A u \in ToSet(units) : u.words <= n
  BY <1>8
<1>10. longest \in W /\ \A u \in ToSet(units) : u.words <= longest
  BY <1>8, <1>9
<1> HIDE DEF longest, W
<1>11. longest \in Nat /\ \A p \in 1 .. N : units[p].words <= longest
  BY <1>2, <1>6, <1>10
<1>12. QED
  BY <1>11 DEF longest, W, N

LEMMA SplitHolds ==
    ASSUME NEW U, Counted(U), NEW units \in Seq(U) \ {<<>>},
           NEW longest \in Nat, \A p \in 1 .. Len(units) : units[p].words <= longest
    PROVE  /\ SplitSection(units) \in Seq(Seq(U))
           /\ \A c \in ToSet(SplitSection(units)) :
                  WellCut(c, U, units, Larger(OverlapWords + longest, MaxWords) + MinWords - 1)
           /\ \A u \in ToSet(units) : \E c \in ToSet(SplitSection(units)) : u \in ToSet(c)
<1> DEFINE bound == Larger(OverlapWords + longest, MaxWords)
           N == Len(units)
           cut == FoldLeft(Grow, [chunks |-> <<>>, current |-> <<>>], units)
           done == cut.chunks
           tail == cut.current
           chunks == Append(done, tail)
           L == Len(done)
           n == Len(chunks)
           all == Append(SubSeq(chunks, 1, n - 2), Joined(chunks[n - 1], chunks[n]))
           short == n > 1 /\ Words(chunks[n]) < MinWords
           wide == bound + MinWords - 1
<1>1. PICK k : CutUpTo(cut, U, units, N, k, bound)
  BY CutHolds
<1>2. N \in Nat \ {0} /\ DOMAIN units = 1 .. N
  OBVIOUS
<1>3. /\ done \in Seq(Seq(U)) /\ tail \in Seq(U) /\ tail # <<>> /\ Words(tail) <= bound
      /\ IsPart(tail, units, k, N)
      /\ \A c \in ToSet(done) : Early(c, U, units, k, bound)
      /\ \A p \in 1 .. N : p < k => \E c \in ToSet(done) : units[p] \in ToSet(c)
  BY <1>1, <1>2 DEF CutUpTo, CutsOf
<1>4. SplitSection(units) = IF short THEN all ELSE chunks
  BY <1>3 DEF SplitSection
<1>5. /\ bound \in Nat /\ bound <= wide /\ MinWords \in Nat
  BY ChunkingAssumption DEF Larger
<1> HIDE DEF cut, done, tail, bound
<1>6. /\ L \in Nat /\ DOMAIN done = 1 .. L /\ n = L + 1 /\ chunks \in Seq(Seq(U))
      /\ chunks[n] = tail /\ (\A i \in 1 .. L : chunks[i] = done[i] /\ done[i] \in Seq(U))
      /\ ToSet(chunks) = ToSet(done) \cup {tail}
  <2>1. ToSet(chunks) = ToSet(done) \cup {tail}
    BY <1>3, AppendHolds
  <2>2. QED
    BY <1>3, <2>1
<1>7. ASSUME NEW c \in ToSet(done) PROVE WellCut(c, U, units, wide) /\ Words(c) <= bound
  <2>1. Early(c, U, units, k, bound)
    BY <1>3
  <2>2. PICK f, t : IsPart(c, units, f, t)
    BY <2>1 DEF Early
  <2>3. c \in Seq(U) /\ Words(c) <= bound
    BY <2>1 DEF Early
  <2>4. ToSet(c) \subseteq ToSet(units) /\ InOrder(c, units)
    BY <2>2, <2>3, PartIsWellCut
  <2>5. Words(c) <= wide
    BY <1>5, <2>3, WordsType
  <2>6. QED
    BY <2>3, <2>4, <2>5 DEF WellCut
<1>8. WellCut(tail, U, units, wide)
  <2>1. ToSet(tail) \subseteq ToSet(units) /\ InOrder(tail, units)
    BY <1>3, PartIsWellCut
  <2>2. Words(tail) <= wide
    BY <1>3, <1>5, WordsType
  <2>3. QED
    BY <1>3, <2>1, <2>2 DEF WellCut
<1>9. \A c \in ToSet(chunks) : WellCut(c, U, units, wide)
  BY <1>6, <1>7, <1>8
<1>10. ASSUME NEW u \in ToSet(units) PROVE \E c \in ToSet(chunks) : u \in ToSet(c)
  <2>1. PICK p \in 1 .. N : u = units[p]
    BY <1>2 DEF ToSet
  <2>2. k \in Nat \ {0}
    BY <1>3 DEF IsPart
  <2>3. CASE p < k
    BY <1>3, <1>6, <2>1, <2>3
  <2>4. CASE ~(p < k)
    <3>1. p - k + 1 \in 1 .. N - k + 1 /\ k + (p - k + 1) - 1 = p
      BY <1>2, <2>2, <2>4
    <3>2. tail[p - k + 1] = u /\ p - k + 1 \in DOMAIN tail
      BY <1>3, <2>1, <3>1 DEF IsPart
    <3>3. u \in ToSet(tail)
      BY <3>2 DEF ToSet
    <3>4. QED
      BY <1>6, <3>3
  <2>5. QED
    BY <2>3, <2>4
<1>11. CASE ~short
  BY <1>4, <1>6, <1>9, <1>10, <1>11 DEF bound
<1>12. CASE short
  <2> DEFINE last == chunks[n - 1]
             front == SubSeq(chunks, 1, n - 2)
             joined == Joined(last, tail)
  <2>1. n - 1 = L /\ L \in 1 .. L /\ n - 2 = L - 1 /\ n - 2 \in 0 .. n
    BY <1>6, <1>12
  <2>2. last = done[L] /\ last \in ToSet(done) /\ last \in Seq(U)
    BY <1>6, <2>1 DEF ToSet
  <2>3. PICK a, b : a <= k /\ IsPart(last, units, a, b)
    BY <1>3, <2>2 DEF Early
  <2>4. Words(last) <= bound
    BY <1>7, <2>2
  <2>5. Words(tail) < MinWords
    BY <1>6, <1>12
  <2>6. IsPart(tail, units, k, Len(units))
    BY <1>3
  <2> HIDE DEF last
  <2>7. WellCut(joined, U, units, wide) /\ ToSet(joined) = ToSet(last) \cup ToSet(tail)
    BY <1>3, <1>5, <2>2, <2>3, <2>4, <2>5, <2>6, JoinedHolds
  <2>8. /\ front \in Seq(Seq(U)) /\ DOMAIN front = 1 .. L - 1
        /\ \A i \in 1 .. L - 1 : front[i] = chunks[i]
    <3> DEFINE m == n - 2
               s == chunks
    <3>1. m \in 0 .. Len(s) /\ s \in Seq(Seq(U)) /\ m = L - 1
      BY <1>6, <2>1
    <3> HIDE DEF m, s
    <3>2. /\ SubSeq(s, 1, m) \in Seq(Seq(U)) /\ DOMAIN SubSeq(s, 1, m) = 1 .. m
          /\ \A i \in 1 .. m : SubSeq(s, 1, m)[i] = s[i]
      BY <3>1
    <3>3. front = SubSeq(s, 1, m)
      BY DEF s, m
    <3> HIDE DEF front
    <3>4. QED
      BY <3>1, <3>2, <3>3 DEF s
  <2>9. all = Append(front, joined)
    BY <1>6 DEF last
  <2>10. joined \in Seq(U)
    BY <2>7 DEF WellCut
  <2> HIDE DEF front, joined, all
  <2>11. all \in Seq(Seq(U)) /\ ToSet(all) = ToSet(front) \cup {joined}
    BY <2>8, <2>9, <2>10, AppendHolds
  <2>12. ToSet(front) = {done[i] : i \in 1 .. L - 1} /\ ToSet(done) = {done[i] : i \in 1 .. L}
    <3>1. \A i \in 1 .. L - 1 : front[i] = done[i]
      BY <1>6, <2>8
    <3>2. ToSet(front) = {front[i] : i \in 1 .. L - 1}
      BY <2>8 DEF ToSet
    <3>3. ToSet(done) = {done[i] : i \in 1 .. L}
      BY <1>6 DEF ToSet
    <3>4. QED
      BY <3>1, <3>2, <3>3
  <2>13. ToSet(done) = ToSet(front) \cup {last}
    <3>1. 1 .. L = (1 .. L - 1) \cup {L}
      BY <2>1
    <3>2. QED
      BY <2>2, <2>12, <3>1
  <2>14. \A c \in ToSet(all) : WellCut(c, U, units, wide)
    BY <1>7, <2>7, <2>11, <2>13
  <2>15. ASSUME NEW u \in ToSet(units) PROVE \E c \in ToSet(all) : u \in ToSet(c)
    <3>1. PICK c \in ToSet(chunks) : u \in ToSet(c)
      BY <1>10
    <3>2. CASE c \in ToSet(front)
      BY <2>11, <3>1, <3>2
    <3>3. CASE c = last \/ c = tail
      BY <2>7, <2>11, <3>1, <3>3
    <3>4. QED
      BY <1>6, <2>13, <3>1, <3>2, <3>3
  <2>16. QED
    BY <1>4, <1>12, <2>11, <2>14, <2>15 DEF bound
<1>13. QED
  BY <1>11, <1>12

-----------------------------------------------------------------------------
(* The knowledge base.                                                     *)

ReadsLikeOne(units) == \E j \in DOMAIN units : units[j].flagged
ChunksOf(I, T, W, U) ==
    {c \in [id : I \X Slugs(W) \X Nat, trust : T, flagged : BOOLEAN, units : Seq(U)] :
         c.flagged = ReadsLikeOne(c.units)}

\* cs are the chunks of section s of document d.
IsCutOf(cs, d, s) ==
    /\ \A c \in ToSet(cs) : c.id[1] = d.id /\ c.id[2] = s.id /\ c.units \in ToSet(SplitSection(s.units))
    /\ \A t \in ToSet(SplitSection(s.units)) : \E c \in ToSet(cs) : c.units = t

LEMMA SectionChunks ==
    ASSUME NEW I, NEW T, NEW W, NEW U, Counted(U), NEW d, d.id \in I, d.trust \in T,
           NEW s \in SectionsOf(W, U)
    PROVE  /\ ChunksOfSection(d, s) \in Seq(ChunksOf(I, T, W, U)) /\ TellsApart(ChunksOfSection(d, s))
           /\ IsCutOf(ChunksOfSection(d, s), d, s)
<1> DEFINE texts == SplitSection(s.units)
           N == Len(texts)
           chunk(i) == [id |-> <<d.id, s.id, i - 1>>, trust |-> d.trust,
                        flagged |-> \E j \in DOMAIN texts[i] : texts[i][j].flagged, units |-> texts[i]]
           cs == ChunksOfSection(d, s)
           C == ChunksOf(I, T, W, U)
<1>1. s.units \in Seq(U) \ {<<>>} /\ s.id \in Slugs(W)
  BY DEF SectionsOf
<1>2. texts \in Seq(Seq(U))
  <2> DEFINE u == s.units
             longest == CHOOSE n \in {x.words : x \in ToSet(u)} : \A x \in ToSet(u) : x.words <= n
  <2> HIDE DEF u
  <2>1. u \in Seq(U) \ {<<>>}
    BY <1>1 DEF u
  <2>2. longest \in Nat /\ \A p \in 1 .. Len(u) : u[p].words <= longest
    BY <2>1, LongestExists
  <2> HIDE DEF longest
  <2>3. SplitSection(u) \in Seq(Seq(U))
    BY <2>1, <2>2, SplitHolds
  <2>4. QED
    BY <2>3 DEF u
<1>3. cs = [i \in DOMAIN texts |-> chunk(i)]
  BY DEF ChunksOfSection
<1> HIDE DEF texts, cs
<1>4. N \in Nat /\ DOMAIN texts = 1 .. N /\ \A i \in 1 .. N : texts[i] \in Seq(U)
  BY <1>2
<1>5. ASSUME NEW i \in 1 .. N PROVE chunk(i) \in C
  <2>1. chunk(i).flagged = ReadsLikeOne(chunk(i).units)
    BY DEF ReadsLikeOne
  <2>2. <<d.id, s.id, i - 1>> \in I \X Slugs(W) \X Nat
    BY <1>1, <1>4
  <2>3. (\E j \in DOMAIN texts[i] : texts[i][j].flagged) \in BOOLEAN
    OBVIOUS
  <2>4. chunk(i) \in [id : I \X Slugs(W) \X Nat, trust : T, flagged : BOOLEAN, units : Seq(U)]
    BY <1>4, <2>2, <2>3
  <2>5. QED
    BY <2>1, <2>4 DEF ChunksOf
<1>6. \A i \in 1 .. N : /\ chunk(i).id[1] = d.id /\ chunk(i).id[2] = s.id /\ chunk(i).id[3] = i - 1
                        /\ chunk(i).id = <<d.id, s.id, i - 1>> /\ chunk(i).units = texts[i]
  OBVIOUS
<1> HIDE DEF chunk, N, C
<1>7. DOMAIN cs = 1 .. N /\ \A i \in 1 .. N : cs[i] = chunk(i)
  BY <1>3, <1>4
<1>8. cs \in Seq(C)
  BY <1>3, <1>4, <1>5
<1>9. ToSet(cs) = {chunk(i) : i \in 1 .. N} /\ ToSet(texts) = {texts[i] : i \in 1 .. N}
  BY <1>4, <1>7 DEF ToSet
<1>10. TellsApart(cs)
  <2> SUFFICES ASSUME NEW p \in 1 .. N, NEW q \in 1 .. N, cs[p].id = cs[q].id PROVE p = q
    BY <1>7 DEF TellsApart
  <2>1. p - 1 = q - 1
    BY <1>6, <1>7
  <2>2. QED
    BY <1>4, <2>1
<1>11. \A c \in ToSet(cs) : c.id[1] = d.id /\ c.id[2] = s.id /\ c.units \in ToSet(texts)
  BY <1>6, <1>9
<1>12. \A t \in ToSet(texts) : \E c \in ToSet(cs) : c.units = t
  BY <1>6, <1>9
<1>13. QED
  BY <1>8, <1>10, <1>11, <1>12 DEF cs, texts, C, IsCutOf

LEMMA DocumentChunks ==
    ASSUME NEW I, NEW T, NEW W, NEW U, Counted(U), NEW d \in DocumentsOf(I, T, W, U)
    PROVE  /\ ChunkDocument(d) \in Seq(ChunksOf(I, T, W, U)) /\ TellsApart(ChunkDocument(d))
           /\ \A c : c \in ToSet(ChunkDocument(d)) <=>
                         \E s \in ToSet(d.sections) : c \in ToSet(ChunksOfSection(d, s))
<1> DEFINE C == ChunksOf(I, T, W, U)
           sections == d.sections
           N == Len(sections)
           parts == [i \in DOMAIN sections |-> ChunksOfSection(d, sections[i])]
<1>1. /\ d.id \in I /\ d.trust \in T /\ sections \in Seq(SectionsOf(W, U)) /\ TellsApart(sections)
  BY DEF DocumentsOf
<1>2. ChunkDocument(d) = FlattenSeq(parts)
  BY DEF ChunkDocument
<1> HIDE DEF sections, C
<1>3. N \in Nat /\ DOMAIN sections = 1 .. N /\ \A i \in 1 .. N : sections[i] \in SectionsOf(W, U)
  BY <1>1
<1>4. \A i \in 1 .. N : parts[i] = ChunksOfSection(d, sections[i])
  BY <1>3
<1>5. DOMAIN parts = 1 .. N
  BY <1>3
<1>6. \A i \in 1 .. N : /\ parts[i] \in Seq(C) /\ TellsApart(parts[i])
                        /\ \A c \in ToSet(parts[i]) : c.id[2] = sections[i].id
  <2> SUFFICES ASSUME NEW i \in 1 .. N
               PROVE  /\ parts[i] \in Seq(C) /\ TellsApart(parts[i])
                      /\ \A c \in ToSet(parts[i]) : c.id[2] = sections[i].id
    OBVIOUS
  <2> DEFINE s == sections[i]
             cs == ChunksOfSection(d, s)
  <2>1. s \in SectionsOf(W, U) /\ d.id \in I /\ d.trust \in T
    BY <1>1, <1>3
  <2> HIDE DEF s
  <2>2. cs \in Seq(ChunksOf(I, T, W, U)) /\ TellsApart(cs) /\ IsCutOf(cs, d, s)
    BY <2>1, SectionChunks
  <2>3. parts[i] = cs
    BY <1>4 DEF s
  <2> HIDE DEF parts, cs
  <2>4. QED
    BY <2>2, <2>3 DEF s, C, IsCutOf
<1>7. parts \in Seq(Seq(C))
  BY <1>3, <1>5, <1>6
<1> HIDE DEF parts, N
<1>8. \A i, j \in DOMAIN parts : i # j => \A x \in ToSet(parts[i]), y \in ToSet(parts[j]) : x.id # y.id
  <2> SUFFICES ASSUME NEW i \in 1 .. N, NEW j \in 1 .. N, i # j,
                      NEW x \in ToSet(parts[i]), NEW y \in ToSet(parts[j]), x.id = y.id
               PROVE  FALSE
    BY <1>5
  <2>1. sections[i].id = sections[j].id
    BY <1>6
  <2>2. QED
    BY <1>1, <1>3, <2>1 DEF TellsApart
<1>9. \A i \in DOMAIN parts : TellsApart(parts[i])
  BY <1>5, <1>6
<1>10. TellsApart(FlattenSeq(parts))
  BY <1>7, <1>8, <1>9, FlattenTellsApart
<1>11. /\ FlattenSeq(parts) \in Seq(C)
       /\ \A c : c \in ToSet(FlattenSeq(parts)) <=> \E i \in DOMAIN parts : c \in ToSet(parts[i])
  BY <1>7, FlattenHolds
<1>12. ToSet(sections) = {sections[i] : i \in 1 .. N}
  BY <1>3 DEF ToSet
<1>13. \A c : c \in ToSet(FlattenSeq(parts)) <=> \E s \in ToSet(sections) : c \in ToSet(ChunksOfSection(d, s))
  BY <1>4, <1>5, <1>11, <1>12
<1>14. QED
  BY <1>2, <1>10, <1>11, <1>13 DEF sections, C

-----------------------------------------------------------------------------
IsSources(sources, I, P, T, W, U) ==
    /\ Len(sources) \in Nat /\ DOMAIN sources = 1 .. Len(sources)
    /\ \A i \in 1 .. Len(sources) : sources[i].trust \in T /\ IsFiles(sources[i].files, I, P, W, U)

LEMMA BuildHolds ==
    ASSUME NEW I, NEW P, NEW T, NEW W, NEW U, Counted(U),
           NEW sources, IsSources(sources, I, P, T, W, U)
    PROVE  LET built == BuildFrom(sources)
           IN  /\ built.documents \in Seq(DocumentsOf(I, T, W, U)) /\ built.chunks \in Seq(ChunksOf(I, T, W, U))
               /\ built.error # "collision" => TellsApart(built.documents) /\ TellsApart(built.chunks)
               /\ \A c : c \in ToSet(built.chunks) <=>
                             \E d \in ToSet(built.documents) : \E s \in ToSet(d.sections) :
                                 c \in ToSet(ChunksOfSection(d, s))
<1> DEFINE D == DocumentsOf(I, T, W, U)
           C == ChunksOf(I, T, W, U)
           N == Len(sources)
           loaded == [i \in DOMAIN sources |-> LoadDocuments(sources[i].files, sources[i].trust)]
           docs == [i \in DOMAIN sources |-> loaded[i].documents]
           documents == FlattenSeq(docs)
           parts == [i \in DOMAIN documents |-> ChunkDocument(documents[i])]
           chunks == FlattenSeq(parts)
           built == BuildFrom(sources)
<1>1. /\ N \in Nat /\ DOMAIN sources = 1 .. N
      /\ \A i \in 1 .. N : sources[i].trust \in T /\ IsFiles(sources[i].files, I, P, W, U)
  BY DEF IsSources
<1>2. /\ built.documents = documents /\ built.chunks = chunks
      /\ built.error # "collision" => \A i, j \in DOMAIN documents : i # j => documents[i].id # documents[j].id
  BY DEF BuildFrom
<1>3. \A i \in 1 .. N : docs[i] \in Seq(D)
  <2> SUFFICES ASSUME NEW i \in 1 .. N PROVE docs[i] \in Seq(D)
    OBVIOUS
  <2>1. LoadDocuments(sources[i].files, sources[i].trust) \in LoadedOf(I, P, T, W, U)
    BY <1>1, LoadHolds
  <2>2. docs[i] = LoadDocuments(sources[i].files, sources[i].trust).documents
    BY <1>1
  <2>3. QED
    BY <2>1, <2>2 DEF LoadedOf
<1>4. DOMAIN docs = 1 .. N
  BY <1>1
<1>5. docs \in Seq(Seq(D))
  BY <1>1, <1>3, <1>4
<1> HIDE DEF docs, D, C
<1>6. documents \in Seq(D)
  BY <1>5, FlattenHolds
<1> HIDE DEF documents, built
<1> DEFINE M == Len(documents)
<1>7. M \in Nat /\ DOMAIN documents = 1 .. M /\ \A i \in 1 .. M : documents[i] \in D
  BY <1>6
<1>8. DOMAIN parts = 1 .. M /\ \A i \in 1 .. M : parts[i] = ChunkDocument(documents[i])
  BY <1>7
<1>9. \A i \in 1 .. M : /\ parts[i] \in Seq(C) /\ TellsApart(parts[i])
                        /\ \A c : c \in ToSet(parts[i]) <=>
                               \E s \in ToSet(documents[i].sections) : c \in ToSet(ChunksOfSection(documents[i], s))
  BY <1>7, <1>8, DocumentChunks DEF C, D
<1>10. parts \in Seq(Seq(C))
  BY <1>7, <1>8, <1>9
<1> HIDE DEF parts, M
<1>11. /\ FlattenSeq(parts) \in Seq(C)
       /\ \A c : c \in ToSet(FlattenSeq(parts)) <=> \E i \in DOMAIN parts : c \in ToSet(parts[i])
  BY <1>10, FlattenHolds
<1>12. ToSet(documents) = {documents[i] : i \in 1 .. M}
  BY <1>7 DEF ToSet
<1>13. \A c : c \in ToSet(chunks) <=>
                  \E d \in ToSet(documents) : \E s \in ToSet(d.sections) : c \in ToSet(ChunksOfSection(d, s))
  BY <1>8, <1>9, <1>11, <1>12
<1>14. ASSUME built.error # "collision" PROVE TellsApart(documents) /\ TellsApart(chunks)
  <2>1. TellsApart(documents)
    BY <1>2, <1>14 DEF TellsApart
  <2>2. \A i \in 1 .. M : \A c \in ToSet(parts[i]) : c.id[1] = documents[i].id
    <3> SUFFICES ASSUME NEW i \in 1 .. M, NEW c \in ToSet(parts[i]) PROVE c.id[1] = documents[i].id
      OBVIOUS
    <3>1. PICK s \in ToSet(documents[i].sections) : c \in ToSet(ChunksOfSection(documents[i], s))
      BY <1>9
    <3>2. /\ documents[i].id \in I /\ documents[i].trust \in T
          /\ documents[i].sections \in Seq(SectionsOf(W, U))
      BY <1>7 DEF D, DocumentsOf
    <3>3. s \in SectionsOf(W, U)
      BY <3>1, <3>2 DEF ToSet
    <3> DEFINE d == documents[i]
    <3>4. d.id \in I /\ d.trust \in T /\ c \in ToSet(ChunksOfSection(d, s))
      BY <3>1, <3>2
    <3> HIDE DEF d
    <3> DEFINE cs == ChunksOfSection(d, s)
    <3>a. IsCutOf(cs, d, s)
      BY <3>3, <3>4, SectionChunks
    <3>5. c.id[1] = d.id
      <4> HIDE DEF cs
      <4>1. c \in ToSet(cs)
        BY <3>4 DEF cs
      <4>2. QED
        BY <3>a, <4>1 DEF IsCutOf
    <3>6. QED
      BY <3>5 DEF d
  <2>3. \A i, j \in DOMAIN parts : i # j => \A x \in ToSet(parts[i]), y \in ToSet(parts[j]) : x.id # y.id
    <3> SUFFICES ASSUME NEW i \in 1 .. M, NEW j \in 1 .. M, i # j,
                        NEW x \in ToSet(parts[i]), NEW y \in ToSet(parts[j]), x.id = y.id
                 PROVE  FALSE
      BY <1>8
    <3>1. documents[i].id = documents[j].id
      BY <2>2
    <3>2. QED
      BY <1>7, <2>1, <3>1 DEF TellsApart
  <2>4. \A i \in DOMAIN parts : TellsApart(parts[i])
    BY <1>8, <1>9
  <2>5. TellsApart(FlattenSeq(parts))
    BY <1>10, <2>3, <2>4, FlattenTellsApart
  <2>6. QED
    BY <2>1, <2>5
<1>15. QED
  BY <1>2, <1>6, <1>11, <1>13, <1>14 DEF built, D, C

\* Every file is a document or a rejection.
LEMMA EveryFileCounts ==
    ASSUME NEW I, NEW P, NEW T, NEW W, NEW U, NEW F,
           NEW sources, IsSources(sources, I, P, T, W, U),
           \A i \in DOMAIN sources : sources[i].files \in Seq(F)
    PROVE  Len(BuildFrom(sources).documents) + Len(BuildFrom(sources).rejected)
               = Len(FlattenSeq([i \in DOMAIN sources |-> sources[i].files]))
<1> DEFINE D == DocumentsOf(I, T, W, U)
           R == P \X Causes
           N == Len(sources)
           loaded == [i \in DOMAIN sources |-> LoadDocuments(sources[i].files, sources[i].trust)]
           a == [i \in DOMAIN sources |-> loaded[i].documents]
           b == [i \in DOMAIN sources |-> loaded[i].rejected]
           c == [i \in DOMAIN sources |-> sources[i].files]
<1>1. /\ N \in Nat /\ DOMAIN sources = 1 .. N
      /\ \A i \in 1 .. N : /\ sources[i].trust \in T /\ IsFiles(sources[i].files, I, P, W, U)
                           /\ sources[i].files \in Seq(F)
  BY DEF IsSources
<1>2. BuildFrom(sources).documents = FlattenSeq(a) /\ BuildFrom(sources).rejected = FlattenSeq(b)
  BY DEF BuildFrom
<1>3. DOMAIN a = 1 .. N /\ DOMAIN b = 1 .. N /\ DOMAIN c = 1 .. N
  BY <1>1
<1>4. ASSUME NEW i \in 1 .. N
      PROVE  /\ a[i] \in Seq(D) /\ b[i] \in Seq(R) /\ c[i] \in Seq(F)
             /\ Len(a[i]) + Len(b[i]) = Len(c[i])
  <2> DEFINE r == LoadDocuments(sources[i].files, sources[i].trust)
             f == sources[i].files
  <2>1. r \in LoadedOf(I, P, T, W, U) /\ Len(r.documents) + Len(r.rejected) = Len(f)
    <3> DEFINE trust == sources[i].trust
    <3>1. IsFiles(f, I, P, W, U) /\ trust \in T
      BY <1>1
    <3> HIDE DEF f, trust
    <3> DEFINE x == LoadDocuments(f, trust)
    <3>2. x \in LoadedOf(I, P, T, W, U) /\ AllRead(x, f)
      BY <3>1, LoadHolds
    <3>3. QED
      BY <3>2 DEF f, trust, AllRead
  <2>2. a[i] = r.documents /\ b[i] = r.rejected /\ c[i] = f /\ f \in Seq(F)
    BY <1>1
  <2> HIDE DEF r, f, a, b, c, D, R
  <2>3. r.documents \in Seq(D) /\ r.rejected \in Seq(R)
    BY <2>1 DEF LoadedOf, D, R
  <2>4. QED
    BY <2>1, <2>2, <2>3
<1> HIDE DEF a, b, c, D, R, N
<1>a. a = [i \in 1 .. N |-> a[i]] /\ b = [i \in 1 .. N |-> b[i]] /\ c = [i \in 1 .. N |-> c[i]]
  BY <1>3 DEF a, b, c
<1>5. a \in Seq(Seq(D))
  <2>1. N \in Nat /\ (\A i \in 1 .. N : a[i] \in Seq(D)) /\ a = [i \in 1 .. N |-> a[i]]
    BY <1>1, <1>4, <1>a
  <2>2. QED
    BY ONLY <2>1
<1>6. b \in Seq(Seq(R))
  <2>1. N \in Nat /\ (\A i \in 1 .. N : b[i] \in Seq(R)) /\ b = [i \in 1 .. N |-> b[i]]
    BY <1>1, <1>4, <1>a
  <2>2. QED
    BY ONLY <2>1
<1>7. c \in Seq(Seq(F))
  <2>1. N \in Nat /\ (\A i \in 1 .. N : c[i] \in Seq(F)) /\ c = [i \in 1 .. N |-> c[i]]
    BY <1>1, <1>4, <1>a
  <2>2. QED
    BY ONLY <2>1
<1>8. Len(a) = Len(c) /\ Len(b) = Len(c)
  <2>1. Len(a) = N /\ Len(b) = N /\ Len(c) = N
    BY <1>1, <1>3, <1>5, <1>6, <1>7
  <2>2. QED
    BY <2>1
<1>9. AddUp(a, b, c)
  BY <1>3, <1>4 DEF AddUp
<1>10. Len(FlattenSeq(a)) + Len(FlattenSeq(b)) = Len(FlattenSeq(c))
  BY <1>5, <1>6, <1>7, <1>8, <1>9, FlattenAddsUp
<1>11. QED
  BY <1>2, <1>10 DEF c

\* The chunks of a section are those with its ids.
NamedAs(built, d, s) == {c \in ToSet(built.chunks) : c.id[1] = d.id /\ c.id[2] = s.id}

LEMMA ChunksAreNamed ==
    ASSUME NEW I, NEW P, NEW T, NEW W, NEW U, Counted(U),
           NEW sources, IsSources(sources, I, P, T, W, U), BuildFrom(sources).error # "collision",
           NEW d \in ToSet(BuildFrom(sources).documents), NEW s \in ToSet(d.sections)
    PROVE  /\ NamedAs(BuildFrom(sources), d, s) = ToSet(ChunksOfSection(d, s))
           /\ d.id \in I /\ d.trust \in T /\ s \in SectionsOf(W, U)
<1> DEFINE built == BuildFrom(sources)
           mine == {c \in ToSet(built.chunks) : c.id[1] = d.id /\ c.id[2] = s.id}
           cs(e, t) == ChunksOfSection(e, t)
<1>1. /\ built.documents \in Seq(DocumentsOf(I, T, W, U)) /\ TellsApart(built.documents)
      /\ \A c : c \in ToSet(built.chunks) <=>
                    \E e \in ToSet(built.documents) : \E t \in ToSet(e.sections) : c \in ToSet(cs(e, t))
  BY BuildHolds
<1> HIDE DEF built, cs
<1>2. ASSUME NEW e \in ToSet(built.documents), NEW t \in ToSet(e.sections)
      PROVE  /\ e.id \in I /\ e.trust \in T /\ t \in SectionsOf(W, U) /\ TellsApart(e.sections)
             /\ e.sections \in Seq(SectionsOf(W, U))
             /\ \A c \in ToSet(cs(e, t)) : c.id[1] = e.id /\ c.id[2] = t.id
  <2>1. e \in DocumentsOf(I, T, W, U)
    BY <1>1 DEF ToSet
  <2>2. e.id \in I /\ e.trust \in T /\ e.sections \in Seq(SectionsOf(W, U)) /\ TellsApart(e.sections)
    BY <2>1 DEF DocumentsOf
  <2>3. t \in SectionsOf(W, U)
    BY <2>2 DEF ToSet
  <2> DEFINE x == ChunksOfSection(e, t)
  <2>4. IsCutOf(x, e, t)
    BY <2>2, <2>3, SectionChunks
  <2> HIDE DEF x
  <2>5. \A c \in ToSet(x) : c.id[1] = e.id /\ c.id[2] = t.id
    BY <2>4 DEF IsCutOf
  <2>6. QED
    BY <2>2, <2>3, <2>5 DEF x, cs
<1>3. d \in ToSet(built.documents)
  BY DEF built
<1>4. ASSUME NEW c \in mine PROVE c \in ToSet(cs(d, s))
  <2>1. PICK e \in ToSet(built.documents) : \E t \in ToSet(e.sections) : c \in ToSet(cs(e, t))
    BY <1>1
  <2>2. PICK t \in ToSet(e.sections) : c \in ToSet(cs(e, t))
    BY <2>1
  <2>3. e.id = d.id /\ t.id = s.id
    BY <1>2, <2>2
  <2>4. e = d
    BY <1>1, <1>3, <2>3 DEF TellsApart, ToSet
  <2>5. TellsApart(d.sections)
    BY <1>2, <1>3
  <2>6. t = s
    BY <2>2, <2>3, <2>4, <2>5 DEF TellsApart, ToSet
  <2>7. QED
    BY <2>2, <2>4, <2>6
<1>5. ASSUME NEW c \in ToSet(cs(d, s)) PROVE c \in mine
  BY <1>1, <1>2, <1>3
<1>6. mine = ToSet(cs(d, s))
  BY <1>4, <1>5
<1>7. QED
  BY <1>2, <1>3, <1>6 DEF built, cs, NamedAs

LEMMA NothingGetsLost ==
    ASSUME NEW I, NEW P, NEW T, NEW W, NEW U, Counted(U), NEW F,
           NEW sources, IsSources(sources, I, P, T, W, U),
           \A i \in DOMAIN sources : sources[i].files \in Seq(F), Unreadable(sources) = {}
    PROVE  NothingIsLost(sources, BuildFrom(sources))
<1> DEFINE built == BuildFrom(sources)
<1>1. Len(built.documents) + Len(built.rejected) = Len(FlattenSeq([i \in DOMAIN sources |-> sources[i].files]))
  BY EveryFileCounts
<1>2. built.error # "collision" =>
          \A i, j \in DOMAIN built.chunks : built.chunks[i].id = built.chunks[j].id => i = j
  <2>1. built.error # "collision" => TellsApart(built.chunks)
    BY BuildHolds
  <2>2. QED
    BY <2>1 DEF TellsApart
<1>3. ASSUME NEW d \in ToSet(built.documents), NEW s \in ToSet(d.sections), built.error # "collision"
      PROVE  LET mine == {c \in ToSet(built.chunks) : c.id[1] = d.id /\ c.id[2] = s.id}
                 longest == CHOOSE n \in {u.words : u \in ToSet(s.units)} :
                                \A u \in ToSet(s.units) : u.words <= n
                 bound == Larger(OverlapWords + longest, MaxWords) + MinWords - 1
                 at(u) == {p \in DOMAIN s.units : s.units[p] = u}
             IN  /\ \A u \in ToSet(s.units) : \E c \in mine : u \in ToSet(c.units)
                 /\ \A c \in mine : /\ ToSet(c.units) \subseteq ToSet(s.units)
                                    /\ Words(c.units) <= bound
                                    /\ \A p, q \in DOMAIN c.units : p < q =>
                                           \E v \in at(c.units[p]), w \in at(c.units[q]) : v < w
  <2> DEFINE mine == {c \in ToSet(built.chunks) : c.id[1] = d.id /\ c.id[2] = s.id}
             units == s.units
             longest == CHOOSE n \in {u.words : u \in ToSet(units)} : \A u \in ToSet(units) : u.words <= n
             bound == Larger(OverlapWords + longest, MaxWords) + MinWords - 1
             cs == ChunksOfSection(d, s)
  <2>0. /\ NamedAs(BuildFrom(sources), d, s) = ToSet(ChunksOfSection(d, s))
        /\ d.id \in I /\ d.trust \in T /\ s \in SectionsOf(W, U)
    BY <1>3, ChunksAreNamed
  <2>1. mine = ToSet(cs) /\ d.id \in I /\ d.trust \in T /\ s \in SectionsOf(W, U)
    BY <2>0 DEF NamedAs
  <2>2. units \in Seq(U) \ {<<>>}
    BY <2>1 DEF SectionsOf
  <2>3. /\ \A c \in ToSet(cs) : c.id[1] = d.id /\ c.id[2] = s.id /\ c.units \in ToSet(SplitSection(units))
        /\ \A t \in ToSet(SplitSection(units)) : \E c \in ToSet(cs) : c.units = t
    <3>1. IsCutOf(cs, d, s)
      BY <2>1, SectionChunks
    <3> HIDE DEF cs
    <3>2. QED
      BY <3>1 DEF IsCutOf
  <2> HIDE DEF units, cs, mine
  <2>4. longest \in Nat /\ \A p \in 1 .. Len(units) : units[p].words <= longest
    BY <2>2, LongestExists
  <2> HIDE DEF longest
  <2>5. /\ \A t \in ToSet(SplitSection(units)) : WellCut(t, U, units, bound)
        /\ \A u \in ToSet(units) : \E t \in ToSet(SplitSection(units)) : u \in ToSet(t)
    BY <2>2, <2>4, SplitHolds
  <2> HIDE DEF bound
  <2>6. \A u \in ToSet(units) : \E c \in mine : u \in ToSet(c.units)
    <3> SUFFICES ASSUME NEW u \in ToSet(units) PROVE \E c \in mine : u \in ToSet(c.units)
      OBVIOUS
    <3>1. PICK t \in ToSet(SplitSection(units)) : u \in ToSet(t)
      BY <2>5
    <3>2. PICK c \in ToSet(cs) : c.units = t
      BY <2>3
    <3>3. QED
      BY <2>1, <3>1, <3>2
  <2>7. \A c \in mine : WellCut(c.units, U, units, bound)
    BY <2>1, <2>3, <2>5
  <2>8. QED
    BY <2>6, <2>7 DEF WellCut, InOrder, units, longest, bound, mine
<1>4. QED
  BY <1>1, <1>2, <1>3 DEF NothingIsLost

\* Where there is no base, nothing is half there.
LEMMA NothingIsHalfBuilt ==
    ASSUME NEW sources, Unreadable(sources) # {}
    PROVE  NothingIsLost(sources, NotBuilt)
<1>1. NotBuilt.documents = <<>> /\ NotBuilt.chunks = <<>>
  BY DEF NotBuilt
<1>2. DOMAIN NotBuilt.chunks = {} /\ ToSet(NotBuilt.documents) = {}
  BY <1>1 DEF ToSet
<1>3. QED
  BY <1>2 DEF NothingIsLost

-----------------------------------------------------------------------------
(* The sources of a scene.                                                 *)

KnowledgeHolds(sources, built) ==
    /\ NothingIsLost(sources, built)
    /\ Len(built.chunks) \in Nat /\ DOMAIN built.chunks = 1 .. Len(built.chunks)
    /\ \A i \in DOMAIN built.chunks : built.chunks[i].flagged = ReadsLikeOne(built.chunks[i].units)

LEMMA ListHolds ==
    ASSUME NEW s, IsList(s)
    PROVE  /\ Len(s) \in Nat /\ DOMAIN s = 1 .. Len(s) /\ s \in Seq(ToSet(s))
           /\ \A i \in 1 .. Len(s) : s[i] \in ToSet(s)
BY DEF IsList

LEMMA ListWithin ==
    ASSUME NEW s, IsList(s), NEW S, ToSet(s) \subseteq S
    PROVE  s \in Seq(S)
<1>1. s \in Seq(ToSet(s)) /\ Len(s) \in Nat /\ \A i \in 1 .. Len(s) : s[i] \in S
  BY DEF IsList
<1>2. QED
  BY <1>1

LEMMA SourcesAreKnown ==
    ASSUME NEW s \in Scenes
    PROVE  KnowledgeHolds(s.sources, Build(s.sources))
<1> DEFINE sources == s.sources
           S == ToSet(sources)
           F == UNION {ToSet(x.files) : x \in S}
           H == UNION {ToSet(f.body) : f \in F}
           I == {f.id : f \in F}
           P == {f.path : f \in F}
           T == {x.trust : x \in S}
           W == {h.title.word : h \in H}
           U == UNION {ToSet(h.units) : h \in H}
<1>1. /\ IsList(sources)
      /\ \A x \in S : IsList(x.files) /\ \A f \in ToSet(x.files) : IsFile(f)
  BY SourcesAssumption
<1> HIDE DEF sources
<1>2. \A f \in F : IsFile(f)
  BY <1>1
<1>3. ASSUME NEW h \in H
      PROVE  h.title \in Slugs(W) /\ h.units \in Seq(U) /\ \A u \in ToSet(h.units) : u.words \in Nat
  <2>1. PICK f \in F : h \in ToSet(f.body)
    OBVIOUS
  <2>2. /\ h.title = [word |-> h.title.word, numbers |-> h.title.numbers]
        /\ h.title.numbers \in Seq(Nat) /\ IsList(h.units)
        /\ \A u \in ToSet(h.units) : u.words \in Nat
    BY <1>2, <2>1 DEF IsFile
  <2>3. h.title.word \in W
    OBVIOUS
  <2>4. ToSet(h.units) \subseteq U
    OBVIOUS
  <2>5. h.units \in Seq(U)
    BY <2>2, <2>4, ListWithin
  <2> DEFINE w == h.title.word
             k == h.title.numbers
  <2>6. w \in W /\ k \in Seq(Nat) /\ h.title = [word |-> w, numbers |-> k]
    BY <2>2, <2>3
  <2> HIDE DEF w, k, W
  <2>7. h.title \in Slugs(W)
    BY <2>6 DEF Slugs
  <2>8. QED
    BY <2>2, <2>5, <2>7
<1>4. Counted(U)
  <2> SUFFICES ASSUME NEW u \in U PROVE u.words \in Nat
    BY DEF Counted
  <2>1. PICK h \in H : u \in ToSet(h.units)
    OBVIOUS
  <2>2. QED
    BY <1>3, <2>1
<1>5. ASSUME NEW f \in F PROVE f.id \in I /\ f.path \in P /\ IsBody(f.body, W, U)
  <2>1. IsList(f.body)
    BY <1>2 DEF IsFile
  <2>2. ToSet(f.body) \subseteq H
    OBVIOUS
  <2>3. /\ Len(f.body) \in Nat /\ DOMAIN f.body = 1 .. Len(f.body)
        /\ \A i \in 1 .. Len(f.body) : f.body[i] \in ToSet(f.body)
    BY <2>1, ListHolds
  <2>4. \A i \in 1 .. Len(f.body) : f.body[i] \in H
    BY <2>2, <2>3
  <2> HIDE DEF H, W, U
  <2>5. IsBody(f.body, W, U)
    BY <1>3, <2>3, <2>4 DEF IsBody
  <2>6. QED
    BY <2>5
<1>6. ASSUME NEW x \in S PROVE x.trust \in T /\ IsFiles(x.files, I, P, W, U) /\ x.files \in Seq(F)
  <2>1. IsList(x.files) /\ ToSet(x.files) \subseteq F
    BY <1>1
  <2>2. x.files \in Seq(F)
    BY <2>1, ListWithin
  <2>3. /\ Len(x.files) \in Nat /\ DOMAIN x.files = 1 .. Len(x.files)
        /\ \A i \in 1 .. Len(x.files) : x.files[i] \in F
    BY <2>1, ListHolds
  <2> HIDE DEF F, I, P, W, U
  <2>4. IsFiles(x.files, I, P, W, U)
    BY <1>5, <2>3 DEF IsFiles
  <2>5. QED
    BY <2>2, <2>4
<1>7. /\ Len(sources) \in Nat /\ DOMAIN sources = 1 .. Len(sources)
      /\ \A i \in 1 .. Len(sources) : sources[i] \in S
  BY <1>1, ListHolds
<1> HIDE DEF S, F, I, P, T, W, U
<1>8. IsSources(sources, I, P, T, W, U)
  BY <1>6, <1>7 DEF IsSources
<1>9. \A i \in DOMAIN sources : sources[i].files \in Seq(F)
  BY <1>6, <1>7
<1>10. NothingIsLost(sources, Build(sources)) /\ Build(sources).chunks \in Seq(ChunksOf(I, T, W, U))
  <2>1. CASE Unreadable(sources) = {}
    <3>1. NothingIsLost(sources, BuildFrom(sources))
      BY <1>4, <1>8, <1>9, <2>1, NothingGetsLost
    <3>2. BuildFrom(sources).chunks \in Seq(ChunksOf(I, T, W, U))
      BY <1>4, <1>8, BuildHolds
    <3>3. Build(sources) = BuildFrom(sources)
      BY <2>1 DEF Build
    <3>4. QED
      BY <3>1, <3>2, <3>3
  <2>2. CASE Unreadable(sources) # {}
    <3>1. NothingIsLost(sources, NotBuilt)
      BY <2>2, NothingIsHalfBuilt
    <3>2. NotBuilt.chunks \in Seq(ChunksOf(I, T, W, U))
      BY DEF NotBuilt
    <3>3. Build(sources) = NotBuilt
      BY <2>2 DEF Build
    <3>4. QED
      BY <3>1, <3>2, <3>3
  <2>3. QED
    BY <2>1, <2>2
<1>11. Build(sources).chunks \in Seq(ChunksOf(I, T, W, U))
  BY <1>10
<1> DEFINE chunks == Build(sources).chunks
<1> HIDE DEF chunks
<1>12. chunks \in Seq(ChunksOf(I, T, W, U))
  BY <1>11 DEF chunks
<1>13. Len(chunks) \in Nat /\ DOMAIN chunks = 1 .. Len(chunks) /\ \A i \in DOMAIN chunks : chunks[i] \in ChunksOf(I, T, W, U)
  BY <1>12
<1>14. \A i \in DOMAIN chunks : chunks[i].flagged = ReadsLikeOne(chunks[i].units)
  BY <1>13 DEF ChunksOf
<1>15. QED
  BY <1>10, <1>13, <1>14 DEF KnowledgeHolds, chunks, sources

-----------------------------------------------------------------------------
(* What is shown.                                                          *)

Bundle(chunks) ==
    [evidence |-> [i \in DOMAIN scene.evidence |-> scene.evidence[i].id],
     chunks   |-> chunks \ Withheld(chunks),
     withheld |-> Withheld(chunks)]

ShownInv ==
    /\ scene \in Scenes
    /\ phase = "new" => bundle = NoBundle /\ found = <<>>
    /\ phase # "new" => base = Build(scene.sources)
    /\ found \in Seq(DOMAIN base.chunks)
    /\ phase = "searched" =>
           \E l \in scene.lookups, r \in RankingPairs :
               lookup = [bm25 |-> r[1], dense |-> r[2], mode |-> l.mode, k |-> l.k,
                         include_untrusted |-> l.include_untrusted]
    /\ bundle # NoBundle =>
           /\ phase \in {"asking", "reviewed", "failed"}
           /\ ~Refused(scene.evidence, Retrieved) /\ bundle = Bundle(Retrieved)

LEMMA ShownInit == Init => ShownInv
BY DEF Init, ShownInv

LEMMA ShownStep == ShownInv /\ [Next]_vars => ShownInv'
<1> SUFFICES ASSUME ShownInv, [Next]_vars PROVE ShownInv'
  OBVIOUS
<1>1. CASE BuildBase
  BY <1>1 DEF ShownInv, BuildBase
<1>2. CASE SearchBase
  BY <1>2 DEF ShownInv, SearchBase, RankingPairs
<1>3. CASE StartRetrieval
  BY <1>3 DEF ShownInv, StartRetrieval
<1>4. CASE RetrieveNext
  <2> DEFINE n == Len(base.chunks)
             hits(r) == Search(base.chunks, r[1], r[2], "hybrid", 1, FALSE)
             best(r) == Where(hits(r), LAMBDA i : ~Contains(found, i))
  <2>1. /\ phase = "retrieving" /\ UNCHANGED <<scene, phase, base, lookup, bundle>>
        /\ \E r \in RankingPairs : found' = IF Len(found) < MAX_CHUNKS THEN found \o best(r) ELSE found
    BY <1>4 DEF RetrieveNext
  <2>2. scene \in Scenes /\ base = Build(scene.sources) /\ found \in Seq(DOMAIN base.chunks) /\ bundle = NoBundle
    BY <2>1 DEF ShownInv
  <2>3. n \in Nat /\ DOMAIN base.chunks = 1 .. n
    BY <2>2, SourcesAreKnown DEF KnowledgeHolds
  <2>4. PICK r \in RankingPairs : found' = IF Len(found) < MAX_CHUNKS THEN found \o best(r) ELSE found
    BY <2>1
  <2>5. IsRanking(r[1], n) /\ IsRanking(r[2], n)
    BY <2>2, RankingsAssumption DEF RankingPairs
  <2>6. hits(r) \in Seq(1 .. n)
    <3>1. IsBest(hits(r), n, Allowed(base.chunks, FALSE), 1, "hybrid", r[1], r[2])
      BY <2>3, <2>5, SearchIsBest DEF Modes
    <3>2. QED
      BY <3>1 DEF IsBest, Listing
  <2> DEFINE s == hits(r)
             J == {i \in DOMAIN s : ~Contains(found, s[i])}
             key == [i \in J |-> i]
  <2>7. best(r) = Pick(s, J, key)
    BY DEF Where
  <2>8. s \in Seq(1 .. n) /\ J \in SUBSET DOMAIN s /\ key \in [J -> Int]
    <3>1. s \in Seq(1 .. n)
      BY <2>6
    <3>2. J \in SUBSET DOMAIN s
      OBVIOUS
    <3> HIDE DEF s, n
    <3>3. DOMAIN s = 1 .. Len(s) /\ Len(s) \in Nat
      BY <3>1
    <3>4. \A i \in J : i \in Int
      BY <3>2, <3>3
    <3> HIDE DEF J
    <3>5. key \in [J -> Int]
      BY <3>4
    <3>6. QED
      BY <3>1, <3>2, <3>5
  <2>9. best(r) \in Seq(1 .. n)
    <3> DEFINE R == 1 .. n
    <3>1. s \in Seq(R) /\ J \in SUBSET DOMAIN s /\ key \in [J -> Int]
      BY <2>8
    <3> HIDE DEF s, J, key, R
    <3>2. /\ Pick(s, J, key) \in Seq(R)
          /\ Len(Pick(s, J, key)) = Cardinality(J) /\ Cardinality(J) \in Nat
          /\ \E place : /\ Enumerates(place, J, key)
                        /\ \A m \in 1 .. Cardinality(J) : Pick(s, J, key)[m] = s[place[m]]
      BY ONLY <3>1, PickIsOrdered
    <3>3. QED
      BY <2>7, <3>2 DEF R
  <2> DEFINE new == best(r)
  <2> HIDE DEF new, n
  <2>10. new \in Seq(1 .. n) /\ found \in Seq(1 .. n) /\ found' = IF Len(found) < MAX_CHUNKS THEN found \o new ELSE found
    BY <2>2, <2>3, <2>4, <2>9 DEF new
  <2>11. found' \in Seq(1 .. n)
    <3> DEFINE S == 1 .. n
    <3>1. new \in Seq(S) /\ found \in Seq(S)
      BY <2>10
    <3> HIDE DEF S
    <3>2. found \o new \in Seq(S)
      BY <3>1
    <3>3. found' \in Seq(S)
      BY <2>10, <3>1, <3>2
    <3>4. QED
      BY <3>3 DEF S
  <2>12. found' \in Seq(DOMAIN base'.chunks)
    BY <2>1, <2>3, <2>11
  <2>13. QED
    BY <2>1, <2>2, <2>12 DEF ShownInv
<1>5. CASE BuildPrompt
  <2>1. Retrieved' = Retrieved
    BY <1>5 DEF BuildPrompt, Retrieved
  <2>2. CASE Refused(scene.evidence, Retrieved)
    BY <1>5, <2>1, <2>2 DEF ShownInv, BuildPrompt, RankingPairs
  <2>3. CASE ~Refused(scene.evidence, Retrieved)
    <3>1. /\ UNCHANGED <<scene, base, found, lookup>> /\ phase = "retrieving" /\ phase' = "asking"
          /\ bundle' = Bundle(Retrieved)
      BY <1>5, <2>3 DEF BuildPrompt, Bundle
    <3>2. Bundle(Retrieved)' = Bundle(Retrieved)
      BY <2>1, <3>1 DEF Bundle
    <3>3. QED
      BY <2>1, <2>3, <3>1, <3>2 DEF ShownInv
  <2>4. QED
    BY <2>2, <2>3
<1>6. ASSUME /\ UNCHANGED <<scene, base, found, lookup, bundle>>
             /\ \/ UNCHANGED phase
                \/ phase = "asking" /\ phase' \in {"failed", "reviewed"}
      PROVE  ShownInv'
  <2>1. Retrieved' = Retrieved /\ RankingPairs' = RankingPairs
    BY <1>6 DEF Retrieved, RankingPairs
  <2>2. Bundle(Retrieved)' = Bundle(Retrieved)
    BY <1>6, <2>1 DEF Bundle
  <2>3. QED
    BY <1>6, <2>1, <2>2 DEF ShownInv
<1>7. CASE Ask
  BY <1>6, <1>7 DEF Ask
<1>8. CASE ProviderFails
  BY <1>6, <1>8 DEF ProviderFails
<1>9. CASE ReviewIt
  BY <1>6, <1>9 DEF ReviewIt
<1>10. CASE UNCHANGED vars
  BY <1>6, <1>10 DEF vars
<1>11. QED
  BY <1>1, <1>2, <1>3, <1>4, <1>5, <1>7, <1>8, <1>9, <1>10 DEF Next

LEMMA ShownAlways == Spec => []ShownInv
BY ShownInit, ShownStep, PTL DEF Spec

LEMMA ShownIsWhole == ShownInv => KnowledgeIsWhole
<1> SUFFICES ASSUME ShownInv, phase \in {"built", "failed"} PROVE NothingIsLost(scene.sources, base)
  BY DEF KnowledgeIsWhole
<1>1. scene \in Scenes /\ base = Build(scene.sources)
  BY DEF ShownInv
<1>2. QED
  BY <1>1, SourcesAreKnown DEF KnowledgeHolds

LEMMA ShownIsTheBest == ShownInv => OnlyTheBestTrustedIsShown
<1> SUFFICES ASSUME ShownInv PROVE OnlyTheBestTrustedIsShown
  OBVIOUS
<1>1. ASSUME phase = "searched"
      PROVE  AnswersAreTheBestAllowed(base.chunks, lookup.bm25, lookup.dense, lookup.mode,
                                      lookup.k, lookup.include_untrusted)
  <2> DEFINE n == Len(base.chunks)
  <2>1. scene \in Scenes /\ base = Build(scene.sources)
    BY <1>1 DEF ShownInv
  <2>2. n \in Nat /\ DOMAIN base.chunks = 1 .. n
    BY <2>1, SourcesAreKnown DEF KnowledgeHolds
  <2>3. PICK l \in scene.lookups, r \in RankingPairs :
            lookup = [bm25 |-> r[1], dense |-> r[2], mode |-> l.mode, k |-> l.k,
                      include_untrusted |-> l.include_untrusted]
    BY <1>1 DEF ShownInv
  <2>4. l.mode \in Modes /\ l.k \in Nat /\ l.include_untrusted \in BOOLEAN
    BY <2>1, RankingsAssumption
  <2>5. IsRanking(r[1], n) /\ IsRanking(r[2], n)
    BY <2>1, RankingsAssumption DEF RankingPairs
  <2>6. /\ lookup.bm25 = r[1] /\ lookup.dense = r[2] /\ lookup.mode = l.mode /\ lookup.k = l.k
        /\ lookup.include_untrusted = l.include_untrusted
    BY <2>3
  <2>7. AnswersAreTheBestAllowed(base.chunks, r[1], r[2], l.mode, l.k, l.include_untrusted)
    BY <2>2, <2>4, <2>5, AnswersAreBest
  <2>8. QED
    BY <2>6, <2>7
<1>2. ASSUME bundle # NoBundle
      PROVE  /\ \A c \in bundle.chunks : c.trust = "trusted" /\ \A i \in DOMAIN c.units : ~c.units[i].flagged
             /\ bundle.chunks \cup bundle.withheld = Retrieved
             /\ IsInjective(bundle.evidence)
  <2>1. /\ scene \in Scenes /\ base = Build(scene.sources) /\ found \in Seq(DOMAIN base.chunks)
        /\ ~Refused(scene.evidence, Retrieved) /\ bundle = Bundle(Retrieved)
    BY <1>2 DEF ShownInv
  <2>2. /\ bundle.chunks = Retrieved \ Withheld(Retrieved) /\ bundle.withheld = Withheld(Retrieved)
        /\ bundle.evidence = [i \in DOMAIN scene.evidence |-> scene.evidence[i].id]
    BY <2>1 DEF Bundle
  <2>3. \A i \in DOMAIN base.chunks : base.chunks[i].flagged = ReadsLikeOne(base.chunks[i].units)
    BY <2>1, SourcesAreKnown DEF KnowledgeHolds
  <2>4. ASSUME NEW c \in bundle.chunks
        PROVE  c.trust = "trusted" /\ \A i \in DOMAIN c.units : ~c.units[i].flagged
    <3>1. c \in Retrieved /\ ~c.flagged
      BY <2>2 DEF Withheld
    <3>2. c.trust = "trusted"
      BY <2>1, <3>1 DEF Refused
    <3>3. PICK i \in ToSet(found) : c = base.chunks[i]
      BY <3>1 DEF Retrieved
    <3>4. i \in DOMAIN base.chunks
      BY <2>1, <3>3 DEF ToSet
    <3>5. ~ReadsLikeOne(c.units)
      BY <2>3, <3>1, <3>3, <3>4
    <3>6. QED
      BY <3>2, <3>5 DEF ReadsLikeOne
  <2>5. bundle.chunks \cup bundle.withheld = Retrieved
    BY <2>2 DEF Withheld
  <2>6. IsInjective(bundle.evidence)
    BY <2>1, <2>2 DEF Refused, IsInjective
  <2>7. QED
    BY <2>4, <2>5, <2>6
<1>3. QED
  BY <1>1, <1>2 DEF OnlyTheBestTrustedIsShown

\* Whatever the sources: unless a file that is opened cannot be read, which
\* leaves no base, every file is a document or a rejection with its reason, and
\* every sentence of a document is in a chunk of its section, under an id of its
\* own, in the order of the text and within the limits
\* (loader.py:87-134, chunker.py:27-51, service.py:47-65).
THEOREM KnowledgeStaysWhole == Spec => []KnowledgeIsWhole
BY ShownAlways, ShownIsWhole, PTL

\* Whatever the rankings and however many chunks are forbidden: an answer is
\* full, of allowed chunks only, and nothing in it comes before or without
\* what beats it in every ranking that counts; and no prompt holds text that
\* is untrusted or reads like an instruction
\* (retriever.py:41-74, prompts/investigation.py:3-5, 90-104).
THEOREM OnlyTheBestTrustedIsEverShown == Spec => []OnlyTheBestTrustedIsShown
BY ShownAlways, ShownIsTheBest, PTL

-----------------------------------------------------------------------------
(* What a claim says and what the cited items say, field by field.         *)

Plain == {"ids", "dates", "hours", "currencies", "times"}

LEMMA Fields ==
    /\ DOMAIN NoTokens = Plain \cup {"numbers", "monthDays"}
    /\ \A f \in DOMAIN NoTokens : NoTokens[f] = {}
  BY DEF NoTokens, Plain

LEMMA TokensOf ==
    ASSUME NEW text
    PROVE  /\ DOMAIN Tokens(text) = DOMAIN NoTokens
           /\ \A f \in DOMAIN NoTokens : \A x : x \in Tokens(text)[f] <=> \E p \in text : x \in p[f]
           /\ (\A f \in DOMAIN NoTokens : Tokens(text)[f] = {}) => Tokens(text) = NoTokens
<1>1. Tokens(text) = [f \in DOMAIN NoTokens |-> UNION {p[f] : p \in text}]
  BY DEF Tokens
<1>2. NoTokens = [f \in DOMAIN NoTokens |-> {}]
  BY DEF NoTokens
<1>3. QED
  BY <1>1, <1>2

LEMMA MissingIn ==
    ASSUME NEW text, NEW items
    PROVE  LET missing == Missing(Tokens(text), items)
               t == Tokens(text)
           IN  /\ \A f \in Plain : \A x :
                      x \in missing[f] <=> x \in t[f] /\ \A i \in items : x \notin i.tokens[f]
               /\ \A n : n \in missing.numbers <=>
                      n \in t.numbers /\ \A i \in items : \A a \in i.numbers : ~WithinHalf(n, a)
               /\ \A x : x \in missing.monthDays <=>
                      /\ x \in t.monthDays /\ \A i \in items : x \notin i.tokens.monthDays
                      /\ \A i \in items : \A day \in i.tokens.dates : x # <<day[2], day[3]>>
               /\ missing = NoTokens <=> \A f \in DOMAIN NoTokens : missing[f] = {}
<1> DEFINE t == Tokens(text)
           have(f) == UNION {i.tokens[f] : i \in items}
           missing == Missing(t, items)
<1>0. DOMAIN t = DOMAIN NoTokens
  BY TokensOf
<1> HIDE DEF t
<1>1. missing = [f \in DOMAIN NoTokens |->
            CASE f = "numbers"   -> {n \in t.numbers : \A i \in items : \A a \in i.numbers : ~WithinHalf(n, a)}
              [] f = "monthDays" -> t.monthDays \ (have(f) \cup {<<d[2], d[3]>> : d \in have("dates")})
              [] OTHER           -> t[f] \ have(f)]
  BY <1>0, Zenon DEF Missing
<1> HIDE DEF missing
<1>2. \A f \in Plain : missing[f] = t[f] \ have(f)
  <2> SUFFICES ASSUME NEW f \in Plain PROVE missing[f] = t[f] \ have(f)
    OBVIOUS
  <2>1. f # "numbers" /\ f # "monthDays" /\ f \in DOMAIN NoTokens
    BY Fields DEF Plain
  <2> HIDE DEF have
  <2>2. QED
    BY <1>1, <2>1
<1>3. missing.numbers = {n \in t.numbers : \A i \in items : \A a \in i.numbers : ~WithinHalf(n, a)}
  <2> HIDE DEF have
  <2>1. QED
    BY <1>1, Fields
<1>4. missing.monthDays = t.monthDays \ (have("monthDays") \cup {<<d[2], d[3]>> : d \in have("dates")})
  <2> HIDE DEF have
  <2>1. QED
    BY <1>1, Fields
<1>5. \A f, x : x \in have(f) <=> \E i \in items : x \in i.tokens[f]
  OBVIOUS
<1>6. missing = NoTokens <=> \A f \in DOMAIN NoTokens : missing[f] = {}
  <2>1. missing = [f \in DOMAIN NoTokens |-> missing[f]]
    BY <1>1
  <2>2. NoTokens = [f \in DOMAIN NoTokens |-> {}]
    BY DEF NoTokens
  <2>3. QED
    BY <2>1, <2>2
<1> HIDE DEF have
<1>7. /\ \A f \in Plain : \A x :
            x \in missing[f] <=> x \in t[f] /\ \A i \in items : x \notin i.tokens[f]
      /\ \A n : n \in missing.numbers <=>
            n \in t.numbers /\ \A i \in items : \A a \in i.numbers : ~WithinHalf(n, a)
  BY <1>2, <1>3, <1>5
<1>8. \A x : x \in missing.monthDays <=>
            /\ x \in t.monthDays /\ \A i \in items : x \notin i.tokens.monthDays
            /\ \A i \in items : \A day \in i.tokens.dates : x # <<day[2], day[3]>>
  <2> SUFFICES ASSUME NEW x
               PROVE  x \in missing.monthDays <=>
                        /\ x \in t.monthDays /\ \A i \in items : x \notin i.tokens.monthDays
                        /\ \A i \in items : \A day \in i.tokens.dates : x # <<day[2], day[3]>>
    OBVIOUS
  <2>1. x \in missing.monthDays <=>
           /\ x \in t.monthDays /\ x \notin have("monthDays")
           /\ \A d \in have("dates") : x # <<d[2], d[3]>>
    BY <1>4
  <2>2. x \in have("monthDays") <=> \E i \in items : x \in i.tokens.monthDays
    BY <1>5
  <2>3. \A d : d \in have("dates") <=> \E i \in items : d \in i.tokens.dates
    BY <1>5
  <2>4. QED
    BY <2>1, <2>2, <2>3
<1>9. QED
  BY <1>6, <1>7, <1>8, Zenon DEF missing, t

\* Rounding to the places as written is being within half a unit of the last.
LEMMA RoundingIsHalf ==
    ASSUME NEW n, n.value \in Int, n.places \in 0 .. 2, NEW a
    PROVE  /\ WithinHalf(n, a) => IsRoundingOf(n, a)
           /\ a \in Int /\ IsRoundingOf(n, a) => WithinHalf(n, a)
<1>1. Unit[n.places + 1] \in {100, 10, 1}
  BY DEF Unit
<1> DEFINE u == Unit[n.places + 1]
           v == n.value
<1>2. u \in {100, 10, 1} /\ v \in Int
  BY <1>1
<1> HIDE DEF u, v
<1>3. WithinHalf(n, a) <=> a \in v - (u \div 2) .. v + (u \div 2)
  BY DEF WithinHalf, Around, u, v
<1>4. IsRoundingOf(n, a) <=> /\ Distance(v, a) <= Distance(v - u, a)
                             /\ Distance(v, a) <= Distance(v + u, a)
  BY DEF IsRoundingOf, u, v
<1>5. a \in v - (u \div 2) .. v + (u \div 2) => a \in Int
  BY <1>2
<1>6. CASE u = 100
  BY <1>2, <1>3, <1>4, <1>5, <1>6 DEF Distance
<1>7. CASE u = 10
  BY <1>2, <1>3, <1>4, <1>5, <1>7 DEF Distance
<1>8. CASE u = 1
  BY <1>2, <1>3, <1>4, <1>5, <1>8 DEF Distance
<1>9. QED
  BY <1>2, <1>6, <1>7, <1>8

LEMMA SupportedIsTold ==
    ASSUME NEW text, \A p \in text : IsPhrase(p), NEW items,
           Missing(Tokens(text), items) = NoTokens,
           NEW p \in text
    PROVE  Told(p, items)
<1> DEFINE missing == Missing(Tokens(text), items)
<1>1. \A f \in DOMAIN NoTokens : missing[f] = {}
  BY Fields
<1>2. \A f \in DOMAIN NoTokens : \A x \in p[f] : x \in Tokens(text)[f]
  BY TokensOf
<1>3. \A f \in Plain : \A x \in p[f] : \E i \in items : x \in i.tokens[f]
  <2>1. SUFFICES ASSUME NEW f \in Plain, NEW x \in p[f], \A i \in items : x \notin i.tokens[f] PROVE FALSE
    OBVIOUS
  <2>2. x \in Tokens(text)[f] /\ missing[f] = {}
    BY <1>1, <1>2, Fields
  <2>3. QED
    BY <2>1, <2>2, MissingIn
<1>4. \A n \in p.numbers : \E i \in items : \E a \in i.numbers : IsRoundingOf(n, a)
  <2>1. SUFFICES ASSUME NEW n \in p.numbers, \A i \in items : \A a \in i.numbers : ~IsRoundingOf(n, a) PROVE FALSE
    OBVIOUS
  <2>2. n \in Tokens(text).numbers /\ missing.numbers = {}
    BY <1>1, <1>2, Fields
  <2>3. n.value \in Int /\ n.places \in 0 .. 2
    BY DEF IsPhrase
  <2>4. \A i \in items : \A a \in i.numbers : ~WithinHalf(n, a)
    BY <2>1, <2>3, RoundingIsHalf
  <2>5. QED
    BY <2>2, <2>4, MissingIn
<1>5. \A x \in p.monthDays : \E i \in items :
          x \in i.tokens.monthDays \/ \E day \in i.tokens.dates : x[1] = day[2] /\ x[2] = day[3]
  <2>1. SUFFICES ASSUME NEW x \in p.monthDays,
                        \A i \in items : /\ x \notin i.tokens.monthDays
                                         /\ \A day \in i.tokens.dates : ~(x[1] = day[2] /\ x[2] = day[3])
                 PROVE  FALSE
    OBVIOUS
  <2>2. x \in Tokens(text).monthDays /\ missing.monthDays = {}
    BY <1>1, <1>2, Fields
  <2>3. \A i \in items : \A day \in i.tokens.dates : x # <<day[2], day[3]>>
    BY <2>1
  <2>4. QED
    BY <2>1, <2>2, <2>3, MissingIn
<1>6. QED
  BY <1>3, <1>4, <1>5 DEF Told, Plain

LEMMA ToldIsSupported ==
    ASSUME NEW text, \A p \in text : IsPhrase(p), NEW items,
           \A i \in items : i.numbers \subseteq Int,
           \A p \in text : Told(p, items)
    PROVE  Missing(Tokens(text), items) = NoTokens
<1> DEFINE missing == Missing(Tokens(text), items)
<1>1. \A f \in Plain : missing[f] = {}
  <2>1. SUFFICES ASSUME NEW f \in Plain, NEW x \in missing[f] PROVE FALSE
    OBVIOUS
  <2>2. x \in Tokens(text)[f] /\ \A i \in items : x \notin i.tokens[f]
    BY MissingIn
  <2>3. PICK p \in text : x \in p[f]
    BY <2>2, TokensOf, Fields
  <2>4. QED
    BY <2>2, <2>3 DEF Told, Plain
<1>2. missing.numbers = {}
  <2>1. SUFFICES ASSUME NEW n \in missing.numbers PROVE FALSE
    OBVIOUS
  <2>2. n \in Tokens(text).numbers /\ \A i \in items : \A a \in i.numbers : ~WithinHalf(n, a)
    BY MissingIn
  <2>3. PICK p \in text : n \in p.numbers
    BY <2>2, TokensOf, Fields
  <2>4. PICK i \in items : \E a \in i.numbers : IsRoundingOf(n, a)
    BY <2>3 DEF Told
  <2>5. n.value \in Int /\ n.places \in 0 .. 2 /\ i.numbers \subseteq Int
    BY <2>3 DEF IsPhrase
  <2>6. QED
    BY <2>2, <2>4, <2>5, RoundingIsHalf
<1>3. missing.monthDays = {}
  <2>1. SUFFICES ASSUME NEW x \in missing.monthDays PROVE FALSE
    OBVIOUS
  <2>2. /\ x \in Tokens(text).monthDays /\ \A i \in items : x \notin i.tokens.monthDays
        /\ \A i \in items : \A day \in i.tokens.dates : x # <<day[2], day[3]>>
    BY MissingIn
  <2>3. PICK p \in text : x \in p.monthDays
    BY <2>2, TokensOf, Fields
  <2>4. x = <<x[1], x[2]>>
    BY <2>3 DEF IsPhrase
  <2>5. PICK i \in items : x \in i.tokens.monthDays
                           \/ \E day \in i.tokens.dates : x[1] = day[2] /\ x[2] = day[3]
    BY <2>3 DEF Told
  <2>6. QED
    BY <2>2, <2>4, <2>5
<1>4. QED
  BY <1>1, <1>2, <1>3, MissingIn, Fields

\* More items can only tell more.
LEMMA MissingShrinks ==
    ASSUME NEW text, NEW items, NEW more, items \subseteq more, NEW f \in DOMAIN NoTokens
    PROVE  Missing(Tokens(text), more)[f] \subseteq Missing(Tokens(text), items)[f]
<1>1. CASE f \in Plain
  BY <1>1, MissingIn
<1>2. CASE f = "numbers"
  BY <1>2, MissingIn
<1>3. CASE f = "monthDays"
  BY <1>3, MissingIn
<1>4. QED
  BY <1>1, <1>2, <1>3, Fields

-----------------------------------------------------------------------------
(* The verdict on a claim.                                                 *)

Verdicts == {"unsupported", "unverifiable", "supported"}
Exists(index, refs) == \A r \in refs : \E i \in index : i.ref = r.id
Derived(missing) == missing.ids = {} /\ missing.dates = {} /\ missing.currencies = {}

Cites(index, kind, refs) ==
    /\ Exists(index, refs) /\ Resolved(index, refs) # {}
    /\ kind = "fact" => CaseItems(Resolved(index, refs)) # {}
Backed(index, text, refs) == Missing(Tokens(text), Resolved(index, refs)) = NoTokens
Judged(index, text, kind, refs) ==
    \/ Tokens(text) = NoTokens \/ Backed(index, text, refs)
    \/ kind = "inference" /\ Derived(Missing(Tokens(text), Resolved(index, refs)))

\* check_claim with its early returns read as conditions.
LEMMA VerdictOf ==
    ASSUME NEW index, NEW text, NEW kind, NEW refs
    PROVE  /\ CheckClaim(index, text, kind, refs) \in Verdicts
           /\ CheckClaim(index, text, kind, refs) # "unsupported" <=>
                 Cites(index, kind, refs) /\ Judged(index, text, kind, refs)
           /\ CheckClaim(index, text, kind, refs) = "supported" <=>
                 Cites(index, kind, refs) /\ Tokens(text) # NoTokens /\ Backed(index, text, refs)
<1> DEFINE verdict == CheckClaim(index, text, kind, refs)
           derived == Derived(Missing(Tokens(text), Resolved(index, refs)))
<1>1. Unknown(index, refs) = {} <=> Exists(index, refs)
  BY DEF Unknown, Exists
<1>2. verdict = IF \/ Unknown(index, refs) # {} \/ Resolved(index, refs) = {}
                   \/ (kind = "fact" /\ CaseItems(Resolved(index, refs)) = {})
                THEN "unsupported"
                ELSE IF Tokens(text) = NoTokens THEN "unverifiable"
                ELSE IF Backed(index, text, refs) THEN "supported"
                ELSE IF kind = "inference" /\ derived THEN "unverifiable" ELSE "unsupported"
  BY Zenon DEF CheckClaim, Derived, Backed
<1> HIDE DEF verdict, derived
<1>3. verdict = IF ~Cites(index, kind, refs) THEN "unsupported"
                ELSE IF Tokens(text) = NoTokens THEN "unverifiable"
                ELSE IF Backed(index, text, refs) THEN "supported"
                ELSE IF kind = "inference" /\ derived THEN "unverifiable" ELSE "unsupported"
  BY <1>1, <1>2 DEF Cites
<1>4. Judged(index, text, kind, refs) <=>
          Tokens(text) = NoTokens \/ Backed(index, text, refs) \/ (kind = "inference" /\ derived)
  BY Zenon DEF Judged, derived
<1>5. CASE ~Cites(index, kind, refs)
  BY <1>3, <1>5, Zenon DEF Verdicts, verdict
<1>6. CASE Cites(index, kind, refs) /\ Tokens(text) = NoTokens
  BY <1>3, <1>4, <1>6, Zenon DEF Verdicts, verdict
<1>7. CASE Cites(index, kind, refs) /\ Tokens(text) # NoTokens /\ Backed(index, text, refs)
  BY <1>3, <1>4, <1>7, Zenon DEF Verdicts, verdict
<1>8. CASE Cites(index, kind, refs) /\ Tokens(text) # NoTokens /\ ~Backed(index, text, refs)
  BY <1>3, <1>4, <1>8, Zenon DEF Verdicts, verdict
<1>9. QED
  BY <1>5, <1>6, <1>7, <1>8, Zenon

LEMMA SomethingIsSaid ==
    ASSUME NEW text, \A p \in text : IsPhrase(p)
    PROVE  Tokens(text) = NoTokens <=> text = {}
<1>1. CASE text = {}
  <2>1. \A f \in DOMAIN NoTokens : Tokens(text)[f] = {}
    BY <1>1, TokensOf
  <2>2. QED
    BY <1>1, <2>1, TokensOf
<1>2. ASSUME NEW p \in text PROVE Tokens(text) # NoTokens
  <2>1. PICK f \in DOMAIN NoTokens : p[f] # {}
    BY DEF IsPhrase
  <2>2. PICK x : x \in p[f]
    BY <2>1
  <2>3. x \in Tokens(text)[f] /\ NoTokens[f] = {}
    BY <2>2, TokensOf, Fields
  <2>4. QED
    BY <2>3
<1>3. QED
  BY <1>1, <1>2

\* Another citation of what exists makes no verdict worse.
LEMMA OneMoreCitation ==
    ASSUME NEW index, NEW text, NEW kind, NEW refs, Exists(index, refs),
           NEW r, \E i \in index : i.ref = r.id
    PROVE  /\ CheckClaim(index, text, kind, refs) = "supported"
              => CheckClaim(index, text, kind, refs \cup {r}) = "supported"
           /\ CheckClaim(index, text, kind, refs) = "unverifiable"
              => CheckClaim(index, text, kind, refs \cup {r}) # "unsupported"
<1> DEFINE few  == Resolved(index, refs)
           many == Resolved(index, refs \cup {r})
<1>1. few \subseteq many /\ CaseItems(few) \subseteq CaseItems(many)
  BY DEF Resolved, CaseItems
<1>2. Exists(index, refs \cup {r})
  BY DEF Exists
<1>3. Cites(index, kind, refs) => Cites(index, kind, refs \cup {r})
  <2> HIDE DEF few, many
  <2>1. few # {} => many # {}
    BY <1>1
  <2>2. CaseItems(few) # {} => CaseItems(many) # {}
    BY <1>1
  <2>3. QED
    BY <1>2, <2>1, <2>2 DEF Cites, few, many
<1> DEFINE without == Missing(Tokens(text), few)
           with    == Missing(Tokens(text), many)
<1>4. \A f \in DOMAIN NoTokens : with[f] \subseteq without[f]
  BY <1>1, MissingShrinks, Zenon
<1>5. Backed(index, text, refs) => Backed(index, text, refs \cup {r})
  <2>1. without = NoTokens => \A f \in DOMAIN NoTokens : with[f] = {}
    <3> HIDE DEF with, without
    <3>1. QED
      BY <1>4, Fields
  <2>2. (\A f \in DOMAIN NoTokens : with[f] = {}) => with = NoTokens
    <3> HIDE DEF many
    <3>1. QED
      BY MissingIn
  <2>3. QED
    BY <2>1, <2>2, Zenon DEF Backed
<1>6. Derived(without) => Derived(with)
  <2>1. {"ids", "dates", "currencies"} \subseteq DOMAIN NoTokens
    BY Fields DEF Plain
  <2> HIDE DEF with, without
  <2>2. QED
    BY <1>4, <2>1 DEF Derived
<1>7. Judged(index, text, kind, refs) => Judged(index, text, kind, refs \cup {r})
  BY <1>5, <1>6, Zenon DEF Judged
<1>8. QED
  BY <1>3, <1>5, <1>7, VerdictOf DEF Verdicts

LEMMA VerdictsAreHonest ==
    ASSUME NEW index, \A i \in CaseItems(index) : i.numbers \subseteq Int,
           NEW text, \A p \in text : IsPhrase(p), NEW kind, NEW refs
    PROVE  VerdictIsHonest(index, text, kind, refs)
<1> DEFINE cited   == Resolved(index, refs)
           verdict == CheckClaim(index, text, kind, refs)
           rank    == [unsupported |-> 0, unverifiable |-> 1, supported |-> 2]
           after(i) == CheckClaim(index, text, kind, refs \cup {[prefix |-> "E:", id |-> i.ref]})
<1>1. Cites(index, kind, refs) =>
          refs # {} /\ Exists(index, refs) /\ (kind = "fact" => CaseItems(cited) # {})
  BY DEF Cites, Resolved
<1>2. Tokens(text) = NoTokens <=> text = {}
  BY SomethingIsSaid
<1>3. Backed(index, text, refs) => \A p \in text : Told(p, cited)
  BY SupportedIsTold DEF Backed
<1>4. ASSUME Exists(index, refs), NEW i \in CaseItems(cited), \A p \in text : Told(p, {i})
      PROVE  Cites(index, kind, refs) /\ Backed(index, text, refs)
  <2>1. i \in cited /\ i \in CaseItems(index)
    BY DEF CaseItems, Resolved
  <2>2. \A j \in {i} : j.numbers \subseteq Int
    BY <2>1
  <2>3. Missing(Tokens(text), {i}) = NoTokens
    BY <1>4, <2>2, ToldIsSupported
  <2>4. {i} \subseteq cited
    BY <2>1
  <2> HIDE DEF cited
  <2>5. \A f \in DOMAIN NoTokens : Missing(Tokens(text), cited)[f] = {}
    BY <2>3, <2>4, MissingShrinks, Fields
  <2>6. Missing(Tokens(text), cited) = NoTokens
    BY <2>5, MissingIn
  <2>7. QED
    BY <1>4, <2>1, <2>6 DEF Cites, Backed, cited
<1>5. ASSUME Exists(index, refs), NEW i \in index
      PROVE  rank[after(i)] >= rank[verdict]
  <2> DEFINE r == [prefix |-> "E:", id |-> i.ref]
  <2>1. \E j \in index : j.ref = r.id
    OBVIOUS
  <2> HIDE DEF r
  <2> DEFINE then == CheckClaim(index, text, kind, refs \cup {r})
  <2>2. /\ verdict = "supported" => then = "supported"
        /\ verdict = "unverifiable" => then # "unsupported"
        /\ then \in Verdicts /\ verdict \in Verdicts
    <3>1. verdict \in Verdicts /\ then \in Verdicts
      BY VerdictOf, Zenon
    <3>2. /\ verdict = "supported" => then = "supported"
          /\ verdict = "unverifiable" => then # "unsupported"
      BY ONLY <1>5, <2>1, OneMoreCitation
    <3>3. QED
      BY <3>1, <3>2, Zenon
  <2>3. then = after(i)
    BY Zenon DEF r
  <2> HIDE DEF after, verdict, then
  <2>4. QED
    BY <2>2, <2>3 DEF Verdicts
<1>6. verdict # "unsupported" =>
          refs # {} /\ Exists(index, refs) /\ (kind = "fact" => CaseItems(cited) # {})
  BY <1>1, VerdictOf, Zenon
<1>7. verdict = "supported" => text # {} /\ \A p \in text : Told(p, cited)
  BY <1>2, <1>3, VerdictOf, Zenon
<1>8. (refs # {} /\ Exists(index, refs) /\ \E i \in CaseItems(cited) : \A p \in text : Told(p, {i}))
      => verdict # "unsupported" /\ (text # {} => verdict = "supported")
  <2> SUFFICES ASSUME Exists(index, refs), NEW i \in CaseItems(cited), \A p \in text : Told(p, {i})
               PROVE  verdict # "unsupported" /\ (text # {} => verdict = "supported")
    OBVIOUS
  <2>1. Cites(index, kind, refs) /\ Backed(index, text, refs)
    BY <1>4, Zenon
  <2>2. Judged(index, text, kind, refs)
    BY <2>1, Zenon DEF Judged
  <2>3. QED
    BY <1>2, <2>1, <2>2, VerdictOf, Zenon
<1>9. \A i \in index : refs # {} /\ Exists(index, refs) => rank[after(i)] >= rank[verdict]
  BY <1>5, Zenon
<1>10. QED
  BY <1>6, <1>7, <1>8, <1>9, Zenon DEF VerdictIsHonest, Exists

-----------------------------------------------------------------------------
(* The critique of an answer.                                              *)

LEMMA CaseNumbers ==
    ASSUME NEW evidence, NEW chunks,
           \A e \in evidence : e.numbers \subseteq Int /\ \A p \in e.text : IsPhrase(p),
           NEW i \in CaseItems(EvidenceIndex(evidence, chunks))
    PROVE  i.numbers \subseteq Int
<1>1. i.kind = "evidence" /\ i \in EvidenceIndex(evidence, chunks)
  BY DEF CaseItems
<1>2. \A c : ItemOf(c.id, "knowledge", c.text, {}, -1).kind = "knowledge"
  BY DEF ItemOf
<1>3. PICK e \in evidence : i = ItemOf(e.id, "evidence", e.text, e.numbers, e.hour_of_day)
  BY <1>1, <1>2 DEF EvidenceIndex
<1>4. i.numbers = {n.value : n \in Tokens(e.text).numbers} \cup e.numbers
  BY <1>3, Zenon DEF ItemOf
<1>5. \A n \in Tokens(e.text).numbers : n.value \in Int
  <2>1. SUFFICES ASSUME NEW n \in Tokens(e.text).numbers PROVE n.value \in Int
    OBVIOUS
  <2>2. PICK p \in e.text : n \in p.numbers
    BY TokensOf, Fields
  <2>3. QED
    BY <2>2 DEF IsPhrase
<1>6. QED
  BY <1>4, <1>5

LEMMA StrongerIsHigher ==
    ASSUME NEW d \in DOMAIN DECISION_RANK, NEW e \in DOMAIN DECISION_RANK,
           d = "REVIEW" \/ e = "REVIEW"
    PROVE  Stronger(d, e) # "CLEAR" /\ Stronger(d, e) # "none"
           /\ Stronger(d, e) \in DOMAIN DECISION_RANK
  BY DEF Stronger, DECISION_RANK

LEMMA CritiqueIsEarned ==
    ASSUME NEW evidence, NEW chunks, NEW v, IsValue(v)
    PROVE  LET index == EvidenceIndex(evidence, chunks)
               c     == CritiqueOf(evidence, chunks, v)
           IN  /\ c.validated =>
                      /\ \A r \in v.evidence : \E i \in index : i.ref = r.id
                      /\ \A f \in v.findings : f.kind = "fact" /\ f.statement # {} =>
                             \A p \in f.statement : Told(p, Resolved(index, f.refs))
                      /\ \A p \in v.summary : Told(p, CaseItems(index))
                      /\ v.action = "CLEAR" => \A e \in evidence : ~ForcesReview(e.finding)
               /\ "unsupported" \in {CheckClaim(index, f.statement, f.kind, f.refs) : f \in v.findings}
                      => c.decision # "CLEAR" /\ ~c.validated
<1> DEFINE index  == EvidenceIndex(evidence, chunks)
           c      == CritiqueOf(evidence, chunks, v)
           inv    == [action |-> v.action, claims |-> ClaimChecksOf(index, v),
                      grounded |-> TextGrounded(index, v.summary)]
           all    == {e.finding : e \in evidence}
           floor  == Engine_floor(all)
           raised == IF "unsupported" \in inv.claims THEN "REVIEW" ELSE "none"
<1>1. c = Critique(all, inv)
  BY Zenon DEF CritiqueOf
<1>2. /\ c.validated = Accepted(Violations(floor, inv), inv)
      /\ c.decision = Stronger(Stronger(inv.action, floor), raised)
  BY <1>1 DEF Critique
<1>3. /\ inv.action = v.action /\ inv.claims = ClaimChecksOf(index, v)
      /\ inv.grounded = TextGrounded(index, v.summary)
  OBVIOUS
<1> HIDE DEF inv, c, index
<1>4. v.action \in {"CLEAR", "REVIEW", "ESCALATE"}
  BY DEF IsValue
<1>5. ASSUME c.validated
      PROVE  /\ "unsupported" \notin inv.claims /\ inv.grounded
             /\ v.action = "CLEAR" => floor = "none"
  <2>1. "unsupported" \notin inv.claims /\ Violations(floor, inv) = {}
    BY <1>2, <1>5 DEF Accepted
  <2>2. \A w \in Violation : w \notin Violations(floor, inv)
    BY <2>1
  <2>3. ~(~inv.grounded)
    BY <2>2, Zenon DEF Violation, Violations
  <2>4. ~(inv.action = "CLEAR" /\ floor # "none")
    BY <2>2, Zenon DEF Violation, Violations
  <2>5. QED
    BY <1>3, <2>1, <2>3, <2>4
<1>6. ASSUME c.validated, NEW r \in v.evidence
      PROVE  \E i \in index : i.ref = r.id
  <2>1. Unknown(index, v.evidence) = {}
    BY <1>3, <1>5, <1>6 DEF ClaimChecksOf
  <2>2. QED
    BY <2>1 DEF Unknown
<1>7. ASSUME c.validated, NEW f \in v.findings, f.kind = "fact", f.statement # {}, NEW p \in f.statement
      PROVE  Told(p, Resolved(index, f.refs))
  <2>1. CheckClaim(index, f.statement, f.kind, f.refs) # "unsupported"
    BY <1>3, <1>5, <1>7 DEF ClaimChecksOf
  <2>2. \A q \in f.statement : IsPhrase(q)
    BY DEF IsValue
  <2>3. Tokens(f.statement) # NoTokens
    BY <1>7, <2>2, SomethingIsSaid
  <2>4. Judged(index, f.statement, f.kind, f.refs)
    BY <2>1, VerdictOf, Zenon
  <2>5. f.kind # "inference"
    BY <1>7
  <2>6. Backed(index, f.statement, f.refs)
    BY <2>3, <2>4, <2>5, Zenon DEF Judged
  <2>7. QED
    BY <2>2, <2>6, SupportedIsTold DEF Backed
<1>8. ASSUME c.validated, NEW p \in v.summary
      PROVE  Told(p, CaseItems(index))
  <2>1. \A q \in v.summary : IsPhrase(q)
    BY DEF IsValue
  <2>2. Missing(Tokens(v.summary), CaseItems(index)) = NoTokens
    BY <1>3, <1>5, <1>8, Zenon DEF TextGrounded
  <2>3. QED
    BY <2>1, <2>2, SupportedIsTold
<1>9. ASSUME c.validated, v.action = "CLEAR", NEW e \in evidence
      PROVE  ~ForcesReview(e.finding)
  <2>1. floor = "none"
    BY <1>5, <1>9
  <2>2. e.finding \in all
    OBVIOUS
  <2> HIDE DEF all
  <2>3. QED
    BY <2>1, <2>2 DEF Engine_floor
<1>10. ASSUME NEW f \in v.findings, CheckClaim(index, f.statement, f.kind, f.refs) = "unsupported"
       PROVE  c.decision # "CLEAR" /\ ~c.validated
  <2>1. "unsupported" \in inv.claims
    BY <1>3, <1>10 DEF ClaimChecksOf
  <2>2. ~c.validated
    BY <1>5, <2>1
  <2>3. floor \in {"none", "REVIEW"}
    BY DEF Engine_floor
  <2> HIDE DEF floor
  <2>4. Stronger(inv.action, floor) \in DOMAIN DECISION_RANK
    BY <1>3, <1>4, <2>3 DEF Stronger, DECISION_RANK
  <2>5. c.decision = Stronger(Stronger(inv.action, floor), "REVIEW")
    BY <1>2, <2>1
  <2>6. "REVIEW" \in DOMAIN DECISION_RANK
    BY DEF DECISION_RANK
  <2>7. QED
    BY <2>2, <2>4, <2>5, <2>6, StrongerIsHigher
<1>11. QED
  BY <1>6, <1>7, <1>8, <1>9, <1>10, Zenon DEF index, c

-----------------------------------------------------------------------------
(* The rounds with the model.                                              *)

Read(a) == a.error = ParseError(a.text) /\ (a.text # <<>> => IsObject(a.text[1]))

Rounds ==
    /\ scene \in Scenes
    /\ \E S : attempts \in Seq(S)
    /\ Len(attempts) <= MaxAttempts
    /\ \A i \in 1 .. Len(attempts) : Read(attempts[i])
    /\ \A i \in 1 .. Len(attempts) - 1 : attempts[i].error # "none"

Critiqued ==
    phase = "reviewed" =>
        /\ Answered \/ Len(attempts) = MaxAttempts
        /\ critique = IF Answered
                      THEN CritiqueOf(ToSet(scene.evidence), Sources, Value)
                      ELSE Critique({e.finding : e \in ToSet(scene.evidence)}, NoInvestigation)

\* What parses is one object that fits the schema.
LEMMA WhatParses ==
    ASSUME NEW text, text # <<>> => IsObject(text[1]), ParseError(text) = "none"
    PROVE  /\ text[1] = Fitting(Parsed(text)) /\ IsValue(Parsed(text))
           /\ Parsed(text) # NoValue
<1> DEFINE o == text[1]
<1>1. text # <<>>
  BY DEF ParseError
<1>2. /\ o = Object(o.closed, o.json, o.fits, o.value)
      /\ {o.closed, o.json, o.fits} \subseteq BOOLEAN
      /\ o.fits => IsValue(o.value)
  BY <1>1, Zenon DEF IsObject
<1>3. "none" = CASE ~o.closed -> "not terminated"
                 [] o.closed /\ ~o.json -> "invalid JSON"
                 [] o.closed /\ o.json /\ ~o.fits -> "schema"
                 [] OTHER -> "none"
  BY <1>1, Zenon DEF ParseError, ObjectFirst
<1>4. Parsed(text) = o.value
  BY Zenon DEF Parsed, ObjectFirst
<1> DEFINE closed == o.closed
           json == o.json
           fits == o.fits
           v == o.value
<1>5. closed \in BOOLEAN /\ json \in BOOLEAN /\ fits \in BOOLEAN
  BY <1>2
<1>6. closed = TRUE /\ json = TRUE /\ fits = TRUE
  <2> HIDE DEF o
  <2>1. CASE closed = FALSE
    BY <1>3, <2>1
  <2>2. CASE closed = TRUE /\ json = FALSE
    BY <1>3, <2>2
  <2>3. CASE closed = TRUE /\ json = TRUE /\ fits = FALSE
    BY <1>3, <2>3
  <2>4. QED
    BY <1>5, <2>1, <2>2, <2>3
<1>7. o = Fitting(v) /\ IsValue(v)
  BY <1>2, <1>6, Zenon DEF Fitting
<1>8. v # NoValue
  BY <1>7 DEF IsValue, NoValue
<1>9. QED
  BY <1>4, <1>7, <1>8, Zenon

LEMMA AnswersAreTexts ==
    ASSUME scene \in Scenes, NEW text \in Answers, text # <<>>
    PROVE  IsObject(text[1])
<1>1. CASE scene.provider.name # "mock"
  BY <1>1, ScenesAssumption DEF Answers
<1>2. CASE scene.provider.name = "mock"
  <2> DEFINE calls == scene.provider.calls + Len(attempts) + 1
             behaviour == scene.provider.behaviour
             ids == bundle.evidence
  <2>1. text = MockText(behaviour, calls, ids)
    BY <1>2 DEF Answers
  <2> HIDE DEF calls, behaviour, ids
  <2>2. \/ text = <<Object(FALSE, FALSE, FALSE, NoValue)>>
        \/ text = <<Object(TRUE, TRUE, FALSE, NoValue)>>
        \/ text = <<Fitting([NoValue EXCEPT !.action = "CLEAR"])>>
        \/ text = <<Fitting(MockPayload(ids))>>
    BY <2>1 DEF MockText
  <2>3. \A i : IsPhrase(Id(i))
    BY DEF IsPhrase, Id, NoTokens
  <2>4. IsValue(MockPayload(ids))
    <3> DEFINE v == MockPayload(ids)
               first == ToSet(Take(ids, 3))
    <3>1. /\ v.summary = {} /\ v.action = "REVIEW"
          /\ v.findings = {[statement |-> {Id(i)}, kind |-> "fact", refs |-> {[prefix |-> "", id |-> i]}] : i \in first}
      BY Zenon DEF MockPayload
    <3> HIDE DEF first, v
    <3>2. ASSUME NEW f \in v.findings
          PROVE  f.kind \in {"fact", "inference"} /\ \A p \in f.statement : IsPhrase(p)
      <4>1. PICK i \in first : f = [statement |-> {Id(i)}, kind |-> "fact", refs |-> {[prefix |-> "", id |-> i]}]
        BY <3>1
      <4>2. f.kind = "fact" /\ f.statement = {Id(i)}
        BY <4>1
      <4>3. QED
        BY <2>3, <4>2
    <3>3. IsValue(v)
      BY <3>1, <3>2 DEF IsValue
    <3>4. QED
      BY <3>3 DEF v
  <2>5. IsValue([NoValue EXCEPT !.action = "CLEAR"])
    BY DEF IsValue, NoValue
  <2>6. \A closed, json \in BOOLEAN : \A v : IsObject(Object(closed, json, FALSE, v))
    BY DEF IsObject, Object
  <2>7. \A v : IsValue(v) => IsObject(Fitting(v))
    BY DEF IsObject, Fitting, Object
  <2>8. \E o : text = <<o>> /\ IsObject(o)
    BY <2>2, <2>4, <2>5, <2>6, <2>7, Zenon
  <2>9. QED
    BY <2>8
<1>3. QED
  BY <1>1, <1>2

LEMMA RoundsKept == Rounds /\ [Next]_vars => Rounds'
<1> SUFFICES ASSUME Rounds, [Next]_vars PROVE Rounds'
  OBVIOUS
<1>1. CASE Ask
  <2>1. PICK text \in Answers :
           attempts' = Append(attempts, [text |-> text, error |-> ParseError(text),
                                         is_mock |-> scene.provider.name = "mock"])
    BY <1>1 DEF Ask
  <2> DEFINE a == [text |-> text, error |-> ParseError(text), is_mock |-> scene.provider.name = "mock"]
  <2>2. scene' = scene /\ Len(attempts) < MaxAttempts /\ ~Answered
    BY <1>1 DEF Ask
  <2>3. Read(a)
    BY AnswersAreTexts DEF Rounds, Read
  <2> HIDE DEF a
  <2>4. PICK S : attempts \in Seq(S)
    BY DEF Rounds
  <2> DEFINE T == S \cup {a}
  <2>5. attempts \in Seq(T) /\ a \in T
    BY <2>4
  <2> HIDE DEF T
  <2>6. /\ attempts' \in Seq(T) /\ Len(attempts') = Len(attempts) + 1 /\ Len(attempts) \in Nat
        /\ \A i \in 1 .. Len(attempts) : attempts'[i] = attempts[i]
        /\ attempts'[Len(attempts) + 1] = a
    BY <2>1, <2>5 DEF a
  <2>7. Len(attempts') <= MaxAttempts
    BY <2>2, <2>6, AttemptsAssumption DEF Rounds
  <2>8. \A i \in 1 .. Len(attempts') : Read(attempts'[i])
    BY <2>3, <2>6 DEF Rounds
  <2>9. \A i \in 1 .. Len(attempts') - 1 : attempts'[i].error # "none"
    <3>1. SUFFICES ASSUME NEW i \in 1 .. Len(attempts) PROVE attempts[i].error # "none"
      BY <2>6
    <3>2. attempts # <<>> /\ attempts[Len(attempts)].error # "none"
      BY <2>2, <2>4, <3>1 DEF Answered
    <3>3. QED
      BY <2>6, <3>1, <3>2 DEF Rounds
  <2>10. QED
    BY <2>2, <2>6, <2>7, <2>8, <2>9 DEF Rounds, Read
<1>2. CASE UNCHANGED <<scene, attempts>>
  BY <1>2 DEF Rounds, Read
<1>3. QED
  BY <1>1, <1>2 DEF Next, vars, BuildBase, SearchBase, StartRetrieval, RetrieveNext, BuildPrompt,
                    ProviderFails, ReviewIt

LEMMA CritiquedKept == Critiqued /\ [Next]_vars => Critiqued'
<1> SUFFICES ASSUME Critiqued, [Next]_vars PROVE Critiqued'
  OBVIOUS
<1>1. ASSUME UNCHANGED <<scene, base, found, attempts>>
      PROVE  Sources' = Sources /\ Answered' = Answered /\ Value' = Value
  BY <1>1, Zenon DEF Sources, Retrieved, Answered, Value
<1>2. CASE ReviewIt
  <2>1. Sources' = Sources /\ Answered' = Answered /\ Value' = Value
    BY <1>1, <1>2 DEF ReviewIt
  <2>2. QED
    BY <1>2, <2>1 DEF ReviewIt, Critiqued
<1>3. CASE UNCHANGED vars
  <2>1. Sources' = Sources /\ Answered' = Answered /\ Value' = Value
    BY <1>1, <1>3 DEF vars
  <2>2. QED
    BY <1>3, <2>1 DEF vars, Critiqued
<1>4. CASE phase' # "reviewed"
  BY <1>4 DEF Critiqued
<1>5. BuildBase \/ SearchBase \/ StartRetrieval \/ RetrieveNext \/ BuildPrompt \/ Ask \/ ProviderFails
      => phase' # "reviewed"
  BY DEF BuildBase, SearchBase, StartRetrieval, RetrieveNext, BuildPrompt, Ask, ProviderFails
<1>6. QED
  BY <1>2, <1>3, <1>4, <1>5 DEF Next

LEMMA ReviewedIsEarned ==
    ASSUME Rounds, Critiqued
    PROVE  AcceptedAdviceIsEarned
<1> SUFFICES ASSUME phase = "reviewed" PROVE AcceptedAdviceIsEarned
  BY DEF AcceptedAdviceIsEarned
<1> DEFINE evidence == ToSet(scene.evidence)
           chunks   == Sources
           index    == EvidenceIndex(evidence, chunks)
           value    == Value
           n        == Len(attempts)
           last     == attempts[n]
           verdicts == {CheckClaim(index, f.statement, f.kind, f.refs) : f \in value.findings}
<1>1. n \in Nat /\ (attempts # <<>> => n # 0) /\ MaxAttempts \in Nat \ {0}
  BY AttemptsAssumption DEF Rounds
<1>2. n \in 1 .. MaxAttempts /\ \A i \in 1 .. n - 1 : attempts[i].error # "none"
  BY <1>1 DEF Rounds, Critiqued, Answered
<1>3. Read(last)
  BY <1>2 DEF Rounds
<1>4. Answered => value = Parsed(last.text) /\ last.error = "none"
  BY DEF Answered, Value
<1>5. ~Answered => value = NoValue
  BY DEF Value
<1> HIDE DEF value, last, n
<1>6. Answered => value # NoValue /\ last.text[1] = Fitting(value) /\ IsValue(value)
  BY <1>3, <1>4, WhatParses DEF Read
<1>7. \A f \in value.findings : \A p \in f.statement : IsPhrase(p)
  BY <1>5, <1>6 DEF IsValue, NoValue
<1>8. \A e \in evidence : e.numbers \subseteq Int /\ \A p \in e.text : IsPhrase(p)
  BY ScenesAssumption DEF Rounds
<1> HIDE DEF evidence, chunks
<1>9. \A i \in CaseItems(index) : i.numbers \subseteq Int
  BY <1>8, CaseNumbers
<1> HIDE DEF index
<1>10. \A f \in value.findings : VerdictIsHonest(index, f.statement, f.kind, f.refs)
  BY <1>7, <1>9, VerdictsAreHonest
<1>11. CASE Answered
  <2>1. critique = CritiqueOf(evidence, chunks, value) /\ IsValue(value)
    BY <1>6, <1>11 DEF Critiqued, evidence, chunks, value
  <2>2. /\ critique.validated =>
               /\ \A r \in value.evidence : \E i \in index : i.ref = r.id
               /\ \A f \in value.findings : f.kind = "fact" /\ f.statement # {} =>
                      \A p \in f.statement : Told(p, Resolved(index, f.refs))
               /\ \A p \in value.summary : Told(p, CaseItems(index))
               /\ value.action = "CLEAR" => \A e \in evidence : ~ForcesReview(e.finding)
        /\ "unsupported" \in verdicts => critique.decision # "CLEAR" /\ ~critique.validated
    BY <2>1, CritiqueIsEarned, Zenon DEF index
  <2>3. QED
    BY <1>2, <1>6, <1>10, <1>11, <2>2, Zenon
       DEF AcceptedAdviceIsEarned, evidence, chunks, index, value, last, n
<1>12. CASE ~Answered
  <2>1. critique = Critique({e.finding : e \in evidence}, NoInvestigation)
    BY <1>12 DEF Critiqued, evidence
  <2>2. ~critique.validated
    BY <2>1 DEF Critique, Accepted
  <2>3. value = NoValue /\ verdicts = {}
    BY <1>5, <1>12 DEF NoValue
  <2>4. QED
    BY <1>2, <1>10, <1>12, <2>2, <2>3, Zenon
       DEF AcceptedAdviceIsEarned, evidence, chunks, index, value, last, n
<1>13. QED
  BY <1>11, <1>12

\* An investigation that is reviewed is what the last of at most MaxAttempts
\* answers said, and if it is accepted everything it cites exists and
\* everything it states is told by what it cites, for any model, any evidence
\* and any documents (structured.py:49-78, evidence_validator.py:262-404,
\* self_critique.py:43-102).
THEOREM AcceptanceIsEarned == Spec => []AcceptedAdviceIsEarned
<1>1. Init => Rounds /\ Critiqued
  <2>1. SUFFICES ASSUME Init PROVE Rounds /\ Critiqued
    OBVIOUS
  <2>2. scene \in Scenes /\ phase = "new" /\ attempts = <<>>
    BY <2>1 DEF Init
  <2>3. Rounds
    <3>1. attempts \in Seq({}) /\ Len(attempts) = 0
      BY <2>2
    <3>2. QED
      BY <2>2, <3>1, AttemptsAssumption DEF Rounds
  <2>4. QED
    BY <2>2, <2>3 DEF Critiqued
<1>2. QED
  BY <1>1, RoundsKept, CritiquedKept, ReviewedIsEarned, PTL DEF Spec
=============================================================================
