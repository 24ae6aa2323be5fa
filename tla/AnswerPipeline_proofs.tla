------------------------ MODULE AnswerPipeline_proofs ------------------------
(***************************************************************************)
(* A question that is answered without any evidence was really searched:   *)
(* no error of a search is taken for an empty answer.  The searches of the *)
(* single knowledge bases, merged, keep the best of all the evidence.  A   *)
(* model asked to rank a doubtful answer anew cannot save it.  And while   *)
(* the stores rest, what is cited was read.                                *)
(***************************************************************************)
EXTENDS AnswerPipeline, FiniteSetTheorems, WellFoundedInduction, TLAPS

(* What the argument needs of the types. *)
Sane ==
  /\ points \subseteq Chunks
  /\ "touched" \in DOMAIN rc
  /\ rc.pc \in Steps
  /\ rc.topK \in Nat \ {0}
  /\ rc.errs \in Nat

(* What an empty hand means while the searches run, and after them. *)
SearchedSoFar ==
  At("retrieve") /\ rc.hits = {} /\ rc.errs = 0 /\ Rested =>
    \A k \in rc.kbs \ rc.todo : Matching(k, points) = {}
Judging == {"chunks", "rerank", "assess", "cross", "generate", "record", "answered"}
SearchedAll == rc.pc \in Judging /\ rc.hits = {} /\ Rested => Candidates = {}

SearchInv == Sane /\ SearchedSoFar /\ SearchedAll

(* A search that returns nothing had nothing to return. *)
LEMMA EmptyAnswer ==
  ASSUME NEW S, IsFiniteSet(S), NEW n \in Nat \ {0}, NEW score,
         NEW s \in BestFirst(S, n, score), Range(s) = {}
  PROVE  S = {}
<1>1. Cardinality(S) \in Nat
  BY FS_CardinalityType
<1>2. s \in [1 .. Least(n, Cardinality(S)) -> S]
  BY DEF BestFirst
<1>3. 1 \notin 1 .. Least(n, Cardinality(S))
  BY <1>2 DEF Range
<1>4. Cardinality(S) = 0
  BY <1>1, <1>3 DEF Least
<1> QED
  BY <1>4, FS_EmptySet

LEMMA SearchInit == Init => SearchInv
BY OptionsAssumption DEF Init, SearchInv, Sane, SearchedSoFar, SearchedAll, NoRequest, Steps,
   At, Judging

(* The steps after the searches leave the hits and the stores alone. *)
LEMMA JudgingKeeps ==
  ASSUME SearchInv, rc.pc \in Judging, UNCHANGED stores,
         rc'.pc \in Judging \cup {"error"}, rc'.hits = rc.hits, rc'.kbs = rc.kbs,
         rc'.threshold = rc.threshold, rc'.touched = rc.touched,
         rc'.topK = rc.topK, rc'.errs = rc.errs, DOMAIN rc' = DOMAIN rc
  PROVE  SearchInv'
BY DEF SearchInv, Sane, SearchedSoFar, SearchedAll, At, Judging, Steps, stores, Rested,
   Candidates, Matching, MinScore

LEMMA SearchStep == SearchInv /\ [Next]_vars => SearchInv'
<1> SUFFICES ASSUME SearchInv, [Next]_vars PROVE SearchInv'
  OBVIOUS
<1> USE DEF SearchInv
<1>1. CASE Ask
  BY <1>1, OptionsAssumption DEF Ask, Sane, SearchedSoFar, SearchedAll, At, Judging, Steps,
     stores, NoRequest
<1>2. CASE Resolve
  <2>1. Sane' /\ SearchedSoFar'
    BY <1>2 DEF Resolve, Sane, SearchedSoFar, At, Steps, stores
  <2>2. SearchedAll'
    BY <1>2 DEF Resolve, SearchedAll, At, Judging, stores, Candidates
  <2> QED
    BY <2>1, <2>2
<1>3. CASE Embed
  BY <1>3 DEF Embed, Sane, SearchedSoFar, SearchedAll, At, Judging, Steps, stores
<1>4. ASSUME NEW k \in KBs, Search(k) PROVE SearchInv'
  <2>1. PICK found \in BestFirst(Matching(k, points), rc.topK, Similarity) :
          rc' = [rc EXCEPT !.todo = @ \ {k}, !.hits = @ \cup Range(found)]
    BY <1>4 DEF Search
  <2>2. At("retrieve") /\ UNCHANGED stores
    BY <1>4 DEF Search
  <2>3. Sane' /\ SearchedAll'
    BY <2>1, <2>2 DEF Sane, SearchedAll, At, Judging, Steps, stores
  <2>4. IsFiniteSet(Matching(k, points))
    BY ChunksAssumption, FS_Subset DEF Sane, Matching
  <2>5. rc'.hits = {} => Matching(k, points) = {}
    <3> SUFFICES ASSUME rc'.hits = {} PROVE Matching(k, points) = {}
      OBVIOUS
    <3> DEFINE S == Matching(k, points)
               n == rc.topK
    <3>1. found \in BestFirst(S, n, Similarity)
      BY <2>1
    <3>2. rc'.hits = rc.hits \cup Range(found)
      BY <2>1 DEF Sane
    <3>3. Range(found) = {}
      BY <3>2
    <3>4. IsFiniteSet(S) /\ n \in Nat \ {0}
      BY <2>4 DEF Sane
    <3> HIDE DEF S, n
    <3>5. S = {}
      BY <3>1, <3>3, <3>4, EmptyAnswer
    <3> QED
      BY <3>5 DEF S
  <2>6. SearchedSoFar'
    BY <2>1, <2>2, <2>5 DEF SearchedSoFar, At, stores, Rested, Matching, MinScore
  <2> QED
    BY <2>3, <2>6
<1>5. ASSUME NEW k \in KBs, SearchFails(k) PROVE SearchInv'
  BY <1>5 DEF SearchFails, Sane, SearchedSoFar, SearchedAll, At, Judging, Steps, stores
<1>6. CASE Gather
  <2>1. CASE rc.hits = {} /\ rc.errs > 0
    <3>1. rc' = [rc EXCEPT !.pc = "error"] /\ UNCHANGED stores
      BY <1>6, <2>1 DEF Gather
    <3> QED
      BY <3>1 DEF Sane, SearchedSoFar, SearchedAll, At, Judging, Steps, stores
  <2>2. CASE ~ (rc.hits = {} /\ rc.errs > 0)
    <3>1. PICK s : rc' = [rc EXCEPT !.ranked = s, !.pc = IF s = <<>> THEN "assess" ELSE "chunks"]
      BY <1>6, <2>2 DEF Gather
    <3>2. At("retrieve") /\ rc.todo = {} /\ UNCHANGED stores
      BY <1>6 DEF Gather
    <3>3. Sane' /\ SearchedSoFar'
      BY <3>1, <3>2 DEF Sane, SearchedSoFar, At, Steps, stores
    <3>4. SearchedAll'
      <4> SUFFICES ASSUME rc.hits = {}, Rested PROVE Candidates = {}
        BY <3>1, <3>2 DEF SearchedAll, At, stores, Rested, Candidates, Matching, MinScore
      <4>1. \A k \in rc.kbs : Matching(k, points) = {}
        BY <2>2, <3>2 DEF Sane, SearchedSoFar
      <4> QED
        BY <4>1 DEF Candidates
    <3> QED
      BY <3>3, <3>4
  <2> QED
    BY <2>1, <2>2
<1>7. CASE LoadChunks
  BY <1>7, JudgingKeeps DEF LoadChunks, At, Judging
<1>8. CASE Rerank
  BY <1>8, JudgingKeeps DEF Rerank, At, Judging
<1>9. CASE Assess \/ CrossRerank \/ CrossFails \/ Generate \/ Record
  <2>1. CASE Assess
    BY <2>1, JudgingKeeps DEF Assess, Judged, At, Judging
  <2>2. CASE CrossRerank
    BY <2>2, JudgingKeeps DEF CrossRerank, Judged, At, Judging
  <2>3. CASE CrossFails
    BY <2>3, JudgingKeeps DEF CrossFails, Judged, At, Judging
  <2>4. CASE Generate
    BY <2>4, JudgingKeeps DEF Generate, At, Judging
  <2>5. CASE Record
    BY <2>5, JudgingKeeps DEF Record, At, Judging
  <2> QED
    BY <1>9, <2>1, <2>2, <2>3, <2>4, <2>5
<1>10. CASE CallFails
  BY <1>10 DEF CallFails, Sane, SearchedSoFar, SearchedAll, At, Judging, Steps, stores
<1>11. CASE Return
  BY <1>11, OptionsAssumption DEF Return, Sane, SearchedSoFar, SearchedAll, At, Judging, Steps,
     stores, NoRequest
<1>12. CASE World
  <2>1. rc' = [rc EXCEPT !.touched = ~ At("idle")]
    BY <1>12 DEF World, Change
  <2>2. points' \subseteq Chunks
    BY <1>12 DEF World, Sane, IndexPoint, IndexRow, CleanRow, CleanPoint, Bind, Unbind
  <2>3. CASE At("idle")
    BY <2>1, <2>2, <2>3 DEF Sane, SearchedSoFar, SearchedAll, At, Judging, Steps
  <2>4. CASE ~ At("idle")
    <3>1. rc'.touched
      BY <2>1, <2>4 DEF Sane, At
    <3>2. rc'.pc = rc.pc /\ rc'.topK = rc.topK /\ rc'.errs = rc.errs /\ DOMAIN rc' = DOMAIN rc
      BY <2>1
    <3> QED
      BY <2>2, <3>1, <3>2 DEF Sane, SearchedSoFar, SearchedAll, Rested
  <2> QED
    BY <2>3, <2>4
<1>13. CASE UNCHANGED vars
  BY <1>13 DEF vars, Sane, SearchedSoFar, SearchedAll, At, Rested, Candidates, Matching, MinScore
<1> QED
  BY <1>1, <1>2, <1>3, <1>4, <1>5, <1>6, <1>7, <1>8, <1>9, <1>10, <1>11, <1>12, <1>13
     DEF Next, Answering

(* A customer is told that nothing is known only when the bot's knowledge   *)
(* bases held nothing above the threshold (steps_retrieve.go).              *)
THEOREM IgnoranceIsHonest == Spec => []NothingFoundIsNothingThere
<1>1. SearchInv => NothingFoundIsNothingThere
  BY DEF SearchInv, SearchedAll, NothingFoundIsNothingThere, At, Judging
<1> QED
  BY <1>1, SearchInit, SearchStep, PTL DEF Spec

-----------------------------------------------------------------------------
(* What is kept of the evidence is the best of it: each knowledge base      *)
(* returned its own best, so whatever was left behind is outdone by what    *)
(* the same base returned.                                                  *)

(* An answer of a search: so many of the best. *)
LEMMA BestAnswer ==
  ASSUME NEW S, IsFiniteSet(S), NEW n \in Nat \ {0}, NEW score, NEW s \in BestFirst(S, n, score)
  PROVE  /\ Range(s) \subseteq S
         /\ Cardinality(Range(s)) = Least(n, Cardinality(S))
         /\ \A c \in Range(s), d \in S \ Range(s) : score[c] >= score[d]
<1> DEFINE m == Least(n, Cardinality(S))
<1>1. m \in Nat
  BY FS_CardinalityType DEF Least
<1>2. s \in [1 .. m -> S] /\ IsInjective(s) /\ \A c \in S \ Range(s), i \in DOMAIN s : score[s[i]] >= score[c]
  BY DEF BestFirst
<1>3. s \in Bijection(1 .. m, Range(s))
  BY <1>2 DEF Bijection, Injection, Surjection, IsInjective, Range
<1>4. IsFiniteSet(1 .. m) /\ Cardinality(1 .. m) = m
  BY <1>1, FS_Interval
<1>5. Cardinality(Range(s)) = m
  BY <1>3, <1>4, FS_Bijection DEF ExistsBijection
<1> QED
  BY <1>2, <1>5 DEF Range

(* What the searches of k returned: its best. *)
Kept(k) == rc.hits \cap Matching(k, points)
BestOf(k) ==
  /\ Cardinality(Kept(k)) = Least(rc.topK, Cardinality(Matching(k, points)))
  /\ \A c \in Kept(k), d \in Matching(k, points) \ Kept(k) : Similarity[c] >= Similarity[d]

LEMMA Heavier ==
  ASSUME NEW a \in Nat, NEW b \in Nat, NEW w \in Nat, a >= b
  PROVE  a * w >= b * w
OBVIOUS

LEMMA BestOfAll ==
  ASSUME points \subseteq Chunks, rc.topK \in Nat \ {0}, rc.kbs \subseteq KBs,
         rc.hits \subseteq Candidates, \A k \in rc.kbs : BestOf(k),
         NEW s \in BestFirst(rc.hits, rc.topK, VectorScore)
  PROVE  /\ Cardinality(Range(s)) = Least(rc.topK, Cardinality(Candidates))
         /\ \A c \in Range(s), d \in Candidates \ Range(s) : VectorScore[c] >= VectorScore[d]
<1> DEFINE n == rc.topK
<1>1. Candidates \subseteq Chunks /\ \A k \in rc.kbs : Matching(k, points) \subseteq Candidates
  BY DEF Candidates, Matching
<1>2. \A S \in SUBSET Chunks : IsFiniteSet(S) /\ Cardinality(S) \in Nat
  BY ChunksAssumption, FS_Subset, FS_CardinalityType
<1>3. /\ Range(s) \subseteq rc.hits /\ Cardinality(Range(s)) = Least(n, Cardinality(rc.hits))
      /\ \A c \in Range(s), d \in rc.hits \ Range(s) : VectorScore[c] >= VectorScore[d]
  BY <1>1, <1>2, BestAnswer
(* a base that left something behind returned as much as was asked *)
<1>4. ASSUME NEW k \in rc.kbs, NEW d \in Matching(k, points) \ rc.hits
      PROVE  Cardinality(Kept(k)) = n
  <2>1. Kept(k) \subseteq Matching(k, points) /\ Kept(k) # Matching(k, points)
    BY <1>4 DEF Kept
  <2>2. Cardinality(Kept(k)) # Cardinality(Matching(k, points))
    BY <1>1, <1>2, <2>1, FS_Subset
  <2> QED
    BY <2>2 DEF BestOf, Least
<1>5. Cardinality(Range(s)) = Least(n, Cardinality(Candidates))
  <2>1. CASE Candidates \subseteq rc.hits
    <3>1. rc.hits = Candidates
      BY <2>1
    <3> QED
      BY <1>3, <3>1
  <2>2. CASE ~ (Candidates \subseteq rc.hits)
    <3>1. PICK k \in rc.kbs : \E d \in Matching(k, points) : d \notin rc.hits
      BY <2>2 DEF Candidates
    <3>2. Cardinality(Kept(k)) = n
      BY <1>4, <3>1
    <3>3. Kept(k) \subseteq rc.hits /\ rc.hits \subseteq Chunks
      BY <1>1 DEF Kept
    <3>4. Cardinality(rc.hits) >= n /\ Cardinality(Candidates) >= Cardinality(rc.hits)
      BY <1>1, <1>2, <3>2, <3>3, FS_Subset
    <3> QED
      BY <1>1, <1>2, <1>3, <3>3, <3>4 DEF Least
  <2> QED
    BY <2>1, <2>2
<1>6. \A c \in Chunks : VectorScore[c] \in Nat
  BY ChunksAssumption DEF VectorScore, WeightOf, Percents
<1>7. ASSUME NEW c \in Range(s), NEW d \in Candidates \ Range(s) PROVE VectorScore[c] >= VectorScore[d]
  <2>1. CASE d \in rc.hits
    BY <1>3, <2>1
  <2>2. CASE d \notin rc.hits
    <3>1. PICK k \in rc.kbs : d \in Matching(k, points)
      BY DEF Candidates
    <3>2. Cardinality(Kept(k)) = n
      BY <1>4, <2>2, <3>1
    (* what its own base returned outdoes it *)
    <3>3. ASSUME NEW h \in Kept(k) PROVE VectorScore[h] >= VectorScore[d]
      <4>1. Similarity[h] >= Similarity[d]
        BY <2>2, <3>1, <3>3 DEF BestOf, Kept
      <4>2. /\ h \in Chunks /\ d \in Chunks /\ KBOf[h] = k /\ KBOf[d] = k /\ k \in KBs
            /\ Similarity[h] \in Nat /\ Similarity[d] \in Nat /\ WeightOf(k) \in Nat
        BY <3>1, <3>3, ChunksAssumption DEF Kept, Matching, WeightOf, Percents
      <4>3. Similarity[h] * WeightOf(k) >= Similarity[d] * WeightOf(k)
        BY <4>1, <4>2, Heavier
      <4> QED
        BY <4>2, <4>3 DEF VectorScore
    <3>4. CASE Kept(k) \subseteq Range(s)
      <4>1. Range(s) \subseteq Chunks /\ Cardinality(Range(s)) <= n
        BY <1>1, <1>2, <1>3 DEF Least
      <4>2. Cardinality(Kept(k)) = Cardinality(Range(s))
        BY <1>2, <3>2, <3>4, <4>1, FS_Subset
      <4>3. Kept(k) = Range(s)
        BY <1>2, <3>4, <4>1, <4>2, FS_Subset
      <4> QED
        BY <3>3, <4>3
    <3>5. CASE ~ (Kept(k) \subseteq Range(s))
      <4>1. PICK h \in Kept(k) : h \in rc.hits \ Range(s)
        BY <3>5 DEF Kept
      <4>2. VectorScore[c] >= VectorScore[h] /\ VectorScore[h] >= VectorScore[d]
        BY <1>3, <3>3, <4>1
      <4>3. c \in Chunks /\ h \in Chunks /\ d \in Chunks
        BY <1>1, <1>3, <4>1
      <4> QED
        BY <1>6, <4>2, <4>3
    <3> QED
      BY <3>4, <3>5
  <2> QED
    BY <2>1, <2>2
<1> QED
  BY <1>5, <1>7

Asked ==
  /\ DOMAIN rc = DOMAIN NoRequest
  /\ bound \subseteq KBs /\ rc.kbs \subseteq KBs /\ rc.todo \subseteq rc.kbs
  /\ rc.pc \in {"resolve", "embed"} => rc.hits = {} /\ rc.todo = {}

(* The searches that ended returned the best of their bases. *)
BestSoFar ==
  At("retrieve") /\ Rested /\ rc.errs = 0 =>
    /\ rc.hits \subseteq UNION {Matching(k, points) : k \in rc.kbs \ rc.todo}
    /\ \A k \in rc.kbs \ rc.todo : BestOf(k)

EvidenceInv == Sane /\ Asked /\ BestSoFar /\ BestEvidenceKept

LEMMA FieldNames ==
  {"pc", "topK", "threshold", "session", "kbs", "todo", "hits", "errs", "ranked", "loaded",
   "confidence", "crossed", "refused", "saved", "failures", "touched"} = DOMAIN NoRequest
BY DEF NoRequest

LEMMA EvidenceInit == Init => EvidenceInv
BY SearchInit DEF Init, EvidenceInv, SearchInv, Asked, BestSoFar, BestEvidenceKept, NoRequest, At

(* Outside the search nothing is promised. *)
LEMMA ElsewhereKeeps ==
  ASSUME Sane', DOMAIN rc' = DOMAIN NoRequest, bound' \subseteq KBs, rc'.kbs \subseteq KBs,
         rc'.todo \subseteq rc'.kbs,
         rc'.pc \in {"resolve", "embed"} => rc'.hits = {} /\ rc'.todo = {},
         rc'.pc \notin {"retrieve", "chunks", "rerank"} \/ rc'.touched
  PROVE  EvidenceInv'
BY DEF EvidenceInv, Asked, BestSoFar, BestEvidenceKept, At, Rested

(* The search of k changes what was returned by k alone. *)
LEMMA SearchKeeps ==
  ASSUME EvidenceInv, NEW k \in KBs, Search(k)
  PROVE  BestSoFar'
<1>1. PICK found \in BestFirst(Matching(k, points), rc.topK, Similarity) :
        rc' = [rc EXCEPT !.todo = @ \ {k}, !.hits = @ \cup Range(found)]
  BY DEF Search
<1>2. /\ rc'.todo = rc.todo \ {k} /\ rc'.hits = rc.hits \cup Range(found)
      /\ rc'.topK = rc.topK /\ rc'.kbs = rc.kbs /\ rc'.errs = rc.errs /\ rc'.touched = rc.touched
      /\ rc'.threshold = rc.threshold /\ points' = points /\ At("retrieve") /\ k \in rc.todo
  BY <1>1, FieldNames DEF EvidenceInv, Asked, Search, stores
<1>3. \A j : Matching(j, points)' = Matching(j, points)
  BY <1>2 DEF Matching, MinScore
<1> SUFFICES ASSUME Rested, rc.errs = 0
             PROVE  /\ rc'.hits \subseteq UNION {Matching(j, points) : j \in rc.kbs \ rc'.todo}
                    /\ \A j \in rc.kbs \ rc'.todo : BestOf(j)'
  BY <1>2, <1>3 DEF BestSoFar, Rested
<1>4. /\ Range(found) \subseteq Matching(k, points)
      /\ Cardinality(Range(found)) = Least(rc.topK, Cardinality(Matching(k, points)))
      /\ \A c \in Range(found), d \in Matching(k, points) \ Range(found) : Similarity[c] >= Similarity[d]
  <2>1. IsFiniteSet(Matching(k, points)) /\ rc.topK \in Nat \ {0}
    BY ChunksAssumption, FS_Subset DEF EvidenceInv, Sane, Matching
  <2> QED
    BY <2>1, BestAnswer
<1>5. /\ rc.hits \subseteq UNION {Matching(j, points) : j \in rc.kbs \ rc.todo}
      /\ \A j \in rc.kbs \ rc.todo : BestOf(j)
  BY <1>2 DEF EvidenceInv, BestSoFar
<1>6. k \in rc.kbs /\ rc.kbs \ rc'.todo = (rc.kbs \ rc.todo) \cup {k}
  BY <1>2 DEF EvidenceInv, Asked
<1>7. rc'.hits \subseteq UNION {Matching(j, points) : j \in rc.kbs \ rc'.todo}
  BY <1>2, <1>4, <1>5, <1>6
(* the bases have no chunk in common *)
<1>8. Kept(k)' = Range(found)
  <2>1. rc.hits \cap Matching(k, points) = {}
    BY <1>2, <1>5 DEF Matching
  <2> QED
    BY <1>2, <1>3, <1>4, <2>1 DEF Kept
<1>9. ASSUME NEW j \in rc.kbs \ rc.todo PROVE Kept(j)' = Kept(j)
  <2>1. Range(found) \cap Matching(j, points) = {}
    BY <1>2, <1>4 DEF Matching
  <2> QED
    BY <1>2, <1>3, <2>1 DEF Kept
<1>10. ASSUME NEW j \in rc.kbs \ rc'.todo PROVE BestOf(j)'
  <2>1. CASE j = k
    BY <1>2, <1>3, <1>4, <1>8, <2>1 DEF BestOf
  <2>2. CASE j # k
    <3>1. j \in rc.kbs \ rc.todo
      BY <1>2, <2>2
    <3> QED
      BY <1>2, <1>3, <1>5, <1>9, <3>1 DEF BestOf
  <2> QED
    BY <2>1, <2>2
<1> QED
  BY <1>7, <1>10

LEMMA GatherKeeps ==
  ASSUME EvidenceInv, Gather
  PROVE  BestEvidenceKept'
<1>1. At("retrieve") /\ rc.todo = {} /\ points' = points
  BY DEF Gather, stores
<1> SUFFICES ASSUME rc'.pc \in {"chunks", "rerank"}, Rested', rc'.errs = 0 PROVE BestEvidenceKept'
  BY DEF BestEvidenceKept
<1>2. PICK s \in BestFirst(rc.hits, rc.topK, VectorScore) :
        rc' = [rc EXCEPT !.ranked = s, !.pc = IF s = <<>> THEN "assess" ELSE "chunks"]
  <2>1. ~ (rc.hits = {} /\ rc.errs > 0)
    BY FieldNames DEF Gather, EvidenceInv, Asked
  <2> QED
    BY <2>1 DEF Gather
<1>3. /\ rc'.ranked = s /\ rc'.topK = rc.topK /\ rc'.kbs = rc.kbs /\ rc'.threshold = rc.threshold
      /\ rc'.errs = rc.errs /\ rc'.touched = rc.touched
  BY <1>2, FieldNames DEF EvidenceInv, Asked
<1>4. Candidates' = Candidates
  BY <1>1, <1>3 DEF Candidates, Matching, MinScore
<1>5. rc.hits \subseteq Candidates /\ \A k \in rc.kbs : BestOf(k)
  BY <1>1, <1>3 DEF EvidenceInv, BestSoFar, Rested, Candidates
<1>6. /\ Cardinality(Range(s)) = Least(rc.topK, Cardinality(Candidates))
      /\ \A c \in Range(s), d \in Candidates \ Range(s) : VectorScore[c] >= VectorScore[d]
  BY <1>5, BestOfAll DEF EvidenceInv, Sane, Asked
<1> QED
  BY <1>3, <1>4, <1>6 DEF BestEvidenceKept

LEMMA EvidenceStep == EvidenceInv /\ SearchInv /\ [Next]_vars => EvidenceInv'
<1> SUFFICES ASSUME EvidenceInv, SearchInv, [Next]_vars PROVE EvidenceInv'
  OBVIOUS
<1>1. Sane' /\ Sane /\ Asked /\ BestSoFar /\ BestEvidenceKept
  BY SearchStep DEF SearchInv, EvidenceInv
<1> USE FieldNames
<1>2. CASE Ask \/ Return
  <2>1. /\ rc'.pc \in {"resolve", "idle"} /\ rc'.kbs = {} /\ rc'.todo = {} /\ rc'.hits = {}
        /\ DOMAIN rc' = DOMAIN NoRequest /\ bound' = bound
    <3>1. CASE Ask
      <4>1. PICK k \in TopKs, t \in Thresholds, b \in BOOLEAN :
               rc' = [NoRequest EXCEPT !.pc = "resolve", !.topK = k, !.threshold = t,
                                       !.session = b, !.touched = rows # points]
        BY <3>1 DEF Ask
      <4>2. NoRequest.kbs = {} /\ NoRequest.todo = {} /\ NoRequest.hits = {}
        BY DEF NoRequest
      <4>3. bound' = bound
        BY <3>1 DEF Ask, stores
      <4> QED
        BY <4>1, <4>2, <4>3
    <3>2. CASE Return
      BY <3>2 DEF Return, NoRequest, stores
    <3> QED
      BY <1>2, <3>1, <3>2
  <2> QED
    BY <1>1, <2>1, ElsewhereKeeps DEF Asked
<1>3. CASE Resolve
  <2>1. /\ rc'.pc \in {"assess", "embed"} /\ rc'.kbs = bound /\ rc'.todo = rc.todo /\ rc'.hits = {}
        /\ DOMAIN rc' = DOMAIN NoRequest /\ bound' = bound
    BY <1>1, <1>3 DEF Resolve, Asked, At, stores
  <2>2. rc.todo = {}
    BY <1>1, <1>3 DEF Asked, Resolve, At
  <2> QED
    BY <1>1, <2>1, <2>2, ElsewhereKeeps DEF Asked
<1>4. CASE Embed
  <2>1. /\ rc'.pc = "retrieve" /\ rc'.todo = rc.kbs /\ rc'.kbs = rc.kbs /\ rc'.hits = {}
        /\ DOMAIN rc' = DOMAIN NoRequest /\ bound' = bound
    BY <1>1, <1>4 DEF Embed, Asked, At, stores
  <2> QED
    BY <1>1, <2>1 DEF EvidenceInv, Asked, BestSoFar, BestEvidenceKept
<1>5. ASSUME NEW k \in KBs, Search(k) PROVE EvidenceInv'
  <2>1. Asked' /\ rc'.pc = "retrieve"
    BY <1>1, <1>5 DEF Search, Asked, At, stores
  <2> QED
    BY <1>1, <1>5, <2>1, SearchKeeps DEF EvidenceInv, BestEvidenceKept
<1>6. ASSUME NEW k \in KBs, SearchFails(k) PROVE EvidenceInv'
  <2>1. Asked' /\ rc'.pc = "retrieve" /\ rc'.errs = rc.errs + 1
    BY <1>1, <1>6 DEF SearchFails, Asked, At, stores
  <2> QED
    BY <1>1, <2>1 DEF EvidenceInv, BestEvidenceKept, BestSoFar, Sane
<1>7. CASE Gather
  <2>1. Asked' /\ rc'.pc \in {"error", "assess", "chunks"}
    BY <1>1, <1>7 DEF Gather, Asked, stores
  <2> QED
    BY <1>1, <1>7, <2>1, GatherKeeps DEF EvidenceInv, BestSoFar, At
<1>8. CASE LoadChunks
  <2>1. /\ Asked' /\ rc'.pc = "rerank" /\ At("chunks") /\ points' = points
        /\ rc'.ranked = rc.ranked /\ rc'.topK = rc.topK /\ rc'.kbs = rc.kbs
        /\ rc'.threshold = rc.threshold /\ rc'.errs = rc.errs /\ rc'.touched = rc.touched
    BY <1>1, <1>8 DEF LoadChunks, Asked, stores, At
  <2>2. Candidates' = Candidates
    BY <2>1 DEF Candidates, Matching, MinScore
  <2> QED
    BY <1>1, <2>1, <2>2 DEF EvidenceInv, BestSoFar, BestEvidenceKept, At, Rested
<1>9. CASE Rerank \/ Assess \/ CrossRerank \/ CrossFails
  <2>1. /\ rc'.pc \in {"assess", "cross", "record", "generate"} /\ rc'.kbs = rc.kbs /\ rc'.todo = rc.todo
        /\ DOMAIN rc' = DOMAIN NoRequest /\ bound' = bound
    <3>1. CASE Rerank
      BY <1>1, <3>1 DEF Rerank, Asked, stores
    <3>2. CASE Assess
      BY <1>1, <3>2 DEF Assess, Judged, Asked, stores
    <3>3. CASE CrossRerank
      BY <1>1, <3>3 DEF CrossRerank, Judged, Asked, stores
    <3>4. CASE CrossFails
      BY <1>1, <3>4 DEF CrossFails, Judged, Asked, stores
    <3> QED
      BY <1>9, <3>1, <3>2, <3>3, <3>4
  <2> QED
    BY <1>1, <2>1, ElsewhereKeeps DEF Asked
<1>10. CASE Generate \/ Record \/ CallFails
  <2>1. CASE Generate
    BY <1>1, <2>1, ElsewhereKeeps DEF Generate, Asked, stores, At
  <2>2. CASE Record
    BY <1>1, <2>2, ElsewhereKeeps DEF Record, Asked, stores, At
  <2>3. CASE CallFails
    BY <1>1, <2>3, ElsewhereKeeps DEF CallFails, Asked, stores, At
  <2> QED
    BY <1>10, <2>1, <2>2, <2>3
<1>11. CASE World
  <2>1. /\ rc'.touched = (~ At("idle")) /\ rc'.pc = rc.pc /\ rc'.kbs = rc.kbs /\ rc'.todo = rc.todo
        /\ rc'.hits = rc.hits /\ DOMAIN rc' = DOMAIN rc
    BY <1>1, <1>11 DEF World, Change, Asked
  <2>2. bound' \subseteq KBs
    BY <1>1, <1>11 DEF World, Asked, IndexPoint, IndexRow, CleanRow, CleanPoint, Bind, Unbind
  <2> QED
    BY <1>1, <2>1, <2>2, ElsewhereKeeps DEF Asked, At
<1>12. CASE UNCHANGED vars
  <2>1. rc' = rc /\ points' = points /\ bound' = bound
    BY <1>12 DEF vars
  <2>2. Candidates' = Candidates /\ \A k : Matching(k, points)' = Matching(k, points)
    BY <2>1 DEF Candidates, Matching, MinScore
  <2> QED
    BY <1>1, <2>1, <2>2 DEF EvidenceInv, Asked, BestSoFar, BestEvidenceKept, BestOf, Kept, At, Rested
<1> QED
  BY <1>2, <1>3, <1>4, <1>5, <1>6, <1>7, <1>8, <1>9, <1>10, <1>11, <1>12 DEF Next, Answering

(* Searching every knowledge base for its own best by the similarity alone, *)
(* and merging the answers under the weights of the bindings, keeps the     *)
(* best of all the evidence: as many as there are up to TopK, none outdone  *)
(* by what was left behind (steps_retrieve.go, scoring.go).                 *)
THEOREM MergeLosesNothing == Spec => []BestEvidenceKept
<1>1. Init => EvidenceInv /\ SearchInv
  BY EvidenceInit, SearchInit
<1>2. EvidenceInv /\ SearchInv /\ [Next]_vars => (EvidenceInv /\ SearchInv)'
  BY EvidenceStep, SearchStep
<1>3. EvidenceInv => BestEvidenceKept
  BY DEF EvidenceInv
<1> QED
  BY <1>1, <1>2, <1>3, PTL DEF Spec

-----------------------------------------------------------------------------
(* Sorting, filtering and reordering: what they keep, and what the sorted   *)
(* order is worth.                                                          *)

(* Counting the elements that come up to one puts a finite set in order.    *)
RankIn(I, upto) == [i \in I |-> Cardinality(upto[i])]
Linear(I, upto) ==
  /\ upto \in [I -> SUBSET I]
  /\ \A i \in I : i \in upto[i]
  /\ \A i, j \in I : i \in upto[j] \/ j \in upto[i]
  /\ \A i, j \in I : i \in upto[j] /\ j \in upto[i] => i = j
  /\ \A i, j \in I : i \in upto[j] => upto[i] \subseteq upto[j]

LEMMA RankIsPlace ==
  ASSUME NEW I, IsFiniteSet(I), NEW upto, Linear(I, upto)
  PROVE  /\ RankIn(I, upto) \in Bijection(I, 1 .. Cardinality(I))
         /\ \A i, j \in I : RankIn(I, upto)[i] <= RankIn(I, upto)[j] => i \in upto[j]
<1> DEFINE rank == RankIn(I, upto)
           n == Cardinality(I)
<1>1. n \in Nat
  BY FS_CardinalityType
<1>2. \A i \in I : upto[i] \in SUBSET I /\ IsFiniteSet(upto[i]) /\ Cardinality(upto[i]) \in Nat
  BY FS_Subset, FS_CardinalityType DEF Linear
<1>3. \A i \in I : rank[i] = Cardinality(upto[i])
  BY DEF RankIn
<1>4. ASSUME NEW i \in I PROVE rank[i] \in 1 .. n
  <2>1. upto[i] # {}
    BY DEF Linear
  <2>2. Cardinality(upto[i]) <= n
    BY <1>2, FS_Subset
  <2>3. Cardinality(upto[i]) # 0
    BY <1>2, <2>1, FS_EmptySet
  <2> HIDE DEF rank, n
  <2> QED
    BY <1>1, <1>2, <1>3, <2>2, <2>3
<1>5. ASSUME NEW i \in I, NEW j \in I, i \notin upto[j] PROVE rank[j] < rank[i]
  <2>1. upto[j] \in SUBSET upto[i] /\ upto[j] # upto[i]
    BY <1>5 DEF Linear
  <2>2. Cardinality(upto[j]) <= Cardinality(upto[i]) /\ Cardinality(upto[j]) # Cardinality(upto[i])
    BY <1>2, <2>1, FS_Subset
  <2> HIDE DEF rank
  <2> QED
    BY <1>2, <1>3, <2>2
<1>6. \A i, j \in I : rank[i] <= rank[j] => i \in upto[j]
  <2> HIDE DEF rank, n
  <2> SUFFICES ASSUME NEW i \in I, NEW j \in I, rank[i] <= rank[j], i \notin upto[j] PROVE FALSE
    OBVIOUS
  <2>1. rank[j] < rank[i]
    BY <1>5
  <2> QED
    BY <1>1, <1>4, <2>1
<1>7. rank \in Injection(I, 1 .. n)
  <2>1. rank \in [I -> 1 .. n]
    BY <1>4 DEF RankIn
  <2>2. ASSUME NEW i \in I, NEW j \in I, rank[i] = rank[j] PROVE i = j
    <3>1. rank[i] <= rank[j] /\ rank[j] <= rank[i]
      <4> HIDE DEF rank, n
      <4> QED
        BY <1>1, <1>4, <2>2
    <3> QED
      BY <1>6, <3>1 DEF Linear
  <2> QED
    BY <2>1, <2>2 DEF Injection, IsInjective
<1>8. rank \in Surjection(I, 1 .. n)
  <2>1. IsFiniteSet(1 .. n) /\ Cardinality(1 .. n) = n
    BY <1>1, FS_Interval
  <2> QED
    BY <1>7, <2>1, FS_Injection
<1> QED
  BY <1>6, <1>7, <1>8 DEF Bijection

(* What ByRank does when the numbers are 1 to n. *)
LEMMA ByRankPermutes ==
  ASSUME NEW I, IsFiniteSet(I), NEW rank \in Bijection(I, 1 .. Cardinality(I)), NEW s
  PROVE  /\ DOMAIN ByRank(s, rank) = 1 .. Cardinality(I) /\ Cardinality(I) \in Nat
         /\ \A p \in 1 .. Cardinality(I) : \E i \in I : rank[i] = p /\ ByRank(s, rank)[p] = s[i]
         /\ \A i \in I : rank[i] \in 1 .. Cardinality(I) /\ ByRank(s, rank)[rank[i]] = s[i]
<1> DEFINE n == Cardinality(I)
<1>1. n \in Nat BY FS_CardinalityType
<1>2. /\ DOMAIN rank = I /\ rank \in [I -> 1 .. n]
      /\ \A i, j \in I : rank[i] = rank[j] => i = j
      /\ \A p \in 1 .. n : \E i \in I : rank[i] = p
  BY DEF Bijection, Injection, Surjection, IsInjective
<1>3. ByRank(s, rank) = [p \in 1 .. n |-> s[CHOOSE i \in I : rank[i] = p]]
  BY <1>2 DEF ByRank
<1>4. ASSUME NEW p \in 1 .. n
      PROVE  \E i \in I : rank[i] = p /\ ByRank(s, rank)[p] = s[i]
  <2> DEFINE c == CHOOSE i \in I : rank[i] = p
  <2>1. c \in I /\ rank[c] = p BY <1>2
  <2>2. ByRank(s, rank)[p] = s[c] BY <1>3
  <2> QED BY <2>1, <2>2
<1>5. ASSUME NEW i \in I PROVE rank[i] \in 1 .. n /\ ByRank(s, rank)[rank[i]] = s[i]
  <2>1. rank[i] \in 1 .. n BY <1>2
  <2>2. PICK j \in I : rank[j] = rank[i] /\ ByRank(s, rank)[rank[i]] = s[j] BY <1>4, <2>1
  <2>3. j = i BY <1>2, <2>2
  <2> QED BY <2>1, <2>2, <2>3
<1>6. DOMAIN ByRank(s, rank) = 1 .. n BY <1>3
<1> QED BY <1>1, <1>4, <1>5, <1>6

(* The order of the ranking: better scores first, equal ones as they were.  *)
Ahead(s) ==
  [i \in DOMAIN s |->
     {j \in DOMAIN s : \/ CombinedScore(s[j]) > CombinedScore(s[i])
                       \/ CombinedScore(s[j]) = CombinedScore(s[i]) /\ j <= i}]
Descending(s) == \A i, j \in DOMAIN s : i <= j => CombinedScore(s[i]) >= CombinedScore(s[j])

LEMMA ScoresAreNumbers ==
  ASSUME NEW c \in Chunks
  PROVE  CombinedScore(c) \in Nat
<1>1. VectorScore[c] \in Nat
  BY ChunksAssumption DEF VectorScore, WeightOf, Percents
<1>2. TextScore(c) \in Nat
  BY ChunksAssumption DEF TextScore
<1>3. RerankWeight \in 0 .. 100
  BY OptionsAssumption DEF Percents
<1> DEFINE v == VectorScore[c]
           t == TextScore(c)
           w == RerankWeight
<1>4. v * (100 - w) \in Nat /\ t * w \in Nat
  <2>1. 100 - w \in Nat /\ w \in Nat BY <1>3
  <2>2. \A a, b \in Nat : a * b \in Nat OBVIOUS
  <2> HIDE DEF v, t, w
  <2> QED BY <1>1, <1>2, <2>1, <2>2 DEF v, t
<1>5. \A a \in Nat : a \div 100 \in Nat OBVIOUS
<1>6. \A a, b \in Nat : a + b \in Nat OBVIOUS
<1> QED BY <1>4, <1>5, <1>6 DEF CombinedScore

LEMMA SortedIsDescending ==
  ASSUME NEW s \in Seq(Chunks)
  PROVE  /\ Sorted(s) \in Seq(Chunks) /\ Len(Sorted(s)) = Len(s)
         /\ Range(Sorted(s)) = Range(s)
         /\ Descending(Sorted(s))
         /\ IsInjective(s) => IsInjective(Sorted(s))
<1> DEFINE I == DOMAIN s
           R == Ahead(s)
           n == Len(s)
           rank == RankIn(I, R)
           r == Sorted(s)
<1>1. I = 1 .. n /\ n \in Nat /\ \A i \in I : s[i] \in Chunks
  OBVIOUS
<1>2. IsFiniteSet(I) /\ Cardinality(I) = n
  BY <1>1, FS_Interval, SMTT(30)
<1>3. \A i \in I : CombinedScore(s[i]) \in Nat /\ i \in Nat
  BY <1>1, ScoresAreNumbers
<1> DEFINE score == [i \in I |-> CombinedScore(s[i])]
<1>4. /\ \A i \in I : score[i] = CombinedScore(s[i]) /\ score[i] \in Nat /\ i \in Nat
      /\ \A i \in I : R[i] = {j \in I : score[j] > score[i] \/ (score[j] = score[i] /\ j <= i)}
      /\ R \in [I -> SUBSET I]
  <2>1. \A i \in I : score[i] = CombinedScore(s[i]) /\ score[i] \in Nat /\ i \in Nat
    BY <1>3
  <2> HIDE DEF score
  <2> QED
    BY <2>1 DEF Ahead
<1>5. Linear(I, R) /\ r = ByRank(s, rank)
  <2>1. r = ByRank(s, rank)
    <3>1. [i \in I |-> Place(s, i)] = rank
      BY DEF RankIn, Place, Ahead
    <3> QED
      BY <3>1 DEF Sorted
  <2> HIDE DEF I, R, score, r, rank
  <2>2. \A i \in I : i \in R[i]
    BY <1>4
  <2>3. \A i, j \in I : i \in R[j] \/ j \in R[i]
    BY <1>4
  <2>4. \A i, j \in I : i \in R[j] /\ j \in R[i] => i = j
    BY <1>4
  <2>5. ASSUME NEW i \in I, NEW j \in I, i \in R[j] PROVE R[i] \subseteq R[j]
    BY <1>4, <2>5
  <2> QED
    BY <1>4, <2>1, <2>2, <2>3, <2>4, <2>5 DEF Linear
<1>6. /\ rank \in Bijection(I, 1 .. n)
      /\ \A i, j \in I : rank[i] <= rank[j] => i \in R[j]
  BY <1>2, <1>5, RankIsPlace
<1>7. /\ DOMAIN r = 1 .. n
      /\ \A p \in 1 .. n : \E i \in I : rank[i] = p /\ r[p] = s[i]
      /\ \A i \in I : rank[i] \in 1 .. n /\ r[rank[i]] = s[i]
  <2> HIDE DEF rank, I, n, r
  <2>1. rank \in Bijection(I, 1 .. Cardinality(I)) BY <1>2, <1>6
  <2> QED BY <1>2, <1>5, <2>1, ByRankPermutes
<1> HIDE DEF rank, r
<1>8. r \in Seq(Chunks) /\ Len(r) = n
  <2>1. r \in [1 .. n -> Chunks]
    <3>1. \A p \in 1 .. n : r[p] \in Chunks BY <1>1, <1>7
    <3>2. r = [p \in DOMAIN r |-> r[p]] BY DEF r, Sorted, ByRank
    <3> QED BY <1>7, <3>1, <3>2
  <2> QED BY <1>1, <2>1
<1>9. Range(r) = Range(s)
  BY <1>1, <1>7, SMTT(30) DEF Range
<1>10. Descending(r)
  <2> SUFFICES ASSUME NEW p \in 1 .. n, NEW q \in 1 .. n, p <= q
               PROVE  CombinedScore(r[p]) >= CombinedScore(r[q])
    BY <1>7 DEF Descending
  <2>1. PICK i \in I : rank[i] = p /\ r[p] = s[i] BY <1>7
  <2>2. PICK j \in I : rank[j] = q /\ r[q] = s[j] BY <1>7
  <2>3. i \in R[j] BY <1>6, <2>1, <2>2
  <2>4. CombinedScore(s[i]) >= CombinedScore(s[j])
    <3> HIDE DEF I, R, score
    <3>1. score[i] >= score[j] BY <1>4, <2>3
    <3> QED BY <1>4, <3>1
  <2> QED BY <2>1, <2>2, <2>4
<1>11. IsInjective(s) => IsInjective(r)
  <2> SUFFICES ASSUME IsInjective(s), NEW p \in 1 .. n, NEW q \in 1 .. n, r[p] = r[q] PROVE p = q
    BY <1>7 DEF IsInjective
  <2>1. PICK i \in I : rank[i] = p /\ r[p] = s[i] BY <1>7
  <2>2. PICK j \in I : rank[j] = q /\ r[q] = s[j] BY <1>7
  <2>3. i = j BY <2>1, <2>2 DEF IsInjective
  <2> QED BY <2>1, <2>2, <2>3
<1> QED BY <1>8, <1>9, <1>10, <1>11 DEF r

LEMMA KeepingKeeps ==
  ASSUME NEW T, NEW s \in Seq(T), NEW S
  PROVE  /\ Keeping(s, S) \in Seq(T)
         /\ Range(Keeping(s, S)) = Range(s) \cap S
         /\ IsInjective(s) => IsInjective(Keeping(s, S))
<1> DEFINE I == {i \in DOMAIN s : s[i] \in S}
           upto == [i \in I |-> {j \in I : j <= i}]
           n == Cardinality(I)
           rank == RankIn(I, upto)
           r == Keeping(s, S)
<1>1. DOMAIN s = 1 .. Len(s) /\ Len(s) \in Nat /\ \A i \in DOMAIN s : s[i] \in T
  OBVIOUS
<1>2. IsFiniteSet(I) /\ I \subseteq Nat
  <2>1. IsFiniteSet(1 .. Len(s))
    BY <1>1, FS_Interval
  <2>2. I \in SUBSET (1 .. Len(s))
    BY <1>1
  <2> HIDE DEF I
  <2>3. IsFiniteSet(I)
    BY <2>1, <2>2, FS_Subset
  <2>4. 1 .. Len(s) \subseteq Nat
    BY <1>1
  <2> QED
    BY <2>2, <2>3, <2>4
<1>3. Linear(I, upto)
  <2> HIDE DEF I
  <2>1. \A i \in I : i \in Nat /\ upto[i] = {j \in I : j <= i}
    BY <1>2
  <2>2. upto \in [I -> SUBSET I]
    OBVIOUS
  <2> HIDE DEF upto
  <2>3. \A i \in I : i \in upto[i]
    BY <2>1
  <2>4. \A i, j \in I : i \in upto[j] \/ j \in upto[i]
    BY <2>1
  <2>5. \A i, j \in I : i \in upto[j] /\ j \in upto[i] => i = j
    BY <2>1
  <2>6. ASSUME NEW i \in I, NEW j \in I, i \in upto[j] PROVE upto[i] \subseteq upto[j]
    BY <2>1, <2>6
  <2> QED
    BY <2>2, <2>3, <2>4, <2>5, <2>6 DEF Linear
<1>4. r = ByRank(s, rank)
  <2>1. [i \in I |-> Cardinality({j \in I : j <= i})] = rank
    BY DEF RankIn
  <2> QED
    BY <2>1 DEF Keeping
<1>5. rank \in Bijection(I, 1 .. n)
  <2> HIDE DEF I, upto
  <2> QED
    BY <1>2, <1>3, RankIsPlace
<1>6. /\ DOMAIN r = 1 .. n /\ n \in Nat
      /\ \A p \in 1 .. n : \E i \in I : rank[i] = p /\ r[p] = s[i]
      /\ \A i \in I : rank[i] \in 1 .. n /\ r[rank[i]] = s[i]
  <2> HIDE DEF I, rank, r
  <2>1. rank \in Bijection(I, 1 .. Cardinality(I))
    BY <1>5
  <2>2. /\ DOMAIN ByRank(s, rank) = 1 .. Cardinality(I) /\ Cardinality(I) \in Nat
        /\ \A p \in 1 .. Cardinality(I) : \E i \in I : rank[i] = p /\ ByRank(s, rank)[p] = s[i]
        /\ \A i \in I : rank[i] \in 1 .. Cardinality(I) /\ ByRank(s, rank)[rank[i]] = s[i]
    BY <1>2, <2>1, ByRankPermutes
  <2> QED
    BY <1>4, <2>2
<1>7. r \in Seq(T)
  <2>1. \A p \in 1 .. n : r[p] \in T
    BY <1>1, <1>6
  <2>2. r = [p \in DOMAIN r |-> r[p]]
    BY DEF Keeping, ByRank
  <2> HIDE DEF r, n
  <2>3. r \in [1 .. n -> T]
    BY <1>6, <2>1, <2>2
  <2> QED
    BY <1>6, <2>3
<1>8. Range(r) = Range(s) \cap S
  <2> HIDE DEF r, n, rank
  <2> QED
    BY <1>6 DEF Range
<1>9. IsInjective(s) => IsInjective(r)
  <2> HIDE DEF r, n, rank
  <2> SUFFICES ASSUME IsInjective(s), NEW p \in 1 .. n, NEW q \in 1 .. n, r[p] = r[q] PROVE p = q
    BY <1>6 DEF IsInjective
  <2>1. PICK i \in I : rank[i] = p /\ r[p] = s[i]
    BY <1>6
  <2>2. PICK j \in I : rank[j] = q /\ r[q] = s[j]
    BY <1>6
  <2>3. i = j
    BY <2>1, <2>2 DEF IsInjective
  <2> QED
    BY <2>1, <2>2, <2>3
<1> QED
  BY <1>7, <1>8, <1>9

LEMMA SeqWithin ==
  ASSUME NEW T, NEW U, NEW s \in Seq(T), Range(s) \subseteq U
  PROVE  s \in Seq(U)
<1>1. \A i \in 1 .. Len(s) : s[i] \in U
  BY DEF Range
<1> QED
  BY <1>1

LEMMA Concatenated ==
  ASSUME NEW T, NEW a \in Seq(T), NEW b \in Seq(T)
  PROVE  /\ a \o b \in Seq(T) /\ Len(a \o b) = Len(a) + Len(b)
         /\ Range(a \o b) = Range(a) \cup Range(b)
         /\ IsInjective(a) /\ IsInjective(b) /\ Range(a) \cap Range(b) = {} => IsInjective(a \o b)
<1> DEFINE m == Len(a)
           k == Len(b)
           c == a \o b
<1>1. /\ c \in Seq(T) /\ Len(c) = m + k /\ m \in Nat /\ k \in Nat
      /\ DOMAIN a = 1 .. m /\ DOMAIN b = 1 .. k /\ DOMAIN c = 1 .. m + k
  OBVIOUS
<1>2. \A i \in 1 .. m : i \in 1 .. m + k /\ c[i] = a[i]
  BY <1>1
<1>3. \A i \in 1 .. k : m + i \in 1 .. m + k /\ c[m + i] = b[i]
  BY <1>1
<1>4. \A i \in 1 .. m + k : i \in 1 .. m \/ (i - m \in 1 .. k /\ i = m + (i - m))
  BY <1>1
<1> HIDE DEF m, k, c
<1>5. ASSUME NEW i \in 1 .. m + k
      PROVE  (i \in 1 .. m /\ c[i] = a[i]) \/ (i - m \in 1 .. k /\ c[i] = b[i - m])
  <2>1. CASE i \in 1 .. m
    BY <1>2, <2>1
  <2>2. CASE i - m \in 1 .. k /\ i = m + (i - m)
    BY <1>3, <2>2
  <2> QED
    BY <1>4, <2>1, <2>2
<1>6. Range(c) = Range(a) \cup Range(b)
  <2>1. Range(c) = {c[i] : i \in 1 .. m + k} /\ Range(a) = {a[i] : i \in 1 .. m} /\ Range(b) = {b[i] : i \in 1 .. k}
    BY <1>1 DEF Range
  <2>2. Range(c) \subseteq Range(a) \cup Range(b)
    BY <1>5, <2>1
  <2>3. Range(a) \subseteq Range(c)
    BY <1>2, <2>1
  <2>4. ASSUME NEW x \in Range(b) PROVE x \in Range(c)
    <3>1. PICK i \in 1 .. k : x = b[i]
      BY <2>1
    <3> QED
      BY <1>3, <2>1, <3>1
  <2> QED
    BY <2>2, <2>3, <2>4
<1>7. ASSUME IsInjective(a), IsInjective(b), Range(a) \cap Range(b) = {} PROVE IsInjective(c)
  <2> SUFFICES ASSUME NEW i \in 1 .. m + k, NEW j \in 1 .. m + k, c[i] = c[j] PROVE i = j
    BY <1>1 DEF IsInjective
  <2>a. (\A x, y \in 1 .. m : a[x] = a[y] => x = y) /\ \A x, y \in 1 .. k : b[x] = b[y] => x = y
    BY <1>1, <1>7 DEF IsInjective
  <2>b. ASSUME NEW x \in 1 .. m, NEW y \in 1 .. k PROVE a[x] # b[y]
    <3>1. a[x] \in Range(a) /\ b[y] \in Range(b)
      BY <1>1 DEF Range
    <3> QED
      BY <1>7, <3>1
  <2>1. /\ \A x, y \in 1 .. m : a[x] = a[y] => x = y
        /\ \A x, y \in 1 .. k : b[x] = b[y] => x = y
        /\ \A x \in 1 .. m, y \in 1 .. k : a[x] # b[y]
    BY <2>a, <2>b
  <2>2. (i \in 1 .. m /\ c[i] = a[i]) \/ (i - m \in 1 .. k /\ c[i] = b[i - m])
    BY <1>5
  <2>3. (j \in 1 .. m /\ c[j] = a[j]) \/ (j - m \in 1 .. k /\ c[j] = b[j - m])
    BY <1>5
  <2>4. CASE i \in 1 .. m /\ c[i] = a[i]
    BY <2>1, <2>3, <2>4
  <2>5. CASE i - m \in 1 .. k /\ c[i] = b[i - m]
    <3>1. j - m \in 1 .. k /\ c[j] = b[j - m]
      BY <2>1, <2>3, <2>5
    <3>2. i - m = j - m
      BY <2>1, <2>5, <3>1
    <3> QED
      BY <1>1, <3>2
  <2> QED
    BY <2>2, <2>4, <2>5
<1> QED
  BY <1>1, <1>6, <1>7 DEF c, m, k

(* What the model makes of the ranking: the same candidates in an order of  *)
(* its own, each once if the model names none twice.                        *)
LEMMA ReorderedPermutes ==
  ASSUME NEW s \in Seq(Chunks), NEW order, order \in Seq(Range(order))
  PROVE  /\ Reordered(s, order) \in Seq(Chunks)
         /\ Range(Reordered(s, order)) = Range(s)
         /\ IsInjective(s) /\ IsInjective(order) => IsInjective(Reordered(s, order))
<1> DEFINE a == Keeping(order, Range(s))
           b == Keeping(s, Range(s) \ Range(order))
<1>1. Range(s) \subseteq Chunks
  BY DEF Range
<1>2. /\ a \in Seq(Range(order)) /\ Range(a) = Range(order) \cap Range(s)
      /\ IsInjective(order) => IsInjective(a)
  BY KeepingKeeps
<1>3. /\ b \in Seq(Chunks) /\ Range(b) = Range(s) \cap (Range(s) \ Range(order))
      /\ IsInjective(s) => IsInjective(b)
  BY KeepingKeeps
<1>4. a \in Seq(Chunks)
  <2> HIDE DEF a
  <2>1. Range(a) \subseteq Chunks
    BY <1>1, <1>2
  <2> QED
    BY <1>2, <2>1, SeqWithin
<1> HIDE DEF a, b
<1>5. /\ a \o b \in Seq(Chunks) /\ Range(a \o b) = Range(a) \cup Range(b)
      /\ IsInjective(a) /\ IsInjective(b) /\ Range(a) \cap Range(b) = {} => IsInjective(a \o b)
  BY <1>3, <1>4, Concatenated
<1>6. Reordered(s, order) = a \o b
  BY DEF Reordered, a, b
<1>7. Range(a) \cup Range(b) = Range(s) /\ Range(a) \cap Range(b) = {}
  BY <1>2, <1>3
<1> QED
  BY <1>2, <1>3, <1>5, <1>6, <1>7

LEMMA AsLong ==
  ASSUME NEW s \in Seq(Chunks), NEW r \in Seq(Chunks), IsInjective(s), IsInjective(r), Range(r) = Range(s)
  PROVE  Len(r) = Len(s)
<1>1. ASSUME NEW t \in Seq(Chunks), IsInjective(t) PROVE Cardinality(Range(t)) = Len(t)
  <2>a. DOMAIN t = 1 .. Len(t) /\ Len(t) \in Nat /\ t = [i \in 1 .. Len(t) |-> t[i]]
    OBVIOUS
  <2>b. Range(t) = {t[i] : i \in 1 .. Len(t)}
    BY <2>a DEF Range
  <2>c. t \in [1 .. Len(t) -> Range(t)]
    BY <2>a, <2>b
  <2>d. \A i, j \in 1 .. Len(t) : t[i] = t[j] => i = j
    BY <1>1, <2>a DEF IsInjective
  <2>e. t \in Injection(1 .. Len(t), Range(t))
    BY <1>1, <2>c DEF Injection
  <2>f. t \in Surjection(1 .. Len(t), Range(t))
    BY <2>b, <2>c DEF Surjection
  <2>1. t \in Bijection(1 .. Len(t), Range(t))
    BY <2>e, <2>f, Zenon DEF Bijection
  <2>2. IsFiniteSet(1 .. Len(t)) /\ Cardinality(1 .. Len(t)) = Len(t)
    <3>1. ASSUME NEW m \in Nat
          PROVE  IsFiniteSet(1 .. m) /\ Cardinality(1 .. m) = m
      <4>1. 1 \in Int /\ m \in Int
        BY <3>1
      <4>2. IsFiniteSet(1 .. m) /\ Cardinality(1 .. m) = IF 1 > m THEN 0 ELSE m - 1 + 1
        BY <4>1, FS_Interval
      <4> QED
        BY <3>1, <4>2
    <3>2. Len(t) \in Nat
      BY <2>a
    <3> HIDE DEF Range
    <3> QED
      BY <3>1, <3>2, Zenon
  <2> QED
    BY <2>1, <2>2, FS_Bijection DEF ExistsBijection
<1> QED
  BY <1>1

(* Sums of the values that stand for two and for three scores.              *)
LEMMA TwoValues ==
  ASSUME NEW a \in Nat, NEW b \in Nat, NEW x \in Nat, NEW y \in Nat,
         x <= a, y <= a, x <= b \/ y <= b
  PROVE  x + y <= a + b
OBVIOUS

LEMMA ThreeValues ==
  ASSUME NEW a \in Nat, NEW b \in Nat, NEW c \in Nat, NEW x \in Nat, NEW y \in Nat, NEW z \in Nat,
         x <= a, y <= a, z <= a,
         \/ x <= c /\ (y <= b \/ z <= b)
         \/ y <= c /\ (x <= b \/ z <= b)
         \/ z <= c /\ (x <= b \/ y <= b)
  PROVE  x + y + z <= a + b + c
OBVIOUS

(* The first three of a descending ranking outweigh any other three of it.  *)
LEMMA FirstThree ==
  ASSUME NEW n \in Nat, n >= 1, NEW f \in [1 .. n -> Nat], \A i, j \in 1 .. n : i <= j => f[i] >= f[j],
         NEW g \in [1 .. n -> 1 .. n], \A i, j \in 1 .. n : g[i] = g[j] => i = j
  PROVE  /\ f[g[1]] <= f[1]
         /\ n >= 2 => f[g[1]] + f[g[2]] <= f[1] + f[2]
         /\ n >= 3 => f[g[1]] + f[g[2]] + f[g[3]] <= f[1] + f[2] + f[3]
<1>1. f[g[1]] <= f[1]
  BY g[1] \in 1 .. n
<1>2. ASSUME n >= 2 PROVE f[g[1]] + f[g[2]] <= f[1] + f[2]
  <2> DEFINE x == g[1]
             y == g[2]
  <2>1. 1 \in 1 .. n /\ 2 \in 1 .. n
    BY <1>2
  <2>2. x \in 1 .. n /\ y \in 1 .. n
    BY <2>1
  <2>3. x # y
    BY <2>1
  <2> HIDE DEF x, y
  <2>4. \A i \in 1 .. n : f[i] \in Nat /\ f[i] <= f[1] /\ (i >= 2 => f[i] <= f[2])
    <3>1. f[1] \in Nat /\ f[2] \in Nat
      BY <2>1
    <3>2. ASSUME NEW i \in 1 .. n PROVE f[i] \in Nat /\ f[1] >= f[i] /\ (2 <= i => f[2] >= f[i])
      <4>1. f[i] \in Nat
        OBVIOUS
      <4>2. f[1] >= f[i]
        BY <2>1
      <4>3. 2 <= i => f[2] >= f[i]
        BY <2>1
      <4> QED
        BY <4>1, <4>2, <4>3
    <3> QED
      BY <3>1, <3>2
  <2>5. x >= 2 \/ y >= 2
    BY <2>2, <2>3
  <2>6. f[x] + f[y] <= f[1] + f[2]
    BY <2>1, <2>2, <2>4, <2>5, TwoValues
  <2> QED
    BY <2>6 DEF x, y
<1>3. ASSUME n >= 3 PROVE f[g[1]] + f[g[2]] + f[g[3]] <= f[1] + f[2] + f[3]
  <2> DEFINE x == g[1]
             y == g[2]
             z == g[3]
  <2>1. 1 \in 1 .. n /\ 2 \in 1 .. n /\ 3 \in 1 .. n
    BY <1>3
  <2>2. x \in 1 .. n /\ y \in 1 .. n /\ z \in 1 .. n
    BY <2>1
  <2>3. x # y
    BY <2>1
  <2>4. y # z
    BY <2>1
  <2>5. x # z
    BY <2>1, SMTT(30)
  <2> HIDE DEF x, y, z
  <2>6. \A i \in 1 .. n : f[i] \in Nat /\ f[i] <= f[1] /\ (i >= 2 => f[i] <= f[2]) /\ (i >= 3 => f[i] <= f[3])
    <3>1. \A i \in 1 .. n : f[i] \in Nat
      OBVIOUS
    <3>2. ASSUME NEW i \in 1 .. n
          PROVE  f[1] >= f[i] /\ (2 <= i => f[2] >= f[i]) /\ (3 <= i => f[3] >= f[i])
      <4>1. f[1] >= f[i]
        BY <2>1
      <4>2. 2 <= i => f[2] >= f[i]
        BY <2>1
      <4>3. 3 <= i => f[3] >= f[i]
        BY <2>1
      <4> QED
        BY <4>1, <4>2, <4>3
    <3> QED
      BY <2>1, <3>1, <3>2
  (* one of the three is third or later, another second or later *)
  <2>7. \/ x >= 3 /\ (y >= 2 \/ z >= 2)
        \/ y >= 3 /\ (x >= 2 \/ z >= 2)
        \/ z >= 3 /\ (x >= 2 \/ y >= 2)
    BY <2>2, <2>3, <2>4, <2>5, SMTT(30)
  <2>8. \/ f[x] <= f[3] /\ (f[y] <= f[2] \/ f[z] <= f[2])
        \/ f[y] <= f[3] /\ (f[x] <= f[2] \/ f[z] <= f[2])
        \/ f[z] <= f[3] /\ (f[x] <= f[2] \/ f[y] <= f[2])
    BY <2>2, <2>6, <2>7
  <2>9. f[x] + f[y] + f[z] <= f[1] + f[2] + f[3]
    <3>1. f[x] \in Nat /\ f[y] \in Nat /\ f[z] \in Nat /\ f[1] \in Nat /\ f[2] \in Nat /\ f[3] \in Nat
      BY <2>1, <2>2, <2>6
    <3>2. f[x] <= f[1] /\ f[y] <= f[1] /\ f[z] <= f[1]
      BY <2>2, <2>6
    <3> QED
      BY <2>8, <3>1, <3>2, ThreeValues
  <2> QED
    BY <2>9 DEF x, y, z
<1> QED
  BY <1>1, <1>2, <1>3

LEMMA ConfidenceGrows ==
  ASSUME NEW a \in Nat, NEW b \in Nat, NEW c \in Int, a <= b
  PROVE  /\ Least((80 * a + 20 * c) \div 100, 100) <= Least((80 * b + 20 * c) \div 100, 100)
         /\ Least((80 * a + 20 * c) \div 100, 100) \in Int
         /\ Least((80 * b + 20 * c) \div 100, 100) \in Int
BY DEF Least

(* The confidence looks at the order through the first three scores only,   *)
(* and those were the best three already.                                   *)
LEMMA NoMoreConfidence ==
  ASSUME NEW s \in Seq(Chunks), NEW r \in Seq(Chunks), Len(r) = Len(s), Range(r) \subseteq Range(s),
         IsInjective(r), Descending(s), rc.topK \in Nat \ {0}
  PROVE  Confidence(r) <= Confidence(s) /\ Confidence(r) \in Int /\ Confidence(s) \in Int
<1> DEFINE n == Len(s)
           f == [i \in 1 .. n |-> CombinedScore(s[i])]
           g == [i \in 1 .. n |-> CHOOSE j \in 1 .. n : s[j] = r[i]]
           coverage == (100 * Least(n, rc.topK)) \div rc.topK
           Lead(t, i) == IF i <= Least(3, n) THEN CombinedScore(t[i]) ELSE 0
           sum(t) == Lead(t, 1) + Lead(t, 2) + Lead(t, 3)
<1>1. n \in Nat /\ DOMAIN s = 1 .. n /\ DOMAIN r = 1 .. n /\ \A i \in 1 .. n : s[i] \in Chunks /\ r[i] \in Chunks
  OBVIOUS
<1>2. CASE n = 0
  <2>1. s = <<>> /\ r = <<>>
    BY <1>2
  <2> QED
    BY <2>1 DEF Confidence
<1>3. CASE n # 0
  <2>1. n >= 1
    BY <1>1, <1>3
  <2>2. f \in [1 .. n -> Nat] /\ \A i, j \in 1 .. n : i <= j => f[i] >= f[j]
    <3>1. \A i \in 1 .. n : CombinedScore(s[i]) \in Nat
      BY <1>1, ScoresAreNumbers
    <3> QED
      BY <1>1, <3>1 DEF Descending
  <2>3. \A i \in 1 .. n : g[i] \in 1 .. n /\ s[g[i]] = r[i]
    <3> SUFFICES ASSUME NEW i \in 1 .. n PROVE g[i] \in 1 .. n /\ s[g[i]] = r[i]
      OBVIOUS
    <3>1. r[i] \in Range(s)
      BY <1>1 DEF Range
    <3>2. \E j \in 1 .. n : s[j] = r[i]
      BY <1>1, <3>1 DEF Range
    <3> QED
      BY <3>2
  <2>4. g \in [1 .. n -> 1 .. n] /\ \A i, j \in 1 .. n : g[i] = g[j] => i = j
    <3>1. g \in [1 .. n -> 1 .. n]
      BY <2>3
    <3>2. ASSUME NEW i \in 1 .. n, NEW j \in 1 .. n, g[i] = g[j] PROVE i = j
      <4> HIDE DEF g
      <4>1. r[i] = r[j]
        BY <2>3, <3>2
      <4> QED
        BY <1>1, <4>1 DEF IsInjective
    <3> QED
      BY <3>1, <3>2
  <2>5. \A i \in 1 .. n : CombinedScore(s[i]) = f[i] /\ CombinedScore(r[i]) = f[g[i]] /\ f[i] \in Nat /\ f[g[i]] \in Nat
    BY <2>2, <2>3, ZenonT(60)
  <2>6. /\ f[g[1]] <= f[1]
        /\ n >= 2 => f[g[1]] + f[g[2]] <= f[1] + f[2]
        /\ n >= 3 => f[g[1]] + f[g[2]] + f[g[3]] <= f[1] + f[2] + f[3]
    <3> HIDE DEF f, g, n
    <3> QED
      BY <1>1, <2>1, <2>2, <2>4, FirstThree
  <2> HIDE DEF f, g
  <2>7. sum(r) \in Nat /\ sum(s) \in Nat /\ sum(r) <= sum(s)
    <3>1. CASE n = 1
      <4>1. sum(r) = f[g[1]] + 0 + 0 /\ sum(s) = f[1] + 0 + 0
        BY <2>5, <3>1 DEF Least
      <4> QED
        BY <2>5, <2>6, <3>1, <4>1
    <3>2. CASE n = 2
      <4>1. sum(r) = f[g[1]] + f[g[2]] + 0 /\ sum(s) = f[1] + f[2] + 0
        BY <2>5, <3>2 DEF Least
      <4> QED
        BY <2>5, <2>6, <3>2, <4>1, SMTT(30)
    <3>3. CASE n >= 3
      <4>1. 1 \in 1 .. n /\ 2 \in 1 .. n /\ 3 \in 1 .. n /\ Least(3, n) = 3
        BY <1>1, <3>3 DEF Least
      <4> HIDE DEF n
      <4>2. /\ Lead(r, 1) = f[g[1]] /\ Lead(r, 2) = f[g[2]] /\ Lead(r, 3) = f[g[3]]
            /\ Lead(s, 1) = f[1] /\ Lead(s, 2) = f[2] /\ Lead(s, 3) = f[3]
        BY <2>5, <4>1
      <4>3. /\ f[g[1]] \in Nat /\ f[g[2]] \in Nat /\ f[g[3]] \in Nat
            /\ f[1] \in Nat /\ f[2] \in Nat /\ f[3] \in Nat
        BY <2>5, <4>1
      <4>4. f[g[1]] + f[g[2]] + f[g[3]] <= f[1] + f[2] + f[3]
        BY <2>6, <3>3
      <4>5. sum(r) = f[g[1]] + f[g[2]] + f[g[3]]
        BY <4>2
      <4>6. sum(s) = f[1] + f[2] + f[3]
        BY <4>2
      <4> HIDE DEF sum
      <4>7. sum(r) <= sum(s)
        BY <4>4, <4>5, <4>6
      <4>8. sum(r) \in Nat /\ sum(s) \in Nat
        <5>0. \A x, y, z \in Nat : x + y + z \in Nat
          OBVIOUS
        <5>1. f[g[1]] + f[g[2]] + f[g[3]] \in Nat
          BY <4>3, <5>0, Zenon
        <5>2. f[1] + f[2] + f[3] \in Nat
          BY <4>3, <5>0, Zenon
        <5> QED
          BY <4>5, <4>6, <5>1, <5>2, Zenon
      <4> QED
        BY <4>7, <4>8
    <3> QED
      BY <1>1, <2>1, <3>1, <3>2, <3>3
  <2>8. Least(3, n) \in {1, 2, 3}
    BY <1>1, <2>1 DEF Least
  <2>9. ASSUME NEW t \in {s, r}
        PROVE  Confidence(t) = Least((80 * (sum(t) \div Least(3, n)) + 20 * coverage) \div 100, 100)
    <3>1. t # <<>> /\ Len(t) = n
      BY <1>1, <2>1
    <3> QED
      BY <3>1 DEF Confidence
  <2>10. coverage \in Int
    <3>1. \A a \in Int, b \in Nat \ {0} : a \div b \in Int
      OBVIOUS
    <3>2. 100 * Least(n, rc.topK) \in Int
      BY <1>1 DEF Least
    <3> QED
      BY <3>1, <3>2
  <2>11. \A a, b \in Nat, l \in {1, 2, 3} : a <= b => a \div l <= b \div l /\ a \div l \in Nat /\ b \div l \in Nat
    OBVIOUS
  <2> HIDE DEF sum, coverage, n
  <2>13. Confidence(r) = Least((80 * (sum(r) \div Least(3, n)) + 20 * coverage) \div 100, 100)
    BY <2>9
  <2>14. Confidence(s) = Least((80 * (sum(s) \div Least(3, n)) + 20 * coverage) \div 100, 100)
    BY <2>9
  <2>15. /\ sum(r) \div Least(3, n) <= sum(s) \div Least(3, n)
         /\ sum(r) \div Least(3, n) \in Nat /\ sum(s) \div Least(3, n) \in Nat
    BY <2>7, <2>8, <2>11
  <2> DEFINE a == sum(r) \div Least(3, n)
             b == sum(s) \div Least(3, n)
  <2>16. a \in Nat /\ b \in Nat /\ a <= b
    BY <2>15
  <2>17. /\ Confidence(r) = Least((80 * a + 20 * coverage) \div 100, 100)
         /\ Confidence(s) = Least((80 * b + 20 * coverage) \div 100, 100)
    BY <2>13, <2>14
  <2> HIDE DEF a, b
  <2>18. /\ Least((80 * a + 20 * coverage) \div 100, 100) <= Least((80 * b + 20 * coverage) \div 100, 100)
         /\ Least((80 * a + 20 * coverage) \div 100, 100) \in Int
         /\ Least((80 * b + 20 * coverage) \div 100, 100) \in Int
    BY <2>10, <2>16, ConfidenceGrows, ZenonT(60)
  <2> QED
    BY <2>17, <2>18
<1> QED
  BY <1>2, <1>3

-----------------------------------------------------------------------------
(* What is shown to the model.                                              *)

(* Natural numbers, some of them: one is the least.                         *)
LEMMA LeastNumber ==
  ASSUME NEW T, T \subseteq Nat, T # {}
  PROVE  \E m \in T : \A k \in T : m <= k
<1> DEFINE R == OpToRel(<, Nat)
<1>1. IsWellFoundedOn(R, Nat)
  BY NatLessThanWellFounded
<1>2. \A k, m \in Nat : k < m => <<k, m>> \in R
  BY DEF OpToRel
<1> HIDE DEF R
<1>3. PICK m \in T : \A k \in T : ~ (<<k, m>> \in R)
  BY <1>1, WFMin
<1>4. \A k \in T : ~ (k < m)
  BY <1>2, <1>3
<1> QED
  BY <1>4

(* The best block is shown when it was read.  The places are judged one     *)
(* after the other, so that a choice of all of them exists.                 *)
LEMMA FirstIsShown ==
  ASSUME NEW s \in Seq(Chunks), s # <<>>, NEW loaded, s[1] \in loaded
  PROVE  1 \in Shown(s, loaded)
<1> DEFINE n == Len(s)
           Fit(i, K) == Fits(s, loaded, i, K)
           Right(S, m) == \A i \in 1 .. m : i \in S <=> Fit(i, {j \in S : j < i})
           T == {m \in 0 .. n : ~ \E S \in SUBSET (1 .. m) : Right(S, m)}
<1>1. n \in Nat /\ n >= 1 /\ DOMAIN s = 1 .. n
  OBVIOUS
<1>2. T = {}
  <2> SUFFICES ASSUME T # {} PROVE FALSE
    OBVIOUS
  <2>1. T \subseteq Nat
    BY <1>1
  <2>2. PICK m \in T : \A k \in T : m <= k
    <3> HIDE DEF T
    <3> QED
      BY <2>1, LeastNumber
  <2>3. m \in Nat /\ m <= n /\ ~ \E S \in SUBSET (1 .. m) : Right(S, m)
    <3>1. m \in 0 .. n /\ ~ \E S \in SUBSET (1 .. m) : Right(S, m)
      BY <2>2
    <3> HIDE DEF Right
    <3> QED
      BY <1>1, <3>1
  <2>4. m # 0
    <3> SUFFICES ASSUME m = 0 PROVE FALSE
      OBVIOUS
    <3>1. \A i \in 1 .. m : FALSE
      OBVIOUS
    <3>2. Right({}, m)
      BY <3>1
    <3>3. {} \in SUBSET (1 .. m)
      OBVIOUS
    <3> HIDE DEF Right
    <3> QED
      BY <2>3, <3>2, <3>3
  <2>5. m - 1 \in 0 .. n /\ ~ (m <= m - 1)
    BY <1>1, <2>3, <2>4
  <2>6. PICK S \in SUBSET (1 .. (m - 1)) : Right(S, m - 1)
    <3>1. m - 1 \notin T
      BY <2>2, <2>5
    <3> QED
      BY <2>5, <3>1
  <2> DEFINE U == IF Fit(m, S) THEN S \cup {m} ELSE S
  <2>7. U \in SUBSET (1 .. m) /\ m \notin S
    <3>1. m \in 1 .. m /\ m \notin 1 .. (m - 1) /\ 1 .. (m - 1) \subseteq 1 .. m
      BY <2>3, <2>4
    <3> HIDE DEF Fit
    <3> QED
      BY <2>6, <3>1
  <2>8. {j \in U : j < m} = S /\ (m \in U <=> Fit(m, S))
    <3>1. S \subseteq 1 .. (m - 1)
      BY <2>6
    <3>2. (\A j \in S : j < m) /\ ~ (m < m)
      BY <2>3, <3>1
    <3> HIDE DEF Fit, Right
    <3>3. m \in U <=> Fit(m, S)
      BY <2>7
    <3>4. \A j \in U : j \in S \/ j = m
      OBVIOUS
    <3>5. S \subseteq U
      OBVIOUS
    <3> HIDE DEF U
    <3>6. {j \in U : j < m} = S
      BY <3>2, <3>4, <3>5
    <3> QED
      BY <3>3, <3>6
  <2>9. \A i \in 1 .. (m - 1) : {j \in U : j < i} = {j \in S : j < i} /\ (i \in U <=> i \in S)
    <3> HIDE DEF Fit, Right
    <3> QED
      BY <2>3, <2>6
  <2>10. ASSUME NEW i \in 1 .. m PROVE i \in U <=> Fit(i, {j \in U : j < i})
    <3>1. CASE i = m
      <4> HIDE DEF Fit, U
      <4> QED
        BY <2>8, <3>1
    <3>2. CASE i # m
      <4>1. i \in 1 .. (m - 1)
        BY <2>3, <3>2
      <4>2. i \in S <=> Fit(i, {j \in S : j < i})
        BY <2>6, <4>1
      <4> HIDE DEF Fit, U
      <4> QED
        BY <2>9, <4>1, <4>2
    <3> QED
      BY <3>1, <3>2
  <2>11. Right(U, m)
    BY <2>10
  <2> HIDE DEF Right, U
  <2> QED
    BY <2>3, <2>7, <2>11
<1> DEFINE shown == Shown(s, loaded)
<1>3. shown \in SUBSET (1 .. n) /\ Right(shown, n)
  <2>1. \E S \in SUBSET (1 .. n) : Right(S, n)
    <3>1. n \in 0 .. n
      BY <1>1
    <3> HIDE DEF Right
    <3> QED
      BY <1>2, <3>1
  <2>2. shown = CHOOSE S \in SUBSET (1 .. n) : Right(S, n)
    BY <1>1 DEF Shown
  <2> HIDE DEF Right, shown
  <2> QED
    BY <2>1, <2>2
<1>4. {j \in shown : j < 1} = {}
  BY <1>3
<1>5. Fit(1, {})
  <2>1. {j \in {} : DocOf[s[j]] = DocOf[s[1]]} = {}
    OBVIOUS
  <2>2. Cardinality({}) = 0
    BY FS_EmptySet
  <2> QED
    BY <2>1, <2>2, OptionsAssumption DEF Fits
<1>6. 1 \in 1 .. n
  BY <1>1
<1>7. 1 \in shown <=> Fit(1, {j \in shown : j < 1})
  BY <1>3, <1>6
<1> HIDE DEF Fit
<1> QED
  BY <1>4, <1>5, <1>7

-----------------------------------------------------------------------------
(* The ranking of one request, step by step.  A model that answers with     *)
(* some id twice would make the ranking longer than it was.                 *)
NoIdTwice == \A order \in Orders : IsInjective(order)

Searching   == {"resolve", "embed", "retrieve"}
Concluded   == {"generate", "record", "answered"}
RankedSo    ==
  /\ rc.ranked \in Seq(Chunks) /\ rc.hits \subseteq Chunks /\ rc.threshold \in Nat
  /\ rc.pc \in Searching => rc.ranked = <<>>
OnceEach    == rc.pc \in {"chunks", "rerank", "assess", "cross"} => IsInjective(rc.ranked)
InOrder     == rc.pc \in {"assess", "cross"} => Descending(rc.ranked)
NotYet      == rc.pc \notin Concluded \cup {"error"} => ~ rc.crossed
DoubtStands == At("cross") => Confidence(rc.ranked) < rc.threshold
NoRescue    == NoIdTwice => RerankingNeverRescues
RankInv     == RankedSo /\ OnceEach /\ InOrder /\ NotYet /\ DoubtStands /\ NoRescue

LEMMA BestAreChunks ==
  ASSUME NEW S, S \subseteq Chunks, NEW n \in Nat \ {0}, NEW score, NEW s \in BestFirst(S, n, score)
  PROVE  s \in Seq(Chunks) /\ Range(s) \subseteq S /\ IsInjective(s)
<1>1. Cardinality(S) \in Nat
  BY ChunksAssumption, FS_Subset, FS_CardinalityType
<1>2. Least(n, Cardinality(S)) \in Nat
  BY <1>1 DEF Least
<1>3. s \in [1 .. Least(n, Cardinality(S)) -> S] /\ IsInjective(s)
  BY DEF BestFirst
<1> HIDE DEF Least
<1> QED
  BY <1>2, <1>3 DEF Range

(* Scores and confidence look at the chunks that were loaded and at TopK.   *)
LEMMA ScoresKeep ==
  ASSUME rc'.loaded = rc.loaded, rc'.topK = rc.topK, NEW s
  PROVE  (Descending(s)' <=> Descending(s)) /\ Confidence(s)' = Confidence(s)
<1>1. \A c : CombinedScore(c)' = CombinedScore(c)
  BY DEF CombinedScore, TextScore, VectorScore
<1> QED
  BY <1>1 DEF Descending, Confidence

(* A step that leaves the ranking and the verdict alone. *)
LEMMA RankKeeps ==
  ASSUME RankInv,
         rc'.ranked = rc.ranked, rc'.hits = rc.hits, rc'.threshold = rc.threshold,
         rc'.loaded = rc.loaded, rc'.topK = rc.topK,
         rc'.crossed = rc.crossed, rc'.refused = rc.refused,
         \/ rc'.pc = rc.pc \/ rc'.pc = "error"
         \/ {rc.pc, rc'.pc} \subseteq Searching \/ {rc.pc, rc'.pc} \subseteq Concluded
  PROVE  RankInv'
<1>1. PICK s : s = rc.ranked
  OBVIOUS
<1>2. (Descending(s)' <=> Descending(s)) /\ Confidence(s)' = Confidence(s)
  BY ScoresKeep
<1>3. (Descending(rc.ranked)' <=> Descending(rc.ranked)) /\ Confidence(rc.ranked)' = Confidence(rc.ranked)
  BY <1>1, <1>2
<1>4. RankedSo' /\ OnceEach'
  BY DEF RankInv, RankedSo, OnceEach, Searching, Concluded
<1>5. InOrder' /\ DoubtStands'
  BY <1>3 DEF RankInv, InOrder, DoubtStands, At, Searching, Concluded
<1>6. NotYet' /\ NoRescue'
  BY DEF RankInv, NotYet, NoRescue, RerankingNeverRescues, Searching, Concluded
<1> QED
  BY <1>4, <1>5, <1>6 DEF RankInv

LEMMA RankInit == Init => RankInv
BY OptionsAssumption DEF Init, RankInv, RankedSo, OnceEach, InOrder, NotYet, DoubtStands,
   NoRescue, RerankingNeverRescues, NoRequest, At, Searching, Concluded

(* The model's order of a doubtful answer: refused whatever it says.        *)
LEMMA CrossStep ==
  ASSUME RankInv, Sane, Asked, CrossRerank
  PROVE  /\ rc'.ranked \in Seq(Chunks) /\ Range(rc'.ranked) = Range(rc.ranked)
         /\ NoIdTwice => rc'.refused
<1>1. PICK order \in Orders :
        rc' = Judged([rc EXCEPT !.crossed = TRUE], Reordered(rc.ranked, order))
  BY DEF CrossRerank
<1> DEFINE s == rc.ranked
           r == Reordered(s, order)
<1>2. s \in Seq(Chunks) /\ IsInjective(s) /\ Descending(s) /\ Confidence(s) < rc.threshold
  BY DEF CrossRerank, RankInv, RankedSo, OnceEach, InOrder, DoubtStands, At
<1>3. order \in Seq(Range(order)) /\ (NoIdTwice => IsInjective(order))
  BY OrdersAssumption DEF NoIdTwice
<1>4. r \in Seq(Chunks) /\ Range(r) = Range(s) /\ (NoIdTwice => IsInjective(r))
  BY <1>2, <1>3, ReorderedPermutes
<1> HIDE DEF r, s
<1>5. rc' = Judged([rc EXCEPT !.crossed = TRUE], r)
  BY <1>1 DEF r, s
<1>6. rc'.ranked = r
  BY <1>5, FieldNames DEF Judged, Asked
<1>7. ASSUME NoIdTwice PROVE rc'.refused
  <2>1. Len(r) = Len(s)
    BY <1>2, <1>4, <1>7, AsLong
  <2>2. Confidence(r) <= Confidence(s) /\ Confidence(r) \in Int /\ Confidence(s) \in Int
    BY <1>2, <1>4, <1>7, <2>1, NoMoreConfidence DEF Sane
  <2>3. rc.threshold \in Int
    BY DEF RankInv, RankedSo
  <2>4. Confidence(r) < rc.threshold
    BY <1>2, <2>2, <2>3
  <2> QED
    BY <1>5, <2>4, FieldNames DEF Judged, Asked
<1> QED
  BY <1>4, <1>6, <1>7 DEF s

LEMMA RankStep ==
  RankInv /\ Sane /\ Asked /\ [Next]_vars => RankInv'
<1> SUFFICES ASSUME RankInv, Sane, Asked, [Next]_vars PROVE RankInv'
  OBVIOUS
<1>0. RankedSo /\ OnceEach /\ InOrder /\ NotYet /\ DoubtStands /\ NoRescue
  BY DEF RankInv
<1> USE FieldNames
<1>1. CASE Ask \/ Return
  <2>1. /\ rc'.pc \in {"resolve", "idle"} /\ rc'.hits = {} /\ rc'.ranked = <<>>
        /\ rc'.threshold \in Nat /\ ~ rc'.crossed
    <3>1. NoRequest.hits = {} /\ NoRequest.ranked = <<>> /\ ~ NoRequest.crossed /\ NoRequest.threshold = 0
          /\ NoRequest.pc = "idle"
      BY DEF NoRequest
    <3>2. CASE Ask
      <4>1. PICK k \in TopKs, t \in Thresholds, b \in BOOLEAN :
               rc' = [NoRequest EXCEPT !.pc = "resolve", !.topK = k, !.threshold = t,
                                       !.session = b, !.touched = rows # points]
        BY <3>2 DEF Ask
      <4> QED
        BY <3>1, <4>1, OptionsAssumption
    <3>3. CASE Return
      BY <3>1, <3>3 DEF Return
    <3> QED
      BY <1>1, <3>2, <3>3
  <2> QED
    BY <2>1 DEF RankInv, RankedSo, OnceEach, InOrder, NotYet, DoubtStands, NoRescue, RerankingNeverRescues,
       At, Searching, Concluded
<1>2. CASE Resolve
  <2>1. /\ rc'.pc \in {"assess", "embed"} /\ rc'.hits = rc.hits /\ rc'.ranked = <<>>
        /\ rc'.threshold = rc.threshold /\ ~ rc'.crossed
    BY <1>0, <1>2 DEF Resolve, Asked, RankedSo, NotYet, At, Searching, Concluded
  <2>2. IsInjective(<<>>) /\ Descending(<<>>)' /\ <<>> \in Seq(Chunks)
    BY DEF IsInjective, Descending
  <2> QED
    BY <1>0, <2>1, <2>2 DEF RankInv, RankedSo, OnceEach, InOrder, NotYet, DoubtStands,
       NoRescue, RerankingNeverRescues, At, Searching, Concluded
<1>3. CASE Embed
  BY <1>3, RankKeeps DEF Embed, Asked, At, Searching
<1>4. ASSUME NEW k \in KBs, Search(k) PROVE RankInv'
  <2>1. PICK found \in BestFirst(Matching(k, points), rc.topK, Similarity) :
          rc' = [rc EXCEPT !.todo = @ \ {k}, !.hits = @ \cup Range(found)]
    BY <1>4 DEF Search
  <2>2. Range(found) \subseteq Chunks
    <3>1. Matching(k, points) \subseteq Chunks /\ rc.topK \in Nat \ {0}
      BY DEF Matching, Sane
    <3> QED
      BY <2>1, <3>1, BestAreChunks
  <2>3. /\ rc'.pc = "retrieve" /\ rc'.ranked = rc.ranked /\ rc'.hits \subseteq Chunks
        /\ rc'.threshold = rc.threshold /\ rc'.crossed = rc.crossed /\ rc.pc = "retrieve"
    BY <1>0, <1>4, <2>1, <2>2 DEF Search, Asked, RankedSo, At
  <2> QED
    BY <1>0, <2>3 DEF RankInv, RankedSo, OnceEach, InOrder, NotYet, DoubtStands,
       NoRescue, RerankingNeverRescues, At, Searching, Concluded
<1>5. ASSUME NEW k \in KBs, SearchFails(k) PROVE RankInv'
  BY <1>5, RankKeeps DEF SearchFails, Asked
<1>6. CASE Gather
  <2>1. CASE rc.hits = {} /\ rc.errs > 0
    BY <1>6, <2>1, RankKeeps DEF Gather, Asked
  <2>2. CASE ~ (rc.hits = {} /\ rc.errs > 0)
    <3>1. PICK s \in BestFirst(rc.hits, rc.topK, VectorScore) :
            rc' = [rc EXCEPT !.ranked = s, !.pc = IF s = <<>> THEN "assess" ELSE "chunks"]
      BY <1>6, <2>2 DEF Gather
    <3>2. s \in Seq(Chunks) /\ IsInjective(s)
      BY <1>0, <3>1, BestAreChunks DEF RankedSo, Sane
    <3>3. /\ rc'.pc = IF s = <<>> THEN "assess" ELSE "chunks"
          /\ rc'.hits = rc.hits /\ rc'.ranked = s /\ rc'.threshold = rc.threshold /\ ~ rc'.crossed
      BY <1>0, <1>6, <3>1 DEF Gather, Asked, NotYet, At, Concluded
    <3>4. Descending(<<>>)'
      BY DEF Descending
    <3> QED
      BY <1>0, <3>2, <3>3, <3>4 DEF RankInv, RankedSo, OnceEach, InOrder, NotYet, DoubtStands,
         NoRescue, RerankingNeverRescues, At, Searching, Concluded
  <2> QED
    BY <2>1, <2>2
<1>7. CASE LoadChunks
  <2>1. /\ rc'.pc = "rerank" /\ rc'.hits = rc.hits /\ rc'.ranked = rc.ranked
        /\ rc'.threshold = rc.threshold /\ rc'.crossed = rc.crossed /\ rc.pc = "chunks"
    BY <1>7 DEF LoadChunks, Asked, At
  <2> QED
    BY <1>0, <2>1 DEF RankInv, RankedSo, OnceEach, InOrder, NotYet, DoubtStands,
       NoRescue, RerankingNeverRescues, At, Searching, Concluded
<1>8. CASE Rerank
  <2>1. PICK s : s = Sorted(rc.ranked)
    OBVIOUS
  <2>2. s \in Seq(Chunks) /\ IsInjective(s) /\ Descending(s)
    BY <1>0, <1>8, <2>1, SortedIsDescending DEF RankedSo, OnceEach, Rerank, At
  <2>3. /\ rc'.pc = "assess" /\ rc'.hits = rc.hits /\ rc'.ranked = s /\ rc.pc = "rerank"
        /\ rc'.threshold = rc.threshold /\ rc'.crossed = rc.crossed
        /\ rc'.loaded = rc.loaded /\ rc'.topK = rc.topK
    BY <1>8, <2>1 DEF Rerank, Asked, At
  <2>4. Descending(s)'
    BY <2>2, <2>3, ScoresKeep
  <2>5. Descending(rc.ranked)'
    BY <2>3, <2>4
  <2> QED
    BY <1>0, <2>2, <2>3, <2>5 DEF RankInv, RankedSo, OnceEach, InOrder, NotYet, DoubtStands,
       NoRescue, RerankingNeverRescues, At, Searching, Concluded
<1>9. CASE Assess
  <2>1. CASE Doubtful
    <3>1. /\ rc'.pc = "cross" /\ rc'.hits = rc.hits /\ rc'.ranked = rc.ranked /\ rc.pc = "assess"
          /\ rc'.threshold = rc.threshold /\ rc'.crossed = rc.crossed
          /\ rc'.loaded = rc.loaded /\ rc'.topK = rc.topK
      BY <1>9, <2>1 DEF Assess, Asked, At
    <3>2. PICK s : s = rc.ranked
      OBVIOUS
    <3>3. Descending(s)' /\ Confidence(s)' < rc.threshold
      <4>1. Descending(s) /\ Confidence(s) < rc.threshold
        BY <1>0, <2>1, <3>1, <3>2 DEF Doubtful, InOrder
      <4> QED
        BY <3>1, <4>1, ScoresKeep
    <3>4. Descending(rc.ranked)' /\ Confidence(rc.ranked)' < rc.threshold
      BY <3>1, <3>2, <3>3
    <3> QED
      BY <1>0, <3>1, <3>4 DEF RankInv, RankedSo, OnceEach, InOrder, NotYet, DoubtStands,
         NoRescue, RerankingNeverRescues, At, Searching, Concluded
  <2>2. CASE ~ Doubtful
    <3>1. /\ rc'.pc \in {"record", "generate"} /\ rc'.hits = rc.hits /\ rc'.ranked = rc.ranked
          /\ rc'.threshold = rc.threshold /\ ~ rc'.crossed
      BY <1>0, <1>9, <2>2 DEF Assess, Judged, Asked, At, NotYet, Concluded
    <3> QED
      BY <1>0, <3>1 DEF RankInv, RankedSo, OnceEach, InOrder, NotYet, DoubtStands,
         NoRescue, RerankingNeverRescues, At, Searching, Concluded
  <2> QED
    BY <2>1, <2>2
<1>10. CASE CrossRerank
  <2>1. (NoIdTwice => rc'.refused) /\ rc'.ranked \in Seq(Chunks)
    BY <1>10, CrossStep
  <2>2. rc'.pc \in {"record", "generate"} /\ rc'.hits = rc.hits /\ rc'.threshold = rc.threshold
    BY <1>10 DEF CrossRerank, Judged, Asked
  <2> QED
    BY <1>0, <2>1, <2>2 DEF RankInv, RankedSo, OnceEach, InOrder, NotYet, DoubtStands,
       NoRescue, RerankingNeverRescues, At, Searching, Concluded
<1>11. CASE CrossFails
  <2>1. /\ rc'.pc \in {"record", "generate"} /\ rc'.hits = rc.hits /\ rc'.ranked = rc.ranked
        /\ rc'.threshold = rc.threshold /\ ~ rc'.crossed
    BY <1>0, <1>11 DEF CrossFails, Judged, Asked, At, NotYet, Concluded
  <2> QED
    BY <1>0, <2>1 DEF RankInv, RankedSo, OnceEach, InOrder, NotYet, DoubtStands,
       NoRescue, RerankingNeverRescues, At, Searching, Concluded
<1>12. CASE Generate \/ Record \/ CallFails
  <2>1. /\ rc'.ranked = rc.ranked /\ rc'.hits = rc.hits /\ rc'.threshold = rc.threshold
        /\ rc'.loaded = rc.loaded /\ rc'.topK = rc.topK
        /\ rc'.crossed = rc.crossed /\ rc'.refused = rc.refused
        /\ rc'.pc = "error" \/ {rc.pc, rc'.pc} \subseteq Concluded
    <3>1. CASE Generate
      BY <3>1 DEF Generate, Asked, At, Concluded
    <3>2. CASE Record
      BY <3>2 DEF Record, Asked, At, Concluded
    <3>3. CASE CallFails
      BY <3>3 DEF CallFails, Asked
    <3> QED
      BY <1>12, <3>1, <3>2, <3>3
  <2> QED
    BY <2>1, RankKeeps
<1>13. CASE World
  <2>1. rc' = [rc EXCEPT !.touched = ~ At("idle")]
    BY <1>13 DEF World, Change
  <2> QED
    BY <2>1, RankKeeps DEF Asked
<1>14. CASE UNCHANGED vars
  BY <1>14, RankKeeps DEF vars
<1> QED
  BY <1>1, <1>2, <1>3, <1>4, <1>5, <1>6, <1>7, <1>8, <1>9, <1>10, <1>11, <1>12, <1>13, <1>14
     DEF Next, Answering

(* The model's reranking of a doubtful answer never makes it good enough,   *)
(* whatever order it answers with: computeConfidence looks at the first     *)
(* three scores and the number of blocks, and the candidates were sorted by *)
(* score before (steps_rerank.go, assessContext).                           *)
THEOREM RescueIsImpossible ==
  ASSUME NoIdTwice
  PROVE  Spec => []RerankingNeverRescues
<1>1. Init => EvidenceInv /\ SearchInv /\ RankInv
  BY EvidenceInit, SearchInit, RankInit
<1>2. EvidenceInv /\ SearchInv /\ RankInv /\ [Next]_vars => (EvidenceInv /\ SearchInv /\ RankInv)'
  <2>1. EvidenceInv => Sane /\ Asked
    BY DEF EvidenceInv
  <2> QED
    BY <2>1, EvidenceStep, SearchStep, RankStep
<1>3. RankInv => RerankingNeverRescues
  BY NoIdTwice DEF RankInv, NoRescue
<1> QED
  BY <1>1, <1>2, <1>3, PTL DEF Spec

-----------------------------------------------------------------------------
(* While the stores rest every point has its row, so that each block that   *)
(* was found was read, and an answer has one to stand on.                   *)
AtRest(S)  == rc.pc \in S /\ Rested
Reading    == {"rerank", "assess", "cross", "generate", "record", "answered"}
InStep     == ~ At("idle") /\ Rested => rows = points
Found      == AtRest({"retrieve"}) => rc.hits \subseteq points
FoundAll   == AtRest({"chunks"}) => Range(rc.ranked) \subseteq points
ReadAll    == AtRest(Reading) => Range(rc.ranked) \subseteq rc.loaded
Evidence   == rc.pc \in Concluded /\ ~ rc.refused => rc.ranked # <<>>
GroundInv  == InStep /\ Found /\ FoundAll /\ ReadAll /\ Evidence

LEMMA GroundInit == Init => GroundInv
BY DEF Init, GroundInv, InStep, Found, FoundAll, ReadAll, Evidence, AtRest, Reading, Concluded,
   NoRequest, At

(* A step that leaves the ranking, what was read and the verdict alone. *)
LEMMA GroundKeeps ==
  ASSUME GroundInv, points' = points, rows' = rows,
         rc'.ranked = rc.ranked, rc'.hits = rc.hits, rc'.loaded = rc.loaded,
         rc'.refused = rc.refused, rc'.touched = rc.touched,
         \/ rc'.pc = rc.pc
         \/ rc'.pc = "error" /\ rc.pc # "idle"
         \/ {rc.pc, rc'.pc} \subseteq Concluded
         \/ rc.pc = "assess" /\ rc'.pc = "cross"
  PROVE  GroundInv'
BY DEF GroundInv, InStep, Found, FoundAll, ReadAll, Evidence, AtRest, Reading, Concluded, At, Rested

(* The verdict: a ranking of what was ranked, refused when there is none.   *)
LEMMA GroundJudged ==
  ASSUME GroundInv, points' = points, rows' = rows, rc.pc \in {"assess", "cross"},
         Range(rc'.ranked) = Range(rc.ranked), rc'.loaded = rc.loaded, rc'.touched = rc.touched,
         rc'.refused \/ rc'.ranked # <<>>, rc'.pc \in Concluded
  PROVE  GroundInv'
BY DEF GroundInv, InStep, Found, FoundAll, ReadAll, Evidence, AtRest, Reading, Concluded, At, Rested

LEMMA GroundStep ==
  GroundInv /\ RankInv /\ Sane /\ Asked /\ [Next]_vars => GroundInv'
<1> SUFFICES ASSUME GroundInv, RankInv, Sane, Asked, [Next]_vars PROVE GroundInv'
  OBVIOUS
<1>0. InStep /\ Found /\ FoundAll /\ ReadAll /\ Evidence
  BY DEF GroundInv
<1> USE FieldNames
<1>1. CASE Ask
  <2>1. /\ rc'.pc = "resolve" /\ rc'.touched = (rows # points) /\ points' = points /\ rows' = rows
    <3>1. PICK k \in TopKs, t \in Thresholds, b \in BOOLEAN :
             rc' = [NoRequest EXCEPT !.pc = "resolve", !.topK = k, !.threshold = t,
                                     !.session = b, !.touched = rows # points]
      BY <1>1 DEF Ask
    <3>2. points' = points /\ rows' = rows
      BY <1>1 DEF Ask, stores
    <3> QED
      BY <3>1, <3>2
  <2> QED
    BY <2>1 DEF GroundInv, InStep, Found, FoundAll, ReadAll, Evidence, AtRest, Reading, Concluded,
       At, Rested
<1>2. CASE Return
  <2>1. rc'.pc = "idle"
    BY <1>2 DEF Return, NoRequest
  <2> QED
    BY <2>1 DEF GroundInv, InStep, Found, FoundAll, ReadAll, Evidence, AtRest, Reading, Concluded, At
<1>3. CASE Resolve
  <2>1. /\ rc'.pc \in {"assess", "embed"} /\ rc'.ranked = <<>> /\ rc'.touched = rc.touched
        /\ rc.pc = "resolve" /\ points' = points /\ rows' = rows
    BY <1>3 DEF Resolve, Asked, RankInv, RankedSo, Searching, At, stores
  <2>2. Range(<<>>) = {}
    BY DEF Range
  <2> QED
    BY <1>0, <2>1, <2>2 DEF GroundInv, InStep, Found, FoundAll, ReadAll, Evidence, AtRest, Reading,
       Concluded, At, Rested
<1>4. CASE Embed
  <2>1. /\ rc'.pc = "retrieve" /\ rc'.hits = {} /\ rc'.touched = rc.touched
        /\ rc.pc = "embed" /\ points' = points /\ rows' = rows
    BY <1>4 DEF Embed, Asked, At, stores
  <2> QED
    BY <1>0, <2>1 DEF GroundInv, InStep, Found, FoundAll, ReadAll, Evidence, AtRest, Reading,
       Concluded, At, Rested
<1>5. ASSUME NEW k \in KBs, Search(k) PROVE GroundInv'
  <2>1. PICK found \in BestFirst(Matching(k, points), rc.topK, Similarity) :
          rc' = [rc EXCEPT !.todo = @ \ {k}, !.hits = @ \cup Range(found)]
    BY <1>5 DEF Search
  <2>2. Range(found) \subseteq points
    <3>1. Matching(k, points) \subseteq Chunks /\ Matching(k, points) \subseteq points
          /\ rc.topK \in Nat \ {0}
      BY DEF Matching, Sane
    <3>2. Range(found) \subseteq Matching(k, points)
      BY <2>1, <3>1, BestAreChunks
    <3> QED
      BY <3>1, <3>2
  <2>3. /\ rc'.pc = "retrieve" /\ rc'.hits = rc.hits \cup Range(found) /\ rc'.touched = rc.touched
        /\ rc.pc = "retrieve" /\ points' = points /\ rows' = rows
    BY <1>5, <2>1 DEF Search, Asked, At, stores
  <2>4. InStep'
    BY <1>0, <2>3 DEF InStep, At, Rested
  <2>5. Found'
    <3> SUFFICES ASSUME ~ rc.touched PROVE rc'.hits \subseteq points
      BY <2>3 DEF Found, AtRest, Rested
    <3>1. rc.hits \subseteq points
      BY <1>0, <2>3 DEF Found, AtRest, Rested
    <3> QED
      BY <2>2, <2>3, <3>1
  <2>6. FoundAll' /\ ReadAll' /\ Evidence'
    BY <2>3 DEF FoundAll, ReadAll, Evidence, AtRest, Reading, Concluded
  <2> QED
    BY <2>4, <2>5, <2>6 DEF GroundInv
<1>6. ASSUME NEW k \in KBs, SearchFails(k) PROVE GroundInv'
  <2>1. /\ rc'.pc = rc.pc /\ rc'.ranked = rc.ranked /\ rc'.hits = rc.hits /\ rc'.loaded = rc.loaded
        /\ rc'.refused = rc.refused /\ rc'.touched = rc.touched /\ points' = points /\ rows' = rows
    BY <1>6 DEF SearchFails, Asked, stores
  <2> QED
    BY <2>1, GroundKeeps
<1>7. CASE Gather
  <2>1. CASE rc.hits = {} /\ rc.errs > 0
    BY <1>7, <2>1, GroundKeeps DEF Gather, Asked, At, stores
  <2>2. CASE ~ (rc.hits = {} /\ rc.errs > 0)
    <3>1. PICK s \in BestFirst(rc.hits, rc.topK, VectorScore) :
            rc' = [rc EXCEPT !.ranked = s, !.pc = IF s = <<>> THEN "assess" ELSE "chunks"]
      BY <1>7, <2>2 DEF Gather
    <3>2. Range(s) \subseteq rc.hits
      BY <3>1, BestAreChunks DEF RankInv, RankedSo, Sane
    <3>3. /\ rc'.pc = IF s = <<>> THEN "assess" ELSE "chunks"
          /\ rc'.ranked = s /\ rc'.touched = rc.touched
          /\ rc.pc = "retrieve" /\ points' = points /\ rows' = rows
      BY <1>7, <3>1 DEF Gather, Asked, At, stores
    <3>4. Range(<<>>) = {}
      BY DEF Range
    <3> QED
      BY <1>0, <3>2, <3>3, <3>4 DEF GroundInv, InStep, Found, FoundAll, ReadAll, Evidence, AtRest,
         Reading, Concluded, At, Rested
  <2> QED
    BY <2>1, <2>2
<1>8. CASE LoadChunks
  <2>1. /\ rc'.pc = "rerank" /\ rc'.ranked = rc.ranked /\ rc'.loaded = Range(rc.ranked) \cap rows
        /\ rc'.touched = rc.touched /\ rc.pc = "chunks" /\ points' = points /\ rows' = rows
    BY <1>8 DEF LoadChunks, Asked, At, stores
  <2> QED
    BY <1>0, <2>1 DEF GroundInv, InStep, Found, FoundAll, ReadAll, Evidence, AtRest, Reading,
       Concluded, At, Rested
<1>9. CASE Rerank
  <2>1. PICK s : s = Sorted(rc.ranked)
    OBVIOUS
  <2>2. Range(s) = Range(rc.ranked)
    BY <2>1, SortedIsDescending DEF RankInv, RankedSo
  <2>3. /\ rc'.pc = "assess" /\ rc'.ranked = s /\ rc'.loaded = rc.loaded
        /\ rc'.touched = rc.touched /\ rc.pc = "rerank" /\ points' = points /\ rows' = rows
    BY <1>9, <2>1 DEF Rerank, Asked, At, stores
  <2> QED
    BY <1>0, <2>2, <2>3 DEF GroundInv, InStep, Found, FoundAll, ReadAll, Evidence, AtRest, Reading,
       Concluded, At, Rested
<1>10. CASE Assess
  <2>1. CASE Doubtful
    BY <1>10, <2>1, GroundKeeps DEF Assess, Asked, At, stores
  <2>2. CASE ~ Doubtful
    BY <1>10, <2>2, GroundJudged DEF Assess, Judged, Asked, At, Concluded, stores
  <2> QED
    BY <2>1, <2>2
<1>11. CASE CrossRerank
  <2>1. PICK order \in Orders :
          rc' = Judged([rc EXCEPT !.crossed = TRUE], Reordered(rc.ranked, order))
    BY <1>11 DEF CrossRerank
  <2>2. PICK s : s = Reordered(rc.ranked, order)
    OBVIOUS
  <2>3. Range(s) = Range(rc.ranked)
    BY <2>2, OrdersAssumption, ReorderedPermutes DEF RankInv, RankedSo
  <2>4. rc' = Judged([rc EXCEPT !.crossed = TRUE], s) /\ rc.pc = "cross" /\ points' = points /\ rows' = rows
    BY <1>11, <2>1, <2>2 DEF CrossRerank, At, stores
  <2>5. /\ rc'.ranked = s /\ rc'.loaded = rc.loaded /\ rc'.touched = rc.touched
        /\ rc'.pc \in Concluded /\ (rc'.refused \/ rc'.ranked # <<>>)
    BY <2>4 DEF Judged, Asked, Concluded
  <2> QED
    BY <2>3, <2>4, <2>5, GroundJudged
<1>12. CASE CrossFails
  BY <1>12, GroundJudged DEF CrossFails, Judged, Asked, At, Concluded, stores
<1>13. CASE Generate \/ Record \/ CallFails
  <2>1. CASE Generate
    BY <2>1, GroundKeeps DEF Generate, Asked, At, Concluded, stores
  <2>2. CASE Record
    BY <2>2, GroundKeeps DEF Record, Asked, At, Concluded, stores
  <2>3. CASE CallFails
    BY <2>3, GroundKeeps DEF CallFails, Asked, At, Concluded, stores
  <2> QED
    BY <1>13, <2>1, <2>2, <2>3
<1>14. CASE World
  <2>1. rc' = [rc EXCEPT !.touched = ~ At("idle")]
    BY <1>14 DEF World, Change
  <2>2. rc'.pc = rc.pc /\ rc'.ranked = rc.ranked /\ rc'.refused = rc.refused
    BY <2>1 DEF Asked
  <2>3. Evidence'
    BY <1>0, <2>2 DEF Evidence
  <2>4. At("idle") \/ rc'.touched
    BY <2>1 DEF Asked
  <2>5. InStep' /\ Found' /\ FoundAll' /\ ReadAll'
    BY <2>2, <2>4 DEF InStep, Found, FoundAll, ReadAll, AtRest, Reading, At, Rested
  <2> QED
    BY <2>3, <2>5 DEF GroundInv
<1>15. CASE UNCHANGED vars
  <2>1. rc' = rc /\ points' = points /\ rows' = rows
    BY <1>15 DEF vars
  <2> QED
    BY <2>1, GroundKeeps
<1> QED
  BY <1>1, <1>2, <1>3, <1>4, <1>5, <1>6, <1>7, <1>8, <1>9, <1>10, <1>11, <1>12, <1>13, <1>14, <1>15
     DEF Next, Answering

(* While the stores rest, every block that is cited was read, and a model   *)
(* that is asked is shown the best one first (steps_prompt.go selectContext,*)
(* steps_retrieve.go loadChunks).                                           *)
THEOREM AnswersAreGrounded == Spec => []GroundedAtRest
<1>1. Init => EvidenceInv /\ SearchInv /\ RankInv /\ GroundInv
  BY EvidenceInit, SearchInit, RankInit, GroundInit
<1>2. EvidenceInv /\ SearchInv /\ RankInv /\ GroundInv /\ [Next]_vars
        => (EvidenceInv /\ SearchInv /\ RankInv /\ GroundInv)'
  <2>1. EvidenceInv => Sane /\ Asked
    BY DEF EvidenceInv
  <2> QED
    BY <2>1, EvidenceStep, SearchStep, RankStep, GroundStep
<1>3. RankInv /\ GroundInv => GroundedAtRest
  <2> SUFFICES ASSUME RankInv, GroundInv, rc.pc \in Concluded, Rested
               PROVE  /\ Range(rc.ranked) \subseteq rc.loaded
                      /\ ~ rc.refused => 1 \in Shown(rc.ranked, rc.loaded)
    BY DEF GroundedAtRest, Concluded
  <2>1. Range(rc.ranked) \subseteq rc.loaded
    BY DEF GroundInv, ReadAll, AtRest, Reading, Concluded
  <2>2. ASSUME ~ rc.refused PROVE 1 \in Shown(rc.ranked, rc.loaded)
    <3>1. PICK s, loaded : s = rc.ranked /\ loaded = rc.loaded
      OBVIOUS
    <3>2. s \in Seq(Chunks) /\ s # <<>>
      BY <2>2, <3>1 DEF GroundInv, Evidence, RankInv, RankedSo
    <3>3. s[1] \in loaded
      BY <2>1, <3>1, <3>2 DEF Range
    <3>4. 1 \in Shown(s, loaded)
      BY <3>2, <3>3, FirstIsShown
    <3> QED
      BY <3>1, <3>4
  <2> QED
    BY <2>1, <2>2
<1> QED
  BY <1>1, <1>2, <1>3, PTL DEF Spec

-----------------------------------------------------------------------------
(* Types.                                                                   *)

LEMMA ConfidenceIsPercent ==
  ASSUME NEW s \in Seq(Chunks), rc.topK \in Nat \ {0}
  PROVE  Confidence(s) \in Percents
<1>1. CASE s = <<>>
  BY <1>1 DEF Confidence, Percents
<1>2. CASE s # <<>>
  <2> DEFINE lead     == Least(3, Len(s))
             Lead(i)  == IF i <= lead THEN CombinedScore(s[i]) ELSE 0
             average  == (Lead(1) + Lead(2) + Lead(3)) \div lead
             coverage == (100 * Least(Len(s), rc.topK)) \div rc.topK
  <2>1. Len(s) \in Nat \ {0} /\ lead \in {1, 2, 3} /\ lead <= Len(s)
    <3>1. Len(s) \in Nat \ {0}
      BY <1>2
    <3>2. \A n \in Nat \ {0} : Least(3, n) \in {1, 2, 3} /\ Least(3, n) <= n
      BY DEF Least
    <3> QED
      BY <3>1, <3>2
  <2>2. \A i \in {1, 2, 3} : Lead(i) \in Nat
    <3> SUFFICES ASSUME NEW i \in {1, 2, 3}, i <= lead PROVE CombinedScore(s[i]) \in Nat
      OBVIOUS
    <3>1. s[i] \in Chunks
      BY <2>1
    <3> QED
      BY <3>1, ScoresAreNumbers
  <2>3. \A a, b, c \in Nat, l \in {1, 2, 3} : (a + b + c) \div l \in Nat
    OBVIOUS
  <2>4. average \in Nat
    <3> HIDE DEF Lead, lead
    <3> QED
      BY <2>1, <2>2, <2>3
  <2>5. coverage \in Nat
    <3>1. \A a \in Nat, b \in Nat \ {0} : (100 * a) \div b \in Nat
      OBVIOUS
    <3>2. Least(Len(s), rc.topK) \in Nat
      BY <2>1 DEF Least
    <3> QED
      BY <3>1, <3>2
  <2>6. \A a, c \in Nat : Least((80 * a + 20 * c) \div 100, 100) \in 0 .. 100
    BY SMTT(30) DEF Least
  <2>7. Confidence(s) = Least((80 * average + 20 * coverage) \div 100, 100)
    BY <1>2 DEF Confidence
  <2> HIDE DEF average, coverage
  <2> QED
    BY <2>4, <2>5, <2>6, <2>7, ZenonT(60) DEF Percents
<1> QED
  BY <1>1, <1>2

(* Each failed search is a failed call. *)
Request == [pc : Steps, topK : TopKs \cup {1}, threshold : Thresholds \cup {0},
            session : BOOLEAN, kbs : SUBSET KBs, todo : SUBSET KBs, hits : SUBSET Chunks,
            errs : 0 .. MaxFailures, ranked : Seq(Chunks), loaded : SUBSET Chunks,
            confidence : Percents, crossed : BOOLEAN, refused : BOOLEAN, saved : BOOLEAN,
            failures : 0 .. MaxFailures, touched : BOOLEAN]
TypeInv ==
  /\ points \subseteq Chunks /\ rows \subseteq Chunks /\ bound \subseteq KBs
  /\ changes \in 0 .. MaxChanges
  /\ rc \in Request /\ rc.errs <= rc.failures

LEMMA TypeInit == Init => TypeInv
<1>1. NoRequest \in Request /\ NoRequest.errs = 0 /\ NoRequest.failures = 0
  BY OptionsAssumption DEF NoRequest, Request, Steps, Percents
<1> QED
  BY <1>1, OptionsAssumption DEF Init, TypeInv

(* The verdict is well typed. *)
LEMMA JudgedType ==
  ASSUME NEW r \in Request, NEW s \in Seq(Chunks), rc.topK \in Nat \ {0}
  PROVE  Judged(r, s) \in Request /\ Judged(r, s).errs = r.errs /\ Judged(r, s).failures = r.failures
<1>1. PICK p : p = Confidence(s)
  OBVIOUS
<1>2. p \in Percents
  BY <1>1, ConfidenceIsPercent
<1> QED
  BY <1>1, <1>2 DEF Judged, Request, Steps

LEMMA TypeStep == TypeInv /\ [Next]_vars => TypeInv'
<1> SUFFICES ASSUME TypeInv, [Next]_vars PROVE TypeInv'
  OBVIOUS
<1>0. /\ points \subseteq Chunks /\ rows \subseteq Chunks /\ bound \subseteq KBs
      /\ changes \in 0 .. MaxChanges /\ rc \in Request /\ rc.errs <= rc.failures
      /\ rc.topK \in Nat \ {0}
  <2>1. rc.topK \in TopKs \cup {1}
    BY DEF TypeInv, Request
  <2>2. \A k \in TopKs \cup {1} : k \in Nat \ {0}
    BY OptionsAssumption
  <2>3. rc.topK \in Nat \ {0}
    BY <2>1, <2>2
  <2> QED
    BY <2>3 DEF TypeInv
<1>a. ASSUME UNCHANGED stores, rc' \in Request, rc'.errs <= rc'.failures PROVE TypeInv'
  BY <1>0, <1>a DEF TypeInv, stores
<1>1. CASE Ask
  <2>1. PICK k \in TopKs, t \in Thresholds, b \in BOOLEAN :
           rc' = [NoRequest EXCEPT !.pc = "resolve", !.topK = k, !.threshold = t,
                                   !.session = b, !.touched = rows # points]
    BY <1>1 DEF Ask
  <2>2. NoRequest \in Request /\ NoRequest.errs = 0 /\ NoRequest.failures = 0
    BY OptionsAssumption DEF NoRequest, Request, Steps, Percents
  <2>3. PICK x \in BOOLEAN : x = (rows # points)
    OBVIOUS
  <2>4. PICK r : r = NoRequest
    OBVIOUS
  <2>5. rc' = [r EXCEPT !.pc = "resolve", !.topK = k, !.threshold = t, !.session = b, !.touched = x]
    BY <2>1, <2>3, <2>4
  <2>6. rc' \in Request /\ rc'.errs = 0 /\ rc'.failures = 0
    BY <2>2, <2>4, <2>5, ZenonT(60) DEF Request, Steps
  <2> QED
    BY <1>1, <1>a, <2>6 DEF Ask
<1>2. CASE Resolve
  <2>1. PICK x \in BOOLEAN : x = (bound = {})
    OBVIOUS
  <2>2. rc' \in Request /\ rc'.errs = rc.errs /\ rc'.failures = rc.failures
    BY <1>0, <1>2, <2>1, ZenonT(60) DEF Resolve, Request, Steps
  <2> QED
    BY <1>0, <1>2, <1>a, <2>2 DEF Resolve
<1>3. CASE Embed
  <2>1. rc' \in Request /\ rc'.errs = rc.errs /\ rc'.failures = rc.failures
    BY <1>0, <1>3 DEF Embed, Request, Steps
  <2> QED
    BY <1>0, <1>3, <1>a, <2>1 DEF Embed
<1>4. ASSUME NEW k \in KBs, Search(k) PROVE TypeInv'
  <2>1. PICK found \in BestFirst(Matching(k, points), rc.topK, Similarity) :
          rc' = [rc EXCEPT !.todo = @ \ {k}, !.hits = @ \cup Range(found)]
    BY <1>4 DEF Search
  <2>2. Range(found) \subseteq Chunks
    <3>1. Matching(k, points) \subseteq Chunks
      BY <1>0 DEF Matching
    <3> QED
      BY <1>0, <2>1, <3>1, BestAreChunks
  <2>3. rc' \in Request /\ rc'.errs = rc.errs /\ rc'.failures = rc.failures
    BY <1>0, <2>1, <2>2 DEF Request
  <2> QED
    BY <1>0, <1>4, <1>a, <2>3 DEF Search
<1>5. ASSUME NEW k \in KBs, SearchFails(k) PROVE TypeInv'
  <2>1. rc.errs + 1 \in 0 .. MaxFailures /\ rc.failures + 1 \in 0 .. MaxFailures
    BY <1>0, <1>5, OptionsAssumption DEF SearchFails, Request
  <2>2. rc' \in Request /\ rc'.errs = rc.errs + 1 /\ rc'.failures = rc.failures + 1
    BY <1>0, <1>5, <2>1 DEF SearchFails, Request
  <2>3. rc'.errs <= rc'.failures
    BY <1>0, <2>2, OptionsAssumption DEF Request
  <2> QED
    BY <1>5, <1>a, <2>2, <2>3 DEF SearchFails
<1>6. CASE Gather
  <2>1. rc' \in Request /\ rc'.errs = rc.errs /\ rc'.failures = rc.failures
    <3>1. CASE rc.hits = {} /\ rc.errs > 0
      BY <1>0, <1>6, <3>1 DEF Gather, Request, Steps
    <3>2. CASE ~ (rc.hits = {} /\ rc.errs > 0)
      <4>1. PICK s \in BestFirst(rc.hits, rc.topK, VectorScore) :
              rc' = [rc EXCEPT !.ranked = s, !.pc = IF s = <<>> THEN "assess" ELSE "chunks"]
        BY <1>6, <3>2 DEF Gather
      <4>2. rc.hits \subseteq Chunks
        BY <1>0 DEF Request
      <4>3. s \in Seq(Chunks)
        BY <1>0, <4>1, <4>2, BestAreChunks
      <4> QED
        BY <1>0, <4>1, <4>3 DEF Request, Steps
    <3> QED
      BY <3>1, <3>2
  <2> QED
    BY <1>0, <1>6, <1>a, <2>1 DEF Gather
<1>7. CASE LoadChunks
  <2>1. Range(rc.ranked) \cap rows \subseteq Chunks
    BY <1>0
  <2>2. rc' \in Request /\ rc'.errs = rc.errs /\ rc'.failures = rc.failures
    BY <1>0, <1>7, <2>1 DEF LoadChunks, Request, Steps
  <2> QED
    BY <1>0, <1>7, <1>a, <2>2 DEF LoadChunks
<1>8. CASE Rerank
  <2>1. PICK s : s = Sorted(rc.ranked)
    OBVIOUS
  <2>2. s \in Seq(Chunks)
    BY <1>0, <2>1, SortedIsDescending DEF Request
  <2>3. rc' \in Request /\ rc'.errs = rc.errs /\ rc'.failures = rc.failures
    BY <1>0, <1>8, <2>1, <2>2 DEF Rerank, Request, Steps
  <2> QED
    BY <1>0, <1>8, <1>a, <2>3 DEF Rerank
<1>9. CASE Assess
  <2>1. CASE Doubtful
    <3>1. rc' \in Request /\ rc'.errs = rc.errs /\ rc'.failures = rc.failures
      BY <1>0, <1>9, <2>1 DEF Assess, Request, Steps
    <3> QED
      BY <1>0, <1>9, <1>a, <3>1 DEF Assess
  <2>2. CASE ~ Doubtful
    <3>1. rc' = Judged(rc, rc.ranked) /\ rc.ranked \in Seq(Chunks)
      BY <1>0, <1>9, <2>2 DEF Assess, Request
    <3>2. rc' \in Request /\ rc'.errs = rc.errs /\ rc'.failures = rc.failures
      BY <1>0, <3>1, JudgedType
    <3> QED
      BY <1>0, <1>9, <1>a, <3>2 DEF Assess
  <2> QED
    BY <2>1, <2>2
<1>10. CASE CrossRerank
  <2>1. PICK order \in Orders :
          rc' = Judged([rc EXCEPT !.crossed = TRUE], Reordered(rc.ranked, order))
    BY <1>10 DEF CrossRerank
  <2>2. PICK s, r : s = Reordered(rc.ranked, order) /\ r = [rc EXCEPT !.crossed = TRUE]
    OBVIOUS
  <2>3. rc.ranked \in Seq(Chunks)
    BY <1>0 DEF Request
  <2>4. s \in Seq(Chunks)
    BY <2>2, <2>3, OrdersAssumption, ReorderedPermutes
  <2>5. r \in Request /\ r.errs = rc.errs /\ r.failures = rc.failures
    BY <1>0, <2>2 DEF Request
  <2>6. rc' \in Request /\ rc'.errs = rc.errs /\ rc'.failures = rc.failures
    BY <1>0, <2>1, <2>2, <2>4, <2>5, JudgedType
  <2> QED
    BY <1>0, <1>10, <1>a, <2>6 DEF CrossRerank
<1>11. CASE CrossFails
  <2>1. PICK r : r = [rc EXCEPT !.failures = @ + 1]
    OBVIOUS
  <2>2. rc.ranked \in Seq(Chunks)
    BY <1>0 DEF Request
  <2>3. rc.failures + 1 \in 0 .. MaxFailures /\ rc.errs <= rc.failures + 1
    BY <1>0, <1>11, OptionsAssumption DEF CrossFails, Request
  <2>4. r \in Request /\ r.errs = rc.errs /\ r.failures = rc.failures + 1
    BY <1>0, <2>1, <2>3 DEF Request
  <2>5. rc' = Judged(r, rc.ranked)
    BY <1>11, <2>1 DEF CrossFails
  <2>6. rc' \in Request /\ rc'.errs = rc.errs /\ rc'.failures = rc.failures + 1
    BY <1>0, <2>2, <2>4, <2>5, JudgedType
  <2> QED
    BY <1>11, <1>a, <2>3, <2>6 DEF CrossFails
<1>12. CASE Generate
  <2>1. rc' \in Request /\ rc'.errs = rc.errs /\ rc'.failures = rc.failures
    BY <1>0, <1>12 DEF Generate, Request, Steps
  <2> QED
    BY <1>0, <1>12, <1>a, <2>1 DEF Generate
<1>13. CASE Record
  <2>1. PICK p : p = (IF Encodable THEN "answered" ELSE "error")
    OBVIOUS
  <2>2. rc' = [rc EXCEPT !.saved = rc.session, !.pc = p] /\ p \in Steps
    BY <1>13, <2>1 DEF Record, Steps
  <2>3. rc' \in Request /\ rc'.errs = rc.errs /\ rc'.failures = rc.failures
    BY <1>0, <2>2 DEF Request
  <2> QED
    BY <1>0, <1>13, <1>a, <2>3 DEF Record
<1>14. CASE CallFails
  <2>1. PICK b \in BOOLEAN : rc' = [rc EXCEPT !.pc = "error", !.failures = @ + 1, !.saved = b]
    BY <1>14 DEF CallFails, At
  <2>2. rc.failures + 1 \in 0 .. MaxFailures /\ rc.errs <= rc.failures + 1
    BY <1>0, <1>14, OptionsAssumption DEF CallFails, Request
  <2>3. rc' \in Request /\ rc'.errs = rc.errs /\ rc'.failures = rc.failures + 1
    BY <1>0, <2>1, <2>2 DEF Request, Steps
  <2> QED
    BY <1>14, <1>a, <2>2, <2>3 DEF CallFails
<1>15. CASE Return
  <2>1. NoRequest \in Request /\ NoRequest.errs = 0 /\ NoRequest.failures = 0
    BY OptionsAssumption DEF NoRequest, Request, Steps, Percents
  <2> QED
    BY <1>15, <1>a, <2>1 DEF Return
<1>16. CASE World
  <2>1. rc' = [rc EXCEPT !.touched = ~ At("idle")] /\ changes' = changes + 1 /\ changes < MaxChanges
    BY <1>16 DEF World, Change
  <2>2. PICK x \in BOOLEAN : x = (~ At("idle"))
    OBVIOUS
  <2>3. rc' \in Request /\ rc'.errs = rc.errs /\ rc'.failures = rc.failures
    BY <1>0, <2>1, <2>2 DEF Request
  <2>4. points' \subseteq Chunks /\ rows' \subseteq Chunks /\ bound' \subseteq KBs
    BY <1>0, <1>16 DEF World, IndexPoint, IndexRow, CleanRow, CleanPoint, Bind, Unbind
  <2>5. changes' \in 0 .. MaxChanges
    BY <1>0, <2>1, OptionsAssumption
  <2> QED
    BY <1>0, <2>3, <2>4, <2>5 DEF TypeInv
<1>17. CASE UNCHANGED vars
  BY <1>0, <1>17, <1>a DEF vars, stores
<1> QED
  BY <1>1, <1>2, <1>3, <1>4, <1>5, <1>6, <1>7, <1>8, <1>9, <1>10, <1>11, <1>12, <1>13, <1>14,
     <1>15, <1>16, <1>17 DEF Next, Answering

(* The request, its scores and the stores are well typed whatever fails:    *)
(* computeConfidence always returns a percentage (scoring.go).              *)
THEOREM TypeCorrect == Spec => []TypeOK
<1>1. TypeInv => TypeOK
  BY DEF TypeInv, TypeOK, Request
<1> QED
  BY <1>1, TypeInit, TypeStep, PTL DEF Spec
=============================================================================
