--------------------------- MODULE AnswerPipeline ---------------------------
(***************************************************************************)
(* One question answered: RAGService.SendMessage and the pipeline it runs  *)
(* (internal/rag/biz, data, service), over the two stores the ingestion    *)
(* writes.  The pipeline resolves the knowledge bases of the bot, searches *)
(* them concurrently in Qdrant, loads the chunk rows from MySQL, reranks,  *)
(* decides whether the evidence is good enough and asks the model.  Every  *)
(* call to a store or to a model is one step; ingestion, clean-up and the  *)
(* console's bindings go on between them.                                  *)
(*                                                                         *)
(* Scores, weights and confidence are percentages.                         *)
(***************************************************************************)
EXTENDS Naturals, FiniteSets, SequencesExt

CONSTANTS
  KBs,              \* knowledge bases
  Chunks,           \* chunk ids
  KBOf,             \* kb_id in the payload of a chunk's point
  DocOf,            \* document of a chunk
  TextOf,           \* fingerprint of a chunk's content
  Weight,           \* bot_kb.weight of a knowledge base
  Similarity,       \* of a chunk's vector to the question's
  Overlap,          \* of a chunk's words with the question's
  CutInCharacter,   \* chunks whose 200th byte is inside a character
  RerankWeight,     \* options of the process, options.go
  MaxContextBlocks, MaxBlocksPerDoc,
  TopKs, Thresholds,\* what requests ask for, or the configured defaults
  Orders,           \* answers of the model to the ranking prompt: sequences of ids
  MaxChanges,       \* bound on the changes of the stores and bindings
  MaxFailures       \* bound on the failed calls of one request

Percents == 0 .. 100

ASSUME ChunksAssumption ==
  /\ IsFiniteSet(Chunks)
  /\ KBOf \in [Chunks -> KBs]
  /\ Weight \in [KBs -> Nat]
  /\ Similarity \in [Chunks -> Percents] /\ Overlap \in [Chunks -> Nat]
ASSUME OptionsAssumption ==
  /\ RerankWeight \in Percents
  /\ TopKs \subseteq Nat \ {0} /\ Thresholds \subseteq Nat
  /\ MaxContextBlocks \in Nat \ {0} /\ MaxBlocksPerDoc \in Nat \ {0}
  /\ MaxChanges \in Nat /\ MaxFailures \in Nat
ASSUME OrdersAssumption == \A order \in Orders : order \in Seq(Range(order))

VARIABLES
  points,   \* the points of the Qdrant collection
  rows,     \* the doc_chunk table
  bound,    \* the knowledge bases bot_kb gives the bot
  changes,  \* changes so far
  rc        \* the request and its ragContext

vars == <<points, rows, bound, changes, rc>>
stores == <<points, rows, bound, changes>>

NoRequest ==
  [pc |-> "idle", topK |-> 1, threshold |-> 0, session |-> FALSE,
   kbs |-> {}, todo |-> {}, hits |-> {}, errs |-> 0, ranked |-> <<>>, loaded |-> {},
   confidence |-> 0, crossed |-> FALSE, refused |-> FALSE, saved |-> FALSE,
   failures |-> 0, touched |-> FALSE]

Init ==
  /\ points \in SUBSET Chunks /\ rows \in SUBSET points  \* an ingestion may be under way
  /\ bound \in SUBSET KBs
  /\ changes = 0
  /\ rc = NoRequest

-----------------------------------------------------------------------------
(* Scoring, scoring.go and steps_rerank.go.                                 *)

Least(a, b) == IF a <= b THEN a ELSE b

(* deriveRetrieveThreshold *)
MinScore == Least((rc.threshold * 20) \div 100, 20)

(* The weight of a binding that is not positive counts as 1. *)
WeightOf(k)      == IF Weight[k] = 0 THEN 1 ELSE Weight[k]
VectorScore      == [c \in Chunks |-> Similarity[c] * WeightOf(KBOf[c])]

(* A chunk that is in the index but has no row has no words. *)
TextScore(c)     == IF c \in rc.loaded THEN Overlap[c] ELSE 0
CombinedScore(c) == (VectorScore[c] * (100 - RerankWeight) + TextScore(c) * RerankWeight) \div 100

(* The sequences of the n best of a set, ties in any order: a search answer *)
(* and rankAndFilter, which sorts what it takes from a map.                 *)
BestFirst(S, n, score) ==
  {s \in [1 .. Least(n, Cardinality(S)) -> S] :
     /\ IsInjective(s)
     /\ \A i, j \in DOMAIN s : i < j => score[s[i]] >= score[s[j]]
     /\ \A c \in S \ Range(s), i \in DOMAIN s : score[s[i]] >= score[c]}

(* The elements of s at the places that rank numbers, in the order of their *)
(* numbers.                                                                 *)
ByRank(s, rank) ==
  [p \in 1 .. Cardinality(DOMAIN rank) |-> s[CHOOSE i \in DOMAIN rank : rank[i] = p]]

(* sort.SliceStable by descending score. *)
Place(s, i) ==
  Cardinality({j \in DOMAIN s : \/ CombinedScore(s[j]) > CombinedScore(s[i])
                                \/ CombinedScore(s[j]) = CombinedScore(s[i]) /\ j <= i})
Sorted(s) == ByRank(s, [i \in DOMAIN s |-> Place(s, i)])

(* The elements of s that are in S, in the order of s. *)
Keeping(s, S) ==
  LET places == {i \in DOMAIN s : s[i] \in S}
  IN ByRank(s, [i \in places |-> Cardinality({j \in places : j <= i})])

(* computeConfidence: the average of the first three, and the coverage. *)
Confidence(s) ==
  IF s = <<>> THEN 0 ELSE
  LET lead     == Least(3, Len(s))
      Lead(i)  == IF i <= lead THEN CombinedScore(s[i]) ELSE 0
      average  == (Lead(1) + Lead(2) + Lead(3)) \div lead
      coverage == (100 * Least(Len(s), rc.topK)) \div rc.topK
  IN Least((80 * average + 20 * coverage) \div 100, 100)

(* A plausible slip: what the model left out is dropped. *)
ReorderedDropping(s, order) == Keeping(order, Range(s))

(* applyRerankOrder: the known ids in the order the model gave them, then   *)
(* the candidates it left out.                                              *)
Reordered(s, order) ==
  Keeping(order, Range(s)) \o Keeping(s, Range(s) \ Range(order))

(* selectContext: whether the block at i goes with those kept before it. No  *)
(* text twice, at most MaxBlocksPerDoc of a document, MaxContextBlocks.     *)
Fits(s, loaded, i, kept) ==
  /\ s[i] \in loaded
  /\ \A j \in kept : TextOf[s[j]] # TextOf[s[i]]
  /\ Cardinality({j \in kept : DocOf[s[j]] = DocOf[s[i]]}) < MaxBlocksPerDoc
  /\ Cardinality(kept) < MaxContextBlocks

(* The places of the ranking that are shown to the model. *)
Shown(s, loaded) ==
  CHOOSE shown \in SUBSET DOMAIN s :
    \A i \in DOMAIN s : i \in shown <=> Fits(s, loaded, i, {j \in shown : j < i})

-----------------------------------------------------------------------------
(* The pipeline, pipeline.go.                                               *)

At(l) == rc.pc = l

(* initContext: TopK and Threshold of the request, or the defaults. *)
Ask ==
  /\ At("idle")
  /\ \E k \in TopKs, t \in Thresholds, s \in BOOLEAN :
       rc' = [NoRequest EXCEPT !.pc = "resolve", !.topK = k, !.threshold = t, !.session = s,
                               !.touched = rows # points]
  /\ UNCHANGED stores

(* resolveContext: a bot without knowledge bases skips to the assessment. *)
Resolve ==
  /\ At("resolve")
  /\ rc' = [rc EXCEPT !.pc = IF bound = {} THEN "assess" ELSE "embed",
                      !.kbs = bound, !.refused = (bound = {})]
  /\ UNCHANGED stores

Embed ==
  /\ At("embed")
  /\ rc' = [rc EXCEPT !.pc = "retrieve", !.todo = rc.kbs]
  /\ UNCHANGED stores

(* retrieveContext: one goroutine per knowledge base; the searches end in   *)
(* any order, and an error of one is only counted.                          *)
Matching(k, ps) == {c \in ps : KBOf[c] = k /\ Similarity[c] >= MinScore}

(* A plausible slip: the searches share the limit among them. *)
SearchSharing(k) ==
  /\ At("retrieve") /\ k \in rc.todo
  /\ \E found \in BestFirst(Matching(k, points), rc.topK \div Cardinality(rc.kbs), Similarity) :
       rc' = [rc EXCEPT !.todo = @ \ {k}, !.hits = @ \cup Range(found)]
  /\ UNCHANGED stores

Search(k) ==
  /\ At("retrieve") /\ k \in rc.todo
  /\ \E found \in BestFirst(Matching(k, points), rc.topK, Similarity) :
       rc' = [rc EXCEPT !.todo = @ \ {k}, !.hits = @ \cup Range(found)]
  /\ UNCHANGED stores

SearchFails(k) ==
  /\ At("retrieve") /\ k \in rc.todo
  /\ rc.failures < MaxFailures
  /\ rc' = [rc EXCEPT !.todo = @ \ {k}, !.errs = @ + 1, !.failures = @ + 1]
  /\ UNCHANGED stores

(* A plausible slip: every error of a search is dropped. *)
GatherDroppingErrors ==
  /\ At("retrieve") /\ rc.todo = {}
  /\ \E s \in BestFirst(rc.hits, rc.topK, VectorScore) :
       rc' = [rc EXCEPT !.ranked = s, !.pc = IF s = <<>> THEN "assess" ELSE "chunks"]
  /\ UNCHANGED stores
(* group.Wait: without any hit an error counts, with one it is dropped. *)
Gather ==
  /\ At("retrieve") /\ rc.todo = {}
  /\ IF rc.hits = {} /\ rc.errs > 0
       THEN rc' = [rc EXCEPT !.pc = "error"]
       ELSE \E s \in BestFirst(rc.hits, rc.topK, VectorScore) :
              rc' = [rc EXCEPT !.ranked = s, !.pc = IF s = <<>> THEN "assess" ELSE "chunks"]
  /\ UNCHANGED stores

(* A plausible slip: the last batch of ids ends one too early. *)
LoadChunksShort ==
  /\ At("chunks")
  /\ rc' = [rc EXCEPT !.loaded = Range(Front(rc.ranked)) \cap rows, !.pc = "rerank"]
  /\ UNCHANGED stores

LoadChunks ==
  /\ At("chunks")
  /\ rc' = [rc EXCEPT !.loaded = Range(rc.ranked) \cap rows, !.pc = "rerank"]
  /\ UNCHANGED stores

Rerank ==
  /\ At("rerank")
  /\ rc' = [rc EXCEPT !.ranked = Sorted(@), !.pc = "assess"]
  /\ UNCHANGED stores

(* assessContext, its end: too little confidence refuses. *)
Judged(r, s) ==
  [r EXCEPT !.confidence = Confidence(s), !.ranked = s,
            !.refused = @ \/ s = <<>> \/ Confidence(s) < r.threshold,
            !.pc = IF r.refused \/ s = <<>> \/ Confidence(s) < r.threshold
                   THEN "record" ELSE "generate"]

Doubtful == Len(rc.ranked) > 1 /\ Confidence(rc.ranked) < rc.threshold
Assess ==
  /\ At("assess")
  /\ rc' = IF Doubtful THEN [rc EXCEPT !.pc = "cross"] ELSE Judged(rc, rc.ranked)
  /\ UNCHANGED stores

(* crossEncoderRerank; its errors are dropped. *)
CrossRerank ==
  /\ At("cross")
  /\ \E order \in Orders :
       rc' = Judged([rc EXCEPT !.crossed = TRUE], Reordered(rc.ranked, order))
  /\ UNCHANGED stores

CrossFails ==
  /\ At("cross")
  /\ rc.failures < MaxFailures
  /\ rc' = Judged([rc EXCEPT !.failures = @ + 1], rc.ranked)
  /\ UNCHANGED stores

Generate ==
  /\ At("generate")
  /\ rc' = [rc EXCEPT !.pc = "record"]
  /\ UNCHANGED stores

(* RecordRAGExchange, when the request names a session; then the answer,    *)
(* which the encoder refuses when a string of it is not UTF-8: snippets are *)
(* cut at a byte.                                                           *)
Encodable == Range(rc.ranked) \cap rc.loaded \cap CutInCharacter = {}
Record ==
  /\ At("record")
  /\ rc' = [rc EXCEPT !.saved = rc.session, !.pc = IF Encodable THEN "answered" ELSE "error"]
  /\ UNCHANGED stores

(* A call of the pipeline returns an error: so does the request. *)
CallFails ==
  /\ rc.pc \in {"resolve", "embed", "chunks", "generate"} \/ (At("record") /\ rc.session)
  /\ rc.failures < MaxFailures
  /\ \E s \in {FALSE, At("record")} :   \* a failed commit may have been one
       rc' = [rc EXCEPT !.pc = "error", !.failures = @ + 1, !.saved = s]
  /\ UNCHANGED stores

Return ==
  /\ rc.pc \in {"answered", "error"}
  /\ rc' = NoRequest
  /\ UNCHANGED stores

Answering ==
  \/ Resolve \/ Embed \/ (\E k \in KBs : Search(k) \/ SearchFails(k)) \/ Gather
  \/ LoadChunks \/ Rerank \/ Assess \/ CrossRerank \/ CrossFails \/ Generate \/ Record
  \/ CallFails \/ Return

-----------------------------------------------------------------------------
(* What happens to the stores meanwhile, with the writes in the order of    *)
(* IndexDocumentVersion and DeleteDocumentVersionIndex.                     *)

Change ==
  /\ changes < MaxChanges /\ changes' = changes + 1
  /\ rc' = [rc EXCEPT !.touched = ~ At("idle")]

IndexPoint(c)  == c \notin points /\ points' = points \cup {c} /\ UNCHANGED <<rows, bound>>
IndexRow(c)    == c \in points \ rows /\ rows' = rows \cup {c} /\ UNCHANGED <<points, bound>>
CleanRow(c)    == c \in rows /\ rows' = rows \ {c} /\ UNCHANGED <<points, bound>>
CleanPoint(c)  == c \in points \ rows /\ points' = points \ {c} /\ UNCHANGED <<rows, bound>>
Bind(k)        == k \notin bound /\ bound' = bound \cup {k} /\ UNCHANGED <<points, rows>>
Unbind(k)      == k \in bound /\ bound' = bound \ {k} /\ UNCHANGED <<points, rows>>

World ==
  /\ Change
  /\ \/ \E c \in Chunks : IndexPoint(c) \/ IndexRow(c) \/ CleanRow(c) \/ CleanPoint(c)
     \/ \E k \in KBs : Bind(k) \/ Unbind(k)

Next == Ask \/ Answering \/ World

Spec == Init /\ [][Next]_vars

-----------------------------------------------------------------------------
Steps == {"idle", "resolve", "embed", "retrieve", "chunks", "rerank", "assess", "cross",
          "generate", "record", "answered", "error"}

TypeOK ==
  /\ points \subseteq Chunks /\ rows \subseteq Chunks /\ bound \subseteq KBs
  /\ changes \in 0 .. MaxChanges
  /\ rc \in [pc : Steps, topK : TopKs \cup {1}, threshold : Thresholds \cup {0},
             session : BOOLEAN, kbs : SUBSET KBs, todo : SUBSET KBs, hits : SUBSET Chunks,
             errs : 0 .. MaxFailures, ranked : Seq(Chunks), loaded : SUBSET Chunks,
             confidence : Percents, crossed : BOOLEAN, refused : BOOLEAN, saved : BOOLEAN,
             failures : 0 .. MaxFailures, touched : BOOLEAN]

(* The evidence there is, as long as the stores rest. *)
Candidates == UNION {Matching(k, points) : k \in rc.kbs}
Rested     == ~ rc.touched

(* A customer is told that nothing is known only when nothing is: a search  *)
(* that failed is never mistaken for one that found nothing, though errors  *)
(* of single searches are dropped.                                          *)
NothingFoundIsNothingThere ==
  At("answered") /\ rc.hits = {} /\ Rested => Candidates = {}

(* Searching each knowledge base for its own best, by the similarity alone, *)
(* and merging what comes back under the weights of the bindings loses      *)
(* nothing: what is kept is the best of all the evidence together.          *)
BestEvidenceKept ==
  rc.pc \in {"chunks", "rerank"} /\ Rested /\ rc.errs = 0 =>
    /\ Cardinality(Range(rc.ranked)) = Least(rc.topK, Cardinality(Candidates))
    /\ \A c \in Range(rc.ranked), d \in Candidates \ Range(rc.ranked) :
         VectorScore[c] >= VectorScore[d]

(* The model's reranking of a doubtful answer can never save it, as long as *)
(* Orders repeats no id: confidence does not look at the new order except   *)
(* through the first three scores, and those were the best three already.   *)
RerankingNeverRescues == rc.crossed /\ rc.pc \in {"record", "generate", "answered"} => rc.refused

(* While the stores rest, everything cited was read, and a model that is    *)
(* asked is shown the best piece of evidence first.                         *)
GroundedAtRest ==
  rc.pc \in {"generate", "record", "answered"} /\ Rested =>
    /\ Range(rc.ranked) \subseteq rc.loaded
    /\ ~ rc.refused => 1 \in Shown(rc.ranked, rc.loaded)

=============================================================================
