-------------------------- MODULE MCAnswerPipeline --------------------------
(* An instance of AnswerPipeline: two knowledge bases, one with twice the   *)
(* weight of the other, two chunks in each; two chunks of different         *)
(* documents have the same text.                                            *)
EXTENDS AnswerPipeline

CONSTANTS k1, k2, c1, c2, c3, c4, Unknown

MCKBs        == {k1, k2}
MCChunks     == {c1, c2, c3, c4}
MCKBOf       == [c \in MCChunks |-> IF c \in {c1, c2} THEN k1 ELSE k2]
MCDocOf      == [c \in MCChunks |-> IF c \in {c1, c4} THEN "manual" ELSE "faq"]
MCTextOf     == [c \in MCChunks |-> IF c \in {c1, c3} THEN "same" ELSE IF c = c2 THEN "two" ELSE "four"]
MCWeight     == [k \in MCKBs |-> IF k = k1 THEN 0 ELSE 2]
MCSimilarity == [c \in MCChunks |-> CASE c = c1 -> 90 [] c = c2 -> 30 [] c = c3 -> 80 [] c = c4 -> 12]
MCOverlap    == [c \in MCChunks |-> CASE c = c1 -> 110 [] c = c2 -> 120 [] c = c3 -> 100 [] c = c4 -> 50]

(* A model that ranks ids at most once, unknown ids included. *)
Lists(n)      == UNION {[1 .. m -> MCChunks \cup {Unknown}] : m \in 0 .. n}
OnceOrders    == {s \in Lists(4) : IsInjective(s)}
=============================================================================
